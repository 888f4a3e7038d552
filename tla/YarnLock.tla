------------------------------- MODULE YarnLock -------------------------------
(***************************************************************************)
(* The recursive lock that yarns use, yarn_lock_t of                       *)
(* src/include/yarns/sync.h.                                               *)
(*                                                                         *)
(* Each yarn is a process: yarns run on several cores at once, and a yarn  *)
(* that yields comes back in the end.  A label is a point between two      *)
(* accesses to the fields of the lock.  yarn_yield ignores its target, so  *)
(* that the value of sitter is only a hint.                                *)
(***************************************************************************)
EXTENDS Naturals

CONSTANTS Yarn,         \* the pids of the yarns that use the lock
          Free,         \* pid 0: nobody
          MaxNest       \* bound: how often a yarn locks before it unlocks

ASSUME FreeAssumption == Free \notin Yarn

VARIABLES lock,         \* the pid of the owner
          depth,        \* how often the owner holds it
          sitter,       \* a yarn that waits
          pc,           \* where in sync.h the yarn is
          nest          \* how many calls of lock the yarn has to undo

vars == <<lock, depth, sitter, pc, nest>>

\* "idle" is the yarn's own code, with or without the lock.
Label == {"idle", "try", "sit", "own", "test", "clear", "dec",
          "release"}

TypeOK == /\ lock \in Yarn \union {Free}
          /\ depth \in Nat
          /\ sitter \in Yarn \union {Free}
          /\ pc \in [Yarn -> Label]
          /\ nest \in [Yarn -> Nat]

Goto(y, label) == pc' = [pc EXCEPT ![y] = label]

\* atomic_cswap_value(&(lock->lock), 0, pid)
CasBlind(pid) == lock' = pid
Cas(pid) == lock = Free /\ lock' = pid

\* The tests of yarn_lock_unlock and of the end of yarn_lock_lock.
LetGoEarly == depth <= 1
LetGoNever == depth > 1
LetGo == depth = 0
IsSitterNever(y) == FALSE
IsSitter(y) == sitter = y

-----------------------------------------------------------------------------
\* yarn_lock_init
Init == /\ lock = Free /\ depth = 0 /\ sitter = Free
        /\ pc = [y \in Yarn |-> "idle"]
        /\ nest = [y \in Yarn |-> 0]

\* yarn_lock_lock by the yarn that holds the lock ...
Reenter(y) == /\ pc[y] = "idle"
              /\ lock = y
              /\ nest[y] < MaxNest
              /\ depth' = depth + 1
              /\ nest' = [nest EXCEPT ![y] = @ + 1]
              /\ UNCHANGED <<lock, sitter, pc>>

\* ... and by another one.
LockCall(y) == /\ pc[y] = "idle"
               /\ lock # y
               /\ nest[y] < MaxNest
               /\ Goto(y, "try")
               /\ UNCHANGED <<lock, depth, sitter, nest>>

Acquire(y) == /\ pc[y] = "try"
              /\ Cas(y)
              /\ Goto(y, "own")
              /\ UNCHANGED <<depth, sitter, nest>>

Fail(y) == /\ pc[y] = "try"
           /\ lock # Free
           /\ Goto(y, "sit")
           /\ UNCHANGED <<lock, depth, sitter, nest>>

\* lock->sitter = pid, and the yield.
Sit(y) == /\ pc[y] = "sit"
          /\ sitter' = y
          /\ Goto(y, "try")
          /\ UNCHANGED <<lock, depth, nest>>

\* lock->depth = 1
Own(y) == /\ pc[y] = "own"
          /\ depth' = 1
          /\ Goto(y, "test")
          /\ UNCHANGED <<lock, sitter, nest>>

\* The test of the sitter; yarn_lock_lock returns, or clears it first.
Test(y) == /\ pc[y] = "test"
           /\ IF IsSitter(y)
              THEN Goto(y, "clear") /\ UNCHANGED nest
              ELSE Goto(y, "idle") /\ nest' = [nest EXCEPT ![y] = 1]
           /\ UNCHANGED <<lock, depth, sitter>>

Clear(y) == /\ pc[y] = "clear"
            /\ sitter' = Free
            /\ nest' = [nest EXCEPT ![y] = 1]
            /\ Goto(y, "idle")
            /\ UNCHANGED <<lock, depth>>

-----------------------------------------------------------------------------
\* yarn_lock_unlock: a yarn undoes its own calls.
UnlockCall(y) == /\ pc[y] = "idle"
                 /\ nest[y] > 0
                 /\ depth' = depth - 1
                 /\ nest' = [nest EXCEPT ![y] = @ - 1]
                 /\ Goto(y, "dec")
                 /\ UNCHANGED <<lock, sitter>>

UnlockTest(y) == /\ pc[y] = "dec"
                 /\ Goto(y, IF LetGo THEN "release" ELSE "idle")
                 /\ UNCHANGED <<lock, depth, sitter, nest>>

\* lock->lock = 0, and the yield.
Release(y) == /\ pc[y] = "release"
              /\ lock' = Free
              /\ Goto(y, "idle")
              /\ UNCHANGED <<depth, sitter, nest>>

-----------------------------------------------------------------------------
Lock(y) == LockCall(y) \/ Acquire(y) \/ Fail(y) \/ Sit(y) \/ Own(y)
              \/ Test(y) \/ Clear(y)
Unlock(y) == UnlockCall(y) \/ UnlockTest(y) \/ Release(y)

Next == \E y \in Yarn : Reenter(y) \/ Lock(y) \/ Unlock(y)

Spec == Init /\ [][Next]_vars

\* A yarn inside of lock or unlock runs on, and one that holds the lock lets
\* it go in the end, however often it locks it again before.
Fairness ==
    \A y \in Yarn : /\ WF_vars(Lock(y) /\ ~LockCall(y))
                    /\ WF_vars(UnlockTest(y) \/ Release(y))
                    /\ SF_vars(UnlockCall(y) /\ nest[y] = 1)
                    /\ WF_vars(UnlockCall(y))

FairSpec == Spec /\ Fairness

-----------------------------------------------------------------------------
(* Properties.                                                             *)

\* Between the return of its first lock and its last unlock a yarn is alone,
\* however the compare-and-swaps of other cores fall in between, and the lock
\* is free only when nobody has calls to undo.
Mutex ==
    \A y \in Yarn : nest[y] > 0 => /\ lock = y
                                   /\ \A z \in Yarn \ {y} : nest[z] = 0

\* depth, which is written without any atomic operation, counts the calls the
\* owner has to undo: the owner of a lock that was taken twice does not let
\* it go at the first unlock, and a new owner does not inherit a count.
DepthExact ==
    \A y \in Yarn : pc[y] = "idle" /\ lock = y => depth = nest[y]

\* The hint never names a yarn that has left yarn_lock_lock: a yarn that
\* unlocks never yields to one that is not waiting, although the test and
\* the reset of sitter are two steps that other yarns may write between.
SitterWaits ==
    \A y \in Yarn : sitter = y => pc[y] \in {"try", "sit", "own", "test", "clear"}

\* As long as yarns want the lock it is taken again and again: it is never
\* left behind locked.  That each of them gets it is not promised.
LockIsTaken ==
    (\E y \in Yarn : pc[y] = "try") ~> (\E y \in Yarn : pc[y] = "own")

=============================================================================
