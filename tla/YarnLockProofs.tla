---------------------------- MODULE YarnLockProofs ----------------------------
(***************************************************************************)
(* Proofs about YarnLock for every set of yarns and every nesting.         *)
(*                                                                         *)
(* The fields depth and sitter are written without atomic operations.  The *)
(* invariant says why that is sound for depth: the yarn whose pid is in    *)
(* the lock word is the one whose label or whose calls to undo say that it *)
(* holds the lock, and only such a yarn reads or writes depth.             *)
(***************************************************************************)
EXTENDS YarnLock, TLAPS

Holding(y) == \/ pc[y] \in {"own", "test", "clear", "dec", "release"}
              \/ pc[y] = "idle" /\ nest[y] > 0

HolderInv ==
    \A y \in Yarn :
        /\ lock = y <=> Holding(y)
        /\ pc[y] \notin {"idle", "dec"} => nest[y] = 0
        /\ pc[y] \in {"test", "clear"} => depth = 1
        /\ pc[y] = "dec" => depth = nest[y]
        /\ pc[y] = "idle" /\ nest[y] > 0 => depth = nest[y]

Inv == TypeOK /\ HolderInv

\* The lock is free at the start.
LEMMA InitInv == Init => Inv /\ SitterWaits
BY FreeAssumption
   DEF Init, Inv, TypeOK, Label, HolderInv, Holding, SitterWaits

\* One step per action: the yarn that takes it is the only one whose label or
\* count changes, and it holds the lock whenever it touches depth.
LEMMA NextInv == Inv /\ [Next]_vars => Inv'
<1> SUFFICES ASSUME Inv, [Next]_vars PROVE Inv'
  OBVIOUS
<1> USE FreeAssumption DEF Inv, TypeOK, Label, HolderInv, Holding
<1>1. CASE UNCHANGED vars
  BY <1>1 DEF vars
<1>2. ASSUME NEW y \in Yarn, Reenter(y) PROVE Inv'
  BY <1>2 DEF Reenter
<1>3. ASSUME NEW y \in Yarn, Lock(y) PROVE Inv'
  <2>1. CASE LockCall(y)
    BY <2>1 DEF LockCall, Goto
  <2>2. CASE Acquire(y)
    BY <2>2 DEF Acquire, Goto, Cas
  <2>3. CASE Fail(y)
    BY <2>3 DEF Fail, Goto
  <2>4. CASE Sit(y)
    BY <2>4 DEF Sit, Goto
  <2>5. CASE Own(y)
    BY <2>5 DEF Own, Goto
  <2>6. CASE Test(y)
    BY <2>6 DEF Test, Goto
  <2>7. CASE Clear(y)
    BY <2>7 DEF Clear, Goto
  <2> QED
    BY <1>3, <2>1, <2>2, <2>3, <2>4, <2>5, <2>6, <2>7 DEF Lock
<1>4. ASSUME NEW y \in Yarn, Unlock(y) PROVE Inv'
  <2>1. CASE UnlockCall(y)
    BY <2>1 DEF UnlockCall, Goto
  <2>2. CASE UnlockTest(y)
    BY <2>2 DEF UnlockTest, Goto, LetGo
  <2>3. CASE Release(y)
    BY <2>3 DEF Release, Goto
  <2> QED
    BY <1>4, <2>1, <2>2, <2>3 DEF Unlock
<1> QED
  BY <1>1, <1>2, <1>3, <1>4 DEF Next

\* Every variable keeps its type; in particular depth never goes below zero.
THEOREM TypeCorrect == Spec => []TypeOK
<1>1. Inv => TypeOK
  BY DEF Inv
<1> QED
  BY <1>1, InitInv, NextInv, PTL DEF Spec

\* One yarn is in the word, so that one yarn holds the lock.
LEMMA InvMutex == Inv => Mutex
<1> SUFFICES ASSUME Inv, NEW y \in Yarn, nest[y] > 0
             PROVE  /\ lock = y
                    /\ \A z \in Yarn \ {y} : nest[z] = 0
  BY DEF Mutex
<1>1. \A x \in Yarn : nest[x] > 0 => lock = x
  BY DEF Inv, TypeOK, HolderInv, Holding
<1> QED
  BY <1>1 DEF Inv, TypeOK

\* A yarn between its first lock and its last unlock is alone there.
THEOREM MutualExclusion == Spec => []Mutex
BY InitInv, NextInv, InvMutex, PTL DEF Spec

\* The count that decides when the lock is let go is the number of calls the
\* owner has to undo.
THEOREM DepthCorrect == Spec => []DepthExact
<1>1. Inv => DepthExact
  BY DEF Inv, HolderInv, Holding, DepthExact
<1> QED
  BY <1>1, InitInv, NextInv, PTL DEF Spec

\* A yarn leaves yarn_lock_lock through Test or Clear, and then sitter is
\* another yarn or nobody; only Sit makes a yarn the sitter.
LEMMA NextSitter == Inv /\ SitterWaits /\ [Next]_vars => SitterWaits'
<1> SUFFICES ASSUME Inv, SitterWaits, [Next]_vars PROVE SitterWaits'
  OBVIOUS
<1> USE FreeAssumption DEF Inv, TypeOK, Label, SitterWaits
<1>1. CASE UNCHANGED vars
  BY <1>1 DEF vars
<1>2. ASSUME NEW y \in Yarn, Reenter(y) PROVE SitterWaits'
  BY <1>2 DEF Reenter
<1>3. ASSUME NEW y \in Yarn, Lock(y) PROVE SitterWaits'
  <2>1. CASE Sit(y)
    BY <2>1 DEF Sit, Goto
  <2>2. CASE Test(y)
    BY <2>2 DEF Test, Goto, IsSitter
  <2>3. CASE Clear(y)
    BY <2>3 DEF Clear, Goto
  <2>4. CASE LockCall(y) \/ Acquire(y) \/ Fail(y) \/ Own(y)
    BY <2>4 DEF LockCall, Acquire, Fail, Own, Goto
  <2> QED
    BY <1>3, <2>1, <2>2, <2>3, <2>4 DEF Lock
<1>4. ASSUME NEW y \in Yarn, Unlock(y) PROVE SitterWaits'
  BY <1>4 DEF Unlock, UnlockCall, UnlockTest, Release, Goto
<1> QED
  BY <1>1, <1>2, <1>3, <1>4 DEF Next

\* The sitter hint only ever names a yarn that is inside of yarn_lock_lock.
THEOREM SitterCorrect == Spec => []SitterWaits
BY InitInv, NextInv, NextSitter, PTL DEF Spec
=============================================================================
