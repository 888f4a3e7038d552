-------------------------------- MODULE RwLock --------------------------------
(***************************************************************************)
(* The read-write lock that yarns use, yarn_rwlock_t of                    *)
(* src/include/yarns/sync.h.                                               *)
(*                                                                         *)
(* Each yarn is a process, as in YarnLock.  The lock word is a record of   *)
(* its three fields.  A yarn that has loaded the word keeps it in old      *)
(* until its compare-and-swap; yields are left out, since a yarn may stop  *)
(* at any label.                                                           *)
(***************************************************************************)
EXTENDS Naturals

CONSTANTS Yarn,         \* the pids of the yarns that use the lock
          Nobody        \* pid 0

VARIABLES lock,         \* the lock word
          writer,       \* the yarn that announced itself last
          pc,           \* where in sync.h the yarn is
          old,          \* oldValue of the loop the yarn is in
          new           \* newValue of the loop the yarn is in

vars == <<lock, writer, pc, old, new>>

\* The lock word: bits 0 to 29, bit 30 and bit 31.
Word == [readers : Nat, locked : BOOLEAN, waiting : BOOLEAN]
Unlocked == [readers |-> 0, locked |-> FALSE, waiting |-> FALSE]
WaitingOnly == [Unlocked EXCEPT !.waiting = TRUE]
LockedOnly == [Unlocked EXCEPT !.locked = TRUE]

\* "idle" holds nothing, "reader" and "writer" hold the lock.
Label == {"idle", "readLoad", "readCas", "reader",
          "orLoad", "orCas", "announce", "take", "writer",
          "clearLoad", "clearValue", "clearCas", "retract"}

Goto(y, label) == pc' = [pc EXCEPT ![y] = label]

\* oldValue = lock->lock
Load(y) == old' = [old EXCEPT ![y] = lock]

\* atomic_cswap_value(&(lock->lock), oldValue, value), and the loop around it.
CasOrRetry(y, value, done, retry) ==
    IF lock = old[y]
    THEN lock' = value /\ Goto(y, done)
    ELSE Goto(y, retry) /\ UNCHANGED lock

\* yarn_rwlock_init
Init == /\ lock = Unlocked /\ writer = Nobody
        /\ pc = [y \in Yarn |-> "idle"]
        /\ old = [y \in Yarn |-> Unlocked]
        /\ new = [y \in Yarn |-> Unlocked]

-----------------------------------------------------------------------------
\* A yarn that holds nothing calls read_lock or write_lock, and one that
\* holds the lock gives it back.
Call(y) ==
    /\ \/ pc[y] = "idle" /\ (Goto(y, "readLoad") \/ Goto(y, "orLoad"))
       \/ pc[y] = "writer" /\ Goto(y, "clearLoad")
    /\ UNCHANGED <<lock, writer, old, new>>

\* yarn_rwlock_read_lock
ReadLoad(y) == /\ pc[y] = "readLoad"
               /\ ~lock.locked /\ ~lock.waiting
               /\ Load(y)
               /\ Goto(y, "readCas")
               /\ UNCHANGED <<lock, writer, new>>

ReadCas(y) == /\ pc[y] = "readCas"
              /\ CasOrRetry(y, [old[y] EXCEPT !.readers = @ + 1],
                            "reader", "readLoad")
              /\ UNCHANGED <<writer, old, new>>

\* yarn_rwlock_read_unlock: atomic_add(&(lock->lock), -1)
ReadUnlock(y) == /\ pc[y] = "reader"
                 /\ lock' = [lock EXCEPT !.readers = @ - 1]
                 /\ Goto(y, "idle")
                 /\ UNCHANGED <<writer, old, new>>

-----------------------------------------------------------------------------
\* yarn_rwlock_write_lock: set the waiting bit ...
OrLoad(y) == /\ pc[y] = "orLoad"
             /\ Load(y)
             /\ Goto(y, "orCas")
             /\ UNCHANGED <<lock, writer, new>>

OrCas(y) == /\ pc[y] = "orCas"
            /\ CasOrRetry(y, [old[y] EXCEPT !.waiting = TRUE],
                          "announce", "orLoad")
            /\ UNCHANGED <<writer, old, new>>

\* ... say who waits ...
Announce(y) == /\ pc[y] = "announce"
               /\ writer' = y
               /\ Goto(y, "take")
               /\ UNCHANGED <<lock, old, new>>

\* ... and spin until the waiting bit is the only one.
Take(y) == /\ pc[y] = "take"
           /\ lock = WaitingOnly
           /\ lock' = LockedOnly
           /\ Goto(y, "writer")
           /\ UNCHANGED <<writer, old, new>>

-----------------------------------------------------------------------------
\* yarn_rwlock_write_unlock: the word is loaded twice, for oldValue and for
\* newValue, and what is cleared is the waiting bit.
ClearLoad(y) == /\ pc[y] = "clearLoad"
                /\ Load(y)
                /\ Goto(y, "clearValue")
                /\ UNCHANGED <<lock, writer, new>>

ClearValue(y) == /\ pc[y] = "clearValue"
                 /\ new' = [new EXCEPT ![y] = [lock EXCEPT !.waiting = FALSE]]
                 /\ Goto(y, "clearCas")
                 /\ UNCHANGED <<lock, writer, old>>

ClearCas(y) == /\ pc[y] = "clearCas"
               /\ CasOrRetry(y, new[y], "retract", "clearLoad")
               /\ UNCHANGED <<writer, old, new>>

\* atomic_cswap_value(&(lock->writer), pid, 0)
Retract(y) == /\ pc[y] = "retract"
              /\ writer' = IF writer = y THEN Nobody ELSE writer
              /\ Goto(y, "idle")
              /\ UNCHANGED <<lock, old, new>>

-----------------------------------------------------------------------------
Read(y) == ReadLoad(y) \/ ReadCas(y) \/ ReadUnlock(y)
Write(y) == OrLoad(y) \/ OrCas(y) \/ Announce(y) \/ Take(y)
WriteUnlock(y) == ClearLoad(y) \/ ClearValue(y) \/ ClearCas(y) \/ Retract(y)

Next == \E y \in Yarn : Call(y) \/ Read(y) \/ Write(y) \/ WriteUnlock(y)

Spec == Init /\ [][Next]_vars

-----------------------------------------------------------------------------
\* The word of a lock that nobody holds and nobody waits for is 0, as the
\* comment at the type says, so that the next yarn can take it.  It is not
\* once the lock was held for writing: write_unlock clears the bit of the
\* waiting writer, which write_lock has already replaced by the other one.
NobodyMeansUnlocked == (\A y \in Yarn : pc[y] = "idle") => lock = Unlocked

=============================================================================
