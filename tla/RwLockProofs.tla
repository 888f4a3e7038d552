----------------------------- MODULE RwLockProofs -----------------------------
(***************************************************************************)
(* Proofs about RwLock for any set of yarns: what the reader-writer lock   *)
(* keeps although its write_unlock does not unlock.                        *)
(*                                                                         *)
(* The invariant ties the word to the places of the yarns: it counts the   *)
(* yarns that read, and its locked bit, bit 30, is set as long as a yarn   *)
(* writes or is on its way out.                                            *)
(***************************************************************************)
EXTENDS RwLock, FiniteSetTheorems, TLAPS

\* The yarns that hold the lock for reading.
Readers == {y \in Yarn : pc[y] = "reader"}

\* A yarn has the lock for writing, or has not yet given it back.
Writing(y) == pc[y] \in {"writer", "clearLoad", "clearValue", "clearCas"}

TypeInv == /\ lock \in Word /\ writer \in Yarn \union {Nobody}
           /\ pc \in [Yarn -> Label]
           /\ old \in [Yarn -> Word] /\ new \in [Yarn -> Word]

\* Bits 0 to 29 count the readers.
CountInv == IsFiniteSet(Readers) /\ lock.readers = Cardinality(Readers)

\* What the word that a yarn has loaded, or will store, says.
WordInv ==
    /\ lock.locked => lock.readers = 0
    /\ \A y \in Yarn :
          /\ pc[y] = "readCas" => ~old[y].locked
          /\ pc[y] = "clearCas" => new[y].locked /\ new[y].readers = 0
          /\ Writing(y) => lock.locked
          /\ \A z \in Yarn : Writing(y) /\ Writing(z) => y = z

Inv == TypeInv /\ CountInv /\ WordInv

-----------------------------------------------------------------------------
(* The lock word.                                                          *)

\* What the lock stores is a word again ...
LEMMA WordFacts ==
    ASSUME NEW w \in Word
    PROVE  /\ w.readers \in Nat
           /\ [w EXCEPT !.readers = @ + 1] \in Word
           /\ [w EXCEPT !.waiting = TRUE] \in Word
           /\ [w EXCEPT !.waiting = FALSE] \in Word
           /\ w.readers # 0 => [w EXCEPT !.readers = @ - 1] \in Word
<1>1. w.readers \in Nat /\ w.locked \in BOOLEAN /\ w.waiting \in BOOLEAN
  BY DEF Word
<1>2. ASSUME NEW n \in Nat
      PROVE  [w EXCEPT !.readers = n] \in Word
  BY <1>2 DEF Word
<1>3. ASSUME NEW b \in BOOLEAN
      PROVE  [w EXCEPT !.waiting = b] \in Word
  BY <1>3 DEF Word
<1>4. w.readers + 1 \in Nat /\ (w.readers # 0 => w.readers - 1 \in Nat)
  BY <1>1
<1> QED
  BY <1>1, <1>2, <1>3, <1>4

\* ... and so are the three that it compares with or starts from.
LEMMA WordConstants == {Unlocked, WaitingOnly, LockedOnly} \subseteq Word
<1>1. Unlocked \in Word
  BY DEF Unlocked, Word
<1>2. WaitingOnly \in Word
  BY <1>1, WordFacts DEF WaitingOnly
<1>3. LockedOnly \in Word
  BY DEF LockedOnly, Unlocked, Word
<1> QED
  BY <1>1, <1>2, <1>3

-----------------------------------------------------------------------------
(* The steps.                                                              *)

\* Nobody has the lock at the start.
LEMMA InitInv == Init => Inv
<1> SUFFICES ASSUME Init PROVE Inv
  OBVIOUS
<1>1. TypeInv
  BY DEF Init, TypeInv, Unlocked, Word, Label
<1>2. CountInv
  <2>1. Readers = {}
    BY DEF Init, Readers
  <2> QED
    BY <2>1, FS_EmptySet DEF Init, CountInv, Unlocked
<1>3. WordInv
  BY DEF Init, WordInv, Writing, Unlocked
<1> QED
  BY <1>1, <1>2, <1>3 DEF Inv

\* A step that does not change who reads, nor the count, keeps the count.
LEMMA SameCount ==
    ASSUME CountInv, Readers' = Readers, lock'.readers = lock.readers
    PROVE  CountInv'
BY DEF CountInv

\* A step keeps the types.
LEMMA NextTypeInv == Inv /\ [Next]_vars => TypeInv'
<1> SUFFICES ASSUME Inv, [Next]_vars PROVE TypeInv'
  OBVIOUS
<1> USE DEF Inv, TypeInv, Goto, Load, CasOrRetry, Label
<1>1. CASE UNCHANGED vars
  BY <1>1 DEF vars
<1>2. ASSUME NEW y \in Yarn, Call(y) \/ OrLoad(y) \/ Announce(y) \/ ReadLoad(y)
                             \/ ClearLoad(y) \/ Retract(y)
      PROVE  TypeInv'
  BY <1>2 DEF Call, OrLoad, Announce, ReadLoad, ClearLoad, Retract
<1>3. ASSUME NEW y \in Yarn, ReadCas(y) \/ OrCas(y) \/ Take(y) \/ ClearValue(y)
                             \/ ClearCas(y)
      PROVE  TypeInv'
  <2>1. CASE ReadCas(y) \/ OrCas(y)
    BY <2>1, WordFacts DEF ReadCas, OrCas
  <2>2. CASE Take(y)
    BY <2>2, WordConstants DEF Take
  <2>3. CASE ClearValue(y)
    <3>1. new' \in [Yarn -> Word]
      BY <2>3, WordFacts DEF ClearValue
    <3> QED
      BY <2>3, <3>1 DEF ClearValue
  <2>4. CASE ClearCas(y)
    BY <2>4 DEF ClearCas
  <2> QED
    BY <1>3, <2>1, <2>2, <2>3, <2>4
<1>4. ASSUME NEW y \in Yarn, ReadUnlock(y)
      PROVE  TypeInv'
  <2>1. y \in Readers
    BY <1>4 DEF ReadUnlock, Readers
  <2>2. lock.readers # 0
    BY <2>1, FS_EmptySet DEF CountInv
  <2> QED
    BY <1>4, <2>2, WordFacts DEF ReadUnlock
<1> QED
  BY <1>1, <1>2, <1>3, <1>4 DEF Next, Read, Write, WriteUnlock

\* A step keeps the count of the readers.
LEMMA NextCountInv == Inv /\ [Next]_vars => CountInv'
<1> SUFFICES ASSUME Inv, [Next]_vars PROVE CountInv'
  OBVIOUS
<1> USE DEF Inv, TypeInv, Goto, CasOrRetry, Load
<1>1. CASE UNCHANGED vars
  BY <1>1, SameCount DEF vars, Readers
<1>2. ASSUME NEW y \in Yarn,
             Call(y) \/ OrLoad(y) \/ Announce(y) \/ ReadLoad(y) \/ ClearLoad(y)
             \/ ClearValue(y) \/ Retract(y)
      PROVE  CountInv'
  <2>1. Readers' = Readers /\ lock' = lock
    BY <1>2 DEF Call, OrLoad, Announce, ReadLoad, ClearLoad, ClearValue,
                Retract, Readers
  <2> QED
    BY <2>1, SameCount
<1>3. ASSUME NEW y \in Yarn, OrCas(y) \/ Take(y) \/ ClearCas(y)
      PROVE  CountInv'
  <2>1. Readers' = Readers
    BY <1>3 DEF OrCas, Take, ClearCas, Readers
  <2>2. lock'.readers = lock.readers
    BY <1>3 DEF OrCas, Take, ClearCas, Word, WaitingOnly, LockedOnly, Unlocked,
                WordInv, Writing
  <2> QED
    BY <2>1, <2>2, SameCount
<1>4. ASSUME NEW y \in Yarn, ReadCas(y)
      PROVE  CountInv'
  <2>1. CASE lock = old[y]
    <3>1. Readers' = Readers \union {y} /\ y \notin Readers
      BY <1>4, <2>1 DEF ReadCas, Readers
    <3>2. lock'.readers = lock.readers + 1
      BY <1>4, <2>1 DEF ReadCas, Word
    <3> QED
      BY <3>1, <3>2, FS_AddElement DEF CountInv
  <2>2. CASE lock # old[y]
    <3>1. Readers' = Readers /\ lock' = lock
      BY <1>4, <2>2 DEF ReadCas, Readers
    <3> QED
      BY <3>1, SameCount
  <2> QED
    BY <2>1, <2>2
<1>5. ASSUME NEW y \in Yarn, ReadUnlock(y)
      PROVE  CountInv'
  <2>1. Readers' = Readers \ {y} /\ y \in Readers
    BY <1>5 DEF ReadUnlock, Readers
  <2>2. lock'.readers = lock.readers - 1
    BY <1>5 DEF ReadUnlock, Word
  <2> QED
    BY <2>1, <2>2, FS_RemoveElement DEF CountInv
<1> QED
  BY <1>1, <1>2, <1>3, <1>4, <1>5 DEF Next, Read, Write, WriteUnlock

\* A step keeps what the words say.
LEMMA NextWordInv == Inv /\ [Next]_vars => WordInv'
<1> SUFFICES ASSUME Inv, [Next]_vars PROVE WordInv'
  OBVIOUS
<1> USE DEF Inv, TypeInv, WordInv, Writing, Goto, Load, CasOrRetry
<1>1. CASE UNCHANGED vars
  BY <1>1 DEF vars
<1>2. ASSUME NEW y \in Yarn, Call(y) \/ OrLoad(y) \/ Announce(y) \/ ReadLoad(y)
                             \/ ClearLoad(y) \/ Retract(y)
      PROVE  WordInv'
  BY <1>2 DEF Call, OrLoad, Announce, ReadLoad, ClearLoad, Retract
<1>3. ASSUME NEW y \in Yarn, ReadCas(y)
      PROVE  WordInv'
  BY <1>3 DEF ReadCas, Word
<1>4. ASSUME NEW y \in Yarn, ReadUnlock(y)
      PROVE  WordInv'
  <2>1. lock.readers # 0
    <3>1. y \in Readers
      BY <1>4 DEF ReadUnlock, Readers
    <3> QED
      BY <3>1, FS_EmptySet DEF CountInv
  <2>2. ~lock'.locked
    BY <1>4, <2>1 DEF ReadUnlock, Word
  <2> QED
    BY <1>4, <2>1, <2>2 DEF ReadUnlock
<1>5. ASSUME NEW y \in Yarn, OrCas(y)
      PROVE  WordInv'
  BY <1>5 DEF OrCas, Word
<1>6. ASSUME NEW y \in Yarn, Take(y)
      PROVE  WordInv'
  <2>1. ~lock.locked /\ lock'.locked /\ lock'.readers = 0
    BY <1>6 DEF Take, WaitingOnly, LockedOnly, Unlocked
  <2> QED
    BY <1>6, <2>1 DEF Take
<1>7. ASSUME NEW y \in Yarn, ClearValue(y)
      PROVE  WordInv'
  <2>1. lock.locked /\ lock.readers = 0 /\ lock' = lock
    BY <1>7 DEF ClearValue
  <2>2. new'[y].locked /\ new'[y].readers = 0
    BY <1>7, <2>1 DEF ClearValue, Word
  <2> QED
    BY <1>7, <2>1, <2>2 DEF ClearValue
<1>8. ASSUME NEW y \in Yarn, ClearCas(y)
      PROVE  WordInv'
  BY <1>8 DEF ClearCas
<1> QED
  BY <1>1, <1>2, <1>3, <1>4, <1>5, <1>6, <1>7, <1>8
     DEF Next, Read, Write, WriteUnlock

\* The invariant is inductive.
LEMMA NextInv == Inv /\ [Next]_vars => Inv'
BY NextTypeInv, NextCountInv, NextWordInv DEF Inv

-----------------------------------------------------------------------------
(* The theorems.                                                           *)

\* While a yarn writes, nobody reads and nobody else writes: the lock excludes,
\* whichever of its loads and compare-and-swaps of several yarns interleave.
WriterAlone ==
    \A y, z \in Yarn : pc[y] = "writer" /\ pc[z] \in {"reader", "writer"} => y = z
THEOREM Exclusion == Spec => []WriterAlone
<1>1. Inv => WriterAlone
  <2> SUFFICES ASSUME Inv, NEW y \in Yarn, NEW z \in Yarn, pc[y] = "writer",
                      pc[z] \in {"reader", "writer"}
               PROVE  y = z
    BY DEF WriterAlone
  <2>1. lock.readers = 0
    BY DEF Inv, WordInv, Writing
  <2>2. Readers = {}
    BY <2>1, FS_EmptySet DEF Inv, CountInv
  <2> QED
    BY <2>2 DEF Inv, WordInv, Writing, Readers
<1> QED
  BY <1>1, InitInv, NextInv, PTL DEF Spec

\* A lock that was held for writing once is never free again: once its locked
\* bit, bit 30 (0x40000000), is set, no call of the lock clears it.  What
\* write_unlock clears is bit 31, the waiting bit, at sync.h:132.
StaysLocked == [][lock.locked => lock'.locked]_vars
THEOREM NeverUnlocked == Spec => StaysLocked
<1>1. Inv /\ [Next]_vars => [lock.locked => lock'.locked]_vars
  <2> SUFFICES ASSUME Inv, Next, lock.locked
               PROVE  lock'.locked
    OBVIOUS
  <2> USE DEF Inv, TypeInv, CasOrRetry
  <2>1. ASSUME NEW y \in Yarn, Call(y) \/ ReadLoad(y) \/ OrLoad(y) \/ Announce(y)
                               \/ ClearLoad(y) \/ ClearValue(y) \/ Retract(y)
        PROVE  lock'.locked
    BY <2>1 DEF Call, ReadLoad, OrLoad, Announce, ClearLoad, ClearValue, Retract
  <2>2. ASSUME NEW y \in Yarn, ReadCas(y) \/ ReadUnlock(y) \/ OrCas(y)
        PROVE  lock'.locked
    BY <2>2 DEF ReadCas, ReadUnlock, OrCas, Word
  <2>3. ASSUME NEW y \in Yarn, Take(y)
        PROVE  lock'.locked
    BY <2>3 DEF Take, LockedOnly, Unlocked
  <2>4. ASSUME NEW y \in Yarn, ClearCas(y)
        PROVE  lock'.locked
    BY <2>4 DEF ClearCas, WordInv
  <2> QED
    BY <2>1, <2>2, <2>3, <2>4 DEF Next, Read, Write, WriteUnlock
<1> QED
  BY <1>1, InitInv, NextInv, PTL DEF Spec, StaysLocked

=============================================================================
