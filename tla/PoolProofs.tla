------------------------------ MODULE PoolProofs ------------------------------
(***************************************************************************)
(* Proofs about the chain of Pool, for any set of threads and any sizes.   *)
(*                                                                         *)
(* Several threads may come to the end of a full chain at the same time.   *)
(* Each creates a pool, one of them links its own, and the others destroy  *)
(* theirs and go on in it.  What is proved is that the chain stays sound,  *)
(* and that a pool is in nobody else's hands when it is destroyed.  The    *)
(* invariant follows a pool from its creation: until it is linked or       *)
(* destroyed only the thread that created it knows it.                     *)
(***************************************************************************)
EXTENDS Pool, FiniteSetTheorems, TLAPS

\* The root and the pools that some pool leads to.
Linked == {Root} \union {p \in Pools : \E q \in Pools : chain[q] = p}

\* The pool that a thread has created and not linked.
Holds(t, p) == pc[t] = "link" /\ at[t][2] = p

\* Pools are created in the order of their numbers.
CreatedInv == \E n \in Nat : 1 <= n /\ created = 1 .. n

\* The pools that have left the hands of the thread that created them.
Known == Linked \union destroyed

\* Where a thread is: in a known pool.
PlaceInv ==
    \A t \in Thread :
        /\ pc[t] \in {"idle", "scan", "take", "end", "link", "load", "give"}
        /\ pc[t] \in {"scan", "take", "end", "link"} => at[t][1] \in Known
        /\ pc[t] = "link" => at[t][2] \in Pools /\ at[t][1] < at[t][2]

\* A pool that is held is linked nowhere, and held by one thread.
HeldInv ==
    \A t \in Thread, p \in Pools : Holds(t, p) =>
        /\ p \in created \ Known
        /\ \A u \in Thread : Holds(u, p) => u = t

\* The links go from lower to higher pools, each to one of its own.
LinkInv ==
    /\ \A p \in Pools : chain[p] # NoPool => chain[p] \in Pools /\ p < chain[p]
    /\ \A p, q \in Pools : chain[p] # NoPool /\ chain[p] = chain[q] => p = q

\* What is linked has been created and not destroyed, and what is in use is
\* in a known pool.
KeptInv ==
    /\ Linked \subseteq created \ destroyed
    /\ destroyed \subseteq created
    /\ \A o \in Object : out[o] > 0 => o[1] \in Known

TypeInv == /\ DOMAIN chain = Pools /\ DOMAIN pc = Thread /\ DOMAIN at = Thread
           /\ created \subseteq Pools
           /\ out \in [Object -> Nat]

Inv == TypeInv /\ CreatedInv /\ PlaceInv /\ HeldInv /\ LinkInv /\ KeptInv

-----------------------------------------------------------------------------
(* The steps.                                                              *)

\* The invariant holds when the root has been created.
LEMMA InitInv == ASSUME MaxPools \in Nat \ {0} PROVE Init => Inv
<1> SUFFICES ASSUME Init PROVE Inv
  OBVIOUS
<1> USE DEF Init
<1>1. Root \in Pools /\ NoPool \notin Pools /\ created = 1 .. 1
  BY DEF Pools, Root, NoPool
<1>2. Linked = {Root}
  BY <1>1 DEF Linked
<1>3. TypeInv
  <2>1. out = [o \in Object |-> 0]
    OBVIOUS
  <2> QED
    BY <1>1, <2>1 DEF TypeInv
<1>4. CreatedInv
  BY <1>1, 1 \in Nat DEF CreatedInv
<1>5. PlaceInv /\ HeldInv /\ LinkInv /\ KeptInv
  BY <1>1, <1>2 DEF PlaceInv, HeldInv, LinkInv, KeptInv, Holds, Known
<1> QED
  BY <1>3, <1>4, <1>5 DEF Inv

\* A step that leaves the chain alone, and keeps its thread in it.
LEMMA StepInv ==
    ASSUME Inv, NEW t \in Thread, UNCHANGED <<chain, created, destroyed>>,
           DOMAIN pc' = Thread, DOMAIN at' = Thread,
           \A u \in Thread \ {t} : pc'[u] = pc[u] /\ at'[u] = at[u],
           pc'[t] \in {"idle", "scan", "take", "end", "load", "give"},
           pc'[t] \in {"scan", "take", "end"} => at'[t][1] \in Known,
           out' \in [Object -> Nat],
           \A o \in Object : out'[o] > 0 => o[1] \in Known
    PROVE  Inv'
<1> USE DEF Inv
<1>1. Linked' = Linked /\ Known' = Known
  BY DEF Linked, Known
<1>2. TypeInv' /\ CreatedInv' /\ LinkInv'
  BY DEF TypeInv, CreatedInv, LinkInv
<1>3. PlaceInv'
  BY <1>1 DEF PlaceInv
<1>4. HeldInv'
  <2>1. \A u \in Thread, p \in Pools : Holds(u, p)' => Holds(u, p)
    BY DEF Holds
  <2> QED
    BY <1>1, <2>1 DEF HeldInv
<1>5. KeptInv'
  BY <1>1 DEF KeptInv
<1> QED
  BY <1>2, <1>3, <1>4, <1>5

\* The number of the pool that is created is the next one.
LEMMA NextPool ==
    ASSUME CreatedInv
    PROVE  /\ Cardinality(created) + 1 \in Nat
           /\ Cardinality(created) + 1 \notin created
           /\ \A p \in created : p < Cardinality(created) + 1
           /\ \E n \in Nat : /\ 1 <= n
                             /\ created \union {Cardinality(created) + 1} = 1 .. n
<1>1. PICK n \in Nat : 1 <= n /\ created = 1 .. n
  BY DEF CreatedInv
<1>2. Cardinality(1 .. n) = n
  BY <1>1, FS_Interval
<1>3. created \union {n + 1} = 1 .. n + 1 /\ n + 1 \in Nat /\ 1 <= n + 1
  BY <1>1
<1> QED
  BY <1>1, <1>2, <1>3

\* A new pool is its thread's alone.
LEMMA CreateInv ==
    ASSUME Inv, NEW t \in Thread, Create(t)
    PROVE  Inv'
<1> DEFINE new == Cardinality(created) + 1
<1> USE DEF Inv, TypeInv, Goto, Visit
<1>1. /\ pc[t] = "end" /\ pc'[t] = "link" /\ at'[t] = <<at[t][1], new>>
      /\ \A u \in Thread \ {t} : pc'[u] = pc[u] /\ at'[u] = at[u]
      /\ new \in Pools /\ created' = created \union {new}
      /\ UNCHANGED <<chain, destroyed, out>>
      /\ DOMAIN pc' = Thread /\ DOMAIN at' = Thread
  BY DEF Create
<1>2. /\ new \notin created /\ \A p \in created : p < new
      /\ CreatedInv'
  BY <1>1, NextPool DEF CreatedInv
<1>3. Linked' = Linked /\ Known' = Known /\ new \notin Known
  BY <1>1, <1>2 DEF Linked, Known, KeptInv
<1> HIDE DEF new
<1>4. TypeInv' /\ LinkInv'
  BY <1>1 DEF LinkInv
<1>5. PlaceInv'
  <2>1. at[t][1] \in Known /\ at[t][1] < new
    BY <1>1, <1>2 DEF PlaceInv, KeptInv, Known
  <2> QED
    BY <1>1, <1>3, <2>1 DEF PlaceInv
<1>6. HeldInv'
  <2>1. \A u \in Thread \ {t}, p \in Pools : Holds(u, p)' => Holds(u, p) /\ p # new
    BY <1>1, <1>2 DEF Holds, HeldInv
  <2>2. \A p \in Pools : Holds(t, p)' => p = new
    BY <1>1 DEF Holds
  <2> QED
    BY <1>1, <1>3, <2>1, <2>2 DEF HeldInv
<1>7. KeptInv'
  BY <1>1, <1>2, <1>3 DEF KeptInv
<1> QED
  BY <1>2, <1>4, <1>5, <1>6, <1>7

\* It is linked to the last pool of the chain, or destroyed.
LEMMA LinkStepInv ==
    ASSUME Inv, NEW t \in Thread, Link(t)
    PROVE  Inv'
<1> DEFINE p == at[t][1]
           new == at[t][2]
<1> USE DEF Inv, TypeInv, Goto, Visit
<1>1. /\ pc[t] = "link" /\ pc'[t] = "scan" /\ at'[t] = <<new, 0>>
      /\ \A u \in Thread \ {t} : pc'[u] = pc[u] /\ at'[u] = at[u]
      /\ UNCHANGED <<created, out>>
      /\ DOMAIN pc' = Thread /\ DOMAIN at' = Thread
  BY DEF Link
<1>2. p \in Known /\ new \in Pools /\ p < new
  BY <1>1 DEF PlaceInv
<1>3. /\ new \in created \ Known
      /\ \A u \in Thread \ {t} : ~Holds(u, new)
  BY <1>1, <1>2 DEF HeldInv, Holds
<1>4. p \in Pools
  BY <1>2 DEF KeptInv, Known
<1> HIDE DEF p, new
<1>5. CreatedInv'
  BY <1>1 DEF CreatedInv
<1>6. \A u \in Thread, q \in Pools : Holds(u, q)' => u # t /\ Holds(u, q) /\ q # new
  BY <1>1, <1>3 DEF Holds
<1>7. CASE chain[p] = NoPool
  <2>1. chain' = [chain EXCEPT ![p] = new] /\ destroyed' = destroyed
    BY <1>7 DEF Link, p, new
  <2>2. /\ chain'[p] = new /\ \A q \in Pools : q # p => chain'[q] = chain[q]
        /\ DOMAIN chain' = Pools
    BY <1>4, <2>1
  <2>3. Linked' = Linked \union {new} /\ Known' = Known \union {new}
    BY <1>2, <1>4, <1>7, <2>1, <2>2 DEF Linked, Known, NoPool, Pools
  <2>4. LinkInv'
    <3>1. \A q \in Pools : chain[q] # new
      BY <1>2, <1>3 DEF Linked, Known
    <3> QED
      BY <1>2, <1>7, <2>2, <3>1 DEF LinkInv
  <2>5. PlaceInv'
    BY <1>1, <2>1, <2>3 DEF PlaceInv
  <2>6. HeldInv'
    BY <1>1, <1>6, <2>1, <2>3 DEF HeldInv
  <2>7. KeptInv'
    BY <1>1, <1>3, <2>1, <2>3 DEF KeptInv, Known
  <2> QED
    BY <1>1, <1>5, <2>2, <2>4, <2>5, <2>6, <2>7
<1>8. CASE chain[p] # NoPool
  <2>1. chain' = chain /\ destroyed' = destroyed \union {new}
    BY <1>8 DEF Link, p, new
  <2>2. Linked' = Linked /\ Known' = Known \union {new}
    BY <2>1 DEF Linked, Known
  <2>3. PlaceInv'
    BY <1>1, <2>1, <2>2 DEF PlaceInv
  <2>4. HeldInv'
    BY <1>1, <1>6, <2>1, <2>2 DEF HeldInv
  <2>5. KeptInv'
    BY <1>1, <1>3, <2>1, <2>2 DEF KeptInv, Known
  <2>6. LinkInv' /\ TypeInv'
    BY <1>1, <2>1 DEF LinkInv
  <2> QED
    BY <1>5, <2>3, <2>4, <2>5, <2>6
<1> QED
  BY <1>7, <1>8

\* The invariant is inductive.
LEMMA NextInv == Inv /\ [Next]_vars => Inv'
<1> SUFFICES ASSUME Inv, [Next]_vars PROVE Inv'
  OBVIOUS
<1> USE DEF Inv, TypeInv, Goto, Visit
<1>1. CASE UNCHANGED vars
  BY <1>1 DEF vars, CreatedInv, PlaceInv, HeldInv, Holds, LinkInv, KeptInv,
              Linked, Known
<1>2. Root \in Known
  BY DEF Linked, Known
<1>3. ASSUME NEW t \in Thread, Allocate(t) \/ Restart(t)
      PROVE  Inv'
  <2>1. at'[t] = <<Root, 0>>
    BY <1>3 DEF Allocate, Restart
  <2> QED
    BY <1>2, <1>3, <2>1, StepInv DEF Allocate, Restart, KeptInv
<1>4. ASSUME NEW t \in Thread, Scan(t)
      PROVE  Inv'
  <2>1. at[t][1] \in Known /\ at'[t][1] = at[t][1]
    BY <1>4 DEF Scan, PlaceInv
  <2>2. pc'[t] \in {"scan", "take", "end"}
    BY <1>4 DEF Scan
  <2> QED
    BY <1>4, <2>1, <2>2, StepInv DEF Scan, KeptInv
<1>5. ASSUME NEW t \in Thread, Take(t)
      PROVE  Inv'
  <2> DEFINE object == <<at[t][1], at[t][2], Highest(old[t])>>
  <2>1. at[t][1] \in Known /\ pc'[t] = "idle" /\ out' = [out EXCEPT ![object] = @ + 1]
    BY <1>5 DEF Take, PlaceInv
  <2>2. object[1] \in Known
    BY <2>1
  <2> HIDE DEF object
  <2>3. \A o \in Object : out'[o] > 0 => o[1] \in Known
    BY <2>1, <2>2 DEF KeptInv
  <2>4. out' \in [Object -> Nat]
    <3>1. \A o \in Object : out'[o] \in Nat
      BY <2>1
    <3> QED
      BY <2>1, <3>1
  <2> QED
    BY <1>5, <2>1, <2>3, <2>4, StepInv DEF Take
<1>6. ASSUME NEW t \in Thread, Follow(t)
      PROVE  Inv'
  <2>1. at[t][1] \in Pools /\ chain[at[t][1]] # NoPool
    BY <1>6 DEF Follow, PlaceInv, KeptInv, Known
  <2>2. chain[at[t][1]] \in Known
    BY <2>1 DEF Linked, Known, LinkInv
  <2> QED
    BY <1>6, <2>2, StepInv DEF Follow, KeptInv
<1>7. ASSUME NEW t \in Thread, Load(t) \/ Give(t) \/ Reload(t)
      PROVE  Inv'
  BY <1>7, StepInv DEF Load, Give, Reload, KeptInv
<1>8. ASSUME NEW t \in Thread, NEW object \in Object, Free(t, object)
      PROVE  Inv'
  <2>1. out' = [out EXCEPT ![object] = @ - 1] /\ out[object] > 0
    BY <1>8 DEF Free
  <2>2. out' \in [Object -> Nat] /\ \A o \in Object : out'[o] > 0 => out[o] > 0
    BY <2>1
  <2>3. pc'[t] \in {"idle", "load"}
    BY <1>8 DEF Free
  <2> QED
    BY <1>8, <2>2, <2>3, StepInv DEF Free, KeptInv
<1> QED
  BY <1>1, <1>3, <1>4, <1>5, <1>6, <1>7, <1>8, CreateInv, LinkStepInv DEF Next

-----------------------------------------------------------------------------
(* The theorems.                                                           *)

\* Every pool of the chain is in the set of the linked ones.
LEMMA ChainedLinked == Inv => Chained \subseteq Linked
<1> SUFFICES ASSUME Inv, NEW p \in Chained PROVE p \in Linked
  OBVIOUS
<1>1. Linked \in SUBSET Pools /\ Root \in Linked
  BY DEF Inv, TypeInv, KeptInv, Linked
<1>2. \A q \in Linked : chain[q] # NoPool => chain[q] \in Linked
  BY <1>1 DEF Inv, LinkInv, Linked
<1> QED
  BY <1>1, <1>2 DEF Chained

\* The race for a link of the chain, pool.c:99-102.  The loser destroys a pool,
\* and that pool is not in the chain, not before and not later.  Until then it
\* is in nobody else's hands: no object of it is in use, and no other thread
\* is in it or about to link it.  What is not so is that nobody uses it later:
\* the loser itself goes on in it.
ChainKept ==
    /\ Chained \intersect destroyed = {}
    /\ \A t, u \in Thread : pc[t] = "link" =>
          /\ at[t][2] \notin Chained
          /\ \A o \in Object : o[1] = at[t][2] => out[o] = 0
          /\ pc[u] \in {"scan", "take", "end", "link"} => at[u][1] # at[t][2]
          /\ pc[u] = "link" /\ at[u][2] = at[t][2] => u = t
THEOREM ChainIsKept ==
    ASSUME MaxPools \in Nat \ {0}
    PROVE  Spec => []ChainKept
<1>1. Inv => ChainKept
  <2> SUFFICES ASSUME Inv PROVE ChainKept
    OBVIOUS
  <2>1. Chained \intersect destroyed = {}
    BY ChainedLinked DEF Inv, KeptInv
  <2>2. ASSUME NEW t \in Thread, NEW u \in Thread, pc[t] = "link"
        PROVE  /\ at[t][2] \notin Chained
               /\ \A o \in Object : o[1] = at[t][2] => out[o] = 0
               /\ pc[u] \in {"scan", "take", "end", "link"} => at[u][1] # at[t][2]
               /\ pc[u] = "link" /\ at[u][2] = at[t][2] => u = t
    <3>1. at[t][2] \in Pools /\ Holds(t, at[t][2])
      BY <2>2 DEF Inv, PlaceInv, Holds
    <3>2. /\ at[t][2] \notin Known
          /\ \A v \in Thread : Holds(v, at[t][2]) => v = t
      BY <3>1 DEF Inv, HeldInv
    <3>3. \A o \in Object : out[o] > 0 \/ out[o] = 0
      BY DEF Inv, TypeInv
    <3> QED
      BY <3>2, <3>3, ChainedLinked DEF Inv, PlaceInv, KeptInv, Known, Holds
  <2> QED
    BY <2>1, <2>2 DEF ChainKept
<1> QED
  BY <1>1, InitInv, NextInv, PTL DEF Spec

\* The links go upwards and no two lead to one pool: a scan of the chain meets
\* each pool once and comes to an end.
ChainOrdered ==
    \A p, q \in Pools : chain[p] # NoPool =>
        p < chain[p] /\ (chain[p] = chain[q] => p = q)
THEOREM ChainIsOrdered ==
    ASSUME MaxPools \in Nat \ {0}
    PROVE  Spec => []ChainOrdered
<1>1. Inv => ChainOrdered
  BY DEF Inv, ChainOrdered, LinkInv
<1> QED
  BY <1>1, InitInv, NextInv, PTL DEF Spec

=============================================================================
