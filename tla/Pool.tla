--------------------------------- MODULE Pool ---------------------------------
(***************************************************************************)
(* The object pool, src/lib/pool.c: chained pools of subpools, each with a *)
(* word that has a bit for every slot that is available.  The words and    *)
(* the links of the chain are changed by compare-and-swap and read before; *)
(* a label is a point between two accesses to them.  What is computed from *)
(* a word is in PoolWord.                                                  *)
(*                                                                         *)
(* An object is its address, <<pool, subpool, slot>>.  The memory of the   *)
(* pools comes from yalloc, which is not part of this module.              *)
(***************************************************************************)
EXTENDS PoolWord, FiniteSets

CONSTANTS
    Thread,     \* the threads that use the pool
    Slots,      \* the number of slots that pool_create is asked for
    MaxPools,   \* bound: the pools of the chain, the ones that are destroyed too
    MaxOut      \* bound: how often one object may be handed out at a time

\* nsubpools
NSubpools == (Slots + Bits - 1) \div Bits

Pools == 1 .. MaxPools
Root == 1
NoPool == 0
Object == Pools \X (0 .. NSubpools - 1) \X Slot

VARIABLES
    availFlags, \* availFlags[pool][subpool]: the bits that are set in the word
    chain,      \* the next pool
    created,    \* the pools created so far
    destroyed,  \* those destroyed again
    out,        \* out[o]: how often o was handed out and not been freed
    pc,         \* where in pool.c the thread is
    at,         \* the pool and subpool, or the object, that the thread is at
    old         \* the word that the thread has loaded

vars == <<availFlags, chain, created, destroyed, out, pc, at, old>>

Goto(t, label) == pc' = [pc EXCEPT ![t] = label]
Visit(t, where) == at' = [at EXCEPT ![t] = where]

\* atomic_cswap_value on the word of a subpool.
CasWord(p, i, expected, flags) ==
    /\ availFlags[p][i] = expected
    /\ availFlags' = [availFlags EXCEPT ![p][i] = flags]

\* pool_create: every bit is set.
Init ==
    /\ availFlags = [p \in Pools |-> [i \in 0 .. NSubpools - 1 |-> Slot]]
    /\ chain = [p \in Pools |-> NoPool]
    /\ created = {Root} /\ destroyed = {}
    /\ out = [o \in Object |-> 0]
    /\ pc = [t \in Thread |-> "idle"]
    /\ at = [t \in Thread |-> <<Root, 0>>]
    /\ old = [t \in Thread |-> {}]

-----------------------------------------------------------------------------
(* pool_allocate                                                           *)

Allocate(t) ==
    /\ pc[t] = "idle"
    /\ Visit(t, <<Root, 0>>)
    /\ Goto(t, "scan")
    /\ UNCHANGED <<availFlags, chain, created, destroyed, out, old>>

\* Load the word of a subpool, and go on to the next one if it is zero.
Scan(t) ==
    LET p == at[t][1]
        i == at[t][2]
    IN
    /\ pc[t] = "scan"
    /\ old' = [old EXCEPT ![t] = availFlags[p][i]]
    /\ IF availFlags[p][i] # {}
       THEN Goto(t, "take") /\ UNCHANGED at
       ELSE IF i + 1 < NSubpools
       THEN Visit(t, <<p, i + 1>>) /\ UNCHANGED pc
       ELSE Goto(t, "end") /\ UNCHANGED at
    /\ UNCHANGED <<availFlags, chain, created, destroyed, out>>

\* Take the highest slot by a compare-and-swap ...
Take(t) ==
    LET p == at[t][1]
        i == at[t][2]
        slot == Highest(old[t])
        object == <<p, i, slot>>
    IN
    /\ pc[t] = "take"
    /\ out[object] < MaxOut
    /\ CasWord(p, i, old[t], AfterTake(old[t], slot))
    /\ out' = [out EXCEPT ![object] = @ + 1]
    /\ Goto(t, "idle")
    /\ UNCHANGED <<chain, created, destroyed, at, old>>

\* ... or start again from the root if the word has changed.
Restart(t) ==
    /\ pc[t] = "take"
    /\ availFlags[at[t][1]][at[t][2]] # old[t]
    /\ Visit(t, <<Root, 0>>)
    /\ Goto(t, "scan")
    /\ UNCHANGED <<availFlags, chain, created, destroyed, out, old>>

\* At the end of a pool: go on with the next one ...
Follow(t) ==
    LET next == chain[at[t][1]] IN
    /\ pc[t] = "end"
    /\ next # NoPool
    /\ Visit(t, <<next, 0>>)
    /\ Goto(t, "scan")
    /\ UNCHANGED <<availFlags, chain, created, destroyed, out, old>>

\* ... or create it ...
Create(t) ==
    LET new == Cardinality(created) + 1 IN
    /\ pc[t] = "end"
    /\ chain[at[t][1]] = NoPool
    /\ new \in Pools
    /\ created' = created \union {new}
    /\ Visit(t, <<at[t][1], new>>)
    /\ Goto(t, "link")
    /\ UNCHANGED <<availFlags, chain, destroyed, out, old>>

\* ... and link it.  The thread that comes too late destroys its pool, and
\* allocates from it all the same.  What it then reads is memory that has been
\* given back: of what may be there, the model has the words that were there.
Link(t) ==
    LET p == at[t][1]
        new == at[t][2]
    IN
    /\ pc[t] = "link"
    /\ IF chain[p] = NoPool
       THEN /\ chain' = [chain EXCEPT ![p] = new]
            /\ UNCHANGED destroyed
       ELSE /\ destroyed' = destroyed \union {new}
            /\ UNCHANGED chain
    /\ Visit(t, <<new, 0>>)
    /\ Goto(t, "scan")
    /\ UNCHANGED <<availFlags, created, out, old>>

-----------------------------------------------------------------------------
(* pool_free                                                               *)

\* The pools that pool_free meets, from the root along the chain.
Chained == {p \in Pools : \A S \in SUBSET Pools :
                /\ Root \in S
                /\ \A q \in S : chain[q] # NoPool => chain[q] \in S
                => p \in S}

\* Find the subpool of the object.  The address of the first object of a
\* subpool is not above the one of the subpool, so that it is not found, and
\* neither is an object of a pool that is not in the chain.
Free(t, object) ==
    /\ pc[t] = "idle"
    /\ out[object] > 0
    /\ out' = [out EXCEPT ![object] = @ - 1]
    /\ IF object[3] # 0 /\ object[1] \in Chained
       THEN Goto(t, "load") /\ Visit(t, object)
       ELSE UNCHANGED <<pc, at>>
    /\ UNCHANGED <<availFlags, chain, created, destroyed, old>>

Load(t) ==
    /\ pc[t] = "load"
    /\ old' = [old EXCEPT ![t] = availFlags[at[t][1]][at[t][2]]]
    /\ Goto(t, "give")
    /\ UNCHANGED <<availFlags, chain, created, destroyed, out, at>>

\* Set the bit by a compare-and-swap ...
Give(t) ==
    /\ pc[t] = "give"
    /\ CasWord(at[t][1], at[t][2], old[t], AfterFree(old[t], at[t][3]))
    /\ Goto(t, "idle")
    /\ UNCHANGED <<chain, created, destroyed, out, at, old>>

\* ... or load the word again if it has changed.
Reload(t) ==
    /\ pc[t] = "give"
    /\ availFlags[at[t][1]][at[t][2]] # old[t]
    /\ Goto(t, "load")
    /\ UNCHANGED <<availFlags, chain, created, destroyed, out, at, old>>

-----------------------------------------------------------------------------
Next ==
    \E t \in Thread :
        \/ Allocate(t) \/ Scan(t) \/ Take(t) \/ Restart(t)
        \/ Follow(t) \/ Create(t) \/ Link(t)
        \/ Load(t) \/ Give(t) \/ Reload(t)
        \/ \E object \in Object : Free(t, object)

Spec == Init /\ [][Next]_vars

-----------------------------------------------------------------------------
\* An object that is in use is not handed out again, whatever the threads
\* allocate and free at the same time.  It is: pool_free sets the bit of
\* another slot than the one that pool_allocate has cleared.
NeverHandedTwice == \A o \in Object : out[o] <= 1

=============================================================================
