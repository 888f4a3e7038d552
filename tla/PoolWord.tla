------------------------------- MODULE PoolWord -------------------------------
(***************************************************************************)
(* The word of a subpool, src/lib/pool.c: a bit for every slot that is     *)
(* available, and what pool_allocate and pool_free make of it.  A word is  *)
(* the set of the bits that are set in it.                                 *)
(***************************************************************************)
EXTENDS Integers

CONSTANTS
    Bits,       \* SLOTS_PER_SUBPOOL: the width of unsigned long
    IntBits     \* the width of int

Slot == 0 .. Bits - 1

\* 1 << n, an int that is converted to unsigned long: the shift is taken
\* modulo the width of int, and the sign bit of the int is extended.
Mask(n) == LET bit == n % IntBits
           IN IF bit = IntBits - 1 THEN bit .. Bits - 1 ELSE {bit}

\* clz: the highest bit that is set.
Highest(flags) == CHOOSE s \in flags : \A r \in flags : r <= s

\* The word when a slot has been taken, and when one has been freed: the bit
\* that pool_free sets is counted from the other end.
AfterTake(flags, slot) == flags \ Mask(slot)
AfterFree(flags, slot) == flags \union Mask(Bits - slot)

=============================================================================
