SPECIFICATION Spec
CONSTANTS
    Thread = {t1, t2}
    Bits = 4
    IntBits = 4
    Slots = 4
    MaxPools = 3
    MaxOut = 2
INVARIANTS
    NeverHandedTwice
CHECK_DEADLOCK FALSE
