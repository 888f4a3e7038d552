SPECIFICATION Spec
CONSTANTS
    Bits = 8
    IntBits = 4
    MaxProcesses = 5
    Nice <- NiceNormal
    Elapsed = {1}
    NProcs = 2
    Timeslice = 1
    AccountingPeriod = 0
    MaxTime = 1
    MaxUL = 7
INVARIANTS
    CleanupOnOwnThread
CHECK_DEADLOCK FALSE
