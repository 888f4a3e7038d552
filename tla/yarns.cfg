SPECIFICATION FairUntilTwice
CONSTANTS
    Bits = 6
    IntBits = 3
    MaxProcesses = 6
    Nice <- NiceNormal
    Elapsed = {2}
    NProcs = 2
    Timeslice = 1
    AccountingPeriod = 0
    MaxTime = 1
    MaxUL = 7
INVARIANTS
    TypeOK
    ScheduledYarnIsAlive
    NoYarnLost
    StackExclusive
    JobCountsExact
PROPERTIES
    OnlyFinishedFreed
    MasterSpec
    EveryYarnRuns
    FinishedIsFreed
CHECK_DEADLOCK FALSE
