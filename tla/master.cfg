SPECIFICATION Spec
CONSTANTS
    NProcs = 2
    Pid = {p1, p2, p3}
    Prio = {0, 3}
    Timeslice = 1
    AccountingPeriod = 0
    MaxTime = 1
    MaxUL = 7
SYMMETRY Symmetry
INVARIANTS
    TypeOK
    SchedulerExclusive
    OneOwner
    LeastLoadAssertion
PROPERTIES
    UndonatedJobPool
CHECK_DEADLOCK FALSE
