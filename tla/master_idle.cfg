SPECIFICATION Spec
CONSTANTS
    NProcs = 2
    Pid = {p1}
    Prio = {3}
    Timeslice = 1
    AccountingPeriod = 0
    MaxTime = 1
    MaxUL = 7
INVARIANTS
    NoSelfRebalance
CHECK_DEADLOCK FALSE
