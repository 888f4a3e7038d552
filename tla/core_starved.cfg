SPECIFICATION Spec
CONSTANTS
    Pid = {p1, p2}
    NoPid = NoPid
    Prio = {3}
    Timeslice = 1
    Granularity = 1
    Layers = 6
    SlicesPerLevel = 5
    MaxUL = 31
    MaxKey = 13
    MaxOffset = 2
SYMMETRY Symmetry
PROPERTIES
    EmptyOnlyWhenEmpty
CHECK_DEADLOCK FALSE
