SPECIFICATION Spec
CONSTANTS
    Pid = {p1, p2, p3}
    NoPid = NoPid
    Prio = {2, 3}
    Timeslice = 1
    Granularity = 1
    Layers = 6
    SlicesPerLevel = 1
    MaxUL = 1
    MaxKey = 16
    MaxOffset = 3
SYMMETRY Symmetry
PROPERTIES
    JobPoolSpec
CHECK_DEADLOCK FALSE
