SPECIFICATION FairJobsSpec
CONSTANTS
    Yarn = {y1, y2}
    NoYarn = NoYarn
    NProcs = 2
    MaxToken = 2
PROPERTIES
    TimeIsUp
CHECK_DEADLOCK FALSE
