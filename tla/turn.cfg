SPECIFICATION FairSpec
CONSTANTS
    Yarn = {y1, y2}
    NoYarn = NoYarn
    NProcs = 2
    MaxToken = 2
INVARIANTS
    TypeOK
    GraphExclusive
    TokensDistinct
    ModulusSafe
    TurnKept
    SuspendedIsParked
PROPERTIES
    TimersProcessed
CHECK_DEADLOCK FALSE
