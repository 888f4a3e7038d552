SPECIFICATION FairSpec
CONSTANTS
    Yarn = {y1, y2, y3}
    Free = Free
    MaxNest = 2
INVARIANTS
    TypeOK
    Mutex
    DepthExact
    SitterWaits
PROPERTIES
    LockIsTaken
