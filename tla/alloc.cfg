SPECIFICATION FairSpec
CONSTANTS
    Thread = {t1, t2}
    Nobody = Nobody
    Page = {1, 2, 3}
    PageSize = 3
    Header = 1
    BookSize = 1
    Small = {1, 2}
    Large = {1}
    HashSize = 1
    MaxUsed = 3
    MaxBlocks = 2
INVARIANTS
    TypeOK
    ObjectsIntact
    CountExact
    NoPageLeaked
    RestIsZero
    BlockHasBook
PROPERTIES
    CallsReturn
CHECK_DEADLOCK FALSE
