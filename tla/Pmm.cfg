SPECIFICATION FairSpec
CONSTANTS
    USED = USED
    FREE = FREE
    BAD = BAD
    TotalPages = 7
    DataPages = 1
    Slots = 8
    BootHead = 5
    Word = 8
    PoolSizes = {1, 2, 3}
    LockTargets = {FREE}
    BootSections <- MCBootSections
INVARIANTS
    TypeOK
    SectionsTile
    FreeSeparated
    HeldIsUsed
PROPERTIES
    RecombineComplete
    CallsEnd
    ImplementsPageMap
CHECK_DEADLOCK FALSE
