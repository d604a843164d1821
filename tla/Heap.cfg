SPECIFICATION FairSpec
CONSTANTS
    Header = 2
    PageUnits = 8
    InitPages = 2
    NodeUnits = 2
    Sizes = {1, 3, 7, 8}
    MaxUnits = 48
    NoBlock = NoBlock
INVARIANTS
    SegmentsTile
    FreeIsJoined
    UsedIsHeld
PROPERTIES
    MallocEnds
    ImplementsBlocks
CHECK_DEADLOCK FALSE
