SPECIFICATION FairSpec
CONSTANTS
    left = left
    right = right
    leftUp = leftUp
    rightUp = rightUp
    Shifts = {left, right}
    BreakOf <- MCBreakOf
    Others = {other}
    Capacity = 3
    LowByte = 2
    Dirt = {0, 1, 3, 7}
    MaxKeys = 5
INVARIANTS
    BufferInOrder
    ShiftIsTracked
PROPERTIES
    SeenInOrder
    StartsUnlessKeyEarly
    OwedKeysAreSeen
CHECK_DEADLOCK FALSE
