SPECIFICATION Spec
CONSTANTS
    NULL = NULL
    v1 = v1
    v2 = v2
    MaxCount = 3
    BlockPages = 4
    LoadFactor = 75
    MaxHeaps = 6
    Keys = {1, 2, 3, 4, 5, 6, 7, 8, 9, 10}
    Vals <- AllVals
    Loads <- AllLoads
    Blocks = 8
    MaxCalls = 3
CHECK_DEADLOCK FALSE
INVARIANT TreeInv
INVARIANT SearchesFindNeighbours
PROPERTY ImplementsMap
PROPERTY EnumGoesToNextKey
