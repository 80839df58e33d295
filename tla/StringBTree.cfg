SPECIFICATION Spec
CONSTANTS
    NULL = NULL
    v1 = v1
    v2 = v2
    NodeAlign = 1
    MaxCount = 3
    BlockPages = 4
    LoadFactor = 75
    MaxHeaps = 8
    KeySpace = 3
    SpillSpace = 4
    HeaderSpace = 8
    MaxSpills = 4
    Keys = {1, 2, 3, 4, 5, 6, 7, 8, 9, 10}
    Size <- AllSizes
    Vals <- AllVals
    Loads <- AllLoads
    Blocks = 8
    MaxCalls = 3
CHECK_DEADLOCK FALSE
INVARIANT TreeInv
INVARIANT KeysAreSafe
PROPERTY ImplementsMap
PROPERTY OnlyPutsLoseMemory
