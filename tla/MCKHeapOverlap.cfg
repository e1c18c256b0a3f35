SPECIFICATION Spec
CONSTANTS
    PageWords = 8
    Start = 8
    InitialEnd = 48
    MaxAddr = 64
    IndexSize = 5
    Sizes = {1, 8}
    Aligns = {TRUE, FALSE}
    FreeAligned = TRUE
    Data = {7}
    MaxAllocs = 5
INVARIANT
    LiveBlocksDisjoint
