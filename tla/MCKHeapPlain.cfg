SPECIFICATION Spec
CONSTANTS
    PageWords = 8
    Start = 8
    InitialEnd = 24
    MaxAddr = 48
    IndexSize = 3
    Sizes = {1, 7}
    Aligns = {FALSE}
    FreeAligned = TRUE
    Data = {7}
    MaxAllocs = 5
INVARIANTS
    Tiled
    BlocksAccounted
    Coalesced
    PanicsOnlyWhenExhausted
PROPERTY
    ImplementsContract
