SPECIFICATION Spec
CONSTANTS
    W = 8
    PAGE_SIZE = 4
    PAGES_PER_TABLE = 8
    BitsPerByte = 4
    BytesPerItem = 2
    DirectorySize = 9
    HeapSize = 1
    ImageStart = 8
    ImageEnd = 16
    KHEAP_START = 192
    KHEAP_INITIAL_SIZE = 8
    PAGE_CLONING_BUFFER = 240
    MinRegion = 95
    StrtabSizes = {0, 5}
    MemoryMaps <- MCMemoryMaps
INVARIANTS
    LargestRegionTaken
    LinearMemorySound
    LinearMemoryMapped
    HeapFramesUsable
PROPERTY
    BootCompletes
