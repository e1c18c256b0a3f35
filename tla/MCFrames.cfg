SPECIFICATION Spec
CONSTANTS
    NumFrames = 7
    BitsPerByte = 2
    BytesPerItem = 2
    IdentityPages = 2
    Buffer = 3
    NumPages = 7
INVARIANTS
    TypeOK
    NoSharedFrame
    FramesAccounted
    BufferLeaksOneFrame
    IdentityMapped
PROPERTY
    MappingsAreStable
