SPECIFICATION Spec
CONSTANTS
    W = 4
    BUFSIZE = 8
    PointerWidth = 3
    Formats <- MCFormats
    Numbers = {0, 6, 8, 15}
    Characters = {"z", "nul"}
    Strings <- MCStrings
INVARIANTS
    InsideBuffers
    ShownAlike
PROPERTIES
    NumbersReadBack
    FieldsAligned
