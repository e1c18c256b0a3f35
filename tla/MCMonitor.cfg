SPECIFICATION Spec
CONSTANTS
    Cols = 4
    Rows = 3
    TabStop = 2
    Printable = {"a", "b", "[", "]"}
    Status <- MCStatus
    BootTexts <- MCBootTexts
    TaskTexts <- MCTaskTexts
    MaxTexts = 5
INVARIANT
    OnScreen
PROPERTY
    IsTerminal
