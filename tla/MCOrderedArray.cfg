SPECIFICATION Spec
SYMMETRY Pointers
CONSTANTS
    Elem = {e1, e2, e3, e4, e5}
    NULL = NULL
    MaxSize = 4
    Key = {1, 2, 3}
INVARIANTS
    TypeOK
    SortedUnlessGrown
    FrontIsSmallest
    NoDuplicates
    PassComputesReference
