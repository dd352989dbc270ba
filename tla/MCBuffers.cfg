CONSTANTS
    Proc = {p1, p2}
    NB = 2
    Device = {d1}
    Number = {n1, n2, n3}
    NR_REQUEST = 2
    Value = {0, 1}
    Ops = {"read", "write"}
    Errors = FALSE
    None = None
SPECIFICATION MCSpec
SYMMETRY Symmetry
INVARIANT OnlyOneOfItsKind
INVARIANT CountIsReferences
INVARIANT ReadsLatest
INVARIANT NothingLost
PROPERTY ReusedOnlyWhenFree
