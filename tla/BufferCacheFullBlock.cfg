CONSTANTS
    Proc = {p1, p2}
    NB = 1
    Device = {d1}
    Number = {n1, n2}
    NR_REQUEST = 2
    Value = {0, 1}
    Ops = {"read", "full"}
    Errors = FALSE
    None = None
SPECIFICATION Spec
INVARIANT ReadsLatest
