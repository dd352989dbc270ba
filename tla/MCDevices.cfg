CONSTANTS
    Proc = {1, 2}
    NB = 1
    Device = {d1}
    Number = {n1, n2}
    NR_REQUEST = 2
    Value = {0}
    Ops = {"write", "sync"}
    Errors = TRUE
    None = None
    Major = {1, 2}
    Sector = {1, 2, 3}
    nr_sects = 6
    MAX_ERRORS = 7
    MaxQueue = 2
    Drive = {0, 1}
    Track = {0, 1}
SPECIFICATION MCSpec
INVARIANT Elevator
INVARIANT CompleteTransfer
PROPERTY Served
 
 
CHECK_DEADLOCK FALSE
