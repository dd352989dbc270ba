CONSTANTS
    Proc = {1, 2}
    Drive = {0, 1}
    Track = {0, 1}
    MAX_ERRORS = 2
    MaxQueue = 2
    MaxRequests = 2
    MaxGlitches = 1
SPECIFICATION MCSpec
INVARIANT ExitedStaysExited
CHECK_DEADLOCK FALSE
