SPECIFICATION Spec
CONSTANTS
    VportIDs = {v1, v2}
    NoVport = NoVport
    SetCmd = "new"
    UnknownTypes = FALSE
    RcvBuf = 2
    MissBuf = 1
    MaxChurn = 0
    MaxFaults = 1
SYMMETRY Symmetry
INVARIANT StoppedOnce
CHECK_DEADLOCK FALSE
