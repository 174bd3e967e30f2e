SPECIFICATION FairSpec
CONSTANTS
    VportIDs = {v1}
    NoVport = NoVport
    SetCmd = "new"
    UnknownTypes = FALSE
    RcvBuf = 2
    MissBuf = 1
    MaxChurn = 0
    MaxFaults = 0
PROPERTY CancelEnds
CHECK_DEADLOCK FALSE
