SPECIFICATION FairSpec
CONSTANTS
    VportIDs = {v1, v2}
    NoVport = NoVport
    SetCmd = "new"
    UnknownTypes = FALSE
    RcvBuf = 2
    MissBuf = 1
    MaxChurn = 2
    MaxFaults = 1
INVARIANTS TypeOK IndInv Covered DoneSound ReplyIsOwn Released
PROPERTIES Returns Settles EventuallyCovered TearDown
CHECK_DEADLOCK FALSE
