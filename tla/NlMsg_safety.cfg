SPECIFICATION Spec
CONSTANTS
    SizeofNlMsghdr = 16
    SizeofHeader = 4
    SizeofNlAttr = 4
    AlignTo = 4
    LenMod = 16
    BytesTypes = {1}
    StringTypes = {2}
    NestedTypes = {3}
    Values <- MCValues
    Slack = {0, 7}
    BufSize = 58
    Error = Error
    MaxBytes = 40
    MaxDepth = 2
    MaxMsgs = 2
INVARIANTS TypeOK NothingInvented AllParsed
CHECK_DEADLOCK FALSE
