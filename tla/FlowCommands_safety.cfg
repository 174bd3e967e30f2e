SPECIFICATION CommandSpec
CONSTANTS
    BlobTypes = {}
    OtherTypes = {}
    Pos = {0, 1}
    None = None
    WrongSize = WrongSize
    Ports = {}
    EthOptions = {}
    TunnelOptions = {}
    ActionLists = {}
    ShownTypes = {"TUNNEL"}
    ForeignFlows <- MCForeign
    MaxFlows = 2
    v1 = v1
    v2 = v2
    VportNames = {v1, v2}
    Numbers <- MCNumbers
    Unnamed = Unnamed
    BadText = BadText
    Over = Over
    Options <- MCOptions
    MaxFaults = 1
INVARIANTS CommandTypeOK Reusable RoundTrip Installed PrintedBack ListsAll
CHECK_DEADLOCK FALSE
