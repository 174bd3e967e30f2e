SPECIFICATION Spec
CONSTANTS
    BlobTypes = {"PRIORITY"}
    OtherTypes = {"VLAN"}
    Pos = {0, 1}
    None = None
    WrongSize = WrongSize
    Ports <- MCPorts
    EthOptions <- MCEthOptions
    TunnelOptions <- FewTunnelOptions
    ActionLists <- OutputOnly
    ShownTypes = {"PRIORITY"}
    ForeignFlows <- ForeignUnknownKeys
    MaxFlows = 1
INVARIANTS TypeOK AsAsked RoundTrip Reusable EqualsSound
CHECK_DEADLOCK FALSE
