SPECIFICATION Spec
CONSTANTS
    BlobTypes = {}
    OtherTypes = {}
    Pos = {0}
    None = None
    WrongSize = WrongSize
    Ports = {}
    EthOptions <- ExactEthOptions
    TunnelOptions <- MCTunnelOptions
    ActionLists <- NoActions
    ShownTypes = {}
    ForeignFlows = {}
    MaxFlows = 1
INVARIANT NothingDropped
CHECK_DEADLOCK FALSE
