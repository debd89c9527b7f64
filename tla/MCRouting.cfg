SPECIFICATION MCSpec
CONSTANTS
    None = None
    wg = wg
    eth = eth
    gateway = gateway
    WordBits = 8
    NibbleBits = 4
    MarkStart = 16
    MarkMask = 240
    TableStart = 3
    ReservedTables = {4}
    PriorityStart = 100
    Configs <- BothConfigs
    Interfaces = {wg, eth}
    Gateways = {gateway}
    ForeignRoutes <- UserRoutes
    Subnets <- EthSubnet
    V6Interfaces = {wg}
    MaxTrouble = 2
INVARIANTS RoutesBeforeRules MarkedFollowsOutbound RoutingHealthTellsTheTruth OutboundStatusIsLive
PROPERTIES GuardsStay
CHECK_DEADLOCK FALSE
