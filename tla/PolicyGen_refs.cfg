SPECIFICATION Spec
CONSTANTS
    GatewayNs = "ns"
    ReservedPorts <- NoPorts
    Worlds <- GatewayIds
    WorldOf <- MCWorldOf
    MaxEdit = 0
    MetricsPort = 1936
INVARIANTS SourcesMade
CHECK_DEADLOCK FALSE
