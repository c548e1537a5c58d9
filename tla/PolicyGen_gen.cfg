SPECIFICATION FairSpec
CONSTANTS
    GatewayNs = "ns"
    ReservedPorts <- NoPorts
    Worlds <- AllWorlds
    WorldOf <- MCWorldOf
    MaxEdit = 1
    MetricsPort = 1936
INVARIANTS TypeOK   MatchOrder CertRight ConfAgrees EveryRuleServed
PROPERTIES Settles
CHECK_DEADLOCK FALSE
