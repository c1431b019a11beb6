SPECIFICATION BSpec
CONSTANTS
    MaxPackets = 4
    MaxConns = 2
INVARIANTS
    NoConnectionAfterClose
PROPERTIES
    TunnelIsDatagrams
    HealthyConnectionKept
CHECK_DEADLOCK FALSE
