SPECIFICATION DFairSpec
CONSTANTS
    Conn = {c1, c2}
    Caller = {u1, u2}
    NoConn = NoConn
    NoTable = NoTable
    BootTable = BootTable
    IfIndex = {1, 2, 3, 4, 5, 6}
    Reachable = {"wireguard", "stealth"}
    AutoReconnect = FALSE
    MaxFaults = 0
    Requested = {"wireguard"}
    MaxWrites = 0
    MaxStarts = 0
INVARIANTS
    DTypeOK
    NoSessionWithoutHolder
    IdleHostRestored
PROPERTIES
    ConnectReturns
CHECK_DEADLOCK FALSE
