SPECIFICATION Spec
CONSTANTS
    Conn = {c1}
    Caller = {u1}
    NoConn = NoConn
    NoTable = NoTable
    BootTable = BootTable
    IfIndex = {1, 2, 3, 4}
    Reachable = {"wireguard", "stealth"}
    AutoReconnect = TRUE
    MaxFaults = 1
INVARIANTS
    NoExposureWhileReconnecting
CHECK_DEADLOCK FALSE
