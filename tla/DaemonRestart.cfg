SPECIFICATION DSpec
CONSTANTS
    Conn = {c1}
    Caller = {u1, u2}
    NoConn = NoConn
    NoTable = NoTable
    BootTable = BootTable
    IfIndex = {1, 2, 3, 4}
    Reachable = {"wireguard", "stealth"}
    AutoReconnect = FALSE
    MaxFaults = 1
    Requested = {"wireguard"}
    MaxWrites = 1
    MaxStarts = 1
SYMMETRY Callers
INVARIANTS
    ShieldOutlivesProcess
    IdleHostRestored
CHECK_DEADLOCK FALSE
