SPECIFICATION Spec
CONSTANTS
    Conn = {c1}
    Caller = {u1, u2}
    NoConn = NoConn
    NoTable = NoTable
    BootTable = BootTable
    IfIndex = {1, 2, 3, 4, 5}
    Reachable = {"wireguard", "stealth"}
    AutoReconnect = TRUE
    MaxFaults = 1
SYMMETRY Callers
INVARIANTS
    TypeOK
    TeardownRestoresHost
    TeardownDropsTable
    ShieldHeldWhileRecovering
    HardenedWhileRecovering
    KillSwitchHonoured
    SysctlRecoverable
    MonitorStoppable
CHECK_DEADLOCK FALSE
