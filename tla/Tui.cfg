SPECIFICATION TSpec
CONSTANTS
    SignedInAtStart = {TRUE, FALSE}
    MaxKeys = 3
    MaxMoves = 0
    MaxLosses = 0
INVARIANTS
    TTypeOK
    ConnectedViewPolls
    SettingsReachDaemon
CHECK_DEADLOCK FALSE
