SPECIFICATION TSpec
CONSTANTS
    SignedInAtStart = {TRUE}
    MaxKeys = 1
    MaxMoves = 1
    MaxLosses = 1
INVARIANTS
    RepliesMatch
    InformedNotFalse
PROPERTIES
    CommandsReturn
    InformedConnectingResolves
CHECK_DEADLOCK FALSE
