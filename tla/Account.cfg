SPECIFICATION ASpec
CONSTANTS
    Callers = {"init", "login"}
    MaxRetries = 1
    RetryAfters = {0}
    DefaultCooldown = 1
    MaxCooldown = 2
    Sessions = 2
    MaxTroubles = 1
    InitRetryMin = 1
    InitRetryMax = 1
INVARIANTS
    ATypeOK
    StoreFollowsClient
PROPERTIES
    SessionSurvivesTransients
CHECK_DEADLOCK FALSE
