SPECIFICATION ApiSpec
CONSTANTS
    Callers = {c1, c2, c3}
    MaxRetries = 1
    RetryAfters = {0, 3}
    DefaultCooldown = 1
    MaxCooldown = 2
    Sessions = 1
    MaxTroubles = 4
SYMMETRY Symmetry
INVARIANTS
    RefreshOncePerExpiry
    SpentTokenNotReplayed
PROPERTIES
    CooldownHonoured
