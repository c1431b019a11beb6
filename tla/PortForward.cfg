SPECIFICATION PSpec
CONSTANTS
    Ports = {1, 2}
    natPMPLifetime = 20
    natPMPRenewEvery = 7
    natPMPTimeout = 1
    natPMPRetryMin = 5
    natPMPRetryMax = 20
    natPMPGraceAttempts = 2
INVARIANTS
    StoppedShowsNothing
    ShownPortIsMapped
    StopReleases
CHECK_DEADLOCK FALSE
