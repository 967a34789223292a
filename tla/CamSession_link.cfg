SPECIFICATION FairSpec
CONSTANTS
    Wanted <- MCWanted
    MaxSessions = 4
    MaxMmi = 1
    MaxPollFails = 2
    MaxFaults = 2
    MaxOps = 2
INVARIANTS Watched ReadyHasCa
PROPERTIES Recovers
