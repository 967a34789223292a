SPECIFICATION FairSpec
CONSTANTS
    MaxExchanges = 6
    MaxKeys = 5
    MaxFaults = 5
    Kept = 4
    Programs <- MCPrograms
    ZeroFirst <- MCZeroFirst
CHECK_DEADLOCK FALSE
INVARIANTS CredentialsAgree KeyInUse
PROPERTY Settles
