CONSTANTS
    Pids = {1, 2, 3}
    AllPid = 1
    AllOf = {2}
    Setups <- MCSetups
    Sids = {1}
    MinPids = 1
    NumFilters = 3
    Retunes = TRUE
    MaxLeaked = 1
SPECIFICATION Spec
INVARIANTS ActiveCount HardwareMatches SubscribedKept DeliversAll
