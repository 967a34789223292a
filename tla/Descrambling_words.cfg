SPECIFICATION Spec
CONSTANTS
    Pmts <- MCPmts
    Algo <- MCAlgo
    MaxCw = 2
    LastPeriod <- MCLastPeriod
INVARIANTS OwnWord NoGarbage Noticed
PROPERTY LateWordsOlder
