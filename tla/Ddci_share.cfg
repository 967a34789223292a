SPECIFICATION Spec
CONSTANTS
    Adapters = {"a", "b"}
    Devices = {1, 2}
    Pmts = {1, 2, 3}
    AdapterOf <- MCAdapterOf
    Sid <- MCSid
    PmtPid <- MCPmtPid
    Layouts <- MCLayouts
    Suits <- MCSuits
    MaxChannels <- MCMaxChannels
    Emm <- MCEmm
    Files <- MCFiles
    LastPid = 30
    Resets = {2}
INVARIANTS RoundTrip NothingLeft FoundInTwo
