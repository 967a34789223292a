SPECIFICATION Spec
CONSTANTS
    Pmts <- MCPmts
    Streams <- MCStreams
    Layouts <- MCLayouts
INVARIANTS AvClaimsRun EarliestOwns Stable
