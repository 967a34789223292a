SPECIFICATION FairSpec
CONSTANTS
    a1 = a1  a2 = a2  b1 = b1  b2 = b2  c1 = c1  c2 = c2
    Pmts = {p, q, r}
    Slots <- MCSlots
    Multiple = 1
    Streams <- MCStreams
    RealSid <- MCRealSid
    Foreign <- MCForeign
    Clear <- MCClear
    NoPmt = NoPmt  NoStreams = NoStreams  Nothing = Nothing
    MaxOps = 4
    MaxFaults = 1
CHECK_DEADLOCK FALSE
INVARIANTS SentIsThere NumbersDiffer
PROPERTY EventuallySent
