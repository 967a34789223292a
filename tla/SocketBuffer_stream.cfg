CONSTANTS
    NumPackets = 3
    Cells = 3
    FifoSize = 8
    PrioSize = 3
SPECIFICATION FairSpec
INVARIANTS DataWhole RepliesKept
PROPERTY BufferDrains
CHECK_DEADLOCK FALSE
