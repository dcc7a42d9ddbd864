CONSTANTS
    MaxSeq = 6
    MaxInternal = 1
    MaxUnheard = 1
    MaxFaults = 1
    Window = 2
    Chunk = 2
    Size <- Sizes
    Budget = 2
    BudgetBytes = 2
    MaxPending = 3
    PendingBytes = 3
    HighWater = 1
    ClientWindow = 2
    MaxEarlier = 2
    EarlierPage = 1
    MaxScans = 2
SPECIFICATION FairSpec
INVARIANTS TypeOK NothingSkipped
PROPERTY CatchesUp
CHECK_DEADLOCK FALSE
