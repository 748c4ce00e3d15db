SPECIFICATION FairSpec
CONSTANTS
    w1 = w1
    w2 = w2
    w3 = w3
    c1 = c1
    c2 = c2
    None = None
    Writers = {w1, w2, w3}
    Compactors = {c1, c2}
    Requests <- MCCalls
    MaxUpdates = 2
    Loads <- MCReturnLoads
    MaxRounds = 1
    MaxErrors = 1
    MaxSeeks = 0
    MaxDeep = 2
    TornAppends = TRUE
    WriteBuffer = 0
    SmallBatch = 1
    MaxBatch = 2
    CompactionTrigger = 1
    SlowdownTrigger = 1
    StopTrigger = 1
CHECK_DEADLOCK FALSE
PROPERTIES
    WritesReturn
    CloseReturns
    CompactRangeReturns
