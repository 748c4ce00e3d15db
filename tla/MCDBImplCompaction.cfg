SPECIFICATION Spec
CONSTANTS
    w1 = w1
    w2 = w2
    w3 = w3
    c1 = c1
    c2 = c2
    None = None
    Writers = {w1}
    Compactors = {c1}
    Requests <- MCBrief
    MaxUpdates = 2
    Loads <- MCWorkLoads
    MaxRounds = 1
    MaxErrors = 1
    MaxSeeks = 1
    MaxDeep = 2
    TornAppends = FALSE
    WriteBuffer = 0
    SmallBatch = 1
    MaxBatch = 2
    CompactionTrigger = 1
    SlowdownTrigger = 1
    StopTrigger = 2
CHECK_DEADLOCK FALSE
INVARIANTS
    WorkScheduled
    ManifestSequence
    SurvivesProcessCrash
