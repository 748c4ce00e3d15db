SPECIFICATION Spec
CONSTANTS
    w1 = w1
    w2 = w2
    w3 = w3
    c1 = c1
    c2 = c2
    None = None
    Writers = {w1, w2, w3}
    Compactors = {}
    Requests <- MCGroups
    MaxUpdates = 2
    Loads <- MCGroupLoads
    MaxRounds = 1
    MaxErrors = 1
    MaxSeeks = 0
    MaxDeep = 1
    TornAppends = FALSE
    WriteBuffer = 0
    SmallBatch = 1
    MaxBatch = 2
    CompactionTrigger = 3
    SlowdownTrigger = 3
    StopTrigger = 3
CHECK_DEADLOCK FALSE
SYMMETRY MCSymmetry
INVARIANTS
    OneLeader
    HeadAwake
    SurvivesProcessCrash
    SurvivesMachineCrash
    SequenceUsedOnce
    AckedReadable
PROPERTIES
    SnapshotStable
