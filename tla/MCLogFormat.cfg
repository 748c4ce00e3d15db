SPECIFICATION Spec
CONSTANTS
    kBlockSize = 6
    Sizes = {0, 1, 2, 3, 7}
    MaxRecords = 3
CHECK_DEADLOCK FALSE
INVARIANTS
    ReadsWhatIsLeft
    CrashIsNoCorruption
