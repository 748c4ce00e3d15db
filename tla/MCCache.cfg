SPECIFICATION Spec
CONSTANTS
    t1 = t1
    t2 = t2
    Threads = {t1, t2}
    Files = {1, 2, 3}
    Hash <- MCHash
    Charge <- MCCharge
    capacity_ = 3
    kMinLength = 1
    MaxInserts = 3
    Pieces <- MCPieces
    MaxNames = 1
    kBlockSize = 2
    MaxMmaps = 1
CHECK_DEADLOCK FALSE
SYMMETRY MCSymmetry
INVARIANTS
    HandlesLive
    TableMatchesList
    UsageBounded
    SlotsConserved
    ReadsItsFile
