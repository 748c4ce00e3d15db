SPECIFICATION Spec
CONSTANTS
    r1 = r1
    Readers = {r1}
    Keys = {1, 2}
    kMaxHeight = 2
    MaxInserts = 3
    kBlockSize = 16
    EncodedLength <- MCLength
CHECK_DEADLOCK FALSE
INVARIANTS
    GetIsNewest
    IteratorSkipsNothing
    ReadersSafe
    RegionsDisjoint
