CONSTANTS
    MaxByte = 3
    kMaxSequenceNumber = 15
    block_size = 7
    block_restart_interval = 2
    kFilterBase = 8
    bits_per_key = 4
    MinBits = 8
    HashBits = 8
    BloomHash <- MCHash
    CompressedSize <- MCCompressed
    UserKeys <- MCKeys
    Boundary <- Kb
    Histories <- MCHistories
    filtered = TRUE
    MaxDamaged = 1
SPECIFICATION Spec
INVARIANTS AtCursor GetFindsNewest
