SPECIFICATION Spec
CONSTANTS
    Inputs <- Blocks
    MaxPieces = 3
    kBlockSize = 300
    kMinHashTableSize = 16
    kMaxHashTableSize = 64
    Chunks = {3, 1000}
    DamageBytes = {0, 5, 130, 240, 255}
    MaxDamageAt = 8
INVARIANTS
    RoundTrip
    InBounds
    ValidatorAgrees
CHECK_DEADLOCK FALSE
