CONSTANTS
    h1 = h1  h2 = h2  i1 = i1  i2 = i2  s1 = s1  b1 = b1
    Db = Db  None = None
    Threads = {h1, h2}
    Iters = {i1, i2}
    Snaps = {s1}
    Batches = {b1}
    MaxOpens = 1  MaxUses = 1
SPECIFICATION FairSpec
CHECK_DEADLOCK FALSE
INVARIANTS NoDeadUse NothingLeaks DestroyKept
PROPERTY CallsReturn
