CONSTANTS
    None = None
    NumKeys = 2  MaxWrites = 4  MaxDeletes = 0
    NumLevels = 3  MaxMemCompactLevel = 1
    L0Trigger = 2  MaxBytes = 2  MaxOverlap = 9  ExpandLimit = 9
    Options <- MCSplit
SPECIFICATION Spec
CHECK_DEADLOCK FALSE
INVARIANT NewestOnTop
