CONSTANTS
    None = None
    NumKeys = 3  MaxWrites = 4  MaxDeletes = 1
    NumLevels = 4  MaxMemCompactLevel = 2
    L0Trigger = 2  MaxBytes = 2  MaxOverlap = 1  ExpandLimit = 4
    Options <- MCOptions
SPECIFICATION Spec
CHECK_DEADLOCK FALSE
INVARIANTS LevelsDisjoint NewestOnTop
PROPERTY ReadsAreStable
