CONSTANTS
    NumLevels = 2
    Missing = Missing
    Requests <- MCRequests
    ReadDir <- MCReadDir
    WriteBuffer = 1
    MaxWrites = 2
    MaxOpens = 3
    MaxBusy = 1
    MaxFaults = 1
    IoErrors = {"table", "manifest", "current", "log"}
    PowerLoss = TRUE
SPECIFICATION RepairSpec
CHECK_DEADLOCK FALSE
INVARIANTS RecoversAcked NumbersAreNew CurrentIsComplete DamageOnlyIfEmpty
