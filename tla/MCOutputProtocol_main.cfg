SPECIFICATION FairSpec
CONSTANTS
    Size = 2
    TStop = 5
    Steps <- MCSteps
    Bad <- MCBad
    Times <- MCTimes
    GlobalVars <- MCVars
    HasMean = TRUE
    HasPoint = TRUE
    HasDrifter = TRUE
    Owner = 2
INVARIANTS InStep SameClock Snapshot
PROPERTIES KeepsPromise Terminates
CHECK_DEADLOCK FALSE
