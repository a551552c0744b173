SPECIFICATION Spec
CONSTANTS
    Size = 2
    TStop = 5
    Steps <- MCSteps
    Bad <- MCBad
    Times <- MCTimes
    GlobalVars <- MCVars
    HasMean = TRUE
    HasPoint = TRUE
    HasDrifter = FALSE
    Owner = 2
INVARIANT ExtraOutputMade
CHECK_DEADLOCK FALSE
