SPECIFICATION MeanFairSpec
CONSTANTS
    Pars <- MCPars
    CflSteps <- MCCfl
    GivenSteps <- MCGiven
    MaxIdle = 1
    Tol = 0
    MaxDtFac = 2
    Defuse = TRUE
    Format = "debug"
    Parallel = FALSE
INVARIANTS TypeOK NoOutputLost RecordsOnTime PeriodsCovered EvenWeights
PROPERTIES StepsSmooth Terminates
CHECK_DEADLOCK FALSE
