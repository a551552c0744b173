SPECIFICATION WaveSpec
CONSTANTS
    Pars <- MCPars
    CflSteps <- MCCfl
    GivenSteps <- MCGiven
    MaxIdle = 1
    Tol = 0
    MaxDtFac = 3
    Defuse = TRUE
    Waves <- MCWaves
    Taper = 4
    InParallel = TRUE
INVARIANTS WaveTypeOK ConditionCoversClock SignalOnClock RecordsAdjacent SignalLongEnough TaperAgrees SeriesFollows
CHECK_DEADLOCK FALSE
