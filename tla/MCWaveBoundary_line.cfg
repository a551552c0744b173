SPECIFICATION WaveSpec
CONSTANTS
    Pars <- MCStraight
    CflSteps <- MCCfl
    GivenSteps <- NoGiven
    MaxIdle = 1
    Tol = 0
    MaxDtFac = 3
    Defuse = TRUE
    Waves <- MCSpectra
    Taper = 4
    InParallel = TRUE
INVARIANT LineListed
CHECK_DEADLOCK FALSE
