SPECIFICATION WaveSpec
CONSTANTS
    Pars <- MCStraight
    CflSteps <- MCCfl
    GivenSteps <- NoGiven
    MaxIdle = 1
    Tol = 0
    MaxDtFac = 3
    Defuse = TRUE
    Waves <- MCSeries
    Taper = 4
    InParallel = TRUE
INVARIANT LastValueHeld
CHECK_DEADLOCK FALSE
