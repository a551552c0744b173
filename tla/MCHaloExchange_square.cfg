SPECIFICATION HaloFairSpec
CONSTANTS
    M = 8
    N = 8
    MP = 2
    NP = 2
    Kinds <- MCKinds
    Rounds = 2
INVARIANTS HaloComplete SkewBounded
PROPERTY Completes
CHECK_DEADLOCK FALSE
