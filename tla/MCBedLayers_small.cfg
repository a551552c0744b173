SPECIFICATION Spec
CONSTANTS
    Nd = 4
    NdVar = 2
    Top = 3
    Start = 4
    D = 4
    FracDz = 3
    MergeAt = 1
    SplitAt = 4
    Beds <- MCBeds
    Changes <- MCChanges
    MaxCalls = 4
    MaxSubsteps = 3
INVARIANTS TypeOK BedFollows FractionsKept VariableLayerBounded
CHECK_DEADLOCK FALSE
