SPECIFICATION FairSpec
CONSTANTS
    Proc <- MCProc
    Cell <- MCCell
    First <- MCFirst
    Last <- MCLast
    Owner <- MCOwner
    Beds <- MCBeds
    Waters <- MCWaters
    Hswitch = 1
    StructSlope = 0
    WetSlope = 1
    DrySlope = 2
    MaxMove = 2
    Eps = 0
    Iterations = 4
INVARIANTS TypeOK HardLayerKept SandKept StableWhenQuiet
PROPERTY AllLeave
CHECK_DEADLOCK FALSE
