SPECIFICATION FairSpec
CONSTANTS
    Proc <- MCProc
    Drifters = 2
    Is <- MCIs
    Js <- MCJs
    Nx <- MCNx
    Ny <- MCNy
    NX = 7
    NY = 8
    Unit = 2
    Window <- MCWindow
    Starts <- MCStarts
    Flows <- MCFlows
    Huge = 1000
    MaxT = 3
INVARIANT SameEverywhere
PROPERTIES TrackFollowed AllStepsMade
CHECK_DEADLOCK FALSE
