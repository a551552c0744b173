SPECIFICATION FairSpec
CONSTANT Inputs <- MCInputs
INVARIANTS TypeOK NobodyPastBadGrid DomainsTile NeighboursMutual RangesTile
PROPERTY SettlesOrStops
CHECK_DEADLOCK FALSE
