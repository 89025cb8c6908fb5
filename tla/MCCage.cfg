CONSTANTS
    NPeers = 3
    Plans <- MCPlans
    None = None
SPECIFICATION FairSpec
INVARIANTS MappingsPartition PatternsAreRight NeverMisread MapsAreRight CollectsNeighbours ThrowsOnlyForLost
PROPERTIES Finishes
\* Plans end, and a lost vertex stops its neighbours.
CHECK_DEADLOCK FALSE
