\* Two peers split the context they got from the first call.
CONSTANTS
    MaxPeers = 2
    MaxRounds = 2
    Plans <- NestedPlans
SPECIFICATION FairSpec
PROPERTIES AnySplitReturns
CHECK_DEADLOCK FALSE
