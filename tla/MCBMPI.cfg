SPECIFICATION FairSpec
CONSTANTS
    Plans <- MCPlans
    None = None
INVARIANTS UrisAreRanks ResultsAreRight
PROPERTIES Finishes
CHECK_DEADLOCK FALSE
