\* Every plan, with every peer wanting or not wanting to be a member.
CONSTANTS
    MaxPeers = 3
    MaxRounds = 2
    Plans <- AllPlans
SPECIFICATION FairSpec
INVARIANTS TypeOK NeverMisread HandlersSurvive SplitAgrees
PROPERTIES SplitReturns
\* All calls have returned, or one has thrown.
CHECK_DEADLOCK FALSE
