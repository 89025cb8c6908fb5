\* All collectives but synchronize.
CONSTANTS
    Cases <- MCCases
    Count <- MCCount
    None = None
SPECIFICATION FairSpec
INVARIANTS Delivered NothingLeft BreaksOnlyInGaps
PROPERTIES AllReturn
\* All collectives have returned, or broken.
CHECK_DEADLOCK FALSE
