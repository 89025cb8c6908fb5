\* synchronize of two peers.
CONSTANTS
    Cases <- Barriers
    Count <- MCCount
    None = None
SPECIFICATION FairSpec
PROPERTIES AllReturn
CHECK_DEADLOCK FALSE
