\* Both peers send more than a connection holds.
CONSTANTS
    Peers = {0, 1}
    Tags = {1}
    Nothing = Nothing
    MsgIDs = {0, 1, 2}
    Setups <- Flood
SPECIFICATION FairSpec
PROPERTIES AsyncSendReturns
CHECK_DEADLOCK FALSE
