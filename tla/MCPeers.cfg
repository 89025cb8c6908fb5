\* Every interleaving of programs that mix all calls, of a matched exchange, and
\* of two senders with one receiver.
CONSTANTS
    Peers = {0, 1}
    Tags = {1, 2}
    Nothing = Nothing
    MsgIDs = {0, 1, 2}
    Setups <- MCSetups
SPECIFICATION FairSpec
INVARIANTS TypeOK ExactlyOnce OneConfirmation
PROPERTIES ImplementsTransport Terminates
CHECK_DEADLOCK FALSE
