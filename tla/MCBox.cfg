\* A handler fills the box, the user thread drains it by every method and puts
\* messages back, as Base::ready does with confirmations.
CONSTANTS
    user = user
    recvHandler = recvHandler
    ctrlHandler = ctrlHandler
    m1 = m1
    m2 = m2
    m3 = m3
    NoMsg = NoMsg
    Consumers = {user}
    Messages = {m1, m2, m3}
    Keys <- TwoKeys
    KeyOf <- MCKeyOf
    SizeOf <- MCSizeOf
    MaxMessageSize = 2
    Producers = {recvHandler, user}
    MaxBufferSize = 2
    WaitKeys <- TwoKeys
    Prefixes <- AnyOrSource1
    TryKeys <- TwoKeys
SPECIFICATION FairSpec
INVARIANTS TypeOK Accounting BufferBound NeverPopsEmpty
PROPERTIES ConsumerServed ProducerServed ImplementsMailbox
\* tryDequeue may have thrown, and nobody has to call a method again.
CHECK_DEADLOCK FALSE
