\* asyncRecv: the second lookup of tryDequeue is made without the mutex.
CONSTANTS
    user = user
    recvHandler = recvHandler
    ctrlHandler = ctrlHandler
    m1 = m1
    m2 = m2
    m3 = m3
    NoMsg = NoMsg
    Consumers = {user}
    Messages = {m1, m2, m3}
    Keys <- TwoKeys
    KeyOf <- MCKeyOf
    SizeOf <- MCSizeOf
    MaxMessageSize = 2
    Producers = {recvHandler}
    MaxBufferSize = 3
    WaitKeys = {}
    Prefixes = {}
    TryKeys <- TwoKeys
SPECIFICATION Spec
INVARIANTS LookupIsCritical
CHECK_DEADLOCK FALSE
