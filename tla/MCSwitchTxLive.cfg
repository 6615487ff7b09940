SPECIFICATION FairSpec
CONSTANTS
    Upstream = upstream
    Address = {a}
    Broadcast = {a}
    Thread = {s}
    Timer = timer
    TxQueueSize = 2
    RetryDelay = 1
    TransmitTimeout = 0
    MaxPackets = 1
PROPERTY
    SentIfPossible
