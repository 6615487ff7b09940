SPECIFICATION Spec
CONSTANTS
    Upstream = upstream
    Address = {a}
    Broadcast = {}
    Thread = {s, t}
    Timer = timer
    TxQueueSize = 2
    RetryDelay = 1
    TransmitTimeout = 0
    MaxPackets = 1
INVARIANTS
    TypeOK
    Accounted
    AskedInTime
SYMMETRY Symmetric
