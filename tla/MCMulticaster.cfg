SPECIFICATION FairSpec
CONSTANTS
    Self = self
    a = a
    b = b
    Address = {a, b}
    Configs <- MCConfigs
    TxQueueSize = 1
    LikeExpire = 1
    TransmitTimeout = 1
    GatherDelay = 1
    MaxMulticasts = 2
INVARIANTS
    TypeOK
    AtMostOnce
    WithinLimit
    MembersServed
PROPERTIES
    Implements
    Drained
