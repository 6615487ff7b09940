SPECIFICATION FairSpec
CONSTANTS
    CredTypes = {"TAG"}
    CredIds = {1}
    Bodies = {b}
    ComMaxDelta = 0
    CredMaxDelta = 0
    MaxVersion = 2
    Part <- OnePacket
    RateLimit = 1
    RequestLimit = 1
    ActivityTimeout = 2
    ReceiveTimeout = 0
INVARIANT
    ExchangeTypeOK
PROPERTIES
    CredentialsArrive
    Admitted
    StaysAdmitted
