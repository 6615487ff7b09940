SPECIFICATION Spec
CONSTANTS
    Threads = {t1, t2}
    MaxUpdates = 2
    MaxChunks = 2
    Updates <- MCUpdates
    MaxReceived = 4
SYMMETRY ThreadSymmetry
INVARIANTS
    TypeOK
    NoMixedConfig
    NothingLost
    
CHECK_DEADLOCK FALSE
