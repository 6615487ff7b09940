SPECIFICATION Spec
CONSTANTS
    Threads = {t1, t2}
    QueueSize = 2
    MaxFragments = 3
    Transmissions <- MCTransmissions
    MaxArrivals <- MCArrivals
SYMMETRY ThreadSymmetry
INVARIANTS
    TypeOK
    AssembledWhole
    DecodedOncePerCopy
    NothingLost
CHECK_DEADLOCK FALSE
