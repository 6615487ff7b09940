SPECIFICATION Spec
CONSTANTS
    p = p
    q = q
    r = r
    Path = {p, q, r}
    Link = {1, 2}
    LinkOf <- MCLinkOf
    Family <- MCFamily
    Setups <- MCSetups
    MaxPaths = 2
    Trial = 1
    Expired = 1
    NoPath = NoPath
    NoLink = NoLink
    Flow = {1}
INVARIANT
    TypeOK
PROPERTIES
    FailsOverInTime
    BalanceServes
