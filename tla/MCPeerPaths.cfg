SPECIFICATION FairSpec
CONSTANTS
    p = p
    q = q
    Path = {p, q}
    HostOf <- MCHostOf
    Scopes = {{p, q}}
    Thread = {s, t}
    Steady = {p}
    MaxPaths = 3
    Expiration = 2
    MaxPriority = 3
    NoPath = NoPath
INVARIANTS
    TypeOK
    Packed
PROPERTIES
    DoublesHeal
    Reconnects
