SPECIFICATION UpdatesSpec
CONSTANTS
    r = r
    s = s
    self = self
    k1 = k1
    k2 = k2
    Address = {r, s, self}
    Self = self
    Keys = {k1, k2}
    Worlds <- MCWorlds
    Server = {s}
    FirstPlanet <- MCPlanet
INVARIANTS
    UpdatesTypeOK
    NotForgotten
PROPERTY
    Learns
