SPECIFICATION Spec
CONSTANTS
    r = r
    s = s
    self = self
    k1 = k1
    k2 = k2
    Address = {r, s, self}
    Self = self
    Keys = {k1, k2}
    Worlds <- MCWorlds
    Thread = {t1, t2}
    DefaultPlanet <- MCDefault
    MaxWorlds = 2
INVARIANTS
    TypeOK
    UpstreamsKnown
    OnlyAskedMoons
PROPERTIES
    WorldsAdvance
SYMMETRY Symmetry
