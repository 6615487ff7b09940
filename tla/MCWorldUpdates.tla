--------------------------- MODULE MCWorldUpdates ---------------------------
(* Instances of WorldUpdates for TLC.                                      *)
EXTENDS WorldUpdates

CONSTANTS r, s, self, k1, k2

Signed(type, id, ts, by, next, roots) ==
    [type |-> type, id |-> id, ts |-> ts, signedBy |-> by,
     updatesMustBeSignedBy |-> next, roots |-> roots]

MCPlanet == Signed("planet", 1, 1, k1, k2, {s})

(* A successor of the planet, with another key, and three revisions of a   *)
(* moon, the third signed with the key that the second takes out of use;   *)
(* r is a root that is offline.                                            *)
MCWorlds ==
    {MCPlanet,
     Signed("planet", 1, 2, k2, k2, {r, s}),
     Signed("moon", 3, 1, k1, k1, {s}),
     Signed("moon", 3, 2, k1, k2, {r}),
     Signed("moon", 3, 3, k1, k1, {r, s})}
=============================================================================
