----------------------------- MODULE MCTopology -----------------------------
(* Instances of Topology for TLC.                                          *)
EXTENDS Topology, TLC

CONSTANTS r, s, self, k1, k2

Signed(type, id, ts, by, next, roots) ==
    [type |-> type, id |-> id, ts |-> ts, signedBy |-> by,
     updatesMustBeSignedBy |-> next, roots |-> roots]

MCDefault == Signed("planet", 1, 1, k1, k1, {r})

(* A successor of the default planet that hands over to another key, the   *)
(* one after it, a planet of one's own; a moon, its successor with this    *)
(* node among the roots, and one that the wrong key signed.                *)
MCWorlds ==
    {MCDefault,
     Signed("planet", 1, 2, k1, k2, {r, s}),
     Signed("planet", 1, 3, k2, k2, {r}),
     Signed("planet", 2, 2, k1, k1, {s}),
     Signed("moon", 3, 1, k1, k1, {s}),
     Signed("moon", 3, 2, k1, k1, {s, self}),
     Signed("moon", 3, 3, k2, k2, {s})}

Symmetry == Permutations(Thread)
=============================================================================
