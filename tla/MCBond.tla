------------------------------ MODULE MCBond ------------------------------
(* Instances of Bond for TLC.                                              *)
EXTENDS Bond

CONSTANTS p, q, r

(* One path on the first interface, two on the second.                     *)
MCLinkOf == [x \in Path |-> IF x = p THEN 1 ELSE 2]
MCFamily == [x \in Path |-> IF x = r THEN 6 ELSE 4]

Automatic == [policy |-> "ACTIVE_BACKUP", select |-> "OPTIMIZE",
              links |-> {}, spare |-> {}, pref |-> [l \in Link |-> 0]]
Spread == [Automatic EXCEPT !.policy = "BALANCE_XOR"]

(* Automatic, with links of each mode, with nothing but spares, and        *)
(* balancing without and with a spare.                                     *)
MCSetups ==
    {Automatic,
     [Automatic EXCEPT !.select = "ALWAYS", !.links = {1, 2}, !.spare = {1},
                       !.pref = [l \in Link |-> 64]],
     [Automatic EXCEPT !.select = "BETTER", !.links = {1, 2}, !.spare = {2}],
     [Automatic EXCEPT !.select = "FAILURE", !.links = {2}, !.spare = {2}],
     Spread,
     [Spread EXCEPT !.links = {1, 2}, !.spare = {1},
                    !.pref = [l \in Link |-> IF l = 1 THEN 4 ELSE 46]]}
===========================================================================
