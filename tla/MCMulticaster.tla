--------------------------- MODULE MCMulticaster ---------------------------
(* Instances of Multicaster for TLC.                                       *)
EXTENDS Multicaster

CONSTANTS a, b

Plain(n) == [limit |-> n, bridges |-> {}, replicators |-> {}, permitted |-> Address]

(* The spoke of a hub-and-spoke network, a hub that is a bridge like a and *)
(* whose rules let nothing pass to a, more bridges than the limit, and     *)
(* multicast turned off.                                                   *)
MCConfigs ==
    {[Plain(2) EXCEPT !.replicators = {a}],
     [Plain(2) EXCEPT !.bridges = {a, Self}, !.replicators = {Self}, !.permitted = {b}],
     [Plain(1) EXCEPT !.bridges = {a, b}],
     Plain(0)}
=============================================================================
