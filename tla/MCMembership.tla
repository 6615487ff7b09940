---------------------------- MODULE MCMembership ----------------------------
(* Instances of Membership for TLC.                                        *)
EXTENDS Membership

MCComs == [ts : {1, 2}, identityMatches : {TRUE}] \union {NoCom}

(* A private configuration carries a COM issued with it; the node has no   *)
(* COM before the controller has answered (timestamp 0).                   *)
MCConfigs ==
    {[ts |-> t, public |-> FALSE,
      com |-> [ts |-> t, identityMatches |-> t # 0]] : t \in {0} \union Timestamps}
    \union {[ts |-> 2, public |-> TRUE, com |-> NoCom]}
=============================================================================
