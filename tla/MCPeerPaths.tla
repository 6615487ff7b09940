---------------------------- MODULE MCPeerPaths ----------------------------
(* Instances of PeerPaths for TLC.                                         *)
EXTENDS PeerPaths, TLC

CONSTANTS p, q

(* Two paths of two hosts.                                                 *)
MCHostOf == [x \in Path |-> IF x = p THEN 1 ELSE 2]
===========================================================================
