----------------------------- MODULE MCSwitchTx -----------------------------
(* Instances of SwitchTx for TLC.                                          *)
EXTENDS SwitchTx, TLC

Symmetric == Permutations(Thread)
=============================================================================
