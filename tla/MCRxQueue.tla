----------------------------- MODULE MCRxQueue -----------------------------
(* Instances of RxQueue for TLC.                                           *)
EXTENDS RxQueue, TLC

ThreadSymmetry == Permutations(Threads)

(* Two packets in fragments and one in a single piece; the pieces of the   *)
(* first may arrive twice.                                                 *)
MCTransmissions ==
    {[id |-> 1, total |-> 2], [id |-> 2, total |-> 2], [id |-> 3, total |-> 1]}
MCArrivals == [tx \in Transmissions |-> IF tx.id = 1 THEN 2 ELSE 1]
=============================================================================
