----------------------- MODULE MCNetworkConfigUpdate -----------------------
(* Instances of NetworkConfigUpdate for TLC.                               *)
EXTENDS NetworkConfigUpdate, TLC

ThreadSymmetry == Permutations(Threads)

Update(i, n, r) == [id |-> i, total |-> n, rev |-> r, forUs |-> TRUE,
                    legacy |-> FALSE, fast |-> FALSE]
Legacy == [Update(3, 1, 3) EXCEPT !.legacy = TRUE]

(* Two chunked updates, one of which is for another member, and a legacy   *)
(* one.                                                                    *)
MCUpdates == {Update(1, 2, 1),
              [Update(2, 2, 2) EXCEPT !.fast = TRUE, !.forUs = FALSE], Legacy}

(* A chunked update and one that is meant for another member.              *)
MCMisdirected == {Update(1, 2, 1), [Update(2, 1, 3) EXCEPT !.forUs = FALSE], Legacy}
=============================================================================
