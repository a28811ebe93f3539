------------------------- MODULE MCRefreshQueueStore --------------------------
(* An instance of RefreshQueueStore for TLC. *)
EXTENDS RefreshQueueStore, TLC

CONSTANTS p1, p2, m1

CallerSymmetry == Permutations(Procs)
=============================================================================
