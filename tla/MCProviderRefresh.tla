-------------------------- MODULE MCProviderRefresh ---------------------------
(* Instances of ProviderRefresh for TLC: two matches of one date and one     *)
(* competition, the second of which starts one step later.                   *)
EXTENDS ProviderRefresh, TLC

CONSTANTS p1, p2, m1, m2

MCDateOf   == [m \in Matches |-> 0]
MCTargetOf == [m \in Matches |-> 0]
MCKickoff  == [m \in Matches |-> IF m = m1 THEN 0 ELSE 1]
MCBackoff  == <<2>>

RunSymmetry == Permutations(Procs)
=============================================================================
