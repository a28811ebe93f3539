---------------------------- MODULE MCLiveRefresh -----------------------------
(* Instances of LiveRefresh for TLC. *)
EXTENDS LiveRefresh, TLC

CONSTANTS p1, p2, m1, m2

MCFreshness == [r \in Reasons |-> CASE r = "manual" -> 2 [] OTHER -> 3]

(* One process is ahead of the other and already uses the daily source. *)
MCOffset == [p \in Procs |-> IF p = p1 THEN 1 ELSE 0]
MCMode   == [p \in Procs |-> IF p = p1 THEN "daily" ELSE "widget"]

MatchSymmetry == Permutations(Matches)
=============================================================================
