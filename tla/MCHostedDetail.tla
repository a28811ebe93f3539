---------------------------- MODULE MCHostedDetail ----------------------------
(* Two requests, a match whose source id is rebound within one provider.     *)
EXTENDS HostedDetail, TLC

CONSTANTS q1, q2, m1, fotmob, sportscore, f1, f2, s1, k1, k2

MCProviderOf == [s \in Sources |-> IF s = s1 THEN sportscore ELSE fotmob]
MCRefusal    == [p \in Providers |-> IF p = fotmob THEN 2 ELSE 1]
Symmetry     == {a @@ b @@ c : a \in Permutations(Requests), b \in Permutations(Kickoffs), c \in Permutations(Sources)}
=============================================================================
