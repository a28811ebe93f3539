-------------------------- MODULE MCDisciplineGate ---------------------------
(* Instances of DisciplineGate for TLC. *)
EXTENDS DisciplineGate, TLC

CONSTANTS q1, q2, u1, u2, c1, c2

(* Two bets of 6 points against 10, one of them also with another stake.     *)
MCPayloads == {[bet |-> 1, stake |-> 6, risky |-> FALSE],
               [bet |-> 1, stake |-> 2, risky |-> TRUE],
               [bet |-> 2, stake |-> 6, risky |-> FALSE]}

MCThresholds == {[big |-> 5, stop |-> None], [big |-> None, stop |-> 1]}

MCResults == {-6}

RequestSymmetry == Permutations(Requests) \cup Permutations(Challenges)
=============================================================================
