----------------------------- MODULE MCBankroll ------------------------------
(* Instances of Bankroll for TLC. *)
EXTENDS Bankroll, TLC

CONSTANTS primary, a2, t1, t2, s1, s2, c1
=============================================================================
