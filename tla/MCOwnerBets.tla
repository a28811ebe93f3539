----------------------------- MODULE MCOwnerBets -----------------------------
(* Instances of OwnerBets for TLC. *)
EXTENDS OwnerBets, TLC

CONSTANTS e1, e2, auto1, o1, r1, p1, p2, n1

MCAutoEvent  == [b \in Bets |-> auto1]
MCProfitLoss == [t \in SettlementTypes |-> IF t = "full_win" THEN 9 ELSE -10]
=============================================================================
