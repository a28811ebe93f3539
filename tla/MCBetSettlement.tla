--------------------------- MODULE MCBetSettlement ---------------------------
(* Instances of BetSettlement for TLC. *)
EXTENDS BetSettlement

CONSTANTS e1, e2, e3, auto1, auto2, o1, o2, r1, r2

MCAutoEvent  == [b \in Bets |-> IF b = 1 THEN auto1 ELSE auto2]

(* A stake of 10 points at Hong Kong odds 0.9. *)
MCProfitLoss == [t \in SettlementTypes |-> CASE t = "full_win"  -> 9
                                             [] t = "push"      -> 0
                                             [] t = "full_loss" -> -10]

(* Bound: two owner requests at once while there is one bet, one request at  *)
(* once when there are two.                                                 *)
InScope == bet[2].status = "absent" \/ pc[o2] = "idle"

ScopedSpec == Init /\ [][SettlementNext /\ InScope']_vars /\ Fairness
=============================================================================
