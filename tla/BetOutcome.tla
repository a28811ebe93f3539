----------------------------- MODULE BetOutcome ------------------------------
(***************************************************************************)
(* What a completed match makes of a pending bet: the evaluation of a      *)
(* structured selection on the canonical match row and the cached detail,  *)
(* and the points it pays.                                                 *)
(*                                                                         *)
(* Lines and thresholds are counted in quarter goals, stakes, odds and     *)
(* points in ten-thousandths.  An evaluation is a settlement type or       *)
(* Manual; of several objections to the evidence the code reports the      *)
(* first, here they are a set.  The detail is of the bet's match and well  *)
(* formed; its teamStats, which no adapter fills, are left out, and so is   *)
(* where the context of a running bet was taken from, and when, which is   *)
(* validated but pays nothing.                                             *)
(***************************************************************************)
EXTENDS Integers, FiniteSets

CONSTANTS None, Manual

Types == {"full_win", "half_win", "push", "half_loss", "full_loss"}

ASSUME BetOutcomeAssumption == Manual \notin Types

Scale == 10000

-----------------------------------------------------------------------------
(* A line between two half goals splits the stake over its neighbours. *)
AsianLegs(line) == IF line % 2 = 1 THEN {line - 1, line + 1} ELSE {line}

Compare(actual, leg, direction) ==
    LET difference == IF direction = "over" THEN 4 * actual - leg ELSE leg - 4 * actual
    IN  CASE difference > 0 -> "win"
          [] difference = 0 -> "push"
          [] difference < 0 -> "loss"

CombineLegs(outcomes) ==
    CASE outcomes = {"win"}          -> "full_win"
      [] outcomes = {"loss"}         -> "full_loss"
      [] outcomes = {"push"}         -> "push"
      [] outcomes = {"win", "push"}  -> "half_win"
      [] outcomes = {"loss", "push"} -> "half_loss"
      [] OTHER                       -> Manual

SettleAsian(actual, line, direction) ==
    CombineLegs({Compare(actual, leg, direction) : leg \in AsianLegs(line)})

-----------------------------------------------------------------------------
(* validateStructuredBetSelection *)
HasPeriod(bet) == bet.period \in {"full_time", "first_half"}

NotRunning(bet) ==
    \A field \in {"window", "threshold", "from", "to", "home", "away", "minute"} : bet[field] = None

(* deriveRunningOver: a fixed window is always over half a goal. *)
HasThreshold(bet) ==
    IF bet.window = "fixed_15" THEN bet.threshold \in {2, None} ELSE bet.threshold \in {2, 3}

RunningLine(bet) ==
    IF bet.window = "fixed_15" THEN 2 ELSE 4 * (bet.home + bet.away) + bet.threshold

ValidWindow(bet) ==
    CASE bet.window = "to_full_time" -> bet.from = None /\ bet.to = None
      [] bet.window = "to_half_time" -> /\ bet.from = None /\ bet.to = None
                                        /\ bet.minute # None => bet.minute < 45
      [] bet.window = "fixed_15"     -> /\ \E k \in 0..5 : bet.from = 15 * k /\ bet.to = 15 * k + 15
                                        /\ bet.minute # None => bet.minute < bet.to

ValidRunning(bet) ==
    /\ bet.selection \in {"over", None} /\ bet.period = None
    /\ bet.window \in {"to_half_time", "to_full_time", "fixed_15"}
    /\ bet.home # None /\ bet.away # None
    /\ bet.minute # None => bet.minute \in 0..89
    /\ HasThreshold(bet)
    /\ bet.line # None => bet.line = RunningLine(bet)
    /\ ValidWindow(bet)

ValidSelection(bet) ==
    \/ /\ bet.market = "1X2" /\ bet.selection \in {"home", "draw", "away"}
       /\ HasPeriod(bet) /\ bet.line = None /\ NotRunning(bet)
    \/ /\ bet.market = "over_under" /\ bet.selection \in {"over", "under"}
       /\ HasPeriod(bet) /\ bet.line \in 1..80 /\ NotRunning(bet)
    \/ /\ bet.market = "handicap" /\ bet.selection \in {"home", "away"}
       /\ HasPeriod(bet) /\ bet.line \in -40..40 /\ NotRunning(bet)
    \/ /\ bet.market = "corners" /\ bet.selection \in {"over", "under"}
       /\ HasPeriod(bet) /\ bet.line \in 1..160 /\ NotRunning(bet)
    \/ /\ bet.market = "running" /\ ValidRunning(bet)

-----------------------------------------------------------------------------
Warned(detail, terms) == detail.warnings \cap terms # {}

(* inspectDetail: why the detail is not trusted. *)
Objections(row, detail) ==
       {r \in {"match_not_completed"}  : detail.match.status # "completed"}
  \cup {r \in {"stale_detail"}         : detail.at < row.at \/ Warned(detail, {"stale"})}
  \cup {r \in {"incomplete_detail"}    : Warned(detail, {"partial_detail"})}
  \cup {r \in {"contradictory_score"}  : \/ detail.match.score # row.score
                                         \/ detail.score # row.score
                                         \/ detail.fulltime \notin {None, row.score}}
  \cup {r \in {"contradictory_detail"} : detail.seen # "completed"}
  \cup {r \in {"extra_time_ambiguous"} : detail.extratime # None \/ detail.penalty # None}

(* periodScore: None if the detail does not show the score of the half. *)
PeriodScore(period, row, detail) ==
    IF period = "full_time" THEN row.score
    ELSE IF \/ detail = None
            \/ Warned(detail, {"partial_detail", "score_breakdown_partial", "score_breakdown_unavailable"})
            \/ detail.halftime = None
            \/ detail.halftime.home > row.score.home \/ detail.halftime.away > row.score.away
         THEN None
         ELSE detail.halftime

CornerScore(period, detail) ==
    IF \/ detail = None
       \/ Warned(detail, {"partial_detail", "corners_partial", "corners_unavailable",
                          "statistics_partial", "statistics_unavailable"})
    THEN None
    ELSE detail.corners[period]

(* Fault: the first minute belongs to two windows. *)
GoalsFrom(detail, from, to) == {g \in detail.goals : g.minute >= from /\ g.minute <= to}

(* The goals of the detail in a fixed window of minutes. *)
GoalsWithin(detail, from, to) == {g \in detail.goals : g.minute > from /\ g.minute <= to}
(* Fault: a bet placed as the window begins is refused. *)
EvaluateFixedWindowStrict(bet, row, detail) ==
    IF \/ bet.minute = None \/ bet.minute >= bet.from
       \/ detail = None
       \/ Cardinality(detail.goals) # row.score.home + row.score.away
    THEN Manual
    ELSE SettleAsian(Cardinality(GoalsWithin(detail, bet.from, bet.to)), 2, "over")

EvaluateFixedWindow(bet, row, detail) ==
    IF \/ bet.minute = None \/ bet.minute > bet.from
       \/ detail = None
       \/ Warned(detail, {"partial_detail", "events_partial", "events_unavailable"})
       \/ \E g \in detail.goals : g.minute = None
       \/ Cardinality(detail.goals) # row.score.home + row.score.away
    THEN Manual
    ELSE SettleAsian(Cardinality(GoalsWithin(detail, bet.from, bet.to)), 2, "over")

(* The goals scored since the bet was placed, against the threshold. *)
EvaluateToWhistle(bet, row, detail) ==
    LET period == IF bet.window = "to_half_time" THEN "first_half" ELSE "full_time"
        score  == PeriodScore(period, row, detail)
    IN  IF score = None THEN Manual
        ELSE IF score.home < bet.home \/ score.away < bet.away THEN Manual
        ELSE SettleAsian(score.home + score.away - (bet.home + bet.away), bet.threshold, "over")

EvaluateRunning(bet, row, detail) ==
    IF bet.window = "fixed_15" THEN EvaluateFixedWindow(bet, row, detail)
    ELSE EvaluateToWhistle(bet, row, detail)

Winner(score) ==
    CASE score.home > score.away -> "home"
      [] score.home = score.away -> "draw"
      [] score.home < score.away -> "away"

EvaluateMarket(bet, score) ==
    LET margin == IF bet.selection = "home" THEN score.home - score.away ELSE score.away - score.home
    IN  CASE bet.market = "1X2"      -> IF bet.selection = Winner(score) THEN "full_win" ELSE "full_loss"
          [] bet.market = "handicap" -> SettleAsian(margin, - bet.line, "over")
          [] OTHER                   -> SettleAsian(score.home + score.away, bet.line, bet.selection)

(* evaluateStructuredBetOutcome *)
Evaluate(bet, row, detail) ==
    LET score == IF bet.market = "corners" THEN CornerScore(bet.period, detail)
                 ELSE PeriodScore(bet.period, row, detail)
    IN  IF \/ row.status # "completed" \/ ~ValidSelection(bet)
           \/ detail # None /\ Objections(row, detail) # {}
        THEN Manual
        ELSE IF bet.market = "running" THEN EvaluateRunning(bet, row, detail)
        ELSE IF score = None THEN Manual
        ELSE EvaluateMarket(bet, score)

-----------------------------------------------------------------------------
(* Half up, away from zero for a negative numerator. *)
DivideRounded(numerator, denominator) ==
    IF numerator < 0 THEN - ((- numerator + denominator \div 2) \div denominator)
    ELSE (numerator + denominator \div 2) \div denominator

(* Fault: half of the odds is rounded down before it is multiplied. *)
ProfitLossHalvedFirst(stake, odds, type) ==
    CASE type = "full_win"  -> DivideRounded(stake * odds, Scale)
      [] type = "half_win"  -> DivideRounded(stake * (odds \div 2), Scale)
      [] type = "push"      -> 0
      [] type = "half_loss" -> - DivideRounded(stake, 2)
      [] type = "full_loss" -> - stake

(* calculateHkSettlementProfitLoss *)
ProfitLoss(stake, odds, type) ==
    CASE type = "full_win"  -> DivideRounded(stake * odds, Scale)
      [] type = "half_win"  -> DivideRounded(stake * odds, 2 * Scale)
      [] type = "push"      -> 0
      [] type = "half_loss" -> - DivideRounded(stake, 2)
      [] type = "full_loss" -> - stake
=============================================================================
