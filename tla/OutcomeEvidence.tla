--------------------------- MODULE OutcomeEvidence ---------------------------
(***************************************************************************)
(* The evidence a bet is settled on.  A match is played; the canonical row *)
(* and the cached detail are written from the provider's feeds, one after  *)
(* the other and more than once, and the terminal reconciler evaluates the *)
(* pending bet on what is there.                                           *)
(*                                                                         *)
(* Abstractions: one match and one bet; every write of a feed takes the    *)
(* next time.  One of the two feeds may report a wrong final score.  The   *)
(* provider counts goals of an extra time in the final score.              *)
(***************************************************************************)
EXTENDS BetOutcome

CONSTANTS
    Bets,        \* selections, without the score at their placement
    Moments,     \* minutes at which a bet may be placed
    Minutes,     \* minutes in which a goal may be scored; extra time is beyond 90
    Corners,     \* corner counts of a match
    MaxGoals, MaxReports,
    Stake, Odds

(* The columns of a bet that its evaluation reads, before it is validated. *)
Selections ==
    [market : {"1X2", "over_under", "handicap", "corners", "running", "custom"},
     selection : {None, "home", "draw", "away", "over", "under"},
     period : {None, "full_time", "first_half"},
     window : {None, "to_half_time", "to_full_time", "fixed_15"},
     line : {None} \cup Int, threshold : {None} \cup Int, from : {None} \cup Int, to : {None} \cup Int,
     home : {None} \cup Int, away : {None} \cup Int, minute : {None} \cup Int]

Scores  == [home : Nat, away : Nat]
Periods == {"full_time", "first_half"}

ASSUME OutcomeEvidenceAssumption ==
    /\ Bets \subseteq Selections
    /\ Corners # {} /\ \A c \in Corners, p \in Periods : c[p] \in Scores
    /\ None \notin Nat \cup Scores
    /\ Moments \subseteq 0..89 /\ Minutes \subseteq 1..120
    /\ {MaxGoals, MaxReports} \subseteq Nat /\ {Stake, Odds} \subseteq Nat \ {0}

VARIABLES
    goals,     \* the goals of the match
    corners,   \* its corners
    placed,    \* the minute at which the bet was placed (history)
    bet,       \* the bet record
    faulty,    \* the feed whose final score may be wrong
    phase,     \* how far the match is
    row,       \* match_record
    detail,    \* match_detail_cache
    outcome,   \* "pending", Manual or the settlement type of the bet
    now        \* reports so far

vars == <<goals, corners, placed, bet, faulty, phase, row, detail, outcome, now>>

-----------------------------------------------------------------------------
Sides == {"home", "away"}
Goals == [minute : Minutes, side : Sides]

Count(S, side) == Cardinality({g \in S : g.side = side})
ScoreOf(S)     == [home |-> Count(S, "home"), away |-> Count(S, "away")]
Until(minute)  == {g \in goals : g.minute <= minute}
ExtraTime      == \E g \in goals : g.minute > 90

(* The bet as it was recorded: a running bet carries the score of its moment. *)
Recorded(selection, minute) ==
    IF selection.market # "running" THEN selection
    ELSE [selection EXCEPT !.minute = IF @ = None THEN None ELSE minute,
                           !.home   = ScoreOf(Until(minute)).home,
                           !.away   = ScoreOf(Until(minute)).away]

EvidenceInit ==
    /\ goals \in {S \in SUBSET Goals : Cardinality(S) <= MaxGoals}
    /\ placed \in Moments
    /\ \E selection \in Bets :
         /\ bet = Recorded(selection, placed)
         /\ selection.market = "custom" \/ ValidSelection(bet)
         /\ corners \in IF selection.market = "corners" THEN Corners ELSE {CHOOSE c \in Corners : TRUE}
         /\ selection.market # "running" => \A moment \in Moments : placed <= moment
    /\ faulty \in {"row", "detail"}
    /\ phase = "halftime"
    /\ row = [status |-> "scheduled", score |-> None, at |-> 0]
    /\ detail = None
    /\ outcome = "pending"
    /\ now = 0

-----------------------------------------------------------------------------
(* The final whistle. *)
Whistle ==
    /\ phase = "halftime" /\ phase' = "over"
    /\ UNCHANGED <<goals, corners, placed, bet, faulty, row, detail, outcome, now>>

(* Final scores a feed may report. *)
Reported(feed) ==
    LET true == ScoreOf(goals)
    IN  {true} \cup {s \in {[true EXCEPT !.home = @ + 1]} : feed = faulty}

(* A terminal run, or later a season file, writes the row of the match. *)
PublishRow(score) ==
    /\ phase = "over" /\ now < MaxReports
    /\ now' = now + 1
    /\ row' = [status |-> "completed", score |-> score, at |-> now + 1]
    /\ UNCHANGED <<goals, corners, placed, bet, faulty, phase, detail, outcome>>

(* What the provider's detail page may show: it can be behind the match, and *)
(* it may lack goals and one of the other sections.                          *)
Pages ==
    LET played(over) == IF over THEN goals ELSE Until(45)
        scores(over) == IF over THEN Reported("detail") ELSE {ScoreOf(Until(45))}
    IN  UNION {[source : {"fotmob", "sportscore"}, over : {over}, score : scores(over),
                goals : SUBSET played(over),
                missing : {None, "halftime", "corners"}] :
                 over \in IF phase = "over" THEN BOOLEAN ELSE {FALSE}}

(* adaptFotMobDetail, adaptSportScoreDetail: the detail for the row as it is. *)
Adapted(page) ==
    [match     |-> [status |-> row.status, score |-> row.score],
     seen      |-> IF page.over THEN "completed" ELSE "halftime",
     score     |-> page.score,
     halftime  |-> IF page.missing # "halftime" THEN ScoreOf(Until(45)) ELSE None,
     fulltime  |-> IF page.source = "fotmob" /\ page.over /\ ~ExtraTime THEN page.score ELSE None,
     extratime |-> None,
     penalty   |-> None,
     corners   |-> IF page.source = "fotmob" /\ page.missing # "corners" THEN corners
                   ELSE [full_time |-> None, first_half |-> None],
     goals     |-> page.goals,
     warnings  |-> IF page.source = "sportscore" THEN {"partial_detail"} ELSE {},
     at        |-> now + 1]

(* A refresh of the detail is published; once the row is completed, a page of*)
(* a match in progress is refused.                                           *)
CacheDetail(page) ==
    /\ now < MaxReports
    /\ row.status = "completed" => page.over
    /\ now' = now + 1
    /\ detail' = Adapted(page)
    /\ UNCHANGED <<goals, corners, placed, bet, faulty, phase, row, outcome>>

(* The reconciler looks at the pending bet of a completed match; without a   *)
(* cached detail it leaves the bet to the owner.                             *)
Reconcile ==
    /\ row.status = "completed" /\ outcome \in {"pending", Manual}
    /\ outcome' = IF detail = None THEN Manual ELSE Evaluate(bet, row, detail)
    /\ UNCHANGED <<goals, corners, placed, bet, faulty, phase, row, detail, now>>

EvidenceNext ==
    \/ Whistle
    \/ \E score \in Reported("row") : PublishRow(score)
    \/ \E page \in Pages : CacheDetail(page)
    \/ Reconcile

EvidenceSpec == EvidenceInit /\ [][EvidenceNext]_vars

-----------------------------------------------------------------------------
(* What the bet was about, in terms of the match that was played.            *)
Until90 == Until(90)

Scope == IF bet.market = "running" THEN bet.window ELSE bet.period

Played ==
    CASE Scope \in {"first_half", "to_half_time"} -> Until(45)
      [] Scope = "fixed_15" -> {g \in goals : bet.from < g.minute /\ g.minute <= bet.to}
      [] OTHER -> Until90

(* Goals, or corners, of both sides, and the lead of the side that was bet on. *)
Total == IF bet.market = "corners" THEN corners[bet.period].home + corners[bet.period].away
         ELSE ScoreOf(Played).home + ScoreOf(Played).away

Lead == IF bet.selection = "home" THEN ScoreOf(Played).home - ScoreOf(Played).away
        ELSE ScoreOf(Played).away - ScoreOf(Played).home

(* By how many quarter goals the bet is ahead of its line. *)
Margin ==
    CASE bet.market = "1X2"      -> IF (IF bet.selection = "draw" THEN Lead = 0 ELSE Lead > 0)
                                    THEN 2 ELSE -2
      [] bet.market = "handicap" -> 4 * Lead + bet.line
      [] bet.market = "running"  -> IF bet.window = "fixed_15" THEN 4 * Total - 2
                                    ELSE 4 * Cardinality({g \in Played : g.minute > placed}) - bet.threshold
      [] bet.market \in {"over_under", "corners"} ->
                                    IF bet.selection = "over" THEN 4 * Total - bet.line
                                    ELSE bet.line - 4 * Total

(* In half stakes: a quarter decides half of the stake, half a goal all. *)
Halves(margin) ==
    CASE margin >= 2  -> 2
      [] margin = 1   -> 1
      [] margin = 0   -> 0
      [] margin = -1  -> -1
      [] margin <= -2 -> -2

HalvesOf(type) ==
    CASE type = "full_win" -> 2 [] type = "half_win" -> 1 [] type = "push" -> 0
      [] type = "half_loss" -> -1 [] type = "full_loss" -> -2

Settled == outcome \in Types

(* Full-time markets of a match that went to extra time. *)
Disputable == ExtraTime /\ Scope \in {"full_time", "to_full_time"}

TypeOK ==
    /\ goals \subseteq Goals /\ placed \in Moments /\ faulty \in {"row", "detail"}
    /\ phase \in {"halftime", "over"} /\ now \in 0..MaxReports
    /\ row.status \in {"scheduled", "completed"} /\ row.at \in 0..now
    /\ detail # None => detail.at \in 1..now /\ detail.goals \subseteq goals
    /\ outcome \in {"pending", Manual} \cup Types

(* "silent financial guesses are forbidden": whatever the provider leaves    *)
(* out, is late with or, in one of its two feeds, gets wrong, a bet that is  *)
(* settled automatically is settled as the match was played.                 *)
SettledAsPlayed == Settled /\ ~Disputable => HalvesOf(outcome) = Halves(Margin)

(* The points a settlement pays differ from the exact share of the stake, or *)
(* of the win, by no more than half of the smallest unit.                    *)
PaidAsPlayed ==
    Settled /\ ~Disputable =>
      LET exact == Halves(Margin) * Stake * (IF Margin > 0 THEN Odds ELSE Scale)
          paid  == 2 * Scale * ProfitLoss(Stake, Odds, outcome)
      IN  exact - paid \in -Scale..Scale

(* The evidence is complete and both feeds have it right. *)
Conclusive ==
    /\ row.status = "completed" /\ row.score = ScoreOf(goals)
    /\ detail # None /\ detail.at > row.at
    /\ detail.match = [status |-> "completed", score |-> row.score]
    /\ detail.score = row.score /\ detail.seen = "completed" /\ detail.warnings = {}
    /\ detail.halftime # None /\ detail.corners = corners /\ detail.goals = goals

(* A bet is not left to the owner without need: on conclusive evidence every *)
(* bet is settled whose selection can be evaluated at all, a fixed window    *)
(* only if the bet was placed, at a known minute, before it began, and the   *)
(* rest of a half only if the half was not over yet.                         *)
ConclusiveEvidenceSettles ==
    /\ Conclusive /\ bet.market # "custom" /\ ~Disputable
    /\ Scope = "fixed_15" => bet.minute # None /\ bet.minute <= bet.from
    /\ Scope = "to_half_time" => placed <= 45
    => Evaluate(bet, row, detail) \in Types

(* "Postponed/cancelled/extra-time ambiguity is also manual review": a bet on*)
(* the full time of a match with goals in extra time is not settled.         *)
ExtraTimeIsReviewed == Disputable => ~Settled
=============================================================================
