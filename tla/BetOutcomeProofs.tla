--------------------------- MODULE BetOutcomeProofs ---------------------------
(***************************************************************************)
(* What the settlement of a split stake amounts to, for every result and   *)
(* every line: the operators of BetOutcome against the grading by half     *)
(* stakes of OutcomeEvidence.                                              *)
(***************************************************************************)
EXTENDS OutcomeEvidence, FunctionTheorems, FiniteSetTheorems, TLAPS

Ahead(actual, line, direction) == IF direction = "over" THEN 4 * actual - line ELSE line - 4 * actual

(* One leg is won, void or lost by the sign of what the result is ahead.     *)
LEMMA CompareBySign ==
  ASSUME NEW actual \in Int, NEW leg \in Int, NEW direction \in {"over", "under"}
  PROVE  /\ Ahead(actual, leg, direction) > 0 => Compare(actual, leg, direction) = "win"
         /\ Ahead(actual, leg, direction) = 0 => Compare(actual, leg, direction) = "push"
         /\ Ahead(actual, leg, direction) < 0 => Compare(actual, leg, direction) = "loss"
<1> DEFINE D == Ahead(actual, leg, direction)
<1>1. D \in Int BY DEF Ahead
<1>2. Compare(actual, leg, direction) =
        CASE D > 0 -> "win" [] D = 0 -> "push" [] D < 0 -> "loss"
      BY DEF Compare, Ahead
<1> HIDE DEF D
<1>3. D > 0 => Compare(actual, leg, direction) = "win"   BY <1>1, <1>2
<1>4. D = 0 => Compare(actual, leg, direction) = "push"  BY <1>1, <1>2
<1>5. D < 0 => Compare(actual, leg, direction) = "loss"  BY <1>1, <1>2
<1> QED BY <1>3, <1>4, <1>5 DEF D

(* combineLegs knows every combination of outcomes two neighbouring legs can *)
(* have.                                                                     *)
LEMMA Combined ==
  /\ CombineLegs({"win"}) = "full_win" /\ CombineLegs({"loss"}) = "full_loss"
  /\ CombineLegs({"push"}) = "push"
  /\ CombineLegs({"win", "push"}) = "half_win" /\ CombineLegs({"push", "win"}) = "half_win"
  /\ CombineLegs({"loss", "push"}) = "half_loss" /\ CombineLegs({"push", "loss"}) = "half_loss"
<1>1. /\ {"win"} # {"loss"} /\ {"win"} # {"push"} /\ {"loss"} # {"push"}
      /\ {"win", "push"} # {"win"} /\ {"win", "push"} # {"loss"} /\ {"win", "push"} # {"push"}
      /\ {"loss", "push"} # {"win"} /\ {"loss", "push"} # {"loss"} /\ {"loss", "push"} # {"push"}
      /\ {"win", "push"} # {"loss", "push"}
      /\ {"push", "win"} = {"win", "push"} /\ {"push", "loss"} = {"loss", "push"}
      OBVIOUS
<1> QED BY <1>1 DEF CombineLegs

(* settleAsian grades every result: it never leaves a bet undecided, and what*)
(* the two half stakes come to depends only on how many quarter goals the    *)
(* result is ahead of the line.                                              *)
THEOREM AsianGrades ==
  ASSUME NEW actual \in Int, NEW line \in Int, NEW direction \in {"over", "under"}
  PROVE  /\ SettleAsian(actual, line, direction) \in Types
         /\ HalvesOf(SettleAsian(actual, line, direction)) = Halves(Ahead(actual, line, direction))
<1> DEFINE D == Ahead(actual, line, direction)
           S == SettleAsian(actual, line, direction)
<1>1. D \in Int BY DEF Ahead
<1>2. CASE line % 2 = 0
  <2>1. S = CombineLegs({Compare(actual, line, direction)})
    <3>1. AsianLegs(line) = {line} BY <1>2 DEF AsianLegs
    <3>2. {Compare(actual, leg, direction) : leg \in {line}} = {Compare(actual, line, direction)} OBVIOUS
    <3> QED BY <3>1, <3>2 DEF SettleAsian
  <2>2. D % 2 = 0 BY <1>2 DEF Ahead
  <2>3. CASE D > 0
    <3>1. S = "full_win" BY <2>1, <2>3, CompareBySign, Combined
    <3>2. D >= 2 BY <1>1, <2>2, <2>3
    <3> QED BY <3>1, <3>2, <1>1 DEF Types, HalvesOf, Halves
  <2>4. CASE D = 0
    <3>1. S = "push" BY <2>1, <2>4, CompareBySign, Combined
    <3> QED BY <3>1, <2>4, <1>1 DEF Types, HalvesOf, Halves
  <2>5. CASE D < 0
    <3>1. S = "full_loss" BY <2>1, <2>5, CompareBySign, Combined
    <3>2. D <= -2 BY <1>1, <2>2, <2>5
    <3> QED BY <3>1, <3>2, <1>1 DEF Types, HalvesOf, Halves
  <2> QED BY <1>1, <2>3, <2>4, <2>5
<1>3. CASE line % 2 = 1
  <2> DEFINE low  == Compare(actual, line - 1, direction)
             high == Compare(actual, line + 1, direction)
  <2>1. S = CombineLegs({low, high})
    <3>1. {Compare(actual, leg, direction) : leg \in {line - 1, line + 1}} = {low, high} OBVIOUS
    <3> QED BY <1>3, <3>1 DEF SettleAsian, AsianLegs
  <2>2. D % 2 = 1 BY <1>3 DEF Ahead
  <2>3. /\ \/ /\ Ahead(actual, line - 1, direction) = D + 1
              /\ Ahead(actual, line + 1, direction) = D - 1
           \/ /\ Ahead(actual, line - 1, direction) = D - 1
              /\ Ahead(actual, line + 1, direction) = D + 1
        /\ Ahead(actual, line - 1, direction) \in Int /\ Ahead(actual, line + 1, direction) \in Int
        /\ line - 1 \in Int /\ line + 1 \in Int
        BY DEF Ahead
  <2>4. CASE D >= 2
    <3>1. low = "win" /\ high = "win" BY <1>1, <2>2, <2>3, <2>4, CompareBySign
    <3>2. S = "full_win" BY <2>1, <3>1, Combined
    <3> QED BY <3>2, <2>4, <1>1 DEF Types, HalvesOf, Halves
  <2>5. CASE D = 1
    <3>1. \/ low = "win" /\ high = "push"
          \/ low = "push" /\ high = "win"
          BY <1>1, <2>3, <2>5, CompareBySign
    <3>2. S = "half_win" BY <2>1, <3>1, Combined
    <3> QED BY <3>2, <2>5, <1>1 DEF Types, HalvesOf, Halves
  <2>6. CASE D = -1
    <3>1. \/ low = "loss" /\ high = "push"
          \/ low = "push" /\ high = "loss"
          BY <1>1, <2>3, <2>6, CompareBySign
    <3>2. S = "half_loss" BY <2>1, <3>1, Combined
    <3> QED BY <3>2, <2>6, <1>1 DEF Types, HalvesOf, Halves
  <2>7. CASE D <= -2
    <3>1. low = "loss" /\ high = "loss" BY <1>1, <2>2, <2>3, <2>7, CompareBySign
    <3>2. S = "full_loss" BY <2>1, <3>1, Combined
    <3> QED BY <3>2, <2>7, <1>1 DEF Types, HalvesOf, Halves
  <2> QED BY <1>1, <2>2, <2>4, <2>5, <2>6, <2>7
<1> QED BY <1>2, <1>3

-----------------------------------------------------------------------------
(* Counting goals.  A match has finitely many, each is scored by one side.   *)
LEMMA GoalsHaveMinutes == \A g \in Goals : g.minute \in 1..120 /\ g.minute \in Nat
  <1>1. \A g \in Goals : g.minute \in Minutes
    BY DEF Goals
  <1>2. Minutes \subseteq 1..120 /\ 1..120 \subseteq Nat
    BY OutcomeEvidenceAssumption
  <1> QED
    BY <1>1, <1>2

LEMMA GoalsAreFinite ==
    ASSUME NEW S \in SUBSET Goals
    PROVE  IsFiniteSet(S)
  <1>1. IsFiniteSet(Minutes \X Sides)
    <2>1. IsFiniteSet({"home"}) /\ IsFiniteSet({"away"})
      BY FS_Singleton
    <2>2. IsFiniteSet(Minutes)
      <3>1. Minutes \in SUBSET Nat /\ \A m \in Minutes : m <= 120
        BY OutcomeEvidenceAssumption
      <3> QED
        BY <3>1, FS_BoundedSetOfNaturals
    <2>3. IsFiniteSet({"home"} \cup {"away"}) /\ Sides = {"home"} \cup {"away"}
      BY <2>1, FS_Union DEF Sides
    <2> QED
      BY <2>2, <2>3, FS_Product
  <1>2. PICK f : f = [g \in Goals |-> <<g.minute, g.side>>]
    OBVIOUS
  <1>3. f \in Injection(Goals, Minutes \X Sides)
    BY <1>2 DEF Injection, IsInjective, Goals
  <1> QED
    BY <1>1, <1>3, FS_Injection, FS_Subset

LEMMA Counted ==
    ASSUME NEW S \in SUBSET Goals
    PROVE  /\ Cardinality(S) \in Nat /\ ScoreOf(S) \in Scores
           /\ ScoreOf(S).home + ScoreOf(S).away = Cardinality(S)
  <1>1. PICK H, A : H = {g \in S : g.side = "home"} /\ A = {g \in S : g.side = "away"}
    OBVIOUS
  <1>2. IsFiniteSet(S) /\ IsFiniteSet(H) /\ IsFiniteSet(A)
    BY <1>1, GoalsAreFinite
  <1>3. S = H \cup A /\ H \cap A = {}
    BY <1>1 DEF Goals, Sides
  <1>4. /\ Cardinality(S) \in Nat /\ Cardinality(H) \in Nat /\ Cardinality(A) \in Nat
        /\ Cardinality({}) = 0
    BY <1>2, FS_CardinalityType, FS_EmptySet
  <1>5. Cardinality(S) = Cardinality(H) + Cardinality(A)
    <2>1. Cardinality(H \cup A) = Cardinality(H) + Cardinality(A) - Cardinality(H \cap A)
      BY <1>2, FS_Union
    <2>2. Cardinality(H \cap A) = 0 /\ H \cup A = S
      BY <1>3, <1>4, Zenon
    <2> QED
      BY <1>4, <2>1, <2>2
  <1>6. ScoreOf(S) = [home |-> Cardinality(H), away |-> Cardinality(A)]
    BY <1>1 DEF ScoreOf, Count
  <1> QED
    BY <1>4, <1>5, <1>6 DEF Scores

(* More goals, no lower score; as many goals of either side, the same goals. *)
LEMMA CountedMore ==
    ASSUME NEW S \in SUBSET Goals, NEW T \in SUBSET S
    PROVE  /\ ScoreOf(T).home <= ScoreOf(S).home /\ ScoreOf(T).away <= ScoreOf(S).away
           /\ Cardinality(S) = Cardinality(T) => S = T
           /\ Cardinality(S \ T) = Cardinality(S) - Cardinality(T)
  <1>1. IsFiniteSet(S) /\ S \cap T = T
    BY GoalsAreFinite
  <1>2. /\ IsFiniteSet({g \in S : g.side = "home"}) /\ IsFiniteSet({g \in S : g.side = "away"})
        /\ {g \in T : g.side = "home"} \subseteq {g \in S : g.side = "home"}
        /\ {g \in T : g.side = "away"} \subseteq {g \in S : g.side = "away"}
    BY GoalsAreFinite
  <1>3. Count(T, "home") <= Count(S, "home") /\ Count(T, "away") <= Count(S, "away")
    BY <1>2, FS_Subset DEF Count
  <1>4. Cardinality(S \ T) = Cardinality(S) - Cardinality(T)
    BY <1>1, FS_Difference
  <1>5. Cardinality(S) = Cardinality(T) => S = T
    BY <1>1, FS_Subset
  <1> QED
    BY <1>3, <1>4, <1>5 DEF ScoreOf

-----------------------------------------------------------------------------
(* What is fixed before the match is settled: the match and the bet on it.   *)
Fixed ==
    /\ goals \in SUBSET Goals /\ placed \in 0..89 /\ faulty \in {"row", "detail"}
    /\ \A p \in Periods : corners[p] \in Scores
    /\ bet \in Selections /\ (bet.market = "custom" \/ ValidSelection(bet))
    /\ bet.market = "running" =>
         /\ bet.home = ScoreOf(Until(placed)).home /\ bet.away = ScoreOf(Until(placed)).away
         /\ bet.minute \in {None, placed}

(* What the row and the detail may say, whenever they were written.          *)
Evident ==
    /\ now \in Nat /\ row.at \in Nat
    /\ row.status = "completed" => row.score \in Reported("row")
    /\ detail # None =>
         /\ detail.at \in Nat
         /\ detail.seen = "completed" => detail.score \in Reported("detail")
         /\ detail.halftime \in {None, ScoreOf(Until(45))}
         /\ detail.goals \subseteq goals
         /\ \A p \in Periods : detail.corners[p] \in {None, corners[p]}
         /\ detail.fulltime \in {None, detail.score}
         /\ detail.extratime = None /\ detail.penalty = None

(* A score both feeds report is the score of the match.                      *)
LEMMA ScoreIsTrue ==
    ASSUME Fixed, Evident, detail # None, row.status = "completed", Objections(row, detail) = {}
    PROVE  row.score = ScoreOf(goals) /\ detail.seen = "completed"
  <1>1. detail.score = row.score /\ detail.seen = "completed"
    BY DEF Objections
  <1>2. ScoreOf(goals) \in Scores
    BY Counted DEF Fixed
  <1>3. row.score \in Reported("row") /\ row.score \in Reported("detail")
    BY <1>1 DEF Evident
  <1> QED
    BY <1>1, <1>3 DEF Reported, Fixed

(* The score of a half or of a match, where it is accepted at all.           *)
LEMMA PeriodIsTrue ==
    ASSUME Fixed, Evident, detail # None, row.status = "completed", Objections(row, detail) = {},
           NEW period \in Periods, period = "full_time" => ~ExtraTime,
           PeriodScore(period, row, detail) # None
    PROVE  PeriodScore(period, row, detail) = ScoreOf(Until(IF period = "full_time" THEN 90 ELSE 45))
  <1>1. CASE period = "full_time"
    <2>1. Until(90) = goals
      BY <1>1, GoalsHaveMinutes DEF Until, ExtraTime, Fixed
    <2> QED
      BY <1>1, <2>1, ScoreIsTrue DEF PeriodScore
  <1>2. CASE period = "first_half"
    <2>1. PeriodScore(period, row, detail) = detail.halftime
      BY <1>2 DEF PeriodScore
    <2> QED
      BY <1>2, <2>1 DEF Evident
  <1> QED
    BY <1>1, <1>2 DEF Periods

(* The goals since the bet was placed are the difference of the two scores,  *)
(* also when the half was over by then.                                      *)
LEMMA SinceThePlacement ==
    ASSUME Fixed, NEW minute \in Nat,
           ScoreOf(Until(minute)).home >= ScoreOf(Until(placed)).home,
           ScoreOf(Until(minute)).away >= ScoreOf(Until(placed)).away
    PROVE  Cardinality({g \in Until(minute) : g.minute > placed})
             = Cardinality(Until(minute)) - Cardinality(Until(placed))
  <1>1. PICK S, B : S = Until(minute) /\ B = Until(placed)
    OBVIOUS
  <1>2. S \in SUBSET Goals /\ B \in SUBSET Goals /\ placed \in Nat
    BY <1>1 DEF Fixed, Until
  <1>3. \A g \in Goals : g.minute \in Nat
    BY GoalsHaveMinutes
  <1>4. {g \in S : g.minute > placed} = S \ B
    BY <1>1, <1>2, <1>3 DEF Until
  <1>5. CASE placed <= minute
    <2>1. B \subseteq S
      BY <1>1, <1>2, <1>3, <1>5 DEF Until
    <2> QED
      BY <1>1, <1>2, <1>4, <2>1, CountedMore
  <1>6. CASE placed > minute
    <2>1. S \subseteq B
      BY <1>1, <1>2, <1>3, <1>6 DEF Until
    <2>2. ScoreOf(S) \in Scores /\ ScoreOf(B) \in Scores
      BY <1>2, Counted
    <2>3. ScoreOf(S).home <= ScoreOf(B).home /\ ScoreOf(S).away <= ScoreOf(B).away
      BY <1>2, <2>1, CountedMore
    <2>4. Cardinality(S) = Cardinality(B)
      BY <1>1, <1>2, <2>2, <2>3, Counted DEF Scores
    <2>5. S = B /\ S \ B = {}
      BY <1>2, <2>1, <2>4, CountedMore
    <2>6. Cardinality(S \ B) = 0 /\ Cardinality(S) \in Nat
      BY <1>2, <2>5, FS_EmptySet, Counted
    <2>7. Cardinality(S) - Cardinality(B) = 0
      BY <2>4, <2>6
    <2> QED
      BY <1>1, <1>4, <2>6, <2>7
  <1> QED
    BY <1>2, <1>5, <1>6

LEMMA ToWhistleGrades ==
    ASSUME Fixed, Evident, detail # None, row.status = "completed", Objections(row, detail) = {},
           bet.market = "running", bet.window # "fixed_15", ~Disputable,
           EvaluateToWhistle(bet, row, detail) # Manual
    PROVE  HalvesOf(EvaluateToWhistle(bet, row, detail)) = Halves(Margin)
  <1>1. bet.window \in {"to_half_time", "to_full_time"} /\ bet.threshold \in {2, 3} /\ Scope = bet.window
    BY DEF Fixed, ValidSelection, ValidRunning, HasThreshold, Scope
  <1>2. PICK period, minute : /\ period = IF bet.window = "to_half_time" THEN "first_half" ELSE "full_time"
                              /\ minute = IF bet.window = "to_half_time" THEN 45 ELSE 90
    OBVIOUS
  <1>3. PICK score : score = PeriodScore(period, row, detail)
    OBVIOUS
  <1>4. score # None /\ score.home >= bet.home /\ score.away >= bet.away
    <2>1. score # None
      BY <1>2, <1>3 DEF EvaluateToWhistle
    <2>2. ~(score.home < bet.home \/ score.away < bet.away)
      BY <1>2, <1>3, <2>1 DEF EvaluateToWhistle
    <2>3. score = ScoreOf(Until(minute))
      BY <1>1, <1>2, <1>3, <2>1, PeriodIsTrue DEF Periods, Disputable
    <2>4. Until(minute) \in SUBSET Goals /\ Until(placed) \in SUBSET Goals
      BY DEF Fixed, Until
    <2>5. score \in Scores /\ ScoreOf(Until(placed)) \in Scores
      BY <2>3, <2>4, Counted
    <2> QED
      BY <2>1, <2>2, <2>5 DEF Fixed, Scores
  <1>5. score = ScoreOf(Until(minute)) /\ minute \in Nat
    BY <1>1, <1>2, <1>3, <1>4, PeriodIsTrue DEF Periods, Disputable
  <1>6. PICK late : late = Cardinality({g \in Until(minute) : g.minute > placed})
    OBVIOUS
  <1>7. late = score.home + score.away - (bet.home + bet.away) /\ late \in Int
    <2>1. Until(minute) \in SUBSET Goals /\ Until(placed) \in SUBSET Goals
      BY DEF Fixed, Until
    <2>2. /\ Cardinality(Until(minute)) = score.home + score.away
          /\ Cardinality(Until(placed)) = bet.home + bet.away
          /\ Cardinality(Until(minute)) \in Nat /\ Cardinality(Until(placed)) \in Nat
      <3>1. bet.home = ScoreOf(Until(placed)).home /\ bet.away = ScoreOf(Until(placed)).away
        BY DEF Fixed
      <3> QED
        BY <1>5, <2>1, <3>1, Counted
    <2>3. /\ score.home \in Nat /\ score.away \in Nat
          /\ bet.home \in Nat /\ bet.away \in Nat
      BY <1>5, <2>1, Counted DEF Fixed, Scores
    <2>4. late = Cardinality(Until(minute)) - Cardinality(Until(placed))
      BY <1>4, <1>5, <1>6, SinceThePlacement DEF Fixed
    <2> QED
      BY <2>2, <2>3, <2>4
  <1>8. EvaluateToWhistle(bet, row, detail) = SettleAsian(late, bet.threshold, "over")
    <2>1. ~(score.home < bet.home \/ score.away < bet.away)
      BY <1>2, <1>3, <1>4 DEF EvaluateToWhistle
    <2> QED
      BY <1>2, <1>3, <1>4, <1>7, <2>1 DEF EvaluateToWhistle
  <1>9. Played = Until(minute)
    BY <1>1, <1>2 DEF Played, Until90
  <1>10. Margin = 4 * late - bet.threshold
    <2>1. late = Cardinality({g \in Played : g.minute > placed})
      BY <1>6, <1>9
    <2> QED
      BY <1>1, <2>1 DEF Margin
  <1>11. HalvesOf(SettleAsian(late, bet.threshold, "over")) = Halves(Ahead(late, bet.threshold, "over"))
    BY <1>1, <1>7, AsianGrades
  <1> QED
    BY <1>8, <1>10, <1>11 DEF Ahead

(* A fixed window is graded on the goals of the match: as many goals as the  *)
(* score says are all of them.                                               *)
LEMMA FixedWindowGrades ==
    ASSUME Fixed, Evident, detail # None, row.status = "completed", Objections(row, detail) = {},
           bet.market = "running", bet.window = "fixed_15",
           EvaluateFixedWindow(bet, row, detail) # Manual
    PROVE  HalvesOf(EvaluateFixedWindow(bet, row, detail)) = Halves(Margin)
  <1>1. /\ Cardinality(detail.goals) = row.score.home + row.score.away
        /\ EvaluateFixedWindow(bet, row, detail)
             = SettleAsian(Cardinality(GoalsWithin(detail, bet.from, bet.to)), 2, "over")
    BY DEF EvaluateFixedWindow
  <1>2. goals \in SUBSET Goals /\ detail.goals \in SUBSET goals
    BY DEF Fixed, Evident
  <1>3. detail.goals = goals
    <2>1. Cardinality(goals) = Cardinality(detail.goals)
      BY <1>1, <1>2, ScoreIsTrue, Counted
    <2> QED
      BY <1>2, <2>1, CountedMore
  <1>4. Scope = "fixed_15"
    BY DEF Scope
  <1>5. GoalsWithin(detail, bet.from, bet.to) = Played /\ Played \in SUBSET Goals
    <2>1. Played = {g \in goals : bet.from < g.minute /\ g.minute <= bet.to}
      BY <1>4 DEF Played
    <2>2. bet.from \in Int
      BY DEF Fixed, ValidSelection, ValidRunning, ValidWindow
    <2>3. \A g \in goals : g.minute \in Nat
      BY <1>2, GoalsHaveMinutes
    <2> QED
      BY <1>2, <1>3, <2>1, <2>2, <2>3 DEF GoalsWithin
  <1>6. PICK n : n = Cardinality(Played)
    OBVIOUS
  <1>7. n \in Nat /\ Total = n
    BY <1>5, <1>6, Counted DEF Total
  <1>8. Margin = 4 * n - 2
    BY <1>7 DEF Margin
  <1>9. HalvesOf(SettleAsian(n, 2, "over")) = Halves(Ahead(n, 2, "over"))
    BY <1>7, AsianGrades
  <1> QED
    BY <1>1, <1>5, <1>6, <1>8, <1>9 DEF Ahead

(* The other markets are graded on a score of the period they are about.     *)
LEMMA ResultGrades ==
    ASSUME Fixed, NEW score \in Scores, score = ScoreOf(Played),
           bet.market \in {"1X2", "over_under", "handicap"}
    PROVE  /\ EvaluateMarket(bet, score) \in Types
           /\ HalvesOf(EvaluateMarket(bet, score)) = Halves(Margin)
  <1>0. ValidSelection(bet) /\ score.home \in Nat /\ score.away \in Nat
    BY DEF Fixed, Scores
  <1>1. CASE bet.market = "1X2"
    <2>1. bet.selection \in {"home", "draw", "away"}
      BY <1>0, <1>1 DEF ValidSelection
    <2>2. EvaluateMarket(bet, score) = IF bet.selection = Winner(score) THEN "full_win" ELSE "full_loss"
      BY <1>1 DEF EvaluateMarket
    <2>3. Margin = IF (IF bet.selection = "draw" THEN Lead = 0 ELSE Lead > 0) THEN 2 ELSE -2
      BY <1>1 DEF Margin
    <2>4. bet.selection = Winner(score) <=> IF bet.selection = "draw" THEN Lead = 0 ELSE Lead > 0
      <3>1. /\ score.home > score.away => Winner(score) = "home"
            /\ score.home = score.away => Winner(score) = "draw"
            /\ score.home < score.away => Winner(score) = "away"
        BY <1>0 DEF Winner
      <3> QED
        BY <1>0, <2>1, <3>1 DEF Lead
    <2>5. Halves(2) = 2 /\ Halves(-2) = -2 /\ HalvesOf("full_win") = 2 /\ HalvesOf("full_loss") = -2
      BY DEF Halves, HalvesOf
    <2> QED
      BY <2>2, <2>3, <2>4, <2>5 DEF Types
  <1>2. CASE bet.market = "handicap"
    <2>1. bet.line \in Int
      BY <1>0, <1>2 DEF ValidSelection
    <2>2. Lead \in Int /\ EvaluateMarket(bet, score) = SettleAsian(Lead, - bet.line, "over")
      BY <1>0, <1>2 DEF EvaluateMarket, Lead
    <2>3. Margin = 4 * Lead + bet.line
      BY <1>2 DEF Margin
    <2>4. Ahead(Lead, - bet.line, "over") = 4 * Lead + bet.line
      BY <2>1, <2>2 DEF Ahead
    <2> QED
      BY <2>1, <2>2, <2>3, <2>4, AsianGrades
  <1>3. CASE bet.market = "over_under"
    <2>1. bet.line \in Int /\ bet.selection \in {"over", "under"}
      BY <1>0, <1>3 DEF ValidSelection
    <2>2. Total \in Int /\ EvaluateMarket(bet, score) = SettleAsian(Total, bet.line, bet.selection)
      BY <1>0, <1>3 DEF EvaluateMarket, Total
    <2>3. Margin = Ahead(Total, bet.line, bet.selection)
      BY <1>3 DEF Margin, Ahead
    <2> QED
      BY <2>1, <2>2, <2>3, AsianGrades
  <1> QED
    BY <1>1, <1>2, <1>3

LEMMA CornersGrade ==
    ASSUME Fixed, Evident, detail # None, bet.market = "corners", CornerScore(bet.period, detail) # None
    PROVE  /\ EvaluateMarket(bet, CornerScore(bet.period, detail)) \in Types
           /\ HalvesOf(EvaluateMarket(bet, CornerScore(bet.period, detail))) = Halves(Margin)
  <1>1. /\ bet.period \in Periods /\ bet.line \in Int /\ bet.selection \in {"over", "under"}
    BY DEF Fixed, ValidSelection, HasPeriod, Periods
  <1>2. PICK score : score = CornerScore(bet.period, detail)
    OBVIOUS
  <1>3. score = corners[bet.period] /\ score \in Scores
    <2>1. score = detail.corners[bet.period]
      BY <1>2 DEF CornerScore
    <2> QED
      BY <1>1, <1>2, <2>1 DEF Evident, Fixed
  <1>4. Total \in Int /\ EvaluateMarket(bet, score) = SettleAsian(Total, bet.line, bet.selection)
    BY <1>3 DEF EvaluateMarket, Total, Scores
  <1>5. Margin = Ahead(Total, bet.line, bet.selection)
    BY DEF Margin, Ahead
  <1> QED
    BY <1>1, <1>2, <1>4, <1>5, AsianGrades

(* What the evaluation settles, it settles as the match was played.          *)
LEMMA EvaluatesAsPlayed ==
    ASSUME Fixed, Evident, detail # None, ~Disputable, Evaluate(bet, row, detail) \in Types
    PROVE  HalvesOf(Evaluate(bet, row, detail)) = Halves(Margin)
  <1>0. Evaluate(bet, row, detail) # Manual
    BY BetOutcomeAssumption
  <1>1. row.status = "completed" /\ ValidSelection(bet) /\ Objections(row, detail) = {}
    BY <1>0 DEF Evaluate
  <1>2. CASE bet.market = "running"
    <2>1. Evaluate(bet, row, detail) = EvaluateRunning(bet, row, detail)
      BY <1>1, <1>2 DEF Evaluate
    <2> QED
      BY <1>0, <1>1, <1>2, <2>1, FixedWindowGrades, ToWhistleGrades DEF EvaluateRunning
  <1>3. CASE bet.market = "corners"
    <2>1. /\ CornerScore(bet.period, detail) # None
          /\ Evaluate(bet, row, detail) = EvaluateMarket(bet, CornerScore(bet.period, detail))
      BY <1>0, <1>1, <1>3 DEF Evaluate
    <2> QED
      BY <1>3, <2>1, CornersGrade
  <1>4. CASE bet.market \in {"1X2", "over_under", "handicap"}
    <2>1. /\ PeriodScore(bet.period, row, detail) # None
          /\ Evaluate(bet, row, detail) = EvaluateMarket(bet, PeriodScore(bet.period, row, detail))
      BY <1>0, <1>1, <1>4 DEF Evaluate
    <2>2. bet.period \in Periods /\ Scope = bet.period
      BY <1>1, <1>4 DEF ValidSelection, HasPeriod, Periods, Scope
    <2>3. bet.period = "full_time" => ~ExtraTime
      BY <2>2 DEF Disputable
    <2>4. PeriodScore(bet.period, row, detail) = ScoreOf(Played)
      <3>1. Played = Until(IF bet.period = "full_time" THEN 90 ELSE 45)
        BY <2>2 DEF Played, Until90, Periods
      <3> QED
        BY <1>1, <2>1, <2>2, <2>3, <3>1, PeriodIsTrue
    <2>5. ScoreOf(Played) \in Scores
      <3>1. Played \in SUBSET Goals
        BY <2>2 DEF Played, Until90, Until, Fixed, Periods
      <3> QED
        BY <3>1, Counted
    <2> QED
      BY <1>4, <2>1, <2>4, <2>5, ResultGrades
  <1> QED
    BY <1>1, <1>2, <1>3, <1>4 DEF ValidSelection

-----------------------------------------------------------------------------
(* The run of the evidence: nothing that is reported changes the match or    *)
(* the bet, and no report goes beyond what Evident allows.                   *)
Evidence == Fixed /\ Evident /\ SettledAsPlayed /\ (Settled => bet.market # "custom")

LEMMA EvidenceStarts == EvidenceInit => Evidence
  <1> SUFFICES ASSUME EvidenceInit PROVE Evidence
    OBVIOUS
  <1>1. PICK selection \in Bets :
          /\ bet = Recorded(selection, placed)
          /\ selection.market = "custom" \/ ValidSelection(bet)
          /\ corners \in IF selection.market = "corners" THEN Corners ELSE {CHOOSE c \in Corners : TRUE}
    BY DEF EvidenceInit
  <1>2. goals \in SUBSET Goals /\ placed \in 0..89 /\ faulty \in {"row", "detail"}
    BY OutcomeEvidenceAssumption DEF EvidenceInit
  <1>3. \A p \in Periods : corners[p] \in Scores
    BY <1>1, OutcomeEvidenceAssumption
  <1>4. selection \in Selections
    BY OutcomeEvidenceAssumption
  <1>5. PICK score : score = ScoreOf(Until(placed)) /\ score.home \in Int /\ score.away \in Int
    <2>1. Until(placed) \in SUBSET Goals
      BY <1>2 DEF Until
    <2> QED
      BY <2>1, Counted DEF Scores
  <1>6. /\ bet \in Selections /\ bet.market = selection.market
        /\ bet.market = "running" =>
             /\ bet.home = score.home /\ bet.away = score.away /\ bet.minute \in {None, placed}
    <2>1. CASE selection.market # "running"
      BY <1>1, <1>4, <2>1 DEF Recorded
    <2>2. CASE selection.market = "running"
      <3>1. bet = [selection EXCEPT !.minute = IF @ = None THEN None ELSE placed,
                                    !.home = score.home, !.away = score.away]
        BY <1>1, <1>5, <2>2 DEF Recorded
      <3>2. bet = [market |-> selection.market, selection |-> selection.selection,
                   period |-> selection.period, window |-> selection.window,
                   line |-> selection.line, threshold |-> selection.threshold,
                   from |-> selection.from, to |-> selection.to, home |-> score.home,
                   away |-> score.away,
                   minute |-> IF selection.minute = None THEN None ELSE placed]
        BY <1>4, <3>1 DEF Selections
      <3> QED
        BY <1>2, <1>4, <1>5, <3>2 DEF Selections
    <2> QED
      BY <2>1, <2>2
  <1>7. Fixed
    BY <1>1, <1>2, <1>3, <1>5, <1>6 DEF Fixed
  <1>8. Evident
    BY DEF EvidenceInit, Evident
  <1>9. ~Settled
    BY DEF EvidenceInit, Settled, Types
  <1> QED
    BY <1>7, <1>8, <1>9 DEF Evidence, SettledAsPlayed

LEMMA MatchStays ==
    ASSUME UNCHANGED <<goals, corners, placed, bet, faulty>>
    PROVE  /\ UNCHANGED <<Margin, ExtraTime, Disputable, ScoreOf(goals), ScoreOf(Until(45))>>
           /\ Reported("row")' = Reported("row") /\ Reported("detail")' = Reported("detail")
           /\ Fixed' = Fixed
  <1>1. /\ UNCHANGED <<Scope, ScoreOf(goals), ExtraTime>>
        /\ \A minute : Until(minute)' = Until(minute)
    BY DEF Scope, ScoreOf, Count, Until, ExtraTime
  <1>2. UNCHANGED <<Until(45), Until(placed), Until90>>
    BY <1>1 DEF Until90
  <1>3. Played' = Played
    BY <1>1, <1>2 DEF Played
  <1>4. UNCHANGED <<ScoreOf(Played), ScoreOf(Until(45)), ScoreOf(Until(placed))>>
    BY <1>2, <1>3 DEF ScoreOf, Count
  <1>5. UNCHANGED <<Total, Lead>>
    BY <1>4 DEF Total, Lead
  <1>6. Margin' = Margin
    BY <1>3, <1>5 DEF Margin
  <1>7. Disputable' = Disputable
    BY <1>1 DEF Disputable
  <1>8. Reported("row")' = Reported("row") /\ Reported("detail")' = Reported("detail")
    BY <1>1 DEF Reported
  <1>9. Fixed' = Fixed
    BY <1>4 DEF Fixed
  <1> QED
    BY <1>1, <1>4, <1>6, <1>7, <1>8, <1>9

LEMMA EvidenceStep == Evidence /\ [EvidenceNext]_vars => Evidence'
  <1> SUFFICES ASSUME Evidence, [EvidenceNext]_vars PROVE Evidence'
    OBVIOUS
  <1>1. UNCHANGED <<goals, corners, placed, bet, faulty>>
    BY DEF EvidenceNext, Whistle, PublishRow, CacheDetail, Reconcile, vars
  <1>2. Fixed' /\ Margin' = Margin /\ Disputable' = Disputable
    BY <1>1, MatchStays DEF Evidence
  <1>3. /\ Reported("row")' = Reported("row") /\ Reported("detail")' = Reported("detail")
        /\ ScoreOf(Until(45))' = ScoreOf(Until(45))
    BY <1>1, MatchStays
  <1>4. Evident'
    <2>1. CASE UNCHANGED <<row, detail, now>>
      BY <1>1, <1>3, <2>1 DEF Evidence, Evident
    <2>2. CASE \E score \in Reported("row") : PublishRow(score)
      <3>1. /\ row'.score \in Reported("row") /\ detail' = detail
            /\ now' \in Nat /\ row'.at \in Nat
        BY <2>2 DEF PublishRow, Evidence, Evident
      <3> QED
        BY <1>1, <1>3, <3>1 DEF Evidence, Evident
    <2>3. CASE \E page \in Pages : CacheDetail(page)
      <3>1. PICK page \in Pages : detail' = Adapted(page) /\ row' = row /\ now' = now + 1
        BY <2>3 DEF CacheDetail
      <3>2. /\ page.over \in BOOLEAN
            /\ page.over => page.score \in Reported("detail")
            /\ page.goals \subseteq goals
        <4>1. PICK over \in BOOLEAN :
                page \in [source : {"fotmob", "sportscore"}, over : {over},
                          score : IF over THEN Reported("detail") ELSE {ScoreOf(Until(45))},
                          goals : SUBSET (IF over THEN goals ELSE Until(45)),
                          missing : {None, "halftime", "corners"}]
          BY DEF Pages
        <4> QED
          BY <4>1 DEF Until
      <3>3. /\ detail'.seen = "completed" => detail'.score \in Reported("detail")
            /\ detail'.halftime \in {None, ScoreOf(Until(45))}
            /\ detail'.goals \subseteq goals
            /\ \A p \in Periods : detail'.corners[p] \in {None, corners[p]}
            /\ detail'.fulltime \in {None, detail'.score}
            /\ detail'.extratime = None /\ detail'.penalty = None
        <4>1. /\ detail'.seen = IF page.over THEN "completed" ELSE "halftime"
              /\ detail'.score = page.score /\ detail'.goals = page.goals
              /\ detail'.extratime = None /\ detail'.penalty = None
              /\ detail'.fulltime \in {page.score, None}
              /\ detail'.halftime \in {None, ScoreOf(Until(45))}
          BY <3>1 DEF Adapted
        <4>2. detail'.corners \in {corners, [full_time |-> None, first_half |-> None]}
          BY <3>1 DEF Adapted
        <4>3. \A p \in Periods : detail'.corners[p] \in {None, corners[p]}
          BY <4>2 DEF Periods
        <4> QED
          BY <3>2, <4>1, <4>3
      <3>4. now' \in Nat /\ detail'.at \in Nat
        BY <3>1 DEF Adapted, Evidence, Evident
      <3> QED
        BY <1>1, <1>3, <3>1, <3>3, <3>4 DEF Evidence, Evident
    <2> QED
      BY <2>1, <2>2, <2>3 DEF EvidenceNext, Whistle, Reconcile, vars
  <1>5. SettledAsPlayed' /\ (Settled => bet.market # "custom")'
    <2>1. CASE UNCHANGED outcome
      BY <1>1, <1>2, <2>1 DEF Evidence, SettledAsPlayed, Settled, HalvesOf, Halves
    <2>2. CASE Reconcile
      <3>1. outcome' \in Types => detail # None /\ outcome' = Evaluate(bet, row, detail)
        BY <2>2, BetOutcomeAssumption DEF Reconcile
      <3>2. outcome' \in Types /\ ~Disputable => HalvesOf(outcome') = Halves(Margin)
        BY <3>1, EvaluatesAsPlayed DEF Evidence
      <3>3. outcome' \in Types => bet.market # "custom"
        <4>1. outcome' \in Types => ValidSelection(bet)
          BY <3>1, BetOutcomeAssumption DEF Evaluate
        <4> QED
          BY <4>1 DEF ValidSelection
      <3> QED
        BY <1>1, <1>2, <3>2, <3>3 DEF SettledAsPlayed, Settled, HalvesOf, Halves
    <2> QED
      BY <2>1, <2>2 DEF EvidenceNext, Whistle, PublishRow, CacheDetail, vars
  <1> QED
    BY <1>2, <1>4, <1>5 DEF Evidence

THEOREM EvidenceInvariance == EvidenceSpec => []Evidence
  BY EvidenceStarts, EvidenceStep, PTL DEF EvidenceSpec

(* However many goals fall and whenever the two feeds are written, late,     *)
(* incomplete or one of them wrong: a bet that is settled automatically is   *)
(* settled as the match was played, on every market and every line.          *)
THEOREM SettlementsMatchPlay == EvidenceSpec => []SettledAsPlayed
  BY EvidenceInvariance, PTL DEF Evidence

-----------------------------------------------------------------------------
(* What a settlement pays.  Rounded once, half up, a quotient is off by no   *)
(* more than half a unit.                                                    *)
Near(exact, paid) == exact - 2 * Scale * paid \in -Scale..Scale

LEMMA NearWithin ==
    ASSUME NEW exact \in Int, NEW paid \in Int,
           exact - 20000 * paid >= -10000, exact - 20000 * paid <= 10000
    PROVE  Near(exact, paid)
  <1>1. PICK d \in Int : d = exact - 20000 * paid
    OBVIOUS
  <1>2. exact - 2 * Scale * paid = d
    BY <1>1 DEF Scale
  <1>3. d \in -Scale..Scale
    BY <1>1 DEF Scale
  <1> QED
    BY <1>2, <1>3 DEF Near

LEMMA RoundedQuotients ==
    ASSUME NEW n \in Nat
    PROVE  /\ Near(2 * n, DivideRounded(n, Scale))
           /\ Near(n, DivideRounded(n, 2 * Scale))
           /\ Near((-1) * n * Scale, - DivideRounded(n, 2))
  <1>1. ASSUME NEW q \in Int, q = (n + 5000) \div 10000 PROVE Near(2 * n, q)
    <2>1. 2 * n - 20000 * q >= -10000 /\ 2 * n - 20000 * q <= 10000
      <3>1. 10000 * q <= n + 5000 /\ n + 5000 < 10000 * q + 10000
        BY <1>1
      <3> QED
        BY <3>1
    <2> QED
      BY <2>1, NearWithin
  <1>2. ASSUME NEW q \in Int, q = (n + 10000) \div 20000 PROVE Near(n, q)
    <2>1. 20000 * q <= n + 10000 /\ n + 10000 < 20000 * q + 20000
      BY <1>2
    <2>2. n - 20000 * q >= -10000 /\ n - 20000 * q <= 10000
      BY <2>1
    <2> QED
      BY <2>2, NearWithin
  <1>3. ASSUME NEW q \in Int, q = (n + 1) \div 2 PROVE Near((-1) * n * Scale, - q)
    <2>1. 2 * q - n \in {0, 1}
      BY <1>3
    <2>2. (-1) * n * 10000 - 20000 * (- q) = 10000 * (2 * q - n)
      OBVIOUS
    <2>3. PICK exact \in Int : exact = (-1) * n * Scale /\ exact = (-1) * n * 10000
      BY DEF Scale
    <2>4. exact - 20000 * (- q) \in {0, 10000} /\ - q \in Int
      BY <2>1, <2>2, <2>3
    <2> QED
      BY <2>3, <2>4, NearWithin
  <1>4. PICK p \in Int, q \in Int, r \in Int :
          p = (n + 5000) \div 10000 /\ q = (n + 10000) \div 20000 /\ r = (n + 1) \div 2
    OBVIOUS
  <1>5. p = DivideRounded(n, Scale) /\ q = DivideRounded(n, 2 * Scale) /\ r = DivideRounded(n, 2)
    BY <1>4 DEF DivideRounded, Scale
  <1>6. Near(2 * n, p) /\ Near(n, q) /\ Near((-1) * n * Scale, - r)
    BY <1>1, <1>2, <1>3, <1>4
  <1> QED
    BY <1>5, <1>6, Zenon

LEMMA PaymentRounds ==
    ASSUME NEW stake \in Nat, NEW odds \in Nat, NEW type \in Types, NEW exact, NEW paid,
           exact = HalvesOf(type) * stake * (IF HalvesOf(type) > 0 THEN odds ELSE Scale),
           paid = ProfitLoss(stake, odds, type)
    PROVE  Near(exact, paid)
  <1>1. PICK n \in Nat : n = stake * odds
    OBVIOUS
  <1>2. CASE type = "full_win"
    <2>1. HalvesOf(type) = 2 /\ paid = DivideRounded(n, Scale)
      BY <1>1, <1>2 DEF HalvesOf, ProfitLoss
    <2>2. exact = 2 * n
      BY <1>1, <2>1
    <2> QED
      BY <2>1, <2>2, RoundedQuotients, Zenon
  <1>3. CASE type = "half_win"
    <2>1. HalvesOf(type) = 1 /\ paid = DivideRounded(n, 2 * Scale)
      BY <1>1, <1>3 DEF HalvesOf, ProfitLoss
    <2>2. exact = n
      BY <1>1, <2>1
    <2> QED
      BY <2>1, <2>2, RoundedQuotients, Zenon
  <1>4. CASE type = "push"
    <2>1. HalvesOf(type) = 0 /\ paid = 0
      BY <1>4 DEF HalvesOf, ProfitLoss
    <2>2. exact = 0
      BY <2>1 DEF Scale
    <2> QED
      BY <2>1, <2>2, NearWithin
  <1>5. CASE type = "half_loss"
    <2>1. HalvesOf(type) = -1 /\ paid = - DivideRounded(stake, 2)
      BY <1>5 DEF HalvesOf, ProfitLoss
    <2>2. exact = (-1) * stake * Scale
      BY <2>1
    <2> QED
      BY <2>1, <2>2, RoundedQuotients, Zenon
  <1>6. CASE type = "full_loss"
    <2>1. HalvesOf(type) = -2 /\ paid = - stake
      BY <1>6 DEF HalvesOf, ProfitLoss
    <2>2. exact = (-20000) * stake
      BY <2>1 DEF Scale
    <2>3. exact \in Int /\ paid \in Int /\ exact - 20000 * paid = 0
      BY <2>1, <2>2
    <2> QED
      BY <2>3, NearWithin
  <1> QED
    BY <1>2, <1>3, <1>4, <1>5, <1>6 DEF Types

LEMMA MarginTyped ==
    ASSUME Fixed, bet.market # "custom"
    PROVE  Margin \in Int
  <1>1. ValidSelection(bet)
    BY DEF Fixed
  <1>2. Played \in SUBSET Goals
    BY DEF Played, Until90, Until, Fixed
  <1>3. /\ ScoreOf(Played).home \in Nat /\ ScoreOf(Played).away \in Nat /\ Lead \in Int
        /\ Cardinality({g \in Played : g.minute > placed}) \in Nat
    <2>1. {g \in Played : g.minute > placed} \in SUBSET Goals
      BY <1>2
    <2>2. ScoreOf(Played) \in Scores
      BY <1>2, Counted
    <2> QED
      BY <2>1, <2>2, Counted DEF Scores, Lead
  <1>4. CASE bet.market = "1X2"
    BY <1>4 DEF Margin
  <1>5. CASE bet.market = "handicap"
    <2>1. Margin = 4 * Lead + bet.line /\ bet.line \in Int
      BY <1>1, <1>5 DEF Margin, ValidSelection
    <2> QED
      BY <1>3, <2>1
  <1>6. CASE bet.market \in {"over_under", "corners"}
    <2>1. bet.line \in Int /\ (bet.market = "corners" => corners[bet.period] \in Scores)
      BY <1>1, <1>6 DEF ValidSelection, HasPeriod, Periods, Fixed
    <2>2. Total \in Int
      BY <1>3, <2>1 DEF Total, Scores
    <2>3. Margin = IF bet.selection = "over" THEN 4 * Total - bet.line ELSE bet.line - 4 * Total
      BY <1>6 DEF Margin
    <2> QED
      BY <2>1, <2>2, <2>3
  <1>7. CASE bet.market = "running"
    <2>1. bet.window # "fixed_15" => bet.threshold \in Int
      BY <1>1, <1>7 DEF ValidSelection, ValidRunning, HasThreshold
    <2>2. Total \in Int
      BY <1>3, <1>7 DEF Total
    <2>3. Margin = IF bet.window = "fixed_15" THEN 4 * Total - 2
                   ELSE 4 * Cardinality({g \in Played : g.minute > placed}) - bet.threshold
      BY <1>7 DEF Margin
    <2> QED
      BY <1>3, <2>1, <2>2, <2>3
  <1> QED
    BY <1>1, <1>4, <1>5, <1>6, <1>7 DEF ValidSelection

(* For every stake and odds the points differ from the exact share of the    *)
(* stake, or of the win, by no more than half of the smallest unit.          *)
THEOREM SettlementsPayPlay == EvidenceSpec => []PaidAsPlayed
  <1>1. Evidence => PaidAsPlayed
    <2> SUFFICES ASSUME Evidence, Settled, ~Disputable
                 PROVE  Near(Halves(Margin) * Stake * (IF Margin > 0 THEN Odds ELSE Scale),
                             ProfitLoss(Stake, Odds, outcome))
      BY DEF PaidAsPlayed, Near
    <2>1. HalvesOf(outcome) = Halves(Margin) /\ outcome \in Types
      BY DEF Evidence, SettledAsPlayed, Settled
    <2>2. Margin \in Int
      BY MarginTyped DEF Evidence
    <2>3. Margin > 0 <=> HalvesOf(outcome) > 0
      <3>1. Margin > 0 <=> Halves(Margin) > 0
        BY <2>2 DEF Halves
      <3> QED
        BY <2>1, <3>1
    <2>4. Stake \in Nat /\ Odds \in Nat
      BY OutcomeEvidenceAssumption
    <2>5. Halves(Margin) * Stake * (IF Margin > 0 THEN Odds ELSE Scale)
            = HalvesOf(outcome) * Stake * (IF HalvesOf(outcome) > 0 THEN Odds ELSE Scale)
      BY <2>1, <2>3, Zenon
    <2> QED
      BY <2>1, <2>4, <2>5, PaymentRounds
  <1> QED
    BY <1>1, EvidenceInvariance, PTL

-----------------------------------------------------------------------------
(* On conclusive evidence the score of a period is there.                    *)
LEMMA PeriodIsShown ==
    ASSUME Fixed, Evident, Conclusive, NEW period \in Periods
    PROVE  PeriodScore(period, row, detail) # None
  <1>1. goals \in SUBSET Goals /\ Until(45) \in SUBSET goals
    BY DEF Fixed, Until
  <1>2. ScoreOf(goals) \in Scores /\ None \notin Scores
    BY <1>1, Counted, OutcomeEvidenceAssumption
  <1>3. CASE period = "full_time"
    BY <1>2, <1>3 DEF PeriodScore, Conclusive
  <1>4. CASE period = "first_half"
    <2>1. /\ detail # None /\ detail.halftime # None
          /\ ~ Warned(detail, {"partial_detail", "score_breakdown_partial", "score_breakdown_unavailable"})
      BY DEF Conclusive, Warned
    <2>2. detail.halftime = ScoreOf(Until(45))
      BY <2>1 DEF Evident
    <2>3. ScoreOf(Until(45)) \in Scores
      BY <1>1, Counted
    <2>4. ~(detail.halftime.home > row.score.home \/ detail.halftime.away > row.score.away)
      <3>1. /\ ScoreOf(Until(45)).home <= ScoreOf(goals).home
            /\ ScoreOf(Until(45)).away <= ScoreOf(goals).away
        BY <1>1, CountedMore
      <3>2. row.score = ScoreOf(goals)
        BY DEF Conclusive
      <3> QED
        BY <1>2, <2>2, <2>3, <3>1, <3>2 DEF Scores
    <2> QED
      BY <1>4, <2>1, <2>4 DEF PeriodScore
  <1> QED
    BY <1>3, <1>4 DEF Periods

LEMMA ConclusiveFixedWindow ==
    ASSUME Fixed, Evident, Conclusive, bet.market = "running", bet.window = "fixed_15",
           bet.minute # None, bet.minute <= bet.from
    PROVE  EvaluateFixedWindow(bet, row, detail) \in Types
  <1>1. goals \in SUBSET Goals /\ detail.goals = goals
    BY DEF Fixed, Conclusive
  <1>2. bet.minute \in Int /\ bet.from \in Int
    BY DEF Fixed, ValidSelection, ValidRunning, ValidWindow
  <1>3. ~ \E g \in detail.goals : g.minute = None
    BY <1>1, GoalsHaveMinutes, OutcomeEvidenceAssumption
  <1>4. Cardinality(detail.goals) = row.score.home + row.score.away
    BY <1>1, Counted DEF Conclusive
  <1>5. ~ Warned(detail, {"partial_detail", "events_partial", "events_unavailable"}) /\ detail # None
    BY DEF Conclusive, Warned
  <1>6. EvaluateFixedWindow(bet, row, detail)
          = SettleAsian(Cardinality(GoalsWithin(detail, bet.from, bet.to)), 2, "over")
    BY <1>2, <1>3, <1>4, <1>5 DEF EvaluateFixedWindow
  <1>7. Cardinality(GoalsWithin(detail, bet.from, bet.to)) \in Nat
    <2>1. GoalsWithin(detail, bet.from, bet.to) \in SUBSET Goals
      BY <1>1 DEF GoalsWithin
    <2> QED
      BY <2>1, Counted
  <1> QED
    BY <1>6, <1>7, AsianGrades

LEMMA ConclusiveToWhistle ==
    ASSUME Fixed, Evident, Conclusive, Objections(row, detail) = {}, ~Disputable,
           bet.market = "running", bet.window # "fixed_15",
           bet.window = "to_half_time" => placed <= 45
    PROVE  EvaluateToWhistle(bet, row, detail) \in Types
  <1>1. bet.window \in {"to_half_time", "to_full_time"} /\ bet.threshold \in {2, 3} /\ Scope = bet.window
    BY DEF Fixed, ValidSelection, ValidRunning, HasThreshold, Scope
  <1>2. PICK period, minute : /\ period = IF bet.window = "to_half_time" THEN "first_half" ELSE "full_time"
                              /\ minute = IF bet.window = "to_half_time" THEN 45 ELSE 90
    OBVIOUS
  <1>3. PICK score : score = PeriodScore(period, row, detail)
    OBVIOUS
  <1>4. score # None /\ score = ScoreOf(Until(minute))
    <2>1. score # None
      BY <1>2, <1>3, PeriodIsShown DEF Periods
    <2> QED
      BY <1>1, <1>2, <1>3, <2>1, PeriodIsTrue DEF Periods, Disputable, Conclusive
  <1>5. /\ Until(minute) \in SUBSET Goals /\ Until(placed) \in SUBSET Until(minute)
    <2>1. goals \in SUBSET Goals /\ placed \in Nat /\ minute \in Nat /\ placed <= minute
      BY <1>1, <1>2 DEF Fixed
    <2> QED
      BY <2>1, GoalsHaveMinutes DEF Until
  <1>6. /\ score.home \in Nat /\ score.away \in Nat /\ bet.home \in Nat /\ bet.away \in Nat
        /\ bet.home <= score.home /\ bet.away <= score.away
    <2>1. bet.home = ScoreOf(Until(placed)).home /\ bet.away = ScoreOf(Until(placed)).away
      BY DEF Fixed
    <2>2. ScoreOf(Until(placed)) \in Scores /\ ScoreOf(Until(minute)) \in Scores
      BY <1>5, Counted
    <2> QED
      BY <1>4, <1>5, <2>1, <2>2, CountedMore DEF Scores
  <1>7. EvaluateToWhistle(bet, row, detail)
          = SettleAsian(score.home + score.away - (bet.home + bet.away), bet.threshold, "over")
    <2>1. ~(score.home < bet.home \/ score.away < bet.away)
      BY <1>6
    <2> QED
      BY <1>2, <1>3, <1>4, <2>1 DEF EvaluateToWhistle
  <1> QED
    BY <1>1, <1>6, <1>7, AsianGrades

(* Whatever the match was like, conclusive evidence settles every bet that   *)
(* can be evaluated: the manual review is not a way around the rules.        *)
THEOREM ConclusiveSettles == EvidenceSpec => []ConclusiveEvidenceSettles
  <1>1. Evidence => ConclusiveEvidenceSettles
    <2> SUFFICES ASSUME Fixed, Evident, Conclusive, bet.market # "custom", ~Disputable,
                        Scope = "fixed_15" => bet.minute # None /\ bet.minute <= bet.from,
                        Scope = "to_half_time" => placed <= 45
                 PROVE  Evaluate(bet, row, detail) \in Types
      BY DEF Evidence, ConclusiveEvidenceSettles
    <2>1. ValidSelection(bet) /\ row.status = "completed"
      BY DEF Fixed, Conclusive
    <2>2. Objections(row, detail) = {}
      <3>1. ~(detail.at < row.at)
        BY DEF Conclusive, Evident
      <3>2. \A terms : ~ Warned(detail, terms)
        BY DEF Conclusive, Warned
      <3>3. /\ detail.match.status = "completed" /\ detail.match.score = row.score
            /\ detail.score = row.score /\ detail.seen = "completed"
            /\ detail.fulltime \in {None, row.score}
            /\ detail.extratime = None /\ detail.penalty = None
        BY DEF Conclusive, Evident
      <3> QED
        BY <3>1, <3>2, <3>3 DEF Objections
    <2>3. CASE bet.market = "running"
      <3>1. Evaluate(bet, row, detail) = EvaluateRunning(bet, row, detail)
        BY <2>1, <2>2, <2>3 DEF Evaluate
      <3>2. Scope = bet.window
        BY <2>3 DEF Scope
      <3> QED
        BY <2>2, <2>3, <3>1, <3>2, ConclusiveFixedWindow, ConclusiveToWhistle DEF EvaluateRunning
    <2>4. CASE bet.market = "corners"
      <3>1. bet.period \in Periods
        BY <2>1, <2>4 DEF ValidSelection, HasPeriod, Periods
      <3>2. CornerScore(bet.period, detail) = corners[bet.period]
        BY DEF CornerScore, Conclusive, Warned
      <3>3. CornerScore(bet.period, detail) # None
        BY <3>1, <3>2, OutcomeEvidenceAssumption DEF Fixed
      <3>4. Evaluate(bet, row, detail) = EvaluateMarket(bet, CornerScore(bet.period, detail))
        BY <2>1, <2>2, <2>4, <3>3 DEF Evaluate
      <3> QED
        BY <2>4, <3>3, <3>4, CornersGrade DEF Conclusive
    <2>5. CASE bet.market \in {"1X2", "over_under", "handicap"}
      <3>1. bet.period \in Periods /\ Scope = bet.period
        BY <2>1, <2>5 DEF ValidSelection, HasPeriod, Periods, Scope
      <3>2. PeriodScore(bet.period, row, detail) # None
        BY <3>1, PeriodIsShown
      <3>3. Evaluate(bet, row, detail) = EvaluateMarket(bet, PeriodScore(bet.period, row, detail))
        BY <2>1, <2>2, <2>5, <3>2 DEF Evaluate
      <3>4. bet.period = "full_time" => ~ExtraTime
        BY <3>1 DEF Disputable
      <3>5. Played = Until(IF bet.period = "full_time" THEN 90 ELSE 45)
        BY <3>1 DEF Played, Until90, Periods
      <3>6. PeriodScore(bet.period, row, detail) = ScoreOf(Played)
        BY <2>1, <2>2, <3>1, <3>2, <3>4, <3>5, PeriodIsTrue DEF Conclusive
      <3>7. ScoreOf(Played) \in Scores
        <4>1. Played \in SUBSET Goals
          BY <3>5 DEF Until, Fixed
        <4> QED
          BY <4>1, Counted
      <3> QED
        BY <2>5, <3>3, <3>6, <3>7, ResultGrades
    <2> QED
      BY <2>1, <2>3, <2>4, <2>5 DEF ValidSelection
  <1> QED
    BY <1>1, EvidenceInvariance, PTL
=============================================================================
