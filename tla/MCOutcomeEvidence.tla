-------------------------- MODULE MCOutcomeEvidence --------------------------
(* Instances of OutcomeEvidence for TLC. *)
EXTENDS OutcomeEvidence

Plain == [market |-> "custom", selection |-> None, period |-> None, line |-> None,
          window |-> None, threshold |-> None, from |-> None, to |-> None,
          home |-> None, away |-> None, minute |-> None]

OneXTwo   == {[Plain EXCEPT !.market = "1X2", !.selection = s, !.period = p] :
                 s \in {"home", "draw", "away"}, p \in {"full_time", "first_half"}}
Totals    == {[Plain EXCEPT !.market = "over_under", !.selection = "over", !.period = "full_time", !.line = l] :
                 l \in 4..7}
Handicaps == {[Plain EXCEPT !.market = "handicap", !.selection = "home", !.period = p, !.line = l] :
                 p \in {"full_time"}, l \in -2..1}
CornerBets == {[Plain EXCEPT !.market = "corners", !.selection = "under", !.period = p, !.line = l] :
                 p \in {"full_time", "first_half"}, l \in {7, 10}}
ToWhistle == {[Plain EXCEPT !.market = "running", !.window = w, !.threshold = t, !.minute = 0] :
                 w \in {"to_half_time", "to_full_time"}, t \in {2, 3}}
             \cup {[Plain EXCEPT !.market = "running", !.window = "to_half_time", !.threshold = 2]}
Windows   == {[Plain EXCEPT !.market = "running", !.window = "fixed_15", !.from = f, !.to = f + 15, !.minute = m] :
                 f \in {0, 15, 45}, m \in {None, 0}}

MCBets == {Plain} \cup OneXTwo \cup Totals \cup Handicaps \cup CornerBets \cup ToWhistle \cup Windows

MCCorners == {[full_time  |-> [home |-> h, away |-> 1], first_half |-> [home |-> 1, away |-> 0]] : h \in {1, 2}}
=============================================================================
