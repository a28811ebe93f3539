----------------------------- MODULE MCOwnerShell -----------------------------
(* Two handlers under way, two drafts of any match and two matches: either   *)
(* mostly submissions or only views.                                         *)
EXTENDS OwnerShell, TLC

CONSTANTS t1, t2, d1, d2, m1, m2

MCBudgets == {[submits |-> 2, views |-> 1], [submits |-> 0, views |-> 5]}

Symmetry == {a @@ b @@ c : a \in Permutations(Tasks), b \in Permutations(Drafts),
                           c \in Permutations(Matches)}
=============================================================================
