------------------------------ MODULE LedgerSums ------------------------------
(***************************************************************************)
(* What the entries of a ledger amount to: the sums of Bankroll and of     *)
(* BetSettlement, whose proofs share their lemmas.                         *)
(***************************************************************************)
EXTENDS Integers, FiniteSetsExt

(* What the entries l of the ids S amount to. *)
EntrySum(l, S) == MapThenSumSet(LAMBDA e : l[e], S)
=============================================================================
