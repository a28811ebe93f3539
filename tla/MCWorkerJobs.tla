---------------------------- MODULE MCWorkerJobs ----------------------------
(* Two matches of two competitions and two processes. *)
EXTENDS WorkerJobs, TLC

SameDate == [m \in Matches |-> 1]
TwoDates == [m \in Matches |-> m]
Own      == [m \in Matches |-> m]

Symmetry == Permutations(Procs)
=============================================================================
