---------------------------- MODULE RefreshQueue ------------------------------
(***************************************************************************)
(* What the match detail refresh queue promises its callers: every call    *)
(* takes effect as a whole, once, between the moment it is made and its    *)
(* answer, and a call that throws, or whose process stops, either took     *)
(* effect or did not.  RefreshQueueStore shows how the files keep this.    *)
(*                                                                         *)
(* A call uses the time at which it is made, which may be over when it     *)
(* takes effect.                                                           *)
(***************************************************************************)
EXTENDS RefreshQueueItems

CONSTANTS Procs

VARIABLES
    queue,    \* the items
    asked,    \* the call each process is in, and whether it took effect
    now

Init == queue = Initial /\ asked = [p \in Procs |-> Missing] /\ now = 0

Ask(p) ==
    /\ asked[p] = Missing
    /\ \E c \in Calls : asked' = [asked EXCEPT ![p] = [what |-> c, at |-> now, done |-> FALSE]]
    /\ UNCHANGED <<queue, now>>

Perform(p) ==
    /\ asked[p] # Missing /\ ~asked[p].done
    /\ queue' = Apply(queue, asked[p].what, asked[p].at)
    /\ asked' = [asked EXCEPT ![p] = [what |-> asked[p].what, at |-> asked[p].at, done |-> TRUE]]
    /\ UNCHANGED now

End(p) ==
    /\ asked[p] # Missing
    /\ asked' = [asked EXCEPT ![p] = Missing]
    /\ UNCHANGED <<queue, now>>

Tick == now' = now + 1 /\ UNCHANGED <<queue, asked>>

Next == (\E p \in Procs : Ask(p) \/ Perform(p) \/ End(p)) \/ Tick

Spec == Init /\ [][Next]_<<queue, asked, now>>
=============================================================================
