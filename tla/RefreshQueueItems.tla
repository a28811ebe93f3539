-------------------------- MODULE RefreshQueueItems ---------------------------
(***************************************************************************)
(* The items of the match detail refresh queue and what the operations of  *)
(* MatchDetailRefreshQueue make of them.                                   *)
(*                                                                         *)
(* lastAttemptAt, lastError and createdAt decide nothing and are left out. *)
(***************************************************************************)
EXTENDS Integers

CONSTANTS
    MatchIds,          \* matchId of an item
    MaxAttempts,       \* maxAttempts of an item
    ProcessingLease,   \* processingLeaseMs
    Delay,             \* the pause a caller asks for
    Keep,              \* age at which a completed item is pruned
    Missing            \* no item, no file, no call

Item == [status   : {"pending", "processing", "completed", "failed", "quota_deferred"},
         attempts : Nat, next : Nat, updated : Nat]

(* The items of the queue, as a file holds them. *)
QueueState == [MatchIds -> Item \cup {Missing}]

ASSUME RefreshQueueAssumption ==
    /\ {ProcessingLease, Delay, Keep} \subseteq Nat /\ MaxAttempts \in Nat \ {0}
    /\ Missing \notin Item /\ Missing \notin QueueState

(* createInitialState: no items. *)
Initial == [m \in MatchIds |-> Missing]

-----------------------------------------------------------------------------
New(at) == [status |-> "pending", attempts |-> 0, next |-> at, updated |-> at]

(* The matches of ms that have an item: the others are skipped. *)
Known(q, ms) == {m \in ms : q[m] # Missing}

(* enqueue: a new item, or a deferred one whose pause is over. *)
Enqueue(q, ms, at) ==
    [m \in MatchIds |->
        IF m \in ms /\ (IF q[m] = Missing THEN TRUE
                        ELSE q[m].status = "quota_deferred" /\ q[m].next <= at)
        THEN New(at) ELSE q[m]]

MarkProcessing(q, ms, at) ==
    [m \in MatchIds |->
        IF m \in Known(q, ms)
        THEN [status |-> "processing", attempts |-> q[m].attempts + 1,
              next |-> at + ProcessingLease, updated |-> at]
        ELSE q[m]]

MarkCompleted(q, ms, at) ==
    [m \in MatchIds |->
        IF m \in Known(q, ms)
        THEN [q[m] EXCEPT !.status = "completed", !.updated = at]
        ELSE q[m]]

Later(item, pause, at) == IF pause THEN at + Delay ELSE item.next

MarkDeferred(q, ms, pause, at) ==
    [m \in MatchIds |->
        IF m \in Known(q, ms)
        THEN [q[m] EXCEPT !.status = "quota_deferred",
                          !.next = Later(q[m], pause, at), !.updated = at]
        ELSE q[m]]

MarkFailed(q, ms, pause, terminal, at) ==
    [m \in MatchIds |->
        IF m \in Known(q, ms)
        THEN [q[m] EXCEPT !.status = IF terminal \/ q[m].attempts >= MaxAttempts
                                     THEN "failed" ELSE "pending",
                          !.next = Later(q[m], pause, at), !.updated = at]
        ELSE q[m]]

PruneCompleted(q, at) ==
    [m \in MatchIds |->
        IF q[m] # Missing /\ q[m].status = "completed" /\ q[m].updated <= at - Keep
        THEN Missing ELSE q[m]]

Batches == (SUBSET MatchIds) \ {{}}

(* The calls that may change the items. *)
Calls == [do : {"enqueue"}, of : {{m} : m \in MatchIds}]
         \cup [do : {"prune", "clear"}, of : {{}}]
         \cup [do : {"processing", "completed"}, of : Batches]
         \cup [do : {"deferred"}, of : Batches, pause : BOOLEAN]
         \cup [do : {"failed"}, of : Batches, pause : BOOLEAN, terminal : BOOLEAN]

(* The items after one call made at time at. *)
Apply(q, call, at) ==
    CASE call.do = "enqueue"    -> Enqueue(q, call.of, at)
      [] call.do = "processing" -> MarkProcessing(q, call.of, at)
      [] call.do = "completed"  -> MarkCompleted(q, call.of, at)
      [] call.do = "deferred"   -> MarkDeferred(q, call.of, call.pause, at)
      [] call.do = "failed"     -> MarkFailed(q, call.of, call.pause, call.terminal, at)
      [] call.do = "prune"      -> PruneCompleted(q, at)
      [] call.do = "clear"      -> Initial
=============================================================================
