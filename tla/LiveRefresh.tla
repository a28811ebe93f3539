----------------------------- MODULE LiveRefresh ------------------------------
(***************************************************************************)
(* The live overlay.  A refresh of any process reads the published snapshot*)
(* and the refresh state, takes the one lease of the owner by a conditional*)
(* upsert, asks the provider, and publishes snapshot and state in one      *)
(* transaction that is fenced by the lease.  Processes have clocks of their*)
(* own, may stop at any step, and may be slow between any two awaits.      *)
(*                                                                         *)
(* Two sources: the widget lists recent matches and is asked once more for *)
(* at most MaxChecks matches that it no longer lists; the daily feed keeps *)
(* a match it misses for a limited time.                                   *)
(*                                                                         *)
(* Abstractions: a match is its status, score and minute left out; halftime*)
(* and suspended count as live; which records of a response map to a known *)
(* match is nondeterministic.  One tick is half of the lease.              *)
(***************************************************************************)
EXTENDS Integers, FiniteSets, FiniteSetsExt

CONSTANTS
    Procs, Matches, Reasons,
    Mode,             \* the source each process is configured with: "widget" or "daily"
    Freshness,        \* FRESHNESS_MS: how long a success is fresh, by reason
    Lease,            \* LEASE_MS
    Cooldown,         \* pause after an attempt
    BlockedCooldown,  \* pause after an attempt that the provider blocked
    Retain,           \* RETAIN_MISSING_MS of the daily source
    MaxChecks,        \* MAX_TERMINAL_CHECKS of the widget source
    Offset,           \* by how much the clock of each process is ahead
    MaxTime, MaxCrashes,
    None

ASSUME LiveRefreshAssumption ==
    /\ Mode \in [Procs -> {"widget", "daily"}]
    /\ Freshness \in [Reasons -> Nat] /\ Offset \in [Procs -> Nat]
    /\ {Lease, Cooldown, BlockedCooldown, Retain, MaxChecks, MaxTime, MaxCrashes} \subseteq Nat
    /\ Lease > 0 /\ Cooldown > 0 /\ BlockedCooldown >= Cooldown

VARIABLES
    row,       \* live_refresh_state of the owner, None before the first attempt
    snapshot,  \* live_match_snapshot of the owner, None before the first success
    upstream,  \* how each match stands at the provider
    pc,        \* where the refresh that each process executes stands
    started,   \* startedAt of that refresh
    job,       \* what that refresh has read and collected
    result,    \* its outcome and the time it was stamped with
    now, crashes

published == <<row, snapshot>>
world     == <<upstream, now, crashes>>
vars      == <<published, world, pc, started, job, result>>

-----------------------------------------------------------------------------
Clock(p) == now + Offset[p]

(* What snapshot s shows of match m. *)
Shown(s, m) == IF s = None THEN None ELSE s.matches[m]

Tracked(s)  == {m \in Matches : Shown(s, m) # None /\ Shown(s, m).status # "completed"}

Pause(state) == IF state.error = "blocked" THEN BlockedCooldown ELSE Cooldown

(* isFresh *)
IsFresh(state, reason, at) ==
    /\ state # None
    /\ \/ at - state.attempt < Pause(state)
       \/ /\ state.success # None
          /\ at - state.success >= 0
          /\ at - state.success < Freshness[reason]

(* Fault: the upsert has no condition. *)
AvailableAlways(at) == row = None \/ at >= 0

(* Fault: a lease ends only when it is released. *)
AvailableWhenReleased(at) ==
    \/ row = None
    \/ row.attempt + Pause(row) <= at /\ row.lease = None

(* The condition of acquireLiveRefreshLease. *)
Available(at) ==
    \/ row = None
    \/ /\ row.attempt + Pause(row) <= at
       /\ row.lease = None \/ row.lease.expires <= at

Init ==
    /\ row = None /\ snapshot = None
    /\ upstream \in [Matches -> {"scheduled", "live"}]
    /\ pc = [p \in Procs |-> "idle"]
    /\ started = [p \in Procs |-> 0]
    /\ job = [p \in Procs |-> None]
    /\ result = [p \in Procs |-> None]
    /\ now = 0 /\ crashes = 0

-----------------------------------------------------------------------------
Goto(p, step) == pc' = [pc EXCEPT ![p] = step]

(* The refresh of p is over, or gone: what it held in memory is forgotten. *)
Leave(p) ==
    /\ Goto(p, "idle")
    /\ started' = [started EXCEPT ![p] = 0]
    /\ job'     = [job EXCEPT ![p] = None]
    /\ result'  = [result EXCEPT ![p] = None]

(* refresh(reason) takes the time and starts to read snapshot and state.     *)
Begin(p, reason) ==
    /\ pc[p] = "idle"
    /\ Goto(p, "read")
    /\ started' = [started EXCEPT ![p] = Clock(p)]
    /\ job' = [job EXCEPT ![p] = [reason |-> reason, todo |-> {"snapshot", "state"},
                                  prev |-> None, fresh |-> FALSE,
                                  matches |-> None, check |-> {}]]
    /\ UNCHANGED <<published, world, result>>

(* A read answers; the two run in parallel, so in either order.  After both, *)
(* a fresh state ends the refresh.                                           *)
Read(p, what) ==
    LET j == [job[p] EXCEPT !.todo = @ \ {what},
                            !.prev = IF what = "snapshot" THEN snapshot ELSE @,
                            !.fresh = IF what = "state"
                                        THEN IsFresh(row, job[p].reason, started[p]) ELSE @]
    IN  /\ pc[p] = "read" /\ what \in job[p].todo
        /\ IF j.todo = {} /\ j.fresh
             THEN Leave(p)
             ELSE /\ job' = [job EXCEPT ![p] = j]
                  /\ Goto(p, IF j.todo = {} THEN "acquire" ELSE "read")
                  /\ UNCHANGED <<started, result>>
        /\ UNCHANGED <<published, world>>

(* acquireLiveRefreshLease, with the time the refresh started at.  A refused *)
(* caller answers with what is published ("leased").                         *)
Acquire(p) ==
    /\ pc[p] = "acquire"
    /\ IF Available(started[p])
         THEN /\ row' = [status |-> "running", attempt |-> started[p], error |-> None,
                         success |-> IF row = None THEN None ELSE row.success,
                         lease |-> [holder |-> p, expires |-> started[p] + Lease]]
              /\ Goto(p, "list")
              /\ UNCHANGED <<started, job, result>>
         ELSE Leave(p) /\ UNCHANGED row
    /\ UNCHANGED <<snapshot, world>>

(* The refresh has an outcome and stamps it with the time of its clock.      *)
Conclude(p, outcome) ==
    /\ Goto(p, "finish")
    /\ result' = [result EXCEPT ![p] = [outcome |-> outcome, stamp |-> Clock(p)]]

(* It has the matches to publish, and still asks for some of them. *)
Collect(p, matches, check) ==
    /\ job' = [job EXCEPT ![p].matches = matches, ![p].check = check]
    /\ IF check = {} THEN Conclude(p, "succeeded")
                     ELSE Goto(p, "check") /\ UNCHANGED result
    /\ UNCHANGED <<published, world, started>>

Observed(p, m) == [status |-> upstream[m], updated |-> started[p]]

Observable == {m \in Matches : upstream[m] # "scheduled"}

(* What p publishes when it has seen some matches and keeps others as they   *)
(* were.                                                                     *)
Merged(p, seen, kept) ==
    [m \in Matches |-> IF m \in seen THEN Observed(p, m)
                       ELSE IF m \in kept THEN Shown(job[p].prev, m) ELSE None]

(* At most MaxChecks of the matches that are gone from the list. *)
Checks(gone) ==
    {check \in SUBSET gone :
       Cardinality(check) = IF Cardinality(gone) < MaxChecks THEN Cardinality(gone) ELSE MaxChecks}

(* Fault: what the widget no longer lists has ended. *)
ListWidgetEnds(p, seen) ==
    LET gone == Tracked(job[p].prev) \ seen IN
    /\ Mode[p] = "widget" /\ pc[p] = "list"
    /\ Collect(p, [m \in Matches |->
                     IF m \in gone THEN [status |-> "completed", updated |-> started[p]]
                     ELSE Merged(p, seen, {})[m]], {})

(* Fault: only the tracked matches that are asked for are carried over.      *)
ListWidgetChecked(p, seen) ==
    LET gone == Tracked(job[p].prev) \ seen IN
    /\ Mode[p] = "widget" /\ pc[p] = "list"
    /\ \E check \in Checks(gone) : Collect(p, Merged(p, seen, check), check)

(* listMatches of the widget: some of the started matches are listed; the    *)
(* tracked ones it misses are carried over, and a few are asked for.         *)
ListWidget(p, seen) ==
    LET gone == Tracked(job[p].prev) \ seen IN
    /\ Mode[p] = "widget" /\ pc[p] = "list"
    /\ \E check \in Checks(gone) : Collect(p, Merged(p, seen, gone), check)

(* getMatch of one tracked match: it answers, or the match is kept as it is. *)
CheckTracked(p, m, answers) ==
    /\ pc[p] = "check" /\ m \in job[p].check
    /\ Collect(p, IF answers THEN [job[p].matches EXCEPT ![m] = Observed(p, m)]
                             ELSE job[p].matches,
               job[p].check \ {m})

(* readSnapshot of the daily source: a tracked match that it misses is kept, *)
(* with the time it was last seen, until it is too old.                      *)
ListDaily(p, seen) ==
    LET kept == {m \in Tracked(job[p].prev) \ seen :
                   started[p] - Shown(job[p].prev, m).updated < Retain}
    IN  /\ Mode[p] = "daily" /\ pc[p] = "list"
        /\ Collect(p, Merged(p, seen, kept), {})

(* The provider is unreachable or blocks the access; a tracked check stops   *)
(* the refresh only when it is blocked.                                      *)
SourceFails(p, code) ==
    /\ pc[p] = "list" \/ (pc[p] = "check" /\ code = "blocked")
    /\ Conclude(p, code)
    /\ UNCHANGED <<published, world, started, job>>

(* Fault: the fence looks at the lease, not at whose it is. *)
OwnedByAnyone(p) ==
    /\ row.status = "running" /\ row.lease # None
    /\ row.lease.expires > result[p].stamp

(* The fence of finishLiveRefresh: a lease id is that of one acquisition.    *)
Owned(p) ==
    /\ row # None
    /\ row.status = "running" /\ row.lease # None
    /\ row.lease.holder = p /\ row.attempt = started[p]
    /\ row.attempt <= result[p].stamp /\ row.lease.expires > result[p].stamp

Status(outcome) == IF outcome = "succeeded" THEN "succeeded" ELSE "failed"

(* finishLiveRefresh, the whole transaction.  When the fence refuses a       *)
(* success, the refresh tries once more to record a failure; when it refuses *)
(* a failure, the refresh gives up.                                          *)
Finish(p) ==
    LET ok == result[p].outcome = "succeeded" IN
    /\ pc[p] = "finish"
    /\ \/ /\ Owned(p)
          /\ row' = [status  |-> Status(result[p].outcome),
                     attempt |-> row.attempt,
                     success |-> IF ok THEN result[p].stamp ELSE row.success,
                     error   |-> IF ok THEN None ELSE result[p].outcome,
                     lease   |-> None]
          /\ snapshot' = IF ok THEN [generated |-> started[p], matches |-> job[p].matches]
                               ELSE snapshot
          /\ Leave(p)
       \/ /\ ~Owned(p)
          /\ IF ok THEN Conclude(p, "other") /\ UNCHANGED <<started, job>>
                   ELSE Leave(p)
          /\ UNCHANGED published
    /\ UNCHANGED world

(* The runtime is stopped; what it had in memory is gone, its lease stays.   *)
Crash(p) ==
    /\ pc[p] # "idle" /\ crashes < MaxCrashes
    /\ Leave(p)
    /\ crashes' = crashes + 1
    /\ UNCHANGED <<published, upstream, now>>

Kickoff(m) ==
    /\ upstream[m] = "scheduled"
    /\ upstream' = [upstream EXCEPT ![m] = "live"]
    /\ UNCHANGED <<published, now, crashes, pc, started, job, result>>

FullTime(m) ==
    /\ upstream[m] = "live"
    /\ upstream' = [upstream EXCEPT ![m] = "completed"]
    /\ UNCHANGED <<published, now, crashes, pc, started, job, result>>

Tick ==
    /\ now < MaxTime
    /\ now' = now + 1
    /\ UNCHANGED <<published, upstream, crashes, pc, started, job, result>>

(* The steps a refresh takes once it runs. *)
Advance(p) ==
    \/ \E what \in {"snapshot", "state"} : Read(p, what)
    \/ Acquire(p) \/ Finish(p)
    \/ \E seen \in SUBSET Observable : ListWidget(p, seen) \/ ListDaily(p, seen)
    \/ \E m \in Matches, answers \in BOOLEAN : CheckTracked(p, m, answers)
    \/ \E code \in {"blocked", "other"} : SourceFails(p, code)

Next ==
    \/ \E p \in Procs : Advance(p) \/ Crash(p) \/ \E reason \in Reasons : Begin(p, reason)
    \/ \E m \in Matches : Kickoff(m) \/ FullTime(m)
    \/ Tick

(* The scheduler and the open page keep asking, requests have timeouts and   *)
(* time passes.                                                              *)
Fairness ==
    /\ WF_vars(Tick)
    /\ \A p \in Procs : WF_vars(Advance(p)) /\ WF_vars(\E r \in Reasons : Begin(p, r))

Spec == Init /\ [][Next]_vars /\ Fairness

-----------------------------------------------------------------------------
Overlays ==
    [generated : Int, matches : [Matches -> {None} \cup
                                   [status : {"live", "completed"}, updated : Int]]]

Leases == [holder : Procs, expires : Int]

RefreshStates ==
    [status : {"running", "succeeded", "failed"}, attempt : Int, success : {None} \cup Int,
     error : {None, "blocked", "other"},
     lease : {None} \cup Leases]

(* None is a value of its own: it is no row, no snapshot, no match of one and *)
(* no lease.                                                                 *)
ASSUME NoneAssumption ==
    /\ None \notin RefreshStates /\ None \notin Overlays /\ None \notin Leases
    /\ None \notin [status : {"live", "completed"}, updated : Int]

TypeOK ==
    /\ row \in {None} \cup RefreshStates /\ snapshot \in {None} \cup Overlays
    /\ upstream \in [Matches -> {"scheduled", "live", "completed"}]
    /\ pc \in [Procs -> {"idle", "read", "acquire", "list", "check", "finish"}]
    /\ started \in [Procs -> Int]

(* However slow a refresh is and whatever the clocks say, a published        *)
(* snapshot is only ever replaced by one of a refresh that started later.    *)
SnapshotMovesForward ==
    [][ snapshot' # snapshot =>
          snapshot = None \/ snapshot'.generated > snapshot.generated ]_vars

(* "disappearance never implies FT": the overlay, which may override the     *)
(* status of a match, shows as completed only what the provider has ended.   *)
CompletedIsConfirmed ==
    \A m \in Matches : Shown(snapshot, m) # None /\ Shown(snapshot, m).status = "completed"
                         => upstream[m] = "completed"

(* Two refreshes ask the provider at the same time only when the lease of    *)
(* one of them is over by the clock of the other.                            *)
OneRefreshAtATime ==
    \A p, q \in Procs :
        p # q /\ {pc[p], pc[q]} \subseteq {"list", "check"}
          => \/ Clock(q) >= started[p] + Lease
             \/ Clock(p) >= started[q] + Lease

(* A refresh that replaces the very snapshot it carries matches over from    *)
(* keeps every live match on the overlay until it is seen to end or, on the  *)
(* daily source, until it has not been seen for too long: "Missing active    *)
(* observations keep their old timestamps for at most ten minutes, then leave*)
(* the visible snapshot".                                                    *)
LiveIsNotForgotten ==
    [][ \A p \in Procs : \A m \in Tracked(snapshot) :
          /\ pc[p] = "finish" /\ pc'[p] # "finish" /\ snapshot' # snapshot
          /\ job[p].prev = snapshot
          => \/ Shown(snapshot', m) # None
             \/ /\ Mode[p] = "daily"
                /\ snapshot'.generated - Shown(snapshot, m).updated >= Retain ]_vars

RunningSince(t) == row # None /\ row.status = "running" /\ row.attempt = t

(* A refresh never stays running: it is finished, or replaced after its      *)
(* lease by another one, if its process stops.                               *)
RunningEnds ==
    \A t \in 0..(MaxTime - Lease) : RunningSince(t) ~> ~RunningSince(t)
=============================================================================
