--------------------------- MODULE ProviderRefresh ----------------------------
(***************************************************************************)
(* The hosted provider refresh.  Scheduled runs share one lease in the     *)
(* control row of the owner: a current run asks for the season files of    *)
(* the competitions, a terminal run for the daily results of the dates on  *)
(* which a match may have ended.  A run works on a copy of the ledger it   *)
(* read with the lease and publishes match rows and ledger in one          *)
(* transaction that is fenced by lease, expiry and revision; a terminal run*)
(* then has the bets of the matches it completed reconciled.               *)
(*                                                                         *)
(* Abstractions: a match is its status; a result is "completed".  All      *)
(* clocks agree, so a later run carries a later updatedAt, and a run takes *)
(* its time when the lease is granted.  There is one provider, whose       *)
(* season files may lag behind its daily feed; a request and its answer    *)
(* are one step.  Ledger entries older than a day are kept: no match is due*)
(* by then.                                                                *)
(***************************************************************************)
EXTENDS Integers, FiniteSets, FiniteSetsExt

CONSTANTS
    Procs,       \* runs in flight
    Matches, Dates, Targets,
    DateOf,      \* the UTC date a match kicks off on
    TargetOf,    \* the competition of a match
    Kickoff,     \* kickoff_utc of a match
    FirstCheck,  \* FIRST_CHECK_AFTER_MINUTES
    Length,      \* no result is published before a match had time to end
    Cutoff,      \* HARD_CUTOFF_MINUTES
    MaxChecks,   \* MAX_CHECKS
    MaxDates,    \* dates a terminal run asks for
    MaxTargets,  \* season files a current run asks for
    Lease, Recheck, Ttl,
    Deadline,    \* a current run starts no request after it
    Backoff,     \* the pause after the n-th failure in a row, n up to Levels
    Levels,
    Blocked,     \* the pause after the provider refused access
    MaxTime, MaxFaults, MaxRuns,
    None

ASSUME ProviderRefreshAssumption ==
    /\ Dates \subseteq Nat /\ Targets \subseteq Nat
    /\ DateOf \in [Matches -> Dates] /\ TargetOf \in [Matches -> Targets]
    /\ Kickoff \in [Matches -> Nat]
    /\ {FirstCheck, Length, Cutoff, MaxDates, MaxTargets, Lease, Recheck, Ttl,
        Deadline, Blocked, MaxTime, MaxFaults, MaxRuns} \subseteq Nat
    /\ {Levels, MaxChecks} \subseteq Nat \ {0}
    /\ Backoff \in [1..Levels -> Nat] /\ \A n \in 1..Levels : Backoff[n] >= Recheck
    /\ 0 < Lease /\ Recheck <= Lease /\ Recheck <= Blocked
    /\ FirstCheck + Lease <= Length
    /\ None \notin Nat \cup Procs

VARIABLES
    row,         \* match_record: the status of each match
    lease,       \* lease_id and lease_expires_at of provider_refresh_control
    revision,    \* its revision
    ledger,      \* its state_json
    barred,      \* provider_request_circuit: until when the provider is left alone
    reconciled,  \* matches whose bets were handed to the reconciler
    upstream,    \* how each match stands at the provider
    version,     \* which edition of a date's body the provider serves
    now, faults,
    pc, job,     \* where each run is, and what it carries
    asked        \* the run that last asked for a date and its start (history)

control  == <<lease, revision, ledger>>
world    == <<upstream, version, now, faults>>
vars     == <<row, control, barred, reconciled, world, pc, job, asked>>

-----------------------------------------------------------------------------
Unchecked == [attempts |-> 0, next |-> None, done |-> FALSE]
UsedUp    == [Unchecked EXCEPT !.attempts = MaxChecks]
Untouched == [next |-> None, etag |-> None, failures |-> 0]
Unfetched == [at |-> None, next |-> None, failures |-> 0]

Free == [holder |-> None, expires |-> 0]

Over(m, at) == Kickoff[m] + Length <= at

(* Ledgers of the first contract may carry ETags of bodies that were parsed  *)
(* wrongly and matches whose attempts were used up on them.                  *)
OldLedgers(at) ==
    {l \in [contract : {1}, circuit : {None},
            matches  : [Matches -> {Unchecked, UsedUp}],
            dates    : [Dates -> {Untouched, [Untouched EXCEPT !.etag = 0]}],
            current  : {[k \in Targets |-> Unfetched]}] :
        /\ \A m \in Matches : l.matches[m] = UsedUp => Over(m, at)
        /\ \A d \in Dates : l.dates[d] # Untouched => \E m \in Matches : DateOf[m] = d /\ Over(m, at)}

Init ==
    /\ now \in {0, Length} /\ faults = 0
    /\ row        = [m \in Matches |-> "scheduled"]
    /\ upstream   \in [Matches -> {"scheduled", "completed"}]
    /\ \A m \in Matches : upstream[m] = "completed" => Over(m, now)
    /\ version    = [d \in Dates |-> 0]
    /\ lease      = Free
    /\ revision   = 0
    /\ ledger     \in OldLedgers(now)
    /\ barred     = 0
    /\ reconciled = {}
    /\ pc         = [p \in Procs |-> "idle"]
    /\ job        = [p \in Procs |-> None]
    /\ asked      = [d \in Dates |-> [by |-> None, start |-> None]]

-----------------------------------------------------------------------------
Passed(time, at) == time = None \/ time <= at

(* The n first members of S. *)
FirstOf(S, n) == {x \in S : Cardinality({y \in S : y < x}) < n}

(* planSeasonHydrationBatch, revalidate-current: the season files that are   *)
(* due, in registry order, up to the first one that is in its pause.         *)
DueTargets(l, at) ==
    LET due == {k \in Targets : l.current[k].at = None \/ l.current[k].at + Ttl <= at}
    IN  FirstOf({k \in due : \A i \in due : i <= k => Passed(l.current[i].next, at)}, MaxTargets)

(* readMatches({dueAt}): scheduled, 105 minutes to four hours after kickoff. *)
InWindow(at) ==
    {m \in Matches : row[m] = "scheduled" /\ Kickoff[m] + FirstCheck <= at /\ at < Kickoff[m] + Cutoff}

(* buildFotMobTerminalPlan: the matches of the base that are to be checked.  *)
DueMatches(l, base, at) ==
    {m \in base : /\ ~l.matches[m].done /\ l.matches[m].attempts < MaxChecks
                  /\ Passed(l.matches[m].next, at)
                  /\ Passed(l.dates[DateOf[m]].next, at)}

(* Fault: a ledger of the first contract is used as it is. *)
MigratedAsIs(l, base) == [l EXCEPT !.contract = 2]

(* terminalContractVersion: ETags and used-up attempts of the first contract *)
(* are dropped.                                                              *)
Migrated(l, base) ==
    IF l.contract = 2 THEN l
    ELSE [l EXCEPT !.contract = 2,
                   !.dates   = [d \in Dates |-> [@[d] EXCEPT !.etag = None]],
                   !.matches = [m \in Matches |->
                                  IF m \in base /\ ~@[m].done
                                  THEN [@[m] EXCEPT !.attempts = 0] ELSE @[m]]]

Goto(p, step) == pc' = [pc EXCEPT ![p] = step]

Leave(p) == Goto(p, "idle") /\ job' = [job EXCEPT ![p] = None]

(* acquire: the lease is free or over.  A run that finds the circuit of the  *)
(* ledger open, or nothing to ask for, goes on to finish.                    *)
Acquire(p, kind) ==
    /\ pc[p] = "idle"
    /\ lease.expires <= now /\ revision < MaxRuns
    /\ lease' = [holder |-> p, expires |-> now + Lease]
    /\ LET todo == IF kind = "current" THEN DueTargets(ledger, now) ELSE {} IN
        /\ job' = [job EXCEPT ![p] =
                     [kind |-> kind, start |-> now, revision |-> revision,
                      ledger |-> ledger, base |-> {}, todo |-> todo, delta |-> {}]]
        /\ Goto(p, IF ~Passed(ledger.circuit, now) \/ (kind # "terminal" /\ todo = {}) THEN "finish"
                   ELSE IF kind = "terminal" THEN "read" ELSE "fetch")
    /\ UNCHANGED <<row, revision, ledger, barred, reconciled, world, asked>>

(* terminal: the base is read, an old ledger is migrated, the dates planned. *)
ReadDue(p) ==
    /\ pc[p] = "read"
    /\ LET base == InWindow(job[p].start)
           l    == Migrated(job[p].ledger, base)
           todo == FirstOf({DateOf[m] : m \in DueMatches(l, base, job[p].start)}, MaxDates)
       IN  /\ job' = [job EXCEPT ![p].base = base, ![p].ledger = l, ![p].todo = todo]
           /\ Goto(p, IF todo = {} THEN "finish" ELSE "fetch")
    /\ UNCHANGED <<row, control, barred, reconciled, world, asked>>

-----------------------------------------------------------------------------
(* The guard of every request looks at both circuits. *)
Barred == barred > now \/ ~Passed(ledger.circuit, now)

Asking(p, kind) ==
    /\ pc[p] = "fetch" /\ job[p].kind = kind
    /\ kind = "current" => now <= job[p].start + Deadline

(* The run has dealt with x and goes on with the rest. *)
Proceed(p, x, l, delta) ==
    LET todo == job[p].todo \ {x} IN
    /\ job' = [job EXCEPT ![p].ledger = l, ![p].todo = todo, ![p].delta = @ \cup delta]
    /\ Goto(p, IF todo = {} THEN "finish" ELSE "fetch")

(* The run stops asking, with what it has. *)
Stop(p, l) ==
    /\ job' = [job EXCEPT ![p].ledger = l, ![p].todo = {}]
    /\ Goto(p, "finish")

(* adaptFotMobSeason: what the season file of k says when it knows that the   *)
(* matches ended are over; a match in progress is not part of it.            *)
SeasonFile(k, ended) ==
    {<<m, IF m \in ended THEN "completed" ELSE "scheduled">> :
        m \in {n \in Matches : /\ TargetOf[n] = k
                               /\ n \in ended \/ upstream[n] = "completed" \/ now < Kickoff[n]}}

(* current: a season file is fetched, which may be late for matches that     *)
(* ended, or it answers 304: nothing new.                                    *)
FetchTarget(p, ended, modified) ==
    LET k == Min(job[p].todo)
    IN  /\ Asking(p, "current") /\ ~Barred
        /\ ended \subseteq {m \in Matches : modified /\ TargetOf[m] = k /\ upstream[m] = "completed"}
        /\ Proceed(p, k,
             [job[p].ledger EXCEPT !.current[k] = [Unfetched EXCEPT !.at = job[p].start]],
             IF modified THEN SeasonFile(k, ended) ELSE {})
        /\ UNCHANGED <<row, control, barred, reconciled, world, asked>>

(* The matches of the group of date d. *)
Group(p, d) == {m \in DueMatches(job[p].ledger, job[p].base, job[p].start) : DateOf[m] = d}

(* What the body of date d says of the base; a 304 says nothing. *)
Ended(p, d) ==
    IF job[p].ledger.dates[d].etag = version[d] THEN {}
    ELSE {m \in job[p].base : DateOf[m] = d /\ upstream[m] = "completed"}

(* terminal: each match of the group is ticked off or put off, and the date  *)
(* keeps the ETag.                                                           *)
FetchDate(p) ==
    LET d     == Min(job[p].todo)
        group == Group(p, d)
        ended == group \cap Ended(p, d)
        after == job[p].start + Recheck
    IN  /\ Asking(p, "terminal") /\ ~Barred
        /\ Proceed(p, d,
             [job[p].ledger EXCEPT
                !.matches  = [m \in Matches |->
                                IF m \notin group THEN @[m]
                                ELSE [attempts |-> @[m].attempts + 1, done |-> m \in ended,
                                      next |-> IF m \in ended THEN None ELSE after]],
                !.dates[d] = [next |-> after, etag |-> version[d], failures |-> 0]],
             ended \X {"completed"})
        /\ asked' = [asked EXCEPT ![d] = [by |-> p, start |-> job[p].start]]
        /\ UNCHANGED <<row, control, barred, reconciled, world>>

(* A failure of an entry: its pause grows with every failure in a row. *)
Failed(entry, at) ==
    LET n == Min({entry.failures + 1, Levels})
    IN  [entry EXCEPT !.failures = n, !.next = at + Backoff[n]]

(* A request fails, or is refused, or is not sent because a circuit is open: *)
(* its entry pauses and the run asks for nothing else.  A refusal opens the  *)
(* circuits.                                                                 *)
FetchFails(p, refused) ==
    LET x == Min(job[p].todo)
        l == [job[p].ledger EXCEPT !.circuit = IF refused THEN job[p].start + Blocked ELSE @]
    IN  /\ Asking(p, job[p].kind)
        /\ refused => ~Barred
        /\ IF job[p].kind = "current"
             THEN /\ Stop(p, [l EXCEPT !.current[x] = Failed(@, job[p].start)])
                  /\ UNCHANGED asked
             ELSE /\ Stop(p, [l EXCEPT !.dates[x] = Failed(@, job[p].start)])
                  /\ asked' = IF Barred THEN asked ELSE [asked EXCEPT ![x] = [by |-> p, start |-> job[p].start]]
        /\ barred' = IF refused THEN now + Blocked ELSE barred
        /\ UNCHANGED <<row, control, reconciled, world>>

(* current: a run past its deadline starts no further request.               *)
PastDeadline(p) ==
    /\ pc[p] = "fetch" /\ job[p].kind = "current" /\ now > job[p].start + Deadline
    /\ Stop(p, job[p].ledger)
    /\ UNCHANGED <<row, control, barred, reconciled, world, asked>>

-----------------------------------------------------------------------------
(* Fault: the fence forgets the lease. *)
FencedByRevision(p) == /\ lease.expires > now
                       /\ revision = job[p].revision

(* Fault: the fence only looks at the expiry. *)
FencedByExpiry(p) == lease.expires > now

(* finish: the lease is still this run's and the revision is the one it read.*)
Fenced(p) == /\ lease.holder = p /\ lease.expires > now
             /\ revision = job[p].revision

(* Fault: the newer update wins, whatever it says. *)
AcceptedAlways(delta) == delta

(* mergeCanonicalWarehouseSnapshots: no completed match regresses. *)
Accepted(delta) == {s \in delta : row[s[1]] = "completed" => s[2] = "completed"}

(* finish, fenced: rows and ledger are published and the lease is given back.*)
Finish(p) ==
    LET delta == Accepted(job[p].delta) IN
    /\ pc[p] = "finish" /\ Fenced(p)
    /\ row'      = [m \in Matches |-> IF \E s \in delta : s[1] = m
                                      THEN (CHOOSE s \in delta : s[1] = m)[2] ELSE row[m]]
    /\ ledger'   = job[p].ledger
    /\ revision' = revision + 1
    /\ lease'    = Free
    /\ IF job[p].kind = "terminal" /\ delta # {}
         THEN Goto(p, "reconcile") /\ job' = [job EXCEPT ![p] = [delta |-> delta]]
         ELSE Leave(p)
    /\ UNCHANGED <<barred, reconciled, world, asked>>

(* Fault: the ledger is saved although the publication was refused. *)
RefusedSavesLedger(p) ==
    /\ pc[p] = "finish" /\ ~Fenced(p)
    /\ ledger' = job[p].ledger
    /\ Leave(p)
    /\ UNCHANGED <<row, lease, revision, barred, reconciled, world, asked>>

(* finish, refused: nothing is published; the lease expires by itself.       *)
Refused(p) ==
    /\ pc[p] = "finish" /\ ~Fenced(p)
    /\ Leave(p)
    /\ UNCHANGED <<row, control, barred, reconciled, world, asked>>

(* The bets of the matches this run found completed are reconciled.          *)
Reconcile(p) ==
    /\ pc[p] = "reconcile"
    /\ reconciled' = reconciled \cup {m \in Matches : <<m, "completed">> \in job[p].delta /\ row[m] = "completed"}
    /\ Leave(p)
    /\ UNCHANGED <<row, control, barred, world, asked>>

(* The process stops, the database fails or the reconciler throws: the run   *)
(* ends where it is.                                                         *)
Abort(p) ==
    /\ pc[p] # "idle" /\ faults < MaxFaults
    /\ faults' = faults + 1
    /\ Leave(p)
    /\ UNCHANGED <<row, control, barred, reconciled, upstream, version, now, asked>>

(* A match ends and the body of its date says so from now on.  (Other changes*)
(* of a body only turn a 304 into an answer without news.)                   *)
FullTime(m) ==
    /\ upstream[m] = "scheduled" /\ Over(m, now)
    /\ upstream' = [upstream EXCEPT ![m] = "completed"]
    /\ version'  = [version EXCEPT ![DateOf[m]] = @ + 1]
    /\ UNCHANGED <<row, control, barred, reconciled, now, faults, pc, job, asked>>

Tick ==
    /\ now < MaxTime
    /\ now' = now + 1
    /\ UNCHANGED <<row, control, barred, reconciled, upstream, version, faults, pc, job, asked>>

Next ==
    \/ \E p \in Procs :
        \/ \E kind \in {"current", "terminal"} : Acquire(p, kind)
        \/ ReadDue(p)
        \/ \E ended \in SUBSET Matches, modified \in BOOLEAN : FetchTarget(p, ended, modified)
        \/ FetchDate(p)
        \/ \E refused \in BOOLEAN : FetchFails(p, refused)
        \/ PastDeadline(p)
        \/ Finish(p) \/ Refused(p) \/ Reconcile(p) \/ Abort(p)
    \/ \E m \in Matches : FullTime(m)
    \/ Tick

Spec == Init /\ [][Next]_vars

-----------------------------------------------------------------------------
MaybeTime == Nat \cup {None}

(* Type invariant of the control row, its ledger and the match rows. *)
TypeOK ==
    /\ row \in [Matches -> {"scheduled", "completed"}]
    /\ lease \in [holder : Procs \cup {None}, expires : Nat]
    /\ revision \in Nat /\ barred \in Nat
    /\ ledger.contract \in {1, 2} /\ ledger.circuit \in MaybeTime
    /\ ledger.matches \in [Matches -> [attempts : 0..MaxChecks, next : MaybeTime, done : BOOLEAN]]
    /\ ledger.dates \in [Dates -> [next : MaybeTime, etag : MaybeTime, failures : 0..Levels]]
    /\ ledger.current \in [Targets -> [at : MaybeTime, next : MaybeTime, failures : 0..Levels]]
    /\ pc \in [Procs -> {"idle", "read", "fetch", "finish", "reconcile"}]

(* A match is ticked off in the ledger only when its row shows the result: no *)
(* checkpoint commits without what it stands for.                             *)
CheckpointMatchesRow == \A m \in Matches : ledger.matches[m].done => row[m] = "completed"

(* A published result is never taken back, not even by a season file that is  *)
(* behind the daily feed.                                                     *)
CompletedStays == [][\A m \in Matches : row[m] = "completed" => row'[m] = "completed"]_vars

(* When a date would only answer 304, no result its body holds is left out of *)
(* the rows, for a match that still may be checked: neither the filter on the *)
(* due matches nor an ETag of the former parser hides one.                    *)
NoHiddenResult ==
    \A m \in Matches :
        LET d == ledger.dates[DateOf[m]] IN
        /\ ledger.contract = 2 /\ d.etag = version[DateOf[m]]
        /\ upstream[m] = "completed" /\ m \in InWindow(now)
        => ledger.matches[m].attempts >= MaxChecks

(* Runs that ask for the same date start at least the pause between checks    *)
(* apart, whatever becomes of their leases and their ledgers.                 *)
DateRequestsSpaced ==
    [][\A d \in Dates :
         asked'[d] # asked[d] /\ asked[d].by # None =>
            \/ asked'[d].start >= asked[d].start + Recheck
            \/ asked[d].start >= asked'[d].start + Recheck]_vars

(* The stored ledger never goes back: no run overwrites what a later one has  *)
(* noted of a match or a date.                                                *)
LedgerMovesForward ==
    [][/\ \A m \in Matches :
            LET old == ledger.matches[m] new == ledger'.matches[m] IN
            /\ old.done => new.done
            /\ ledger.contract = 2 => new.attempts >= old.attempts
       /\ \A d \in Dates :
            ledger.dates[d].next # None =>
               ledger'.dates[d].next # None /\ ledger'.dates[d].next >= ledger.dates[d].next]_vars

(* Once every run is over, the bets of every match with a published result   *)
(* have been handed to the reconciler.                                       *)
CompletedIsReconciled ==
    (\A p \in Procs : pc[p] = "idle") => \A m \in Matches : row[m] = "completed" => m \in reconciled
=============================================================================
