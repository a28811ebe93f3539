------------------------------ MODULE WorkerJobs ------------------------------
(***************************************************************************)
(* The jobs of the owner's own machine.  The season job asks for season    *)
(* files, the result job for the daily results of matches that may be      *)
(* over; each keeps a ledger and publishes snapshots under one data root.  *)
(* A job takes the lock file of its kind, then the publication lock, and a *)
(* lock whose process is gone is taken over.  A publication writes an      *)
(* immutable version and then replaces the manifest that names it; readers *)
(* (the API, the next job) follow the manifest.                            *)
(*                                                                         *)
(* Abstractions: a match is its status.  There is no clock: what is in its *)
(* pause, what is old enough to be asked for again, which match is past its*)
(* last check and whether a dead lock has expired is any choice at the time*)
(* it is looked at, so a ledger keeps no times and a failed request leaves *)
(* nothing in it.  A job goes for its locks as soon as it has looked at the*)
(* clock: later publications carry later times.  A warehouse run and the   *)
(* serving version made from it are one version, its files are written in  *)
(* one step (nothing names a version before it has been verified); a lock  *)
(* file that is still empty counts as held.                                *)
(***************************************************************************)
EXTENDS Integers, FiniteSets, FiniteSetsExt

CONSTANTS
    Procs, Matches, Dates, Targets,
    DateOf,       \* the provider date of a match
    TargetOf,     \* the season file that lists a match
    Known,        \* the matches published at first, none of them played
    FotMob,       \* the targets whose source is fotmob-unofficial
    MaxDates, MaxTargets,   \* requests of one job
    MaxVersions, MaxNews, MaxFaults,
    Free, Dead,   \* a lock nobody holds; one left behind by a stopped process
    None

(* What a version says of each match. *)
Snapshots == [Matches -> {"absent", "scheduled", "postponed", "completed"}]

ASSUME WorkerJobsAssumption ==
    /\ Dates \subseteq Nat /\ Targets \subseteq Nat /\ FotMob \subseteq Targets /\ Known \subseteq Matches
    /\ DateOf \in [Matches -> Dates] /\ TargetOf \in [Matches -> Targets]
    /\ {MaxDates, MaxTargets, MaxVersions, MaxNews, MaxFaults} \subseteq Nat
    /\ {Free, Dead, None} \cap Procs = {} /\ Free # Dead /\ None \notin Nat \cup Snapshots

VARIABLES
    lock,        \* season-hydration lease, terminal-results.lock, publication lease
    versions,    \* warehouse/versions and serving/versions
    manifest,    \* serving/manifest.json: the version it names
    season,      \* the ledger of the season job
    results,     \* the ledger of the result job
    upstream,    \* what the provider knows: matches, season files, daily bodies
    pc, job,     \* where each process is, and what its job carries
    faults, news,
    evicted      \* a lock was removed under a running process (history)

disk  == <<versions, manifest, season, results>>
world == <<upstream, news>>
vars  == <<lock, disk, world, pc, job, faults, evicted>>

Locks    == {"season", "results", "publication"}
Terminal == {"completed", "postponed"}

MatchesOf(k) == {m \in Matches : TargetOf[m] = k}

Published == versions[manifest]

Init ==
    /\ lock     = [l \in Locks |-> Free]
    /\ versions = [v \in 0..MaxVersions |-> IF v # 0 THEN None ELSE
                    [m \in Matches |-> IF m \in Known THEN "scheduled" ELSE "absent"]]
    /\ manifest = 0
    /\ season   = [k \in Targets |-> None]
    /\ results  = [match |-> [m \in Matches |-> "open"], etag |-> [d \in Dates |-> None]]
    /\ upstream = [match |-> [m \in Matches |-> "scheduled"],
                   file  |-> [k \in Targets |-> [edition |-> 0, says |-> [m \in MatchesOf(k) |-> "scheduled"]]],
                   body  |-> [d \in Dates |-> 0]]
    /\ news     = 0
    /\ pc       = [p \in Procs |-> "idle"]
    /\ job      = [p \in Procs |-> None]
    /\ faults   = 0 /\ evicted = FALSE

-----------------------------------------------------------------------------
Goto(p, step) == pc' = [pc EXCEPT ![p] = step]

(* The lock a process goes for next: that of its kind, then publication.     *)
Wanted(p) == IF lock[job[p].kind] = p THEN "publication" ELSE job[p].kind

Idle(kind) == [kind |-> kind, base |-> None, version |-> None, todo |-> {}, group |-> {},
               ok |-> {}, delta |-> {}, gone |-> {}]

Unused == {v \in 1..MaxVersions : versions[v] = None}

(* A job begins with the lock of its kind, open(lockPath, 'wx'); when a      *)
(* running process has it (lease_busy) the job ends and has changed nothing. *)
(* removeStaleLease, first half: the holder is not alive and its time is up. *)
Start(p, kind) ==
    /\ pc[p] = "idle" /\ lock[kind] \in {Free, Dead}
    /\ Cardinality(Unused) > Cardinality({q \in Procs : pc[q] # "idle"})
    /\ job' = [job EXCEPT ![p] = Idle(kind)]
    /\ IF lock[kind] = Free THEN lock' = [lock EXCEPT ![kind] = p] /\ Goto(p, "want")
                            ELSE Goto(p, "unlink") /\ UNCHANGED lock
    /\ UNCHANGED <<disk, world, faults, evicted>>

(* The publication lock, or one more try for a lock that was left behind.    *)
TakeLock(p) ==
    /\ pc[p] \in {"want", "retry"} /\ lock[Wanted(p)] = Free
    /\ lock' = [lock EXCEPT ![Wanted(p)] = p]
    /\ Goto(p, IF Wanted(p) = "publication" THEN "plan" ELSE "want")
    /\ UNCHANGED <<disk, world, job, faults, evicted>>

FindStale(p) ==
    /\ pc[p] = "want" /\ lock[Wanted(p)] = Dead
    /\ Goto(p, "unlink")
    /\ UNCHANGED <<lock, disk, world, job, faults, evicted>>

(* removeStaleLease, second half: whatever is there now is unlinked.         *)
Unlink(p) ==
    /\ pc[p] = "unlink"
    /\ lock'    = [lock EXCEPT ![Wanted(p)] = Free]
    /\ evicted' = (evicted \/ lock[Wanted(p)] \in Procs)
    /\ Goto(p, "retry")
    /\ UNCHANGED <<disk, world, job, faults>>

(* lease_busy for the publication lock, or after one try more. *)
Busy(p) ==
    /\ pc[p] \in {"want", "retry"} /\ lock[Wanted(p)] # Free
    /\ Goto(p, "leave")
    /\ UNCHANGED <<lock, disk, world, job, faults, evicted>>

(* The locks are given back, the inner one first, if they are still its own. *)
Release(p) ==
    /\ pc[p] = "leave"
    /\ IF lock["publication"] = p
         THEN /\ lock' = [lock EXCEPT !["publication"] = Free]
              /\ UNCHANGED <<pc, job>>
         ELSE /\ lock' = [lock EXCEPT ![job[p].kind] = IF @ = p THEN Free ELSE @]
              /\ Goto(p, "idle") /\ job' = [job EXCEPT ![p] = None]
    /\ UNCHANGED <<disk, world, faults, evicted>>

-----------------------------------------------------------------------------
FirstOf(S, n) == {x \in S : Cardinality({y \in S : y < x}) < n}

(* planSeasonHydrationBatch: what is incomplete, and what is aged when it is *)
(* revalidated, in registry order, up to the first target in its pause       *)
(* (selectRunnableTier).                                                     *)
DueTargets(aged, paused) ==
    LET due == {k \in Targets : season[k] = None \/ k \in aged}
    IN  FirstOf({k \in due : \A i \in due : i <= k => i \notin paused}, MaxTargets)

PlanSeason(p, aged, paused) ==
    /\ pc[p] = "plan" /\ job[p].kind = "season"
    /\ job' = [job EXCEPT ![p].todo = DueTargets(aged, paused)]
    /\ Goto(p, IF DueTargets(aged, paused) = {} THEN "leave" ELSE "fetch")
    /\ UNCHANGED <<lock, disk, world, faults, evicted>>

(* buildFotMobTerminalPlan: scheduled matches that are due, by date; those   *)
(* past their last check (45 checks or four hours) are given up.             *)
Open(m) == Published[m] = "scheduled" /\ results.match[m] = "open"

PlanResults(p, due, gone) ==
    LET dates == FirstOf({DateOf[m] : m \in due}, MaxDates)
    IN  /\ pc[p] = "plan" /\ job[p].kind = "results"
        /\ \A m \in due \cup gone : Open(m)
        /\ due \cap gone = {}
        /\ job' = [job EXCEPT ![p].base = manifest, ![p].todo = dates, ![p].gone = gone,
                              ![p].group = {m \in due : DateOf[m] \in dates}]
        /\ Goto(p, IF dates # {} THEN "fetch" ELSE IF gone # {} THEN "record" ELSE "leave")
        /\ UNCHANGED <<lock, disk, world, faults, evicted>>

(* The request for x has ended; after the last one the job publishes what is *)
(* new, if anything is.                                                      *)
Proceed(p, done) == Goto(p, IF job[p].todo # done THEN "fetch"
                            ELSE IF job'[p].delta # {} THEN "build" ELSE "record")

(* A season file: matches in progress are not taken over.  304 is the answer *)
(* to the ETag of the last complete one.                                     *)
FetchTarget(p) ==
    LET k == Min(job[p].todo)
        f == upstream.file[k]
        same  == season[k] = f.edition
        delta == {<<m, f.says[m]>> : m \in {n \in MatchesOf(k) : f.says[n] # "live"}}
    IN  /\ pc[p] = "fetch" /\ job[p].kind = "season"
        /\ job' = [job EXCEPT ![p].todo = @ \ {k}, ![p].ok = @ \cup {<<k, f.edition>>},
                              ![p].delta = IF same THEN @ ELSE @ \cup delta]
        /\ Proceed(p, {k})
        /\ UNCHANGED <<lock, disk, world, faults, evicted>>

(* What the body of date d says of the matches of the group: a match it does *)
(* not list, lists as live or lists with an invalid score is checked again.  *)
FetchDate(p, unlisted) ==
    LET d     == Min(job[p].todo)
        group == {m \in job[p].group : DateOf[m] = d}
        same  == results.etag[d] = upstream.body[d]
        over  == {m \in group \ unlisted : ~same /\ upstream.match[m] \in Terminal}
    IN  /\ pc[p] = "fetch" /\ job[p].kind = "results" /\ unlisted \subseteq group
        /\ job' = [job EXCEPT ![p].todo = @ \ {d}, ![p].ok = @ \cup {<<d, upstream.body[d]>>},
                              ![p].delta = @ \cup {<<m, upstream.match[m]>> : m \in over}]
        /\ Proceed(p, {d})
        /\ UNCHANGED <<lock, disk, world, faults, evicted>>

(* A request fails.  After a refusal (403, 429) FotMob is not asked again.   *)
FetchFails(p, refused) ==
    LET x    == Min(job[p].todo)
        rest == IF job[p].kind = "results" THEN job[p].todo ELSE job[p].todo \cap FotMob
        lost == IF refused THEN {x} \cup rest ELSE {x}
    IN  /\ pc[p] = "fetch" /\ faults < MaxFaults /\ faults' = faults + 1
        /\ refused => x \in rest
        /\ job' = [job EXCEPT ![p].todo = @ \ lost]
        /\ Proceed(p, lost)
        /\ UNCHANGED <<lock, disk, world, evicted>>

-----------------------------------------------------------------------------
(* Fault: the newer update wins, whatever it says. *)
NewerWins(base, delta) ==
    [m \in Matches |-> IF \E s \in delta : s[1] = m THEN (CHOOSE s \in delta : s[1] = m)[2] ELSE base[m]]

(* mergeCanonicalWarehouseSnapshots: no completed match regresses. *)
Merged(base, delta) ==
    [m \in Matches |-> IF base[m] = "completed" \/ ~\E s \in delta : s[1] = m
                       THEN base[m] ELSE (CHOOSE s \in delta : s[1] = m)[2]]

(* The season job reads the last good snapshot only now.                     *)
Base(p) == IF job[p].kind = "season" THEN manifest ELSE job[p].base

(* The candidate is written as a new version; nothing refers to it yet.      *)
Build(p) ==
    LET v == Min(Unused) IN
    /\ pc[p] = "build" /\ Unused # {}
    /\ versions' = [versions EXCEPT ![v] = Merged(versions[Base(p)], job[p].delta)]
    /\ job' = [job EXCEPT ![p].version = v, ![p].base = Base(p)]
    /\ Goto(p, "publish")
    /\ UNCHANGED <<lock, manifest, season, results, world, faults, evicted>>

(* Fault: the step that may still fail comes after the manifest. *)
PublishThenVerify(p) ==
    /\ pc[p] = "publish"
    /\ manifest' = job[p].version
    /\ Goto(p, IF manifest = job[p].version THEN "record" ELSE "publish")
    /\ UNCHANGED <<lock, versions, season, results, world, job, faults, evicted>>

(* replaceManifestAtomically. *)
Publish(p) ==
    /\ pc[p] = "publish"
    /\ manifest' = job[p].version
    /\ Goto(p, "record")
    /\ UNCHANGED <<lock, versions, season, results, world, job, faults, evicted>>

(* Fault: the outcomes are kept although nothing was published. *)
FailureForgotten(p) ==
    /\ pc[p] \in {"build", "publish"} /\ faults < MaxFaults /\ faults' = faults + 1
    /\ versions' = [v \in 0..MaxVersions |-> IF v = job[p].version THEN None ELSE versions[v]]
    /\ Goto(p, "record")
    /\ UNCHANGED <<lock, manifest, season, results, world, job, evicted>>

(* The publication fails: a version that was begun is removed, and every     *)
(* request of the job counts as failed.                                      *)
PublicationFails(p) ==
    /\ pc[p] \in {"build", "publish"} /\ faults < MaxFaults /\ faults' = faults + 1
    /\ versions' = [v \in 0..MaxVersions |-> IF v = job[p].version THEN None ELSE versions[v]]
    /\ job' = [job EXCEPT ![p].ok = {}, ![p].delta = {}]
    /\ Goto(p, "record")
    /\ UNCHANGED <<lock, manifest, season, results, world, evicted>>

(* The outcome of x among ok, if there is one. *)
Answered(p, x) == \E e \in job[p].ok : e[1] = x
Edition(p, x)  == (CHOOSE e \in job[p].ok : e[1] = x)[2]

(* SeasonHydrationLedger.recordBatch: a complete target keeps its ETag. *)
RecordSeason(p) ==
    /\ pc[p] = "record" /\ job[p].kind = "season"
    /\ season' = [k \in Targets |-> IF Answered(p, k) THEN Edition(p, k) ELSE season[k]]
    /\ Goto(p, "leave")
    /\ UNCHANGED <<lock, versions, manifest, results, world, job, faults, evicted>>

(* FotMobResultLedger.recordBatch: a match whose result was published is     *)
(* ticked off; a date that answered keeps its ETag.                          *)
RecordResults(p) ==
    /\ pc[p] = "record" /\ job[p].kind = "results"
    /\ results' =
         [match |-> [m \in Matches |->
            IF m \in job[p].gone THEN "exhausted"
            ELSE IF m \in {s[1] : s \in job[p].delta} /\ Answered(p, DateOf[m]) THEN "done"
            ELSE results.match[m]],
          etag |-> [d \in Dates |-> IF Answered(p, d) THEN Edition(p, d) ELSE results.etag[d]]]
    /\ Goto(p, "leave")
    /\ UNCHANGED <<lock, versions, manifest, season, world, job, faults, evicted>>

(* The ledger cannot be read or written: the job gives its locks back.       *)
LedgerFails(p) ==
    /\ pc[p] \in {"plan", "record"} /\ faults < MaxFaults /\ faults' = faults + 1
    /\ Goto(p, "leave")
    /\ UNCHANGED <<lock, disk, world, job, evicted>>

(* The process stops; its locks stay behind. *)
Crash(p) ==
    /\ pc[p] # "idle" /\ faults < MaxFaults /\ faults' = faults + 1
    /\ lock' = [l \in Locks |-> IF lock[l] = p THEN Dead ELSE lock[l]]
    /\ Goto(p, "idle") /\ job' = [job EXCEPT ![p] = None]
    /\ UNCHANGED <<disk, world, evicted>>

-----------------------------------------------------------------------------
(* What may become of a match at the provider, between two looks at it. *)
After(status) == CASE status = "scheduled" -> {"live", "postponed", "completed"}
                   [] status = "live"      -> {"completed"}
                   [] status = "postponed" -> {"scheduled"}
                   [] OTHER -> {}

(* The body of its date shows at once what becomes of a match, a season file *)
(* when it is edited.                                                        *)
News ==
    /\ news < MaxNews /\ news' = news + 1
    /\ \/ \E m \in Matches : \E s \in After(upstream.match[m]) :
            upstream' = [upstream EXCEPT !.match[m] = s, !.body[DateOf[m]] = @ + 1]
       \/ \E k \in Targets :
            LET says == [m \in MatchesOf(k) |-> upstream.match[m]] IN
            /\ says # upstream.file[k].says
            /\ upstream' = [upstream EXCEPT !.file[k] = [edition |-> @.edition + 1, says |-> says]]
    /\ UNCHANGED <<lock, disk, pc, job, faults, evicted>>

Next ==
    \/ \E p \in Procs :
        \/ \E kind \in {"season", "results"} : Start(p, kind)
        \/ TakeLock(p) \/ FindStale(p) \/ Unlink(p) \/ Busy(p) \/ Release(p)
        \/ \E aged, paused \in SUBSET Targets : PlanSeason(p, aged, paused)
        \/ \E due, gone \in SUBSET Matches : PlanResults(p, due, gone)
        \/ FetchTarget(p)
        \/ \E unlisted \in SUBSET Matches : FetchDate(p, unlisted)
        \/ \E refused \in BOOLEAN : FetchFails(p, refused)
        \/ Build(p) \/ Publish(p) \/ PublicationFails(p)
        \/ RecordSeason(p) \/ RecordResults(p) \/ LedgerFails(p) \/ Crash(p)
    \/ News

Spec == Init /\ [][Next]_vars

-----------------------------------------------------------------------------
(* What the manifest names is a complete version, whatever publications,      *)
(* failures and stops there are: a failed one removes no published version.   *)
VersionsAreComplete == versions[manifest] # None

(* As long as no running process lost its lock, a publication builds on the   *)
(* published snapshot: no result and no match another job published is lost.  *)
PublishedStays ==
    [][~evicted => \A m \in Matches :
         /\ Published[m] = "completed" => Published'[m] = "completed"
         /\ Published[m] # "absent" => Published'[m] # "absent"]_vars

(* When a season file would answer 304 to its next revalidation, everything   *)
(* it lists is published, and every result it holds.                          *)
NoHiddenSeason ==
    \A k \in Targets : ~evicted /\ season[k] = upstream.file[k].edition =>
        \A m \in MatchesOf(k) :
            LET s == upstream.file[k].says[m] IN
            /\ s # "live" => Published[m] # "absent"
            /\ s = "completed" => Published[m] = "completed"

(* A match is ticked off only with its result in the published snapshot: no   *)
(* failure between fetch, publication and ledger loses one.                   *)
TickedOffWhenPublished ==
    [][~evicted => \A m \in Matches :
         results'.match[m] = "done" /\ results.match[m] # "done" => Published[m] \in Terminal]_vars

(* Concurrent commands do not publish from the same stale base.               *)
BasedOnPublished ==
    [][\A p \in Procs : pc[p] = "publish" /\ pc'[p] = "record" /\ manifest' # manifest
         => job[p].base = manifest]_vars

(* When a date would only answer 304, no result in its body is missing from   *)
(* the snapshot, for a match that is still to be checked.                     *)
NoHiddenResult ==
    \A m \in Matches :
        results.etag[DateOf[m]] = upstream.body[DateOf[m]] /\ Open(m)
        => upstream.match[m] \notin Terminal
=============================================================================
