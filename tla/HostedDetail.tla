---------------------------- MODULE HostedDetail ------------------------------
(***************************************************************************)
(* The detail of one match, fetched because the owner asked for it.  A     *)
(* request of the owner reads the match row, takes two leases in one       *)
(* transaction (the provider's, so that only one detail request is under   *)
(* way, and the match's), asks the provider through the common circuit and *)
(* publishes the answer behind a fence: both leases alive and the row as it*)
(* was.  The rows are written meanwhile by the provider and live refresh.  *)
(*                                                                         *)
(* Abstractions: a row is what the keys of the store tell apart; a body is *)
(* an edition of a source, with the status and kickoff it reports, and its *)
(* ETag is the edition.  Times are the ticks left.  A request that is      *)
(* denied ends without a change.  A row without a source is never asked    *)
(* for and is left out.                                                    *)
(***************************************************************************)
EXTENDS Integers, FiniteSets

CONSTANTS
    Requests,     \* owner requests in flight
    Matches,
    Providers,
    Sources,      \* a provider with its id of the match: what sourceKey tells apart
    ProviderOf,   \* the provider of a source
    Tagged,       \* providers that answer with an ETag
    Kickoffs,
    Lease,        \* 30 seconds
    Spacing,      \* pause of a provider after an answer, 1 second
    Gap,          \* pause of a match after an attempt, 60 seconds
    Refusal,      \* pause after 403 or 429, by provider
    Budget,       \* requests to a provider on one UTC day
    MaxStamps,    \* how often a row is written
    MaxEditions,  \* how many bodies a source serves
    None

ASSUME HostedDetailAssumption ==
    /\ ProviderOf \in [Sources -> Providers] /\ Tagged \subseteq Providers
    /\ {Lease, Spacing, Gap, Budget} \subseteq Nat \ {0}
    /\ {MaxStamps, MaxEditions} \subseteq Nat
    /\ Refusal \in [Providers -> Nat]
    /\ Spacing <= Lease /\ Lease <= Gap
    /\ \A p \in Providers : Gap <= Refusal[p]
    /\ None \notin Requests \cup Matches \cup Sources

VARIABLES
    row,       \* match_record
    cache,     \* match_detail_cache
    control,   \* match_detail_provider_control
    circuit,   \* provider_request_circuit: ticks until a provider may be asked
    body,      \* what each source serves
    pc, job    \* where each request is, and what it carries

vars == <<row, cache, control, circuit, body, pc, job>>

-----------------------------------------------------------------------------
Rows   == [kickoff: Kickoffs, status: {"live", "completed"},
           source: Sources, stamp: 0..MaxStamps]
Bodies == [kickoff: Kickoffs, status: {"live", "completed"}, edition: 0..MaxEditions]

NoDetail == [kickoff |-> None, status |-> None, source |-> None, edition |-> None, stamp |-> None]
Uncached == [detail |-> NoDetail, identity |-> None, source |-> None, etag |-> None,
             holder |-> None, expires |-> 0, next |-> 0, key |-> None]
Unasked  == [holder |-> None, expires |-> 0, next |-> 0, used |-> 0]
NoJob    == [match |-> None, row |-> None, source |-> None, etag |-> None, result |-> None]

(* What the adapters make of a body for a row.  The status is the row's.     *)
Detail(r, s, b) == [kickoff |-> r.kickoff, status |-> r.status, source |-> s,
                    edition |-> b.edition, stamp |-> r.stamp]

(* The adapters refuse another match and a completed match that is not over. *)
Adaptable(r, b) == /\ b.kickoff = r.kickoff
                   /\ r.status = "completed" => b.status = "completed"

Tag(s, b) == IF ProviderOf[s] \in Tagged THEN b.edition ELSE None

Modified(d, etag)  == [kind |-> "modified", detail |-> d, etag |-> etag]
NotModified(etag)  == [kind |-> "not_modified", detail |-> NoDetail, etag |-> etag]
Failed(blocked)    == [kind |-> IF blocked THEN "blocked" ELSE "failed",
                       detail |-> NoDetail, etag |-> None]

SourceOf(q) == job[q].source
Provider(q) == ProviderOf[job[q].source]

-----------------------------------------------------------------------------
TypeOK ==
    /\ \A m \in Matches : row[m] \in Rows /\ cache[m].holder \in Requests \cup {None}
    /\ \A s \in Sources : body[s] \in Bodies
    /\ \A p \in Providers : control[p].used \in 0..Budget
    /\ pc \in [Requests -> {"idle", "acquire", "ask", "finish"}]

Init ==
    /\ \E k \in Kickoffs, first \in [Matches -> Sources] :
           /\ \A m, n \in Matches : first[m] = first[n] => m = n
           /\ row = [m \in Matches |-> [kickoff |-> k, status |-> "live", source |-> first[m], stamp |-> 0]]
           /\ body = [s \in Sources |-> [kickoff |-> k, status |-> "live", edition |-> 0]]
    /\ cache = [m \in Matches |-> Uncached]
    /\ control = [p \in Providers |-> Unasked]
    /\ circuit = [p \in Providers |-> 0]
    /\ pc = [q \in Requests |-> "idle"]
    /\ job = [q \in Requests |-> NoJob]

Goto(q, place, work) ==
    /\ pc' = [pc EXCEPT ![q] = place]
    /\ job' = [job EXCEPT ![q] = work]

Leave(q) == Goto(q, "idle", NoJob)

-----------------------------------------------------------------------------
(* The owner opens a match or asks again: the row is read, its source chosen.*)
Open(q, m) ==
    /\ pc[q] = "idle"
    /\ Goto(q, "acquire", [NoJob EXCEPT !.match = m, !.row = row[m], !.source = row[m].source])
    /\ UNCHANGED <<row, cache, control, circuit, body>>

SameRow(r, m) == row[m] = r

Grantable(p, m, r) ==
    /\ control[p].expires = 0 /\ control[p].next = 0
    /\ control[p].used < Budget
    /\ circuit[p] = 0
    /\ SameRow(r, m)
    /\ cache[m].expires = 0 /\ cache[m].next = 0

(* Fault: whatever detail the ETag belongs to. *)
TagOfSource(m, r, s) == IF cache[m].source = s THEN cache[m].etag ELSE None

(* The ETag goes along only with the detail it belongs to.                   *)
KnownTag(m, r, s) ==
    IF cache[m].identity = r.kickoff /\ cache[m].source = s /\ cache[m].detail # NoDetail
    THEN cache[m].etag ELSE None

Acquire(q) ==
    LET m == job[q].match  r == job[q].row  p == Provider(q)
    IN  /\ pc[q] = "acquire" /\ Grantable(p, m, r)
        /\ control' = [control EXCEPT ![p] = [holder |-> q, expires |-> Lease,
                                             next |-> Spacing, used |-> @.used + 1]]
        /\ cache' = [cache EXCEPT ![m].holder = q, ![m].expires = Lease,
                                  ![m].next = Gap, ![m].key = r]
        /\ Goto(q, "ask", [job[q] EXCEPT !.etag = KnownTag(m, r, SourceOf(q))])
        /\ UNCHANGED <<row, circuit, body>>

Denied(q) ==
    /\ pc[q] = "acquire" /\ ~Grantable(Provider(q), job[q].match, job[q].row)
    /\ Leave(q)
    /\ UNCHANGED <<row, cache, control, circuit, body>>

-----------------------------------------------------------------------------
(* The answer of a source: 304 to its current ETag, otherwise the body,      *)
(* which the adapter may refuse.                                             *)
Answer(q) ==
    LET s == SourceOf(q)  b == body[s]  r == job[q].row
    IN  IF job[q].etag # None /\ job[q].etag = Tag(s, b) THEN NotModified(job[q].etag)
        ELSE IF Adaptable(r, b) THEN Modified(Detail(r, s, b), Tag(s, b))
        ELSE Failed(FALSE)

Answered(q, result) == Goto(q, "finish", [job[q] EXCEPT !.result = result])

Ask(q) ==
    /\ pc[q] = "ask" /\ circuit[Provider(q)] = 0
    /\ Answered(q, Answer(q))
    /\ UNCHANGED <<row, cache, control, circuit, body>>

AskFails(q) ==
    /\ pc[q] = "ask"
    /\ Answered(q, Failed(FALSE))
    /\ UNCHANGED <<row, cache, control, circuit, body>>

(* 403 or 429: the guard writes the circuit before anyone sees the answer.   *)
AskRefused(q) ==
    LET p == Provider(q)
    IN  /\ pc[q] = "ask" /\ circuit[p] = 0
        /\ circuit' = [circuit EXCEPT ![p] = Refusal[p]]
        /\ Answered(q, Failed(TRUE))
        /\ UNCHANGED <<row, cache, control, body>>

-----------------------------------------------------------------------------
HoldsProvider(q) == control[Provider(q)].holder = q /\ control[Provider(q)].expires > 0
HoldsMatch(q)    == cache[job[q].match].holder = q /\ cache[job[q].match].expires > 0

(* Plausible mistakes: a fence of the row or of the leases alone.            *)
FencedByRow(q) ==
    LET m == job[q].match  c == cache[m]  result == job[q].result
    IN  /\ SameRow(job[q].row, m)
        /\ result.kind = "not_modified" =>
               /\ c.detail # NoDetail /\ c.source = SourceOf(q)
               /\ c.etag = result.etag /\ job[q].etag = result.etag

FencedByLease(q) == HoldsProvider(q) /\ HoldsMatch(q) /\ cache[job[q].match].key = job[q].row
                    /\ (job[q].result.kind = "not_modified" => cache[job[q].match].etag = job[q].result.etag)

(* The fence of a publication.                                               *)
MayPublish(q) ==
    LET m == job[q].match  c == cache[m]  result == job[q].result
    IN  /\ HoldsProvider(q) /\ HoldsMatch(q)
        /\ c.key = job[q].row /\ SameRow(job[q].row, m)
        /\ result.kind = "not_modified" =>
               /\ c.detail # NoDetail /\ c.source = SourceOf(q)
               /\ c.etag = result.etag /\ job[q].etag = result.etag

Released(c, pause) == [c EXCEPT !.holder = None, !.expires = 0, !.next = pause]

Stored(c, q) ==
    IF job[q].result.kind = "not_modified" THEN c
    ELSE [c EXCEPT !.detail = job[q].result.detail, !.identity = job[q].row.kickoff,
                   !.source = SourceOf(q), !.etag = job[q].result.etag]

Publish(q) ==
    LET m == job[q].match  p == Provider(q)
    IN  /\ pc[q] = "finish" /\ job[q].result.kind \in {"modified", "not_modified"}
        /\ MayPublish(q)
        /\ cache' = [cache EXCEPT ![m] = [Released(Stored(@, q), Gap) EXCEPT !.key = None]]
        /\ control' = [control EXCEPT ![p] = Released(@, Spacing)]
        /\ Leave(q)
        /\ UNCHANGED <<row, circuit, body>>

(* A failure is noted even if the row has changed: it is about the provider. *)
NoteFailure(q) ==
    LET m == job[q].match  p == Provider(q)
        blocked == job[q].result.kind = "blocked"
    IN  /\ pc[q] = "finish" /\ job[q].result.kind \in {"failed", "blocked"}
        /\ HoldsProvider(q)
        /\ cache' = IF cache[m].holder # q THEN cache
                    ELSE [cache EXCEPT ![m] = [Released(@, IF blocked THEN Refusal[p] ELSE Gap)
                                                  EXCEPT !.key = None]]
        /\ control' = [control EXCEPT ![p] = Released(@, IF blocked THEN Refusal[p] ELSE Spacing)]
        /\ Leave(q)
        /\ UNCHANGED <<row, circuit, body>>

(* The fence refuses, and the leases stay until they expire.                 *)
Discard(q) ==
    /\ pc[q] = "finish"
    /\ IF job[q].result.kind \in {"failed", "blocked"} THEN ~HoldsProvider(q) ELSE ~MayPublish(q)
    /\ Leave(q)
    /\ UNCHANGED <<row, cache, control, circuit, body>>

(* The transaction of a publication is rolled back: a plain failure instead. *)
PublishFails(q) ==
    /\ pc[q] = "finish" /\ job[q].result.kind \in {"modified", "not_modified"}
    /\ Answered(q, Failed(FALSE))
    /\ UNCHANGED <<row, cache, control, circuit, body>>

(* The process that serves a request stops.                                  *)
Crash(q) ==
    /\ pc[q] \in {"ask", "finish"} /\ Leave(q)
    /\ UNCHANGED <<row, cache, control, circuit, body>>

-----------------------------------------------------------------------------
(* What the provider and live refresh make of a row, one change at a time.   *)
Rewritten(r) == {r, [r EXCEPT !.status = "completed"]}
                \cup {[r EXCEPT !.kickoff = k] : k \in Kickoffs}
                \cup {[r EXCEPT !.source = s] : s \in Sources}

WriteRow(m) ==
    /\ row[m].stamp < MaxStamps
    /\ \E r \in Rewritten(row[m]) :
           /\ \A n \in Matches \ {m} : row[n].source # r.source
           /\ row' = [row EXCEPT ![m] = [r EXCEPT !.stamp = @ + 1]]
    /\ UNCHANGED <<cache, control, circuit, body, pc, job>>

(* The source serves a new body.                                             *)
NewBody(s) ==
    /\ body[s].edition < MaxEditions
    /\ \E b \in {[body[s] EXCEPT !.status = "completed"]} \cup {[body[s] EXCEPT !.kickoff = k] : k \in Kickoffs \ {body[s].kickoff}} :
           body' = [body EXCEPT ![s] = [b EXCEPT !.edition = @ + 1]]
    /\ UNCHANGED <<row, cache, control, circuit, pc, job>>

Less(n) == IF n > 0 THEN n - 1 ELSE 0

(* A lease that has expired is as good as none.                              *)
Older(c) == LET left == Less(c.expires)
            IN  [c EXCEPT !.expires = left, !.next = Less(@), !.holder = IF left = 0 THEN None ELSE @]

Tick ==
    /\ cache' = [m \in Matches |-> [Older(cache[m]) EXCEPT !.key = IF Older(cache[m]).expires = 0 THEN None ELSE @]]
    /\ control' = [p \in Providers |-> Older(control[p])]
    /\ circuit' = [p \in Providers |-> Less(circuit[p])]
    /\ <<cache, control, circuit>>' # <<cache, control, circuit>>
    /\ UNCHANGED <<row, body, pc, job>>

(* The UTC day of budget_day is over.                                        *)
NewDay(p) ==
    /\ control[p].used > 0
    /\ control' = [control EXCEPT ![p].used = 0]
    /\ UNCHANGED <<row, cache, circuit, body, pc, job>>

Serve(q) == \/ \E m \in Matches : Open(q, m)
            \/ Acquire(q) \/ Denied(q)
            \/ Ask(q) \/ AskFails(q) \/ AskRefused(q)
            \/ Publish(q) \/ NoteFailure(q) \/ Discard(q) \/ PublishFails(q)
            \/ Crash(q)

Next == \/ \E q \in Requests : Serve(q)
        \/ \E m \in Matches : WriteRow(m)
        \/ \E s \in Sources : NewBody(s)
        \/ \E p \in Providers : NewDay(p)
        \/ Tick

Spec == Init /\ [][Next]_vars

-----------------------------------------------------------------------------
(* A detail is published only from the row it was asked for: while the answer*)
(* was under way nobody wrote the match, and the status the detail carries is*)
(* the row's.                                                                *)
PublishedFromCurrentRow ==
    [][\A m \in Matches :
         cache'[m].detail # cache[m].detail =>
             LET d == cache'[m].detail
             IN  <<d.kickoff, d.status, d.stamp>> = <<row[m].kickoff, row[m].status, row[m].stamp>>]_vars

(* The detail of a match never goes back, neither to an older row nor to an  *)
(* older body of the same source, however long a request was held up.        *)
DetailMovesForward ==
    [][\A m \in Matches :
         LET d == cache[m].detail  e == cache'[m].detail
         IN  d # NoDetail /\ e # d =>
                 /\ e.stamp >= d.stamp
                 /\ e.source = d.source => e.edition >= d.edition]_vars

(* A 304 renews a detail only if it is the detail the source vouched for: of *)
(* the match as it is now planned, from that source, with that ETag.         *)
RenewalIsTrue ==
    [][\A q \in Requests :
         Publish(q) /\ job[q].result.kind = "not_modified" =>
             LET c == cache[job[q].match]
             IN  /\ c.detail.edition = job[q].result.etag
                 /\ c.detail.source = SourceOf(q)
                 /\ c.detail.kickoff = row[job[q].match].kickoff]_vars

(* After a refresh of a completed match succeeded, the cached detail can     *)
(* settle its bets: it says that the match is completed.                     *)
RefreshedDetailIsUsable ==
    [][\A q \in Requests :
         Publish(q) /\ row[job[q].match].status = "completed"
             => cache'[job[q].match].detail.status = "completed"]_vars
=============================================================================
