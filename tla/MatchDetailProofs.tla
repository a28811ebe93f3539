--------------------------- MODULE MatchDetailProofs ---------------------------
(***************************************************************************)
(* Proofs about the two ways to a match detail: HostedDetail, and the files*)
(* of the refresh queue, RefreshQueueStore.                                *)
(*                                                                         *)
(* HostedDetail, for any requests, matches, providers, leases and pauses.  *)
(* A published answer is fenced by the row, so it is of the row as it is.  *)
(* That the body of a source never goes back needs the lease as well: while*)
(* a request holds the match, nobody else publishes, so what is cached is  *)
(* not newer than what the source answered (Leased).  That a 304 renews the*)
(* right detail follows from the ETag being taken along under the same     *)
(* lease.                                                                  *)
(*                                                                         *)
(* RefreshQueueStore, for any matches, pauses and limits.  Who works on the*)
(* files has the lock (HolderHasLock) as long as no two processes remove a *)
(* stale lock at the same time; so nobody else changes the files between   *)
(* the reading of a call and its writing (ViewIsStored), and each of its   *)
(* file operations is the call of RefreshQueue taking effect, or nothing.  *)
(***************************************************************************)
EXTENDS HostedDetail, RefreshQueueStore, TLAPS

Places  == {"idle", "acquire", "ask", "finish"}
Answers == {"modified", "not_modified", "failed", "blocked"}
Details == [kickoff: Kickoffs, status: {"live", "completed"}, source: Sources,
            edition: Nat, stamp: Nat]

Caches  == [detail: Details \cup {NoDetail}, identity: Kickoffs \cup {None},
            source: Sources \cup {None}, etag: Nat \cup {None}, holder: Requests \cup {None},
            expires: Nat, next: Nat, key: Rows \cup {None}]
Results == [kind: Answers, detail: Details \cup {NoDetail}, etag: Nat \cup {None}]
Jobs    == [match: Matches \cup {None}, row: Rows \cup {None}, source: Sources \cup {None},
            etag: Nat \cup {None}, result: Results \cup {None}]

Typed ==
    /\ row \in [Matches -> Rows] /\ body \in [Sources -> Bodies]
    /\ cache \in [Matches -> Caches]
    /\ pc \in [Requests -> Places] /\ job \in [Requests -> Jobs]

(* What a request under way holds: the match as it was read and, once it is  *)
(* answered, what the answer makes of it.                                    *)
Carried(j, place) ==
    /\ place # "idle" => j.match \in Matches /\ j.row \in Rows /\ j.source \in Sources
    /\ place = "finish" =>
         /\ j.result \in Results
         /\ j.result.kind = "not_modified" => j.result.etag # None
         /\ j.result.kind = "modified" =>
              LET d == j.result.detail
              IN  /\ d \in Details /\ d.source = j.source
                  /\ <<d.kickoff, d.status, d.stamp>> = <<j.row.kickoff, j.row.status, j.row.stamp>>
                  /\ j.result.etag \in {None, d.edition}
                  /\ d.edition <= body[j.source].edition

(* A cached detail is kept with its source, its match and its ETag, and is   *)
(* not newer than the row and the body it is of.                             *)
Kept(m) ==
    LET c == cache[m]  d == c.detail
    IN  d # NoDetail =>
            /\ d.source = c.source /\ d.kickoff = c.identity /\ c.etag \in {None, d.edition}
            /\ d.edition <= body[d.source].edition
            /\ d.stamp <= row[m].stamp

(* While a request holds the match, the detail is the one whose ETag it took *)
(* along, and not newer than what its source answered.                       *)
Leased(q) ==
    LET j == job[q]  c == cache[j.match]
    IN  pc[q] \in {"ask", "finish"} /\ c.holder = q =>
            /\ j.etag # None => c.identity = j.row.kickoff
            /\ pc[q] = "finish" /\ j.result.kind = "modified"
                 /\ c.detail # NoDetail /\ c.detail.source = j.source
               => c.detail.edition <= j.result.detail.edition

Inv == /\ Typed
       /\ \A q \in Requests : Carried(job[q], pc[q])
       /\ \A m \in Matches : Kept(m)
       /\ \A q \in Requests : Leased(q)

-----------------------------------------------------------------------------
LEMMA Fields ==
    ASSUME Inv
    PROVE  /\ \A q \in Requests : job[q] \in Jobs /\ pc[q] \in Places /\ Carried(job[q], pc[q])
           /\ \A m \in Matches : cache[m] \in Caches /\ row[m] \in Rows /\ Kept(m)
           /\ \A s \in Sources : body[s] \in Bodies
           /\ NoJob \in Jobs
  BY DEF Inv, Typed, Jobs, NoJob

(* What the lease of work allows to be published. *)
Allowed(q, work, place) ==
    LET c == cache[work.match]
    IN  place \in {"ask", "finish"} /\ c.holder = q =>
            /\ work.etag # None => c.identity = work.row.kickoff
            /\ place = "finish" /\ work.result.kind = "modified"
                 /\ c.detail # NoDetail /\ c.detail.source = work.source
               => c.detail.edition <= work.result.detail.edition

(* A step of one request that leaves rows, bodies and the cache alone. *)
LEMMA Moves ==
    ASSUME Inv, NEW q \in Requests, NEW place \in Places, NEW work \in Jobs,
           Goto(q, place, work), UNCHANGED <<row, body, cache>>,
           Carried(work, place), Allowed(q, work, place)
    PROVE  Inv'
  <1>1. /\ pc' \in [Requests -> Places] /\ job' \in [Requests -> Jobs]
        /\ pc'[q] = place /\ job'[q] = work
        /\ \A r \in Requests \ {q} : pc'[r] = pc[r] /\ job'[r] = job[r]
    BY DEF Goto, Inv, Typed
  <1>2. Typed'
    BY <1>1 DEF Inv, Typed
  <1>3. \A r \in Requests : Carried(job[r], pc[r])'
    BY <1>1 DEF Inv, Carried
  <1>4. \A m \in Matches : Kept(m)'
    BY DEF Inv, Kept
  <1>5. \A r \in Requests : Leased(r)'
    BY <1>1 DEF Inv, Leased, Allowed
  <1> QED
    BY <1>2, <1>3, <1>4, <1>5 DEF Inv

LEMMA LeaveStep ==
    ASSUME Inv, NEW q \in Requests, Leave(q), UNCHANGED <<row, body, cache>>
    PROVE  Inv'
  <1>1. Carried(NoJob, "idle") /\ Allowed(q, NoJob, "idle")
    BY DEF Carried, Allowed
  <1> QED
    BY <1>1, Fields, Moves DEF Leave, Places

LEMMA OpenStep ==
    ASSUME Inv, NEW q \in Requests, NEW m \in Matches, Open(q, m)
    PROVE  Inv'
  <1> DEFINE work == [NoJob EXCEPT !.match = m, !.row = row[m], !.source = row[m].source]
  <1>1. row[m] \in Rows /\ row[m].source \in Sources
    BY Fields DEF Rows
  <1>2. work \in Jobs /\ Carried(work, "acquire") /\ Allowed(q, work, "acquire")
    BY <1>1 DEF Jobs, NoJob, Carried, Allowed
  <1> QED
    BY <1>2, Moves DEF Open, Places

(* An answer is of the body the source serves now. *)
LEMMA AnswerIsOfBody ==
    ASSUME Inv, NEW q \in Requests, pc[q] = "ask"
    PROVE  LET work == [job[q] EXCEPT !.result = Answer(q)]
           IN  work \in Jobs /\ Carried(work, "finish") /\ Allowed(q, work, "finish")
  <1> DEFINE j == job[q]
             b == body[j.source]
             d == Detail(j.row, j.source, b)
             work == [j EXCEPT !.result = Answer(q)]
  <1>1. /\ j \in Jobs /\ j.match \in Matches /\ j.row \in Rows /\ j.source \in Sources
        /\ b \in Bodies
    BY Fields DEF Carried
  <1>2. /\ d \in Details /\ d.source = j.source /\ d.edition = b.edition
        /\ <<d.kickoff, d.status, d.stamp>> = <<j.row.kickoff, j.row.status, j.row.stamp>>
    BY <1>1 DEF Detail, Details, Rows, Bodies
  <1>3. Tag(j.source, b) \in {None, d.edition} /\ d.edition \in Nat
    BY <1>2 DEF Tag, Details
  <1>4. \/ Answer(q) = NotModified(j.etag) /\ j.etag # None
        \/ Answer(q) = Modified(d, Tag(j.source, b))
        \/ Answer(q) = Failed(FALSE)
    BY DEF Answer, SourceOf
  <1>5. Answer(q) \in Results
    BY <1>1, <1>2, <1>3, <1>4 DEF Results, Answers, NotModified, Modified, Failed, Jobs
  <1>6. /\ work \in Jobs /\ work.match = j.match /\ work.row = j.row /\ work.source = j.source
        /\ work.etag = j.etag /\ work.result = Answer(q)
    BY <1>1, <1>5 DEF Jobs
  <1> HIDE DEF work, d
  <1>7. CASE Answer(q) = NotModified(j.etag) /\ j.etag # None
    <2>1. Carried(work, "finish")
      BY <1>1, <1>5, <1>6, <1>7 DEF Carried, NotModified
    <2>2. Allowed(q, work, "finish")
      BY <1>1, <1>6, <1>7 DEF Allowed, NotModified, Inv, Leased
    <2> QED
      BY <1>6, <2>1, <2>2 DEF work
  <1>8. CASE Answer(q) = Modified(d, Tag(j.source, b))
    <2>1. Carried(work, "finish")
      <3>1. d.edition <= b.edition
        BY <1>2, <1>3
      <3> QED
        BY <1>1, <1>2, <1>3, <1>5, <1>6, <1>8, <3>1 DEF Carried, Modified
    <2>2. Allowed(q, work, "finish")
      <3>1. cache[j.match].detail # NoDetail /\ cache[j.match].detail.source = j.source
              => cache[j.match].detail.edition <= d.edition
        BY <1>1, <1>2 DEF Inv, Kept
      <3> QED
        BY <1>1, <1>6, <1>8, <3>1 DEF Allowed, Modified, Inv, Leased
    <2> QED
      BY <1>6, <2>1, <2>2 DEF work
  <1>9. CASE Answer(q) = Failed(FALSE)
    BY <1>1, <1>5, <1>6, <1>9 DEF work, Carried, Allowed, Failed, Inv, Leased
  <1> QED
    BY <1>4, <1>7, <1>8, <1>9

LEMMA AskStep ==
    ASSUME Inv, NEW q \in Requests,
           Ask(q) \/ AskFails(q) \/ AskRefused(q) \/ PublishFails(q)
    PROVE  Inv'
  <1>1. UNCHANGED <<row, body, cache>>
    BY DEF Ask, AskFails, AskRefused, PublishFails
  <1>2. ASSUME NEW blocked \in BOOLEAN, pc[q] \in {"ask", "finish"}, Answered(q, Failed(blocked))
        PROVE  Inv'
    <2> DEFINE work == [job[q] EXCEPT !.result = Failed(blocked)]
    <2>1. /\ job[q] \in Jobs /\ job[q].match \in Matches /\ job[q].row \in Rows
          /\ job[q].source \in Sources
      BY <1>2, Fields DEF Carried
    <2>2. Failed(blocked) \in Results /\ Failed(blocked).kind \in {"blocked", "failed"}
      BY DEF Failed, Results, Answers
    <2>3. /\ work \in Jobs /\ work.match = job[q].match /\ work.row = job[q].row
          /\ work.source = job[q].source /\ work.etag = job[q].etag /\ work.result = Failed(blocked)
      BY <2>1, <2>2 DEF Jobs
    <2> HIDE DEF work
    <2>4. Carried(work, "finish") /\ Allowed(q, work, "finish")
      BY <1>2, <2>1, <2>2, <2>3 DEF Carried, Allowed, Inv, Leased
    <2> QED
      BY <1>1, <1>2, <2>3, <2>4, Moves DEF Answered, Places, work
  <1>3. CASE Ask(q)
    BY <1>1, <1>3, AnswerIsOfBody, Moves DEF Ask, Answered, Places
  <1> QED
    BY <1>2, <1>3 DEF Ask, AskFails, AskRefused, PublishFails

-----------------------------------------------------------------------------
(* The part of a cache row that is published. *)
Published(c) == <<c.detail, c.identity, c.source, c.etag>>

(* Leases are taken, given back or expire; nothing is published. *)
LEMMA Relet ==
    ASSUME Inv, UNCHANGED <<row, body>>, cache' \in [Matches -> Caches],
           \A m \in Matches : Published(cache'[m]) = Published(cache[m]),
           pc' \in [Requests -> Places], job' \in [Requests -> Jobs],
           \A q \in Requests : Carried(job'[q], pc'[q]),
           \A q \in Requests :
               \/ /\ pc'[q] = pc[q] /\ job'[q] = job[q]
                  /\ job[q].match \in Matches
                  /\ cache'[job[q].match].holder = q => cache[job[q].match].holder = q
               \/ pc'[q] \notin {"ask", "finish"}
               \/ /\ pc'[q] = "ask" /\ job'[q].match \in Matches
                  /\ job'[q].etag # None => cache[job'[q].match].identity = job'[q].row.kickoff
    PROVE  Inv'
  <1>1. Typed'
    BY DEF Inv, Typed
  <1>2. \A q \in Requests : Carried(job[q], pc[q])'
    BY DEF Carried
  <1>3. \A m \in Matches : Kept(m)'
    BY DEF Published, Inv, Kept
  <1>4. \A m \in Matches : /\ cache'[m].detail = cache[m].detail
                           /\ cache'[m].identity = cache[m].identity
    BY DEF Published
  <1>5. ASSUME NEW q \in Requests PROVE Leased(q)'
    <2>1. CASE /\ pc'[q] = pc[q] /\ job'[q] = job[q]
               /\ job[q].match \in Matches
               /\ cache'[job[q].match].holder = q => cache[job[q].match].holder = q
      BY <1>4, <2>1 DEF Inv, Leased
    <2>2. CASE pc'[q] \notin {"ask", "finish"}
      BY <2>2 DEF Leased
    <2>3. CASE /\ pc'[q] = "ask" /\ job'[q].match \in Matches
               /\ job'[q].etag # None => cache[job'[q].match].identity = job'[q].row.kickoff
      BY <1>4, <2>3 DEF Leased
    <2> QED
      BY <2>1, <2>2, <2>3
  <1> QED
    BY <1>1, <1>2, <1>3, <1>5 DEF Inv

LEMMA AcquireStep ==
    ASSUME Inv, NEW q \in Requests, Acquire(q)
    PROVE  Inv' /\ \A m \in Matches : cache'[m].detail = cache[m].detail
  <1> DEFINE m == job[q].match
             r == job[q].row
             tag == KnownTag(m, r, SourceOf(q))
             work == [job[q] EXCEPT !.etag = tag]
  <1>1. /\ job[q] \in Jobs /\ m \in Matches /\ r \in Rows /\ SourceOf(q) \in Sources
        /\ pc[q] = "acquire" /\ cache[m] \in Caches
    BY Fields DEF Acquire, Carried, SourceOf
  <1>2. tag \in Nat \cup {None} /\ (tag # None => cache[m].identity = r.kickoff)
    BY <1>1 DEF KnownTag, Caches
  <1>3. /\ work \in Jobs /\ work.match = m /\ work.row = r /\ work.source = SourceOf(q)
        /\ work.etag = tag
    <2> HIDE DEF tag
    <2> QED
      BY <1>1, <1>2 DEF Jobs, SourceOf
  <1>4. Goto(q, "ask", work)
    BY DEF Acquire
  <1> HIDE DEF work
  <1>5. /\ cache' \in [Matches -> Caches]
        /\ \A n \in Matches : Published(cache'[n]) = Published(cache[n])
        /\ \A n \in Matches \ {m} : cache'[n] = cache[n]
        /\ cache'[m].holder = q
    <2>1. cache' = [cache EXCEPT ![m] = [cache[m] EXCEPT !.holder = q, !.expires = Lease,
                                                       !.next = Gap, !.key = r]]
      BY DEF Acquire
    <2>2. /\ [cache[m] EXCEPT !.holder = q, !.expires = Lease, !.next = Gap, !.key = r] \in Caches
          /\ Published([cache[m] EXCEPT !.holder = q, !.expires = Lease, !.next = Gap, !.key = r])
               = Published(cache[m])
          /\ [cache[m] EXCEPT !.holder = q, !.expires = Lease, !.next = Gap, !.key = r].holder = q
      BY <1>1, HostedDetailAssumption DEF Caches, Published
    <2> QED
      BY <1>1, <2>1, <2>2 DEF Inv, Typed
  <1>6. /\ pc' \in [Requests -> Places] /\ job' \in [Requests -> Jobs]
        /\ pc'[q] = "ask" /\ job'[q] = work
        /\ \A p \in Requests \ {q} : pc'[p] = pc[p] /\ job'[p] = job[p]
    BY <1>3, <1>4 DEF Goto, Inv, Typed, Places
  <1>7. \A p \in Requests : Carried(job'[p], pc'[p])
    <2>1. Carried(work, "ask")
      BY <1>1, <1>3 DEF Carried
    <2> QED
      BY <1>6, <2>1 DEF Inv
  <1>8. ASSUME NEW p \in Requests \ {q}
        PROVE  \/ /\ pc'[p] = pc[p] /\ job'[p] = job[p] /\ job[p].match \in Matches
                  /\ cache'[job[p].match].holder = p => cache[job[p].match].holder = p
               \/ pc'[p] \notin {"ask", "finish"}
    <2>1. CASE pc[p] \in {"ask", "finish"}
      <3>1. job[p].match \in Matches
        BY <2>1, Fields DEF Carried
      <3> QED
        BY <1>5, <1>6, <3>1
    <2>2. CASE pc[p] \notin {"ask", "finish"}
      BY <1>6, <2>2
    <2> QED
      BY <2>1, <2>2
  <1>9. UNCHANGED <<row, body>>
    BY DEF Acquire
  <1>10. \A p \in Requests :
           \/ /\ pc'[p] = pc[p] /\ job'[p] = job[p] /\ job[p].match \in Matches
              /\ cache'[job[p].match].holder = p => cache[job[p].match].holder = p
           \/ pc'[p] \notin {"ask", "finish"}
           \/ /\ pc'[p] = "ask" /\ job'[p].match \in Matches
              /\ job'[p].etag # None => cache[job'[p].match].identity = job'[p].row.kickoff
    BY <1>1, <1>2, <1>3, <1>6, <1>8
  <1>11. Inv'
    BY <1>5, <1>6, <1>7, <1>9, <1>10, Relet
  <1> QED
    BY <1>5, <1>11 DEF Published

(* Rows of the cache that are given back. *)
LEMMA ReleasedTyped ==
    ASSUME NEW c \in Caches, NEW pause \in Nat
    PROVE  LET d == [Released(c, pause) EXCEPT !.key = None]
           IN  d \in Caches /\ Published(d) = Published(c) /\ d.holder = None
  BY DEF Released, Caches, Published

LEMMA NoteFailureStep ==
    ASSUME Inv, NEW q \in Requests, NoteFailure(q)
    PROVE  Inv' /\ \A m \in Matches : cache'[m].detail = cache[m].detail
  <1> DEFINE m == job[q].match
  <1>1. job[q] \in Jobs /\ m \in Matches /\ job[q].source \in Sources /\ cache[m] \in Caches
    BY Fields DEF NoteFailure, Carried
  <1>2. PICK pause \in Nat :
            cache' = IF cache[m].holder # q THEN cache
                     ELSE [cache EXCEPT ![m] = [Released(cache[m], pause) EXCEPT !.key = None]]
    <2>1. Refusal[Provider(q)] \in Nat /\ Gap \in Nat
      BY <1>1, HostedDetailAssumption DEF Provider
    <2> QED
      BY <2>1 DEF NoteFailure
  <1>3. /\ cache' \in [Matches -> Caches]
        /\ \A n \in Matches : Published(cache'[n]) = Published(cache[n])
        /\ \A n \in Matches : cache'[n].holder \in {cache[n].holder, None}
    BY <1>1, <1>2, ReleasedTyped DEF Inv, Typed
  <1>4. /\ pc' \in [Requests -> Places] /\ job' \in [Requests -> Jobs]
        /\ pc'[q] = "idle" /\ job'[q] = NoJob
        /\ \A p \in Requests \ {q} : pc'[p] = pc[p] /\ job'[p] = job[p]
    BY Fields DEF NoteFailure, Leave, Goto, Inv, Typed, Places
  <1>5. \A p \in Requests : Carried(job'[p], pc'[p])
    BY <1>4 DEF Inv, Carried
  <1>6. \A p \in Requests :
           \/ /\ pc'[p] = pc[p] /\ job'[p] = job[p] /\ job[p].match \in Matches
              /\ cache'[job[p].match].holder = p => cache[job[p].match].holder = p
           \/ pc'[p] \notin {"ask", "finish"}
    BY <1>3, <1>4, Fields, HostedDetailAssumption DEF Carried
  <1>7. UNCHANGED <<row, body>>
    BY DEF NoteFailure
  <1>8. Inv'
    BY <1>3, <1>4, <1>5, <1>6, <1>7, Relet
  <1> QED
    BY <1>3, <1>8 DEF Published

LEMMA TickStep ==
    ASSUME Inv, Tick
    PROVE  Inv' /\ \A m \in Matches : cache'[m].detail = cache[m].detail
  <1>1. ASSUME NEW m \in Matches
        PROVE  /\ cache'[m] \in Caches /\ Published(cache'[m]) = Published(cache[m])
               /\ cache'[m].holder \in {cache[m].holder, None}
    <2>1. cache[m] \in Caches
      BY Fields
    <2>2. Older(cache[m]) \in Caches /\ Published(Older(cache[m])) = Published(cache[m])
          /\ Older(cache[m]).holder \in {cache[m].holder, None}
      <3>1. Less(cache[m].expires) \in Nat /\ Less(cache[m].next) \in Nat
        BY <2>1 DEF Less, Caches
      <3>2. PICK left \in Nat, next \in Nat, holder \in {cache[m].holder, None} :
               Older(cache[m]) = [cache[m] EXCEPT !.expires = left, !.next = next, !.holder = holder]
        BY <3>1 DEF Older
      <3> QED
        BY <2>1, <3>2 DEF Caches, Published
    <2>3. PICK key \in {Older(cache[m]).key, None} :
             cache'[m] = [Older(cache[m]) EXCEPT !.key = key]
      BY DEF Tick
    <2> QED
      BY <2>2, <2>3 DEF Caches, Published
  <1>2. cache' \in [Matches -> Caches]
    BY <1>1 DEF Tick
  <1>3. UNCHANGED <<row, body, pc, job>>
    BY DEF Tick
  <1>4. \A p \in Requests :
           \/ /\ pc'[p] = pc[p] /\ job'[p] = job[p] /\ job[p].match \in Matches
              /\ cache'[job[p].match].holder = p => cache[job[p].match].holder = p
           \/ pc'[p] \notin {"ask", "finish"}
    BY <1>1, <1>3, Fields, HostedDetailAssumption DEF Carried
  <1>5. Inv'
    BY <1>1, <1>2, <1>3, <1>4, Relet DEF Inv, Typed
  <1> QED
    BY <1>1, <1>5 DEF Published

(* What a publication makes of the row: the answer, or nothing but a pause.  *)
LEMMA StoredRow ==
    ASSUME Inv, NEW q \in Requests, Publish(q)
    PROVE  LET j == job[q]  c == cache[j.match]  e == cache'[j.match]
           IN  /\ j.match \in Matches /\ j.row = row[j.match] /\ j.source \in Sources
               /\ cache' \in [Matches -> Caches] /\ e.holder = None
               /\ \A n \in Matches \ {j.match} : cache'[n] = cache[n]
               /\ \/ j.result.kind = "not_modified" /\ Published(e) = Published(c)
                  \/ /\ j.result.kind = "modified"
                     /\ Published(e) = <<j.result.detail, j.row.kickoff, j.source, j.result.etag>>
  <1> DEFINE j == job[q]
             m == j.match
             c == cache[m]
  <1>1. /\ j \in Jobs /\ m \in Matches /\ j.row \in Rows /\ j.source \in Sources
        /\ j.result \in Results /\ c \in Caches /\ pc[q] = "finish"
    BY Fields DEF Publish, Carried
  <1>2. j.row = row[m]
    BY DEF Publish, MayPublish, SameRow
  <1>3. /\ Stored(c, q) \in Caches
        /\ \/ j.result.kind = "not_modified" /\ Published(Stored(c, q)) = Published(c)
           \/ /\ j.result.kind = "modified"
              /\ Published(Stored(c, q)) = <<j.result.detail, j.row.kickoff, j.source, j.result.etag>>
    <2>1. CASE j.result.kind = "not_modified"
      BY <1>1, <2>1 DEF Stored
    <2>2. CASE j.result.kind = "modified"
      <3>1. Stored(c, q) = [c EXCEPT !.detail = j.result.detail, !.identity = j.row.kickoff,
                                     !.source = j.source, !.etag = j.result.etag]
        BY <2>2 DEF Stored, SourceOf
      <3>2. /\ j.result.detail \in Details \cup {NoDetail} /\ j.result.etag \in Nat \cup {None}
            /\ j.row.kickoff \in Kickoffs
        BY <1>1 DEF Results, Rows
      <3> QED
        BY <1>1, <2>2, <3>1, <3>2 DEF Caches, Published
    <2> QED
      BY <2>1, <2>2 DEF Publish
  <1>4. cache' = [cache EXCEPT ![m] = [Released(Stored(c, q), Gap) EXCEPT !.key = None]]
    BY DEF Publish
  <1>5. Gap \in Nat
    BY HostedDetailAssumption
  <1> DEFINE e == [Released(Stored(c, q), Gap) EXCEPT !.key = None]
  <1>6. e \in Caches /\ Published(e) = Published(Stored(c, q)) /\ e.holder = None
    BY <1>3, <1>5, ReleasedTyped
  <1> HIDE DEF e
  <1>7. /\ cache' \in [Matches -> Caches] /\ cache'[m] = e
        /\ \A n \in Matches \ {m} : cache'[n] = cache[n]
    BY <1>1, <1>4, <1>6 DEF e, Inv, Typed
  <1> QED
    BY <1>1, <1>2, <1>3, <1>6, <1>7

LEMMA PublishStep ==
    ASSUME Inv, NEW q \in Requests, Publish(q)
    PROVE  Inv'
  <1>0. PICK m \in Matches, j \in Jobs : j = job[q] /\ m = j.match
    BY StoredRow, Fields
  <1>1. /\ j.row = row[m] /\ j.source \in Sources
        /\ cache' \in [Matches -> Caches] /\ cache'[m].holder = None
        /\ \A n \in Matches \ {m} : cache'[n] = cache[n]
    BY <1>0, StoredRow
  <1>2. /\ pc' \in [Requests -> Places] /\ job' \in [Requests -> Jobs]
        /\ pc'[q] = "idle"
        /\ \A p \in Requests \ {q} : pc'[p] = pc[p] /\ job'[p] = job[p]
    BY Fields DEF Publish, Leave, Goto, Inv, Typed, Places
  <1>3. UNCHANGED <<row, body>>
    BY DEF Publish
  <1>4. Typed'
    BY <1>1, <1>2, <1>3 DEF Inv, Typed
  <1>5. \A p \in Requests : Carried(job[p], pc[p])'
    BY <1>2, <1>3 DEF Inv, Carried
  <1>6. Kept(m)'
    <2>1. CASE Published(cache'[m]) = Published(cache[m])
      BY <1>1, <1>3, <2>1 DEF Published, Inv, Kept
    <2>2. CASE /\ j.result.kind = "modified"
               /\ Published(cache'[m]) = <<j.result.detail, j.row.kickoff, j.source, j.result.etag>>
      <3>1. pc[q] = "finish" /\ Carried(j, "finish")
        BY <1>0, Fields DEF Publish
      <3>2. /\ j.result.detail \in Details /\ j.result.detail.source = j.source
            /\ j.result.detail.stamp = row[m].stamp
            /\ j.result.detail.kickoff = j.row.kickoff
            /\ j.result.etag \in {None, j.result.detail.edition}
            /\ j.result.detail.edition <= body[j.source].edition
        BY <1>1, <2>2, <3>1 DEF Carried
      <3>3. row[m].stamp \in Nat
        BY <1>1, Fields DEF Rows
      <3>4. /\ cache'[m].detail = j.result.detail /\ cache'[m].identity = j.row.kickoff
            /\ cache'[m].source = j.source /\ cache'[m].etag = j.result.etag
        BY <2>2 DEF Published
      <3> QED
        BY <1>3, <3>2, <3>3, <3>4 DEF Kept
    <2> QED
      BY <1>0, <2>1, <2>2, StoredRow
  <1>7. \A n \in Matches : Kept(n)'
    BY <1>1, <1>3, <1>6 DEF Inv, Kept
  <1>8. ASSUME NEW p \in Requests PROVE Leased(p)'
    <2>1. CASE pc'[p] \in {"ask", "finish"} /\ cache'[job[p].match].holder = p
      <3>1. p # q /\ job'[p] = job[p] /\ pc'[p] = pc[p] /\ job[p].match \in Matches
        BY <1>2, <2>1, Fields DEF Carried
      <3>2. job[p].match # m
        BY <1>1, <2>1, HostedDetailAssumption
      <3>3. cache'[job[p].match] = cache[job[p].match]
        BY <1>1, <3>1, <3>2
      <3> QED
        BY <3>1, <3>3 DEF Inv, Leased
    <2>2. CASE ~(pc'[p] \in {"ask", "finish"} /\ cache'[job[p].match].holder = p)
      <3>1. pc'[p] \in {"ask", "finish"} => job'[p] = job[p]
        BY <1>2
      <3> QED
        BY <2>2, <3>1 DEF Leased
    <2> QED
      BY <2>1, <2>2
  <1> QED
    BY <1>4, <1>5, <1>7, <1>8 DEF Inv

-----------------------------------------------------------------------------
(* Rows and bodies are written anew, with a later stamp or edition. *)
LEMMA WriteRowStep ==
    ASSUME Inv, NEW m \in Matches, WriteRow(m)
    PROVE  Inv' /\ UNCHANGED cache
  <1>1. UNCHANGED <<cache, body, pc, job>>
    BY DEF WriteRow
  <1>2. PICK r \in Rewritten(row[m]) : row' = [row EXCEPT ![m] = [r EXCEPT !.stamp = @ + 1]]
    BY DEF WriteRow
  <1>3. row[m] \in Rows /\ row[m].stamp + 1 \in 0..MaxStamps
    BY Fields, HostedDetailAssumption DEF WriteRow, Rows
  <1>4. r \in Rows /\ r.stamp = row[m].stamp
    BY <1>3 DEF Rewritten, Rows
  <1>5. /\ row' \in [Matches -> Rows] /\ row'[m].stamp = row[m].stamp + 1
        /\ \A n \in Matches \ {m} : row'[n] = row[n]
    <2>1. [r EXCEPT !.stamp = @ + 1] \in Rows /\ [r EXCEPT !.stamp = @ + 1].stamp = row[m].stamp + 1
      <3>1. r.stamp + 1 \in 0..MaxStamps
        BY <1>3, <1>4
      <3> QED
        BY <1>4, <3>1 DEF Rows
    <2> QED
      BY <1>2, <2>1 DEF Inv, Typed
  <1>6. ASSUME NEW n \in Matches PROVE Kept(n)'
    <2>1. row[n].stamp \in Nat /\ row'[n].stamp \in Nat /\ row[n].stamp <= row'[n].stamp
      BY <1>3, <1>5, Fields DEF Rows
    <2>2. cache[n] \in Caches
      BY Fields
    <2>3. cache[n].detail # NoDetail => cache[n].detail.stamp \in Nat
      BY <2>2 DEF Caches, Details
    <2> QED
      BY <1>1, <2>1, <2>3 DEF Inv, Kept
  <1> QED
    BY <1>1, <1>5, <1>6 DEF Inv, Typed, Leased, Carried

LEMMA NewBodyStep ==
    ASSUME Inv, NEW s \in Sources, NewBody(s)
    PROVE  Inv' /\ UNCHANGED cache
  <1>1. UNCHANGED <<cache, row, pc, job>>
    BY DEF NewBody
  <1>2. body[s] \in Bodies /\ body[s].edition + 1 \in 0..MaxEditions
    BY Fields, HostedDetailAssumption DEF NewBody, Bodies
  <1>3. PICK b \in Bodies : /\ b.edition = body[s].edition
                            /\ body' = [body EXCEPT ![s] = [b EXCEPT !.edition = @ + 1]]
    BY <1>2 DEF NewBody, Bodies
  <1>4. /\ body' \in [Sources -> Bodies] /\ body'[s].edition = body[s].edition + 1
        /\ \A r \in Sources \ {s} : body'[r] = body[r]
    <2>1. /\ [b EXCEPT !.edition = @ + 1] \in Bodies
          /\ [b EXCEPT !.edition = @ + 1].edition = body[s].edition + 1
      <3>1. b.edition + 1 \in 0..MaxEditions
        BY <1>2, <1>3
      <3> QED
        BY <1>3, <3>1 DEF Bodies
    <2> QED
      BY <1>3, <2>1 DEF Inv, Typed
  <1>5. \A r \in Sources : /\ body[r].edition \in Nat /\ body'[r].edition \in Nat
                           /\ body[r].edition <= body'[r].edition
    BY <1>2, <1>4, Fields DEF Bodies
  <1>6. ASSUME NEW n \in Matches PROVE Kept(n)'
    <2>1. cache[n] \in Caches
      BY Fields
    <2>2. cache[n].detail # NoDetail =>
            cache[n].detail.edition \in Nat /\ cache[n].detail.source \in Sources
      BY <2>1 DEF Caches, Details
    <2> QED
      BY <1>1, <1>5, <2>2 DEF Inv, Kept
  <1>7. ASSUME NEW q \in Requests PROVE Carried(job[q], pc[q])'
    <2>1. Carried(job[q], pc[q])
      BY Fields
    <2>2. pc[q] = "finish" /\ job[q].result.kind = "modified" =>
            /\ job[q].source \in Sources /\ job[q].result.detail.edition \in Nat
            /\ job[q].result.detail.edition <= body'[job[q].source].edition
      BY <1>5, <2>1 DEF Carried, Details
    <2> QED
      BY <1>1, <2>1, <2>2 DEF Carried
  <1> QED
    BY <1>1, <1>4, <1>6, <1>7 DEF Inv, Typed, Leased

-----------------------------------------------------------------------------
(* Inv is inductive, and only a publication changes a detail. *)
LEMMA Step ==
    ASSUME Inv, [Next]_vars
    PROVE  /\ Inv'
           /\ \A m \in Matches :
                cache'[m].detail = cache[m].detail \/ \E q \in Requests : Publish(q)
  <1>1. CASE \E q \in Requests : Serve(q)
    <2>1. PICK q \in Requests : Serve(q)
      BY <1>1
    <2>2. CASE \E m \in Matches : Open(q, m)
      BY <2>2, OpenStep DEF Open
    <2>3. CASE Denied(q) \/ Discard(q) \/ Crash(q)
      BY <2>3, LeaveStep DEF Denied, Discard, Crash
    <2>4. CASE Ask(q) \/ AskFails(q) \/ AskRefused(q) \/ PublishFails(q)
      BY <2>4, AskStep DEF Ask, AskFails, AskRefused, PublishFails
    <2>5. CASE Acquire(q) \/ NoteFailure(q) \/ Publish(q)
      BY <2>5, AcquireStep, NoteFailureStep, PublishStep
    <2> QED
      BY <2>1, <2>2, <2>3, <2>4, <2>5 DEF Serve
  <1>2. CASE (\E m \in Matches : WriteRow(m)) \/ (\E s \in Sources : NewBody(s)) \/ Tick
    BY <1>2, WriteRowStep, NewBodyStep, TickStep
  <1>3. CASE (\E p \in Providers : NewDay(p)) \/ UNCHANGED vars
    <2>1. UNCHANGED <<row, body, cache, pc, job>>
      BY <1>3 DEF NewDay, vars
    <2> QED
      BY <2>1 DEF Inv, Typed, Carried, Kept, Leased
  <1> QED
    BY <1>1, <1>2, <1>3 DEF Next

LEMMA InitInv == Init => Inv
  <1> SUFFICES ASSUME Init PROVE Inv
    OBVIOUS
  <1>1. PICK k \in Kickoffs, first \in [Matches -> Sources] :
          /\ row = [m \in Matches |-> [kickoff |-> k, status |-> "live", source |-> first[m], stamp |-> 0]]
          /\ body = [s \in Sources |-> [kickoff |-> k, status |-> "live", edition |-> 0]]
    BY DEF Init
  <1>2. row \in [Matches -> Rows] /\ body \in [Sources -> Bodies]
    BY <1>1, HostedDetailAssumption DEF Rows, Bodies
  <1>3. Uncached \in Caches /\ Uncached.detail = NoDetail /\ NoJob \in Jobs
    BY DEF Uncached, Caches, NoJob, Jobs
  <1>4. Typed
    BY <1>2, <1>3 DEF Init, Typed, Places
  <1> QED
    BY <1>3, <1>4 DEF Init, Inv, Carried, Kept, Leased

LEMMA Invariance == Spec => []Inv
  BY InitInv, Step, PTL DEF Spec

(* What a step that changes a detail published. *)
LEMMA ChangedDetail ==
    ASSUME Inv, [Next]_vars, NEW m \in Matches, cache'[m].detail # cache[m].detail
    PROVE  \E q \in Requests :
             LET j == job[q]
             IN  /\ pc[q] = "finish" /\ j.match = m /\ j.row = row[m] /\ cache[m].holder = q
                 /\ j.result.kind = "modified" /\ cache'[m].detail = j.result.detail
  <1>1. PICK q \in Requests : Publish(q)
    BY Step
  <1>2. job[q].match = m /\ job[q].row = row[m]
    BY <1>1, StoredRow
  <1>3. job[q].result.kind = "modified" /\ cache'[m].detail = job[q].result.detail
    BY <1>1, <1>2, StoredRow DEF Published
  <1>4. pc[q] = "finish" /\ cache[m].holder = q
    BY <1>1, <1>2 DEF Publish, MayPublish, HoldsMatch
  <1> QED
    BY <1>2, <1>3, <1>4

(* A detail is published only from the row it was asked for, of any number of*)
(* requests, whoever else writes the row while the answer is under way.      *)
THEOREM FencedPublication == Spec => PublishedFromCurrentRow
  <1>1. Inv /\ [Next]_vars =>
          [\A m \in Matches :
             cache'[m].detail # cache[m].detail =>
                 LET d == cache'[m].detail
                 IN  <<d.kickoff, d.status, d.stamp>>
                       = <<row[m].kickoff, row[m].status, row[m].stamp>>]_vars
    <2> SUFFICES ASSUME Inv, [Next]_vars, NEW m \in Matches,
                        cache'[m].detail # cache[m].detail
                 PROVE  LET d == cache'[m].detail
                        IN  <<d.kickoff, d.status, d.stamp>>
                              = <<row[m].kickoff, row[m].status, row[m].stamp>>
      OBVIOUS
    <2>1. PICK q \in Requests :
             /\ pc[q] = "finish" /\ job[q].row = row[m]
             /\ job[q].result.kind = "modified" /\ cache'[m].detail = job[q].result.detail
      BY ChangedDetail
    <2> QED
      BY <2>1, Fields DEF Carried
  <1> QED
    BY <1>1, Invariance, PTL DEF Spec, PublishedFromCurrentRow

(* The detail of a match never goes back to an older row or to an older body *)
(* of its source, for any leases and however long a request is held up.      *)
THEOREM DetailNeverGoesBack == Spec => DetailMovesForward
  <1>1. Inv /\ [Next]_vars =>
          [\A m \in Matches :
             LET d == cache[m].detail  e == cache'[m].detail
             IN  d # NoDetail /\ e # d =>
                     /\ e.stamp >= d.stamp
                     /\ e.source = d.source => e.edition >= d.edition]_vars
    <2> SUFFICES ASSUME Inv, [Next]_vars, NEW m \in Matches,
                        cache[m].detail # NoDetail, cache'[m].detail # cache[m].detail
                 PROVE  LET d == cache[m].detail  e == cache'[m].detail
                        IN  /\ e.stamp >= d.stamp
                            /\ e.source = d.source => e.edition >= d.edition
      OBVIOUS
    <2>1. PICK q \in Requests :
             /\ pc[q] = "finish" /\ job[q].match = m /\ job[q].row = row[m]
             /\ cache[m].holder = q
             /\ job[q].result.kind = "modified" /\ cache'[m].detail = job[q].result.detail
      BY ChangedDetail
    <2>2. /\ cache'[m].detail \in Details /\ cache'[m].detail.stamp = row[m].stamp
          /\ cache'[m].detail.source = job[q].source
      BY <2>1, Fields DEF Carried
    <2>3. cache[m].detail.stamp <= row[m].stamp /\ cache[m].detail \in Details
      BY Fields DEF Kept, Caches
    <2>4. cache[m].detail.source = job[q].source
            => cache[m].detail.edition <= cache'[m].detail.edition
      BY <2>1 DEF Inv, Leased
    <2> QED
      BY <2>2, <2>3, <2>4 DEF Details
  <1> QED
    BY <1>1, Invariance, PTL DEF Spec, DetailMovesForward

(* A 304 renews only the detail the source vouched for: of the kickoff the   *)
(* row has, from that source, with that ETag.                                *)
THEOREM RenewedDetailIsVouchedFor == Spec => RenewalIsTrue
  <1>1. Inv /\ [Next]_vars =>
          [\A q \in Requests :
             Publish(q) /\ job[q].result.kind = "not_modified" =>
                 LET c == cache[job[q].match]
                 IN  /\ c.detail.edition = job[q].result.etag
                     /\ c.detail.source = SourceOf(q)
                     /\ c.detail.kickoff = row[job[q].match].kickoff]_vars
    <2> SUFFICES ASSUME Inv, NEW q \in Requests, Publish(q),
                        job[q].result.kind = "not_modified"
                 PROVE  LET c == cache[job[q].match]
                        IN  /\ c.detail.edition = job[q].result.etag
                            /\ c.detail.source = SourceOf(q)
                            /\ c.detail.kickoff = row[job[q].match].kickoff
      OBVIOUS
    <2> DEFINE m == job[q].match
               c == cache[m]
    <2>1. pc[q] = "finish" /\ m \in Matches /\ job[q].result.etag # None
      BY Fields DEF Publish, Carried
    <2>2. /\ c.holder = q /\ job[q].row = row[m] /\ c.detail # NoDetail
          /\ c.source = SourceOf(q) /\ c.etag = job[q].result.etag
          /\ job[q].etag = job[q].result.etag
      BY DEF Publish, MayPublish, HoldsMatch, SameRow
    <2>3. c.detail.source = c.source /\ c.detail.kickoff = c.identity
          /\ c.etag \in {None, c.detail.edition}
      BY <2>1, <2>2 DEF Inv, Kept
    <2>4. c.identity = job[q].row.kickoff
      BY <2>1, <2>2 DEF Inv, Leased
    <2> QED
      BY <2>1, <2>2, <2>3, <2>4
  <1> QED
    BY <1>1, Invariance, PTL DEF Spec, RenewalIsTrue

-----------------------------------------------------------------------------
(* A process that has the lock is somewhere here, a stopped one aside.       *)
Holding == {"opened", "read", "recover", "write", "refused", "moved", "replaced",
            "written", "failing", "unlocking", "abandoning"}
Waiting == {"idle", "locking", "stealing"}

(* No two processes take over a lock at the same time.                       *)
SoleTaker == \A p, q \in Procs : step[p] = "stealing" /\ step[q] = "stealing" => p = q

LockTyped ==
    /\ step \in [Procs -> Waiting \cup Holding \cup {"stopped"}]
    /\ lock \in LockFile \cup {Missing}

(* Who works on the files has the lock, and has written it.                  *)
HolderHasLock ==
    \A p \in Procs : step[p] \in Holding => lock = [owner |-> p, written |-> step[p] # "opened"]

(* A lock is of a process that works on the files, or worked on them when it *)
(* stopped.                                                                  *)
LockHasHolder == lock # Missing => step[lock.owner] \in Holding \cup {"stopped"}

(* A lock is taken from a stopped process only.                              *)
TakenFromStopped ==
    \A p \in Procs : step[p] = "stealing" => lock # Missing /\ step[lock.owner] = "stopped"

LockInv == LockTyped /\ HolderHasLock /\ LockHasHolder /\ TakenFromStopped

-----------------------------------------------------------------------------
CallRecord == [what : Calls, at : Nat]

StoreTyped ==
    /\ now \in Nat
    /\ main \in QueueState \cup {Missing} /\ backup \in QueueState \cup {Missing}
    /\ call \in [Procs -> CallRecord \cup {Missing}]
    /\ view \in [Procs -> QueueState \cup {Missing}]
    /\ \A p \in Procs : step[p] \notin {"idle", "stopped"} => call[p] \in CallRecord

(* A call under way writes what it makes of the items as they are.           *)
ViewIsStored ==
    \A p \in Procs : step[p] \in {"recover", "write", "refused", "moved"} =>
        /\ view[p] \in QueueState
        /\ call[p].what.do = "clear" \/ view[p] = StoredItems

(* Which files there are while a call replaces them.                         *)
FilesFollow ==
    \A p \in Procs :
        /\ step[p] = "recover" => main = Missing /\ backup # Missing
        /\ step[p] = "refused" => main # Missing
        /\ step[p] = "moved" => main = Missing /\ backup # Missing
        /\ step[p] = "replaced" => main # Missing

FilesInv == StoreTyped /\ ViewIsStored /\ FilesFollow

-----------------------------------------------------------------------------
(* The steps that leave the lock file and go on working on the files.        *)
Working(p) ==
    \/ ReadState(p) \/ Clear(p) \/ Recover(p) \/ Skip(p) \/ Replace(p) \/ WriteFails(p)
    \/ ReplaceRefused(p) \/ MoveAway(p) \/ MoveIn(p) \/ DropBackup(p)

LEMMA WorkingGoesOn ==
    ASSUME LockInv, NEW p \in Procs, Working(p)
    PROVE  /\ step[p] \in Holding \ {"opened"} /\ UNCHANGED lock
           /\ \E to \in Holding \ {"opened"} : step' = [step EXCEPT ![p] = to]
  <1> USE DEF GoOn, files, Holding
  <1>1. CASE ReadState(p)
    <2>1. CASE main = Missing /\ backup # Missing
      BY <1>1, <2>1 DEF ReadState
    <2>2. CASE ~(main = Missing /\ backup # Missing)
      BY <1>1, <2>2 DEF ReadState
    <2> QED
      BY <2>1, <2>2
  <1>2. CASE Clear(p)
    BY <1>2 DEF Clear
  <1>3. CASE Recover(p)
    BY <1>3 DEF Recover
  <1>4. CASE Skip(p) \/ Replace(p) \/ WriteFails(p) \/ ReplaceRefused(p)
    BY <1>4 DEF Skip, Replace, WriteFails, ReplaceRefused
  <1>5. CASE MoveAway(p)
    BY <1>5 DEF MoveAway
  <1>6. CASE MoveIn(p) \/ DropBackup(p)
    BY <1>6 DEF MoveIn, DropBackup
  <1> QED
    BY <1>1, <1>2, <1>3, <1>4, <1>5, <1>6 DEF Working

LEMMA LockStep ==
    ASSUME LockInv, SoleTaker, [StoreNext]_storeVars
    PROVE  LockInv'
  <1> USE RefreshStoreAssumption DEF LockFile
  <1> USE DEF LockInv, LockTyped, HolderHasLock, LockHasHolder, TakenFromStopped
  <1>0. \A q \in Procs, b \in BOOLEAN : [owner |-> q, written |-> b] # Missing
    OBVIOUS
  <1>1. ASSUME NEW p \in Procs, Begin(p)
        PROVE  LockInv'
    BY <1>1 DEF Begin, GoOn, Holding, Waiting
  <1>2. ASSUME NEW p \in Procs, OpenLock(p)
        PROVE  LockInv'
    <2>1. step[p] = "locking" /\ lock = Missing
      BY <1>2 DEF OpenLock
    <2>2. \A q \in Procs : step[q] \notin Holding /\ step[q] # "stealing"
      BY <1>0, <2>1
    <2>3. /\ lock' = [owner |-> p, written |-> FALSE]
          /\ step' = [step EXCEPT ![p] = "opened"]
      BY <1>2 DEF OpenLock, GoOn
    <2>4. LockTyped'
      BY <2>3 DEF Holding, Waiting
    <2>5. HolderHasLock' /\ LockHasHolder' /\ TakenFromStopped'
      BY <2>2, <2>3 DEF Holding
    <2> QED
      BY <2>4, <2>5
  <1>3. ASSUME NEW p \in Procs, WriteLock(p)
        PROVE  LockInv'
    <2>1. lock = [owner |-> p, written |-> FALSE]
      BY <1>3 DEF WriteLock, Holding
    <2>2. /\ lock' = [owner |-> p, written |-> TRUE]
          /\ step' = [step EXCEPT ![p] = "read"]
      BY <1>3, <2>1 DEF WriteLock, GoOn
    <2>3. \A q \in Procs : q # p => step[q] \notin Holding /\ step[q] # "stealing"
      <3>1. step[p] # "stopped"
        BY <1>3 DEF WriteLock
      <3> QED
        BY <2>1, <3>1
    <2>4. LockTyped'
      BY <2>2 DEF Holding, Waiting
    <2>5. HolderHasLock' /\ LockHasHolder' /\ TakenFromStopped'
      BY <2>2, <2>3 DEF Holding
    <2> QED
      BY <2>4, <2>5
  <1>4. ASSUME NEW p \in Procs, Examine(p)
        PROVE  LockInv'
    BY <1>4 DEF Examine, Stale, Alive, GoOn, Holding, Waiting
  <1>5. ASSUME NEW p \in Procs, Steal(p)
        PROVE  LockInv'
    BY <1>5 DEF Steal, SoleTaker, GoOn, Holding, Waiting
  <1>6. ASSUME NEW p \in Procs, TimeOut(p)
        PROVE  LockInv'
    BY <1>6 DEF TimeOut, GoOn, Holding, Waiting
  <1>7. ASSUME NEW p \in Procs, Working(p)
        PROVE  LockInv'
    BY <1>7, WorkingGoesOn DEF Holding, Waiting
  <1>8. ASSUME NEW p \in Procs, Release(p)
        PROVE  LockInv'
    <2>1. lock = [owner |-> p, written |-> TRUE]
      BY <1>8 DEF Release, Holding
    <2>2. CASE step[p] = "written"
      BY <1>8, <2>1, <2>2 DEF Release, GoOn, Holding, Waiting
    <2>3. CASE step[p] = "failing"
      BY <1>8, <2>1, <2>3 DEF Release, GoOn, Holding, Waiting
    <2> QED
      BY <1>8, <2>2, <2>3 DEF Release
  <1>9. ASSUME NEW p \in Procs, Unlock(p)
        PROVE  LockInv'
    BY <1>9 DEF Unlock, LeaveCall, GoOn, Holding, Waiting
  <1>10. ASSUME NEW p \in Procs, StopProcess(p)
         PROVE  LockInv'
    BY <1>10 DEF StopProcess, GoOn, Holding, Waiting
  <1>11. ASSUME Clock \/ UNCHANGED storeVars
         PROVE  LockInv'
    BY <1>11 DEF Clock, storeVars
  <1> QED
    BY <1>1, <1>2, <1>3, <1>4, <1>5, <1>6, <1>7, <1>8, <1>9, <1>10, <1>11
      DEF StoreNext, Working

LEMMA LockInit ==
    StoreInit => LockInv
  BY DEF StoreInit, LockInv, LockTyped, HolderHasLock, LockHasHolder, TakenFromStopped,
         Holding, Waiting

LEMMA LockIsUsed ==
    LockInv => LockIsInUse
  <1> SUFFICES ASSUME LockInv PROVE LockIsInUse
    OBVIOUS
  <1>1. OneHolder
    <2> SUFFICES ASSUME NEW p \in Procs, NEW q \in Procs,
                        {step[p], step[q]} \cap {"idle", "locking", "stealing", "stopped"} = {}
                 PROVE  p = q
      BY DEF OneHolder
    <2>1. step[p] \in Holding /\ step[q] \in Holding
      BY DEF LockInv, LockTyped, Waiting
    <2> QED
      BY <2>1 DEF LockInv, HolderHasLock
  <1>2. lock # Missing /\ Alive(lock.owner) => step[lock.owner] \in Holding
    BY DEF LockInv, LockHasHolder, Alive
  <1> QED
    BY <1>1, <1>2 DEF LockIsInUse, Holding

(* With no more than two processes there is one taker: the owner is stopped. *)
LEMMA TwoTakeInTurn ==
    ASSUME \A p, q, r \in Procs : p = q \/ q = r \/ p = r
    PROVE  LockInv => SoleTaker
  BY DEF LockInv, LockTyped, TakenFromStopped, SoleTaker, LockFile

-----------------------------------------------------------------------------
LEMMA InitialTyped ==
    Initial \in QueueState /\ Initial # Missing
  BY RefreshQueueAssumption DEF Initial, QueueState

(* Every call makes items of items.                                          *)
LEMMA ApplyTyped ==
    ASSUME NEW q \in QueueState, NEW c \in Calls, NEW at \in Nat
    PROVE  Apply(q, c, at) \in QueueState /\ Apply(q, c, at) # Missing
  <1> DEFINE Some == Item \cup {Missing}
  <1>0. /\ ProcessingLease \in Nat /\ Delay \in Nat
        /\ \A m \in MatchIds : q[m] \in Some
    BY RefreshQueueAssumption DEF QueueState
  <1>1. \A m \in MatchIds, pause \in BOOLEAN :
          q[m] # Missing => Later(q[m], pause, at) \in Nat
    BY <1>0 DEF Later, Item
  <1>2. New(at) \in Some
    BY DEF New, Item
  <1>3. Enqueue(q, c.of, at) \in QueueState
    BY <1>0, <1>2 DEF Enqueue, QueueState
  <1>4. MarkProcessing(q, c.of, at) \in QueueState
    BY <1>0 DEF MarkProcessing, Known, QueueState, Item
  <1>5. MarkCompleted(q, c.of, at) \in QueueState
    BY <1>0 DEF MarkCompleted, Known, QueueState, Item
  <1>6. \A pause \in BOOLEAN : MarkDeferred(q, c.of, pause, at) \in QueueState
    BY <1>0, <1>1 DEF MarkDeferred, Known, QueueState, Item
  <1>7. \A pause, terminal \in BOOLEAN : MarkFailed(q, c.of, pause, terminal, at) \in QueueState
    BY <1>0, <1>1 DEF MarkFailed, Known, QueueState, Item
  <1>8. PruneCompleted(q, at) \in QueueState
    BY <1>0 DEF PruneCompleted, QueueState
  <1>9. Apply(q, c, at) \in QueueState
    <2>1. CASE c.do = "deferred"
      BY <1>6, <2>1 DEF Apply, Calls
    <2>2. CASE c.do = "failed"
      BY <1>7, <2>2 DEF Apply, Calls
    <2>3. CASE c.do \in {"enqueue", "processing", "completed", "prune", "clear"}
      BY <1>3, <1>4, <1>5, <1>8, <2>3, InitialTyped DEF Apply
    <2> QED
      BY <2>1, <2>2, <2>3 DEF Calls
  <1> QED
    BY <1>9, RefreshQueueAssumption

(* clear makes the same of whatever items there are.                         *)
LEMMA ClearForgets ==
    ASSUME NEW q, NEW r, NEW c, NEW at, c.do = "clear"
    PROVE  Apply(q, c, at) = Apply(r, c, at)
  BY DEF Apply

(* What a call is about to write.                                            *)
LEMMA ResultOfStored ==
    ASSUME LockInv, FilesInv, NEW p \in Procs, step[p] \in {"write", "moved"}
    PROVE  /\ Result(p) \in QueueState /\ Result(p) # Missing
           /\ Result(p) = Apply(StoredItems, call[p].what, call[p].at)
  <1>1. /\ view[p] \in QueueState /\ call[p].what \in Calls /\ call[p].at \in Nat
        /\ call[p].what.do = "clear" \/ view[p] = StoredItems
    BY DEF FilesInv, StoreTyped, ViewIsStored, CallRecord
  <1> QED
    BY <1>1, ApplyTyped, ClearForgets DEF Result

LEMMA WorksAlone ==
    ASSUME LockInv, NEW p \in Procs, step[p] \in Holding
    PROVE  \A q \in Procs : q # p => step[q] \notin Holding
  BY DEF LockInv, HolderHasLock

LEMMA FilesStep ==
    ASSUME LockInv, FilesInv, SpuriousRefusals = FALSE, [StoreNext]_storeVars
    PROVE  FilesInv'
  <1> USE DEF FilesInv, StoreTyped, ViewIsStored, FilesFollow
  <1> USE DEF GoOn, files, Holding
  <1>0. step \in [Procs -> Waiting \cup Holding \cup {"stopped"}]
    BY DEF LockInv, LockTyped
  <1>1. ASSUME NEW p \in Procs, Begin(p)
       PROVE  FilesInv'
    BY <1>0, <1>1 DEF Begin, CallRecord, StoredItems
  <1>2. ASSUME NEW p \in Procs, OpenLock(p)
       PROVE  FilesInv'
    BY <1>0, <1>2 DEF OpenLock, StoredItems
  <1>3. ASSUME NEW p \in Procs, WriteLock(p)
       PROVE  FilesInv'
    BY <1>0, <1>3 DEF WriteLock, StoredItems
  <1>4. ASSUME NEW p \in Procs, Examine(p)
       PROVE  FilesInv'
    BY <1>0, <1>4 DEF Examine, StoredItems
  <1>5. ASSUME NEW p \in Procs, Steal(p)
       PROVE  FilesInv'
    BY <1>0, <1>5 DEF Steal, StoredItems
  <1>6. ASSUME NEW p \in Procs, TimeOut(p)
       PROVE  FilesInv'
    BY <1>0, <1>6 DEF TimeOut, StoredItems
  <1>7. ASSUME NEW p \in Procs, ReadState(p)
       PROVE  FilesInv'
    <2>1. \A q \in Procs : q # p => step[q] \notin Holding
      BY <1>7, WorksAlone DEF ReadState
    <2> QED
      BY <1>0, <1>7, <2>1, ResultOfStored, InitialTyped DEF ReadState, StoredItems
  <1>8. ASSUME NEW p \in Procs, Clear(p)
       PROVE  FilesInv'
    <2>1. \A q \in Procs : q # p => step[q] \notin Holding
      BY <1>8, WorksAlone DEF Clear
    <2> QED
      BY <1>0, <1>8, <2>1, ResultOfStored, InitialTyped DEF Clear, StoredItems
  <1>9. ASSUME NEW p \in Procs, Recover(p)
       PROVE  FilesInv'
    <2>1. \A q \in Procs : q # p => step[q] \notin Holding
      BY <1>9, WorksAlone DEF Recover
    <2> QED
      BY <1>0, <1>9, <2>1, ResultOfStored, InitialTyped DEF Recover, StoredItems
  <1>10. ASSUME NEW p \in Procs, Skip(p)
       PROVE  FilesInv'
    <2>1. \A q \in Procs : q # p => step[q] \notin Holding
      BY <1>10, WorksAlone DEF Skip
    <2> QED
      BY <1>0, <1>10, <2>1, ResultOfStored, InitialTyped DEF Skip, StoredItems
  <1>11. ASSUME NEW p \in Procs, Replace(p)
       PROVE  FilesInv'
    <2>1. \A q \in Procs : q # p => step[q] \notin Holding
      BY <1>11, WorksAlone DEF Replace
    <2> QED
      BY <1>0, <1>11, <2>1, ResultOfStored, InitialTyped DEF Replace, StoredItems
  <1>12. ASSUME NEW p \in Procs, WriteFails(p)
       PROVE  FilesInv'
    <2>1. \A q \in Procs : q # p => step[q] \notin Holding
      BY <1>12, WorksAlone DEF WriteFails
    <2> QED
      BY <1>0, <1>12, <2>1, ResultOfStored, InitialTyped DEF WriteFails, StoredItems
  <1>13. ASSUME NEW p \in Procs, ReplaceRefused(p)
       PROVE  FilesInv'
    <2>1. \A q \in Procs : q # p => step[q] \notin Holding
      BY <1>13, WorksAlone DEF ReplaceRefused
    <2> QED
      BY <1>0, <1>13, <2>1, ResultOfStored, InitialTyped DEF ReplaceRefused, StoredItems
  <1>14. ASSUME NEW p \in Procs, MoveAway(p)
       PROVE  FilesInv'
    <2>1. \A q \in Procs : q # p => step[q] \notin Holding
      BY <1>14, WorksAlone DEF MoveAway
    <2> QED
      BY <1>0, <1>14, <2>1, ResultOfStored, InitialTyped DEF MoveAway, StoredItems
  <1>15. ASSUME NEW p \in Procs, MoveIn(p)
       PROVE  FilesInv'
    <2>1. \A q \in Procs : q # p => step[q] \notin Holding
      BY <1>15, WorksAlone DEF MoveIn
    <2> QED
      BY <1>0, <1>15, <2>1, ResultOfStored, InitialTyped DEF MoveIn, StoredItems
  <1>16. ASSUME NEW p \in Procs, DropBackup(p)
       PROVE  FilesInv'
    <2>1. \A q \in Procs : q # p => step[q] \notin Holding
      BY <1>16, WorksAlone DEF DropBackup
    <2> QED
      BY <1>0, <1>16, <2>1, ResultOfStored, InitialTyped DEF DropBackup, StoredItems
  <1>17. ASSUME NEW p \in Procs, Release(p)
       PROVE  FilesInv'
    BY <1>0, <1>17 DEF Release, LeaveCall, StoredItems
  <1>18. ASSUME NEW p \in Procs, Unlock(p)
       PROVE  FilesInv'
    BY <1>0, <1>18 DEF Unlock, LeaveCall, StoredItems
  <1>19. ASSUME NEW p \in Procs, StopProcess(p)
       PROVE  FilesInv'
    BY <1>0, <1>19 DEF StopProcess, StoredItems
  <1>20. ASSUME Clock \/ UNCHANGED storeVars
         PROVE  FilesInv'
    BY <1>0, <1>20 DEF Clock, storeVars, StoredItems
  <1> QED
    BY <1>1, <1>2, <1>3, <1>4, <1>5, <1>6, <1>7, <1>8, <1>9, <1>10, <1>11, <1>12, <1>13, <1>14, <1>15, <1>16, <1>17, <1>18, <1>19, <1>20 DEF StoreNext

-----------------------------------------------------------------------------
(* Where a call stands for its caller: it asked, it has its result, it is    *)
(* over.                                                                     *)
Askeds == [p \in Procs |-> Asked(p)]

(* RefreshQueue means the same calls.                                        *)
LEMMA PromisedCalls ==
    /\ Promised!Calls = Calls /\ Promised!Initial = Initial
    /\ \A q, c, at : Promised!Apply(q, c, at) = Apply(q, c, at)
  BY DEF Promised!Calls, Calls, Promised!Batches, Batches, Promised!Initial, Initial,
         Promised!Apply, Apply, Promised!Enqueue, Enqueue, Promised!New, New,
         Promised!MarkProcessing, MarkProcessing, Promised!Known, Known,
         Promised!MarkCompleted, MarkCompleted, Promised!MarkDeferred, MarkDeferred,
         Promised!Later, Later, Promised!MarkFailed, MarkFailed,
         Promised!PruneCompleted, PruneCompleted

(* What a step is for RefreshQueue.                                          *)
LEMMA StepKeepsPromise ==
    ASSUME LockInv, FilesInv, SpuriousRefusals = FALSE, [StoreNext]_storeVars
    PROVE  [Promised!Next]_<<StoredItems, Askeds, now>>
  <1> USE RefreshStoreAssumption DEF GoOn, files
  <1>0. /\ step \in [Procs -> Waiting \cup Holding \cup {"stopped"}]
        /\ call \in [Procs -> CallRecord \cup {Missing}]
    BY DEF LockInv, LockTyped, FilesInv, StoreTyped
  <1>a. \A c \in Calls, at \in Nat, done \in BOOLEAN : [what |-> c, at |-> at, done |-> done] # Missing
    OBVIOUS
  <1>b. \A p \in Procs : call[p] \in CallRecord => call[p].what \in Calls /\ call[p].at \in Nat
    BY DEF CallRecord
  <1>c. \A p \in Procs : step[p] \notin {"idle", "stopped"} =>
          Askeds[p] = [what |-> call[p].what, at |-> call[p].at,
                       done |-> step[p] \in {"replaced", "written", "unlocking"}]
    BY DEF Askeds, Asked
  <1>1. ASSUME NEW p \in Procs, Begin(p)
        PROVE  Promised!Ask(p)
    <2>1. PICK c \in Calls : call' = [call EXCEPT ![p] = [what |-> c, at |-> now]]
      BY <1>1 DEF Begin
    <2>2. Askeds[p] = Missing
      BY <1>1 DEF Begin, Askeds, Asked
    <2>3. Askeds' = [Askeds EXCEPT ![p] = [what |-> c, at |-> now, done |-> FALSE]]
      <3>1. step' = [step EXCEPT ![p] = "locking"]
        BY <1>1 DEF Begin
      <3>2. Asked(p)' = [what |-> c, at |-> now, done |-> FALSE]
        <4>1. (step'[p] \in {"replaced", "written", "unlocking"}) = FALSE
          BY <1>0, <3>1
        <4> QED
          BY <1>0, <2>1, <3>1, <4>1 DEF Asked
      <3>3. \A q \in Procs : q # p => Asked(q)' = Asked(q)
        BY <1>0, <2>1, <3>1 DEF Asked
      <3> QED
        BY <3>2, <3>3 DEF Askeds
    <2>4. UNCHANGED <<StoredItems, now>>
      BY <1>1 DEF Begin, StoredItems
    <2> QED
      BY <2>2, <2>3, <2>4, PromisedCalls DEF Promised!Ask, Askeds
  <1>2. ASSUME NEW p \in Procs, OpenLock(p) \/ WriteLock(p) \/ Examine(p) \/ Steal(p)
        PROVE  UNCHANGED <<StoredItems, Askeds, now>>
    BY <1>0, <1>2 DEF OpenLock, WriteLock, Examine, Steal, StoredItems, Askeds, Asked
  <1>3. ASSUME NEW p \in Procs, TimeOut(p) \/ Unlock(p) \/ StopProcess(p)
        PROVE  Promised!End(p)
    <2>1. /\ step[p] \notin {"idle", "stopped"} /\ call[p] \in CallRecord
          /\ step'[p] \in {"idle", "stopped"}
          /\ \A q \in Procs : q # p => step'[q] = step[q] /\ call'[q] = call[q]
          /\ UNCHANGED <<StoredItems, now>>
      BY <1>0, <1>3
        DEF TimeOut, Unlock, StopProcess, LeaveCall, StoredItems, FilesInv, StoreTyped
    <2>2. Askeds[p] # Missing
      <3>1. (step[p] \in {"replaced", "written", "unlocking"}) \in BOOLEAN
        OBVIOUS
      <3> QED
        BY <1>a, <1>b, <1>c, <2>1, <3>1
    <2>3. Askeds' = [Askeds EXCEPT ![p] = Missing]
      BY <2>1 DEF Askeds, Asked
    <2> QED
      BY <2>1, <2>2, <2>3 DEF Promised!End, Askeds
  <1>4. ASSUME NEW p \in Procs, ReadState(p) \/ Clear(p) \/ WriteFails(p)
        PROVE  UNCHANGED <<StoredItems, Askeds, now>>
    BY <1>0, <1>4 DEF ReadState, Clear, WriteFails, StoredItems, Askeds, Asked
  <1>5. ASSUME NEW p \in Procs, Recover(p) \/ ReplaceRefused(p) \/ MoveAway(p) \/ DropBackup(p)
        PROVE  UNCHANGED <<StoredItems, Askeds, now>>
    <2>1. UNCHANGED <<StoredItems, now>>
      BY <1>5 DEF Recover, ReplaceRefused, MoveAway, DropBackup, StoredItems, FilesInv, FilesFollow
    <2>2. UNCHANGED Askeds
      BY <1>0, <1>5 DEF Recover, ReplaceRefused, MoveAway, DropBackup, Askeds, Asked,
                        FilesInv, FilesFollow
    <2> QED
      BY <2>1, <2>2
  <1>6. ASSUME NEW p \in Procs, Skip(p) \/ Replace(p) \/ MoveIn(p)
        PROVE  Promised!Perform(p) \/ UNCHANGED <<StoredItems, Askeds, now>>
    <2>1. /\ step[p] \in {"write", "moved"} /\ call[p] \in CallRecord
          /\ UNCHANGED <<call, now>>
      BY <1>6 DEF Skip, Replace, MoveIn, FilesInv, StoreTyped
    <2>2. /\ Result(p) # Missing
          /\ Result(p) = Apply(StoredItems, call[p].what, call[p].at)
      BY <2>1, ResultOfStored
    <2>3. Askeds[p] = [what |-> call[p].what, at |-> call[p].at, done |-> FALSE]
      <3>1. (step[p] \in {"replaced", "written", "unlocking"}) = FALSE
        BY <2>1
      <3> QED
        BY <1>c, <2>1, <3>1
    <2>4. ASSUME StoredItems' = Result(p), step' = [step EXCEPT ![p] = "written"]
                                           \/ step' = [step EXCEPT ![p] = "replaced"]
          PROVE  Promised!Perform(p)
      <3>1. Askeds' = [Askeds EXCEPT ![p] = [what |-> Askeds[p].what, at |-> Askeds[p].at,
                                             done |-> TRUE]]
        BY <1>0, <2>1, <2>3, <2>4 DEF Askeds, Asked
      <3>2. Askeds[p] # Missing /\ ~Askeds[p].done
        <4>1. [what |-> call[p].what, at |-> call[p].at, done |-> FALSE] # Missing
          BY <1>a, <1>b, <2>1
        <4>2. Askeds[p].done = FALSE
          BY <2>3
        <4> QED
          BY <2>3, <4>1, <4>2
      <3>3. StoredItems' = Apply(StoredItems, Askeds[p].what, Askeds[p].at)
        BY <2>2, <2>3, <2>4
      <3> QED
        BY <2>1, <3>1, <3>2, <3>3, PromisedCalls DEF Promised!Perform, Askeds
    <2>5. CASE Skip(p)
      <3>1. Result(p) = view[p] /\ call[p].what.do # "clear"
        BY <2>5 DEF Skip, IsModified
      <3>2. view[p] = StoredItems
        BY <2>5, <3>1 DEF Skip, FilesInv, ViewIsStored
      <3>3. StoredItems' = StoredItems /\ step' = [step EXCEPT ![p] = "written"]
        BY <2>5 DEF Skip, StoredItems
      <3> QED
        BY <2>4, <3>1, <3>2, <3>3
    <2>6. CASE Replace(p)
      BY <2>2, <2>4, <2>6 DEF Replace, StoredItems
    <2>7. CASE MoveIn(p)
      <3>1. main = Missing /\ backup # Missing
        BY <2>7 DEF MoveIn, FilesInv, FilesFollow
      <3>2. CASE step' = [step EXCEPT ![p] = "replaced"] /\ main' = Result(p)
        BY <2>2, <2>4, <3>2 DEF StoredItems
      <3>3. CASE step' = [step EXCEPT ![p] = "failing"] /\ main' = backup
        <4>1. UNCHANGED StoredItems
          BY <3>1, <3>3 DEF StoredItems
        <4>2. UNCHANGED Askeds
          BY <1>0, <2>1, <3>3 DEF Askeds, Asked
        <4> QED
          BY <2>1, <4>1, <4>2
      <3> QED
        BY <2>7, <3>2, <3>3 DEF MoveIn
    <2> QED
      BY <1>6, <2>5, <2>6, <2>7
  <1>7. ASSUME NEW p \in Procs, Release(p)
        PROVE  UNCHANGED <<StoredItems, Askeds, now>>
    <2>1. lock = [owner |-> p, written |-> TRUE]
      BY <1>7 DEF Release, LockInv, HolderHasLock, Holding
    <2> QED
      BY <1>0, <1>7, <2>1 DEF Release, StoredItems, Askeds, Asked
  <1>8. ASSUME Clock
        PROVE  Promised!Tick
    BY <1>8 DEF Clock, Promised!Tick, StoredItems, Asked
  <1>9. ASSUME UNCHANGED storeVars
        PROVE  UNCHANGED <<StoredItems, Askeds, now>>
    BY <1>9 DEF storeVars, StoredItems, Askeds, Asked
  <1> QED
    BY <1>1, <1>2, <1>3, <1>4, <1>5, <1>6, <1>7, <1>8, <1>9 DEF StoreNext, Promised!Next

-----------------------------------------------------------------------------
(* However many processes call the queue: while no two of them take over a   *)
(* lock at the same time, one call at a time works on the files, and a lock  *)
(* whose owner runs is of a call under way (acquireLock, withLock).          *)
THEOREM LockWithSoleTaker ==
    StoreSpec /\ []SoleTaker => []LockIsInUse
  BY LockInit, LockStep, LockIsUsed, PTL DEF StoreSpec

(* With two processes nobody can take over a lock together with another one: *)
(* the third would be its stopped owner.                                     *)
THEOREM LockOfTwo ==
    ASSUME \A p, q, r \in Procs : p = q \/ q = r \/ p = r
    PROVE  StoreSpec => []LockIsInUse
  BY LockInit, LockStep, LockIsUsed, TwoTakeInTurn, PTL DEF StoreSpec

LEMMA FilesInit ==
    StoreInit => FilesInv /\ Promised!Init
  <1>1. StoreInit => FilesInv
    BY DEF StoreInit, FilesInv, StoreTyped, ViewIsStored, FilesFollow
  <1>2. StoreInit => Promised!Init
    BY PromisedCalls DEF StoreInit, Promised!Init, StoredItems, Asked
  <1> QED
    BY <1>1, <1>2

(* The files keep the promise of RefreshQueue, in the same circumstances: a  *)
(* call that stops or throws anywhere in writeState took effect as a whole or*)
(* not at all.  A rename is refused only because of a file in its way.       *)
THEOREM FilesKeepPromise ==
    ASSUME SpuriousRefusals = FALSE
    PROVE  StoreSpec /\ []SoleTaker => ImplementsQueue
  <1>1. LockInv /\ FilesInv /\ [StoreNext]_storeVars
          => [Promised!Next]_<<StoredItems, [p \in Procs |-> Asked(p)], now>>
    BY StepKeepsPromise DEF Askeds
  <1> QED
    BY <1>1, LockInit, LockStep, FilesInit, FilesStep, PTL
      DEF StoreSpec, ImplementsQueue, Promised!Spec

(* With two processes the promise is kept whatever they do.                  *)
THEOREM FilesOfTwoKeepPromise ==
    ASSUME SpuriousRefusals = FALSE, \A p, q, r \in Procs : p = q \/ q = r \/ p = r
    PROVE  StoreSpec => ImplementsQueue
  <1>1. StoreSpec => []SoleTaker
    BY LockInit, LockStep, TwoTakeInTurn, PTL DEF StoreSpec
  <1> QED
    BY <1>1, FilesKeepPromise, PTL
=============================================================================
