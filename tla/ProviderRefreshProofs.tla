------------------------ MODULE ProviderRefreshProofs ------------------------
(***************************************************************************)
(* Proofs about ProviderRefresh for any runs, matches, dates, competitions *)
(* and times.                                                              *)
(*                                                                         *)
(* Rows and ledger change only together with the revision, so while the    *)
(* revision is the one a run has read, what it carries is compared with the*)
(* rows and the ledger as they still are (Based).  That requests for a date*)
(* keep their distance is the lease: runs in flight together started a     *)
(* lease apart (Apart), and a run that gave the lease back early left the  *)
(* pause of the date in the ledger (Rested).  That an ETag hides nothing   *)
(* needs both: a run that may still publish has asked soon enough after it *)
(* planned to have every match in its base that had ended (Telling).       *)
(***************************************************************************)
EXTENDS ProviderRefresh, TLAPS, WellFoundedInduction

Checks  == [attempts : 0..MaxChecks, next : MaybeTime, done : BOOLEAN]
Stamps  == [next : MaybeTime, etag : MaybeTime, failures : 0..Levels]
Fetches == [at : MaybeTime, next : MaybeTime, failures : 0..Levels]
Ledgers == [contract : {1, 2}, circuit : MaybeTime, matches : [Matches -> Checks],
            dates : [Dates -> Stamps], current : [Targets -> Fetches]]
News    == Matches \X {"scheduled", "completed"}
Works   == [kind : {"current", "terminal"}, start : Nat, revision : Nat, ledger : Ledgers,
            base : SUBSET Matches, todo : SUBSET Nat, delta : SUBSET News]

Active(p) == pc[p] \in {"read", "fetch", "finish"}

Typed ==
    /\ row \in [Matches -> {"scheduled", "completed"}]
    /\ lease \in [holder : Procs \cup {None}, expires : Nat]
    /\ revision \in Nat /\ ledger \in Ledgers /\ barred \in Nat /\ now \in Nat
    /\ upstream \in [Matches -> {"scheduled", "completed"}] /\ version \in [Dates -> Nat]
    /\ asked \in [Dates -> [by : Procs \cup {None}, start : MaybeTime]]
    /\ pc \in [Procs -> {"idle", "read", "fetch", "finish", "reconcile"}]
    /\ job = [p \in Procs |-> job[p]]
    /\ \A p \in Procs : Active(p) => job[p] \in Works

(* What is true of any ledger, stored or carried: its ETags are of editions  *)
(* the provider has served, and no match waits for longer than its date.     *)
Regular(l) ==
    /\ \A d \in Dates : l.dates[d].etag # None => l.dates[d].etag <= version[d]
    /\ \A m \in Matches : l.matches[m].next # None =>
          /\ l.dates[DateOf[m]].next # None
          /\ l.matches[m].next <= l.dates[DateOf[m]].next

(* What a run at a place has planned and found. *)
Planned(place, j) ==
    /\ Regular(j.ledger) /\ j.start <= now
    /\ place = "read" => j.kind = "terminal"
    /\ place = "fetch" => j.todo # {}
    /\ j.kind = "current" => j.todo \subseteq Targets
    /\ j.kind = "terminal" =>
         /\ j.delta \subseteq Matches \X {"completed"}
         /\ place = "fetch" =>
              /\ j.todo \subseteq Dates /\ j.ledger.contract = 2
              /\ \A d \in j.todo : Passed(j.ledger.dates[d].next, j.start)

Forward(old, new) ==
    /\ \A m \in Matches :
         /\ old.matches[m].done => new.matches[m].done
         /\ old.contract = 2 => new.matches[m].attempts >= old.matches[m].attempts
    /\ old.contract = 2 => new.contract = 2
    /\ \A d \in Dates : old.dates[d].next # None =>
          new.dates[d].next # None /\ new.dates[d].next >= old.dates[d].next

Found(j, m) == j.kind = "terminal" /\ <<m, "completed">> \in j.delta

(* What a run carries is what it has read and done, as long as the revision  *)
(* is the one it has read.                                                   *)
Based(place, j) ==
    /\ j.revision <= revision
    /\ j.revision = revision =>
         /\ Forward(ledger, j.ledger)
         /\ \A m \in Matches : j.ledger.matches[m].done => row[m] = "completed" \/ Found(j, m)
         /\ j.kind = "terminal" /\ place = "fetch" => j.base = InWindow(j.start)

(* A run holds the lease from its start on, or has outlived it. *)
Leased(p, j) ==
    IF lease.holder = p
      THEN /\ lease.expires = j.start + Lease
           /\ \A d \in Dates : asked[d].by # None => asked[d].start <= j.start
      ELSE j.start + Lease <= now

(* A date was last asked for long before or after a run, or it rests in the  *)
(* ledger the run carries.                                                   *)
RestsIn(l, d) == l.dates[d].next # None /\ l.dates[d].next >= asked[d].start + Recheck

Spaced(j) ==
    \A d \in Dates : asked[d].by # None =>
        \/ j.start >= asked[d].start + Recheck \/ asked[d].start >= j.start + Recheck
        \/ RestsIn(j.ledger, d)

(* A result that an ETag of the ledger l vouches for. *)
Shown(l, m) ==
    /\ l.contract = 2 /\ l.dates[DateOf[m]].etag = version[DateOf[m]]
    /\ upstream[m] = "completed" /\ row[m] = "scheduled" /\ now < Kickoff[m] + Cutoff

Telling(p, j) ==
    lease.holder = p /\ lease.expires > now /\ revision = j.revision =>
        \A m \in Matches : Shown(j.ledger, m) =>
            j.ledger.matches[m].attempts >= MaxChecks \/ Found(j, m)

Carried(p, place, j) ==
    /\ Planned(place, j) /\ Based(place, j)
    /\ Leased(p, j) /\ Spaced(j) /\ Telling(p, j)

(* Runs in flight together started a lease apart, the holder last. *)
Apart(p, q) ==
    \/ job[p].start >= job[q].start + Lease /\ lease.holder # q
    \/ job[q].start >= job[p].start + Lease /\ lease.holder # p

(* While a date is within the pause of the last request, the lease is taken  *)
(* or the date rests in the ledger.                                          *)
Rested(d) ==
    asked[d].by # None =>
        /\ asked[d].start \in Nat /\ asked[d].start <= now
        /\ \/ lease.expires >= asked[d].start + Recheck
           \/ now >= asked[d].start + Recheck
           \/ RestsIn(ledger, d)

Stored ==
    /\ Regular(ledger) /\ CheckpointMatchesRow
    /\ \A m \in Matches : Shown(ledger, m) => ledger.matches[m].attempts >= MaxChecks
    /\ \A m \in Matches : upstream[m] = "completed" => Over(m, now)

Inv ==
    /\ Typed /\ Stored
    /\ \A d \in Dates : Rested(d)
    /\ \A p \in Procs : Active(p) => Carried(p, pc[p], job[p])
    /\ \A p, q \in Procs : p # q /\ Active(p) /\ Active(q) => Apart(p, q)

-----------------------------------------------------------------------------
(* What the operators of the model do. *)
LEMMA Constants ==
    /\ FirstCheck \in Nat /\ Length \in Nat /\ Cutoff \in Nat /\ Lease \in Nat /\ Recheck \in Nat
    /\ Blocked \in Nat /\ MaxChecks \in Nat \ {0} /\ Levels \in Nat \ {0}
    /\ Recheck <= Lease /\ FirstCheck + Lease <= Length
    /\ \A n \in 1..Levels : Backoff[n] \in Nat /\ Backoff[n] >= Recheck
    /\ \A m \in Matches : DateOf[m] \in Dates /\ Kickoff[m] \in Nat
    /\ Dates \subseteq Nat /\ Targets \subseteq Nat
    /\ None \notin Nat /\ None \notin Procs
  BY ProviderRefreshAssumption

LEMMA MinIsLeast ==
    ASSUME NEW S \in SUBSET Nat, S # {}
    PROVE  Min(S) \in S /\ \A x \in S : Min(S) <= x
  <1> DEFINE Less == {s \in Nat \X Nat : s[1] < s[2]}
  <1>1. IsWellFoundedOn(Less, Nat)
    BY NatLessThanWellFounded DEF OpToRel
  <1>2. PICK x \in S : \A y \in S : <<y, x>> \notin Less
    BY <1>1, WFMin
  <1>3. ASSUME NEW y \in S
        PROVE  x <= y
    <2>1. ~(y < x)
      BY <1>2
    <2> QED
      BY <2>1
  <1> QED
    BY <1>3 DEF Min

LEMMA FirstOfSubset ==
    ASSUME NEW S, NEW n
    PROVE  FirstOf(S, n) \subseteq S
  BY DEF FirstOf

LEMMA FailureCount ==
    ASSUME NEW failures \in 0..Levels
    PROVE  Min({failures + 1, Levels}) \in 1..Levels
  <1> DEFINE S == {failures + 1, Levels}
  <1>1. S \in SUBSET Nat /\ S # {}
    BY Constants
  <1> HIDE DEF S
  <1>2. Min(S) \in S /\ \A x \in S : Min(S) <= x
    BY <1>1, MinIsLeast
  <1> QED
    BY <1>2, Constants DEF S

(* A failed entry pauses, and keeps what else it says. *)
LEMMA FailedStamp ==
    ASSUME NEW entry \in Stamps, NEW at \in Nat
    PROVE  /\ Failed(entry, at) \in Stamps /\ Failed(entry, at).etag = entry.etag
           /\ Failed(entry, at).next \in Nat /\ Failed(entry, at).next >= at + Recheck
  <1>1. PICK n \in 1..Levels :
           Failed(entry, at) = [entry EXCEPT !.failures = n, !.next = at + Backoff[n]]
    <2>1. entry.failures \in 0..Levels
      BY DEF Stamps
    <2> QED
      BY <2>1, FailureCount DEF Failed
  <1>2. n \in 0..Levels /\ at + Backoff[n] \in Nat /\ at + Backoff[n] >= at + Recheck
    BY Constants
  <1> QED
    BY <1>1, <1>2 DEF Stamps, MaybeTime

LEMMA FailedFetch ==
    ASSUME NEW entry \in Fetches, NEW at \in Nat
    PROVE  Failed(entry, at) \in Fetches
  <1>1. PICK n \in 1..Levels :
           Failed(entry, at) = [entry EXCEPT !.failures = n, !.next = at + Backoff[n]]
    <2>1. entry.failures \in 0..Levels
      BY DEF Fetches
    <2> QED
      BY <2>1, FailureCount DEF Failed
  <1>2. n \in 0..Levels /\ at + Backoff[n] \in Nat
    BY Constants
  <1> QED
    BY <1>1, <1>2 DEF Fetches, MaybeTime

(* An old ledger loses its ETags and its used-up attempts, nothing else. *)
LEMMA MigratedLedger ==
    ASSUME NEW l \in Ledgers, NEW base
    PROVE  /\ Migrated(l, base) \in Ledgers /\ Migrated(l, base).contract = 2
           /\ l.contract = 2 => Migrated(l, base) = l
           /\ l.contract = 1 => \A d \in Dates : Migrated(l, base).dates[d].etag = None
           /\ \A d \in Dates : /\ Migrated(l, base).dates[d].next = l.dates[d].next
                               /\ Migrated(l, base).dates[d].etag \in {None, l.dates[d].etag}
           /\ \A m \in Matches : /\ Migrated(l, base).matches[m].next = l.matches[m].next
                                 /\ Migrated(l, base).matches[m].done = l.matches[m].done
  <1>1. CASE l.contract = 2
    BY <1>1 DEF Migrated
  <1>2. CASE l.contract = 1
    <2> DEFINE dates   == [d \in Dates |-> [l.dates[d] EXCEPT !.etag = None]]
               matches == [m \in Matches |-> IF m \in base /\ ~l.matches[m].done
                                             THEN [l.matches[m] EXCEPT !.attempts = 0]
                                             ELSE l.matches[m]]
    <2>1. /\ \A d \in Dates : dates[d] \in Stamps
          /\ \A d \in Dates : dates[d].next = l.dates[d].next /\ dates[d].etag = None
      BY DEF Ledgers, Stamps, MaybeTime
    <2>2. \A m \in Matches : l.matches[m] \in Checks
      BY DEF Ledgers
    <2>3. /\ \A m \in Matches : matches[m] \in Checks
          /\ \A m \in Matches : /\ matches[m].next = l.matches[m].next
                                /\ matches[m].done = l.matches[m].done
      <3>1. 0 \in 0..MaxChecks
        BY ProviderRefreshAssumption
      <3> QED
        BY <2>2, <3>1 DEF Checks
    <2> HIDE DEF dates, matches
    <2>4. dates \in [Dates -> Stamps] /\ matches \in [Matches -> Checks]
      BY <2>1, <2>3 DEF dates, matches
    <2>5. Migrated(l, base) = [l EXCEPT !.contract = 2, !.dates = dates, !.matches = matches]
      BY <1>2 DEF Migrated, dates, matches
    <2>6. /\ Migrated(l, base) \in Ledgers
          /\ Migrated(l, base).contract = 2
          /\ Migrated(l, base).dates = dates /\ Migrated(l, base).matches = matches
      BY <2>4, <2>5 DEF Ledgers
    <2> QED
      BY <1>2, <2>1, <2>3, <2>6
  <1> QED
    BY <1>1, <1>2 DEF Ledgers

LEMMA LedgerFields ==
    ASSUME NEW l \in Ledgers
    PROVE  /\ \A m \in Matches : /\ l.matches[m] \in Checks /\ l.matches[m].attempts \in Nat
                                 /\ l.matches[m].next \in Nat \cup {None}
           /\ \A d \in Dates : /\ l.dates[d] \in Stamps
                               /\ l.dates[d].next \in Nat \cup {None}
                               /\ l.dates[d].etag \in Nat \cup {None}
           /\ \A k \in Targets : l.current[k] \in Fetches
           /\ l.contract \in {1, 2} /\ l.circuit \in Nat \cup {None}
  <1>1. /\ \A m \in Matches : l.matches[m] \in Checks
        /\ \A d \in Dates : l.dates[d] \in Stamps
        /\ \A k \in Targets : l.current[k] \in Fetches
        /\ l.contract \in {1, 2} /\ l.circuit \in MaybeTime
    BY DEF Ledgers
  <1>2. 0..MaxChecks \subseteq Nat
    BY ProviderRefreshAssumption
  <1> QED
    BY <1>1, <1>2 DEF Checks, Stamps, MaybeTime

LEMMA ForwardTransitive ==
    ASSUME NEW a \in Ledgers, NEW b \in Ledgers, NEW c \in Ledgers, Forward(a, b), Forward(b, c)
    PROVE  Forward(a, c)
  <1>1. /\ \A m \in Matches : /\ a.matches[m].attempts \in Nat
                              /\ b.matches[m].attempts \in Nat /\ c.matches[m].attempts \in Nat
        /\ \A d \in Dates : /\ a.dates[d].next \in Nat \cup {None}
                            /\ b.dates[d].next \in Nat \cup {None}
                            /\ c.dates[d].next \in Nat \cup {None}
    BY LedgerFields
  <1>2. ASSUME NEW m \in Matches
        PROVE  /\ a.matches[m].done => c.matches[m].done
               /\ a.contract = 2 => c.matches[m].attempts >= a.matches[m].attempts
    BY <1>1 DEF Forward
  <1>3. ASSUME NEW d \in Dates, a.dates[d].next # None
        PROVE  c.dates[d].next # None /\ c.dates[d].next >= a.dates[d].next
    <2>1. b.dates[d].next # None /\ b.dates[d].next >= a.dates[d].next
      BY <1>3 DEF Forward
    <2>2. c.dates[d].next # None /\ c.dates[d].next >= b.dates[d].next
      BY <2>1 DEF Forward
    <2> QED
      BY <1>1, <1>3, <2>1, <2>2
  <1>4. a.contract = 2 => c.contract = 2
    BY DEF Forward
  <1> QED
    BY <1>2, <1>3, <1>4 DEF Forward

LEMMA ForwardReflexive ==
    ASSUME NEW l \in Ledgers
    PROVE  Forward(l, l)
  <1>1. /\ \A m \in Matches : l.matches[m].attempts >= l.matches[m].attempts
        /\ \A d \in Dates : l.dates[d].next # None => l.dates[d].next >= l.dates[d].next
    BY LedgerFields
  <1> QED
    BY <1>1 DEF Forward

LEMMA Fields ==
    ASSUME Inv
    PROVE  /\ \A p \in Procs : Active(p) => job[p] \in Works /\ Carried(p, pc[p], job[p])
           /\ ledger \in Ledgers /\ now \in Nat /\ revision \in Nat
           /\ lease.holder \in Procs \cup {None} /\ lease.expires \in Nat
           /\ \A d \in Dates : version[d] \in Nat
  BY DEF Inv, Typed

(* A date of a ledger rests for as long in a ledger that is further on. *)
LEMMA RestsOn ==
    ASSUME Inv, NEW d \in Dates, asked[d].by # None,
           NEW old \in Ledgers, NEW new \in Ledgers, Forward(old, new), RestsIn(old, d)
    PROVE  RestsIn(new, d)
  <1>1. /\ old.dates[d].next \in Nat \cup {None} /\ new.dates[d].next \in Nat \cup {None}
        /\ asked[d].start \in Nat /\ Recheck \in Nat
    BY LedgerFields, ProviderRefreshAssumption DEF Inv, Rested
  <1> QED
    BY <1>1 DEF RestsIn, Forward

-----------------------------------------------------------------------------
(* A run goes on with its work.  It may have asked for a date, which then    *)
(* rests in the ledger it carries.                                           *)
LEMMA WorksOn ==
    ASSUME Inv, NEW p \in Procs, Active(p), NEW place \in {"fetch", "finish"},
           NEW work \in Works, work.start = job[p].start, work.kind = job[p].kind,
           work.revision = job[p].revision, job[p].delta \subseteq work.delta,
           Forward(job[p].ledger, work.ledger), Planned(place, work),
           \A m \in Matches : work.ledger.matches[m].done
              => job[p].ledger.matches[m].done \/ Found(work, m),
           work.revision = revision /\ work.kind = "terminal" /\ place = "fetch"
              => work.base = InWindow(work.start),
           Telling(p, work),
           pc' = [pc EXCEPT ![p] = place], job' = [job EXCEPT ![p] = work],
           \/ asked' = asked
           \/ \E d \in Dates :
                 /\ asked' = [asked EXCEPT ![d] = [by |-> p, start |-> work.start]]
                 /\ work.ledger.dates[d].next # None
                 /\ work.ledger.dates[d].next >= work.start + Recheck,
           UNCHANGED <<row, control, upstream, version, now>>, barred' \in Nat
    PROVE  Inv'
  <1> DEFINE j == job[p]
  <1>1. /\ j \in Works /\ Carried(p, pc[p], j) /\ j.start \in Nat /\ j.ledger \in Ledgers
        /\ work.ledger \in Ledgers /\ work.start \in Nat /\ j.start <= now /\ now \in Nat
        /\ lease.expires \in Nat /\ Lease \in Nat /\ Recheck \in Nat /\ Recheck <= Lease
    BY Fields, ProviderRefreshAssumption DEF Works, Carried, Planned
  <1>2. /\ pc'[p] = place /\ job'[p] = work /\ Active(p)'
        /\ \A q \in Procs \ {p} : pc'[q] = pc[q] /\ job'[q] = job[q] /\ (Active(q)' <=> Active(q))
        /\ job' = [q \in Procs |-> job'[q]]
        /\ pc' \in [Procs -> {"idle", "read", "fetch", "finish", "reconcile"}]
    BY DEF Inv, Typed, Active
  <1>3. asked' \in [Dates -> [by : Procs \cup {None}, start : MaybeTime]]
    BY <1>1 DEF Inv, Typed, MaybeTime
  <1>4. Typed'
    BY <1>1, <1>2, <1>3 DEF Inv, Typed, control
  <1>5. Stored'
    BY DEF Inv, Stored, Regular, CheckpointMatchesRow, Shown, Over, control
  <1>6. \A d \in Dates : asked'[d] = asked[d] \/
           /\ asked'[d] = [by |-> p, start |-> work.start]
           /\ work.ledger.dates[d].next # None
           /\ work.ledger.dates[d].next >= work.start + Recheck
    BY DEF Inv, Typed
  <1>7. ASSUME NEW d \in Dates
        PROVE  Rested(d)'
    <2>1. CASE asked'[d] = asked[d]
      BY <2>1 DEF Inv, Rested, RestsIn, control
    <2>2. CASE asked'[d] = [by |-> p, start |-> work.start]
      <3>1. lease.expires >= work.start + Recheck \/ now >= work.start + Recheck
        BY <1>1 DEF Carried, Leased
      <3> QED
        BY <1>1, <2>2, <3>1 DEF Rested, control
    <2> QED
      BY <1>6, <2>1, <2>2
  <1>8. ASSUME NEW q \in Procs, q # p, Active(q)
        PROVE  Carried(q, pc[q], job[q])'
    <2>1. /\ job[q] \in Works /\ job[q].start \in Nat /\ Carried(q, pc[q], job[q])
          /\ Apart(p, q)
      BY <1>8, Fields DEF Works, Inv
    <2>2. Planned(pc[q], job[q])' /\ Based(pc[q], job[q])' /\ Telling(q, job[q])'
      <3>1. /\ Planned(pc[q], job[q]) /\ Based(pc[q], job[q]) /\ Telling(q, job[q])
            /\ pc'[q] = pc[q] /\ job'[q] = job[q]
        BY <1>2, <1>8, <2>1 DEF Carried
      <3>2. Planned(pc[q], job[q])'
        BY <3>1 DEF Planned, Regular
      <3>3. Based(pc[q], job[q])'
        BY <3>1, ZenonT(40) DEF Based, Forward, Found, InWindow, control
      <3>4. Telling(q, job[q])'
        BY <3>1 DEF Telling, Shown, Found, control
      <3> QED
        BY <3>2, <3>3, <3>4
    <2>3. Leased(q, job[q])'
      BY <1>1, <1>2, <1>6, <1>8, <2>1 DEF Carried, Leased, Apart, control
    <2>4. Spaced(job[q])'
      <3> SUFFICES ASSUME NEW d \in Dates, asked'[d].by # None
                   PROVE  \/ job[q].start >= asked'[d].start + Recheck
                          \/ asked'[d].start >= job[q].start + Recheck
                          \/ /\ job[q].ledger.dates[d].next # None
                             /\ job[q].ledger.dates[d].next >= asked'[d].start + Recheck
        BY <1>2, <1>8 DEF Spaced, RestsIn
      <3>1. CASE asked'[d] = asked[d]
        BY <2>1, <3>1 DEF Carried, Spaced, RestsIn
      <3>2. CASE asked'[d] = [by |-> p, start |-> work.start]
        BY <1>1, <2>1, <3>2 DEF Apart
      <3> QED
        BY <1>6, <3>1, <3>2
    <2> QED
      BY <2>2, <2>3, <2>4 DEF Carried
  <1>9. Planned(pc[p], job[p])' /\ Telling(p, job[p])'
    <2>1. Planned(pc[p], job[p])'
      BY <1>2 DEF Planned, Regular
    <2>2. Telling(p, job[p])'
      BY <1>2 DEF Telling, Shown, Found, control
    <2> QED
      BY <2>1, <2>2
  <1>10. Based(pc[p], job[p])'
    <2>1. Based(pc[p], j)
      BY <1>1 DEF Carried
    <2>2. work.revision = revision => Forward(ledger, work.ledger)
      BY <1>1, <2>1, Fields, ForwardTransitive DEF Based
    <2>3. work.revision = revision => \A m \in Matches :
            work.ledger.matches[m].done => row[m] = "completed" \/ Found(work, m)
      BY <2>1 DEF Based, Found
    <2> QED
      BY <1>2, <2>1, <2>2, <2>3 DEF Based, Found, InWindow, Forward, control
  <1>11. Leased(p, job[p])'
    BY <1>1, <1>2, <1>6 DEF Carried, Leased, control
  <1>12. Spaced(job[p])'
    <2> SUFFICES ASSUME NEW d \in Dates, asked'[d].by # None
                 PROVE  \/ work.start >= asked'[d].start + Recheck
                        \/ asked'[d].start >= work.start + Recheck
                        \/ /\ work.ledger.dates[d].next # None
                           /\ work.ledger.dates[d].next >= asked'[d].start + Recheck
      BY <1>2 DEF Spaced, RestsIn
    <2>1. CASE asked'[d] = asked[d]
      <3>1. CASE RestsIn(j.ledger, d)
        <4>1. RestsIn(work.ledger, d)
          BY <1>1, <2>1, <3>1, RestsOn
        <4> QED
          BY <2>1, <4>1 DEF RestsIn
      <3>2. CASE ~RestsIn(j.ledger, d)
        BY <1>1, <2>1, <3>2 DEF Carried, Spaced
      <3> QED
        BY <3>1, <3>2
    <2>2. CASE asked'[d] # asked[d]
      BY <1>6, <2>2
    <2> QED
      BY <2>1, <2>2
  <1>13. Carried(p, pc[p], job[p])'
    BY <1>9, <1>10, <1>11, <1>12 DEF Carried
  <1>14. \A q, r \in Procs : q # r /\ Active(q)' /\ Active(r)' => Apart(q, r)'
    BY <1>2 DEF Inv, Apart, control
  <1>15. \A q \in Procs : Active(q)' => Carried(q, pc[q], job[q])'
    BY <1>2, <1>8, <1>13
  <1> QED
    BY <1>4, <1>5, <1>7, <1>14, <1>15 DEF Inv

-----------------------------------------------------------------------------
(* What a run knows of itself before it goes on. *)
LEMMA RunFields ==
    ASSUME Inv, NEW p \in Procs, Active(p)
    PROVE  /\ job[p] \in Works /\ job[p].ledger \in Ledgers /\ job[p].start \in Nat
           /\ job[p].todo \in SUBSET Nat
           /\ Planned(pc[p], job[p]) /\ Based(pc[p], job[p]) /\ Telling(p, job[p])
  BY Fields DEF Works, Carried

(* A ledger whose matches and dates are as they were. *)
LEMMA SameChecks ==
    ASSUME Inv, NEW p \in Procs, Active(p), NEW work \in Works,
           work.revision = job[p].revision, work.start = job[p].start, work.kind = job[p].kind,
           job[p].delta \subseteq work.delta,
           work.ledger.matches = job[p].ledger.matches, work.ledger.dates = job[p].ledger.dates,
           work.ledger.contract = job[p].ledger.contract
    PROVE  /\ Forward(job[p].ledger, work.ledger) /\ Regular(work.ledger) /\ Telling(p, work)
  <1>1. Forward(job[p].ledger, job[p].ledger) /\ Regular(job[p].ledger) /\ Telling(p, job[p])
    BY RunFields, ForwardReflexive DEF Planned
  <1>2. Forward(job[p].ledger, work.ledger)
    BY <1>1 DEF Forward
  <1>3. Regular(work.ledger)
    BY <1>1 DEF Regular
  <1>4. Telling(p, work)
    BY <1>1 DEF Telling, Shown, Found
  <1> QED
    BY <1>2, <1>3, <1>4

LEMMA ReadDueStep ==
    ASSUME Inv, NEW p \in Procs, ReadDue(p)
    PROVE  Inv'
  <1> DEFINE j == job[p]
  <1>1. pc[p] = "read" /\ Active(p) /\ j.kind = "terminal"
    BY RunFields DEF ReadDue, Active, Planned
  <1>2. /\ j \in Works /\ j.ledger \in Ledgers /\ j.start \in Nat /\ Planned(pc[p], j)
        /\ Telling(p, j)
    BY <1>1, RunFields
  <1>3. PICK base, l, todo, place :
           /\ base = InWindow(j.start) /\ l = Migrated(j.ledger, base)
           /\ todo = FirstOf({DateOf[m] : m \in DueMatches(l, base, j.start)}, MaxDates)
           /\ place = IF todo = {} THEN "finish" ELSE "fetch"
    OBVIOUS
  <1>4. PICK work : /\ work = [j EXCEPT !.base = base, !.ledger = l, !.todo = todo]
                    /\ job' = [job EXCEPT ![p] = work] /\ pc' = [pc EXCEPT ![p] = place]
    BY <1>3 DEF ReadDue, Goto, Inv, Typed
  <1>5. base \subseteq Matches
    BY <1>3 DEF InWindow
  <1>6. /\ todo \subseteq Dates
        /\ \A d \in todo : Passed(l.dates[d].next, j.start)
    <2>1. todo \subseteq {DateOf[m] : m \in DueMatches(l, base, j.start)}
      BY <1>3, FirstOfSubset
    <2>2. \A m \in DueMatches(l, base, j.start) :
             DateOf[m] \in Dates /\ Passed(l.dates[DateOf[m]].next, j.start)
      BY <1>5, Constants DEF DueMatches
    <2> QED
      BY <2>1, <2>2
  <1>7. l \in Ledgers /\ l.contract = 2
    BY <1>2, <1>3, MigratedLedger
  <1>8. /\ work \in Works /\ work.base = base /\ work.ledger = l /\ work.todo = todo
        /\ work.start = j.start /\ work.kind = j.kind /\ work.revision = j.revision
        /\ work.delta = j.delta
    BY <1>2, <1>4, <1>5, <1>6, <1>7, ProviderRefreshAssumption DEF Works
  <1>9. Regular(l)
    <2>1. Regular(j.ledger)
      BY <1>2 DEF Planned
    <2>2. /\ \A d \in Dates : /\ l.dates[d].next = j.ledger.dates[d].next
                              /\ l.dates[d].etag \in {None, j.ledger.dates[d].etag}
          /\ \A m \in Matches : l.matches[m].next = j.ledger.matches[m].next
      BY <1>2, <1>3, MigratedLedger
    <2> QED
      BY <2>1, <2>2, ProviderRefreshAssumption DEF Regular
  <1>10. Planned(place, work)
    BY <1>1, <1>2, <1>3, <1>6, <1>7, <1>8, <1>9 DEF Planned
  <1>11. Forward(j.ledger, l)
    <2>1. CASE j.ledger.contract = 2
      BY <1>2, <1>3, <2>1, MigratedLedger, ForwardReflexive
    <2>2. CASE j.ledger.contract = 1
      <3>1. /\ \A d \in Dates : l.dates[d].next = j.ledger.dates[d].next
            /\ \A m \in Matches : l.matches[m].done = j.ledger.matches[m].done
        BY <1>2, <1>3, MigratedLedger
      <3>2. Forward(j.ledger, j.ledger)
        BY <1>2, ForwardReflexive
      <3> QED
        BY <2>2, <3>1, <3>2 DEF Forward
    <2> QED
      BY <1>2, <2>1, <2>2, LedgerFields
  <1>12. Telling(p, work)
    <2>1. CASE j.ledger.contract = 2
      <3>1. l = j.ledger
        BY <1>2, <1>3, <2>1, MigratedLedger
      <3> QED
        BY <1>2, <1>8, <3>1 DEF Telling, Found
    <2>2. CASE j.ledger.contract = 1
      <3>1. \A m \in Matches : l.dates[DateOf[m]].etag = None
        <4>1. \A d \in Dates : l.dates[d].etag = None
          BY <1>2, <1>3, <2>2, MigratedLedger
        <4> QED
          BY <4>1, ProviderRefreshAssumption
      <3>2. \A m \in Matches : version[DateOf[m]] # None
        BY Fields, ProviderRefreshAssumption
      <3> QED
        BY <1>8, <3>1, <3>2 DEF Telling, Shown
    <2> QED
      BY <1>2, <2>1, <2>2, LedgerFields
  <1>13. \A m \in Matches : work.ledger.matches[m].done => j.ledger.matches[m].done
    BY <1>2, <1>3, <1>8, MigratedLedger
  <1>14. place \in {"fetch", "finish"} /\ work.base = InWindow(work.start)
    BY <1>3, <1>8
  <1>15. UNCHANGED <<row, control, upstream, version, now, asked>> /\ barred' \in Nat
    BY DEF ReadDue, world, Inv, Typed
  <1> QED
    BY <1>1, <1>4, <1>8, <1>10, <1>11, <1>12, <1>13, <1>14, <1>15, WorksOn, ZenonT(40)

LEMMA PastDeadlineStep ==
    ASSUME Inv, NEW p \in Procs, PastDeadline(p)
    PROVE  Inv'
  <1> DEFINE j == job[p]
  <1>1. pc[p] = "fetch" /\ Active(p) /\ j \in Works /\ Planned("fetch", j) /\ j.kind = "current"
    BY RunFields DEF PastDeadline, Active
  <1>2. PICK work : work = [j EXCEPT !.ledger = j.ledger, !.todo = {}]
    OBVIOUS
  <1>3. /\ work \in Works /\ work.ledger = j.ledger /\ work.todo = {} /\ work.start = j.start
        /\ work.kind = j.kind /\ work.revision = j.revision /\ work.delta = j.delta
    BY <1>1, <1>2 DEF Works
  <1>4. Forward(j.ledger, work.ledger) /\ Telling(p, work)
    BY <1>1, <1>3, SameChecks
  <1>5. Planned("finish", work)
    BY <1>1, <1>3 DEF Planned
  <1>6. job' = [job EXCEPT ![p] = work] /\ pc' = [pc EXCEPT ![p] = "finish"]
    BY <1>2 DEF PastDeadline, Stop, Goto, Inv, Typed
  <1> QED
    BY <1>1, <1>3, <1>4, <1>5, <1>6, WorksOn DEF PastDeadline, world, Inv, Typed

LEMMA FetchTargetStep ==
    ASSUME Inv, NEW p \in Procs, NEW ended \in SUBSET Matches, NEW modified \in BOOLEAN,
           FetchTarget(p, ended, modified)
    PROVE  Inv'
  <1> DEFINE j == job[p]
  <1>1. /\ pc[p] = "fetch" /\ Active(p) /\ j \in Works /\ j.ledger \in Ledgers
        /\ Planned("fetch", j) /\ j.kind = "current"
    BY RunFields DEF FetchTarget, Asking, Active
  <1>2. PICK k : k = Min(j.todo) /\ k \in Targets
    BY <1>1, MinIsLeast DEF Planned, Works
  <1>3. PICK fetched : fetched = [Unfetched EXCEPT !.at = j.start] /\ fetched \in Fetches
    <2>1. j.start \in Nat /\ 0 \in 0..Levels
      <3>1. j.start \in Nat
        BY <1>1 DEF Works
      <3> QED
        BY <3>1, Constants
    <2>2. [Unfetched EXCEPT !.at = j.start] \in Fetches
      BY <2>1 DEF Unfetched, Fetches, MaybeTime
    <2> QED
      BY <2>2
  <1>4. PICK l : l = [j.ledger EXCEPT !.current[k] = fetched]
    OBVIOUS
  <1>5. /\ l \in Ledgers /\ l.matches = j.ledger.matches /\ l.dates = j.ledger.dates
        /\ l.contract = j.ledger.contract
    BY <1>1, <1>2, <1>3, <1>4 DEF Ledgers
  <1>6. PICK news : news = (IF modified THEN SeasonFile(k, ended) ELSE {})
    OBVIOUS
  <1>7. news \subseteq News
    <2>1. SeasonFile(k, ended) \subseteq News
      <3> SUFFICES ASSUME NEW s \in SeasonFile(k, ended) PROVE s \in News
        OBVIOUS
      <3>1. PICK m \in Matches : s = <<m, IF m \in ended THEN "completed" ELSE "scheduled">>
        BY DEF SeasonFile
      <3> QED
        BY <3>1 DEF News
    <2> QED
      BY <1>6, <2>1
  <1>8. PICK place, work :
           /\ work = [j EXCEPT !.ledger = l, !.todo = j.todo \ {k}, !.delta = j.delta \cup news]
           /\ place = IF j.todo \ {k} = {} THEN "finish" ELSE "fetch"
           /\ job' = [job EXCEPT ![p] = work] /\ pc' = [pc EXCEPT ![p] = place]
    BY <1>2, <1>3, <1>4, <1>6 DEF FetchTarget, Proceed, Goto, Inv, Typed
  <1>9. /\ work \in Works /\ work.ledger = l /\ work.todo = j.todo \ {k} /\ work.start = j.start
        /\ work.kind = j.kind /\ work.revision = j.revision /\ work.delta = j.delta \cup news
    BY <1>1, <1>5, <1>7, <1>8 DEF Works
  <1>10. Forward(j.ledger, work.ledger) /\ Regular(work.ledger) /\ Telling(p, work)
    BY <1>1, <1>5, <1>9, SameChecks
  <1>11. Planned(place, work)
    BY <1>1, <1>8, <1>9, <1>10 DEF Planned
  <1>12. place \in {"fetch", "finish"} /\ j.delta \subseteq work.delta
    BY <1>8, <1>9
  <1>13. UNCHANGED <<row, control, upstream, version, now, asked>> /\ barred' \in Nat
    BY DEF FetchTarget, world, Inv, Typed
  <1> QED
    BY <1>1, <1>5, <1>8, <1>9, <1>10, <1>11, <1>12, <1>13, WorksOn

(* A failed request: its entry pauses, and what it says is not lost. *)
LEMMA FailCurrentStep ==
    ASSUME Inv, NEW p \in Procs, NEW refused \in BOOLEAN, FetchFails(p, refused),
           job[p].kind = "current"
    PROVE  Inv'
  <1> DEFINE j == job[p]
  <1>1. /\ pc[p] = "fetch" /\ Active(p) /\ j \in Works /\ j.ledger \in Ledgers
        /\ j.start \in Nat /\ Planned("fetch", j) /\ j.kind = "current"
    BY RunFields DEF FetchFails, Asking, Active
  <1>2. PICK x : x = Min(j.todo) /\ x \in Targets
    BY <1>1, MinIsLeast DEF Planned, Works
  <1>3. PICK circuit : circuit = IF refused THEN j.start + Blocked ELSE j.ledger.circuit
    OBVIOUS
  <1>4. PICK entry : entry = Failed(j.ledger.current[x], j.start)
    OBVIOUS
  <1>5. circuit \in MaybeTime
    BY <1>1, <1>3, LedgerFields, Constants DEF MaybeTime
  <1>6. entry \in Fetches
    <2>1. j.ledger.current[x] \in Fetches
      BY <1>1, <1>2, LedgerFields
    <2> QED
      BY <1>1, <1>4, <2>1, FailedFetch
  <1>7. PICK l : l = [j.ledger EXCEPT !.circuit = circuit, !.current[x] = entry]
    OBVIOUS
  <1>8. /\ l \in Ledgers /\ l.matches = j.ledger.matches /\ l.dates = j.ledger.dates
        /\ l.contract = j.ledger.contract
    BY <1>1, <1>2, <1>5, <1>6, <1>7 DEF Ledgers
  <1>9. PICK work : work = [j EXCEPT !.ledger = l, !.todo = {}]
    OBVIOUS
  <1>10. job' = [job EXCEPT ![p] = work] /\ pc' = [pc EXCEPT ![p] = "finish"]
    <2>1. l = [[j.ledger EXCEPT !.circuit = IF refused THEN j.start + Blocked ELSE @]
                  EXCEPT !.current[x] = Failed(@, j.start)]
      BY <1>1, <1>3, <1>4, <1>7 DEF Ledgers
    <2>2. Stop(p, [[j.ledger EXCEPT !.circuit = IF refused THEN j.start + Blocked ELSE @]
                     EXCEPT !.current[x] = Failed(@, j.start)])
      BY <1>1, <1>2 DEF FetchFails
    <2>3. Stop(p, l)
      BY <2>1, <2>2
    <2> QED
      BY <1>9, <2>3 DEF Stop, Goto, Inv, Typed
  <1>11. /\ work \in Works /\ work.ledger = l /\ work.todo = {} /\ work.start = j.start
         /\ work.kind = j.kind /\ work.revision = j.revision /\ work.delta = j.delta
    BY <1>1, <1>8, <1>9 DEF Works
  <1>12. Forward(j.ledger, work.ledger) /\ Regular(work.ledger) /\ Telling(p, work)
    BY <1>1, <1>8, <1>11, SameChecks
  <1>13. Planned("finish", work)
    BY <1>1, <1>11, <1>12 DEF Planned
  <1>14. UNCHANGED <<row, control, upstream, version, now, asked>> /\ barred' \in Nat
    BY <1>1, Constants DEF FetchFails, world, Inv, Typed
  <1> QED
    BY <1>1, <1>8, <1>10, <1>11, <1>12, <1>13, <1>14, WorksOn

LEMMA FailDateStep ==
    ASSUME Inv, NEW p \in Procs, NEW refused \in BOOLEAN, FetchFails(p, refused),
           job[p].kind # "current"
    PROVE  Inv'
  <1> DEFINE j == job[p]
  <1>1. /\ pc[p] = "fetch" /\ Active(p) /\ j \in Works /\ j.ledger \in Ledgers
        /\ j.start \in Nat /\ Planned("fetch", j) /\ j.kind = "terminal" /\ Telling(p, j)
    BY RunFields DEF FetchFails, Asking, Active, Works
  <1>2. PICK x : x = Min(j.todo) /\ x \in Dates /\ Passed(j.ledger.dates[x].next, j.start)
    BY <1>1, MinIsLeast DEF Planned, Works
  <1>3. PICK circuit : circuit = IF refused THEN j.start + Blocked ELSE j.ledger.circuit
    OBVIOUS
  <1>4. PICK entry : entry = Failed(j.ledger.dates[x], j.start)
    OBVIOUS
  <1>5. circuit \in MaybeTime
    BY <1>1, <1>3, LedgerFields, Constants DEF MaybeTime
  <1>6. /\ entry \in Stamps /\ entry.etag = j.ledger.dates[x].etag
        /\ entry.next \in Nat /\ entry.next >= j.start + Recheck
    <2>1. j.ledger.dates[x] \in Stamps
      BY <1>1, <1>2, LedgerFields
    <2> QED
      BY <1>1, <1>4, <2>1, FailedStamp
  <1>7. PICK l : l = [j.ledger EXCEPT !.circuit = circuit, !.dates[x] = entry]
    OBVIOUS
  <1>8. /\ l \in Ledgers /\ l.matches = j.ledger.matches /\ l.contract = j.ledger.contract
        /\ l.dates[x] = entry /\ \A d \in Dates \ {x} : l.dates[d] = j.ledger.dates[d]
    BY <1>1, <1>2, <1>5, <1>6, <1>7 DEF Ledgers
  <1>9. PICK work : work = [j EXCEPT !.ledger = l, !.todo = {}]
    OBVIOUS
  <1>10. job' = [job EXCEPT ![p] = work] /\ pc' = [pc EXCEPT ![p] = "finish"]
    <2>1. l = [[j.ledger EXCEPT !.circuit = IF refused THEN j.start + Blocked ELSE @]
                  EXCEPT !.dates[x] = Failed(@, j.start)]
      BY <1>1, <1>3, <1>4, <1>7 DEF Ledgers
    <2>2. Stop(p, l)
      BY <1>1, <1>2, <2>1 DEF FetchFails
    <2> QED
      BY <1>1, <1>9, <2>2 DEF Stop, Goto, Inv, Typed
  <1>11. /\ work \in Works /\ work.ledger = l /\ work.todo = {} /\ work.start = j.start
         /\ work.kind = j.kind /\ work.revision = j.revision /\ work.delta = j.delta
    BY <1>1, <1>8, <1>9 DEF Works
  <1>12. ASSUME NEW d \in Dates
         PROVE  /\ l.dates[d].etag = j.ledger.dates[d].etag
                /\ j.ledger.dates[d].next # None =>
                      l.dates[d].next # None /\ l.dates[d].next >= j.ledger.dates[d].next
    <2>1. j.ledger.dates[d].next \in Nat \cup {None} /\ entry.next # None
      BY <1>1, <1>6, LedgerFields, Constants
    <2>2. j.ledger.dates[x].next # None => entry.next >= j.ledger.dates[x].next
      <3>1. j.ledger.dates[x].next # None => j.ledger.dates[x].next \in Nat
        BY <1>1, <1>2, LedgerFields
      <3> QED
        BY <1>1, <1>2, <1>6, <3>1, Constants DEF Passed
    <2> QED
      BY <1>6, <1>8, <2>1, <2>2
  <1>13. Forward(j.ledger, l)
    <2>1. Forward(j.ledger, j.ledger)
      BY <1>1, ForwardReflexive
    <2> QED
      BY <1>8, <1>12, <2>1 DEF Forward
  <1>14. Regular(l)
    <2>1. Regular(j.ledger)
      BY <1>1 DEF Planned
    <2>2. ASSUME NEW m \in Matches, l.matches[m].next # None
          PROVE  /\ l.dates[DateOf[m]].next # None
                 /\ l.matches[m].next <= l.dates[DateOf[m]].next
      <3>1. DateOf[m] \in Dates
        BY Constants
      <3>2. /\ j.ledger.dates[DateOf[m]].next # None
            /\ l.matches[m].next <= j.ledger.dates[DateOf[m]].next
        BY <1>8, <2>1, <2>2 DEF Regular
      <3>3. /\ l.dates[DateOf[m]].next # None
            /\ l.dates[DateOf[m]].next >= j.ledger.dates[DateOf[m]].next
        BY <1>12, <3>1, <3>2
      <3>4. /\ l.matches[m].next \in Nat \cup {None}
            /\ l.dates[DateOf[m]].next \in Nat \cup {None}
            /\ j.ledger.dates[DateOf[m]].next \in Nat \cup {None}
        BY <1>1, <1>8, <3>1, LedgerFields
      <3> QED
        BY <2>2, <3>2, <3>3, <3>4
    <2>3. \A d \in Dates : l.dates[d].etag # None => l.dates[d].etag <= version[d]
      BY <1>12, <2>1 DEF Regular
    <2> QED
      BY <2>2, <2>3 DEF Regular
  <1>15. Telling(p, work)
    <2>1. \A m \in Matches : Shown(l, m) => Shown(j.ledger, m)
      BY <1>8, <1>12, Constants DEF Shown
    <2> QED
      BY <1>1, <1>8, <1>11, <2>1 DEF Telling, Found
  <1>16. Planned("finish", work)
    BY <1>1, <1>11, <1>14 DEF Planned
  <1>17. \/ asked' = asked
         \/ \E d \in Dates :
               /\ asked' = [asked EXCEPT ![d] = [by |-> p, start |-> work.start]]
               /\ work.ledger.dates[d].next # None
               /\ work.ledger.dates[d].next >= work.start + Recheck
    <2>1. entry.next # None
      BY <1>6, Constants
    <2>2. asked' = asked \/ asked' = [asked EXCEPT ![x] = [by |-> p, start |-> j.start]]
      BY <1>1, <1>2 DEF FetchFails
    <2> QED
      BY <1>2, <1>6, <1>8, <1>11, <2>1, <2>2
  <1>18. UNCHANGED <<row, control, upstream, version, now>> /\ barred' \in Nat
    BY <1>1, Constants DEF FetchFails, world, Inv, Typed
  <1>19. \A m \in Matches : work.ledger.matches[m].done => j.ledger.matches[m].done
    BY <1>8, <1>11
  <1>20. Forward(j.ledger, work.ledger) /\ j.delta \subseteq work.delta
    BY <1>11, <1>13
  <1> QED
    BY <1>1, <1>10, <1>11, <1>15, <1>16, <1>17, <1>18, <1>19, <1>20, WorksOn

(* A match that ended and is still shown as scheduled is in the base of a run*)
(* that may still publish: a match has to end before it is a lease late.     *)
LEMMA EndedIsPlanned ==
    ASSUME Inv, NEW p \in Procs, pc[p] = "fetch", job[p].kind = "terminal",
           lease.holder = p, lease.expires > now, revision = job[p].revision,
           NEW m \in Matches, upstream[m] = "completed", row[m] = "scheduled",
           now < Kickoff[m] + Cutoff
    PROVE  m \in job[p].base
  <1> DEFINE j == job[p]
  <1>1. /\ j.start \in Nat /\ j.start <= now /\ now \in Nat /\ lease.expires \in Nat
        /\ lease.expires = j.start + Lease /\ j.base = InWindow(j.start)
    BY RunFields, Fields DEF Active, Planned, Based, Carried, Leased
  <1>2. Kickoff[m] \in Nat /\ Kickoff[m] + Length <= now
    BY Constants DEF Inv, Stored, Over
  <1>3. Kickoff[m] + FirstCheck <= j.start /\ j.start < Kickoff[m] + Cutoff
    BY <1>1, <1>2, Constants
  <1> QED
    BY <1>1, <1>3 DEF InWindow

LEMMA FetchDateStep ==
    ASSUME Inv, NEW p \in Procs, FetchDate(p)
    PROVE  Inv'
  <1> DEFINE j == job[p]
  <1>1. /\ pc[p] = "fetch" /\ Active(p) /\ j \in Works /\ j.ledger \in Ledgers
        /\ j.start \in Nat /\ Planned("fetch", j) /\ j.kind = "terminal" /\ Telling(p, j)
        /\ Based("fetch", j) /\ j.ledger.contract = 2 /\ Regular(j.ledger)
    BY RunFields DEF FetchDate, Asking, Active, Planned
  <1>2. PICK d : d = Min(j.todo) /\ d \in Dates /\ Passed(j.ledger.dates[d].next, j.start)
    BY <1>1, MinIsLeast DEF Planned, Works
  <1>3. PICK group, ended, after :
           group = Group(p, d) /\ ended = group \cap Ended(p, d) /\ after = j.start + Recheck
    OBVIOUS
  <1>4. PICK checks, stamp :
           /\ checks = [m \in Matches |->
                          IF m \notin group THEN j.ledger.matches[m]
                          ELSE [attempts |-> j.ledger.matches[m].attempts + 1, done |-> m \in ended,
                                next |-> IF m \in ended THEN None ELSE after]]
           /\ stamp = [next |-> after, etag |-> version[d], failures |-> 0]
    OBVIOUS
  <1>5. PICK l : l = [j.ledger EXCEPT !.matches = checks, !.dates[d] = stamp]
    OBVIOUS
  <1>6. PICK place, work :
           /\ work = [j EXCEPT !.ledger = l, !.todo = j.todo \ {d},
                              !.delta = j.delta \cup (ended \X {"completed"})]
           /\ place = IF j.todo \ {d} = {} THEN "finish" ELSE "fetch"
    OBVIOUS
  <1>7. job' = [job EXCEPT ![p] = work] /\ pc' = [pc EXCEPT ![p] = place]
    <2>1. Proceed(p, d, l, ended \X {"completed"})
      BY <1>2, <1>3, <1>4, <1>5 DEF FetchDate
    <2> QED
      BY <1>6, <2>1 DEF Proceed, Goto, Inv, Typed
  <1>8. /\ after \in Nat /\ after >= j.start + Recheck /\ version[d] \in Nat
        /\ ended \subseteq group /\ group \subseteq Matches
        /\ \A m \in Matches : m \in group <=>
              /\ m \in j.base /\ DateOf[m] = d
              /\ ~j.ledger.matches[m].done /\ j.ledger.matches[m].attempts < MaxChecks
              /\ Passed(j.ledger.matches[m].next, j.start)
    <2>1. j.base \subseteq Matches
      BY <1>1 DEF Works
    <2>2. group = {m \in j.base : /\ DateOf[m] = d
              /\ ~j.ledger.matches[m].done /\ j.ledger.matches[m].attempts < MaxChecks
              /\ Passed(j.ledger.matches[m].next, j.start)}
      BY <1>2, <1>3 DEF Group, DueMatches
    <2>3. after \in Nat /\ after >= j.start + Recheck
      BY <1>1, <1>3, Constants
    <2>4. version[d] \in Nat
      BY <1>2, Fields
    <2> QED
      BY <1>3, <2>1, <2>2, <2>3, <2>4
  <1>9. stamp \in Stamps /\ checks \in [Matches -> Checks]
    <2>1. stamp \in Stamps
      BY <1>4, <1>8, Constants DEF Stamps, MaybeTime
    <2>2. ASSUME NEW m \in Matches
          PROVE  checks[m] \in Checks
      <3>1. CASE m \notin group
        BY <1>1, <1>4, <3>1, LedgerFields
      <3>2. CASE m \in group
        <4>1. j.ledger.matches[m].attempts + 1 \in 0..MaxChecks
          BY <1>1, <1>8, <3>2, LedgerFields, Constants
        <4> QED
          BY <1>4, <1>8, <3>2, <4>1 DEF Checks, MaybeTime
      <3> QED
        BY <3>1, <3>2
    <2> QED
      BY <1>4, <2>1, <2>2
  <1>10. /\ l \in Ledgers /\ l.matches = checks /\ l.contract = 2
         /\ l.dates[d] = stamp /\ \A e \in Dates \ {d} : l.dates[e] = j.ledger.dates[e]
    BY <1>1, <1>2, <1>5, <1>9 DEF Ledgers
  <1>11. ended \X {"completed"} \subseteq Matches \X {"completed"}
    BY <1>8
  <1>12. /\ work \in Works /\ work.ledger = l /\ work.todo = j.todo \ {d} /\ work.start = j.start
         /\ work.kind = j.kind /\ work.revision = j.revision /\ work.base = j.base
         /\ work.delta = j.delta \cup (ended \X {"completed"})
    <2>1. j.delta \cup (ended \X {"completed"}) \subseteq News
      BY <1>1, <1>11 DEF Works, News
    <2> QED
      BY <1>1, <1>6, <1>10, <2>1 DEF Works
  <1>13. \A m \in ended : Found(work, m)
    BY <1>1, <1>12 DEF Found
  <1>14. \A m \in Matches : Found(j, m) => Found(work, m)
    BY <1>12 DEF Found
  <1>15. ASSUME NEW m \in Matches
         PROVE  /\ m \notin group => l.matches[m] = j.ledger.matches[m]
                /\ m \in group =>
                     /\ l.matches[m].attempts = j.ledger.matches[m].attempts + 1
                     /\ l.matches[m].done <=> m \in ended
                     /\ l.matches[m].next \in {None, after}
    <2>1. CASE m \notin group
      BY <1>4, <1>10, <2>1
    <2>2. CASE m \in group
      <3>1. l.matches[m] = [attempts |-> j.ledger.matches[m].attempts + 1, done |-> m \in ended,
                            next |-> IF m \in ended THEN None ELSE after]
        BY <1>4, <1>10, <2>2
      <3>2. l.matches[m].done = (m \in ended)
        BY <3>1
      <3>3. l.matches[m].done <=> m \in ended
        BY <3>2
      <3>4. /\ l.matches[m].attempts = j.ledger.matches[m].attempts + 1
            /\ l.matches[m].next \in {None, after}
        BY <3>1
      <3> QED
        BY <2>2, <3>3, <3>4
    <2> QED
      BY <2>1, <2>2
  <1>16. Forward(j.ledger, l)
    <2>1. Forward(j.ledger, j.ledger)
      BY <1>1, ForwardReflexive
    <2>2. ASSUME NEW m \in Matches
          PROVE  /\ j.ledger.matches[m].done => l.matches[m].done
                 /\ l.matches[m].attempts >= j.ledger.matches[m].attempts
      <3>1. j.ledger.matches[m].attempts \in Nat
        BY <1>1, LedgerFields
      <3> QED
        BY <1>8, <1>15, <3>1
    <2>3. ASSUME NEW e \in Dates, j.ledger.dates[e].next # None
          PROVE  l.dates[e].next # None /\ l.dates[e].next >= j.ledger.dates[e].next
      <3>1. j.ledger.dates[e].next \in Nat
        BY <1>1, <2>3, LedgerFields
      <3>2. CASE e = d
        BY <1>1, <1>2, <1>4, <1>8, <1>10, <2>3, <3>1, <3>2, Constants DEF Passed
      <3>3. CASE e # d
        BY <1>10, <2>3, <3>1, <3>3
      <3> QED
        BY <3>2, <3>3
    <2> QED
      BY <1>10, <2>2, <2>3 DEF Forward
  <1>17. Regular(l)
    <2>1. ASSUME NEW e \in Dates, l.dates[e].etag # None
          PROVE  l.dates[e].etag <= version[e]
      BY <1>1, <1>4, <1>8, <1>10, <2>1 DEF Regular
    <2>2. ASSUME NEW m \in Matches, l.matches[m].next # None
          PROVE  /\ l.dates[DateOf[m]].next # None
                 /\ l.matches[m].next <= l.dates[DateOf[m]].next
      <3>1. DateOf[m] \in Dates /\ after # None
        BY <1>8, Constants
      <3>2. CASE m \in group
        <4>1. l.matches[m].next = after
          BY <1>15, <2>2, <3>2
        <4>2. DateOf[m] = d
          BY <1>8, <3>2
        <4>3. l.dates[d].next = after
          BY <1>4, <1>10
        <4> QED
          BY <1>8, <3>1, <4>1, <4>2, <4>3
      <3>3. CASE m \notin group
        <4>1. /\ j.ledger.dates[DateOf[m]].next # None
              /\ l.matches[m].next <= j.ledger.dates[DateOf[m]].next
          BY <1>1, <1>15, <2>2, <3>3 DEF Regular
        <4>2. /\ l.dates[DateOf[m]].next # None
              /\ l.dates[DateOf[m]].next >= j.ledger.dates[DateOf[m]].next
          BY <1>16, <3>1, <4>1 DEF Forward
        <4>3. /\ l.matches[m].next \in Nat \cup {None}
              /\ l.dates[DateOf[m]].next \in Nat \cup {None}
              /\ j.ledger.dates[DateOf[m]].next \in Nat \cup {None}
          BY <1>1, <1>10, <3>1, LedgerFields
        <4> QED
          BY <2>2, <4>1, <4>2, <4>3
      <3> QED
        BY <3>2, <3>3
    <2> QED
      BY <2>1, <2>2 DEF Regular
  <1>18. Planned(place, work)
    <2>1. /\ j.start <= now /\ j.todo \subseteq Dates /\ j.delta \subseteq Matches \X {"completed"}
          /\ \A e \in j.todo : Passed(j.ledger.dates[e].next, j.start)
      BY <1>1 DEF Planned
    <2>2. \A e \in work.todo : Passed(l.dates[e].next, j.start)
      BY <1>10, <1>12, <2>1
    <2>3. work.delta \subseteq Matches \X {"completed"}
      BY <1>11, <1>12, <2>1
    <2> QED
      BY <1>1, <1>6, <1>10, <1>12, <1>17, <2>1, <2>2, <2>3 DEF Planned
  <1>19. Telling(p, work)
    <2> SUFFICES ASSUME lease.holder = p, lease.expires > now, revision = j.revision,
                        NEW m \in Matches, Shown(l, m)
                 PROVE  l.matches[m].attempts >= MaxChecks \/ Found(work, m)
      BY <1>12 DEF Telling
    <2>1. /\ DateOf[m] \in Dates /\ j.ledger.matches[m].attempts \in Nat /\ MaxChecks \in Nat
          /\ j.ledger.matches[m].next \in Nat \cup {None}
          /\ j.ledger.dates[d].next \in Nat \cup {None}
      BY <1>1, <1>2, LedgerFields, Constants
    <2>2. l.matches[m].attempts >= j.ledger.matches[m].attempts /\ l.matches[m].attempts \in Nat
      BY <1>10, <1>16, LedgerFields, <1>1 DEF Forward
    <2>3. CASE Shown(j.ledger, m)
      <3>1. j.ledger.matches[m].attempts >= MaxChecks \/ Found(j, m)
        BY <1>1, <2>3 DEF Telling
      <3> QED
        BY <1>14, <2>1, <2>2, <3>1
    <2>4. CASE ~Shown(j.ledger, m)
      <3>1. DateOf[m] = d
        BY <1>1, <1>10, <2>1, <2>4 DEF Shown
      <3>2. j.ledger.dates[d].etag # version[d]
        BY <1>1, <2>4, <3>1 DEF Shown
      <3>3. m \in j.base
        BY <1>1, EndedIsPlanned DEF Shown
      <3>4. m \in Ended(p, d)
        BY <3>1, <3>2, <3>3 DEF Ended, Shown
      <3>5. CASE m \in group
        BY <1>3, <1>13, <3>4, <3>5
      <3>6. CASE m \notin group
        <4>1. \/ j.ledger.matches[m].done \/ ~(j.ledger.matches[m].attempts < MaxChecks)
              \/ ~Passed(j.ledger.matches[m].next, j.start)
          BY <1>8, <3>1, <3>3, <3>6
        <4>2. Passed(j.ledger.matches[m].next, j.start)
          <5>1. j.ledger.matches[m].next # None =>
                   /\ j.ledger.dates[d].next # None
                   /\ j.ledger.matches[m].next <= j.ledger.dates[d].next
            BY <1>1, <3>1 DEF Regular
          <5> QED
            BY <1>1, <1>2, <2>1, <5>1, Constants DEF Passed
        <4>3. CASE j.ledger.matches[m].done
          <5>1. row[m] = "completed" \/ Found(j, m)
            BY <1>1, <4>3 DEF Based
          <5> QED
            BY <1>14, <5>1 DEF Shown
        <4>4. CASE ~(j.ledger.matches[m].attempts < MaxChecks)
          BY <2>1, <2>2, <4>4
        <4> QED
          BY <4>1, <4>2, <4>3, <4>4
      <3> QED
        BY <3>5, <3>6
    <2> QED
      BY <2>3, <2>4
  <1>20. /\ \A m \in Matches : work.ledger.matches[m].done
              => j.ledger.matches[m].done \/ Found(work, m)
         /\ work.revision = revision => work.base = InWindow(work.start)
    <2>1. \A m \in Matches : l.matches[m].done => j.ledger.matches[m].done \/ m \in ended
      BY <1>15
    <2>2. j.revision = revision => j.base = InWindow(j.start)
      BY <1>1 DEF Based
    <2> QED
      BY <1>12, <1>13, <2>1, <2>2
  <1>21. \E e \in Dates :
            /\ asked' = [asked EXCEPT ![e] = [by |-> p, start |-> work.start]]
            /\ work.ledger.dates[e].next # None
            /\ work.ledger.dates[e].next >= work.start + Recheck
    <2>1. asked' = [asked EXCEPT ![d] = [by |-> p, start |-> j.start]]
      BY <1>2 DEF FetchDate
    <2>2. stamp.next # None /\ stamp.next >= j.start + Recheck
      BY <1>4, <1>8, Constants
    <2> QED
      BY <1>2, <1>10, <1>12, <2>1, <2>2
  <1>22. UNCHANGED <<row, control, upstream, version, now>> /\ barred' \in Nat
    BY DEF FetchDate, world, Inv, Typed
  <1>23. place \in {"fetch", "finish"} /\ j.delta \subseteq work.delta
    BY <1>6, <1>12
  <1>24. Forward(j.ledger, work.ledger)
    BY <1>12, <1>16
  <1> QED
    BY <1>1, <1>7, <1>12, <1>18, <1>19, <1>20, <1>21, <1>22, <1>23, <1>24, WorksOn

-----------------------------------------------------------------------------
(* A run ends, or goes on to the reconciler. *)
LEMMA Unmoved ==
    ASSUME Inv, NEW q \in Procs, Active(q), pc'[q] = pc[q], job'[q] = job[q],
           UNCHANGED <<row, control, upstream, version, now, asked>>
    PROVE  Carried(q, pc[q], job[q])'
  <1>1. /\ Planned(pc[q], job[q]) /\ Based(pc[q], job[q]) /\ Leased(q, job[q])
        /\ Spaced(job[q]) /\ Telling(q, job[q])
    BY Fields DEF Carried
  <1>2. Planned(pc[q], job[q])'
    BY <1>1 DEF Planned, Regular
  <1>3. Based(pc[q], job[q])'
    BY <1>1 DEF Based, Forward, Found, InWindow, control
  <1>4. Leased(q, job[q])'
    BY <1>1 DEF Leased, control
  <1>5. Spaced(job[q])'
    BY <1>1 DEF Spaced, RestsIn
  <1>6. Telling(q, job[q])'
    BY <1>1 DEF Telling, Shown, Found, control
  <1> QED
    BY <1>2, <1>3, <1>4, <1>5, <1>6 DEF Carried

LEMMA EndStep ==
    ASSUME Inv, NEW p \in Procs, NEW place \in {"idle", "reconcile"}, NEW left,
           pc' = [pc EXCEPT ![p] = place], job' = [job EXCEPT ![p] = left],
           UNCHANGED <<row, control, upstream, version, now, asked, barred>>
    PROVE  Inv'
  <1>1. /\ ~Active(p)' /\ \A q \in Procs \ {p} : /\ pc'[q] = pc[q] /\ job'[q] = job[q]
                                                 /\ Active(q)' <=> Active(q)
        /\ job' = [q \in Procs |-> job'[q]]
        /\ pc' \in [Procs -> {"idle", "read", "fetch", "finish", "reconcile"}]
    BY DEF Inv, Typed, Active
  <1>2. Typed'
    BY <1>1 DEF Inv, Typed, control
  <1>3. Stored' /\ \A d \in Dates : Rested(d)'
    BY DEF Inv, Stored, Regular, CheckpointMatchesRow, Shown, Over, Rested, RestsIn, control
  <1>4. \A q \in Procs : Active(q)' => Carried(q, pc[q], job[q])'
    BY <1>1, Unmoved
  <1>5. \A q, r \in Procs : q # r /\ Active(q)' /\ Active(r)' => Apart(q, r)'
    BY <1>1 DEF Inv, Apart, control
  <1> QED
    BY <1>2, <1>3, <1>4, <1>5 DEF Inv

LEMMA AcquireStep ==
    ASSUME Inv, NEW p \in Procs, NEW kind \in {"current", "terminal"}, Acquire(p, kind)
    PROVE  Inv'
  <1>1. PICK todo, place, new :
           /\ todo = IF kind = "current" THEN DueTargets(ledger, now) ELSE {}
           /\ place = IF ~Passed(ledger.circuit, now) \/ (kind # "terminal" /\ todo = {}) THEN "finish"
                      ELSE IF kind = "terminal" THEN "read" ELSE "fetch"
           /\ new = [kind |-> kind, start |-> now, revision |-> revision,
                     ledger |-> ledger, base |-> {}, todo |-> todo, delta |-> {}]
    OBVIOUS
  <1>2. /\ pc[p] = "idle" /\ lease.expires <= now /\ lease' = [holder |-> p, expires |-> now + Lease]
        /\ job' = [job EXCEPT ![p] = new] /\ pc' = [pc EXCEPT ![p] = place]
        /\ UNCHANGED <<row, revision, ledger, barred, upstream, version, now, asked>>
    BY <1>1 DEF Acquire, Goto, world
  <1>3. todo \subseteq Targets /\ (kind = "terminal" => todo = {})
    BY <1>1, FirstOfSubset DEF DueTargets
  <1>4. /\ place \in {"read", "fetch", "finish"} /\ (place = "read" => kind = "terminal")
        /\ place = "fetch" => kind = "current" /\ todo # {}
    BY <1>1
  <1>5. /\ new \in Works /\ new.kind = kind /\ new.start = now /\ new.revision = revision
        /\ new.ledger = ledger /\ new.todo = todo /\ new.delta = {} /\ ledger \in Ledgers
        /\ now \in Nat /\ lease.expires \in Nat
    BY <1>1, <1>3, Fields, Constants DEF Works
  <1>6. /\ pc'[p] = place /\ job'[p] = new
        /\ \A q \in Procs \ {p} : pc'[q] = pc[q] /\ job'[q] = job[q] /\ (Active(q)' <=> Active(q))
        /\ job' = [q \in Procs |-> job'[q]]
        /\ pc' \in [Procs -> {"idle", "read", "fetch", "finish", "reconcile"}]
    BY <1>2, <1>4 DEF Inv, Typed, Active
  <1>7. Typed'
    BY <1>2, <1>5, <1>6, Constants DEF Inv, Typed
  <1>8. Stored'
    BY <1>2 DEF Inv, Stored, Regular, CheckpointMatchesRow, Shown, Over
  <1>9. ASSUME NEW d \in Dates
        PROVE  Rested(d)'
    BY <1>2, <1>5, Constants DEF Inv, Rested
  <1>10. Planned(pc[p], job[p])'
    <2>1. Regular(ledger)'
      BY <1>2 DEF Inv, Stored, Regular
    <2> QED
      BY <1>2, <1>3, <1>4, <1>5, <1>6, <2>1 DEF Planned, Regular
  <1>11. Based(pc[p], job[p])'
    <2>1. Forward(ledger, ledger) /\ \A m \in Matches : ledger.matches[m].done => row[m] = "completed"
      BY <1>5, ForwardReflexive DEF Inv, Stored, CheckpointMatchesRow
    <2> QED
      BY <1>2, <1>4, <1>5, <1>6, <2>1, Fields DEF Based, Forward
  <1>12. Leased(p, job[p])'
    BY <1>2, <1>5, <1>6 DEF Leased, Inv, Rested
  <1>13. Spaced(job[p])'
    <2> SUFFICES ASSUME NEW d \in Dates, asked[d].by # None
                 PROVE  now >= asked[d].start + Recheck \/ RestsIn(ledger, d)
      BY <1>2, <1>5, <1>6 DEF Spaced, RestsIn
    <2> QED
      BY <1>2, <1>5, Constants DEF Inv, Rested
  <1>14. Telling(p, job[p])'
    BY <1>2, <1>5, <1>6 DEF Telling, Shown, Inv, Stored
  <1>15. ASSUME NEW q \in Procs \ {p}, Active(q)
         PROVE  /\ Carried(q, pc[q], job[q])' /\ job[q].start + Lease <= now
                /\ job[q].start \in Nat
    <2>1. /\ Planned(pc[q], job[q]) /\ Based(pc[q], job[q]) /\ Leased(q, job[q])
          /\ Spaced(job[q]) /\ job[q].start \in Nat /\ pc'[q] = pc[q] /\ job'[q] = job[q]
      BY <1>6, <1>15, Fields DEF Carried, Works
    <2>2. job[q].start + Lease <= now
      BY <1>2, <2>1 DEF Leased
    <2>3. Planned(pc[q], job[q])'
      BY <1>2, <2>1 DEF Planned, Regular
    <2>4. Based(pc[q], job[q])'
      BY <1>2, <2>1 DEF Based, Forward, Found, InWindow
    <2>5. Leased(q, job[q])'
      BY <1>2, <2>1, <2>2 DEF Leased
    <2>6. Spaced(job[q])'
      BY <1>2, <2>1 DEF Spaced, RestsIn
    <2>7. Telling(q, job[q])'
      BY <1>2, <2>1 DEF Telling
    <2> QED
      BY <2>1, <2>2, <2>3, <2>4, <2>5, <2>6, <2>7 DEF Carried
  <1>16. \A q \in Procs : Active(q)' => Carried(q, pc[q], job[q])'
    BY <1>6, <1>10, <1>11, <1>12, <1>13, <1>14, <1>15 DEF Carried
  <1>17. ASSUME NEW q \in Procs, NEW r \in Procs, q # r, Active(q)', Active(r)'
         PROVE  Apart(q, r)'
    <2>1. CASE q # p /\ r # p
      BY <1>2, <1>6, <1>17, <2>1 DEF Inv, Apart
    <2>2. CASE q = p \/ r = p
      BY <1>2, <1>5, <1>6, <1>15, <1>17, <2>2 DEF Apart
    <2> QED
      BY <2>1, <2>2
  <1> QED
    BY <1>7, <1>8, <1>9, <1>16, <1>17 DEF Inv

-----------------------------------------------------------------------------
(* What a publication makes of the rows: no result regresses, and what a     *)
(* terminal run found is there.                                              *)
LEMMA PublishedRows ==
    ASSUME Inv, NEW p \in Procs, Finish(p)
    PROVE  /\ row' \in [Matches -> {"scheduled", "completed"}]
           /\ \A m \in Matches : row[m] = "completed" => row'[m] = "completed"
           /\ \A m \in Matches : Found(job[p], m) => row'[m] = "completed"
  <1> DEFINE delta == Accepted(job[p].delta)
  <1>1. Active(p) /\ job[p] \in Works /\ Planned(pc[p], job[p])
    BY RunFields DEF Finish, Active
  <1>2. delta \subseteq News
    BY <1>1 DEF Works, Accepted
  <1>3. row' = [m \in Matches |-> IF \E s \in delta : s[1] = m
                                  THEN (CHOOSE s \in delta : s[1] = m)[2] ELSE row[m]]
    BY DEF Finish
  <1>4. ASSUME NEW m \in Matches, NEW s \in delta, s[1] = m
        PROVE  \E t \in delta : t[1] = m /\ row'[m] = t[2]
    <2>1. (CHOOSE t \in delta : t[1] = m) \in delta /\ (CHOOSE t \in delta : t[1] = m)[1] = m
      BY <1>4
    <2> QED
      BY <1>3, <1>4, <2>1
  <1>5. \A m \in Matches : (\A s \in delta : s[1] # m) => row'[m] = row[m]
    BY <1>3
  <1>6. row' \in [Matches -> {"scheduled", "completed"}]
    <2>1. ASSUME NEW m \in Matches PROVE row'[m] \in {"scheduled", "completed"}
      <3>1. CASE \E s \in delta : s[1] = m
        BY <1>2, <1>4, <3>1 DEF News
      <3>2. CASE \A s \in delta : s[1] # m
        BY <1>5, <3>2 DEF Inv, Typed
      <3> QED
        BY <3>1, <3>2
    <2> QED
      BY <1>3, <2>1
  <1>7. ASSUME NEW m \in Matches, row[m] = "completed"
        PROVE  row'[m] = "completed"
    <2>1. \A s \in delta : s[1] = m => s[2] = "completed"
      BY <1>7 DEF Accepted
    <2> QED
      BY <1>4, <1>5, <1>7, <2>1
  <1>8. ASSUME NEW m \in Matches, Found(job[p], m)
        PROVE  row'[m] = "completed"
    <2>1. job[p].delta \subseteq Matches \X {"completed"}
      BY <1>1, <1>8 DEF Planned, Found
    <2>2. \A s \in delta : s[2] = "completed"
      BY <2>1 DEF Accepted
    <2>3. <<m, "completed">> \in delta
      BY <1>8 DEF Accepted, Found
    <2>4. \E t \in delta : t[1] = m /\ row'[m] = t[2]
      BY <1>4, <2>3
    <2> QED
      BY <2>2, <2>4
  <1> QED
    BY <1>6, <1>7, <1>8

LEMMA FinishStep ==
    ASSUME Inv, NEW p \in Procs, Finish(p)
    PROVE  Inv'
  <1>0. PICK j : j = job[p]
    OBVIOUS
  <1>1. /\ Active(p) /\ j \in Works /\ j.ledger \in Ledgers /\ j.start \in Nat
        /\ Planned(pc[p], j) /\ Based(pc[p], j) /\ Leased(p, j) /\ Spaced(j) /\ Telling(p, j)
        /\ lease.holder = p /\ lease.expires > now /\ revision = j.revision
    BY <1>0, RunFields, Fields DEF Finish, Fenced, Active, Carried
  <1>2. /\ ledger' = j.ledger /\ revision' = revision + 1 /\ revision \in Nat
        /\ lease' = [holder |-> None, expires |-> 0] /\ now \in Nat
        /\ UNCHANGED <<barred, upstream, version, now, asked>>
    BY <1>0, Fields DEF Finish, Free, world
  <1>3. /\ ~Active(p)' /\ \A q \in Procs \ {p} : /\ pc'[q] = pc[q] /\ job'[q] = job[q]
                                                 /\ Active(q)' <=> Active(q)
        /\ job' = [q \in Procs |-> job'[q]]
        /\ pc' \in [Procs -> {"idle", "read", "fetch", "finish", "reconcile"}]
    <2>1. \E place \in {"idle", "reconcile"} : \E left :
             pc' = [pc EXCEPT ![p] = place] /\ job' = [job EXCEPT ![p] = left]
      BY DEF Finish, Goto, Leave
    <2>2. PICK place \in {"idle", "reconcile"} : \E left :
             pc' = [pc EXCEPT ![p] = place] /\ job' = [job EXCEPT ![p] = left]
      BY <2>1
    <2>3. PICK left : pc' = [pc EXCEPT ![p] = place] /\ job' = [job EXCEPT ![p] = left]
      BY <2>2
    <2> QED
      BY <2>3 DEF Inv, Typed, Active
  <1>4. /\ row' \in [Matches -> {"scheduled", "completed"}]
        /\ \A m \in Matches : row[m] = "completed" => row'[m] = "completed"
        /\ \A m \in Matches : Found(j, m) => row'[m] = "completed"
    BY <1>0, PublishedRows
  <1>5. Typed'
    <2>1. \A q \in Procs : Active(q)' => job'[q] \in Works
      BY <1>3 DEF Inv, Typed
    <2>2. ledger' \in Ledgers /\ revision' \in Nat
      BY <1>1, <1>2
    <2>3. lease' \in [holder : Procs \cup {None}, expires : Nat]
      BY <1>2
    <2> QED
      BY <1>2, <1>3, <1>4, <2>1, <2>2, <2>3 DEF Inv, Typed
  <1>6. Stored'
    <2>1. Regular(ledger)'
      BY <1>1, <1>2 DEF Planned, Regular
    <2>2. CheckpointMatchesRow'
      BY <1>1, <1>2, <1>4 DEF Based, CheckpointMatchesRow
    <2>3. ASSUME NEW m \in Matches, Shown(ledger, m)'
          PROVE  ledger'.matches[m].attempts >= MaxChecks
      <3>1. row'[m] = "scheduled" /\ row[m] = "scheduled"
        BY <1>4, <2>3 DEF Shown, Inv, Typed
      <3>2. Shown(j.ledger, m) /\ ~Found(j, m)
        BY <1>2, <1>4, <2>3, <3>1 DEF Shown
      <3> QED
        BY <1>1, <1>2, <3>2 DEF Telling
    <2>4. \A m \in Matches : upstream'[m] = "completed" => Over(m, now)'
      BY <1>2 DEF Inv, Stored, Over
    <2> QED
      BY <2>1, <2>2, <2>3, <2>4 DEF Stored
  <1>7. ASSUME NEW d \in Dates
        PROVE  Rested(d)'
    <2> SUFFICES ASSUME asked[d].by # None
                 PROVE  /\ asked[d].start \in Nat /\ asked[d].start <= now
                        /\ now >= asked[d].start + Recheck \/ RestsIn(j.ledger, d)
      BY <1>2 DEF Rested, RestsIn
    <2>1. asked[d].start \in Nat /\ asked[d].start <= now /\ asked[d].start <= j.start
      BY <1>1 DEF Inv, Rested, Leased
    <2>2. j.start <= now
      BY <1>1 DEF Planned
    <2>3. \/ j.start >= asked[d].start + Recheck \/ asked[d].start >= j.start + Recheck
          \/ RestsIn(j.ledger, d)
      BY <1>1 DEF Spaced
    <2> QED
      BY <1>1, <1>2, <2>1, <2>2, <2>3, Constants
  <1>8. ASSUME NEW q \in Procs \ {p}, Active(q)
        PROVE  Carried(q, pc[q], job[q])'
    <2>1. /\ Planned(pc[q], job[q]) /\ Based(pc[q], job[q]) /\ Leased(q, job[q])
          /\ Spaced(job[q]) /\ job[q].revision \in Nat /\ pc'[q] = pc[q] /\ job'[q] = job[q]
      BY <1>3, <1>8, Fields DEF Carried, Works
    <2>2. Planned(pc[q], job[q])'
      BY <1>2, <2>1 DEF Planned, Regular
    <2>3. Based(pc[q], job[q])'
      BY <1>2, <2>1 DEF Based
    <2>4. Leased(q, job[q])'
      BY <1>1, <1>2, <2>1, Constants DEF Leased
    <2>5. Spaced(job[q])'
      BY <1>2, <2>1 DEF Spaced, RestsIn
    <2>6. Telling(q, job[q])'
      BY <1>2, <2>1, Constants DEF Telling
    <2> QED
      BY <2>2, <2>3, <2>4, <2>5, <2>6 DEF Carried
  <1>9. \A q \in Procs : Active(q)' => Carried(q, pc[q], job[q])'
    BY <1>3, <1>8
  <1>10. \A q, r \in Procs : q # r /\ Active(q)' /\ Active(r)' => Apart(q, r)'
    BY <1>2, <1>3, Constants DEF Inv, Apart
  <1> QED
    BY <1>5, <1>6, <1>7, <1>9, <1>10 DEF Inv

(* A match ends, or time passes: what ETags vouched for they only lose. *)
LEMMA WorldStep ==
    ASSUME Inv, Tick \/ \E m \in Matches : FullTime(m)
    PROVE  Inv'
  <1>1. /\ UNCHANGED <<row, lease, revision, ledger, barred, pc, job, asked>>
        /\ now \in Nat /\ now' \in Nat /\ now <= now'
    BY Fields DEF Tick, FullTime, control
  <1>2. /\ version' \in [Dates -> Nat] /\ \A d \in Dates : version[d] \in Nat /\ version[d] <= version'[d]
        /\ upstream' \in [Matches -> {"scheduled", "completed"}]
        /\ \A m \in Matches :
             \/ upstream'[m] = upstream[m]
             \/ version'[DateOf[m]] = version[DateOf[m]] + 1 /\ Kickoff[m] + Length <= now
    <2>1. /\ version \in [Dates -> Nat] /\ upstream \in [Matches -> {"scheduled", "completed"}]
          /\ \A d \in Dates : version[d] <= version[d]
      BY DEF Inv, Typed
    <2>2. CASE Tick
      <3>1. version' = version /\ upstream' = upstream
        BY <2>2 DEF Tick
      <3> QED
        BY <2>1, <3>1
    <2>3. CASE \E m \in Matches : FullTime(m)
      <3>1. PICK m \in Matches : FullTime(m)
        BY <2>3
      <3>2. /\ upstream' = [upstream EXCEPT ![m] = "completed"] /\ Kickoff[m] + Length <= now
            /\ version' = [version EXCEPT ![DateOf[m]] = version[DateOf[m]] + 1]
        BY <3>1 DEF FullTime, Over
      <3>3. /\ DateOf[m] \in Dates /\ version[DateOf[m]] \in Nat
            /\ version'[DateOf[m]] = version[DateOf[m]] + 1
        BY <2>1, <3>2, Constants
      <3>4. version' \in [Dates -> Nat] /\ upstream' \in [Matches -> {"scheduled", "completed"}]
        BY <2>1, <3>2, <3>3
      <3>5. \A d \in Dates : version[d] \in Nat /\ version[d] <= version'[d]
        BY <2>1, <3>2, <3>3
      <3>6. \A n \in Matches \ {m} : upstream'[n] = upstream[n]
        BY <2>1, <3>2
      <3> QED
        BY <3>2, <3>3, <3>4, <3>5, <3>6
    <2> QED
      BY <2>2, <2>3
  <1>3. Typed'
    BY <1>1, <1>2 DEF Inv, Typed, Active
  <1>4. ASSUME NEW l \in Ledgers, Regular(l)
        PROVE  Regular(l)' /\ \A m \in Matches : Shown(l, m)' => Shown(l, m)
    <2>1. Regular(l)'
      BY <1>2, <1>4, LedgerFields DEF Regular
    <2>2. ASSUME NEW m \in Matches, Shown(l, m)'
          PROVE  Shown(l, m)
      <3>1. /\ l.dates[DateOf[m]].etag = version'[DateOf[m]]
            /\ version'[DateOf[m]] \in Nat /\ version[DateOf[m]] \in Nat
            /\ version[DateOf[m]] <= version'[DateOf[m]]
        BY <1>2, <2>2, Constants DEF Shown
      <3>2. l.dates[DateOf[m]].etag <= version[DateOf[m]]
        BY <1>4, <3>1, Constants DEF Regular
      <3>3. version'[DateOf[m]] = version[DateOf[m]]
        BY <3>1, <3>2
      <3>4. upstream'[m] = upstream[m]
        BY <1>2, <3>1, <3>3
      <3>5. now < Kickoff[m] + Cutoff
        BY <1>1, <2>2, Constants DEF Shown
      <3> QED
        BY <1>1, <2>2, <3>1, <3>3, <3>4, <3>5 DEF Shown
    <2> QED
      BY <2>1, <2>2
  <1>5. Stored'
    <2>1. Regular(ledger)' /\ \A m \in Matches : Shown(ledger, m)' => ledger'.matches[m].attempts >= MaxChecks
      <3>1. PICK l \in Ledgers : l = ledger
        BY Fields
      <3>2. Regular(l) /\ \A m \in Matches : Shown(l, m) => l.matches[m].attempts >= MaxChecks
        BY <3>1 DEF Inv, Stored
      <3>3. Regular(l)' /\ \A m \in Matches : Shown(l, m)' => l.matches[m].attempts >= MaxChecks
        BY <1>4, <3>2
      <3> QED
        BY <1>1, <3>1, <3>3 DEF Regular, Shown
    <2>2. CheckpointMatchesRow'
      BY <1>1 DEF Inv, Stored, CheckpointMatchesRow
    <2>3. ASSUME NEW m \in Matches, upstream'[m] = "completed"
          PROVE  Over(m, now)'
      BY <1>1, <1>2, <2>3, Constants DEF Inv, Stored, Over
    <2> QED
      BY <2>1, <2>2, <2>3 DEF Stored
  <1>6. ASSUME NEW d \in Dates
        PROVE  Rested(d)'
    BY <1>1, Constants DEF Inv, Rested, RestsIn
  <1>7. ASSUME NEW q \in Procs, Active(q)
        PROVE  Carried(q, pc[q], job[q])'
    <2>1. PICK j, place :
             /\ j = job[q] /\ place = pc[q] /\ j \in Works /\ j.ledger \in Ledgers /\ j.start \in Nat
             /\ Planned(place, j) /\ Based(place, j) /\ Leased(q, j) /\ Spaced(j) /\ Telling(q, j)
      BY <1>7, Fields DEF Carried, Works
    <2>2. Regular(j.ledger) /\ Regular(j.ledger)'
      BY <1>4, <2>1 DEF Planned
    <2>3. Planned(pc[q], job[q])'
      <3>1. j.start <= now'
        BY <1>1, <2>1, Fields DEF Planned
      <3> QED
        BY <1>1, <2>1, <2>2, <3>1 DEF Planned
    <2>4. Based(pc[q], job[q])'
      BY <1>1, <2>1 DEF Based, Forward, Found, InWindow
    <2>5. Leased(q, job[q])'
      BY <1>1, <2>1, Constants DEF Leased
    <2>6. Spaced(job[q])'
      BY <1>1, <2>1 DEF Spaced, RestsIn
    <2>7. Telling(q, job[q])'
      <3>1. lease.expires > now' => lease.expires > now
        BY <1>1, Fields
      <3>2. \A m \in Matches : Shown(j.ledger, m)' => Shown(j.ledger, m)
        BY <1>4, <2>1, <2>2
      <3> QED
        BY <1>1, <2>1, <3>1, <3>2 DEF Telling, Shown, Found
    <2> QED
      BY <2>3, <2>4, <2>5, <2>6, <2>7 DEF Carried
  <1>8. \A q, r \in Procs : q # r /\ Active(q)' /\ Active(r)' => Apart(q, r)'
    BY <1>1 DEF Inv, Apart, Active
  <1>9. \A q \in Procs : Active(q)' => Active(q)
    BY <1>1 DEF Active
  <1> QED
    BY <1>3, <1>5, <1>6, <1>7, <1>8, <1>9 DEF Inv

-----------------------------------------------------------------------------
LEMMA InitInv ==
    ASSUME Init
    PROVE  Inv
  <1>1. /\ now \in Nat /\ Unchecked \in Checks /\ UsedUp \in Checks /\ Unchecked.next = None
        /\ UsedUp.next = None /\ Unchecked.done = FALSE /\ UsedUp.done = FALSE
    <2>1. now \in Nat
      BY Constants DEF Init
    <2>2. 0 \in 0..MaxChecks /\ MaxChecks \in 0..MaxChecks
      BY Constants
    <2>3. Unchecked \in Checks /\ Unchecked.next = None /\ Unchecked.done = FALSE
      BY <2>2 DEF Unchecked, Checks, MaybeTime
    <2>4. PICK u \in Checks : u = Unchecked
      BY <2>3
    <2>5. [u EXCEPT !.attempts = MaxChecks] \in Checks
      BY <2>2 DEF Checks
    <2>6. /\ [u EXCEPT !.attempts = MaxChecks].next = u.next
          /\ [u EXCEPT !.attempts = MaxChecks].done = u.done
      BY DEF Checks
    <2> QED
      BY <2>1, <2>3, <2>4, <2>5, <2>6 DEF UsedUp
  <1>2. Untouched \in Stamps /\ [Untouched EXCEPT !.etag = 0] \in Stamps /\ Unfetched \in Fetches
    <2>1. 0 \in 0..Levels
      BY Constants
    <2> QED
      BY <2>1 DEF Untouched, Unfetched, Stamps, Fetches, MaybeTime
  <1>3. ledger \in [contract : {1}, circuit : {None}, matches : [Matches -> {Unchecked, UsedUp}],
                    dates : [Dates -> {Untouched, [Untouched EXCEPT !.etag = 0]}],
                    current : {[k \in Targets |-> Unfetched]}]
    BY DEF Init, OldLedgers
  <1>4. ledger \in Ledgers /\ ledger.contract = 1
    <2>1. /\ ledger.matches \in [Matches -> Checks] /\ ledger.dates \in [Dates -> Stamps]
          /\ ledger.current \in [Targets -> Fetches] /\ ledger.circuit \in MaybeTime
      BY <1>1, <1>2, <1>3 DEF MaybeTime
    <2> QED
      BY <1>3, <2>1 DEF Ledgers
  <1>5. \A m \in Matches : ledger.matches[m].next = None /\ ledger.matches[m].done = FALSE
    BY <1>1, <1>3
  <1>6. \A d \in Dates : ledger.dates[d].etag \in {None, 0} /\ version[d] = 0
    BY <1>3 DEF Init, Untouched
  <1>7. Typed
    BY <1>1, <1>4, Constants DEF Init, Typed, Free, Active, MaybeTime
  <1>8. Stored
    <2>1. Regular(ledger)
      <3>1. ASSUME NEW d \in Dates, ledger.dates[d].etag # None
            PROVE  ledger.dates[d].etag <= version[d]
        <4>1. ledger.dates[d].etag = 0 /\ version[d] = 0
          BY <1>6, <3>1
        <4> QED
          BY <4>1
      <3>2. \A m \in Matches : ledger.matches[m].next = None
        BY <1>5
      <3> QED
        BY <3>1, <3>2 DEF Regular
    <2> QED
      BY <1>4, <1>5, <2>1 DEF Init, Stored, CheckpointMatchesRow, Shown
  <1>9. /\ \A d \in Dates : Rested(d)
        /\ \A p \in Procs : ~Active(p)
    BY DEF Init, Rested, Active
  <1> QED
    BY <1>7, <1>8, <1>9 DEF Inv

LEMMA NextInv ==
    ASSUME Inv, [Next]_vars
    PROVE  Inv'
  <1>1. CASE UNCHANGED vars
    <2>1. Typed'
      BY <1>1 DEF vars, control, world, Inv, Typed, Active
    <2>2. Stored' /\ \A d \in Dates : Rested(d)'
      BY <1>1 DEF vars, control, world, Inv, Stored, Regular, CheckpointMatchesRow, Shown, Over,
                  Rested, RestsIn
    <2>3. \A p \in Procs : Active(p)' => Carried(p, pc[p], job[p])'
      BY <1>1, Unmoved DEF vars, control, world, Active
    <2>4. \A p, q \in Procs : p # q /\ Active(p)' /\ Active(q)' => Apart(p, q)'
      BY <1>1 DEF vars, control, world, Inv, Apart, Active
    <2> QED
      BY <2>1, <2>2, <2>3, <2>4 DEF Inv
  <1>2. CASE Tick \/ \E m \in Matches : FullTime(m)
    BY <1>2, WorldStep
  <1>3. ASSUME NEW p \in Procs, \E kind \in {"current", "terminal"} : Acquire(p, kind)
        PROVE  Inv'
    BY <1>3, AcquireStep
  <1>4. ASSUME NEW p \in Procs, ReadDue(p)
        PROVE  Inv'
    BY <1>4, ReadDueStep
  <1>5. ASSUME NEW p \in Procs,
               \E ended \in SUBSET Matches, modified \in BOOLEAN : FetchTarget(p, ended, modified)
        PROVE  Inv'
    BY <1>5, FetchTargetStep
  <1>6. ASSUME NEW p \in Procs, FetchDate(p)
        PROVE  Inv'
    BY <1>6, FetchDateStep
  <1>7. ASSUME NEW p \in Procs, \E refused \in BOOLEAN : FetchFails(p, refused)
        PROVE  Inv'
    BY <1>7, FailCurrentStep, FailDateStep
  <1>8. ASSUME NEW p \in Procs, PastDeadline(p)
        PROVE  Inv'
    BY <1>8, PastDeadlineStep
  <1>9. ASSUME NEW p \in Procs, Finish(p)
        PROVE  Inv'
    BY <1>9, FinishStep
  <1>10. ASSUME NEW p \in Procs, Refused(p)
         PROVE  Inv'
    BY <1>10, EndStep DEF Refused, Leave, Goto, control, world
  <1>11. ASSUME NEW p \in Procs, Reconcile(p)
         PROVE  Inv'
    BY <1>11, EndStep DEF Reconcile, Leave, Goto, control, world
  <1>12. ASSUME NEW p \in Procs, Abort(p)
         PROVE  Inv'
    BY <1>12, EndStep DEF Abort, Leave, Goto, control
  <1> QED
    BY <1>1, <1>2, <1>3, <1>4, <1>5, <1>6, <1>7, <1>8, <1>9, <1>10, <1>11, <1>12 DEF Next

THEOREM Invariance == Spec => []Inv
  <1>1. Init => Inv
    BY InitInv
  <1>2. Inv /\ [Next]_vars => Inv'
    BY NextInv
  <1> QED
    BY <1>1, <1>2, PTL DEF Spec

(* No checkpoint without what it stands for: a match is ticked off in the     *)
(* stored ledger only when its row shows the result, whatever runs overlap,   *)
(* outlive their lease or stop half-way.                                      *)
THEOREM CheckpointsMatchRows == Spec => []CheckpointMatchesRow
  <1>1. Inv => CheckpointMatchesRow
    BY DEF Inv, Stored
  <1> QED
    BY <1>1, Invariance, PTL

(* No ETag in the stored ledger hides a result of a match that may still be   *)
(* checked: neither of a body read before the match ended, nor of one that    *)
(* was filtered to the matches due, nor of one the former parser got wrong.   *)
THEOREM NoResultIsHidden == Spec => []NoHiddenResult
  <1>1. Inv => NoHiddenResult
    BY DEF Inv, Stored, Shown, NoHiddenResult, InWindow
  <1> QED
    BY <1>1, Invariance, PTL

(* Only a publication changes rows and ledger. *)
LEMMA OnlyFinishPublishes ==
    ASSUME Next, \A p \in Procs : ~Finish(p)
    PROVE  UNCHANGED <<row, ledger>>
  BY ZenonT(40) DEF Next, Acquire, ReadDue, FetchTarget, FetchDate, FetchFails, PastDeadline, Refused, Reconcile,
         Abort, FullTime, Tick, control

(* A published result is never taken back: a season file that is behind the   *)
(* daily feed loses against the row.                                          *)
THEOREM ResultsStay == Spec => CompletedStays
  <1>1. Inv /\ [Next]_vars
          => [\A m \in Matches : row[m] = "completed" => row'[m] = "completed"]_vars
    BY PublishedRows, OnlyFinishPublishes
  <1> QED
    BY <1>1, Invariance, PTL DEF Spec, CompletedStays

(* The stored ledger never goes back: a publication says of every match and   *)
(* date at least what the ledger it replaces says.                            *)
THEOREM LedgersMoveForward == Spec => LedgerMovesForward
  <1>1. Inv /\ [Next]_vars
          => [/\ \A m \in Matches :
                   LET old == ledger.matches[m] new == ledger'.matches[m] IN
                   /\ old.done => new.done
                   /\ ledger.contract = 2 => new.attempts >= old.attempts
              /\ \A d \in Dates :
                   ledger.dates[d].next # None =>
                      ledger'.dates[d].next # None /\ ledger'.dates[d].next >= ledger.dates[d].next]_vars
    <2> SUFFICES ASSUME Inv, Next
                 PROVE  Forward(ledger, ledger')
      BY DEF Forward
    <2>1. CASE \E p \in Procs : Finish(p)
      <3>1. PICK p \in Procs : Finish(p)
        BY <2>1
      <3>2. Active(p) /\ ledger' = job[p].ledger /\ revision = job[p].revision
        BY <3>1 DEF Finish, Fenced, Active
      <3> QED
        BY <3>2, RunFields DEF Based
    <2>2. CASE \A p \in Procs : ~Finish(p)
      BY <2>2, OnlyFinishPublishes, Fields, ForwardReflexive
    <2> QED
      BY <2>1, <2>2
  <1> QED
    BY <1>1, Invariance, PTL DEF Spec, LedgerMovesForward

(* A run asks for the first date it has left, which was not resting in the    *)
(* ledger the run started with.                                               *)
LEMMA AskedWhenDue ==
    ASSUME Inv, NEW p \in Procs, pc[p] = "fetch", job[p].kind = "terminal",
           NEW d, d = Min(job[p].todo), asked[d].by # None
    PROVE  /\ d \in Dates
           /\ \/ job[p].start >= asked[d].start + Recheck
              \/ asked[d].start >= job[p].start + Recheck
  <1>1. PICK j : j = job[p]
    OBVIOUS
  <1>2. /\ Active(p) /\ j.todo \in SUBSET Nat /\ j.todo # {} /\ j.todo \subseteq Dates
        /\ j.start \in Nat /\ j.ledger \in Ledgers /\ Spaced(j)
        /\ \A e \in j.todo : Passed(j.ledger.dates[e].next, j.start)
    <2>1. Active(p)
      BY DEF Active
    <2> QED
      BY <1>1, <2>1, RunFields, Fields DEF Planned, Carried
  <1>3. d \in j.todo
    BY <1>1, <1>2, MinIsLeast
  <1>4. d \in Dates /\ asked[d].start \in Nat /\ j.ledger.dates[d].next \in Nat \cup {None}
    BY <1>2, <1>3, LedgerFields DEF Inv, Rested
  <1>5. \/ j.start >= asked[d].start + Recheck \/ asked[d].start >= j.start + Recheck
        \/ RestsIn(j.ledger, d)
    BY <1>2, <1>4 DEF Spaced
  <1>6. Passed(j.ledger.dates[d].next, j.start)
    BY <1>2, <1>3
  <1> QED
    BY <1>1, <1>2, <1>4, <1>5, <1>6, Constants DEF RestsIn, Passed

(* Runs that ask for the same date start at least the pause between checks    *)
(* apart: while a run holds the lease no other starts, and a lease that was   *)
(* given back early has left the pause in the ledger.                         *)
THEOREM DateRequestsAreSpaced == Spec => DateRequestsSpaced
  <1>1. Inv /\ [Next]_vars
          => [\A d \in Dates :
                asked'[d] # asked[d] /\ asked[d].by # None =>
                   \/ asked'[d].start >= asked[d].start + Recheck
                   \/ asked[d].start >= asked'[d].start + Recheck]_vars
    <2> SUFFICES ASSUME Inv, Next, NEW d \in Dates, asked'[d] # asked[d], asked[d].by # None
                 PROVE  \/ asked'[d].start >= asked[d].start + Recheck
                        \/ asked[d].start >= asked'[d].start + Recheck
      OBVIOUS
    <2>1. PICK p \in Procs : FetchDate(p) \/ \E refused \in BOOLEAN : FetchFails(p, refused)
      BY DEF Next, Acquire, ReadDue, FetchTarget, PastDeadline, Finish, Refused, Reconcile, Abort,
             FullTime, Tick
    <2>2. PICK x : x = Min(job[p].todo)
      OBVIOUS
    <2>3. /\ pc[p] = "fetch"
          /\ \/ job[p].kind = "terminal"
             \/ job[p].kind # "current" /\ \E refused \in BOOLEAN : FetchFails(p, refused)
          /\ asked' = [asked EXCEPT ![x] = [by |-> p, start |-> job[p].start]]
      BY <2>1, <2>2 DEF FetchDate, FetchFails, Asking
    <2>4. job[p].kind = "terminal"
      BY <2>3, RunFields DEF Works, Active
    <2>5. d = x /\ asked'[d].start = job[p].start
      <3>1. asked \in [Dates -> [by : Procs \cup {None}, start : MaybeTime]]
        BY DEF Inv, Typed
      <3> QED
        BY <2>3, <3>1
    <2> QED
      BY <2>2, <2>3, <2>4, <2>5, AskedWhenDue
  <1> QED
    BY <1>1, Invariance, PTL DEF Spec, DateRequestsSpaced

(* The control row, its ledger and the match rows keep their types. *)
THEOREM TypeInvariant == Spec => []TypeOK
  <1>1. Inv => TypeOK
    BY DEF Inv, Typed, TypeOK, Ledgers, Checks, Stamps, Fetches
  <1> QED
    BY <1>1, Invariance, PTL
=============================================================================
