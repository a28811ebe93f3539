--------------------------- MODULE WorkerJobsProofs ---------------------------
(***************************************************************************)
(* Proofs about WorkerJobs for any processes, matches, dates and season    *)
(* files.                                                                  *)
(*                                                                         *)
(* That the manifest names a complete version does not rest on the locks:  *)
(* a version is begun under a number nobody uses, and what a job may still *)
(* remove is its own and not yet named (Begun).  Everything else does: as  *)
(* long as no lock was taken from a running process, a job at work has the *)
(* publication lock (Exclusive), so the snapshot it has read is the one it *)
(* replaces, and what it carries is compared with it at every step (Based).*)
(***************************************************************************)
EXTENDS WorkerJobs, TLAPS, WellFoundedInduction

Statuses == {"scheduled", "live", "postponed", "completed"}
Outcomes == {"scheduled", "postponed", "completed"}
Numbers  == {None} \cup 0..MaxVersions
Works    == [kind : {"season", "results"}, base : Numbers, version : Numbers, todo : SUBSET Nat,
             group : SUBSET Matches, ok : SUBSET (Nat \X Nat), delta : SUBSET (Matches \X Outcomes),
             gone : SUBSET Matches]

Waiting == {"want", "retry", "unlink"}
AtWork  == {"plan", "fetch", "build", "publish", "record"}

Typed ==
    /\ lock \in [Locks -> Procs \cup {Free, Dead}]
    /\ versions \in [0..MaxVersions -> Snapshots \cup {None}] /\ manifest \in 0..MaxVersions
    /\ season \in [Targets -> Nat \cup {None}]
    /\ results = [match |-> results.match, etag |-> results.etag]
    /\ upstream = [match |-> upstream.match, file |-> upstream.file, body |-> upstream.body]
    /\ upstream.match \in [Matches -> Statuses] /\ upstream.body \in [Dates -> Nat]
    /\ upstream.file = [k \in Targets |-> upstream.file[k]]
    /\ \A k \in Targets : upstream.file[k] \in [edition : Nat, says : [MatchesOf(k) -> Statuses]]
    /\ evicted \in BOOLEAN
    /\ pc \in [Procs -> {"idle", "leave"} \cup Waiting \cup AtWork]
    /\ job = [p \in Procs |-> job[p]]
    /\ \A p \in Procs : pc[p] # "idle" => job[p] \in Works

(* A version that no job may remove. *)
Standing(v) ==
    /\ v \in 0..MaxVersions /\ versions[v] # None
    /\ \A q \in Procs : pc[q] = "publish" => job[q].version # v

(* A job may remove the version it has begun, which no one else refers to. *)
Begun ==
    /\ Standing(manifest)
    /\ \A p \in Procs : pc[p] = "publish" =>
         /\ job[p].version \in 0..MaxVersions /\ versions[job[p].version] # None
         /\ \A q \in Procs \ {p} : pc[q] = "publish" => job[q].version # job[p].version
    /\ \A p \in Procs : pc[p] \in {"fetch", "build"} /\ job[p].kind = "results" => Standing(job[p].base)

Exclusive == ~evicted => \A p \in Procs : pc[p] \in AtWork => lock["publication"] = p

(* What a job at a place has planned and found. *)
Planned(place, j) ==
    /\ place \in Waiting \cup {"plan", "fetch", "build"} => j.version = None
    /\ place \in Waiting \cup {"plan"} => j.ok = {} /\ j.delta = {}
    /\ place = "fetch" => j.todo # {}
    /\ j.kind = "results" => j.todo \subseteq Dates /\ \A s \in j.delta : s[2] \in Terminal
    /\ j.kind = "season" =>
         /\ j.todo \subseteq Targets
         /\ \A s \in j.delta : TargetOf[s[1]] \notin j.todo /\ s[2] # "live"
         /\ \A s, t \in j.delta : s[1] = t[1] => s[2] = t[2]
         /\ \A e \in j.ok : e[1] \in Targets /\ e[2] <= upstream.file[e[1]].edition

(* The season file of k as it is has nothing that is neither in the snapshot *)
(* w nor among the news delta.                                               *)
Shown(k, w, delta) ==
    \A m \in MatchesOf(k) :
        LET s == upstream.file[k].says[m] IN
        /\ s # "live" => w[m] # "absent" \/ <<m, s>> \in delta
        /\ s = "completed" => w[m] = "completed" \/ <<m, s>> \in delta

ShownAll(ok, w, delta) ==
    \A e \in ok : e[2] = upstream.file[e[1]].edition => Shown(e[1], w, delta)

(* A snapshot that bears out what the job is going to note. *)
Bears(w, j) ==
    IF j.kind = "results" THEN \A s \in j.delta : w[s[1]] \in Terminal
                          ELSE ShownAll(j.ok, w, {})

(* Nothing of the old snapshot is lost in the new one. *)
Keeps(old, new) ==
    \A m \in Matches : /\ old[m] = "completed" => new[m] = "completed"
                       /\ old[m] # "absent" => new[m] # "absent"

Based(place, j) ==
    /\ place \in {"fetch", "build"} =>
         IF j.kind = "results" THEN j.base = manifest ELSE ShownAll(j.ok, Published, j.delta)
    /\ place = "publish" => Keeps(Published, versions[j.version]) /\ Bears(versions[j.version], j)
    /\ place = "record" => Bears(Published, j)

Recorded ==
    /\ \A k \in Targets : season[k] # None => season[k] <= upstream.file[k].edition
    /\ NoHiddenSeason

Inv ==
    /\ Typed /\ Begun /\ Exclusive /\ Recorded
    /\ \A p \in Procs : pc[p] # "idle" => Planned(pc[p], job[p])
    /\ ~evicted => \A p \in Procs : pc[p] \in AtWork => Based(pc[p], job[p])

-----------------------------------------------------------------------------
LEMMA Constants ==
    /\ Dates \subseteq Nat /\ Targets \subseteq Nat /\ MaxVersions \in Nat
    /\ \A m \in Matches : DateOf[m] \in Dates /\ TargetOf[m] \in Targets
    /\ None \notin Nat /\ None \notin Snapshots
    /\ Free \notin Procs /\ Dead \notin Procs /\ None \notin Procs
  BY WorkerJobsAssumption

LEMMA MinIsMember ==
    ASSUME NEW S \in SUBSET Nat, S # {}
    PROVE  Min(S) \in S
  <1> DEFINE Less == {s \in Nat \X Nat : s[1] < s[2]}
  <1>1. IsWellFoundedOn(Less, Nat)
    BY NatLessThanWellFounded DEF OpToRel
  <1>2. PICK x \in S : \A y \in S : <<y, x>> \notin Less
    BY <1>1, WFMin
  <1>3. ASSUME NEW y \in S
        PROVE  x <= y
    <2>1. ~(y < x)
      BY <1>2
    <2> QED
      BY <2>1
  <1> QED
    BY <1>3 DEF Min

LEMMA FirstOfSubset ==
    ASSUME NEW S, NEW n
    PROVE  FirstOf(S, n) \subseteq S
  BY DEF FirstOf

LEMMA Fields ==
    ASSUME Inv, NEW p \in Procs, pc[p] # "idle"
    PROVE  /\ job[p] \in Works /\ Planned(pc[p], job[p])
           /\ job[p].kind \in {"season", "results"} /\ job[p].todo \in SUBSET Nat
           /\ pc[p] \in AtWork /\ ~evicted => Based(pc[p], job[p]) /\ lock["publication"] = p
  BY DEF Inv, Typed, Works, Exclusive

(* The published snapshot is one. *)
LEMMA PublishedSnapshot ==
    ASSUME Inv
    PROVE  Published \in Snapshots
  BY DEF Inv, Typed, Begun, Standing, Published

-----------------------------------------------------------------------------
(* A job gets, finds or gives back a lock, or ends; files stay as they are.  *)
LEMMA LockStep ==
    ASSUME Inv, NEW p \in Procs, NEW place \in {"idle", "leave", "plan"} \cup Waiting, NEW left,
           pc' = [pc EXCEPT ![p] = place], job' = [job EXCEPT ![p] = left],
           UNCHANGED <<versions, manifest, season, results, upstream>>,
           lock' \in [Locks -> Procs \cup {Free, Dead}],
           evicted' \in BOOLEAN, evicted => evicted',
           place # "idle" => left \in Works /\ Planned(place, left),
           ~evicted' /\ place = "plan" => lock'["publication"] = p,
           ~evicted' => \A q \in Procs \ {p} : lock["publication"] = q => lock'["publication"] = q
    PROVE  Inv'
  <1>1. /\ pc'[p] = place /\ job'[p] = left
        /\ \A q \in Procs \ {p} : pc'[q] = pc[q] /\ job'[q] = job[q]
        /\ job' = [q \in Procs |-> job'[q]]
        /\ pc' \in [Procs -> {"idle", "leave"} \cup Waiting \cup AtWork]
    BY DEF Inv, Typed, Waiting, AtWork
  <1>2. Typed'
    <2>1. \A q \in Procs : pc'[q] # "idle" => job'[q] \in Works
      BY <1>1 DEF Inv, Typed
    <2> QED
      BY <1>1, <2>1 DEF Inv, Typed
  <1>3. Begun'
    <2>1. \A q \in Procs : pc'[q] \in {"fetch", "build", "publish"} => pc[q] = pc'[q] /\ job'[q] = job[q]
      BY <1>1 DEF Waiting
    <2> QED
      BY <2>1 DEF Inv, Begun, Standing
  <1>4. Exclusive'
    <2> SUFFICES ASSUME ~evicted', NEW q \in Procs, pc'[q] \in AtWork
                 PROVE  lock'["publication"] = q
      BY DEF Exclusive
    <2>1. CASE q = p
      BY <1>1, <2>1 DEF AtWork, Waiting
    <2>2. CASE q # p
      BY <1>1, <2>2 DEF Inv, Exclusive
    <2> QED
      BY <2>1, <2>2
  <1>5. Recorded'
    BY DEF Inv, Recorded, NoHiddenSeason, Published
  <1>6. \A q \in Procs : pc'[q] # "idle" => Planned(pc[q], job[q])'
    BY <1>1 DEF Inv, Planned
  <1>7. ASSUME ~evicted', NEW q \in Procs, pc'[q] \in AtWork
        PROVE  Based(pc[q], job[q])'
    <2>1. CASE q = p
      BY <1>1, <1>7, <2>1 DEF Based, AtWork, Waiting
    <2>2. CASE q # p
      <3>1. /\ pc'[q] = pc[q] /\ job'[q] = job[q] /\ pc[q] \in AtWork /\ ~evicted
            /\ UNCHANGED <<manifest, versions, upstream>>
        BY <1>1, <1>7, <2>2
      <3>2. Based(pc[q], job[q])
        BY <3>1 DEF Inv
      <3>3. Published' = Published
        BY <3>1 DEF Published
      <3>4. /\ Bears(Published, job[q])' = Bears(Published, job[q])
            /\ ShownAll(job[q].ok, Published, job[q].delta)' = ShownAll(job[q].ok, Published, job[q].delta)
        BY <3>1, <3>3 DEF Bears, ShownAll, Shown
      <3>5. Bears(versions[job[q].version], job[q])' = Bears(versions[job[q].version], job[q])
        BY <3>1 DEF Bears, ShownAll, Shown
      <3> QED
        BY <3>1, <3>2, <3>3, <3>4, <3>5 DEF Based, Keeps
    <2> QED
      BY <2>1, <2>2
  <1> QED
    BY <1>2, <1>3, <1>4, <1>5, <1>6, <1>7 DEF Inv

(* A job goes on with its work.  While locks hold it is the only one at work.*)
LEMMA WorkStep ==
    ASSUME Inv, NEW p \in Procs, pc[p] \in AtWork,
           NEW place \in {"leave", "fetch", "build", "publish", "record"}, NEW work \in Works,
           pc' = [pc EXCEPT ![p] = place], job' = [job EXCEPT ![p] = work],
           UNCHANGED <<lock, upstream, evicted>>, Planned(place, work),
           versions' \in [0..MaxVersions -> Snapshots \cup {None}], manifest' \in 0..MaxVersions, Begun',
           season' \in [Targets -> Nat \cup {None}],
           results' = [match |-> results'.match, etag |-> results'.etag],
           Recorded', ~evicted => Based(place, work)'
    PROVE  Inv'
  <1>1. /\ pc'[p] = place /\ job'[p] = work
        /\ \A q \in Procs \ {p} : pc'[q] = pc[q] /\ job'[q] = job[q]
        /\ job' = [q \in Procs |-> job'[q]]
        /\ pc' \in [Procs -> {"idle", "leave"} \cup Waiting \cup AtWork]
    BY DEF Inv, Typed, AtWork
  <1>2. Typed'
    <2>1. \A q \in Procs : pc'[q] # "idle" => job'[q] \in Works
      BY <1>1 DEF Inv, Typed
    <2> QED
      BY <1>1, <2>1 DEF Inv, Typed
  <1>3. Exclusive'
    BY <1>1 DEF Inv, Exclusive
  <1>4. \A q \in Procs : pc'[q] # "idle" => Planned(pc[q], job[q])'
    BY <1>1 DEF Inv, Planned
  <1>5. ASSUME ~evicted', NEW q \in Procs, pc'[q] \in AtWork
        PROVE  Based(pc[q], job[q])'
    <2>1. q = p
      BY <1>1, <1>5 DEF Inv, Exclusive
    <2>2. Based(place, work)'
      BY <1>5
    <2>3. pc'[q] = place /\ job'[q] = work
      BY <1>1, <2>1
    <2> QED
      BY <2>2, <2>3, ZenonT(40) DEF Based, Bears, Keeps, ShownAll, Shown, Published
  <1> QED
    BY <1>2, <1>3, <1>4, <1>5 DEF Inv

LEMMA SameVersions ==
    ASSUME Inv, NEW p \in Procs, NEW place, place # "publish", NEW work,
           pc' = [pc EXCEPT ![p] = place], job' = [job EXCEPT ![p] = work],
           UNCHANGED <<versions, manifest>>,
           place \in {"fetch", "build"} /\ work.kind = "results" =>
              \/ work.base = manifest
              \/ pc[p] = "fetch" /\ job[p].kind = "results" /\ work.base = job[p].base
    PROVE  /\ Begun' /\ versions' \in [0..MaxVersions -> Snapshots \cup {None}]
           /\ manifest' \in 0..MaxVersions
  <1>1. /\ pc'[p] = place /\ job'[p] = work
        /\ \A q \in Procs \ {p} : pc'[q] = pc[q] /\ job'[q] = job[q]
    BY DEF Inv, Typed
  <1>2. \A q \in Procs : pc'[q] = "publish" => pc[q] = "publish" /\ job'[q] = job[q]
    BY <1>1
  <1>3. \A v : Standing(v) => Standing(v)'
    BY <1>2 DEF Standing
  <1>4. Standing(manifest)' /\ Standing(manifest)
    BY <1>3 DEF Inv, Begun, Standing
  <1>5. ASSUME NEW q \in Procs, pc'[q] \in {"fetch", "build"}, job'[q].kind = "results"
        PROVE  Standing(job[q].base)'
    <2>1. PICK b : b = job'[q].base
      OBVIOUS
    <2>2. b = manifest \/ Standing(b)
      BY <1>1, <1>5, <2>1 DEF Inv, Begun
    <2>3. Standing(b)'
      BY <1>3, <1>4, <2>2 DEF Standing
    <2> QED
      BY <2>1, <2>3 DEF Standing
  <1> QED
    BY <1>2, <1>4, <1>5 DEF Inv, Typed, Begun

LEMMA SameLedgers ==
    ASSUME Inv, UNCHANGED <<season, results>>
    PROVE  /\ season' \in [Targets -> Nat \cup {None}]
           /\ results' = [match |-> results'.match, etag |-> results'.etag]
  BY DEF Inv, Typed

LEMMA SameRecords ==
    ASSUME Inv, UNCHANGED <<season, upstream, evicted>>,
           Published' = Published
    PROVE  Recorded'
  BY DEF Inv, Recorded, NoHiddenSeason

-----------------------------------------------------------------------------
(* The steps for locks. *)
LEMMA StartStep ==
    ASSUME Inv, NEW p \in Procs, NEW kind \in {"season", "results"}, Start(p, kind)
    PROVE  Inv'
  <1>1. Idle(kind) \in Works
    BY DEF Idle, Works, Numbers
  <1>2. PICK place \in {"want", "unlink"} :
           /\ pc' = [pc EXCEPT ![p] = place]
           /\ lock' = lock \/ (lock' = [lock EXCEPT ![kind] = p] /\ lock[kind] = Free)
    BY DEF Start, Goto
  <1>3. Planned(place, Idle(kind))
    BY DEF Planned, Idle
  <1>4. /\ job' = [job EXCEPT ![p] = Idle(kind)]
        /\ UNCHANGED <<versions, manifest, season, results, upstream, evicted>>
    BY DEF Start, disk, world
  <1>5. /\ lock' \in [Locks -> Procs \cup {Free, Dead}] /\ evicted' \in BOOLEAN
        /\ lock'["publication"] = lock["publication"]
    BY <1>2, <1>4 DEF Inv, Typed, Locks
  <1>6. place \in {"idle", "leave", "plan"} \cup Waiting /\ place # "plan" /\ place # "idle"
    BY DEF Waiting
  <1> QED
    BY <1>1, <1>2, <1>3, <1>4, <1>5, <1>6, LockStep

(* A job that waits for a lock goes to a place with what it has. *)
LEMMA WaitingStep ==
    ASSUME Inv, NEW p \in Procs, pc[p] \in Waiting \cup {"plan", "record", "leave"},
           NEW place \in {"leave", "plan"} \cup Waiting, place # "leave" => pc[p] \in Waiting,
           pc' = [pc EXCEPT ![p] = place], UNCHANGED job,
           UNCHANGED <<versions, manifest, season, results, upstream>>,
           lock' \in [Locks -> Procs \cup {Free, Dead}],
           evicted' \in BOOLEAN, evicted => evicted',
           ~evicted' /\ place = "plan" => lock'["publication"] = p,
           ~evicted' => \A q \in Procs \ {p} : lock["publication"] = q => lock'["publication"] = q
    PROVE  Inv'
  <1>1. PICK j : j = job[p]
    OBVIOUS
  <1>2. job' = [job EXCEPT ![p] = j]
    BY <1>1 DEF Inv, Typed
  <1>3. j \in Works /\ Planned(pc[p], j)
    BY <1>1, Fields DEF Waiting
  <1>4. Planned(place, j)
    BY <1>3 DEF Planned, Waiting
  <1>5. place \in {"idle", "leave", "plan"} \cup Waiting
    OBVIOUS
  <1> QED
    BY <1>2, <1>3, <1>4, <1>5, LockStep

LEMMA TakeLockStep ==
    ASSUME Inv, NEW p \in Procs, TakeLock(p)
    PROVE  Inv'
  <1>1. PICK l, place :
           l = Wanted(p) /\ place = IF Wanted(p) = "publication" THEN "plan" ELSE "want"
    OBVIOUS
  <1>2. /\ pc[p] \in {"want", "retry"} /\ lock[l] = Free /\ lock' = [lock EXCEPT ![l] = p]
        /\ pc' = [pc EXCEPT ![p] = place]
        /\ UNCHANGED <<job, versions, manifest, season, results, upstream, evicted>>
    BY <1>1 DEF TakeLock, Goto, disk, world
  <1>3. l \in Locks /\ place \in {"plan", "want"} /\ (place = "plan" => l = "publication")
    BY <1>1, <1>2, Fields DEF Wanted, Locks
  <1>4. /\ lock' \in [Locks -> Procs \cup {Free, Dead}] /\ evicted' \in BOOLEAN
        /\ place = "plan" => lock'["publication"] = p
    BY <1>2, <1>3 DEF Inv, Typed, Locks
  <1>5. \A q \in Procs \ {p} : lock["publication"] = q => lock'["publication"] = q
    BY <1>2, Constants DEF Inv, Typed, Locks
  <1>6. pc[p] \in Waiting /\ place \in {"leave", "plan"} \cup Waiting
    BY <1>2, <1>3 DEF Waiting
  <1> QED
    BY <1>2, <1>4, <1>5, <1>6, WaitingStep

(* What is unlinked may be the lock of a running process, which the history   *)
(* notes.                                                                    *)
LEMMA UnlinkStep ==
    ASSUME Inv, NEW p \in Procs, Unlink(p)
    PROVE  Inv'
  <1>1. PICK l : l = Wanted(p)
    OBVIOUS
  <1>2. /\ pc[p] = "unlink" /\ lock' = [lock EXCEPT ![l] = Free]
        /\ evicted' = (evicted \/ lock[l] \in Procs)
        /\ pc' = [pc EXCEPT ![p] = "retry"]
        /\ UNCHANGED <<job, versions, manifest, season, results, upstream>>
    BY <1>1 DEF Unlink, Goto, disk, world
  <1>3. l \in Locks
    BY <1>1, <1>2, Fields DEF Wanted, Locks
  <1>4. /\ lock' \in [Locks -> Procs \cup {Free, Dead}] /\ evicted' \in BOOLEAN
        /\ evicted => evicted'
    BY <1>2, <1>3 DEF Inv, Typed
  <1>5. ~evicted' => \A q \in Procs \ {p} : lock["publication"] = q => lock'["publication"] = q
    BY <1>2 DEF Inv, Typed, Locks
  <1> QED
    BY <1>2, <1>4, <1>5, WaitingStep DEF Waiting

LEMMA LeaveSteps ==
    ASSUME Inv, NEW p \in Procs, FindStale(p) \/ Busy(p) \/ LedgerFails(p)
    PROVE  Inv'
  <1>1. PICK place \in {"unlink", "leave"} :
           /\ pc' = [pc EXCEPT ![p] = place] /\ pc[p] \in {"want", "retry", "plan", "record"}
           /\ place = "unlink" => pc[p] = "want"
    BY DEF FindStale, Busy, LedgerFails, Goto
  <1>2. UNCHANGED <<lock, job, versions, manifest, season, results, upstream, evicted>>
    BY DEF FindStale, Busy, LedgerFails, disk, world
  <1>3. lock' \in [Locks -> Procs \cup {Free, Dead}] /\ evicted' \in BOOLEAN
    BY <1>2 DEF Inv, Typed
  <1>4. /\ pc[p] \in Waiting \cup {"plan", "record", "leave"} /\ place \in {"leave", "plan"} \cup Waiting
        /\ place # "plan" /\ (place # "leave" => pc[p] \in Waiting)
    BY <1>1 DEF Waiting
  <1> QED
    BY <1>1, <1>2, <1>3, <1>4, WaitingStep

LEMMA ReleaseStep ==
    ASSUME Inv, NEW p \in Procs, Release(p)
    PROVE  Inv'
  <1>1. /\ pc[p] = "leave" /\ job[p].kind \in Locks \ {"publication"}
        /\ UNCHANGED <<versions, manifest, season, results, upstream, evicted>>
    BY Fields DEF Release, disk, world, Locks
  <1>2. CASE lock["publication"] = p
    <2>1. lock' = [lock EXCEPT !["publication"] = Free] /\ UNCHANGED <<pc, job>>
      BY <1>2 DEF Release
    <2>2. pc' = [pc EXCEPT ![p] = "leave"]
      BY <1>1, <2>1 DEF Inv, Typed
    <2>3. /\ lock' \in [Locks -> Procs \cup {Free, Dead}] /\ evicted' \in BOOLEAN
          /\ \A q \in Procs \ {p} : lock["publication"] # q
      BY <1>1, <1>2, <2>1 DEF Inv, Typed
    <2> QED
      BY <1>1, <2>1, <2>2, <2>3, WaitingStep
  <1>3. CASE lock["publication"] # p
    <2>1. PICK l : l = job[p].kind
      OBVIOUS
    <2>2. /\ lock' = [lock EXCEPT ![l] = IF lock[l] = p THEN Free ELSE lock[l]]
          /\ pc' = [pc EXCEPT ![p] = "idle"] /\ job' = [job EXCEPT ![p] = None]
      BY <1>3, <2>1 DEF Release, Goto
    <2>3. /\ lock' \in [Locks -> Procs \cup {Free, Dead}] /\ evicted' \in BOOLEAN
          /\ lock'["publication"] = lock["publication"]
      BY <1>1, <2>1, <2>2 DEF Inv, Typed, Locks
    <2> QED
      BY <1>1, <2>2, <2>3, LockStep
  <1> QED
    BY <1>2, <1>3

LEMMA CrashStep ==
    ASSUME Inv, NEW p \in Procs, Crash(p)
    PROVE  Inv'
  <1>1. /\ lock' = [l \in Locks |-> IF lock[l] = p THEN Dead ELSE lock[l]]
        /\ pc' = [pc EXCEPT ![p] = "idle"] /\ job' = [job EXCEPT ![p] = None]
        /\ UNCHANGED <<versions, manifest, season, results, upstream, evicted>>
    BY DEF Crash, Goto, disk, world
  <1>2. /\ lock' \in [Locks -> Procs \cup {Free, Dead}] /\ evicted' \in BOOLEAN
        /\ \A q \in Procs \ {p} : lock["publication"] = q => lock'["publication"] = q
    BY <1>1 DEF Inv, Typed, Locks
  <1> QED
    BY <1>1, <1>2, LockStep

-----------------------------------------------------------------------------
(* The steps that plan and ask. *)
LEMMA PlanSeasonStep ==
    ASSUME Inv, NEW p \in Procs, NEW aged \in SUBSET Targets, NEW paused \in SUBSET Targets,
           PlanSeason(p, aged, paused)
    PROVE  Inv'
  <1>1. PICK todo, place, j, work :
           /\ todo = DueTargets(aged, paused) /\ place = IF todo = {} THEN "leave" ELSE "fetch"
           /\ j = job[p] /\ work = [j EXCEPT !.todo = todo]
    OBVIOUS
  <1>2. /\ pc[p] = "plan" /\ j.kind = "season" /\ job' = [job EXCEPT ![p] = work]
        /\ pc' = [pc EXCEPT ![p] = place]
        /\ UNCHANGED <<lock, versions, manifest, season, results, upstream, evicted>>
    BY <1>1 DEF PlanSeason, Goto, disk, world
  <1>3. todo \subseteq Targets
    BY <1>1, FirstOfSubset DEF DueTargets
  <1>4. j \in Works /\ Planned("plan", j)
    BY <1>1, <1>2, Fields
  <1>5. /\ work \in Works /\ work.kind = "season" /\ work.todo = todo /\ work.ok = {}
        /\ work.delta = {} /\ work.version = None
    BY <1>1, <1>2, <1>3, <1>4, Constants DEF Works, Planned
  <1>6. Planned(place, work) /\ place \in {"leave", "fetch"}
    BY <1>1, <1>3, <1>5 DEF Planned
  <1>7. Based(place, work)'
    BY <1>5, <1>6 DEF Based, ShownAll
  <1>8. Recorded'
    BY <1>2, SameRecords DEF Published
  <1> QED
    BY <1>2, <1>5, <1>6, <1>7, <1>8, SameVersions, SameLedgers, WorkStep DEF AtWork

LEMMA PlanResultsStep ==
    ASSUME Inv, NEW p \in Procs, NEW due \in SUBSET Matches, NEW gone \in SUBSET Matches,
           PlanResults(p, due, gone)
    PROVE  Inv'
  <1>1. PICK dates, place, j, work :
           /\ dates = FirstOf({DateOf[m] : m \in due}, MaxDates) /\ j = job[p]
           /\ place = IF dates # {} THEN "fetch" ELSE IF gone # {} THEN "record" ELSE "leave"
           /\ work = [j EXCEPT !.base = manifest, !.todo = dates, !.gone = gone,
                               !.group = {m \in due : DateOf[m] \in dates}]
    OBVIOUS
  <1>2. /\ pc[p] = "plan" /\ j.kind = "results" /\ job' = [job EXCEPT ![p] = work]
        /\ pc' = [pc EXCEPT ![p] = place]
        /\ UNCHANGED <<lock, versions, manifest, season, results, upstream, evicted>>
    BY <1>1 DEF PlanResults, Goto, disk, world
  <1>3. dates \subseteq Dates
    BY <1>1, FirstOfSubset, Constants
  <1>4. j \in Works /\ Planned("plan", j) /\ manifest \in 0..MaxVersions
    BY <1>1, <1>2, Fields DEF Inv, Typed
  <1>5. /\ work \in Works /\ work.kind = "results" /\ work.todo = dates /\ work.ok = {}
        /\ work.delta = {} /\ work.version = None /\ work.base = manifest
    BY <1>1, <1>2, <1>3, <1>4, Constants DEF Works, Planned, Numbers
  <1>6. Planned(place, work) /\ place \in {"leave", "fetch", "record"}
    BY <1>1, <1>3, <1>5 DEF Planned
  <1>7. Based(place, work)'
    BY <1>2, <1>5, <1>6 DEF Based, Bears
  <1>8. Recorded'
    BY <1>2, SameRecords DEF Published
  <1> QED
    BY <1>2, <1>5, <1>6, <1>7, <1>8, SameVersions, SameLedgers, WorkStep DEF AtWork

LEMMA ShownMore ==
    ASSUME NEW k, NEW w, NEW delta, NEW more, delta \subseteq more, Shown(k, w, delta)
    PROVE  Shown(k, w, more)
  BY DEF Shown

(* A request has ended, with the news of work: the job asks on, publishes or *)
(* has only its ledger to write.                                             *)
LEMMA AskedStep ==
    ASSUME Inv, NEW p \in Procs, pc[p] = "fetch", NEW done, done \subseteq job[p].todo,
           NEW work \in Works, work.todo = job[p].todo \ done, work.kind = job[p].kind,
           work.base = job[p].base, job' = [job EXCEPT ![p] = work],
           Proceed(p, done), UNCHANGED <<lock, versions, manifest, season, results, upstream, evicted>>,
           Planned("build", work), ~evicted => Based("build", work)
    PROVE  Inv'
  <1>1. PICK place :
           place = IF job[p].todo # done THEN "fetch"
                   ELSE IF job'[p].delta # {} THEN "build" ELSE "record"
    OBVIOUS
  <1>2. pc' = [pc EXCEPT ![p] = place] /\ job'[p] = work
    BY <1>1 DEF Proceed, Goto, Inv, Typed
  <1>3. /\ place \in {"fetch", "build", "record"}
        /\ place = "fetch" => work.todo # {}
        /\ place = "record" => work.delta = {}
    BY <1>1, <1>2
  <1>4. Planned(place, work)
    BY <1>3 DEF Planned, Waiting
  <1>5. ASSUME ~evicted
        PROVE  Based(place, work)'
    <2>1. CASE place \in {"fetch", "build"}
      BY <1>5, <2>1 DEF Based, ShownAll, Shown, Published
    <2>2. CASE place = "record"
      BY <1>3, <1>5, <2>2 DEF Based, Bears, ShownAll, Shown, Published
    <2> QED
      BY <1>3, <2>1, <2>2
  <1>6. Recorded'
    BY SameRecords DEF Published
  <1> QED
    BY <1>2, <1>3, <1>4, <1>5, <1>6, SameVersions, SameLedgers, WorkStep DEF AtWork

LEMMA FetchTargetStep ==
    ASSUME Inv, NEW p \in Procs, FetchTarget(p)
    PROVE  Inv'
  <1>1. PICK j, k : j = job[p] /\ k = Min(j.todo)
    OBVIOUS
  <1>2. /\ pc[p] = "fetch" /\ j.kind = "season" /\ j \in Works /\ Planned("fetch", j)
        /\ ~evicted => Based("fetch", j)
    BY <1>1, Fields DEF FetchTarget, AtWork
  <1>3. k \in j.todo /\ k \in Targets
    BY <1>1, <1>2, MinIsMember DEF Works, Planned
  <1>4. PICK f, told, delta, work :
           /\ f = upstream.file[k]
           /\ told = {<<m, f.says[m]>> : m \in {n \in MatchesOf(k) : f.says[n] # "live"}}
           /\ delta = IF season[k] = f.edition THEN j.delta ELSE j.delta \cup told
           /\ work = [j EXCEPT !.todo = j.todo \ {k}, !.ok = j.ok \cup {<<k, f.edition>>}, !.delta = delta]
    OBVIOUS
  <1>5. /\ f.edition \in Nat /\ f.says \in [MatchesOf(k) -> Statuses]
        /\ season[k] \in Nat \cup {None}
    BY <1>3, <1>4 DEF Inv, Typed
  <1>6. /\ job' = [job EXCEPT ![p] = work] /\ Proceed(p, {k})
        /\ UNCHANGED <<lock, versions, manifest, season, results, upstream, evicted>>
    BY <1>1, <1>4, ZenonT(40) DEF FetchTarget, disk, world
  <1>7. told \subseteq Matches \X Outcomes
    BY <1>4, <1>5 DEF MatchesOf, Statuses, Outcomes
  <1>8. /\ work \in Works /\ work.kind = "season" /\ work.todo = j.todo \ {k}
        /\ work.ok = j.ok \cup {<<k, f.edition>>} /\ work.delta = delta /\ work.version = j.version
        /\ work.base = j.base
    <2>1. delta \subseteq Matches \X Outcomes /\ j.delta \subseteq delta
      BY <1>2, <1>4, <1>7 DEF Works
    <2>2. <<k, f.edition>> \in Nat \X Nat
      BY <1>3, <1>5, Constants
    <2> QED
      BY <1>2, <1>4, <2>1, <2>2 DEF Works
  <1>9. \A s \in told : s[1] \in MatchesOf(k) /\ s = <<s[1], f.says[s[1]]>> /\ f.says[s[1]] # "live"
    BY <1>4
  <1>10. Planned("build", work)
    <2>1. \A s \in delta : TargetOf[s[1]] \notin work.todo /\ s[2] # "live"
      <3>1. \A s \in j.delta : TargetOf[s[1]] \notin j.todo /\ s[2] # "live"
        BY <1>2 DEF Planned
      <3>2. \A s \in told : TargetOf[s[1]] = k /\ s[2] # "live"
        BY <1>9 DEF MatchesOf
      <3> QED
        BY <1>4, <1>8, <3>1, <3>2
    <2>2. ASSUME NEW s \in delta, NEW t \in delta, s[1] = t[1]
          PROVE  s[2] = t[2]
      <3>1. \A r \in j.delta : TargetOf[r[1]] # k
        BY <1>2, <1>3 DEF Planned
      <3>2. \A r \in told : TargetOf[r[1]] = k /\ r[2] = f.says[r[1]]
        BY <1>9 DEF MatchesOf
      <3> QED
        BY <1>2, <1>4, <2>2, <3>1, <3>2 DEF Planned
    <2>3. \A e \in work.ok : e[1] \in Targets /\ e[2] <= upstream.file[e[1]].edition
      BY <1>2, <1>3, <1>4, <1>5, <1>8 DEF Planned
    <2> QED
      BY <1>2, <1>8, <2>1, <2>2, <2>3 DEF Planned, Waiting
  <1>11. ASSUME ~evicted
         PROVE  Based("build", work)
    <2>1. Shown(k, Published, delta)
      <3>1. CASE season[k] = f.edition
        BY <1>3, <1>4, <1>11, <3>1 DEF Inv, Recorded, NoHiddenSeason, Shown
      <3>2. CASE season[k] # f.edition
        <4>1. \A m \in MatchesOf(k) : f.says[m] # "live" => <<m, f.says[m]>> \in delta
          BY <1>4, <3>2
        <4> QED
          BY <1>4, <4>1 DEF Shown
      <3> QED
        BY <3>1, <3>2
    <2>2. j.delta \subseteq delta
      BY <1>4
    <2>3. ShownAll(work.ok, Published, delta)
      BY <1>2, <1>8, <1>11, <2>1, <2>2, ShownMore DEF Based, ShownAll
    <2> QED
      BY <1>8, <2>3 DEF Based
  <1> QED
    BY <1>1, <1>2, <1>3, <1>6, <1>8, <1>10, <1>11, AskedStep

LEMMA FetchDateStep ==
    ASSUME Inv, NEW p \in Procs, NEW unlisted \in SUBSET Matches, FetchDate(p, unlisted)
    PROVE  Inv'
  <1>1. PICK j, d : j = job[p] /\ d = Min(j.todo)
    OBVIOUS
  <1>2. /\ pc[p] = "fetch" /\ j.kind = "results" /\ j \in Works /\ Planned("fetch", j)
        /\ ~evicted => Based("fetch", j)
    BY <1>1, Fields DEF FetchDate, AtWork
  <1>3. d \in j.todo /\ d \in Dates
    BY <1>1, <1>2, MinIsMember DEF Works, Planned
  <1>4. PICK group, over, told, work :
           /\ group = {m \in j.group : DateOf[m] = d}
           /\ over  = {m \in group \ unlisted : /\ ~(results.etag[d] = upstream.body[d])
                                                /\ upstream.match[m] \in Terminal}
           /\ told  = {<<m, upstream.match[m]>> : m \in over}
           /\ work  = [j EXCEPT !.todo = j.todo \ {d}, !.ok = j.ok \cup {<<d, upstream.body[d]>>},
                                !.delta = j.delta \cup told]
    OBVIOUS
  <1>5. /\ job' = [job EXCEPT ![p] = work] /\ Proceed(p, {d})
        /\ UNCHANGED <<lock, versions, manifest, season, results, upstream, evicted>>
    BY <1>1, <1>4 DEF FetchDate, disk, world
  <1>6. told \subseteq Matches \X Outcomes /\ \A s \in told : s[2] \in Terminal
    <2>1. over \subseteq Matches /\ \A m \in over : upstream.match[m] \in Terminal
      BY <1>2, <1>4 DEF Works
    <2>2. Terminal \subseteq Outcomes
      BY DEF Terminal, Outcomes
    <2> QED
      BY <1>4, <2>1, <2>2
  <1>7. /\ work \in Works /\ work.kind = "results" /\ work.todo = j.todo \ {d} /\ work.base = j.base
        /\ work.delta = j.delta \cup told /\ work.version = j.version
    <2>1. <<d, upstream.body[d]>> \in Nat \X Nat
      BY <1>3, Constants DEF Inv, Typed
    <2> QED
      BY <1>2, <1>4, <1>6, <2>1 DEF Works
  <1>8. Planned("build", work)
    BY <1>2, <1>6, <1>7 DEF Planned, Waiting
  <1>9. ~evicted => Based("build", work)
    BY <1>2, <1>7 DEF Based
  <1> QED
    BY <1>1, <1>2, <1>3, <1>5, <1>7, <1>8, <1>9, AskedStep

LEMMA FetchFailsStep ==
    ASSUME Inv, NEW p \in Procs, NEW refused \in BOOLEAN, FetchFails(p, refused)
    PROVE  Inv'
  <1>1. PICK j, x : j = job[p] /\ x = Min(j.todo)
    OBVIOUS
  <1>2. pc[p] = "fetch" /\ j \in Works /\ Planned("fetch", j) /\ (~evicted => Based("fetch", j))
    BY <1>1, Fields DEF FetchFails, AtWork
  <1>3. x \in j.todo
    BY <1>1, <1>2, MinIsMember DEF Works, Planned
  <1>4. PICK rest, lost, work :
           /\ rest = IF j.kind = "results" THEN j.todo ELSE j.todo \cap FotMob
           /\ lost = IF refused THEN {x} \cup rest ELSE {x}
           /\ work = [j EXCEPT !.todo = j.todo \ lost]
    OBVIOUS
  <1>5. /\ job' = [job EXCEPT ![p] = work] /\ Proceed(p, lost) /\ lost \subseteq j.todo
        /\ UNCHANGED <<lock, versions, manifest, season, results, upstream, evicted>>
    BY <1>1, <1>3, <1>4 DEF FetchFails, disk, world
  <1>6. /\ work \in Works /\ work.kind = j.kind /\ work.todo = j.todo \ lost /\ work.base = j.base
        /\ work.delta = j.delta /\ work.version = j.version /\ work.ok = j.ok
    BY <1>2, <1>4 DEF Works
  <1>7. Planned("build", work)
    BY <1>2, <1>6 DEF Planned, Waiting
  <1>8. ~evicted => Based("build", work)
    BY <1>2, <1>6 DEF Based
  <1> QED
    BY <1>1, <1>2, <1>5, <1>6, <1>7, <1>8, AskedStep

-----------------------------------------------------------------------------
(* What merging makes of a snapshot. *)
LEMMA MergedSnapshot ==
    ASSUME NEW base \in Snapshots, NEW delta \in SUBSET (Matches \X Outcomes)
    PROVE  /\ Merged(base, delta) \in Snapshots /\ Keeps(base, Merged(base, delta))
           /\ \A s \in delta :
                \/ base[s[1]] = "completed"
                \/ \E t \in delta : t[1] = s[1] /\ Merged(base, delta)[s[1]] = t[2]
  <1>1. PICK w : w = Merged(base, delta)
    OBVIOUS
  <1>2. w = [m \in Matches |-> IF base[m] = "completed" \/ ~\E s \in delta : s[1] = m
                               THEN base[m] ELSE (CHOOSE s \in delta : s[1] = m)[2]]
    BY <1>1 DEF Merged
  <1>3. ASSUME NEW m \in Matches, base[m] # "completed", \E s \in delta : s[1] = m
        PROVE  \E t \in delta : t[1] = m /\ w[m] = t[2]
    <2>1. /\ (CHOOSE s \in delta : s[1] = m) \in delta
          /\ (CHOOSE s \in delta : s[1] = m)[1] = m
      BY <1>3
    <2> QED
      BY <1>2, <1>3, <2>1
  <1>4. \A m \in Matches : base[m] = "completed" \/ (\A s \in delta : s[1] # m) => w[m] = base[m]
    BY <1>2
  <1>5. \A m \in Matches : w[m] = base[m] \/ (base[m] # "completed" /\ w[m] \in Outcomes)
    BY <1>3, <1>4
  <1>6. w \in Snapshots
    BY <1>2, <1>5 DEF Snapshots, Outcomes
  <1>7. Keeps(base, w)
    BY <1>4, <1>5 DEF Keeps, Outcomes
  <1>8. \A s \in delta : base[s[1]] = "completed" \/ \E t \in delta : t[1] = s[1] /\ w[s[1]] = t[2]
    BY <1>3
  <1> QED
    BY <1>1, <1>6, <1>7, <1>8

LEMMA BuildStep ==
    ASSUME Inv, NEW p \in Procs, Build(p)
    PROVE  Inv' /\ Published' = Published
  <1>1. PICK j, v, b, w, work : /\ j = job[p] /\ v = Min(Unused) /\ b = Base(p)
                                /\ w = Merged(versions[b], j.delta)
                                /\ work = [j EXCEPT !.version = v, !.base = b]
    OBVIOUS
  <1>2. /\ pc[p] = "build" /\ Unused # {} /\ versions' = [versions EXCEPT ![v] = w]
        /\ job' = [job EXCEPT ![p] = work] /\ pc' = [pc EXCEPT ![p] = "publish"]
        /\ UNCHANGED <<lock, manifest, season, results, upstream, evicted>>
    BY <1>1 DEF Build, Goto, world
  <1>3. /\ j \in Works /\ Planned("build", j)
        /\ ~evicted => Based("build", j) /\ lock["publication"] = p
    BY <1>1, <1>2, Fields DEF AtWork
  <1>4. v \in 0..MaxVersions /\ versions[v] = None
    <2>1. Unused \in SUBSET Nat
      BY DEF Unused
    <2>2. v \in Unused
      BY <1>1, <1>2, <2>1, MinIsMember
    <2> QED
      BY <2>2, Constants DEF Unused
  <1>5. /\ Standing(b) /\ Standing(manifest)
        /\ j.kind = "season" => b = manifest
        /\ j.kind = "results" => b = j.base
    BY <1>1, <1>2, <1>3 DEF Base, Inv, Begun, Works
  <1>6. versions[b] \in Snapshots /\ b \in 0..MaxVersions
    BY <1>5 DEF Standing, Inv, Typed
  <1>7. w \in Snapshots /\ w # None
    BY <1>1, <1>3, <1>6, MergedSnapshot, Constants DEF Works
  <1>8. /\ work \in Works /\ work.kind = j.kind /\ work.todo = j.todo /\ work.ok = j.ok
        /\ work.delta = j.delta /\ work.version = v
    BY <1>1, <1>3, <1>4, <1>6 DEF Works, Numbers
  <1>9. /\ pc'[p] = "publish" /\ job'[p] = work
        /\ \A q \in Procs \ {p} : pc'[q] = pc[q] /\ job'[q] = job[q]
        /\ versions' \in [0..MaxVersions -> Snapshots \cup {None}]
        /\ versions'[v] = w /\ \A x \in 0..MaxVersions \ {v} : versions'[x] = versions[x]
    BY <1>2, <1>4, <1>7 DEF Inv, Typed
  <1>10. Begun'
    <2>1. \A x : Standing(x) => Standing(x)'
      BY <1>4, <1>8, <1>9 DEF Standing
    <2>2. Standing(manifest)'
      BY <1>2, <1>5, <2>1 DEF Standing
    <2>3. ASSUME NEW q \in Procs \ {p}, pc[q] = "publish"
          PROVE  /\ job[q].version \in 0..MaxVersions /\ job[q].version # v
                 /\ versions'[job[q].version] # None
                 /\ \A r \in Procs \ {q} : pc'[r] = "publish" => job'[r].version # job[q].version
      <3>1. job[q].version \in 0..MaxVersions /\ versions[job[q].version] # None
        BY <2>3 DEF Inv, Begun
      <3>2. job[q].version # v
        BY <1>4, <3>1
      <3> QED
        BY <1>8, <1>9, <2>3, <3>1, <3>2 DEF Inv, Begun
    <2>4. ASSUME NEW q \in Procs, pc'[q] \in {"fetch", "build"}, job'[q].kind = "results"
          PROVE  Standing(job[q].base)'
      <3>1. PICK x : x = job'[q].base
        OBVIOUS
      <3>2. Standing(x)
        BY <1>9, <2>4, <3>1 DEF Inv, Begun
      <3>3. Standing(x)'
        BY <2>1, <3>2
      <3> QED
        BY <3>1, <3>3 DEF Standing
    <2>5. ASSUME NEW q \in Procs, pc'[q] = "publish"
          PROVE  /\ job'[q].version \in 0..MaxVersions /\ versions'[job'[q].version] # None
                 /\ \A r \in Procs \ {q} : pc'[r] = "publish" => job'[r].version # job'[q].version
      <3>1. CASE q = p
        BY <1>4, <1>7, <1>8, <1>9, <2>3, <3>1
      <3>2. CASE q # p
        BY <1>9, <2>3, <2>5, <3>2
      <3> QED
        BY <3>1, <3>2
    <2> QED
      BY <2>2, <2>4, <2>5 DEF Begun
  <1>11. Published' = Published
    BY <1>2, <1>4, <1>5, <1>9 DEF Published, Standing
  <1>12. Planned("publish", work)
    BY <1>3, <1>8 DEF Planned, Waiting
  <1>13. ASSUME ~evicted
         PROVE  Based("publish", work)'
    <2>1. b = manifest /\ versions[b] = Published
      BY <1>3, <1>5, <1>13 DEF Based, Published, Works
    <2>2. Keeps(Published, w)
      BY <1>1, <1>3, <1>6, <2>1, MergedSnapshot DEF Works
    <2>3. \A s \in j.delta :
             w[s[1]] = "completed" \/ \E t \in j.delta : t[1] = s[1] /\ w[s[1]] = t[2]
      <3>1. \A s \in j.delta : s[1] \in Matches
        BY <1>3 DEF Works
      <3>2. \A s \in j.delta :
               \/ Published[s[1]] = "completed"
               \/ \E t \in j.delta : t[1] = s[1] /\ w[s[1]] = t[2]
        BY <1>1, <1>3, <1>6, <2>1, MergedSnapshot DEF Works
      <3> QED
        BY <2>2, <3>1, <3>2 DEF Keeps
    <2>4. Bears(w, work)
      <3>1. CASE j.kind = "results"
        BY <1>3, <1>8, <2>3, <3>1 DEF Bears, Planned, Terminal
      <3>2. CASE j.kind = "season"
        <4> SUFFICES ASSUME NEW e \in j.ok, e[2] = upstream.file[e[1]].edition
                     PROVE  Shown(e[1], w, {})
          BY <1>8, <3>2 DEF Bears, ShownAll
        <4>1. Shown(e[1], Published, j.delta)
          BY <1>3, <1>13, <3>2 DEF Based, ShownAll
        <4>2. ASSUME NEW m \in MatchesOf(e[1]), NEW s \in Statuses, <<m, s>> \in j.delta
              PROVE  w[m] = "completed" \/ w[m] = s
          <5>1. w[m] = "completed" \/ \E t \in j.delta : t[1] = m /\ w[m] = t[2]
            BY <2>3, <4>2
          <5>2. \A t \in j.delta : t[1] = m => t[2] = s
            BY <1>3, <3>2, <4>2 DEF Planned
          <5> QED
            BY <5>1, <5>2
        <4>3. \A m \in MatchesOf(e[1]) : upstream.file[e[1]].says[m] \in Statuses
          <5>1. e[1] \in Targets
            BY <1>3, <3>2 DEF Planned
          <5>2. upstream.file[e[1]] \in [edition : Nat, says : [MatchesOf(e[1]) -> Statuses]]
            BY <5>1 DEF Inv, Typed
          <5> QED
            BY <5>2
        <4>4. \A m \in MatchesOf(e[1]) : m \in Matches
          BY DEF MatchesOf
        <4> QED
          BY <2>2, <4>1, <4>2, <4>3, <4>4 DEF Shown, Keeps, Statuses
      <3> QED
        BY <1>3, <3>1, <3>2 DEF Works
    <2>5. Bears(w, work)'
      BY <1>2, <2>4 DEF Bears, ShownAll, Shown
    <2>6. versions'[work.version] = w
      BY <1>8, <1>9
    <2>7. Keeps(Published', w)
      BY <1>11, <2>2
    <2> QED
      BY <2>5, <2>6, <2>7 DEF Based, Bears, ShownAll, Shown, Keeps
  <1>14. Recorded'
    BY <1>2, <1>11, SameRecords
  <1> QED
    BY <1>2, <1>8, <1>9, <1>10, <1>11, <1>12, <1>13, <1>14, SameLedgers, WorkStep DEF AtWork, Inv, Typed

LEMMA PublishStep ==
    ASSUME Inv, NEW p \in Procs, Publish(p)
    PROVE  /\ Inv' /\ UNCHANGED <<season, results>>
           /\ ~evicted => Keeps(Published, Published')
  <1>1. PICK j, v : j = job[p] /\ v = job[p].version
    OBVIOUS
  <1>2. /\ pc[p] = "publish" /\ manifest' = v /\ pc' = [pc EXCEPT ![p] = "record"]
        /\ UNCHANGED <<lock, versions, season, results, upstream, job, evicted>>
    BY <1>1 DEF Publish, Goto, world
  <1>3. job' = [job EXCEPT ![p] = j]
    BY <1>1, <1>2 DEF Inv, Typed
  <1>4. /\ j \in Works /\ Planned("publish", j)
        /\ ~evicted => Keeps(Published, versions[v]) /\ Bears(versions[v], j)
    BY <1>1, <1>2, Fields DEF AtWork, Based
  <1>5. /\ v \in 0..MaxVersions /\ versions[v] # None
        /\ \A q \in Procs \ {p} : pc[q] = "publish" => job[q].version # v
    BY <1>1, <1>2 DEF Inv, Begun
  <1>6. pc'[p] = "record" /\ \A q \in Procs \ {p} : pc'[q] = pc[q]
    BY <1>2 DEF Inv, Typed
  <1>7. Begun'
    <2>1. \A x : Standing(x) => Standing(x)'
      BY <1>2, <1>6 DEF Standing
    <2>2. Standing(manifest)'
      BY <1>2, <1>5, <1>6 DEF Standing
    <2>3. ASSUME NEW q \in Procs, pc'[q] \in {"fetch", "build"}, job'[q].kind = "results"
          PROVE  Standing(job[q].base)'
      <3>1. PICK x : x = job'[q].base
        OBVIOUS
      <3>2. Standing(x)'
        BY <1>2, <1>6, <2>1, <2>3, <3>1 DEF Inv, Begun
      <3> QED
        BY <3>1, <3>2 DEF Standing
    <2> QED
      BY <1>2, <1>6, <2>2, <2>3 DEF Inv, Begun
  <1>8. Published' = versions[v]
    BY <1>2 DEF Published
  <1>9. Recorded'
    <2> SUFFICES ASSUME ~evicted
                 PROVE  NoHiddenSeason'
      BY <1>2 DEF Inv, Recorded, NoHiddenSeason
    <2>1. \A m \in Matches : /\ Published[m] = "completed" => Published'[m] = "completed"
                             /\ Published[m] # "absent" => Published'[m] # "absent"
      BY <1>4, <1>8 DEF Keeps
    <2> QED
      BY <1>2, <2>1 DEF Inv, Recorded, NoHiddenSeason, MatchesOf
  <1>10. Planned("record", j)
    BY <1>4 DEF Planned, Waiting
  <1>11. ASSUME ~evicted
         PROVE  Based("record", j)'
    <2>1. Bears(versions[v], j)
      BY <1>4, <1>11
    <2> QED
      BY <1>2, <1>8, <2>1 DEF Based, Bears, ShownAll, Shown
  <1>12. Inv'
    BY <1>2, <1>3, <1>4, <1>5, <1>7, <1>9, <1>10, <1>11, SameLedgers, WorkStep DEF AtWork, Inv, Typed
  <1> QED
    BY <1>2, <1>4, <1>8, <1>12

LEMMA PublicationFailsStep ==
    ASSUME Inv, NEW p \in Procs, PublicationFails(p)
    PROVE  Inv' /\ Published' = Published
  <1>1. PICK j, v, work : j = job[p] /\ v = job[p].version /\ work = [j EXCEPT !.ok = {}, !.delta = {}]
    OBVIOUS
  <1>2. /\ pc[p] \in {"build", "publish"}
        /\ versions' = [x \in 0..MaxVersions |-> IF x = v THEN None ELSE versions[x]]
        /\ job' = [job EXCEPT ![p] = work] /\ pc' = [pc EXCEPT ![p] = "record"]
        /\ UNCHANGED <<lock, manifest, season, results, upstream, evicted>>
    BY <1>1 DEF PublicationFails, Goto, world
  <1>3. j \in Works /\ Planned(pc[p], j)
    BY <1>1, <1>2, Fields
  <1>4. /\ work \in Works /\ work.kind = j.kind /\ work.todo = j.todo /\ work.ok = {} /\ work.delta = {}
    BY <1>1, <1>3 DEF Works
  <1>5. /\ \A x : Standing(x) => x # v
        /\ \A q \in Procs \ {p} : pc[q] = "publish" => job[q].version # v
    <2>1. CASE pc[p] = "build"
      <3>1. v = None
        BY <1>1, <1>3, <2>1 DEF Planned
      <3> QED
        BY <3>1, Constants DEF Standing, Inv, Begun
    <2>2. CASE pc[p] = "publish"
      BY <1>1, <2>2 DEF Standing, Inv, Begun
    <2> QED
      BY <1>2, <2>1, <2>2
  <1>6. /\ pc'[p] = "record" /\ job'[p] = work
        /\ \A q \in Procs \ {p} : pc'[q] = pc[q] /\ job'[q] = job[q]
        /\ versions' \in [0..MaxVersions -> Snapshots \cup {None}]
        /\ \A x \in 0..MaxVersions : x # v => versions'[x] = versions[x]
    BY <1>2 DEF Inv, Typed
  <1>7. \A x : Standing(x) => Standing(x)'
    BY <1>5, <1>6 DEF Standing
  <1>8. Standing(manifest) /\ Standing(manifest)'
    BY <1>2, <1>7 DEF Inv, Begun, Standing
  <1>9. Begun'
    <2>1. ASSUME NEW q \in Procs, pc'[q] \in {"fetch", "build"}, job'[q].kind = "results"
          PROVE  Standing(job[q].base)'
      <3>1. PICK x : x = job'[q].base
        OBVIOUS
      <3>2. Standing(x)'
        BY <1>6, <1>7, <2>1, <3>1 DEF Inv, Begun
      <3> QED
        BY <3>1, <3>2 DEF Standing
    <2>2. ASSUME NEW q \in Procs, pc'[q] = "publish"
          PROVE  /\ job'[q].version \in 0..MaxVersions /\ versions'[job'[q].version] # None
                 /\ \A r \in Procs \ {q} : pc'[r] = "publish" => job'[r].version # job'[q].version
      <3>1. q # p /\ pc[q] = "publish" /\ job'[q] = job[q]
        BY <1>6, <2>2
      <3>2. /\ job[q].version \in 0..MaxVersions /\ versions[job[q].version] # None
            /\ job[q].version # v
            /\ \A r \in Procs \ {q} : pc[r] = "publish" => job[r].version # job[q].version
        BY <1>5, <3>1 DEF Inv, Begun
      <3> QED
        BY <1>6, <3>1, <3>2
    <2> QED
      BY <1>8, <2>1, <2>2 DEF Begun
  <1>10. Published' = Published
    BY <1>2, <1>5, <1>6, <1>8 DEF Published, Standing
  <1>11. Planned("record", work) /\ Based("record", work)'
    BY <1>3, <1>4 DEF Planned, Waiting, Based, Bears, ShownAll
  <1>12. Recorded'
    BY <1>2, <1>10, SameRecords
  <1> QED
    BY <1>2, <1>4, <1>6, <1>9, <1>10, <1>11, <1>12, SameLedgers, WorkStep DEF AtWork, Inv, Typed

LEMMA RecordSeasonStep ==
    ASSUME Inv, NEW p \in Procs, RecordSeason(p)
    PROVE  Inv'
  <1>1. PICK j : j = job[p]
    OBVIOUS
  <1>2. /\ pc[p] = "record" /\ j.kind = "season" /\ pc' = [pc EXCEPT ![p] = "leave"]
        /\ season' = [k \in Targets |-> IF Answered(p, k) THEN Edition(p, k) ELSE season[k]]
        /\ UNCHANGED <<lock, versions, manifest, results, upstream, job, evicted>>
    BY <1>1 DEF RecordSeason, Goto, world
  <1>3. job' = [job EXCEPT ![p] = j]
    BY <1>1, <1>2 DEF Inv, Typed
  <1>4. /\ j \in Works /\ Planned("record", j)
        /\ ~evicted => ShownAll(j.ok, Published, {})
    BY <1>1, <1>2, Fields DEF AtWork, Based, Bears
  <1>5. ASSUME NEW k \in Targets
        PROVE  \/ season'[k] = season[k]
               \/ \E e \in j.ok : e[1] = k /\ season'[k] = e[2]
    <2>1. CASE Answered(p, k)
      <3>1. /\ (CHOOSE e \in j.ok : e[1] = k) \in j.ok
            /\ (CHOOSE e \in j.ok : e[1] = k)[1] = k
        BY <1>1, <2>1 DEF Answered
      <3>2. season'[k] = (CHOOSE e \in j.ok : e[1] = k)[2]
        BY <1>1, <1>2, <2>1 DEF Edition
      <3> QED
        BY <3>1, <3>2
    <2>2. CASE ~Answered(p, k)
      BY <1>2, <2>2
    <2> QED
      BY <2>1, <2>2
  <1>6. season' \in [Targets -> Nat \cup {None}]
    <2>1. \A k \in Targets : season'[k] \in Nat \cup {None}
      BY <1>4, <1>5 DEF Works, Inv, Typed
    <2> QED
      BY <1>2, <2>1
  <1>7. Recorded'
    <2>1. ASSUME NEW k \in Targets, season'[k] # None
          PROVE  season'[k] <= upstream'.file[k].edition
      BY <1>2, <1>4, <1>5, <2>1 DEF Inv, Recorded, Planned
    <2>2. ASSUME NEW k \in Targets, ~evicted, season'[k] = upstream.file[k].edition
          PROVE  Shown(k, Published, {})
      BY <1>4, <1>5, <2>2 DEF Inv, Recorded, NoHiddenSeason, Shown, ShownAll
    <2>3. NoHiddenSeason'
      BY <1>2, <2>2 DEF NoHiddenSeason, Shown, Published
    <2> QED
      BY <2>1, <2>3 DEF Recorded
  <1>8. Planned("leave", j) /\ Based("leave", j)'
    BY <1>4 DEF Planned, Waiting, Based
  <1>9. results' = [match |-> results'.match, etag |-> results'.etag]
    BY <1>2 DEF Inv, Typed
  <1> QED
    BY <1>2, <1>3, <1>4, <1>6, <1>7, <1>8, <1>9, SameVersions, WorkStep DEF AtWork

LEMMA RecordResultsStep ==
    ASSUME Inv, NEW p \in Procs, RecordResults(p)
    PROVE  /\ Inv' /\ Published' = Published
           /\ ~evicted => \A m \in Matches :
                results'.match[m] = "done" /\ results.match[m] # "done" => Published[m] \in Terminal
  <1>1. PICK j : j = job[p]
    OBVIOUS
  <1>2. /\ pc[p] = "record" /\ j.kind = "results" /\ pc' = [pc EXCEPT ![p] = "leave"]
        /\ results' =
             [match |-> [m \in Matches |->
                IF m \in j.gone THEN "exhausted"
                ELSE IF m \in {s[1] : s \in j.delta} /\ Answered(p, DateOf[m]) THEN "done"
                ELSE results.match[m]],
              etag |-> [d \in Dates |-> IF Answered(p, d) THEN Edition(p, d) ELSE results.etag[d]]]
        /\ UNCHANGED <<lock, versions, manifest, season, upstream, job, evicted>>
    BY <1>1 DEF RecordResults, Goto, world
  <1>3. job' = [job EXCEPT ![p] = j]
    BY <1>1, <1>2 DEF Inv, Typed
  <1>4. /\ j \in Works /\ Planned("record", j)
        /\ ~evicted => \A s \in j.delta : Published[s[1]] \in Terminal
    BY <1>1, <1>2, Fields DEF AtWork, Based, Bears
  <1>5. results' = [match |-> results'.match, etag |-> results'.etag]
    BY <1>2
  <1>6. Planned("leave", j) /\ Based("leave", j)'
    BY <1>4 DEF Planned, Waiting, Based
  <1>7. Published' = Published
    BY <1>2 DEF Published
  <1>8. Recorded'
    BY <1>2, <1>7, SameRecords
  <1>9. season' \in [Targets -> Nat \cup {None}]
    BY <1>2 DEF Inv, Typed
  <1>10. Inv'
    BY <1>2, <1>3, <1>4, <1>5, <1>6, <1>8, <1>9, SameVersions, WorkStep DEF AtWork
  <1>11. ASSUME ~evicted, NEW m \in Matches, results'.match[m] = "done", results.match[m] # "done"
         PROVE  Published[m] \in Terminal
    <2>1. results'.match[m] = IF m \in j.gone THEN "exhausted"
                              ELSE IF m \in {s[1] : s \in j.delta} /\ Answered(p, DateOf[m]) THEN "done"
                              ELSE results.match[m]
      BY <1>2
    <2>2. m \in {s[1] : s \in j.delta}
      BY <1>11, <2>1
    <2> QED
      BY <1>4, <1>11, <2>2
  <1> QED
    BY <1>7, <1>10, <1>11

(* What happens at the provider makes editions newer, and with them what is   *)
(* noted of the former ones harmless.                                        *)
LEMMA NewsStep ==
    ASSUME Inv, News
    PROVE  Inv'
  <1>1. UNCHANGED <<lock, versions, manifest, season, results, pc, job, evicted>>
    BY DEF News, disk
  <1>2. Terminal \subseteq Statuses /\ \A s : After(s) \subseteq Statuses
    BY DEF After, Terminal, Statuses
  <1>3. /\ upstream' = [match |-> upstream'.match, file |-> upstream'.file, body |-> upstream'.body]
        /\ upstream'.match \in [Matches -> Statuses] /\ upstream'.body \in [Dates -> Nat]
        /\ upstream'.file = [k \in Targets |-> upstream'.file[k]]
        /\ \A k \in Targets : upstream'.file[k] \in [edition : Nat, says : [MatchesOf(k) -> Statuses]]
        /\ \A k \in Targets : \/ upstream'.file[k] = upstream.file[k]
                              \/ upstream'.file[k].edition = upstream.file[k].edition + 1
    <2>1. CASE \E m \in Matches : \E s \in After(upstream.match[m]) :
                  upstream' = [upstream EXCEPT !.match[m] = s, !.body[DateOf[m]] = @ + 1]
      <3>1. PICK m \in Matches, s \in Statuses :
               upstream' = [upstream EXCEPT !.match[m] = s, !.body[DateOf[m]] = upstream.body[DateOf[m]] + 1]
        BY <1>2, <2>1
      <3>2. /\ upstream'.match = [upstream.match EXCEPT ![m] = s]
            /\ upstream'.body = [upstream.body EXCEPT ![DateOf[m]] = upstream.body[DateOf[m]] + 1]
            /\ upstream'.file = upstream.file
            /\ upstream' = [match |-> upstream'.match, file |-> upstream'.file, body |-> upstream'.body]
        BY <3>1 DEF Inv, Typed
      <3>3. upstream.body[DateOf[m]] + 1 \in Nat
        BY Constants DEF Inv, Typed
      <3> QED
        BY <3>2, <3>3 DEF Inv, Typed
    <2>2. CASE \E k \in Targets :
                  upstream' = [upstream EXCEPT !.file[k] =
                                 [edition |-> @.edition + 1, says |-> [m \in MatchesOf(k) |-> upstream.match[m]]]]
      <3>0. PICK k \in Targets :
               upstream' = [upstream EXCEPT !.file[k] =
                              [edition |-> upstream.file[k].edition + 1,
                               says    |-> [m \in MatchesOf(k) |-> upstream.match[m]]]]
        BY <2>2
      <3>1. PICK says, f :
               /\ says = [m \in MatchesOf(k) |-> upstream.match[m]]
               /\ f = [edition |-> upstream.file[k].edition + 1, says |-> says]
               /\ upstream' = [upstream EXCEPT !.file[k] = f]
        BY <3>0
      <3>2. f \in [edition : Nat, says : [MatchesOf(k) -> Statuses]]
        <4>1. says \in [MatchesOf(k) -> Statuses]
          BY <3>1 DEF Inv, Typed, MatchesOf
        <4>2. upstream.file[k].edition + 1 \in Nat
          BY DEF Inv, Typed
        <4> QED
          BY <3>1, <4>1, <4>2
      <3>3. /\ upstream'.file = [upstream.file EXCEPT ![k] = f]
            /\ upstream'.match = upstream.match /\ upstream'.body = upstream.body
            /\ upstream' = [match |-> upstream'.match, file |-> upstream'.file, body |-> upstream'.body]
        BY <3>1 DEF Inv, Typed
      <3>4. /\ upstream'.file[k] = f /\ \A i \in Targets \ {k} : upstream'.file[i] = upstream.file[i]
            /\ upstream'.file = [i \in Targets |-> upstream'.file[i]]
        BY <3>3 DEF Inv, Typed
      <3> QED
        BY <3>1, <3>2, <3>3, <3>4 DEF Inv, Typed
    <2> QED
      BY <2>1, <2>2 DEF News
  <1>4. ASSUME NEW k \in Targets, NEW n \in Nat, n <= upstream.file[k].edition
        PROVE  /\ n <= upstream'.file[k].edition
               /\ n = upstream'.file[k].edition =>
                    n = upstream.file[k].edition /\ upstream'.file[k] = upstream.file[k]
    <2>1. upstream.file[k].edition \in Nat
      BY DEF Inv, Typed
    <2> QED
      BY <1>3, <1>4, <2>1
  <1>5. Typed'
    BY <1>1, <1>3 DEF Inv, Typed
  <1>6. Begun' /\ Exclusive'
    BY <1>1 DEF Inv, Begun, Standing, Exclusive
  <1>7. Recorded'
    <2>1. ASSUME NEW k \in Targets, season[k] # None
          PROVE  /\ season[k] <= upstream'.file[k].edition
                 /\ season[k] = upstream'.file[k].edition =>
                      season[k] = upstream.file[k].edition /\ upstream'.file[k] = upstream.file[k]
      BY <1>4, <2>1 DEF Inv, Recorded, Typed
    <2>2. \A k \in Targets : upstream'.file[k].edition # None
      BY <1>3, Constants
    <2> QED
      BY <1>1, <2>1, <2>2 DEF Inv, Recorded, NoHiddenSeason, Published
  <1>8. ASSUME NEW p \in Procs, pc[p] # "idle"
        PROVE  /\ Planned(pc[p], job[p])'
               /\ ~evicted /\ pc[p] \in AtWork => Based(pc[p], job[p])'
    <2>1. PICK j, place : j = job[p] /\ place = pc[p]
      OBVIOUS
    <2>2. /\ j \in Works /\ Planned(place, j)
          /\ ~evicted /\ place \in AtWork => Based(place, j)
      BY <1>8, <2>1, Fields
    <2>3. ASSUME j.kind = "season", NEW e \in j.ok
          PROVE  /\ e[1] \in Targets /\ e[2] <= upstream'.file[e[1]].edition
                 /\ e[2] = upstream'.file[e[1]].edition =>
                      /\ e[2] = upstream.file[e[1]].edition
                      /\ upstream'.file[e[1]] = upstream.file[e[1]]
      <3>1. e[1] \in Targets /\ e[2] \in Nat /\ e[2] <= upstream.file[e[1]].edition
        BY <2>2, <2>3 DEF Works, Planned
      <3> QED
        BY <1>4, <3>1
    <2>4. Planned(place, j)'
      BY <2>2, <2>3 DEF Planned
    <2>5. j.kind = "season" => \A w, delta : ShownAll(j.ok, w, delta) => ShownAll(j.ok, w, delta)'
      BY <2>3 DEF ShownAll, Shown
    <2>6. \A w : Bears(w, j) => Bears(w, j)'
      BY <2>2, <2>5 DEF Bears, Works
    <2>7. ASSUME ~evicted, place \in AtWork
          PROVE  Based(place, j)'
      <3>1. PICK w, v : w = Published /\ v = versions[j.version]
        OBVIOUS
      <3>2. Published' = w /\ versions'[j.version] = v /\ manifest' = manifest
        BY <1>1, <3>1 DEF Published
      <3>3. CASE place \in {"fetch", "build"}
        <4>1. j.kind = "results" => j.base = manifest
          BY <2>2, <2>7, <3>3 DEF Based
        <4>2. j.kind # "results" => ShownAll(j.ok, w, j.delta)
          BY <2>2, <2>7, <3>1, <3>3 DEF Based
        <4>3. j.kind # "results" => ShownAll(j.ok, w, j.delta)'
          BY <2>2, <2>5, <4>2 DEF Works
        <4> QED
          BY <3>2, <3>3, <4>1, <4>3 DEF Based, ShownAll, Shown
      <3>4. CASE place = "publish"
        <4>1. Keeps(w, v) /\ Bears(v, j)
          BY <2>2, <2>7, <3>1, <3>4 DEF Based
        <4>2. Bears(v, j)'
          BY <2>6, <4>1
        <4> QED
          BY <3>2, <3>4, <4>1, <4>2 DEF Based, Bears, ShownAll, Shown, Keeps
      <3>5. CASE place = "record"
        <4>1. Bears(w, j)
          BY <2>2, <2>7, <3>1, <3>5 DEF Based
        <4>2. Bears(w, j)'
          BY <2>6, <4>1
        <4> QED
          BY <3>2, <3>5, <4>2 DEF Based, Bears, ShownAll, Shown
      <3>6. CASE place = "plan"
        BY <3>6 DEF Based
      <3> QED
        BY <2>7, <3>3, <3>4, <3>5, <3>6 DEF AtWork
    <2>8. pc'[p] = place /\ job'[p] = j
      BY <1>1, <2>1
    <2>9. Planned(pc[p], job[p])'
      BY <2>4, <2>8 DEF Planned
    <2>10. ASSUME ~evicted, pc[p] \in AtWork
           PROVE  Based(pc[p], job[p])'
      <3>1. Based(place, j)'
        BY <2>1, <2>7, <2>10
      <3> QED
        BY <2>8, <3>1 DEF Based, Bears, ShownAll, Shown, Keeps, Published
    <2> QED
      BY <2>9, <2>10
  <1> QED
    BY <1>1, <1>5, <1>6, <1>7, <1>8 DEF Inv, AtWork

-----------------------------------------------------------------------------
LEMMA InitInv ==
    ASSUME Init
    PROVE  Inv
  <1>1. lock \in [Locks -> Procs \cup {Free, Dead}]
    BY DEF Init
  <1>2. /\ manifest = 0 /\ 0 \in 0..MaxVersions /\ versions[0] \in Snapshots /\ versions[0] # None
        /\ versions \in [0..MaxVersions -> Snapshots \cup {None}]
    <2>1. PICK w : w = [m \in Matches |-> IF m \in Known THEN "scheduled" ELSE "absent"]
      OBVIOUS
    <2>2. w \in Snapshots
      BY <2>1 DEF Snapshots
    <2>3. versions = [v \in 0..MaxVersions |-> IF v # 0 THEN None ELSE w]
      BY <2>1 DEF Init
    <2>4. 0 \in 0..MaxVersions /\ manifest = 0
      BY Constants DEF Init
    <2>5. versions[0] = w /\ w # None
      BY <2>2, <2>3, <2>4, Constants
    <2>6. \A v \in 0..MaxVersions : versions[v] \in Snapshots \cup {None}
      BY <2>2, <2>3
    <2> QED
      BY <2>2, <2>3, <2>4, <2>5, <2>6
  <1>3. season \in [Targets -> Nat \cup {None}] /\ \A k \in Targets : season[k] = None
    BY DEF Init
  <1>4. /\ upstream = [match |-> upstream.match, file |-> upstream.file, body |-> upstream.body]
        /\ upstream.match \in [Matches -> Statuses] /\ upstream.body \in [Dates -> Nat]
        /\ upstream.file = [k \in Targets |-> upstream.file[k]]
        /\ \A k \in Targets : upstream.file[k] \in [edition : Nat, says : [MatchesOf(k) -> Statuses]]
    <2>1. /\ upstream.match = [m \in Matches |-> "scheduled"] /\ upstream.body = [d \in Dates |-> 0]
          /\ upstream.file = [k \in Targets |->
                                [edition |-> 0, says |-> [m \in MatchesOf(k) |-> "scheduled"]]]
          /\ upstream = [match |-> upstream.match, file |-> upstream.file, body |-> upstream.body]
      BY DEF Init
    <2>2. \A k \in Targets : [m \in MatchesOf(k) |-> "scheduled"] \in [MatchesOf(k) -> Statuses]
      BY DEF Statuses
    <2> QED
      BY <2>1, <2>2 DEF Statuses
  <1>5. results = [match |-> results.match, etag |-> results.etag] /\ evicted \in BOOLEAN
    BY DEF Init
  <1>6. /\ pc \in [Procs -> {"idle", "leave"} \cup Waiting \cup AtWork]
        /\ job = [p \in Procs |-> job[p]] /\ \A p \in Procs : pc[p] = "idle"
    BY DEF Init
  <1>7. Typed
    BY <1>1, <1>2, <1>3, <1>4, <1>5, <1>6 DEF Typed
  <1>8. Begun
    BY <1>2, <1>6 DEF Begun, Standing
  <1>9. Recorded
    <2>1. \A k \in Targets : upstream.file[k].edition # None
      BY <1>4, Constants
    <2> QED
      BY <1>3, <2>1 DEF Recorded, NoHiddenSeason
  <1>10. Exclusive
    BY <1>6 DEF Exclusive, AtWork
  <1> QED
    BY <1>6, <1>7, <1>8, <1>9, <1>10 DEF Inv, AtWork

(* The steps of a process that publish nothing. *)
LEMMA QuietStep ==
    ASSUME Inv, NEW p \in Procs,
           \/ \E kind \in {"season", "results"} : Start(p, kind)
           \/ TakeLock(p) \/ FindStale(p) \/ Unlink(p) \/ Busy(p) \/ Release(p)
           \/ \E aged, paused \in SUBSET Targets : PlanSeason(p, aged, paused)
           \/ \E due, gone \in SUBSET Matches : PlanResults(p, due, gone)
           \/ FetchTarget(p)
           \/ \E unlisted \in SUBSET Matches : FetchDate(p, unlisted)
           \/ \E refused \in BOOLEAN : FetchFails(p, refused)
           \/ RecordSeason(p) \/ LedgerFails(p) \/ Crash(p)
    PROVE  Inv' /\ UNCHANGED <<versions, manifest, results>>
  <1>1. UNCHANGED <<versions, manifest, results>>
    BY DEF Start, TakeLock, FindStale, Unlink, Busy, Release, PlanSeason, PlanResults, FetchTarget,
           FetchDate, FetchFails, RecordSeason, LedgerFails, Crash, disk
  <1>2. CASE \E kind \in {"season", "results"} : Start(p, kind)
    BY <1>1, <1>2, StartStep
  <1>3. CASE TakeLock(p) \/ FindStale(p) \/ Unlink(p) \/ Busy(p) \/ Release(p) \/ LedgerFails(p) \/ Crash(p)
    BY <1>1, <1>3, TakeLockStep, LeaveSteps, UnlinkStep, ReleaseStep, CrashStep
  <1>4. CASE \E aged, paused \in SUBSET Targets : PlanSeason(p, aged, paused)
    BY <1>1, <1>4, PlanSeasonStep
  <1>5. CASE \E due, gone \in SUBSET Matches : PlanResults(p, due, gone)
    BY <1>1, <1>5, PlanResultsStep
  <1>6. CASE FetchTarget(p) \/ RecordSeason(p)
    BY <1>1, <1>6, FetchTargetStep, RecordSeasonStep
  <1>7. CASE \E unlisted \in SUBSET Matches : FetchDate(p, unlisted)
    BY <1>1, <1>7, FetchDateStep
  <1>8. CASE \E refused \in BOOLEAN : FetchFails(p, refused)
    BY <1>1, <1>8, FetchFailsStep
  <1> QED
    BY <1>1, <1>2, <1>3, <1>4, <1>5, <1>6, <1>7, <1>8

(* Every step keeps the invariant; while locks hold none loses what is        *)
(* published, and none ticks off what is not.                                *)
LEMMA NextInv ==
    ASSUME Inv, [Next]_vars
    PROVE  /\ Inv'
           /\ ~evicted => Keeps(Published, Published')
           /\ ~evicted => \A m \in Matches :
                results'.match[m] = "done" /\ results.match[m] # "done" => Published[m] \in Terminal
  <1>1. Keeps(Published, Published)
    BY DEF Keeps
  <1>2. CASE UNCHANGED vars
    <2>1. Typed' /\ Begun' /\ Exclusive' /\ Recorded'
      BY <1>2 DEF vars, disk, world, Inv, Typed, Begun, Standing, Exclusive, Recorded, NoHiddenSeason,
                  Published
    <2>2. \A p \in Procs : pc'[p] # "idle" => Planned(pc[p], job[p])'
      BY <1>2 DEF vars, disk, world, Inv, Planned
    <2>3. ASSUME ~evicted', NEW p \in Procs, pc'[p] \in AtWork
          PROVE  Based(pc[p], job[p])'
      <3>1. UNCHANGED <<pc, job, evicted, manifest, versions, upstream>>
        BY <1>2 DEF vars, disk, world
      <3>2. Based(pc[p], job[p])
        BY <2>3, <3>1 DEF Inv
      <3>3. Published' = Published
        BY <3>1 DEF Published
      <3>4. /\ Bears(Published, job[p])' = Bears(Published, job[p])
            /\ ShownAll(job[p].ok, Published, job[p].delta)' = ShownAll(job[p].ok, Published, job[p].delta)
        BY <3>1, <3>3 DEF Bears, ShownAll, Shown
      <3>5. Bears(versions[job[p].version], job[p])' = Bears(versions[job[p].version], job[p])
        BY <3>1 DEF Bears, ShownAll, Shown
      <3> QED
        BY <3>1, <3>2, <3>3, <3>4, <3>5 DEF Based, Keeps
    <2>4. Published' = Published /\ results' = results
      BY <1>2 DEF vars, disk, Published
    <2> QED
      BY <1>1, <2>1, <2>2, <2>3, <2>4 DEF Inv
  <1>3. CASE News
    <2>1. Published' = Published /\ results' = results
      BY <1>3 DEF News, disk, Published
    <2> QED
      BY <1>1, <1>3, <2>1, NewsStep
  <1>4. ASSUME NEW p \in Procs, Build(p) \/ PublicationFails(p)
        PROVE  Inv' /\ Published' = Published /\ results' = results
    BY <1>4, BuildStep, PublicationFailsStep DEF Build, PublicationFails
  <1>5. ASSUME NEW p \in Procs, Publish(p)
        PROVE  Inv' /\ results' = results /\ (~evicted => Keeps(Published, Published'))
    BY <1>5, PublishStep
  <1>6. ASSUME NEW p \in Procs, RecordResults(p)
        PROVE  /\ Inv' /\ Published' = Published
               /\ ~evicted => \A m \in Matches :
                    results'.match[m] = "done" /\ results.match[m] # "done" => Published[m] \in Terminal
    BY <1>6, RecordResultsStep
  <1>7. CASE Next /\ ~News /\ \A p \in Procs : ~Build(p) /\ ~PublicationFails(p) /\ ~Publish(p) /\ ~RecordResults(p)
    <2>1. Inv' /\ UNCHANGED <<versions, manifest, results>>
      BY <1>7, QuietStep DEF Next
    <2> QED
      BY <1>1, <2>1 DEF Published
  <1> QED
    BY <1>1, <1>2, <1>3, <1>4, <1>5, <1>6, <1>7

THEOREM Invariance == Spec => []Inv
  <1>1. Init => Inv
    BY InitInv
  <1>2. Inv /\ [Next]_vars => Inv'
    BY NextInv
  <1> QED
    BY <1>1, <1>2, PTL DEF Spec

(* What the manifest names is a complete version, whatever publications,      *)
(* failures, stops and lost locks there are.                                  *)
THEOREM ManifestIsComplete == Spec => []VersionsAreComplete
  <1>1. Inv => VersionsAreComplete
    BY DEF Inv, Begun, Standing, VersionsAreComplete
  <1> QED
    BY <1>1, Invariance, PTL

(* As long as no running process lost its lock, a season file that would      *)
(* answer 304 has nothing that is not published.                              *)
THEOREM NoSeasonIsHidden == Spec => []NoHiddenSeason
  <1>1. Inv => NoHiddenSeason
    BY DEF Inv, Recorded
  <1> QED
    BY <1>1, Invariance, PTL

(* As long as no running process lost its lock, a publication loses no result *)
(* and no match of the snapshot it replaces.                                  *)
THEOREM PublicationsKeep == Spec => PublishedStays
  <1>1. Inv /\ [Next]_vars
          => [~evicted => \A m \in Matches :
                /\ Published[m] = "completed" => Published'[m] = "completed"
                /\ Published[m] # "absent" => Published'[m] # "absent"]_vars
    BY NextInv DEF Keeps
  <1> QED
    BY <1>1, Invariance, PTL DEF Spec, PublishedStays

(* As long as no running process lost its lock, a match is ticked off only    *)
(* with its result in the published snapshot.                                 *)
THEOREM TickedOffIsPublished == Spec => TickedOffWhenPublished
  <1>1. Inv /\ [Next]_vars
          => [~evicted => \A m \in Matches :
                results'.match[m] = "done" /\ results.match[m] # "done" => Published[m] \in Terminal]_vars
    BY NextInv
  <1> QED
    BY <1>1, Invariance, PTL DEF Spec, TickedOffWhenPublished
=============================================================================
