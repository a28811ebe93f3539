--------------------------- MODULE OwnerShellProofs ---------------------------
(***************************************************************************)
(* Proofs about OwnerShell for any handlers, drafts, matches and numbers of*)
(* submissions and views.                                                  *)
(*                                                                         *)
(* Four arguments over one typing of the handlers.  A linked bet is checked*)
(* by the API.  An answer about a match is current only while that match is*)
(* open (Outdated).  A recording that deletes a draft has stored its bet   *)
(* (Stored).  And a draft has one group for good: there is one assignment  *)
(* of groups to drafts that the database, the page and everything on its   *)
(* way agree with (Grouped), which only the creation of a draft extends.   *)
(***************************************************************************)
EXTENDS OwnerShell, TLAPS

Steps == {"idle", "challenge", "create", "created", "delete", "done", "save", "store",
          "reload", "show", "get", "refresh"}
Kinds == {None, "record", "finalize", "new", "update", "discard", "detail"}

Inputs  == [id: Int, teams: Teams \cup {None}, group: Groups, match: Groups \cup {None},
            draft: Drafts \cup {None}]
Texts   == [group: Groups, teams: Teams \cup {None}]
Records == [Drafts -> Groups \cup {None}]

(* What a waiting handler holds by the place it waits at. *)
Carries(j) ==
    /\ j.pc \in {"challenge", "create", "created"} => j.input \in Inputs
    /\ j.pc \in {"save", "store", "delete"} => j.draft \in Drafts
    /\ j.pc \in {"save", "store"} => j.text \in Texts /\ j.kind \in {"new", "update"}
    /\ j.pc \in {"challenge", "create", "created"} => j.kind \in {"record", "finalize"}
    /\ j.pc = "challenge" => j.kind = "record"
    /\ j.pc = "show" => j.seen \in Records
    /\ j.pc \in {"get", "refresh"} => j.match \in Matches

Job  == [pc: Steps, kind: Kinds, input: Inputs \cup {None}, draft: Drafts \cup {None},
         text: Texts \cup {None}, seen: Records \cup {None}, match: Matches \cup {None},
         version: Nat]
Jobs == {j \in Job : Carries(j)}

Forms    == [mode: {"none", "manual", "scoped", "edit"}, draft: Drafts \cup {None},
             linked: Groups \cup {None}]
Pendings == [input: Inputs \cup {None}, draft: Drafts \cup {None}]
Loads    == [version: Nat, match: Matches \cup {None}, cache: SUBSET Matches]

PageTyped ==
    /\ form \in Forms /\ open \in Matches \cup {None} /\ pending \in Pendings
    /\ known \in Records
    /\ detail \in Matches \cup {None} /\ load \in Loads
    /\ left \in [submits: Nat, views: Nat]

Typed ==
    /\ PageTyped
    /\ task \in [Tasks -> Jobs]
    /\ drafts \in [Drafts -> Groups \cup {None, Gone}]
    /\ bets \subseteq Inputs

-----------------------------------------------------------------------------
(* A step of one handler. *)
LEMMA OneTask ==
    ASSUME Typed, NEW t \in Tasks, NEW job \in Jobs, task' = [task EXCEPT ![t] = job]
    PROVE  /\ task' \in [Tasks -> Jobs] /\ task'[t] = job
           /\ \A u \in Tasks \ {t} : task'[u] = task[u]
  BY DEF Typed

LEMMA IdleJob == Idle \in Jobs /\ [Idle EXCEPT !.pc = "reload"] \in Jobs
  BY DEF Idle, Jobs, Job, Carries, Steps, Kinds

(* What a job is, without what it carries. *)
LEMMA JobFields ==
    ASSUME NEW j \in Jobs
    PROVE  /\ j.pc \in Steps /\ j.kind \in Kinds /\ j.version \in Nat
           /\ j.input \in Inputs \cup {None} /\ j.draft \in Drafts \cup {None}
           /\ j.text \in Texts \cup {None} /\ j.seen \in Records \cup {None}
           /\ j.match \in Matches \cup {None} /\ Carries(j)
  BY DEF Jobs, Job

(* Going on to a place that needs no more than what is carried. *)
LEMMA GotoTask ==
    ASSUME Typed, NEW t \in Tasks, NEW place \in Steps, Goto(t, place),
           Carries([task[t] EXCEPT !.pc = place])
    PROVE  /\ task' \in [Tasks -> Jobs]
           /\ task'[t] = [task[t] EXCEPT !.pc = place]
           /\ \A u \in Tasks \ {t} : task'[u] = task[u]
  <1>1. task \in [Tasks -> Jobs] /\ task[t] \in Job
    BY DEF Typed, Jobs
  <1>2. [task[t] EXCEPT !.pc = place] \in Jobs
    BY <1>1 DEF Jobs, Job
  <1>3. task' = [task EXCEPT ![t] = [task[t] EXCEPT !.pc = place]]
    BY DEF Goto
  <1> QED
    BY <1>2, <1>3, OneTask

LEMMA EndTask ==
    ASSUME Typed, NEW t \in Tasks, End(t) \/ Reload(t)
    PROVE  /\ task' \in [Tasks -> Jobs]
           /\ task'[t] = Idle \/ task'[t] = [Idle EXCEPT !.pc = "reload"]
           /\ \A u \in Tasks \ {t} : task'[u] = task[u]
  BY IdleJob, OneTask DEF End, Reload

LEMMA SessionTyped == NoSession \in Forms /\ NoPending \in Pendings
  BY DEF NoSession, NoPending, Forms, Pendings

(* What the owner may have filled in, and the input read from it. *)
LEMMA FilledTyped ==
    ASSUME Typed, NEW c \in Filled
    PROVE  /\ Input(c) \in Inputs
           /\ [group |-> Group(c), teams |-> c.teams] \in Texts
           /\ Edited \in Groups \cup {None}
           /\ Edited # None => form.draft \in Drafts /\ Group(c) = known[form.draft]
                                /\ known[form.draft] = Edited
  <1>1. /\ form.draft \in Drafts \cup {None} /\ form.linked \in Groups \cup {None}
        /\ open \in Matches \cup {None} /\ left.submits \in Int
        /\ known \in Records
    BY DEF Typed, PageTyped, Forms
  <1>2. c.teams \in Teams \cup {None} /\ c.linked \in Groups \cup {None}
    BY <1>1 DEF Filled, Typeable, Resolved, Teams, Groups
  <1>3. /\ Edited \in Groups \cup {None}
        /\ Edited # None => form.draft \in Drafts /\ known[form.draft] = Edited
    BY <1>1, OwnerShellAssumption DEF Edited, Records
  <1>4. Link(c) \in Groups \cup {None}
    BY <1>1, <1>2 DEF Link, First, Groups
  <1>5. Group(c) \in Groups /\ (Edited # None => Group(c) = Edited)
    BY <1>3, <1>4, OwnerShellAssumption DEF Group, First, Groups
  <1>6. Input(c) \in Inputs
    BY <1>1, <1>2, <1>3, <1>4, <1>5 DEF Input, Inputs
  <1> QED
    BY <1>2, <1>3, <1>5, <1>6 DEF Texts

(* The counters and the controller of the detail. *)
LEMMA CountersTyped ==
    ASSUME Typed
    PROVE  /\ Submit \/ View \/ UNCHANGED left => left' \in [submits: Nat, views: Nat]
           /\ Cancelled(load) \in Loads /\ Cancelled(load).version = load.version + 1
  <1>1. left \in [submits: Nat, views: Nat] /\ load \in Loads
    BY DEF Typed, PageTyped
  <1>2. ASSUME Submit PROVE left' \in [submits: Nat, views: Nat]
    <2>1. left.submits - 1 \in Nat
      BY <1>1, <1>2 DEF Submit
    <2>2. left' = [left EXCEPT !.submits = left.submits - 1]
      BY <1>2 DEF Submit
    <2> QED
      BY <1>1, <2>1, <2>2
  <1>3. ASSUME View PROVE left' \in [submits: Nat, views: Nat]
    <2>1. left.views - 1 \in Nat
      BY <1>1, <1>3 DEF View
    <2>2. left' = [left EXCEPT !.views = left.views - 1]
      BY <1>3 DEF View
    <2> QED
      BY <1>1, <2>1, <2>2
  <1>4. Cancelled(load) \in Loads /\ Cancelled(load).version = load.version + 1
    <2>1. load.version + 1 \in Nat
      BY <1>1 DEF Loads
    <2> QED
      BY <1>1, <2>1 DEF Loads, Cancelled
  <1> QED
    BY <1>1, <1>2, <1>3, <1>4

-----------------------------------------------------------------------------
(* Types, by action. *)
LEMMA TypedPage ==
    ASSUME Typed,
           \/ Close \/ AddManually \/ AddScoped \/ LeaveMatch \/ ShowBets
           \/ \E d \in Drafts : EditDraft(d)
           \/ \E m \in Matches : OpenMatch(m)
    PROVE  Typed'
  <1>1. UNCHANGED <<task, drafts, bets, known>>
    BY DEF Close, AddManually, AddScoped, LeaveMatch, ShowBets, EditDraft, OpenMatch, server
  <1>2. PageTyped /\ UNCHANGED known
    BY <1>1 DEF Typed
  <1>3. ASSUME Close PROVE PageTyped'
    BY <1>2, <1>3, SessionTyped DEF Close, CloseSheets, PageTyped, view
  <1>4. ASSUME AddManually \/ AddScoped PROVE PageTyped'
    BY <1>2, <1>4, SessionTyped DEF AddManually, AddScoped, Activate, PageTyped, view, Forms
  <1>5. ASSUME NEW d \in Drafts, EditDraft(d) PROVE PageTyped'
    <2>1. PICK linked \in Restored(d) :
              Activate("edit", IF known[d] = Manual THEN None ELSE known[d], d, linked)
      BY <1>5 DEF EditDraft
    <2>2. known[d] \in Groups \cup {None}
      BY <1>2 DEF PageTyped, Records
    <2>3. linked \in Groups \cup {None}
      BY <2>2 DEF Restored
    <2>4. form' \in Forms
      BY <2>1, <2>3 DEF Activate, Forms
    <2>5. open' \in Matches \cup {None}
      BY <2>1, <2>2 DEF Activate, Groups
    <2>6. pending' \in Pendings
      BY <2>1, SessionTyped DEF Activate
    <2> QED
      BY <1>2, <1>5, <2>4, <2>5, <2>6 DEF EditDraft, PageTyped, view
  <1>6. ASSUME NEW m \in Matches, OpenMatch(m) PROVE PageTyped'
    <2>1. load' \in Loads /\ left' \in [submits: Nat, views: Nat]
      BY <1>6, CountersTyped DEF OpenMatch
    <2> QED
      BY <1>2, <1>6, <2>1 DEF OpenMatch, PageTyped
  <1>7. ASSUME LeaveMatch \/ ShowBets PROVE PageTyped'
    <2>1. load' \in Loads /\ left' \in [submits: Nat, views: Nat]
      BY <1>7, CountersTyped DEF LeaveMatch, ShowBets
    <2> QED
      BY <1>2, <1>7, <2>1 DEF LeaveMatch, ShowBets, PageTyped, page
  <1>8. PageTyped'
    BY <1>3, <1>4, <1>5, <1>6, <1>7
  <1> QED
    BY <1>1, <1>8 DEF Typed

LEMMA OwnerTask ==
    ASSUME Typed, NEW t \in Tasks,
           \/ Record(t) \/ Finalize(t) \/ SaveDraft(t) \/ ShowInfo(t)
           \/ \E d \in Drafts : Discard(t, d)
    PROVE  Typed' /\ \A u \in Tasks \ {t} : task'[u] = task[u]
  <1>1. /\ UNCHANGED <<form, open, pending, known, drafts, bets>>
        /\ left' \in [submits: Nat, views: Nat]
    BY CountersTyped DEF Record, Finalize, SaveDraft, ShowInfo, Discard, page, server
  <1>2. /\ PageTyped
        /\ (detail' \in Matches \cup {None} /\ load' \in Loads) => PageTyped'
    BY <1>1 DEF Typed, PageTyped
  <1>3. (\E job \in Jobs : Wait(t, job)) =>
            task' \in [Tasks -> Jobs] /\ \A u \in Tasks \ {t} : task'[u] = task[u]
    BY OneTask DEF Wait
  <1>4. ASSUME Record(t) PROVE PageTyped' /\ \E job \in Jobs : Wait(t, job)
    <2>1. PICK c \in Filled :
              Wait(t, [Idle EXCEPT !.pc = "challenge", !.kind = "record", !.input = Input(c)])
      BY <1>4 DEF Record
    <2>2. [Idle EXCEPT !.pc = "challenge", !.kind = "record", !.input = Input(c)] \in Jobs
      BY FilledTyped DEF Idle, Jobs, Job, Carries, Steps, Kinds
    <2> QED
      BY <1>2, <1>4, <2>1, <2>2 DEF Record, view, PageTyped
  <1>5. ASSUME Finalize(t) PROVE PageTyped' /\ \E job \in Jobs : Wait(t, job)
    <2>1. pending.input \in Inputs /\ pending.draft \in Drafts \cup {None}
      BY <1>2, <1>5 DEF Finalize, PageTyped, Pendings
    <2>2. [Idle EXCEPT !.pc = "create", !.kind = "finalize", !.input = pending.input,
                       !.draft = pending.draft] \in Jobs
      BY <2>1 DEF Idle, Jobs, Job, Carries, Steps, Kinds
    <2> QED
      BY <1>2, <1>5, <2>2 DEF Finalize, view, PageTyped
  <1>6. ASSUME SaveDraft(t) PROVE PageTyped' /\ \E job \in Jobs : Wait(t, job)
    <2>1. PICK c \in Filled, d \in IF Edited # None THEN {form.draft} ELSE Fresh :
              Wait(t, [Idle EXCEPT !.pc = "save",
                                   !.kind = IF Edited # None THEN "update" ELSE "new",
                                   !.draft = d,
                                   !.text = [group |-> Group(c), teams |-> c.teams]])
      BY <1>6 DEF SaveDraft
    <2>2. d \in Drafts
      BY FilledTyped DEF Fresh
    <2>3. [group |-> Group(c), teams |-> c.teams] \in Texts
      BY FilledTyped
    <2>4. [Idle EXCEPT !.pc = "save", !.kind = IF Edited # None THEN "update" ELSE "new",
                       !.draft = d, !.text = [group |-> Group(c), teams |-> c.teams]] \in Jobs
      BY <2>2, <2>3 DEF Idle, Jobs, Job, Carries, Steps, Kinds
    <2> QED
      BY <1>2, <1>6, <2>1, <2>4 DEF SaveDraft, view, PageTyped
  <1>7. ASSUME ShowInfo(t) PROVE PageTyped' /\ \E job \in Jobs : Wait(t, job)
    <2>1. open \in Matches
      BY <1>2, <1>7 DEF ShowInfo, PageTyped
    <2>2. Cancelled(load) \in Loads /\ Cancelled(load).version \in Nat
      BY CountersTyped DEF Loads
    <2>3. load' = [Cancelled(load) EXCEPT !.match = open]
      BY <1>7 DEF ShowInfo
    <2>4. load' \in Loads
      BY <2>1, <2>2, <2>3 DEF Loads
    <2>5. [Idle EXCEPT !.pc = IF open \in load.cache THEN "refresh" ELSE "get",
                       !.kind = "detail", !.match = open,
                       !.version = Cancelled(load).version] \in Jobs
      BY <2>1, <2>2 DEF Idle, Jobs, Job, Carries, Steps, Kinds
    <2>6. detail' \in Matches \cup {None}
      BY <1>7, <2>1 DEF ShowInfo
    <2> QED
      BY <1>2, <1>7, <2>4, <2>5, <2>6 DEF ShowInfo
  <1>8. ASSUME NEW d \in Drafts, Discard(t, d) PROVE PageTyped' /\ \E job \in Jobs : Wait(t, job)
    <2>1. [Idle EXCEPT !.pc = "delete", !.kind = "discard", !.draft = d] \in Jobs
      BY DEF Idle, Jobs, Job, Carries, Steps, Kinds
    <2> QED
      BY <1>2, <1>8, <2>1 DEF Discard, view, PageTyped
  <1>9. PageTyped' /\ \E job \in Jobs : Wait(t, job)
    BY <1>4, <1>5, <1>6, <1>7, <1>8
  <1> QED
    BY <1>1, <1>3, <1>9 DEF Typed

(* Reading the draft that a stored bet removes. *)
LEMMA CreatedTask ==
    ASSUME Typed, NEW t \in Tasks, Created(t)
    PROVE  \E d \in Drafts \cup {None}, place \in {"done", "delete"} :
             /\ [task[t] EXCEPT !.draft = d, !.pc = place] \in Jobs
             /\ task' = [task EXCEPT ![t] = [task[t] EXCEPT !.draft = d, !.pc = place]]
  <1> DEFINE d == IF task[t].kind = "record" THEN form.draft ELSE task[t].draft
             place == IF d = None THEN "done" ELSE "delete"
  <1>1. task[t] \in Job /\ form.draft \in Drafts \cup {None}
    BY DEF Typed, PageTyped, Forms, Jobs
  <1>2. d \in Drafts \cup {None}
    BY <1>1 DEF Job
  <1>3. task' = [task EXCEPT ![t] = [task[t] EXCEPT !.draft = d, !.pc = place]]
    BY DEF Created
  <1> HIDE DEF d
  <1>4. place \in {"done", "delete"} /\ (place = "delete" => d \in Drafts)
    BY <1>2
  <1> HIDE DEF place
  <1>5. [task[t] EXCEPT !.draft = d, !.pc = place] \in Jobs
    BY <1>1, <1>2, <1>4 DEF Jobs, Job, Carries, Steps
  <1> QED
    BY <1>2, <1>3, <1>4, <1>5

(* Reading the records. *)
LEMMA ReadTask ==
    ASSUME Typed, NEW t \in Tasks, ReadRecords(t)
    PROVE  LET seen == [d \in Drafts |-> IF d \in Written THEN drafts[d] ELSE None]
               job == [task[t] EXCEPT !.pc = "show", !.seen = seen]
           IN  seen \in Records /\ job \in Jobs /\ task' = [task EXCEPT ![t] = job]
  <1> DEFINE seen == [d \in Drafts |-> IF d \in Written THEN drafts[d] ELSE None]
             job == [task[t] EXCEPT !.pc = "show", !.seen = seen]
  <1>1. task[t] \in Job
    BY DEF Typed, Jobs
  <1>2. seen \in Records
    BY DEF Typed, Written, Records
  <1>3. task' = [task EXCEPT ![t] = job]
    BY DEF ReadRecords
  <1> HIDE DEF seen
  <1>4. job \in Jobs
    BY <1>1, <1>2 DEF Jobs, Job, Carries, Steps
  <1> QED
    BY <1>2, <1>3, <1>4 DEF seen

LEMMA GotTask ==
    ASSUME Typed, NEW t \in Tasks, DetailCached(t) \/ DetailRefreshed(t)
    PROVE  /\ task' \in [Tasks -> Jobs]
           /\ \A u \in Tasks \ {t} : task'[u] = task[u]
           /\ \/ task'[t] = Idle /\ UNCHANGED detail
              \/ task'[t] = Idle /\ Current(t) /\ detail' = task[t].match
              \/ /\ task'[t] = [task[t] EXCEPT !.pc = "refresh"] /\ Current(t)
                 /\ detail' \in {detail, task[t].match}
           /\ load' \in Loads /\ load'.version = load.version
           /\ task[t].match \in Matches /\ UNCHANGED <<open, screen>>
  <1>1. PICK next \in {"refresh", "idle"} : Got(t, next)
    BY DEF DetailCached, DetailRefreshed
  <1>2. /\ task[t].pc \in {"get", "refresh"} /\ task[t] \in Jobs /\ load \in Loads
        /\ UNCHANGED <<open, screen>>
    BY DEF Typed, PageTyped, DetailCached, DetailRefreshed, page
  <1>3. task[t].match \in Matches
    BY <1>2 DEF Jobs, Carries
  <1>4. CASE ~Current(t)
    BY <1>1, <1>2, <1>3, <1>4, EndTask DEF Got, End, Typed
  <1>5. CASE Current(t)
    <2>1. \/ detail' = task[t].match
             /\ load' = [load EXCEPT !.cache = @ \cup {task[t].match},
                                     !.match = IF next = "idle" THEN None ELSE @]
          \/ UNCHANGED detail
             /\ load' = [load EXCEPT !.match = IF next = "idle" THEN None ELSE @]
      BY <1>1, <1>5 DEF Got
    <2>2. load' \in Loads /\ load'.version = load.version
      <3>1. \E cache \in SUBSET Matches, m \in Matches \cup {None} :
              load' = [load EXCEPT !.cache = cache, !.match = m]
        <4>1. CASE load' = [load EXCEPT !.cache = @ \cup {task[t].match},
                                        !.match = IF next = "idle" THEN None ELSE @]
          <5> DEFINE cache == load.cache \cup {task[t].match}
                     m == IF next = "idle" THEN None ELSE load.match
          <5>1. load' = [load EXCEPT !.cache = cache, !.match = m]
            BY <4>1
          <5>2. cache \in SUBSET Matches /\ m \in Matches \cup {None}
            BY <1>2, <1>3 DEF Loads
          <5> QED
            BY <5>1, <5>2
        <4>2. CASE load' = [load EXCEPT !.match = IF next = "idle" THEN None ELSE @]
          <5> DEFINE m == IF next = "idle" THEN None ELSE load.match
          <5>1. load.cache \in SUBSET Matches /\ m \in Matches \cup {None}
            BY <1>2 DEF Loads
          <5>2. load' = [load EXCEPT !.match = m]
            BY <4>2
          <5>3. load' = [load EXCEPT !.cache = load.cache, !.match = m]
            BY <1>2, <5>1, <5>2 DEF Loads
          <5> QED
            BY <5>1, <5>3
        <4> QED
          BY <2>1, <4>1, <4>2
      <3> QED
        BY <1>2, <3>1 DEF Loads
    <2>3. CASE next = "idle"
      BY <1>1, <1>2, <1>3, <1>5, <2>1, <2>2, <2>3, EndTask DEF Got, End, Typed
    <2>4. CASE next = "refresh"
      <3>1. Goto(t, "refresh")
        BY <1>1, <1>5, <2>4 DEF Got
      <3>2. Carries([task[t] EXCEPT !.pc = "refresh"])
        BY <1>2, <1>3 DEF Jobs, Job, Carries
      <3> QED
        BY <1>2, <1>3, <1>5, <2>1, <2>2, <3>1, <3>2, GotoTask DEF Steps
    <2> QED
      BY <2>3, <2>4
  <1> QED
    BY <1>4, <1>5

(* Going on to the next request. *)
LEMMA GoingOn ==
    ASSUME Typed, NEW t \in Tasks,
           Unchallenged(t) \/ Create(t) \/ Checked(t) \/ Save(t)
             \/ (DeleteDraft(t) /\ task[t].kind # "discard")
    PROVE  \E place \in {"create", "created", "store", "done"} :
             /\ Goto(t, place) /\ task' \in [Tasks -> Jobs]
             /\ task'[t] = [task[t] EXCEPT !.pc = place]
             /\ \A u \in Tasks \ {t} : task'[u] = task[u]
  <1>1. task[t] \in Job /\ Carries(task[t])
    BY DEF Typed, Jobs
  <1>2. ASSUME NEW place \in {"create", "created", "store", "done"}, Goto(t, place),
               Carries([task[t] EXCEPT !.pc = place])
        PROVE  /\ task' \in [Tasks -> Jobs]
               /\ task'[t] = [task[t] EXCEPT !.pc = place]
               /\ \A u \in Tasks \ {t} : task'[u] = task[u]
    <2>1. place \in Steps
      BY DEF Steps
    <2> QED
      BY <1>2, <2>1, GotoTask
  <1>3. CASE Unchallenged(t)
    BY <1>1, <1>2, <1>3 DEF Unchallenged, Job, Carries
  <1>4. CASE Create(t)
    BY <1>1, <1>2, <1>4 DEF Create, Job, Carries
  <1>5. CASE Checked(t)
    BY <1>1, <1>2, <1>5 DEF Checked, Job, Carries
  <1>6. CASE Save(t) \/ (DeleteDraft(t) /\ task[t].kind # "discard")
    BY <1>1, <1>2, <1>6 DEF Save, DeleteDraft, Job, Carries
  <1> QED
    BY <1>3, <1>4, <1>5, <1>6

LEMMA AnswerTask ==
    ASSUME Typed, NEW t \in Tasks, Answers(t)
    PROVE  Typed' /\ \A u \in Tasks \ {t} : task'[u] = task[u]
  <1>1. PageTyped /\ task[t] \in Jobs /\ Carries(task[t]) /\ task[t] \in Job
    BY DEF Typed, Jobs
  <1>2. ASSUME Unchallenged(t) \/ Create(t) \/ Checked(t) \/ Save(t) \/ DeleteDraft(t)
        PROVE  Typed' /\ \A u \in Tasks \ {t} : task'[u] = task[u]
    <2>1. task' \in [Tasks -> Jobs] /\ \A u \in Tasks \ {t} : task'[u] = task[u]
      <3>1. CASE DeleteDraft(t) /\ task[t].kind = "discard"
        BY <3>1, EndTask DEF DeleteDraft
      <3> QED
        BY <1>2, <3>1, GoingOn
    <2>2. UNCHANGED <<page, known, view, left>>
      BY <1>2 DEF Unchallenged, Create, Checked, Save, DeleteDraft
    <2>3. PageTyped'
      BY <1>1, <2>2 DEF PageTyped, page, view
    <2>4. bets' \subseteq Inputs
      BY <1>1, <1>2 DEF Unchallenged, Create, Checked, Save, DeleteDraft, server, Typed, Carries
    <2>5. drafts' \in [Drafts -> Groups \cup {None, Gone}]
      <3>1. CASE DeleteDraft(t)
        BY <3>1 DEF DeleteDraft, Typed
      <3>2. CASE Save(t)
        <4>1. task[t].text.group \in Groups
          BY <1>1, <3>2 DEF Save, Carries, Texts
        <4> QED
          BY <3>2, <4>1 DEF Save, Typed
      <3> QED
        BY <1>2, <3>1, <3>2 DEF Unchallenged, Create, Checked, server, Typed
    <2> QED
      BY <2>1, <2>3, <2>4, <2>5 DEF Typed
  <1>3. ASSUME Challenged(t) \/ Done(t) \/ Fails(t) \/ ShowRecords(t)
        PROVE  Typed' /\ \A u \in Tasks \ {t} : task'[u] = task[u]
    <2>1. task' \in [Tasks -> Jobs] /\ \A u \in Tasks \ {t} : task'[u] = task[u]
      BY <1>3, EndTask DEF Challenged, Done, Fails, ShowRecords
    <2>2. UNCHANGED <<open, detail, load, left, drafts, bets>>
      BY <1>3 DEF Challenged, Done, Fails, ShowRecords, view, server, page
    <2>3. pending' \in Pendings
      <3>1. CASE Challenged(t)
        <4>1. task[t].input \in Inputs /\ form.draft \in Drafts \cup {None}
          BY <1>1, <3>1 DEF Challenged, Carries, PageTyped, Forms
        <4> QED
          BY <3>1, <4>1 DEF Challenged, Pendings
      <3> QED
        BY <1>1, <1>3, <3>1, SessionTyped
        DEF Done, Fails, ShowRecords, CloseSheets, page, PageTyped
    <2>4. form' \in Forms
      BY <1>1, <1>3, SessionTyped
      DEF Challenged, Done, Fails, ShowRecords, CloseSheets, page, PageTyped
    <2>5. known' \in Records
      BY <1>1, <1>3 DEF Challenged, Done, Fails, ShowRecords, PageTyped, Carries
    <2> QED
      BY <1>1, <2>1, <2>2, <2>3, <2>4, <2>5 DEF Typed, PageTyped
  <1>4. ASSUME Created(t) \/ ReadRecords(t)
        PROVE  Typed' /\ \A u \in Tasks \ {t} : task'[u] = task[u]
    <2>1. PICK job \in Jobs : task' = [task EXCEPT ![t] = job]
      BY <1>4, CreatedTask, ReadTask
    <2>2. UNCHANGED <<page, known, view, left, server>>
      BY <1>4 DEF Created, ReadRecords
    <2> QED
      BY <1>1, <2>1, <2>2, OneTask DEF Typed, PageTyped, page, view, server
  <1>5. ASSUME DetailCached(t) \/ DetailRefreshed(t)
        PROVE  Typed' /\ \A u \in Tasks \ {t} : task'[u] = task[u]
    <2>1. UNCHANGED <<page, known, left, server>>
      BY <1>5 DEF DetailCached, DetailRefreshed
    <2>2. detail' \in Matches \cup {None} /\ load' \in Loads
      BY <1>1, <1>5, GotTask DEF PageTyped
    <2> QED
      BY <1>1, <1>5, <2>1, <2>2, GotTask DEF Typed, PageTyped, page, server
  <1> QED
    BY <1>2, <1>3, <1>4, <1>5 DEF Answers

(* Every step keeps the types; a step of a handler leaves the other handlers *)
(* alone, the others leave all of them alone.                                *)
LEMMA TypedStep ==
    ASSUME Typed, [Next]_vars
    PROVE  /\ Typed'
           /\ \/ UNCHANGED task
              \/ \E t \in Tasks : \A u \in Tasks \ {t} : task'[u] = task[u]
  <1>1. ASSUME NEW t \in Tasks,
               \/ Record(t) \/ Finalize(t) \/ SaveDraft(t) \/ ShowInfo(t)
               \/ \E d \in Drafts : Discard(t, d)
        PROVE  Typed' /\ \A u \in Tasks \ {t} : task'[u] = task[u]
    BY <1>1, OwnerTask
  <1>2. CASE \/ Close \/ AddManually \/ AddScoped \/ LeaveMatch \/ ShowBets
             \/ \E d \in Drafts : EditDraft(d)
             \/ \E m \in Matches : OpenMatch(m)
    <2>1. UNCHANGED task
      BY <1>2 DEF Close, AddManually, AddScoped, LeaveMatch, ShowBets, EditDraft, OpenMatch
    <2> QED
      BY <1>2, <2>1, TypedPage
  <1>3. CASE UNCHANGED vars
    BY <1>3 DEF vars, page, view, server, Typed, PageTyped
  <1> QED
    BY <1>1, <1>2, <1>3, AnswerTask DEF Next, Owner

LEMMA InitTyped == Init => Typed
  <1> SUFFICES ASSUME Init PROVE Typed
    OBVIOUS
  <1>1. task \in [Tasks -> Jobs]
    BY IdleJob DEF Init
  <1>2. form \in Forms /\ pending \in Pendings
    BY SessionTyped DEF Init
  <1>3. load \in Loads /\ known \in Records
    BY DEF Init, Loads, Records
  <1> QED
    BY <1>1, <1>2, <1>3, OwnerShellAssumption DEF Init, Typed, PageTyped

-----------------------------------------------------------------------------
(* A bet that is linked to a match names the teams of that match: whatever   *)
(* link the page kept for the teams typed first, the API compares the names. *)
THEOREM LinkIsChecked == Spec => []LinkedBetNamesItsMatch
  <1>1. Init => LinkedBetNamesItsMatch
    BY DEF Init, LinkedBetNamesItsMatch
  <1>2. LinkedBetNamesItsMatch /\ [Next]_vars => LinkedBetNamesItsMatch'
    <2> SUFFICES ASSUME LinkedBetNamesItsMatch, [Next]_vars PROVE LinkedBetNamesItsMatch'
      OBVIOUS
    <2>1. CASE \E t \in Tasks : Create(t)
      <3>1. PICK t \in Tasks : Create(t)
        BY <2>1
      <3>2. bets' = bets \cup {task[t].input} /\ Acceptable(task[t].input)
        BY <3>1 DEF Create, Admitted
      <3> QED
        BY <3>2 DEF Acceptable, LinkedBetNamesItsMatch
    <2>2. CASE ~\E t \in Tasks : Create(t)
      <3>1. UNCHANGED bets
        BY <2>2 DEF Next, Owner, Answers, vars, server, Close, AddManually, AddScoped, EditDraft,
           OpenMatch, LeaveMatch, ShowBets, Record, Finalize, SaveDraft, ShowInfo, Discard, Unchallenged,
           Challenged, Created, DeleteDraft, Done, Fails, Checked, Save, ReadRecords,
           ShowRecords, DetailCached, DetailRefreshed
      <3> QED
        BY <3>1 DEF LinkedBetNamesItsMatch
    <2> QED
      BY <2>1, <2>2
  <1> QED
    BY <1>1, <1>2, PTL DEF Spec

-----------------------------------------------------------------------------
(* An answer that is still current is for the match that is open: leaving,   *)
(* opening and asking anew all outdate the answers under way.                *)
Outdated ==
    \A t \in Tasks :
        task[t].pc \in {"get", "refresh"} =>
            /\ task[t].version <= load.version
            /\ task[t].version = load.version => screen = "detail" /\ task[t].match = open

ShownInv == Typed /\ Outdated /\ DetailIsOfOpenMatch

(* A step that leaves the detail alone may only take a handler away from it. *)
LEMMA ShownFrame ==
    ASSUME ShownInv, Typed', UNCHANGED <<open, view>>,
           \A t \in Tasks : \/ task'[t] = task[t]
                            \/ task'[t].pc \notin {"get", "refresh"}
    PROVE  ShownInv'
  BY DEF ShownInv, Outdated, DetailIsOfOpenMatch, view

LEMMA ShownPage ==
    ASSUME ShownInv, Typed',
           \/ Close \/ AddManually \/ AddScoped \/ LeaveMatch \/ ShowBets
           \/ \E d \in Drafts : EditDraft(d)
           \/ \E m \in Matches : OpenMatch(m)
    PROVE  ShownInv'
  <1>1. load.version \in Nat /\ \A t \in Tasks : task[t].version \in Nat
    BY DEF ShownInv, Typed, PageTyped, Loads, Jobs, Job
  <1>2. UNCHANGED task
    BY DEF Close, AddManually, AddScoped, LeaveMatch, ShowBets, EditDraft, OpenMatch
  <1>3. CASE Close \/ AddScoped
    <2>1. UNCHANGED <<open, view>>
      BY <1>3 DEF Close, AddScoped, Activate
    <2> QED
      BY <1>2, <2>1, ShownFrame
  <1>4. CASE AddManually \/ \E d \in Drafts : EditDraft(d)
    <2>1. screen = "list" /\ UNCHANGED view
      BY <1>4 DEF AddManually, EditDraft
    <2> QED
      BY <1>2, <2>1 DEF ShownInv, Outdated, DetailIsOfOpenMatch, view
  <1>5. CASE LeaveMatch \/ ShowBets \/ \E m \in Matches : OpenMatch(m)
    <2>1. /\ load' = Cancelled(load)
          /\ \/ screen' = "list"
             \/ screen' = "detail" /\ detail' = None
             \/ UNCHANGED <<screen, detail, open>>
      BY <1>5 DEF LeaveMatch, ShowBets, OpenMatch, page
    <2>2. load'.version = load.version + 1
      BY <2>1, CountersTyped DEF ShownInv
    <2>3. \A t \in Tasks : task'[t].pc \in {"get", "refresh"} =>
                               task'[t].version < load'.version
      BY <1>1, <1>2, <2>2 DEF ShownInv, Outdated
    <2> QED
      BY <1>1, <1>2, <2>1, <2>2, <2>3 DEF ShownInv, Outdated, DetailIsOfOpenMatch
  <1> QED
    BY <1>3, <1>4, <1>5

LEMMA ShownInfo ==
    ASSUME ShownInv, Typed', NEW t \in Tasks, ShowInfo(t),
           \A u \in Tasks \ {t} : task'[u] = task[u]
    PROVE  ShownInv'
  <1>1. /\ screen = "detail" /\ UNCHANGED <<open, screen>>
        /\ detail' \in {None, open}
    BY DEF ShowInfo, page
  <1>2. load.version \in Nat /\ \A u \in Tasks : task[u].version \in Nat
    BY DEF ShownInv, Typed, PageTyped, Loads, Jobs, Job
  <1>3. load' = [Cancelled(load) EXCEPT !.match = open]
    BY DEF ShowInfo
  <1>4. Cancelled(load) \in Loads /\ Cancelled(load).version = load.version + 1
    BY CountersTyped DEF ShownInv
  <1>5. load'.version = load.version + 1
    BY <1>3, <1>4 DEF Loads
  <1>6. task'[t].match = open /\ task'[t].version = load.version + 1
    <2>1. task' = [task EXCEPT ![t] =
              [Idle EXCEPT !.pc = IF open \in load.cache THEN "refresh" ELSE "get",
                           !.kind = "detail", !.match = open, !.version = Cancelled(load).version]]
      BY DEF ShowInfo, Wait
    <2> QED
      BY <1>4, <2>1 DEF ShownInv, Typed, Idle
  <1>7. \A u \in Tasks \ {t} : task'[u].pc \in {"get", "refresh"} =>
                                   task'[u].version < load'.version
    BY <1>2, <1>5 DEF ShownInv, Outdated
  <1> QED
    BY <1>1, <1>2, <1>5, <1>6, <1>7 DEF ShownInv, Outdated, DetailIsOfOpenMatch

LEMMA ShownAnswer ==
    ASSUME ShownInv, Typed', NEW t \in Tasks, DetailCached(t) \/ DetailRefreshed(t)
    PROVE  ShownInv'
  <1>1. task[t].pc \in {"get", "refresh"}
    BY DEF DetailCached, DetailRefreshed
  <1>2. /\ task[t] \in Job
        /\ load'.version = load.version /\ UNCHANGED <<open, screen>>
        /\ \A u \in Tasks \ {t} : task'[u] = task[u]
    BY GotTask DEF ShownInv, Typed, Jobs
  <1>3. UNCHANGED detail \/ (Current(t) /\ detail' \in {detail, task[t].match})
    BY GotTask DEF ShownInv
  <1>4. DetailIsOfOpenMatch'
    BY <1>1, <1>2, <1>3 DEF Current, ShownInv, Outdated, DetailIsOfOpenMatch
  <1>5. \/ task'[t] = Idle
        \/ task'[t].version = task[t].version /\ task'[t].match = task[t].match
    BY <1>2, GotTask DEF ShownInv, Job
  <1>6. Outdated'
    BY <1>1, <1>2, <1>5 DEF Outdated, ShownInv, Idle
  <1> QED
    BY <1>4, <1>6 DEF ShownInv

(* Where a step of a handler that is not about the detail ends. *)
LEMMA AwayFromDetail ==
    ASSUME Typed, NEW t \in Tasks,
           \/ Record(t) \/ Finalize(t) \/ SaveDraft(t) \/ \E d \in Drafts : Discard(t, d)
           \/ Answers(t) /\ ~DetailCached(t) /\ ~DetailRefreshed(t)
    PROVE  /\ task'[t].pc \notin {"get", "refresh"}
           /\ UNCHANGED <<open, view>>
  <1>1. UNCHANGED <<open, view>>
    BY DEF Record, Finalize, SaveDraft, Discard, Answers, Unchallenged, Challenged, Create,
       Created, DeleteDraft, Done, Fails, Checked, Save, ReadRecords, ShowRecords, page
  <1> SUFFICES task'[t].pc \notin {"get", "refresh"}
    BY <1>1
  <1>2. task[t] \in Job /\ task \in [Tasks -> Jobs]
    BY DEF Typed, Jobs
  <1>3. CASE Record(t) \/ Finalize(t) \/ SaveDraft(t) \/ \E d \in Drafts : Discard(t, d)
    <2>1. CASE Record(t)
      BY <1>2, <2>1 DEF Record, Wait, Idle
    <2>2. CASE Finalize(t)
      BY <1>2, <2>2 DEF Finalize, Wait, Idle
    <2>3. CASE SaveDraft(t)
      BY <1>2, <2>3, ZenonT(40) DEF SaveDraft, Wait, Idle
    <2>4. CASE \E d \in Drafts : Discard(t, d)
      BY <1>2, <2>4 DEF Discard, Wait, Idle
    <2> QED
      BY <1>3, <2>1, <2>2, <2>3, <2>4
  <1>4. CASE Unchallenged(t) \/ Create(t) \/ Checked(t) \/ Save(t) \/ DeleteDraft(t)
    <2>1. CASE DeleteDraft(t) /\ task[t].kind = "discard"
      BY <2>1, EndTask DEF DeleteDraft, Idle
    <2>2. CASE ~(DeleteDraft(t) /\ task[t].kind = "discard")
      <3>1. PICK place \in {"create", "created", "store", "done"} :
              task'[t] = [task[t] EXCEPT !.pc = place]
        BY <1>4, <2>2, GoingOn
      <3> QED
        BY <1>2, <3>1 DEF Job
    <2> QED
      BY <2>1, <2>2
  <1>5. CASE Challenged(t) \/ Done(t) \/ Fails(t) \/ ShowRecords(t)
    BY <1>5, EndTask DEF Challenged, Done, Fails, ShowRecords, Idle
  <1>6. CASE Created(t)
    <2>1. PICK d \in Drafts \cup {None}, place \in {"done", "delete"} :
             task' = [task EXCEPT ![t] = [task[t] EXCEPT !.draft = d, !.pc = place]]
      BY <1>6, CreatedTask
    <2> QED
      BY <1>2, <2>1 DEF Job
  <1>7. CASE ReadRecords(t)
    BY <1>2, <1>7 DEF ReadRecords, Job
  <1> QED
    BY <1>3, <1>4, <1>5, <1>6, <1>7 DEF Answers

LEMMA ShownStep == ShownInv /\ [Next]_vars => ShownInv'
  <1> SUFFICES ASSUME ShownInv, [Next]_vars PROVE ShownInv'
    OBVIOUS
  <1>1. Typed'
    BY TypedStep DEF ShownInv
  <1>2. ASSUME NEW t \in Tasks,
               \/ Record(t) \/ Finalize(t) \/ SaveDraft(t) \/ \E d \in Drafts : Discard(t, d)
               \/ Answers(t) /\ ~DetailCached(t) /\ ~DetailRefreshed(t)
        PROVE  ShownInv'
    <2>1. \A u \in Tasks \ {t} : task'[u] = task[u]
      BY <1>2, OwnerTask, AnswerTask DEF ShownInv
    <2>2. task'[t].pc \notin {"get", "refresh"} /\ UNCHANGED <<open, view>>
      BY <1>2, AwayFromDetail DEF ShownInv
    <2> QED
      BY <1>1, <2>1, <2>2, ShownFrame
  <1>3. ASSUME NEW t \in Tasks, ShowInfo(t) PROVE ShownInv'
    BY <1>1, <1>3, OwnerTask, ShownInfo DEF ShownInv
  <1>4. CASE UNCHANGED vars
    BY <1>1, <1>4, ShownFrame DEF vars, page
  <1> QED
    BY <1>1, <1>2, <1>3, <1>4, ShownPage, ShownAnswer DEF Next, Owner

(* The detail on the screen is that of the match that was opened last, in    *)
(* whatever order the answers of whichever number of requests come.          *)
THEOREM LateAnswersAreDropped == Spec => []DetailIsOfOpenMatch
  <1>1. Init => ShownInv
    BY InitTyped DEF Init, ShownInv, Outdated, DetailIsOfOpenMatch, Idle
  <1>2. ShownInv => DetailIsOfOpenMatch
    BY DEF ShownInv
  <1> QED
    BY <1>1, <1>2, ShownStep, PTL DEF Spec

-----------------------------------------------------------------------------
(* Which steps write the database. *)
LEMMA DatabaseFrame ==
    ASSUME [Next]_vars
    PROVE  /\ (~\E t \in Tasks : Create(t)) => UNCHANGED bets
           /\ (~\E t \in Tasks : DeleteDraft(t) \/ Save(t)) => UNCHANGED drafts
  BY DEF Next, Owner, Answers, vars, server, Close, AddManually, AddScoped, EditDraft,
     OpenMatch, LeaveMatch, ShowBets, Record, Finalize, SaveDraft, ShowInfo, Discard, Unchallenged,
     Challenged, Create, Created, DeleteDraft, Done, Fails, Checked, Save, ReadRecords,
     ShowRecords, DetailCached, DetailRefreshed

Recording(j) == j.kind \in {"record", "finalize"}

(* A recording that goes for its draft has stored its bet. *)
Stored ==
    \A t \in Tasks :
        Recording(task[t]) /\ task[t].pc \in {"created", "delete", "done"} => task[t].input \in bets

(* A handler comes to these places from one of them, or by storing the bet.  *)
LEMMA RecordingStep ==
    ASSUME Typed, [Next]_vars, NEW t \in Tasks, task'[t] # task[t],
           Recording(task'[t]), task'[t].pc \in {"created", "delete", "done"}
    PROVE  /\ task'[t].input = task[t].input
           /\ \/ Create(t)
              \/ Recording(task[t]) /\ task[t].pc \in {"created", "delete", "done"}
  <1>1. task \in [Tasks -> Jobs] /\ task[t] \in Job /\ Carries(task[t])
    BY DEF Typed, Jobs
  <1>2. ASSUME NEW u \in Tasks, u # t, \A v \in Tasks \ {u} : task'[v] = task[v]
        PROVE  FALSE
    BY <1>2
  <1>3. task'[t] # Idle /\ task'[t] # [Idle EXCEPT !.pc = "reload"]
    BY DEF Idle
  <1>4. ~UNCHANGED task
    BY <1>1
  <1>5. PICK u \in Tasks :
            \/ Record(u) \/ Finalize(u) \/ SaveDraft(u) \/ ShowInfo(u)
            \/ \E d \in Drafts : Discard(u, d)
            \/ Answers(u)
    BY <1>4 DEF Next, Owner, vars, Close, AddManually, AddScoped, LeaveMatch, ShowBets, EditDraft, OpenMatch
  <1>6. u = t
    BY <1>2, <1>5, OwnerTask, AnswerTask
  <1>7. ~(Record(t) \/ Finalize(t) \/ SaveDraft(t) \/ ShowInfo(t) \/ \E d \in Drafts : Discard(t, d))
    <2>1. ~Record(t)
      BY <1>1 DEF Record, Wait, Idle
    <2>2. ~Finalize(t)
      BY <1>1 DEF Finalize, Wait, Idle
    <2>3. ~SaveDraft(t)
      BY <1>1, ZenonT(40) DEF SaveDraft, Wait, Idle, Recording
    <2>4. ~ShowInfo(t)
      BY <1>1 DEF ShowInfo, Wait, Idle, Recording
    <2>5. ASSUME NEW d \in Drafts, Discard(t, d) PROVE FALSE
      BY <1>1, <2>5 DEF Discard, Wait, Idle, Recording
    <2> QED
      BY <2>1, <2>2, <2>3, <2>4, <2>5
  <1>8. ~(Challenged(t) \/ Done(t) \/ Fails(t) \/ ShowRecords(t))
    BY <1>3, EndTask DEF Challenged, Done, Fails, ShowRecords
  <1>9. ~(ReadRecords(t) \/ DetailCached(t) \/ DetailRefreshed(t))
    <2>1. ~ReadRecords(t)
      BY <1>1 DEF ReadRecords, Job
    <2>2. ~(DetailCached(t) \/ DetailRefreshed(t))
      <3>1. task'[t] = [task[t] EXCEPT !.pc = "refresh"] => task'[t].pc = "refresh"
        BY <1>1 DEF Job
      <3> QED
        BY <1>3, <3>1, GotTask
    <2> QED
      BY <2>1, <2>2
  <1>10. CASE Created(t)
    <2>1. PICK d \in Drafts \cup {None}, place \in {"done", "delete"} :
             task' = [task EXCEPT ![t] = [task[t] EXCEPT !.draft = d, !.pc = place]]
      BY <1>10, CreatedTask
    <2>2. task[t].pc = "created" /\ task'[t].input = task[t].input /\ task'[t].kind = task[t].kind
      BY <1>1, <1>10, <2>1 DEF Created, Job
    <2> QED
      BY <2>2 DEF Recording
  <1>11. CASE Unchallenged(t) \/ Create(t) \/ Checked(t) \/ Save(t) \/ DeleteDraft(t)
    <2>1. ~(DeleteDraft(t) /\ task[t].kind = "discard")
      BY <1>3, EndTask DEF DeleteDraft
    <2>2. PICK place \in {"create", "created", "store", "done"} :
             Goto(t, place) /\ task'[t] = [task[t] EXCEPT !.pc = place]
      BY <1>11, <2>1, GoingOn
    <2>3. /\ task'[t].input = task[t].input /\ task'[t].kind = task[t].kind
          /\ task'[t].pc = place
      BY <1>1, <2>2 DEF Job
    <2>4. ~Unchallenged(t) /\ ~Checked(t)
      BY <1>1, <2>2, <2>3 DEF Unchallenged, Checked, Goto, Job
    <2>5. ~Save(t)
      BY <1>1, <2>3 DEF Save, Carries, Recording
    <2> QED
      BY <1>11, <2>3, <2>4, <2>5 DEF DeleteDraft, Recording
  <1> QED
    BY <1>5, <1>6, <1>7, <1>8, <1>9, <1>10, <1>11 DEF Answers

LEMMA StoredStep == Typed /\ Stored /\ [Next]_vars => Stored'
  <1> SUFFICES ASSUME Typed, Stored, [Next]_vars, NEW t \in Tasks,
                      Recording(task'[t]), task'[t].pc \in {"created", "delete", "done"}
               PROVE  task'[t].input \in bets'
    BY DEF Stored, Recording
  <1>1. bets \subseteq bets'
    BY DatabaseFrame DEF Create
  <1>2. CASE task'[t] = task[t]
    BY <1>1, <1>2 DEF Stored
  <1>3. CASE task'[t] # task[t]
    BY <1>1, <1>3, RecordingStep DEF Stored, Create
  <1> QED
    BY <1>2, <1>3

(* A recording never costs the draft of a bet that was not stored, whichever *)
(* request fails and whatever the owner does meanwhile.                      *)
THEOREM DraftOutlivesItsBet == Spec => DraftGoesAfterItsBet
  <1>1. Init => Typed /\ Stored
    BY InitTyped DEF Init, Stored, Idle
  <1>2. Typed /\ Stored /\ [Next]_vars => (Typed /\ Stored)'
    BY TypedStep, StoredStep
  <1>3. Typed /\ Stored /\ [Next]_vars =>
          [\A t \in Tasks, d \in Drafts :
             /\ task[t].kind \in {"record", "finalize"} /\ task'[t] # task[t]
             /\ d \in Written /\ drafts'[d] = Gone
             => task[t].input \in bets]_vars
    <2> SUFFICES ASSUME Typed, Stored, [Next]_vars, NEW t \in Tasks, NEW d \in Drafts,
                        task[t].kind \in {"record", "finalize"}, task'[t] # task[t],
                        d \in Written, drafts'[d] = Gone
                 PROVE  task[t].input \in bets
      OBVIOUS
    <2>1. drafts'[d] # drafts[d]
      BY DEF Written
    <2>2. PICK u \in Tasks : DeleteDraft(u) \/ Save(u)
      BY <2>1, DatabaseFrame
    <2>3. \A v \in Tasks \ {u} : task'[v] = task[v]
      BY <2>2, AnswerTask DEF Answers
    <2>4. ~Save(u)
      <3>1. ASSUME Save(u) PROVE FALSE
        <4>1. task[u].text.group \in Groups
          BY <3>1 DEF Save, Typed, Jobs, Carries, Texts
        <4>2. drafts'[d] \in {drafts[d], task[u].text.group}
          BY <3>1 DEF Save, Typed
        <4> QED
          BY <2>1, <4>1, <4>2, OwnerShellAssumption DEF Groups
      <3> QED
        BY <3>1
    <2> QED
      BY <2>2, <2>3, <2>4 DEF DeleteDraft, Stored, Recording
  <1>4. Spec => [](Typed /\ Stored)
    BY <1>1, <1>2, PTL DEF Spec
  <1> QED
    BY <1>3, <1>4, PTL DEF Spec, DraftGoesAfterItsBet

-----------------------------------------------------------------------------
(* A draft has one match group for good.  G says which: the group that the   *)
(* database has for the draft, and everything that the page, a handler or a  *)
(* request on its way takes from it.                                         *)
Held(G, d, group) == drafts[d] # None /\ group = G[d]

Saves(j) == j.pc \in {"save", "store"}

Claims(G, j) ==
    /\ j.pc \in {"challenge", "create"} /\ j.input.draft # None
         => Held(G, j.input.draft, j.input.group)
    /\ j.pc = "show" => \A d \in Drafts : j.seen[d] # None => Held(G, d, j.seen[d])
    /\ Saves(j) => /\ j.text.group = G[j.draft]
                   /\ j.kind = "update" <=> drafts[j.draft] # None

Agreed(G) ==
    /\ \A d \in Written : drafts[d] = G[d]
    /\ \A d \in Drafts : known[d] # None => Held(G, d, known[d])
    /\ pending.input # None /\ pending.input.draft # None
         => Held(G, pending.input.draft, pending.input.group)
    /\ \A t \in Tasks : Claims(G, task[t])

(* The ids of drafts that are being created are different. *)
Apart ==
    \A t, u \in Tasks :
        /\ t # u /\ Saves(task[t]) /\ task[t].kind = "new"
        /\ Saves(task[u]) /\ task[u].kind = "new"
        => task[t].draft # task[u].draft

Grouped == Typed /\ Apart /\ \E G \in [Drafts -> Groups] : Agreed(G)

(* A step that stays with G. *)
LEMMA Agreement ==
    ASSUME Typed, Typed', Apart, NEW G \in [Drafts -> Groups], Agreed(G),
           \A d \in Drafts : drafts[d] # None => drafts'[d] # None,
           \A d \in Drafts : drafts'[d] \in {drafts[d], Gone, G[d]},
           \A d \in Drafts : known'[d] \in {known[d], None} \/ Held(G, d, known'[d]),
           \/ pending' = pending \/ pending'.input = None \/ pending'.input.draft = None
           \/ Held(G, pending'.input.draft, pending'.input.group),
           \A t \in Tasks :
               \/ task'[t] = task[t]
               \/ Claims(G, task'[t]) /\ ~Saves(task'[t])
               \/ /\ Claims(G, task'[t]) /\ Saves(task[t])
                  /\ task'[t].kind = task[t].kind /\ task'[t].draft = task[t].draft,
           \A t \in Tasks : Saves(task'[t]) /\ task'[t].kind = "new"
                                => drafts'[task'[t].draft] = None
    PROVE  Apart' /\ Agreed(G)'
  <1>1. Apart'
    BY DEF Apart, Saves
  <1>3. \A d \in Written' : drafts'[d] = G[d]
    BY DEF Written, Agreed
  <1>4. \A d \in Drafts : known'[d] # None => Held(G, d, known[d])'
    BY DEF Agreed, Held
  <1>5. pending'.input # None /\ pending'.input.draft # None
          => Held(G, pending.input.draft, pending.input.group)'
    <2>1. ASSUME pending'.input # None, pending'.input.draft # None
          PROVE  Held(G, pending'.input.draft, pending'.input.group)
      BY <2>1 DEF Agreed
    <2>2. ASSUME pending'.input # None, pending'.input.draft # None
          PROVE  pending'.input.draft \in Drafts
      BY <2>2 DEF Typed, PageTyped, Pendings, Inputs
    <2> QED
      BY <2>1, <2>2 DEF Held
  <1>6. ASSUME NEW t \in Tasks PROVE Claims(G, task[t])'
    <2> DEFINE j == task'[t]
    <2>1. Claims(G, j) /\ Carries(j)
      BY DEF Agreed, Typed, Jobs
    <2>2. j.pc \in {"challenge", "create"} /\ j.input.draft # None
            => j.input.draft \in Drafts /\ Held(G, j.input.draft, j.input.group)
      BY <2>1 DEF Claims, Carries, Inputs
    <2>3. Saves(j) => /\ j.draft \in Drafts /\ j.text.group = G[j.draft]
                      /\ j.kind \in {"new", "update"}
                      /\ j.kind = "update" <=> drafts'[j.draft] # None
      BY <2>1 DEF Claims, Carries, Saves
    <2>4. j.pc = "show" => \A d \in Drafts : j.seen[d] # None => Held(G, d, j.seen[d])
      BY <2>1 DEF Claims
    <2> QED
      BY <2>2, <2>3, <2>4 DEF Claims, Held, Saves
  <1> QED
    BY <1>1, <1>3, <1>4, <1>5, <1>6 DEF Agreed

Unclaiming(j) == j.pc \notin {"challenge", "create", "show", "save", "store"}

(* A step that takes nothing from a draft and writes none. *)
LEMMA GroupedAside ==
    ASSUME Grouped, Typed', UNCHANGED <<drafts, known>>,
           pending' = pending \/ pending'.input = None,
           \A t \in Tasks : task'[t] = task[t] \/ Unclaiming(task'[t])
    PROVE  Grouped'
  <1>1. PICK G \in [Drafts -> Groups] : Agreed(G)
    BY DEF Grouped
  <1>2. \A t \in Tasks : \/ task'[t] = task[t]
                         \/ Claims(G, task'[t]) /\ ~Saves(task'[t])
    BY DEF Claims, Saves, Unclaiming
  <1>3. \A t \in Tasks : Saves(task'[t]) /\ task'[t].kind = "new"
                             => drafts'[task'[t].draft] = None
    BY <1>1, <1>2 DEF Agreed, Claims
  <1>4. Apart' /\ Agreed(G)'
    BY <1>1, <1>2, <1>3, Agreement DEF Grouped
  <1> QED
    BY <1>4 DEF Grouped

(* The drafts as a bet or a draft is read from the form. *)
LEMMA EditedIsHeld ==
    ASSUME Typed, NEW G \in [Drafts -> Groups], Agreed(G), NEW c \in Filled
    PROVE  /\ Edited # None => form.draft \in Drafts /\ Held(G, form.draft, Group(c))
           /\ Input(c).draft # None => Held(G, Input(c).draft, Input(c).group)
  <1>1. Edited # None => /\ form.draft \in Drafts /\ known[form.draft] = Edited
                         /\ Group(c) = known[form.draft]
    BY FilledTyped
  <1>2. Edited # None => Held(G, form.draft, Group(c))
    BY <1>1 DEF Agreed
  <1>3. /\ Input(c).draft # None => Input(c).draft = form.draft /\ Edited # None
        /\ Input(c).group = Group(c)
    BY DEF Input
  <1> QED
    BY <1>1, <1>2, <1>3

(* Beginning to record or to finalize. *)
LEMMA GroupedRecord ==
    ASSUME Grouped, Typed', NEW t \in Tasks, Record(t) \/ Finalize(t),
           \A u \in Tasks \ {t} : task'[u] = task[u]
    PROVE  Grouped'
  <1>1. PICK G \in [Drafts -> Groups] : Agreed(G)
    BY DEF Grouped
  <1>2. UNCHANGED <<drafts, known, pending>>
    BY DEF Record, Finalize, page, server
  <1>3. Claims(G, task'[t]) /\ ~Saves(task'[t])
    <2>1. CASE Record(t)
      <3>1. PICK c \in Filled :
               Wait(t, [Idle EXCEPT !.pc = "challenge", !.kind = "record", !.input = Input(c)])
        BY <2>1 DEF Record
      <3>2. task'[t].pc = "challenge" /\ task'[t].input = Input(c)
        BY <3>1 DEF Wait, Idle, Grouped, Typed
      <3>3. Input(c).draft # None => Held(G, Input(c).draft, Input(c).group)
        BY <1>1, EditedIsHeld DEF Grouped
      <3> QED
        BY <3>2, <3>3 DEF Claims, Saves
    <2>2. CASE Finalize(t)
      <3>1. /\ task'[t].pc = "create" /\ task'[t].input = pending.input
            /\ pending.input # None
        BY <2>2 DEF Finalize, Wait, Idle, Grouped, Typed
      <3> QED
        BY <1>1, <3>1 DEF Claims, Saves, Agreed
    <2> QED
      BY <2>1, <2>2
  <1>4. \A u \in Tasks : Saves(task'[u]) /\ task'[u].kind = "new"
                             => drafts'[task'[u].draft] = None
    BY <1>1, <1>2, <1>3 DEF Agreed, Claims
  <1>5. Apart' /\ Agreed(G)'
    BY <1>1, <1>2, <1>3, <1>4, Agreement DEF Grouped
  <1> QED
    BY <1>5 DEF Grouped

(* Beginning to save: a draft that is created binds its id to its group.     *)
LEMMA GroupedSaveDraft ==
    ASSUME Grouped, Typed', NEW t \in Tasks, SaveDraft(t),
           \A u \in Tasks \ {t} : task'[u] = task[u]
    PROVE  Grouped'
  <1>1. PICK G \in [Drafts -> Groups] : Agreed(G)
    BY DEF Grouped
  <1>2. UNCHANGED <<drafts, known, pending>>
    BY DEF SaveDraft, page, server
  <1>3. PICK c \in Filled, d \in IF Edited # None THEN {form.draft} ELSE Fresh :
            Wait(t, [Idle EXCEPT !.pc = "save",
                                 !.kind = IF Edited # None THEN "update" ELSE "new",
                                 !.draft = d,
                                 !.text = [group |-> Group(c), teams |-> c.teams]])
    BY DEF SaveDraft
  <1>4. /\ task[t].pc = "idle" /\ task'[t].pc = "save" /\ task'[t].draft = d
        /\ task'[t].kind = IF Edited # None THEN "update" ELSE "new"
        /\ task'[t].text.group = Group(c)
    BY <1>3 DEF Wait, Idle, Grouped, Typed
  <1>5. d \in Drafts /\ Group(c) \in Groups
    BY FilledTyped DEF Fresh, Grouped, Texts
  <1>6. PICK H \in [Drafts -> Groups] :
            H = [G EXCEPT ![d] = IF Edited # None THEN @ ELSE Group(c)]
    BY <1>5
  <1>7. \A e \in Drafts : H[e] = G[e] \/ (e = d /\ Edited = None /\ drafts[d] = None)
    BY <1>3, <1>6 DEF Fresh
  <1>8. \A e \in Drafts, group \in Groups : Held(G, e, group) => Held(H, e, group)
    BY <1>7 DEF Held
  <1>9. H[d] = Group(c) /\ (Edited # None <=> drafts[d] # None)
    <2>1. CASE Edited # None
      BY <1>1, <1>3, <1>5, <1>6, <2>1, EditedIsHeld DEF Grouped, Held
    <2>2. CASE Edited = None
      BY <1>3, <1>5, <1>6, <2>2 DEF Fresh
    <2> QED
      BY <2>1, <2>2
  <1>10. \A e \in Written : drafts[e] = H[e]
    BY <1>1, <1>7 DEF Agreed, Written
  <1>11. \A e \in Drafts : known[e] # None => Held(H, e, known[e])
    <2>1. \A e \in Drafts : known[e] # None => known[e] \in Groups
      BY DEF Grouped, Typed, PageTyped, Records
    <2> QED
      BY <1>1, <1>8, <2>1 DEF Agreed
  <1>12. pending.input # None /\ pending.input.draft # None
          => Held(H, pending.input.draft, pending.input.group)
    <2>1. pending.input # None /\ pending.input.draft # None
            => pending.input.draft \in Drafts /\ pending.input.group \in Groups
      BY DEF Grouped, Typed, PageTyped, Pendings, Inputs
    <2> QED
      BY <1>1, <1>8, <2>1 DEF Agreed
  <1>13. ASSUME NEW u \in Tasks \ {t} PROVE Claims(H, task[u])
    <2>1. Claims(G, task[u]) /\ Carries(task[u])
      BY <1>1 DEF Agreed, Grouped, Typed, Jobs
    <2>2. task[u].pc \in {"challenge", "create"} /\ task[u].input.draft # None
            => Held(H, task[u].input.draft, task[u].input.group)
      BY <1>8, <2>1 DEF Claims, Carries, Inputs
    <2>3. ASSUME task[u].pc = "show", NEW e \in Drafts, task[u].seen[e] # None
          PROVE  Held(H, e, task[u].seen[e])
      <3>1. Held(G, e, task[u].seen[e])
        BY <2>1, <2>3 DEF Claims
      <3>2. task[u].seen[e] \in Groups
        BY <2>1, <2>3 DEF Carries, Records
      <3> QED
        BY <1>8, <3>1, <3>2
    <2>4. ASSUME Saves(task[u]) PROVE task[u].text.group = H[task[u].draft]
      <3>1. /\ task[u].draft \in Drafts /\ task[u].kind \in {"new", "update"}
            /\ task[u].text.group = G[task[u].draft]
            /\ task[u].kind = "update" <=> drafts[task[u].draft] # None
        BY <2>1, <2>4 DEF Saves, Carries, Claims
      <3>2. ASSUME task[u].draft = d, Edited = None PROVE FALSE
        <4>1. d \in Fresh /\ drafts[d] = None
          BY <1>3, <3>2 DEF Fresh
        <4>2. task[u].kind = "new"
          BY <3>1, <3>2, <4>1
        <4> QED
          BY <3>2, <4>1, <4>2 DEF Fresh
      <3> QED
        BY <1>7, <3>1, <3>2
    <2> QED
      BY <2>1, <2>2, <2>3, <2>4 DEF Claims
  <1>14. Claims(H, task'[t])
    BY <1>4, <1>9 DEF Claims, Saves
  <1>15. Agreed(H)'
    <2>1. \A u \in Tasks : Claims(H, task[u])'
      <3>1. ASSUME NEW u \in Tasks PROVE Claims(H, task[u])'
        <4>1. Claims(H, task'[u])
          BY <1>13, <1>14
        <4> QED
          BY <1>2, <4>1 DEF Claims, Held, Saves
      <3> QED
        BY <3>1
    <2> QED
      BY <1>2, <1>10, <1>11, <1>12, <2>1 DEF Agreed, Written, Held
  <1>16. Apart'
    <2>1. ASSUME NEW u \in Tasks \ {t}, Saves(task[u]), task[u].kind = "new",
                 task'[t].kind = "new"
          PROVE  task[u].draft # d
      BY <1>3, <1>4, <2>1 DEF Fresh
    <2> QED
      BY <1>4, <2>1 DEF Apart, Grouped
  <1> QED
    BY <1>6, <1>15, <1>16 DEF Grouped

(* A request is answered, or sent after another. *)
LEMMA GroupedRequest ==
    ASSUME Grouped, Typed', NEW t \in Tasks,
           Unchallenged(t) \/ Checked(t) \/ Save(t) \/ DeleteDraft(t),
           \A u \in Tasks \ {t} : task'[u] = task[u]
    PROVE  Grouped'
  <1>1. PICK G \in [Drafts -> Groups] : Agreed(G)
    BY DEF Grouped
  <1>2. UNCHANGED <<known, pending>>
    BY DEF Unchallenged, Checked, Save, DeleteDraft, page
  <1>3. task[t] \in Job /\ Carries(task[t]) /\ Claims(G, task[t])
    BY <1>1 DEF Grouped, Typed, Jobs, Agreed
  <1>4. \A d \in Drafts : /\ drafts[d] # None => drafts'[d] # None
                          /\ drafts'[d] \in {drafts[d], Gone, G[d]}
    <2>1. CASE Save(t)
      <3>1. /\ drafts' = [drafts EXCEPT ![task[t].draft] = task[t].text.group]
            /\ task[t].text.group = G[task[t].draft] /\ task[t].draft \in Drafts
        BY <1>3, <2>1 DEF Save, Claims, Saves, Carries
      <3>2. G[task[t].draft] # None
        BY <3>1, OwnerShellAssumption DEF Groups
      <3> QED
        BY <3>1, <3>2 DEF Grouped, Typed
    <2>2. CASE DeleteDraft(t)
      BY <2>2, OwnerShellAssumption DEF DeleteDraft, Grouped, Typed
    <2>3. CASE Unchallenged(t) \/ Checked(t)
      BY <2>3 DEF Unchallenged, Checked, server
    <2> QED
      BY <2>1, <2>2, <2>3
  <1>5. \/ Claims(G, task'[t]) /\ ~Saves(task'[t])
        \/ /\ Claims(G, task'[t]) /\ Saves(task[t])
           /\ task'[t].kind = task[t].kind /\ task'[t].draft = task[t].draft
    <2>1. CASE DeleteDraft(t) /\ task[t].kind = "discard"
      BY <2>1, EndTask DEF Grouped, DeleteDraft, Claims, Saves, Idle
    <2>2. CASE ~(DeleteDraft(t) /\ task[t].kind = "discard")
      <3>1. PICK place \in {"create", "created", "store", "done"} :
               Goto(t, place) /\ task'[t] = [task[t] EXCEPT !.pc = place]
        BY <2>2, GoingOn DEF Grouped
      <3>2. /\ task'[t].pc = place /\ task'[t].input = task[t].input
            /\ task'[t].draft = task[t].draft /\ task'[t].kind = task[t].kind
            /\ task'[t].text = task[t].text
        BY <1>3, <3>1 DEF Job
      <3>3. ASSUME NEW q \in Steps, Goto(t, q) PROVE q = place
        <4>1. task'[t].pc = q
          BY <1>3, <3>3 DEF Goto, Grouped, Typed, Job
        <4> QED
          BY <3>2, <4>1
      <3>4. /\ place = "create" => task[t].pc = "challenge"
            /\ place = "store" => task[t].pc = "save"
        BY <2>2, <3>3 DEF Unchallenged, Checked, Save, DeleteDraft, Steps
      <3> QED
        BY <1>3, <3>2, <3>3, <3>4 DEF Claims, Saves
    <2> QED
      BY <2>1, <2>2
  <1>6. \A u \in Tasks : Saves(task'[u]) /\ task'[u].kind = "new"
                             => drafts'[task'[u].draft] = None
    <2> SUFFICES ASSUME NEW u \in Tasks, Saves(task'[u]), task'[u].kind = "new"
                 PROVE  drafts'[task'[u].draft] = None
      OBVIOUS
    <2>1. /\ Saves(task[u]) /\ task[u].kind = "new" /\ task'[u].draft = task[u].draft
      BY <1>5
    <2>2. drafts[task[u].draft] = None /\ task[u].draft \in Drafts
      BY <1>1, <2>1 DEF Agreed, Claims, Grouped, Typed, Jobs, Carries, Saves
    <2>3. CASE Save(t)
      <3>1. task[t].pc = "store" /\ task'[t].pc = "done" /\ u # t
        BY <1>3, <2>1, <2>3 DEF Save, Goto, Saves, Grouped, Typed, Job
      <3>2. task[t].kind = "update" <=> drafts[task[t].draft] # None
        BY <1>3, <3>1 DEF Claims, Saves
      <3>3. task[t].draft # task[u].draft
        <4>1. CASE task[t].kind = "new"
          BY <2>1, <3>1, <4>1 DEF Apart, Grouped, Saves
        <4>2. CASE task[t].kind = "update"
          BY <2>2, <3>2, <4>2
        <4> QED
          BY <1>3, <3>1, <4>1, <4>2 DEF Carries
      <3> QED
        BY <2>1, <2>2, <2>3, <3>3 DEF Save, Grouped, Typed
    <2>4. CASE DeleteDraft(t)
      <3>1. task[t].draft # task[u].draft
        BY <2>2, <2>4 DEF DeleteDraft, Written
      <3> QED
        BY <2>1, <2>2, <2>4, <3>1 DEF DeleteDraft, Grouped, Typed
    <2>5. CASE Unchallenged(t) \/ Checked(t)
      BY <2>1, <2>2, <2>5 DEF Unchallenged, Checked, server
    <2> QED
      BY <2>3, <2>4, <2>5
  <1>7. Apart' /\ Agreed(G)'
    BY <1>1, <1>2, <1>4, <1>5, <1>6, Agreement DEF Grouped
  <1> QED
    BY <1>7 DEF Grouped

(* The records are read and shown, or a challenge is shown. *)
LEMMA GroupedShow ==
    ASSUME Grouped, Typed', NEW t \in Tasks, ReadRecords(t) \/ ShowRecords(t) \/ Challenged(t),
           \A u \in Tasks \ {t} : task'[u] = task[u]
    PROVE  Grouped'
  <1>1. PICK G \in [Drafts -> Groups] : Agreed(G)
    BY DEF Grouped
  <1>2. UNCHANGED drafts
    BY DEF ReadRecords, ShowRecords, Challenged, server
  <1>3. task[t] \in Job /\ Carries(task[t]) /\ Claims(G, task[t])
    BY <1>1 DEF Grouped, Typed, Jobs, Agreed
  <1>4. Claims(G, task'[t]) /\ ~Saves(task'[t])
    <2>1. CASE ReadRecords(t)
      <3>1. /\ task'[t].pc = "show"
            /\ task'[t].seen = [d \in Drafts |-> IF d \in Written THEN drafts[d] ELSE None]
        BY <1>3, <2>1 DEF ReadRecords, Grouped, Typed, Job
      <3>2. \A d \in Drafts : task'[t].seen[d] # None => Held(G, d, task'[t].seen[d])
        BY <1>1, <3>1 DEF Agreed, Held, Written
      <3> QED
        BY <3>1, <3>2 DEF Claims, Saves
    <2>2. CASE ShowRecords(t) \/ Challenged(t)
      BY <2>2, EndTask DEF ShowRecords, Challenged, Claims, Saves, Grouped, Idle
    <2> QED
      BY <2>1, <2>2
  <1>5. \A u \in Tasks : Saves(task'[u]) /\ task'[u].kind = "new"
                             => drafts'[task'[u].draft] = None
    BY <1>1, <1>2, <1>4 DEF Agreed, Claims
  <1>6. \A d \in Drafts : known'[d] \in {known[d], None} \/ Held(G, d, known'[d])
    <2>1. CASE ShowRecords(t)
      BY <1>3, <2>1 DEF ShowRecords, Claims
    <2>2. CASE ReadRecords(t) \/ Challenged(t)
      BY <2>2 DEF ReadRecords, Challenged
    <2> QED
      BY <2>1, <2>2
  <1>7. \/ pending' = pending \/ pending'.input = None \/ pending'.input.draft = None
        \/ Held(G, pending'.input.draft, pending'.input.group)
    <2>1. CASE Challenged(t)
      <3>1. pending'.input = task[t].input /\ task[t].pc = "challenge"
        BY <2>1 DEF Challenged
      <3> QED
        BY <1>3, <3>1 DEF Claims
    <2>2. CASE ReadRecords(t) \/ ShowRecords(t)
      BY <2>2 DEF ReadRecords, ShowRecords, page
    <2> QED
      BY <2>1, <2>2
  <1>8. Apart' /\ Agreed(G)'
    BY <1>1, <1>2, <1>4, <1>5, <1>6, <1>7, Agreement DEF Grouped
  <1> QED
    BY <1>8 DEF Grouped

LEMMA GroupedStep == Grouped /\ [Next]_vars => Grouped'
  <1> SUFFICES ASSUME Grouped, [Next]_vars PROVE Grouped'
    OBVIOUS
  <1>1. Typed' /\ Typed
    BY TypedStep DEF Grouped
  <1>2. CASE \/ Close \/ AddManually \/ AddScoped \/ LeaveMatch \/ ShowBets
             \/ \E d \in Drafts : EditDraft(d)
             \/ \E m \in Matches : OpenMatch(m)
             \/ UNCHANGED vars
    <2>1. UNCHANGED <<drafts, known, task>> /\ pending' \in {pending, NoPending}
      BY <1>2 DEF Close, AddManually, AddScoped, LeaveMatch, ShowBets, EditDraft, OpenMatch, vars, server,
         page, CloseSheets, Activate
    <2> QED
      BY <1>1, <2>1, GroupedAside DEF NoPending
  <1>3. ASSUME NEW t \in Tasks, Record(t) \/ Finalize(t) \/ SaveDraft(t) PROVE Grouped'
    BY <1>1, <1>3, OwnerTask, GroupedRecord, GroupedSaveDraft
  <1>4. ASSUME NEW t \in Tasks, ShowInfo(t) \/ \E d \in Drafts : Discard(t, d) PROVE Grouped'
    <2>1. UNCHANGED <<drafts, known, pending>>
      BY <1>4 DEF ShowInfo, Discard, page, server
    <2>2. Unclaiming(task'[t])
      <3>1. CASE ShowInfo(t)
        BY <1>1, <3>1 DEF ShowInfo, Wait, Idle, Typed, Unclaiming
      <3>2. CASE \E d \in Drafts : Discard(t, d)
        BY <1>1, <3>2 DEF Discard, Wait, Idle, Typed, Unclaiming
      <3> QED
        BY <1>4, <3>1, <3>2
    <2>3. \A u \in Tasks \ {t} : task'[u] = task[u]
      BY <1>1, <1>4, OwnerTask
    <2> QED
      BY <1>1, <2>1, <2>2, <2>3, GroupedAside
  <1>5. ASSUME NEW t \in Tasks,
               Unchallenged(t) \/ Checked(t) \/ Save(t) \/ DeleteDraft(t) \/ ReadRecords(t)
                 \/ ShowRecords(t) \/ Challenged(t)
        PROVE  Grouped'
    <2>1. \A u \in Tasks \ {t} : task'[u] = task[u]
      BY <1>1, <1>5, AnswerTask DEF Answers
    <2> QED
      BY <1>1, <1>5, <2>1, GroupedRequest, GroupedShow
  <1>6. ASSUME NEW t \in Tasks,
               Create(t) \/ Created(t) \/ Done(t) \/ Fails(t) \/ DetailCached(t) \/ DetailRefreshed(t)
        PROVE  Grouped'
    <2>1. UNCHANGED <<drafts, known>> /\ pending' \in {pending, NoPending}
      BY <1>6 DEF Create, Created, Done, Fails, DetailCached, DetailRefreshed, page, server,
         CloseSheets
    <2>2. \A u \in Tasks \ {t} : task'[u] = task[u]
      BY <1>1, <1>6, AnswerTask DEF Answers
    <2>3. Unclaiming(task'[t])
      <3>1. task[t] \in Job /\ task \in [Tasks -> Jobs]
        BY <1>1 DEF Typed, Jobs
      <3>2. CASE Create(t)
        BY <3>1, <3>2 DEF Create, Goto, Job, Unclaiming
      <3>3. CASE Created(t)
        <4>1. PICK d \in Drafts \cup {None}, place \in {"done", "delete"} :
                 task' = [task EXCEPT ![t] = [task[t] EXCEPT !.draft = d, !.pc = place]]
          BY <1>1, <3>3, CreatedTask
        <4> QED
          BY <3>1, <4>1 DEF Job, Unclaiming
      <3>4. CASE Done(t) \/ Fails(t)
        BY <1>1, <3>4, EndTask DEF Done, Fails, Unclaiming, Idle
      <3>5. CASE DetailCached(t) \/ DetailRefreshed(t)
        <4>1. task'[t] = Idle \/ task'[t] = [task[t] EXCEPT !.pc = "refresh"]
          BY <1>1, <3>5, GotTask
        <4> QED
          BY <3>1, <4>1 DEF Job, Unclaiming, Idle
      <3> QED
        BY <1>6, <3>2, <3>3, <3>4, <3>5
    <2> QED
      BY <1>1, <2>1, <2>2, <2>3, GroupedAside DEF NoPending
  <1> QED
    BY <1>2, <1>3, <1>4, <1>5, <1>6 DEF Next, Owner, Answers

LEMMA InitGrouped == Init => Grouped
  <1> SUFFICES ASSUME Init PROVE Grouped
    OBVIOUS
  <1>1. drafts \in [Drafts -> Groups \cup {None}] /\ known = drafts
    BY DEF Init
  <1>2. PICK G \in [Drafts -> Groups] :
            G = [d \in Drafts |-> IF drafts[d] = None THEN Manual ELSE drafts[d]]
    BY <1>1 DEF Groups
  <1>3. \A d \in Drafts : drafts[d] # None => G[d] = drafts[d]
    BY <1>2
  <1>4. Agreed(G)
    BY <1>1, <1>3 DEF Init, Agreed, Written, Held, Claims, Saves, Idle, NoPending
  <1>5. Apart
    BY DEF Init, Apart, Saves, Idle
  <1> QED
    BY <1>4, <1>5, InitTyped DEF Grouped

(* A draft keeps its match, and a bet that is read from it is of that match: *)
(* of any number of handlers, however stale the page's list of drafts is.    *)
THEOREM GroupIsForGood == Spec => DraftKeepsItsMatch
  <1>1. Grouped /\ [Next]_vars =>
          [/\ \A d \in Drafts : d \in Written /\ d \in Written'
                                   => drafts'[d] = drafts[d]
           /\ \A b \in bets' \ bets :
                  b.draft \in Written => b.group = drafts[b.draft]]_vars
    <2> SUFFICES ASSUME Grouped, [Next]_vars
                 PROVE  /\ \A d \in Drafts : d \in Written /\ d \in Written'
                                                => drafts'[d] = drafts[d]
                        /\ \A b \in bets' \ bets :
                               b.draft \in Written => b.group = drafts[b.draft]
      OBVIOUS
    <2>1. PICK G \in [Drafts -> Groups] : Agreed(G)
      BY DEF Grouped
    <2>2. ASSUME NEW d \in Drafts, d \in Written, d \in Written', drafts'[d] # drafts[d]
          PROVE  FALSE
      <3>1. PICK t \in Tasks : DeleteDraft(t) \/ Save(t)
        BY <2>2, DatabaseFrame
      <3>2. drafts'[d] # Gone /\ drafts[d] = G[d]
        BY <2>1, <2>2 DEF Written, Agreed
      <3>3. CASE DeleteDraft(t)
        BY <2>2, <3>2, <3>3 DEF DeleteDraft, Grouped, Typed
      <3>4. CASE Save(t)
        <4>1. task[t].text.group = G[task[t].draft]
          BY <2>1, <3>4 DEF Save, Agreed, Claims, Saves
        <4> QED
          BY <2>2, <3>2, <3>4, <4>1 DEF Save, Grouped, Typed
      <3> QED
        BY <3>1, <3>3, <3>4
    <2>3. ASSUME NEW b \in bets' \ bets, b.draft \in Written PROVE b.group = drafts[b.draft]
      <3>1. PICK t \in Tasks : Create(t)
        BY <2>3, DatabaseFrame
      <3>2. b = task[t].input /\ task[t].pc = "create"
        BY <2>3, <3>1 DEF Create
      <3>3. b.draft # None
        BY <2>3, OwnerShellAssumption DEF Written
      <3> QED
        BY <2>1, <2>3, <3>2, <3>3 DEF Agreed, Claims, Held
    <2> QED
      BY <2>2, <2>3
  <1>2. Spec => []Grouped
    BY InitGrouped, GroupedStep, PTL DEF Spec
  <1> QED
    BY <1>1, <1>2, PTL DEF Spec, DraftKeepsItsMatch
=============================================================================
