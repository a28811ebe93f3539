----------------------------- MODULE OwnerShell -------------------------------
(***************************************************************************)
(* The owner's browser while bets are added: the sheet and its session, the*)
(* drafts it knows, the challenge it may have to answer, the detail screen *)
(* of a match, and the part of the API that stores drafts and bets.        *)
(*                                                                         *)
(* The shell keeps its state in variables of one page; every handler that  *)
(* awaits an answer is a task, and the owner goes on while it waits: a task*)
(* reads those variables again when its answer arrives.  Answers come in   *)
(* any order, are lost, or are errors.                                     *)
(*                                                                         *)
(* Abstractions: teams are the match that has exactly these names, or      *)
(* Others; a draft is its match group, for the teams of a linked one are its*)
(* match's and those of an unlinked one can be typed anew; stakes, odds and *)
(* selection are always complete and the bankroll is set up; whether a bet *)
(* needs an acknowledgement is left open.  The row of a match is never     *)
(* removed: a draft's group is looked up among the rows there are.         *)
(***************************************************************************)
EXTENDS Integers, FiniteSets

CONSTANTS
    Tasks,      \* handlers that wait for an answer
    Drafts,     \* draft ids
    Matches,
    Others,     \* teams that are no match of the warehouse
    Manual,     \* a group of its own: matchGroupId "manual:..."
    Gone,       \* a draft that was deleted: its id is never used again
    Budgets,    \* how many submissions and views the owner makes at most
    None

ASSUME OwnerShellAssumption ==
    /\ Budgets \subseteq [submits: Nat, views: Nat]
    /\ {None, Others, Manual, Gone} \cap (Matches \cup Drafts) = {}
    /\ Gone # None /\ Manual \notin {None, Others, Gone}

VARIABLES
    sheet,    \* the sheet that is open
    form,     \* the add-bet session and what the form holds
    open,     \* currentOpenMatchId
    pending,  \* pendingOngoingInput, its challenge and pendingOngoingDraftId
    known,    \* betRecordsState: the drafts last loaded
    screen,   \* whether the detail screen is shown
    detail,   \* matchDetailState: whose detail is shown
    load,     \* the match detail controller: version, pendingId and cache
    task,     \* the handlers that wait
    left,     \* the submissions and views that are left
    drafts,   \* bet_draft of the database
    bets,     \* bet_record of the database
    spent     \* challenges that were consumed

page   == <<sheet, form, open, pending>>
view   == <<screen, detail, load>>
server == <<drafts, bets, spent>>
vars   == <<page, known, view, task, left, server>>

-----------------------------------------------------------------------------
Teams  == Matches \cup {Others}
Groups == Matches \cup {Manual}

NoSession == [mode |-> "none", draft |-> None, linked |-> None]
NoPending == [input |-> None, draft |-> None]
Idle      == [pc |-> "idle", kind |-> None, input |-> None, draft |-> None,
              text |-> None, seen |-> None, match |-> None, version |-> 0]

Written == {d \in Drafts : drafts[d] \notin {None, Gone}}

Init ==
    /\ sheet = "none" /\ form = NoSession /\ open = None /\ pending = NoPending
    /\ drafts \in [Drafts -> Groups \cup {None}]
    /\ known = drafts
    /\ screen = "list" /\ detail = None
    /\ load = [version |-> 0, match |-> None, cache |-> {}]
    /\ task = [t \in Tasks |-> Idle]
    /\ left \in Budgets /\ bets = {} /\ spent = {}

Submit == left.submits > 0 /\ left' = [left EXCEPT !.submits = @ - 1]
View   == left.views > 0 /\ left' = [left EXCEPT !.views = @ - 1]

Wait(t, job) == task[t].pc = "idle" /\ task' = [task EXCEPT ![t] = job]
Goto(t, place) == task' = [task EXCEPT ![t].pc = place]
End(t) == task' = [task EXCEPT ![t] = Idle]
Reload(t) == task' = [task EXCEPT ![t] = [Idle EXCEPT !.pc = "reload"]]

-----------------------------------------------------------------------------
(* Sheets and sessions: what a closed form still holds is never read again.  *)
CloseSheets ==
    /\ sheet' = "none"
    /\ form' = NoSession
    /\ pending' = NoPending

Activate(mode, m, d, linked) ==
    /\ form' = [mode |-> mode, draft |-> d, linked |-> linked]
    /\ open' = m /\ pending' = NoPending /\ sheet' = "add"

Close ==
    /\ sheet # "none" /\ CloseSheets
    /\ UNCHANGED <<open, known, view, task, left, server>>

AddManually ==
    /\ sheet = "none" /\ screen = "list"
    /\ Activate("manual", None, None, None)
    /\ UNCHANGED <<known, view, task, left, server>>

AddScoped ==
    /\ sheet = "none" /\ screen = "detail" /\ open # None
    /\ Activate("scoped", open, None, None)
    /\ UNCHANGED <<known, view, task, left, server>>

(* A draft that was saved with the snapshot's context is linked to its group.*)
Restored(d) == {None, known[d]}

EditDraft(d) ==
    /\ sheet = "none" /\ screen = "list" /\ known[d] # None
    /\ \E linked \in Restored(d) :
           Activate("edit", IF known[d] = Manual THEN None ELSE known[d], d, linked)
    /\ UNCHANGED <<known, view, task, left, server>>

(* findDraft: what the page knows of the draft that is edited.               *)
Edited == IF form.draft = None THEN None ELSE known[form.draft]

First(a, b) == IF a # None THEN a ELSE b

(* What the form holds by the time it is submitted: the handlers of its      *)
(* fields change nothing that a waiting task reads.  Teams are locked to a   *)
(* selected match.  A running bet is linked to the match that the snapshot   *)
(* has for the teams; the link stays when the context is then typed in by    *)
(* hand and other teams are typed, and goes with another market.             *)
Typeable == IF form.mode = "scoped" \/ open # None THEN {open} ELSE Teams

Resolved == Typeable \cap Matches

Filled == [teams: Typeable, linked: Resolved \cup {None, form.linked}]

-----------------------------------------------------------------------------
(* Recording a bet                                                           *)

Link(c) == First(open, c.linked)

UnlinkedDraft == Edited = Manual

(* Fault: the match that is found goes before the draft's group. *)
GroupOfLink(c) == First(Link(c), Manual)

Group(c) == First(Edited, First(Link(c), Manual))

(* readOngoingBetInput; the draft the bet is read from is noted for the      *)
(* properties only.                                                          *)
Input(c) == [id |-> left.submits, teams |-> c.teams, group |-> Group(c),
             match |-> IF UnlinkedDraft THEN None ELSE Link(c),
             draft |-> IF Edited # None THEN form.draft ELSE None]

Record(t) ==
    /\ Submit /\ sheet = "add"
    /\ \E c \in Filled :
           /\ Input(c).match # None \/ form.mode = "manual" \/ UnlinkedDraft
           /\ Wait(t, [Idle EXCEPT !.pc = "challenge", !.kind = "record", !.input = Input(c)])
    /\ UNCHANGED <<page, known, view, server>>

(* Fault: the draft goes first. *)
DeletedFirst(t) ==
    LET d == form.draft
    IN  /\ task[t].pc = "challenge" /\ d # None /\ d \in Written
        /\ drafts' = [drafts EXCEPT ![d] = Gone]
        /\ Goto(t, "create")
        /\ UNCHANGED <<page, known, view, left, bets, spent>>

(* The answer to the attempt: no rule applies.                               *)
Unchallenged(t) ==
    /\ task[t].pc = "challenge" /\ Goto(t, "create")
    /\ UNCHANGED <<page, known, view, left, server>>

(* Or the bet has to be acknowledged, whatever the owner does by now.        *)
Challenged(t) ==
    /\ task[t].pc = "challenge"
    /\ pending' = [input |-> task[t].input, draft |-> form.draft]
    /\ sheet' = "challenge"
    /\ End(t)
    /\ UNCHANGED <<form, open, known, view, left, server>>

(* The box may be ticked again, which enables the button again.              *)
Finalize(t) ==
    /\ Submit /\ sheet = "challenge" /\ pending.input # None
    /\ Wait(t, [Idle EXCEPT !.pc = "create", !.kind = "finalize",
                            !.input = pending.input, !.draft = pending.draft])
    /\ UNCHANGED <<page, known, view, server>>

(* Fault: the names of the teams are not compared. *)
AcceptsAnyTeams(x) == IF x.group = Manual THEN x.match = None ELSE x.match = x.group

(* POST /bets: the group, the names of the match and the challenge.          *)
Acceptable(x) == IF x.group = Manual THEN x.match = None
                 ELSE x.match = x.group /\ x.teams = x.match

Admitted(x) == Acceptable(x) /\ \A b \in bets : b.id # x.id

Create(t) ==
    LET x == task[t].input
    IN  /\ task[t].pc = "create" /\ Admitted(x)
        /\ task[t].kind = "finalize" => x.id \notin spent
        /\ spent' = IF task[t].kind = "finalize" THEN spent \cup {x.id} ELSE spent
        /\ bets' = bets \cup {x}
        /\ Goto(t, "created")
        /\ UNCHANGED <<page, known, view, left, drafts>>

(* The bet has been stored: the draft is next.  A bet that needed no answer  *)
(* takes the draft that is edited now, a finalized one the draft it noted.   *)
Created(t) ==
    LET d == IF task[t].kind = "record" THEN form.draft ELSE task[t].draft
    IN  /\ task[t].pc = "created"
        /\ task' = [task EXCEPT ![t].draft = d, ![t].pc = IF d = None THEN "done" ELSE "delete"]
        /\ UNCHANGED <<page, known, view, left, server>>

DeleteDraft(t) ==
    /\ task[t].pc = "delete" /\ task[t].draft \in Written
    /\ drafts' = [drafts EXCEPT ![task[t].draft] = Gone]
    /\ IF task[t].kind = "discard" THEN Reload(t) ELSE Goto(t, "done")
    /\ UNCHANGED <<page, known, view, left, bets, spent>>

(* What follows a success: the sheets close and the records are reloaded.    *)
Done(t) ==
    /\ task[t].pc = "done" /\ CloseSheets /\ Reload(t)
    /\ UNCHANGED <<open, known, view, left, server>>

(* An error, or an answer that is lost: the owner is told, nothing closes.   *)
Fails(t) ==
    /\ task[t].pc \in {"challenge", "create", "created", "save", "store", "delete"} /\ End(t)
    /\ UNCHANGED <<page, known, view, left, server>>

-----------------------------------------------------------------------------
(* Drafts                                                                    *)
Fresh == {d \in Drafts : drafts[d] = None /\ \A t \in Tasks : task[t].kind = "new" => task[t].draft # d}

SaveDraft(t) ==
    /\ Submit /\ sheet = "add"
    /\ \E c \in Filled, d \in IF Edited # None THEN {form.draft} ELSE Fresh :
           Wait(t, [Idle EXCEPT !.pc = "save", !.kind = IF Edited # None THEN "update" ELSE "new",
                                !.draft = d,
                                !.text = [group |-> Group(c), teams |-> c.teams]])
    /\ UNCHANGED <<page, known, view, server>>

(* POST and PUT /bet-drafts: a linked draft names the teams of its match and *)
(* stays with it.                                                            *)
Named(x) == x.group # Manual => x.teams = x.group

MaySave(kind, d, x) ==
    IF kind = "new" THEN Named(x)
    ELSE d \in Written /\ (drafts[d] # Manual => x.group = drafts[d] /\ Named(x))

(* The draft is looked up, then written, whether it is still there or not.   *)
Checked(t) ==
    /\ task[t].pc = "save" /\ MaySave(task[t].kind, task[t].draft, task[t].text)
    /\ Goto(t, "store")
    /\ UNCHANGED <<page, known, view, left, server>>

Save(t) ==
    /\ task[t].pc = "store"
    /\ drafts' = [drafts EXCEPT ![task[t].draft] = task[t].text.group]
    /\ Goto(t, "done")
    /\ UNCHANGED <<page, known, view, left, bets, spent>>

Discard(t, d) ==
    /\ Submit /\ sheet = "none" /\ screen = "list" /\ known[d] # None
    /\ Wait(t, [Idle EXCEPT !.pc = "delete", !.kind = "discard", !.draft = d])
    /\ UNCHANGED <<page, known, view, server>>

(* refreshBetRecords: read by the server, shown when the answer arrives.     *)
ReadRecords(t) ==
    /\ task[t].pc = "reload"
    /\ task' = [task EXCEPT ![t].pc = "show", ![t].seen = [d \in Drafts |-> IF d \in Written THEN drafts[d] ELSE None]]
    /\ UNCHANGED <<page, known, view, left, server>>

ShowRecords(t) ==
    /\ task[t].pc = "show" /\ known' = task[t].seen /\ End(t)
    /\ UNCHANGED <<page, view, left, server>>

-----------------------------------------------------------------------------
(* The detail of a match                                                     *)

(* Fault: an answer under way is not outdated. *)
Forgotten(l) == [l EXCEPT !.match = None]

Cancelled(l) == [l EXCEPT !.version = @ + 1, !.match = None]

OpenMatch(m) ==
    /\ View /\ sheet = "none" /\ screen = "list"
    /\ open' = m /\ screen' = "detail" /\ detail' = None
    /\ load' = Cancelled(load)
    /\ UNCHANGED <<sheet, form, pending, known, task, server>>

(* Back, a tab or the browser's back button.                                 *)
LeaveMatch ==
    /\ View /\ screen = "detail"
    /\ screen' = "list" /\ load' = Cancelled(load)
    /\ UNCHANGED <<page, known, detail, task, server>>

(* The bets tab of the detail. *)
ShowBets ==
    /\ View /\ sheet = "none" /\ screen = "detail"
    /\ load' = Cancelled(load)
    /\ UNCHANGED <<page, known, screen, detail, task, server>>

ShowInfo(t) ==
    /\ View /\ sheet = "none" /\ screen = "detail" /\ open # None
    /\ load.match # open
    /\ LET l == Cancelled(load)
       IN  /\ load' = [l EXCEPT !.match = open]
           /\ detail' = IF open \in load.cache THEN open ELSE None
           /\ Wait(t, [Idle EXCEPT !.pc = IF open \in load.cache THEN "refresh" ELSE "get",
                                   !.kind = "detail", !.match = open, !.version = l.version])
    /\ UNCHANGED <<page, known, screen, server>>

Current(t) == load.version = task[t].version

(* GET shows what is cached, POST what the provider has.                     *)
Got(t, next) ==
    IF ~Current(t) THEN /\ End(t) /\ UNCHANGED <<detail, load>>
    ELSE /\ \/ /\ detail' = task[t].match
               /\ load' = [load EXCEPT !.cache = @ \cup {task[t].match},
                                       !.match = IF next = "idle" THEN None ELSE @]
            \/ /\ UNCHANGED detail
               /\ load' = [load EXCEPT !.match = IF next = "idle" THEN None ELSE @]
         /\ IF next = "idle" THEN End(t) ELSE Goto(t, next)

DetailCached(t) ==
    /\ task[t].pc = "get" /\ Got(t, "refresh")
    /\ UNCHANGED <<page, known, screen, left, server>>

DetailRefreshed(t) ==
    /\ task[t].pc = "refresh" /\ Got(t, "idle")
    /\ UNCHANGED <<page, known, screen, left, server>>

-----------------------------------------------------------------------------
Owner == \/ Close \/ AddManually \/ AddScoped
         \/ \E d \in Drafts : EditDraft(d)
         \/ \E m \in Matches : OpenMatch(m)
         \/ LeaveMatch \/ ShowBets
         \/ \E t \in Tasks : Record(t) \/ Finalize(t) \/ SaveDraft(t) \/ ShowInfo(t)
         \/ \E t \in Tasks, d \in Drafts : Discard(t, d)

Answers(t) == \/ Unchallenged(t) \/ Challenged(t) \/ Create(t) \/ Created(t)
              \/ DeleteDraft(t) \/ Done(t) \/ Fails(t) \/ Checked(t) \/ Save(t)
              \/ ReadRecords(t) \/ ShowRecords(t)
              \/ DetailCached(t) \/ DetailRefreshed(t)

Next == Owner \/ \E t \in Tasks : Answers(t)

Spec == Init /\ [][Next]_vars
-----------------------------------------------------------------------------
(* A bet linked to a match names the teams of that match, although the link  *)
(* found for the teams typed first stays when the owner types others: it is  *)
(* settled on the match it is about.                                         *)
LinkedBetNamesItsMatch ==
    \A b \in bets : b.match # None => b.teams = b.match /\ b.group = b.match

(* A draft never moves to another match, and a bet recorded from a draft is  *)
(* of the draft's match: whatever the page believes of the draft by then.    *)
DraftKeepsItsMatch ==
    [][/\ \A d \in Drafts : d \in Written /\ d \in Written'
                             => drafts'[d] = drafts[d]
       /\ \A b \in bets' \ bets :
              b.draft \in Written => b.group = drafts[b.draft]]_vars

(* Recording removes a draft only once a bet has been stored: an attempt that*)
(* is refused or lost costs no draft.                                        *)
DraftGoesAfterItsBet ==
    [][\A t \in Tasks, d \in Drafts :
         /\ task[t].kind \in {"record", "finalize"} /\ task'[t] # task[t]
         /\ d \in Written /\ drafts'[d] = Gone
         => task[t].input \in bets]_vars

(* The detail screen never shows the detail of another match than the one    *)
(* that was opened, however late an answer comes.                            *)
DetailIsOfOpenMatch == screen = "detail" => detail \in {None, open}

(* Recording removes only the draft the bet was read from.                   *)
RecordedDraftIsRemoved ==
    [][\A t \in Tasks, d \in Drafts :
         /\ task[t].kind \in {"record", "finalize"} /\ task'[t] # task[t]
         /\ d \in Written /\ drafts'[d] = Gone
         => task[t].input.draft = d]_vars

=============================================================================
