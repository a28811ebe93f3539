------------------------- MODULE BetSettlementProofs -------------------------
(***************************************************************************)
(* Proofs about BetSettlement for any number of bets, requests, reconcilers*)
(* and event ids.  SettledOnce alone is not inductive: a first settlement  *)
(* is committed on the strength of the row's status, so the status has to  *)
(* be tied to the event log (SettledIffEvent); CorrectionsAreGrounded needs*)
(* the corrected event a waiting request has already seen (GroundedApply). *)
(*                                                                         *)
(* Sums over a ledger are reasoned about by a smallest counterexample among*)
(* the finite sets of entries, and used for the balance of the account, for*)
(* the result of a bet, for what PATCH leaves alone (OwnerBets) and for the*)
(* ledger of Bankroll.  Last, a settlement is a posting of Bankroll.       *)
(***************************************************************************)
EXTENDS OwnerBets, Bankroll, TLAPS, FiniteSetTheorems, WellFoundedInduction

(* A request that is about to open the transaction for a correction has seen *)
(* the event it corrects, and that event belongs to its bet.                 *)
GroundedApply ==
    \A w \in Workers :
        pc[w] = "apply" /\ cmd[w].corrects # None
            => cmd[w].corrects \in EventsOf(cmd[w].bet)

(* An event id has a ledger entry exactly when the event exists.             *)
EntryIffEvent == \A e \in Events : ledger[e] = None <=> event[e] = None

-----------------------------------------------------------------------------
(* What Finish leaves behind, typed. *)
LEMMA FinishTypes ==
    ASSUME TypeOK, NEW w \in Workers, NEW v \in BOOLEAN, pc[w] # "idle", Finish(w, v)
    PROVE  /\ pc' \in [Workers -> {"idle", "readRecord", "readEvents", "apply"}]
           /\ cmd' \in [Workers -> Command \cup {None}]
           /\ \A u \in Workers : pc'[u] # "idle" =>
                 u # w /\ pc[u] = pc'[u] /\ cmd'[u] = cmd[u] /\ cmd'[u] \in Command
           /\ snap' \in [Workers -> BetRow]
           /\ delta' \in [Workers -> Int]
           /\ queue' \in [Reconcilers -> SUBSET Bets]
           /\ failed' \in [Reconcilers -> SUBSET Bets]
  <1>1. NoRow \in BetRow
    BY DEF NoRow, BetRow, Statuses, Reviews
  <1>2. cmd[w] \in Command /\ cmd[w].bet \in Bets
    BY DEF TypeOK, Command
  <1> QED
    BY <1>1, <1>2 DEF TypeOK, Finish

(* The type invariant is inductive on its own. *)
LEMMA TypeStep == TypeOK /\ [SettlementNext]_vars => TypeOK'
  <1> SUFFICES ASSUME TypeOK, [SettlementNext]_vars
               PROVE  TypeOK'
    OBVIOUS
  <1>0. NoRow \in BetRow /\ \A b \in Bets : AutoEvent[b] \in Events
    BY DEF NoRow, BetRow, Statuses, Reviews, Events
  <1>1. ASSUME NEW b \in Bets, CreateBetRecord(b) PROVE TypeOK'
    BY <1>1, <1>0 DEF TypeOK, CreateBetRecord, PendingRow, BetRow, Statuses, Reviews
  <1>2. ASSUME NEW o \in Owners, NEW b \in Bets, NEW e \in OwnerEvents,
               NEW t \in SettlementTypes, NEW c \in Events \cup {None},
               RequestSettlement(o, b, e, t, c)
        PROVE  TypeOK'
    <2>1. [bet |-> b, event |-> e, type |-> t, corrects |-> c, auto |-> FALSE] \in Command
      BY DEF Command, Events
    <2> QED
      BY <1>2, <2>1 DEF TypeOK, RequestSettlement, Workers
  <1>3. ASSUME NEW w \in Workers, ReadRecord(w) PROVE TypeOK'
    <2>1. pc[w] = "readRecord" /\ cmd[w] \in Command /\ bet[cmd[w].bet] \in BetRow
      BY <1>3 DEF ReadRecord, TypeOK, Command
    <2>2. CASE Finish(w, TRUE)
      BY <1>3, <2>1, <2>2, FinishTypes DEF TypeOK, ReadRecord, store
    <2>3. CASE ~Finish(w, TRUE)
      BY <1>3, <2>1, <2>3 DEF TypeOK, ReadRecord, store
    <2> QED
      BY <2>2, <2>3
  <1>4. ASSUME NEW w \in Workers, ReadEvents(w) PROVE TypeOK'
    <2>1. pc[w] = "readEvents" /\ cmd[w] \in Command /\ LedgerDelta(w) \in Int
      BY <1>4, BetSettlementAssumption DEF ReadEvents, TypeOK, Command, LedgerDelta, BetRow
    <2>2. CASE Finish(w, TRUE)
      BY <1>4, <2>1, <2>2, FinishTypes DEF TypeOK, ReadEvents, store
    <2>3. CASE ~Finish(w, TRUE)
      BY <1>4, <2>1, <2>3 DEF TypeOK, ReadEvents, store
    <2> QED
      BY <2>2, <2>3
  <1>5. ASSUME NEW w \in Workers, ApplyBetSettlement(w) PROVE TypeOK'
    <2>1. pc[w] = "apply" /\ cmd[w] \in Command
      BY <1>5 DEF ApplyBetSettlement, TypeOK
    <2>2. CASE UNCHANGED store
      <3>1. \E v \in BOOLEAN : Finish(w, v)
        BY <1>5 DEF ApplyBetSettlement, ReplaySettlement, RejectSettlement,
                    AbortSettlement, CommitSettlement
      <3> QED
        BY <2>1, <2>2, <3>1, FinishTypes DEF TypeOK, store
    <2>3. CASE CommitSettlement(w)
      <3>1. SettledRow(cmd[w]) \in BetRow
        BY <2>1, BetSettlementAssumption DEF SettledRow, BetRow, Command, Statuses, Reviews
      <3>2. [bet |-> cmd[w].bet, type |-> cmd[w].type, corrects |-> cmd[w].corrects,
             calculated |-> ProfitLoss[cmd[w].type], delta |-> delta[w]] \in Event
        BY <2>1, BetSettlementAssumption DEF Event, Command, TypeOK
      <3>3. /\ bet' \in [Bets -> BetRow]
            /\ event' \in [Events -> Event \cup {None}]
            /\ ledger' \in [Events -> Int \cup {None}]
            /\ balance' \in Int
        BY <2>1, <2>3, <3>1, <3>2 DEF CommitSettlement, TypeOK, Command
      <3>4. Finish(w, FALSE)
        BY <2>3 DEF CommitSettlement
      <3> QED
        BY <2>1, <3>3, <3>4, FinishTypes DEF TypeOK
    <2> QED
      BY <1>5, <2>2, <2>3 DEF ApplyBetSettlement, ReplaySettlement, RejectSettlement,
                              AbortSettlement
  <1>6. ASSUME NEW r \in Reconcilers, NEW S \in SUBSET Bets, ListPendingBets(r, S)
        PROVE  TypeOK'
    BY <1>6 DEF TypeOK, ListPendingBets, Oldest
  <1>7. ASSUME NEW r \in Reconcilers, NEW b \in Bets, MarkManualReview(r, b)
        PROVE  TypeOK'
    BY <1>7 DEF TypeOK, MarkManualReview, ReviewRow, BetRow, Reviews
  <1>8. ASSUME NEW r \in Reconcilers, NEW b \in Bets, FailManualReview(r, b)
        PROVE  TypeOK'
    BY <1>8 DEF TypeOK, FailManualReview
  <1>9. ASSUME NEW w \in Workers, FailSettlement(w) PROVE TypeOK'
    BY <1>9, FinishTypes DEF TypeOK, FailSettlement, store
  <1>10. ASSUME NEW r \in Reconcilers, NEW b \in Bets, NEW t \in SettlementTypes,
               SettleAutomatically(r, b, t)
        PROVE  TypeOK'
    <2>1. [bet |-> b, event |-> AutoEvent[b], type |-> t, corrects |-> None,
           auto |-> TRUE] \in Command
      BY <1>0 DEF Command
    <2> QED
      BY <1>10, <2>1 DEF TypeOK, SettleAutomatically, Workers
  <1>11. CASE UNCHANGED vars
    BY <1>11 DEF TypeOK, vars
  <1> QED
    BY <1>1, <1>2, <1>3, <1>4, <1>5, <1>6, <1>7, <1>8, <1>9, <1>10, <1>11
       DEF SettlementNext, Settle, ReconcileNext

THEOREM TypeCorrect == Spec => []TypeOK
  <1>1. Init => TypeOK
    BY BetSettlementAssumption DEF Init, TypeOK, NoRow, BetRow, Statuses, Reviews
  <1> QED
    BY <1>1, TypeStep, PTL DEF Spec

-----------------------------------------------------------------------------
(* Everything the invariant says of the store, and of the waiting requests. *)
SafetyInv ==
    /\ SettledOnce /\ SettledIffEvent /\ ReviewMatchesStatus
    /\ GroundedApply /\ CorrectionsAreGrounded /\ EntryIffEvent

LEMMA InitSafety == Init => SafetyInv
  BY BetSettlementAssumption
     DEF Init, SafetyInv, SettledOnce, SettledIffEvent, EventsOf, ReviewMatchesStatus,
         GroundedApply, CorrectionsAreGrounded, EntryIffEvent, NoRow

(* A step that leaves the event log and the ledger alone, keeps every bet's  *)
(* being settled or not, and brings no request before the transaction that   *)
(* was not there, keeps the invariant.                                       *)
LEMMA QuietStep ==
    ASSUME TypeOK, SafetyInv, UNCHANGED <<event, ledger>>, ReviewMatchesStatus',
           \A b \in Bets : bet'[b].status = "settled" <=> bet[b].status = "settled",
           \A w \in Workers : pc'[w] = "apply" => pc[w] = "apply" /\ cmd'[w] = cmd[w]
    PROVE  SafetyInv'
  BY DEF SafetyInv, SettledOnce, SettledIffEvent, EventsOf, GroundedApply,
         CorrectionsAreGrounded, EntryIffEvent

(* ReadEvents brings a request to the transaction with its checks passed. *)
LEMMA ReadEventsSafety ==
    ASSUME TypeOK, SafetyInv, NEW w \in Workers, ReadEvents(w)
    PROVE  SafetyInv'
  <1>1. pc[w] = "readEvents" /\ cmd[w] \in Command /\ UNCHANGED store
    BY DEF ReadEvents, TypeOK
  <1>2. CASE Refused(w)
    <2>1. Finish(w, TRUE)
      BY <1>2 DEF ReadEvents
    <2> QED
      BY <1>1, <2>1, FinishTypes, QuietStep DEF store, SafetyInv, ReviewMatchesStatus
  <1>3. CASE ~Refused(w)
    <2>1. cmd' = cmd /\ pc' = [pc EXCEPT ![w] = "apply"]
      BY <1>3 DEF ReadEvents
    <2>2. GroundedApply'
      BY <1>1, <1>3, <2>1 DEF GroundedApply, Refused, EventsOf, SafetyInv, store, TypeOK
    <2> QED
      BY <1>1, <2>2 DEF SafetyInv, SettledOnce, SettledIffEvent, EventsOf, store,
                        ReviewMatchesStatus, CorrectionsAreGrounded, EntryIffEvent
  <1> QED
    BY <1>2, <1>3

(* The commit: the only step that adds an event. *)
LEMMA CommitSafety ==
    ASSUME TypeOK, SafetyInv, NEW w \in Workers, pc[w] = "apply", CommitSettlement(w)
    PROVE  SafetyInv'
  <1> DEFINE c == cmd[w]
             new == [bet |-> c.bet, type |-> c.type, corrects |-> c.corrects,
                     calculated |-> ProfitLoss[c.type], delta |-> delta[w]]
         LoggedOf(b) == {e \in Events : event'[e] # None /\ event'[e].bet = b}
  <1>1. c \in Command /\ c.bet \in Bets /\ c.event \in Events
    BY DEF TypeOK, Command
  <1>2. new \in Event /\ new # None
    BY <1>1, BetSettlementAssumption DEF Event, Command, TypeOK
  <1>3. /\ event[c.event] = None
        /\ event' = [event EXCEPT ![c.event] = new]
        /\ bet' = [bet EXCEPT ![c.bet] = SettledRow(c)]
        /\ ledger' = [ledger EXCEPT ![c.event] = delta[w]]
        /\ bet[c.bet].status = "pending" \/ c.corrects # None
        /\ Finish(w, FALSE)
    BY DEF CommitSettlement
  <1>4. delta[w] # None
    BY BetSettlementAssumption DEF TypeOK
  <1>5. /\ event'[c.event] = new
        /\ \A e \in Events : e # c.event => event'[e] = event[e]
    BY <1>1, <1>3 DEF TypeOK
  <1>6. /\ \A b \in Bets : b # c.bet => LoggedOf(b) = EventsOf(b)
        /\ LoggedOf(c.bet) = EventsOf(c.bet) \cup {c.event}
    BY <1>1, <1>2, <1>3, <1>5 DEF EventsOf
  <1>7. SettledOnce'
    <2> SUFFICES ASSUME NEW e \in Events, NEW f \in Events,
                        event'[e] # None, event'[f] # None,
                        event'[e].corrects = None, event'[f].corrects = None,
                        event'[e].bet = event'[f].bet
                 PROVE  e = f
      BY DEF SettledOnce
    <2>1. CASE e # c.event /\ f # c.event
      BY <2>1, <1>5 DEF SafetyInv, SettledOnce
    <2>2. ASSUME NEW g \in Events, g # c.event, event[g] # None, event[g].bet = c.bet,
                 c.corrects = None
          PROVE  FALSE
      <3>1. bet[c.bet].status = "settled"
        BY <1>1, <2>2 DEF SafetyInv, SettledIffEvent, EventsOf
      <3> QED
        BY <1>3, <2>2, <3>1
    <2> QED
      BY <1>5, <2>1, <2>2
  <1>8. SettledIffEvent'
    <2>1. \A b \in Bets : b # c.bet => bet'[b] = bet[b]
      BY <1>3 DEF TypeOK
    <2>2. bet'[c.bet].status = "settled"
      BY <1>1, <1>3 DEF SettledRow, TypeOK
    <2>3. \A b \in Bets : bet'[b].status = "settled" <=> LoggedOf(b) # {}
      BY <1>1, <1>6, <2>1, <2>2 DEF SafetyInv, SettledIffEvent
    <2> QED
      BY <2>3 DEF SettledIffEvent, EventsOf
  <1>9. ReviewMatchesStatus'
    BY <1>1, <1>3 DEF SafetyInv, ReviewMatchesStatus, SettledRow, TypeOK
  <1>10. GroundedApply'
    <2> SUFFICES ASSUME NEW u \in Workers, pc'[u] = "apply", cmd'[u].corrects # None
                 PROVE  cmd'[u].corrects \in LoggedOf(cmd'[u].bet)
      BY DEF GroundedApply, EventsOf
    <2>1. pc[u] = "apply" /\ cmd'[u] = cmd[u] /\ cmd[u] \in Command
      BY <1>3, FinishTypes
    <2>2. cmd[u].corrects \in EventsOf(cmd[u].bet) /\ cmd[u].bet \in Bets
      BY <2>1 DEF SafetyInv, GroundedApply, Command
    <2> QED
      BY <1>6, <2>1, <2>2
  <1>11. CorrectionsAreGrounded'
    <2> SUFFICES ASSUME NEW e \in Events, event'[e] # None, event'[e].corrects # None
                 PROVE  /\ event'[e].corrects # e
                        /\ event'[e].corrects \in LoggedOf(event'[e].bet)
      BY DEF CorrectionsAreGrounded, EventsOf
    <2>1. CASE e = c.event
      <3>1. c.corrects # None /\ c.corrects \in EventsOf(c.bet)
        BY <1>5, <2>1 DEF SafetyInv, GroundedApply
      <3>2. c.corrects # c.event
        BY <1>3, <3>1 DEF EventsOf
      <3> QED
        BY <1>1, <1>5, <1>6, <2>1, <3>1, <3>2
    <2>2. CASE e # c.event
      <3>1. event[e] \in Event /\ event[e].bet \in Bets
        BY <1>5, <2>2 DEF TypeOK, Event
      <3>2. event[e].corrects # e /\ event[e].corrects \in EventsOf(event[e].bet)
        BY <1>5, <2>2 DEF SafetyInv, CorrectionsAreGrounded
      <3> QED
        BY <1>5, <1>6, <2>2, <3>1, <3>2
    <2> QED
      BY <2>1, <2>2
  <1>12. EntryIffEvent'
    BY <1>1, <1>2, <1>3, <1>4, <1>5 DEF SafetyInv, EntryIffEvent, TypeOK
  <1> QED
    BY <1>7, <1>8, <1>9, <1>10, <1>11, <1>12 DEF SafetyInv

LEMMA SafetyStep == TypeOK /\ SafetyInv /\ [SettlementNext]_vars => SafetyInv'
  <1> SUFFICES ASSUME TypeOK, SafetyInv, [SettlementNext]_vars
               PROVE  SafetyInv'
    OBVIOUS
  <1>0. ReviewMatchesStatus
    BY DEF SafetyInv
  <1>1. ASSUME NEW b \in Bets, CreateBetRecord(b) PROVE SafetyInv'
    <2>1. ReviewMatchesStatus'
      BY <1>0, <1>1 DEF CreateBetRecord, PendingRow, ReviewMatchesStatus, TypeOK
    <2> QED
      BY <1>1, <2>1, QuietStep DEF CreateBetRecord, PendingRow, TypeOK
  <1>2. ASSUME NEW o \in Owners, NEW b \in Bets, NEW e \in OwnerEvents,
               NEW t \in SettlementTypes, NEW c \in Events \cup {None},
               RequestSettlement(o, b, e, t, c)
        PROVE  SafetyInv'
    BY <1>0, <1>2, QuietStep DEF RequestSettlement, ReviewMatchesStatus, TypeOK, Workers
  <1>3. ASSUME NEW w \in Workers, ReadRecord(w) PROVE SafetyInv'
    <2>1. pc[w] = "readRecord" /\ UNCHANGED store
      BY <1>3 DEF ReadRecord
    <2>2. \A u \in Workers : pc'[u] = "apply" => pc[u] = "apply" /\ cmd'[u] = cmd[u]
      <3>1. CASE Finish(w, TRUE)
        BY <2>1, <3>1, FinishTypes
      <3>2. CASE ~Finish(w, TRUE)
        BY <1>3, <2>1, <3>2 DEF ReadRecord, TypeOK
      <3> QED
        BY <3>1, <3>2
    <2> QED
      BY <1>0, <2>1, <2>2, QuietStep DEF store, ReviewMatchesStatus
  <1>4. ASSUME NEW w \in Workers, ReadEvents(w) PROVE SafetyInv'
    BY <1>4, ReadEventsSafety
  <1>5. ASSUME NEW w \in Workers, ApplyBetSettlement(w) PROVE SafetyInv'
    <2>1. pc[w] = "apply"
      BY <1>5 DEF ApplyBetSettlement
    <2>2. CASE UNCHANGED store
      <3>1. \E v \in BOOLEAN : Finish(w, v)
        BY <1>5 DEF ApplyBetSettlement, ReplaySettlement, RejectSettlement,
                    AbortSettlement, CommitSettlement
      <3> QED
        BY <1>0, <2>1, <2>2, <3>1, FinishTypes, QuietStep DEF store, ReviewMatchesStatus
    <2>3. CASE CommitSettlement(w)
      BY <2>1, <2>3, CommitSafety
    <2> QED
      BY <1>5, <2>2, <2>3 DEF ApplyBetSettlement, ReplaySettlement, RejectSettlement,
                              AbortSettlement
  <1>6. ASSUME NEW r \in Reconcilers, NEW S \in SUBSET Bets, ListPendingBets(r, S)
        PROVE  SafetyInv'
    BY <1>0, <1>6, QuietStep DEF ListPendingBets, ReviewMatchesStatus
  <1>7. ASSUME NEW r \in Reconcilers, NEW b \in Bets, MarkManualReview(r, b)
        PROVE  SafetyInv'
    <2>1. ReviewMatchesStatus'
      BY <1>0, <1>7 DEF MarkManualReview, ReviewRow, ReviewMatchesStatus, TypeOK
    <2> QED
      BY <1>7, <2>1, QuietStep DEF MarkManualReview, ReviewRow, TypeOK
  <1>8. ASSUME NEW r \in Reconcilers, NEW b \in Bets, FailManualReview(r, b)
        PROVE  SafetyInv'
    BY <1>0, <1>8, QuietStep DEF FailManualReview, ReviewMatchesStatus
  <1>9. ASSUME NEW w \in Workers, FailSettlement(w) PROVE SafetyInv'
    BY <1>0, <1>9, FinishTypes, QuietStep DEF FailSettlement, store, ReviewMatchesStatus
  <1>10. ASSUME NEW r \in Reconcilers, NEW b \in Bets, NEW t \in SettlementTypes,
               SettleAutomatically(r, b, t)
        PROVE  SafetyInv'
    BY <1>0, <1>10, QuietStep DEF SettleAutomatically, ReviewMatchesStatus, TypeOK, Workers
  <1>11. CASE UNCHANGED vars
    BY <1>0, <1>11, QuietStep DEF vars, ReviewMatchesStatus
  <1> QED
    BY <1>1, <1>2, <1>3, <1>4, <1>5, <1>6, <1>7, <1>8, <1>9, <1>10, <1>11
       DEF SettlementNext, Settle, ReconcileNext

(* The invariant holds of the specification. *)
THEOREM SafetyInvariant == Spec => [](TypeOK /\ SafetyInv)
  <1>1. Init => TypeOK /\ SafetyInv
    BY InitSafety, BetSettlementAssumption DEF Init, TypeOK, NoRow, BetRow, Statuses, Reviews
  <1>2. TypeOK /\ SafetyInv /\ [SettlementNext]_vars => (TypeOK /\ SafetyInv)'
    BY TypeStep, SafetyStep
  <1> QED
    BY <1>1, <1>2, PTL DEF Spec

(* A bet is paid out once, however settlement requests, retries and          *)
(* reconcilers interleave.                                                   *)
THEOREM BetSettledOnce == Spec => []SettledOnce
  <1>1. SafetyInv => SettledOnce
    BY DEF SafetyInv
  <1> QED
    BY <1>1, SafetyInvariant, PTL

(* The bet row and the event log agree on which bets are settled.            *)
THEOREM RowMatchesLog == Spec => []SettledIffEvent
  <1>1. SafetyInv => SettledIffEvent
    BY DEF SafetyInv
  <1> QED
    BY <1>1, SafetyInvariant, PTL

(* The review CHECK of bet_record never trips.                               *)
THEOREM ReviewCheckHolds == Spec => []ReviewMatchesStatus
  <1>1. SafetyInv => ReviewMatchesStatus
    BY DEF SafetyInv
  <1> QED
    BY <1>1, SafetyInvariant, PTL

(* Every correction in the log rests on another event of the same bet.       *)
THEOREM CorrectionsGrounded == Spec => []CorrectionsAreGrounded
  <1>1. SafetyInv => CorrectionsAreGrounded
    BY DEF SafetyInv
  <1> QED
    BY <1>1, SafetyInvariant, PTL

(* One step of the ledger: nothing, or one event with its entry and its      *)
(* amount.                                                                   *)
LEMMA StepIsLedgerStep == TypeOK /\ EntryIffEvent /\ [SettlementNext]_vars => LedgerStep
  <1> SUFFICES ASSUME TypeOK, EntryIffEvent, [SettlementNext]_vars
               PROVE  LedgerStep
    OBVIOUS
  <1>1. ASSUME NEW w \in Workers, pc[w] = "apply", CommitSettlement(w) PROVE LedgerStep
    <2>1. cmd[w].event \in Events /\ event[cmd[w].event] = None
      BY <1>1 DEF TypeOK, Command, CommitSettlement
    <2>2. ledger[cmd[w].event] = None
      BY <2>1 DEF EntryIffEvent
    <2>3. /\ event'[cmd[w].event] \in Event
          /\ event'[cmd[w].event].delta = delta[w]
          /\ ledger'[cmd[w].event] = delta[w]
          /\ balance' = balance + delta[w]
          /\ \A f \in Events \ {cmd[w].event} : event'[f] = event[f] /\ ledger'[f] = ledger[f]
      BY <1>1, <2>1, BetSettlementAssumption DEF TypeOK, CommitSettlement, Event, Command
    <2> QED
      BY <2>1, <2>2, <2>3, BetSettlementAssumption DEF LedgerStep
  <1>2. ASSUME NEW w \in Workers, Settle(w) PROVE LedgerStep
    BY <1>1, <1>2 DEF Settle, ReadRecord, ReadEvents, ApplyBetSettlement, ReplaySettlement,
                      RejectSettlement, AbortSettlement, FailSettlement, store, LedgerStep
  <1>3. CASE UNCHANGED <<event, ledger, balance>>
    BY <1>3 DEF LedgerStep
  <1> QED
    BY <1>2, <1>3 DEF SettlementNext, CreateBetRecord, RequestSettlement, ListPendingBets,
                      ReconcileNext, MarkManualReview, FailManualReview, SettleAutomatically, vars

(* The ledger is append-only and the balance moves by what is appended.      *)
THEOREM LedgerAppendOnly == Spec => AppendOnlyLedger
  <1>1. SafetyInv => EntryIffEvent
    BY DEF SafetyInv
  <1> QED
    BY <1>1, SafetyInvariant, StepIsLedgerStep, PTL DEF Spec, AppendOnlyLedger

-----------------------------------------------------------------------------
(* g adds up f over every subset of D, in whatever order. *)
Adds(f, D, g) ==
    /\ g \in [SUBSET D -> Int] /\ g[{}] = 0
    /\ \A s \in SUBSET D : \A x \in s : g[s] = f[x] + g[s \ {x}]

(* Among finite sets with a property there is one that is smallest.          *)
LEMMA SmallestSet ==
    ASSUME NEW E, IsFiniteSet(E), NEW C \in SUBSET SUBSET E, C # {}
    PROVE  \E D \in C : \A x \in D : D \ {x} \notin C
  <1>1. IsWellFoundedOn(StrictSubsetOrdering(E), FiniteSubsetsOf(E))
    BY FS_StrictSubsetOrderingWellFounded
  <1>2. C \subseteq FiniteSubsetsOf(E)
    BY FS_Subset DEF FiniteSubsetsOf
  <1>3. PICK D \in C : \A y \in C : <<y, D>> \notin StrictSubsetOrdering(E)
    BY <1>1, <1>2, WFMin
  <1>4. \A x \in D : D \ {x} \notin C
    BY <1>3 DEF StrictSubsetOrdering
  <1> QED
    BY <1>4

(* Any integers over a finite set can be added up. *)
LEMMA SumsExist ==
    ASSUME NEW E, IsFiniteSet(E), NEW f \in [E -> Int]
    PROVE  \E g : Adds(f, E, g)
  <1> DEFINE C == {D \in SUBSET E : ~\E g : Adds(f, D, g)}
  <1>1. ASSUME C # {}
        PROVE  FALSE
    <2>1. PICK D \in C : \A x \in D : D \ {x} \notin C
      <3>1. C \in SUBSET SUBSET E
        OBVIOUS
      <3> HIDE DEF C
      <3> QED
        BY <1>1, <3>1, SmallestSet
    <2>2. CASE D = {}
      <3>1. Adds(f, D, [s \in SUBSET D |-> 0])
        BY <2>2 DEF Adds
      <3> QED
        BY <3>1
    <2>3. CASE D # {}
      <3>1. PICK y \in D : \E g : Adds(f, D \ {y}, g)
        BY <2>1, <2>3
      <3>9. PICK g : Adds(f, D \ {y}, g)
        BY <3>1
      <3> DEFINE h == [s \in SUBSET D |-> IF y \in s THEN f[y] + g[s \ {y}] ELSE g[s]]
      <3>2. \A s \in SUBSET (D \ {y}) : g[s] \in Int /\ \A x \in s : g[s] = f[x] + g[s \ {x}]
        BY <3>9 DEF Adds
      <3>3. \A s \in SUBSET D : s \ {y} \in SUBSET (D \ {y}) /\ (y \notin s => s \in SUBSET (D \ {y}))
        OBVIOUS
      <3>4. \A x \in D : f[x] \in Int
        OBVIOUS
      <3>5. h \in [SUBSET D -> Int]
        BY <3>2, <3>3, <3>4
      <3>6. h[{}] = 0
        BY <3>9 DEF Adds
      <3>7. ASSUME NEW s \in SUBSET D, NEW x \in s
            PROVE  h[s] = f[x] + h[s \ {x}]
        <4>1. CASE y \notin s
          BY <3>2, <3>3, <4>1
        <4>2. CASE x = y
          BY <3>2, <3>3, <4>2
        <4>3. CASE y \in s /\ x # y
          <5>1. h[s] = f[y] + g[s \ {y}] /\ h[s \ {x}] = f[y] + g[(s \ {x}) \ {y}]
            BY <4>3
          <5>2. g[s \ {y}] = f[x] + g[(s \ {y}) \ {x}] /\ (s \ {y}) \ {x} = (s \ {x}) \ {y}
            BY <3>2, <3>3, <4>3
          <5>3. g[(s \ {x}) \ {y}] \in Int
            BY <3>2, <3>3
          <5>4. PICK r \in Int, u \in Int, v \in Int :
                   r = g[(s \ {x}) \ {y}] /\ u = f[x] /\ v = f[y]
            BY <3>4, <5>3
          <5>5. h[s] = v + (u + r) /\ h[s \ {x}] = v + r
            BY <5>1, <5>2, <5>4
          <5> QED
            BY <5>4, <5>5
        <4> QED
          BY <4>1, <4>2, <4>3
      <3>8. Adds(f, D, h)
        <4> HIDE DEF h
        <4> QED
          BY <3>5, <3>6, <3>7 DEF Adds
      <3> QED
        BY <3>8
    <2> QED
      BY <2>2, <2>3
  <1> QED
    BY <1>1

(* The order in which the sums of the model add. *)
Pick(s) == CHOOSE x \in s : TRUE
Folds(f, S, h) ==
    h = [s \in SUBSET S |-> IF s = {} THEN 0 ELSE f[Pick(s)] + h[s \ {Pick(s)}]]

LEMMA FoldsAdd ==
    ASSUME NEW E, IsFiniteSet(E), NEW f, NEW g, Adds(f, E, g), NEW S \in SUBSET E,
           NEW h, Folds(f, S, h)
    PROVE  h[S] = g[S]
  <1> DEFINE C == {s \in SUBSET S : h[s] # g[s]}
  <1>1. ASSUME C # {}
        PROVE  FALSE
    <2>1. PICK s \in C : \A x \in s : s \ {x} \notin C
      <3>1. C \in SUBSET SUBSET S /\ IsFiniteSet(S)
        BY FS_Subset
      <3> HIDE DEF C
      <3> QED
        BY <1>1, <3>1, SmallestSet
    <2>2. s # {}
      BY <2>1 DEF Adds, Folds
    <2>3. Pick(s) \in s
      BY <2>2 DEF Pick
    <2>4. h[s] = f[Pick(s)] + h[s \ {Pick(s)}]
      BY <2>2 DEF Folds
    <2>5. h[s \ {Pick(s)}] = g[s \ {Pick(s)}]
      BY <2>1, <2>3
    <2>6. g[s] = f[Pick(s)] + g[s \ {Pick(s)}]
      BY <2>3 DEF Adds
    <2> QED
      BY <2>4, <2>5, <2>6
  <1> QED
    BY <1>1

(* A sum can be added up in that order, too, over any part of the set.       *)
LEMMA SumsFold ==
    ASSUME NEW E, NEW f, NEW g, Adds(f, E, g), NEW S \in SUBSET E,
           NEW l, \A e \in S : l[e] = f[e]
    PROVE  \E h : Folds(l, S, h)
  <1> DEFINE h == [s \in SUBSET S |-> g[s]]
  <1>1. ASSUME NEW s \in SUBSET S, s # {}
        PROVE  h[s] = l[Pick(s)] + h[s \ {Pick(s)}]
    <2>1. Pick(s) \in s
      BY <1>1 DEF Pick
    <2> QED
      BY <2>1 DEF Adds
  <1>2. h[{}] = 0
    BY DEF Adds
  <1>3. h = [s \in SUBSET S |-> IF s = {} THEN 0 ELSE l[Pick(s)] + h[s \ {Pick(s)}]]
    BY <1>1, <1>2
  <1> HIDE DEF h
  <1>4. Folds(l, S, h)
    BY <1>3 DEF Folds
  <1> QED
    BY <1>4

LEMMA EntriesFold ==
    ASSUME NEW l, NEW S, \E k : Folds(l, S, k)
    PROVE  \E h : Folds(l, S, h) /\ EntrySum(l, S) = h[S]
  <1>1. PICK h : h = CHOOSE k : Folds(l, S, k)
    OBVIOUS
  <1>2. EntrySum(l, S) = h[S]
    BY <1>1 DEF EntrySum, MapThenSumSet, MapThenFoldSet, Folds, Pick
  <1> QED
    BY <1>1, <1>2

(* Over a finite set, a sum is the same in whatever order it is added up.    *)
LEMMA EntriesAdd ==
    ASSUME NEW E, IsFiniteSet(E), NEW f, NEW g, Adds(f, E, g),
           NEW S \in SUBSET E, NEW l, \A e \in S : l[e] = f[e]
    PROVE  EntrySum(l, S) = g[S]
  <1>1. \E h : Folds(l, S, h)
    BY SumsFold
  <1>2. PICK h : Folds(l, S, h) /\ EntrySum(l, S) = h[S]
    BY <1>1, EntriesFold
  <1>3. Folds(f, S, h)
    <2>1. \A s \in SUBSET S : s # {} => Pick(s) \in S
      BY DEF Pick
    <2> QED
      BY <1>2, <2>1 DEF Folds
  <1>4. h[S] = g[S]
    BY <1>3, FoldsAdd
  <1> QED
    BY <1>2, <1>4

(* E is S with x, and k holds the whole amounts of l, and one of x.          *)
OneMore(k, E, l, S, x) ==
    /\ IsFiniteSet(S) /\ x \notin S /\ E = S \cup {x}
    /\ \A e \in S : l[e] \in Int /\ k[e] = l[e]
    /\ k[x] \in Int

(* One more entry adds its amount. *)
LEMMA OneMoreEntry ==
    ASSUME NEW k, NEW E, NEW l, NEW S, NEW x, OneMore(k, E, l, S, x)
    PROVE  EntrySum(k, E) = EntrySum(l, S) + k[x]
  <1> USE DEF OneMore
  <1> DEFINE f == [e \in E |-> k[e]]
  <1>1. IsFiniteSet(E)
    BY FS_AddElement
  <1>2. f \in [E -> Int]
    OBVIOUS
  <1>3. PICK g : Adds(f, E, g)
    <2> HIDE DEF f
    <2> QED
      BY <1>1, <1>2, SumsExist
  <1>4. EntrySum(k, E) = g[E]
    <2>1. \A e \in E : k[e] = f[e]
      OBVIOUS
    <2> HIDE DEF f
    <2> QED
      BY <1>1, <1>2, <1>3, <2>1, EntriesAdd
  <1>5. EntrySum(l, S) = g[S]
    <2>1. S \in SUBSET E /\ \A e \in S : l[e] = f[e]
      OBVIOUS
    <2> HIDE DEF f
    <2> QED
      BY <1>1, <1>2, <1>3, <2>1, EntriesAdd
  <1>6. E \ {x} = S /\ f[x] = k[x] /\ S \in SUBSET E /\ E \in SUBSET E /\ x \in E
    OBVIOUS
  <1>7. g[E] = k[x] + g[S] /\ g[S] \in Int
    <2> HIDE DEF f
    <2> QED
      BY <1>3, <1>6 DEF Adds
  <1> QED
    BY <1>4, <1>5, <1>7

LEMMA EntrySumTyped ==
    ASSUME NEW S, IsFiniteSet(S), NEW l, \A e \in S : l[e] \in Int
    PROVE  EntrySum(l, S) \in Int
  <1> DEFINE f == [e \in S |-> l[e]]
  <1>1. f \in [S -> Int] /\ \A e \in S : l[e] = f[e]
    OBVIOUS
  <1> HIDE DEF f
  <1>2. PICK g : Adds(f, S, g)
    BY <1>1, SumsExist
  <1>3. EntrySum(l, S) = g[S]
    BY <1>1, <1>2, EntriesAdd
  <1> QED
    BY <1>2, <1>3 DEF Adds

LEMMA NoEntry ==
    ASSUME NEW l
    PROVE  EntrySum(l, {}) = 0
  <1>1. Folds(l, {}, [s \in SUBSET {} |-> 0])
    BY DEF Folds
  <1>2. PICK h : Folds(l, {}, h) /\ EntrySum(l, {}) = h[{}]
    BY <1>1, EntriesFold
  <1>3. h[{}] = 0
    BY <1>2 DEF Folds
  <1> QED
    BY <1>2, <1>3

(* What events have moved is the sum of their amounts as entries. *)
MovedFolds(ev, S, h) ==
    h = [s \in SUBSET S |-> IF s = {} THEN 0 ELSE ev[Pick(s)].delta + h[s \ {Pick(s)}]]

LEMMA MovedAreEntries ==
    ASSUME NEW ev, NEW S, IsFiniteSet(S), \A e \in S : ev[e].delta \in Int
    PROVE  MovedSum(ev, S) = EntrySum([e \in S |-> ev[e].delta], S)
  <1> DEFINE f == [e \in S |-> ev[e].delta]
  <1>1. PICK g : Adds(f, S, g)
    <2>1. f \in [S -> Int]
      OBVIOUS
    <2> HIDE DEF f
    <2> QED
      BY <2>1, SumsExist
  <1>2. \A k : MovedFolds(ev, S, k) <=> Folds(f, S, k)
    <2>1. \A s \in SUBSET S : s # {} => f[Pick(s)] = ev[Pick(s)].delta
      BY DEF Pick
    <2> HIDE DEF f
    <2> QED
      BY <2>1 DEF MovedFolds, Folds
  <1> HIDE DEF f
  <1>3. \E k : Folds(f, S, k)
    BY <1>1, SumsFold
  <1>4. PICK h : h = CHOOSE k : MovedFolds(ev, S, k)
    OBVIOUS
  <1>5. MovedSum(ev, S) = h[S]
    BY <1>4 DEF MovedSum, MapThenSumSet, MapThenFoldSet, MovedFolds, Pick
  <1>6. Folds(f, S, h)
    BY <1>2, <1>3, <1>4
  <1>7. h[S] = g[S]
    BY <1>1, <1>6, FoldsAdd
  <1>8. EntrySum(f, S) = g[S]
    BY <1>1, EntriesAdd
  <1> QED
    BY <1>5, <1>7, <1>8 DEF f

-----------------------------------------------------------------------------
(* The log is finite, and a request that is about to open the transaction    *)
(* carries the amount that follows from the row it read.                     *)
SumInv ==
    /\ IsFiniteSet(Posted)
    /\ BalanceMatchesLedger
    /\ \A w \in Workers : pc[w] = "apply" => delta[w] = LedgerDelta(w)

LEMMA InitSums == Init => SumInv
  <1> SUFFICES ASSUME Init
               PROVE  SumInv
    OBVIOUS
  <1>1. Posted = {} /\ IsFiniteSet(Posted)
    BY FS_EmptySet DEF Init, Posted
  <1>2. balance = OpeningBalance + EntrySum(ledger, Posted)
    BY <1>1, NoEntry, BetSettlementAssumption DEF Init
  <1> QED
    BY <1>1, <1>2 DEF SumInv, BalanceMatchesLedger, Init

(* The entry that is appended is the amount by which the balance moves.      *)
LEMMA BalanceStep ==
    ASSUME TypeOK, TypeOK', IsFiniteSet(Posted), BalanceMatchesLedger, LedgerStep
    PROVE  IsFiniteSet(Posted)' /\ BalanceMatchesLedger'
  <1>1. balance = OpeningBalance + EntrySum(ledger, Posted)
    BY DEF BalanceMatchesLedger
  <1>2. IsFiniteSet(Posted') /\ balance' = OpeningBalance + EntrySum(ledger', Posted')
    <2>1. CASE UNCHANGED <<event, ledger, balance>>
      <3>1. Posted' = Posted
        BY <2>1 DEF Posted
      <3> QED
        BY <1>1, <2>1, <3>1
    <2>2. CASE ~UNCHANGED <<event, ledger, balance>>
      <3>1. PICK e \in Events :
              /\ event[e] = None /\ ledger[e] = None
              /\ event'[e] # None /\ ledger'[e] = event'[e].delta
              /\ balance' = balance + ledger'[e]
              /\ \A f \in Events \ {e} : event'[f] = event[f] /\ ledger'[f] = ledger[f]
        BY <2>2 DEF LedgerStep
      <3>2. ledger'[e] \in Int /\ Posted' = Posted \cup {e} /\ e \notin Posted
        <4>1. ledger'[e] \in Int /\ ledger'[e] # None
          BY <3>1, BetSettlementAssumption DEF TypeOK, Event
        <4> QED
          BY <3>1, <4>1 DEF Posted
      <3>3. \A f \in Posted : ledger[f] \in Int /\ ledger'[f] = ledger[f]
        BY <3>1, <3>2 DEF Posted, TypeOK
      <3>4. IsFiniteSet(Posted) /\ IsFiniteSet(Posted \cup {e})
        BY FS_AddElement
      <3>5. EntrySum(ledger', Posted \cup {e}) = EntrySum(ledger, Posted) + ledger'[e]
        <4>1. OneMore(ledger', Posted \cup {e}, ledger, Posted, e)
          BY <3>2, <3>3, <3>4 DEF OneMore
        <4> QED
          BY <4>1, OneMoreEntry
      <3>6. EntrySum(ledger, Posted) \in Int
        BY <3>3, <3>4, EntrySumTyped
      <3> QED
        BY <1>1, <3>1, <3>2, <3>4, <3>5, <3>6, BetSettlementAssumption
    <2> QED
      BY <2>1, <2>2
  <1>3. BalanceMatchesLedger'
    BY <1>2 DEF BalanceMatchesLedger
  <1>4. IsFiniteSet(Posted)'
    BY <1>2
  <1> QED
    BY <1>3, <1>4

(* What a waiting request carries as its amount follows from the row it read.*)
LEMMA AmountStep ==
    ASSUME TypeOK, SumInv, [SettlementNext]_vars
    PROVE  \A u \in Workers : pc'[u] = "apply" => delta'[u] = LedgerDelta(u)'
  <1> SUFFICES ASSUME NEW u \in Workers, pc'[u] = "apply"
               PROVE  delta'[u] = LedgerDelta(u)'
    OBVIOUS
  <1>1. CASE pc[u] = "apply" /\ UNCHANGED <<delta[u], cmd[u], snap[u]>>
    BY <1>1 DEF SumInv, LedgerDelta
  <1>2. ASSUME NEW w \in Workers, pc[w] # "idle", NEW v \in BOOLEAN, Finish(w, v)
        PROVE  pc[u] = "apply" /\ UNCHANGED <<delta[u], cmd[u], snap[u]>>
    BY <1>2 DEF Finish, TypeOK
  <1>3. ASSUME NEW w \in Workers, ReadRecord(w)
        PROVE  pc[u] = "apply" /\ UNCHANGED <<delta[u], cmd[u], snap[u]>>
    BY <1>2, <1>3 DEF ReadRecord, TypeOK
  <1>4. ASSUME NEW w \in Workers, ReadEvents(w)
        PROVE  delta'[u] = LedgerDelta(u)'
    <2>1. CASE Finish(w, TRUE)
      BY <1>1, <1>2, <1>4, <2>1 DEF ReadEvents
    <2>2. CASE ~Finish(w, TRUE)
      <3>1. /\ pc' = [pc EXCEPT ![w] = "apply"] /\ UNCHANGED <<cmd, snap>>
            /\ delta' = [delta EXCEPT ![w] = LedgerDelta(w)]
        BY <1>4, <2>2 DEF ReadEvents
      <3>2. LedgerDelta(u)' = LedgerDelta(u)
        BY <3>1 DEF LedgerDelta
      <3> QED
        BY <3>1, <3>2 DEF SumInv, TypeOK
    <2> QED
      BY <2>1, <2>2
  <1>5. ASSUME NEW w \in Workers, ApplyBetSettlement(w)
        PROVE  pc[u] = "apply" /\ UNCHANGED <<delta[u], cmd[u], snap[u]>>
    BY <1>2, <1>5 DEF ApplyBetSettlement, ReplaySettlement, RejectSettlement, AbortSettlement, CommitSettlement
  <1>6. ASSUME NEW w \in Workers, FailSettlement(w)
        PROVE  pc[u] = "apply" /\ UNCHANGED <<delta[u], cmd[u], snap[u]>>
    BY <1>2, <1>6 DEF FailSettlement
  <1>7. ASSUME \/ \E b \in Bets : CreateBetRecord(b)
               \/ \E r \in Reconcilers, S \in SUBSET Bets : ListPendingBets(r, S)
               \/ \E r \in Reconcilers, b \in Bets : MarkManualReview(r, b) \/ FailManualReview(r, b)
               \/ UNCHANGED vars
        PROVE  pc[u] = "apply" /\ UNCHANGED <<delta[u], cmd[u], snap[u]>>
    BY <1>7 DEF CreateBetRecord, ListPendingBets, MarkManualReview, FailManualReview, vars
  <1>8. ASSUME \/ \E o \in Owners, b \in Bets, e \in OwnerEvents, t \in SettlementTypes,
                     c \in Events \cup {None} : RequestSettlement(o, b, e, t, c)
               \/ \E r \in Reconcilers, b \in Bets, t \in SettlementTypes : SettleAutomatically(r, b, t)
        PROVE  pc[u] = "apply" /\ UNCHANGED <<delta[u], cmd[u], snap[u]>>
    BY <1>8 DEF RequestSettlement, SettleAutomatically, NextQueued, TypeOK, Workers
  <1> QED
    BY <1>1, <1>3, <1>4, <1>5, <1>6, <1>7, <1>8 DEF SettlementNext, Settle, ReconcileNext

THEOREM SumInvariant == Spec => [](TypeOK /\ SafetyInv /\ SumInv)
  <1>1. Init => TypeOK /\ SafetyInv /\ SumInv
    BY InitSafety, InitSums, BetSettlementAssumption DEF Init, TypeOK, NoRow, BetRow, Statuses, Reviews
  <1>2. TypeOK /\ SafetyInv /\ SumInv /\ [SettlementNext]_vars => (TypeOK /\ SafetyInv /\ SumInv)'
    <2> SUFFICES ASSUME TypeOK, SafetyInv, SumInv, [SettlementNext]_vars
                 PROVE  (TypeOK /\ SafetyInv /\ SumInv)'
      OBVIOUS
    <2>1. TypeOK' /\ SafetyInv'
      BY TypeStep, SafetyStep
    <2>2. IsFiniteSet(Posted)' /\ BalanceMatchesLedger'
      BY <2>1, StepIsLedgerStep, BalanceStep DEF SafetyInv, SumInv
    <2> QED
      BY <2>1, <2>2, AmountStep DEF SumInv
  <1> QED
    BY <1>1, <1>2, PTL DEF Spec

(* The account's balance is its opening balance plus its ledger, of any      *)
(* number of entries.                                                        *)
THEOREM BalanceIsLedger == Spec => []BalanceMatchesLedger
  <1>1. SumInv => BalanceMatchesLedger
    BY DEF SumInv
  <1> QED
    BY <1>1, SumInvariant, PTL

-----------------------------------------------------------------------------
(* What PATCH cannot undo.  It may write a settled row back as pending, so   *)
(* that SafetyInv breaks, but the log, the ledger and the balance do not     *)
(* depend on the row.                                                        *)
PatchTyped == patch \in [Patchers -> [bet : Bets, row : BetRow, note : Notes] \cup {None}]

MoneyInv ==
    /\ TypeOK /\ PatchTyped /\ EntryIffEvent
    /\ IsFiniteSet(Posted) /\ BalanceMatchesLedger

LEMMA EntriesStayWithEvents ==
    ASSUME TypeOK, TypeOK', EntryIffEvent, LedgerStep
    PROVE  EntryIffEvent'
  BY BetSettlementAssumption DEF LedgerStep, EntryIffEvent, TypeOK, Event

(* What a correction rests on does not depend on the row either.             *)
Grounds == GroundedApply /\ CorrectionsAreGrounded

LEMMA QuietGrounds ==
    ASSUME Grounds, UNCHANGED event,
           \A w \in Workers : pc'[w] = "apply" => pc[w] = "apply" /\ cmd'[w] = cmd[w]
    PROVE  Grounds'
  BY DEF Grounds, GroundedApply, CorrectionsAreGrounded, EventsOf

LEMMA CommitGrounds ==
    ASSUME TypeOK, Grounds, NEW w \in Workers, pc[w] = "apply", CommitSettlement(w)
    PROVE  Grounds'
  <1> DEFINE c == cmd[w]
             new == [bet |-> c.bet, type |-> c.type, corrects |-> c.corrects,
                     calculated |-> ProfitLoss[c.type], delta |-> delta[w]]
             LoggedOf(b) == {e \in Events : event'[e] # None /\ event'[e].bet = b}
  <1>1. c \in Command /\ c.event \in Events /\ new \in Event /\ new # None
    BY BetSettlementAssumption DEF TypeOK, Command, Event
  <1>2. /\ event[c.event] = None /\ Finish(w, FALSE)
        /\ event' = [event EXCEPT ![c.event] = new]
    BY DEF CommitSettlement
  <1> HIDE DEF new
  <1>3. /\ event'[c.event] = new
        /\ \A e \in Events : e # c.event => event'[e] = event[e]
    BY <1>1, <1>2 DEF TypeOK
  <1>4. \A b \in Bets : EventsOf(b) \subseteq LoggedOf(b)
    BY <1>2, <1>3 DEF EventsOf
  <1>5. GroundedApply'
    <2> SUFFICES ASSUME NEW u \in Workers, pc'[u] = "apply", cmd'[u].corrects # None
                 PROVE  cmd'[u].corrects \in LoggedOf(cmd'[u].bet)
      BY DEF GroundedApply, EventsOf
    <2>1. pc[u] = "apply" /\ cmd'[u] = cmd[u] /\ cmd[u] \in Command
      BY <1>2, FinishTypes
    <2>2. cmd[u].corrects \in EventsOf(cmd[u].bet) /\ cmd[u].bet \in Bets
      BY <2>1 DEF Grounds, GroundedApply, Command
    <2> QED
      BY <1>4, <2>1, <2>2
  <1>6. CorrectionsAreGrounded'
    <2> SUFFICES ASSUME NEW e \in Events, event'[e] # None, event'[e].corrects # None
                 PROVE  /\ event'[e].corrects # e
                        /\ event'[e].corrects \in LoggedOf(event'[e].bet)
      BY DEF CorrectionsAreGrounded, EventsOf
    <2>1. CASE e = c.event
      <3>1. c.corrects # None /\ c.corrects \in EventsOf(c.bet)
        BY <1>3, <2>1 DEF Grounds, GroundedApply, new
      <3> QED
        BY <1>2, <1>3, <2>1, <3>1 DEF EventsOf, new
    <2>2. CASE e # c.event
      BY <1>2, <1>3, <2>2 DEF Grounds, CorrectionsAreGrounded, EventsOf
    <2> QED
      BY <2>1, <2>2
  <1> QED
    BY <1>5, <1>6 DEF Grounds

LEMMA GroundsStep ==
    ASSUME TypeOK, Grounds, [SettlementNext]_vars
    PROVE  Grounds'
  <1> DEFINE Quiet == /\ UNCHANGED event
                      /\ \A u \in Workers : pc'[u] = "apply" => pc[u] = "apply" /\ cmd'[u] = cmd[u]
  <1>1. ASSUME NEW w \in Workers, NEW v \in BOOLEAN, pc[w] # "idle", Finish(w, v), UNCHANGED event
        PROVE  Quiet
    BY <1>1, FinishTypes
  <1>2. ASSUME NEW w \in Workers, ReadRecord(w) PROVE Quiet
    <2>1. pc[w] = "readRecord" /\ UNCHANGED store
      BY <1>2 DEF ReadRecord
    <2>2. CASE Finish(w, TRUE)
      BY <1>1, <2>1, <2>2 DEF store
    <2>3. CASE ~Finish(w, TRUE)
      BY <1>2, <2>1, <2>3 DEF ReadRecord, TypeOK, store
    <2> QED
      BY <2>2, <2>3
  <1>3. ASSUME NEW w \in Workers, ReadEvents(w) PROVE Grounds'
    <2>1. pc[w] = "readEvents" /\ cmd[w] \in Command /\ UNCHANGED store
      BY <1>3 DEF ReadEvents, TypeOK
    <2>2. CASE Finish(w, TRUE)
      <3>1. Quiet
        BY <1>1, <2>1, <2>2 DEF store
      <3> QED
        BY <3>1, QuietGrounds
    <2>3. CASE ~Finish(w, TRUE)
      <3>1. /\ ~Refused(w) /\ cmd' = cmd /\ pc' = [pc EXCEPT ![w] = "apply"]
            /\ UNCHANGED event
        BY <1>3, <2>1, <2>3 DEF ReadEvents, store
      <3>2. GroundedApply'
        BY <2>1, <3>1 DEF GroundedApply, Refused, EventsOf, Grounds, TypeOK
      <3>3. CorrectionsAreGrounded'
        BY <3>1 DEF CorrectionsAreGrounded, EventsOf, Grounds
      <3> QED
        BY <3>2, <3>3 DEF Grounds
    <2> QED
      BY <2>2, <2>3
  <1>4. ASSUME NEW w \in Workers, ApplyBetSettlement(w), ~CommitSettlement(w) PROVE Quiet
    BY <1>1, <1>4 DEF ApplyBetSettlement, ReplaySettlement, RejectSettlement, AbortSettlement, store
  <1>5. ASSUME NEW w \in Workers, FailSettlement(w) PROVE Quiet
    BY <1>1, <1>5 DEF FailSettlement, store
  <1>6. ASSUME \/ \E b \in Bets : CreateBetRecord(b)
               \/ \E r \in Reconcilers, S \in SUBSET Bets : ListPendingBets(r, S)
               \/ \E r \in Reconcilers, b \in Bets : MarkManualReview(r, b) \/ FailManualReview(r, b)
               \/ UNCHANGED vars
        PROVE  Quiet
    BY <1>6 DEF CreateBetRecord, ListPendingBets, MarkManualReview, FailManualReview, vars
  <1>7. ASSUME \/ \E o \in Owners, b \in Bets, e \in OwnerEvents, t \in SettlementTypes,
                     x \in Events \cup {None} : RequestSettlement(o, b, e, t, x)
               \/ \E r \in Reconcilers, b \in Bets, t \in SettlementTypes : SettleAutomatically(r, b, t)
        PROVE  Quiet
    BY <1>7 DEF RequestSettlement, SettleAutomatically, TypeOK, Workers
  <1>8. ASSUME NEW w \in Workers, ApplyBetSettlement(w), CommitSettlement(w) PROVE Grounds'
    BY <1>8, CommitGrounds DEF ApplyBetSettlement
  <1>9. CASE Quiet
    BY <1>9, QuietGrounds
  <1> HIDE DEF Quiet
  <1> QED
    BY <1>2, <1>3, <1>4, <1>5, <1>6, <1>7, <1>8, <1>9 DEF SettlementNext, Settle, ReconcileNext

(* PATCH touches the row of the bet, its notes and nothing else.             *)
LEMMA PatchLeavesMoney ==
    ASSUME MoneyInv,
           \/ \E p \in Patchers, b \in Bets, n \in Notes : ReadForPatch(p, b, n)
           \/ \E p \in Patchers : UpdateBetRecord(p)
    PROVE  TypeOK' /\ PatchTyped' /\ UNCHANGED <<event, ledger, balance>>
  <1>1. ASSUME NEW p \in Patchers, NEW b \in Bets, NEW n \in Notes, ReadForPatch(p, b, n)
        PROVE  TypeOK' /\ PatchTyped' /\ UNCHANGED <<event, ledger, balance>>
    <2>1. UNCHANGED vars
      BY <1>1 DEF ReadForPatch
    <2>2. TypeOK' /\ UNCHANGED <<event, ledger, balance>>
      BY <2>1 DEF MoneyInv, TypeOK, vars
    <2>3. [bet |-> b, row |-> bet[b], note |-> n] \in [bet : Bets, row : BetRow, note : Notes]
      BY DEF MoneyInv, TypeOK
    <2> QED
      BY <1>1, <2>2, <2>3 DEF ReadForPatch, MoneyInv, PatchTyped
  <1>2. ASSUME NEW p \in Patchers, UpdateBetRecord(p)
        PROVE  TypeOK' /\ PatchTyped' /\ UNCHANGED <<event, ledger, balance>>
    <2>1. patch[p].row \in BetRow
      BY <1>2 DEF UpdateBetRecord, MoneyInv, PatchTyped
    <2>2. TypeOK'
      BY <1>2, <2>1 DEF UpdateBetRecord, MoneyInv, TypeOK
    <2>3. PatchTyped'
      BY <1>2 DEF UpdateBetRecord, MoneyInv, PatchTyped
    <2> QED
      BY <1>2, <2>2, <2>3 DEF UpdateBetRecord
  <1> QED
    BY <1>1, <1>2

LEMMA OwnerLedgerStep ==
    ASSUME MoneyInv, [OwnerNext]_ownerVars
    PROVE  LedgerStep /\ TypeOK' /\ PatchTyped'
  <1>1. CASE [SettlementNext]_vars /\ UNCHANGED <<note, patch>>
    BY <1>1, TypeStep, StepIsLedgerStep DEF MoneyInv, PatchTyped
  <1>2. CASE \/ \E p \in Patchers, b \in Bets, n \in Notes : ReadForPatch(p, b, n)
             \/ \E p \in Patchers : UpdateBetRecord(p)
    BY <1>2, PatchLeavesMoney DEF LedgerStep
  <1> QED
    BY <1>1, <1>2 DEF OwnerNext, ownerVars

(* The grounds of corrections under PATCH: requests, log and commands are    *)
(* those of BetSettlement.                                                   *)
LEMMA OwnerGroundsStep ==
    ASSUME MoneyInv, Grounds, [OwnerNext]_ownerVars
    PROVE  Grounds'
  <1>1. CASE [SettlementNext]_vars
    BY <1>1, GroundsStep DEF MoneyInv
  <1>2. CASE \/ \E p \in Patchers, b \in Bets, n \in Notes : ReadForPatch(p, b, n)
             \/ \E p \in Patchers : UpdateBetRecord(p)
    BY <1>2, QuietGrounds DEF ReadForPatch, UpdateBetRecord, vars
  <1> QED
    BY <1>1, <1>2 DEF OwnerNext, ownerVars

LEMMA MoneyStep ==
    MoneyInv /\ [OwnerNext]_ownerVars => MoneyInv'
  <1> SUFFICES ASSUME MoneyInv, [OwnerNext]_ownerVars
               PROVE  MoneyInv'
    OBVIOUS
  <1>1. LedgerStep /\ TypeOK' /\ PatchTyped'
    BY OwnerLedgerStep
  <1>2. EntryIffEvent'
    BY <1>1, EntriesStayWithEvents DEF MoneyInv
  <1>3. IsFiniteSet(Posted)' /\ BalanceMatchesLedger'
    BY <1>1, BalanceStep DEF MoneyInv
  <1> QED
    BY <1>1, <1>2, <1>3 DEF MoneyInv

LEMMA MoneyInit ==
    OwnerInit => MoneyInv
  <1> SUFFICES ASSUME OwnerInit
               PROVE  MoneyInv
    OBVIOUS
  <1>1. TypeOK
    BY BetSettlementAssumption DEF OwnerInit, Init, TypeOK, NoRow, BetRow, Statuses, Reviews
  <1>2. EntryIffEvent /\ IsFiniteSet(Posted) /\ BalanceMatchesLedger
    BY InitSafety, InitSums DEF OwnerInit, SafetyInv, SumInv
  <1> QED
    BY <1>1, <1>2 DEF OwnerInit, MoneyInv, PatchTyped

(* Whatever PATCH /bets writes back over the rows, in between the awaits of  *)
(* any number of settlements, the account's balance stays its opening        *)
(* balance plus its ledger.                                                  *)
THEOREM PatchKeepsBalance == OwnerSpec => []BalanceMatchesLedger
  <1>1. MoneyInv => BalanceMatchesLedger
    BY DEF MoneyInv
  <1> QED
    BY <1>1, MoneyInit, MoneyStep, PTL DEF OwnerSpec

(* A correction still names an event of the same bet that was there before   *)
(* it: settleBet looks among the events, which PATCH cannot write.           *)
THEOREM PatchKeepsGrounds == OwnerSpec => []CorrectionsAreGrounded
  <1>1. OwnerInit => Grounds
    BY InitSafety DEF OwnerInit, SafetyInv, Grounds
  <1>2. Grounds => CorrectionsAreGrounded
    BY DEF Grounds
  <1> QED
    BY <1>1, <1>2, MoneyInit, MoneyStep, OwnerGroundsStep, PTL DEF OwnerSpec

(* PATCH removes no event and no entry and moves no balance.                 *)
THEOREM PatchKeepsLedger == OwnerSpec => AppendOnlyLedger
  <1>1. MoneyInv /\ [OwnerNext]_ownerVars => [LedgerStep]_vars
    BY OwnerLedgerStep
  <1> QED
    BY <1>1, MoneyInit, MoneyStep, PTL DEF OwnerSpec, AppendOnlyLedger

-----------------------------------------------------------------------------
(* One more event moves its amount. *)
LEMMA OneMoreEvent ==
    ASSUME NEW S, NEW x, IsFiniteSet(S), x \notin S, NEW l, NEW k,
           \A e \in S : l[e].delta \in Int /\ k[e] = l[e],
           k[x].delta \in Int
    PROVE  MovedSum(k, S \cup {x}) = MovedSum(l, S) + k[x].delta
  <1>0. PICK E, f, g : /\ E = S \cup {x}
                       /\ f = [e \in S |-> l[e].delta] /\ g = [e \in E |-> k[e].delta]
    OBVIOUS
  <1>1. MovedSum(l, S) = EntrySum(f, S)
    BY <1>0, MovedAreEntries
  <1>2. MovedSum(k, E) = EntrySum(g, E)
    <2>1. IsFiniteSet(E) /\ \A e \in E : k[e].delta \in Int
      BY <1>0, FS_AddElement
    <2> QED
      BY <1>0, <2>1, MovedAreEntries
  <1>3. OneMore(g, E, f, S, x) /\ g[x] = k[x].delta
    BY <1>0 DEF OneMore
  <1>4. EntrySum(g, E) = EntrySum(f, S) + g[x]
    BY <1>3, OneMoreEntry
  <1> QED
    BY <1>0, <1>1, <1>2, <1>3, <1>4

LEMMA NoEvent ==
    ASSUME NEW l
    PROVE  MovedSum(l, {}) = 0
  <1>1. MovedSum(l, {}) = EntrySum([e \in {} |-> l[e].delta], {})
    BY FS_EmptySet, MovedAreEntries
  <1> QED
    BY <1>1, NoEntry

(* A commit on an unchanged row: a first settlement pays what the row then   *)
(* shows, a correction the difference to what it showed.                     *)
LEMMA CommitProjects ==
    ASSUME TypeOK, SafetyInv, SumInv, NEW w \in Workers, pc[w] = "apply", CommitSettlement(w),
           NEW b \in Bets, cmd[w].bet = b, snap[w] = bet[b], Projected(b)
    PROVE  Projected(b)'
  <1> DEFINE c == cmd[w]
             new == [bet |-> c.bet, type |-> c.type, corrects |-> c.corrects,
                     calculated |-> ProfitLoss[c.type], delta |-> delta[w]]
  <1>1. c \in Command /\ c.event \in Events /\ new # None /\ delta[w] \in Int
    BY BetSettlementAssumption DEF TypeOK, Command, Event
  <1>2. /\ event[c.event] = None
        /\ event' = [event EXCEPT ![c.event] = new]
        /\ bet' = [bet EXCEPT ![b] = SettledRow(c)]
        /\ bet[b].status = "pending" \/ c.corrects # None
    BY DEF CommitSettlement
  <1>3. /\ event'[c.event] = new
        /\ \A e \in Events : e # c.event => event'[e] = event[e]
    BY <1>1, <1>2 DEF TypeOK
  <1>4. EventsOf(b)' = EventsOf(b) \cup {c.event} /\ c.event \notin EventsOf(b)
    BY <1>1, <1>2, <1>3 DEF EventsOf
  <1>5. IsFiniteSet(EventsOf(b))
    <2>1. EventsOf(b) \in SUBSET Posted
      BY DEF EventsOf, Posted, SafetyInv, EntryIffEvent
    <2> QED
      BY <2>1, FS_Subset DEF SumInv
  <1>6. \A e \in EventsOf(b) : event[e].delta \in Int /\ event'[e] = event[e]
    BY <1>3, <1>4 DEF EventsOf, TypeOK, Event
  <1>7. MovedSum(event', EventsOf(b) \cup {c.event}) = MovedSum(event, EventsOf(b)) + delta[w]
    <2>1. PICK S, l, k, x : S = EventsOf(b) /\ l = event /\ k = event' /\ x = c.event
      OBVIOUS
    <2>2. k[x].delta = delta[w]
      BY <1>3, <2>1
    <2>3. IsFiniteSet(S) /\ x \notin S /\ k[x].delta \in Int
      BY <1>1, <1>4, <1>5, <2>1, <2>2
    <2>4. \A e \in S : l[e].delta \in Int /\ k[e] = l[e]
      BY <1>6, <2>1
    <2>5. MovedSum(k, S \cup {x}) = MovedSum(l, S) + k[x].delta
      BY <2>3, <2>4, OneMoreEvent
    <2> QED
      BY <2>1, <2>2, <2>5
  <1>8. bet'[b].pl = ProfitLoss[c.type] /\ ProfitLoss[c.type] \in Int /\ bet[b].pl \in Int
    BY <1>1, <1>2, BetSettlementAssumption DEF TypeOK, SettledRow, Command, BetRow
  <1>9. delta[w] = ProfitLoss[c.type] - (IF c.corrects = None THEN 0 ELSE bet[b].pl)
    BY DEF SumInv, LedgerDelta
  <1>10. CASE c.corrects = None
    <2>1. EventsOf(b) = {}
      BY <1>2, <1>10 DEF SafetyInv, SettledIffEvent
    <2>2. MovedSum(event, EventsOf(b)) = 0
      BY <2>1, NoEvent
    <2> QED
      BY <1>4, <1>7, <1>8, <1>9, <1>10, <2>2 DEF Projected
  <1>11. CASE c.corrects # None
    BY <1>4, <1>7, <1>8, <1>9, <1>11 DEF Projected
  <1> QED
    BY <1>10, <1>11

(* A request that commits while the row is as it read it leaves the result of*)
(* the row equal to what all events of the bet have moved, through any chain *)
(* of settlement and corrections.                                            *)
THEOREM ProjectionIsKept == Spec => FreshCommitKeepsProjection
  <1>1. TypeOK /\ SafetyInv /\ SumInv /\ [SettlementNext]_vars =>
          \A w \in Workers, b \in Bets :
            /\ pc[w] = "apply" /\ pc'[w] = "idle"
            /\ cmd[w].bet = b /\ snap[w] = bet[b]
            /\ Projected(b)
            => Projected(b)'
    <2> SUFFICES ASSUME TypeOK, SafetyInv, SumInv, [SettlementNext]_vars,
                        NEW w \in Workers, NEW b \in Bets, pc[w] = "apply", pc'[w] = "idle",
                        cmd[w].bet = b, snap[w] = bet[b], Projected(b)
                 PROVE  Projected(b)'
      OBVIOUS
    <2>1. CASE UNCHANGED <<bet, event>>
      BY <2>1 DEF Projected, EventsOf
    <2>2. ASSUME NEW v \in Workers, ApplyBetSettlement(v), CommitSettlement(v)
          PROVE  v = w
      BY <2>2 DEF CommitSettlement, Finish, TypeOK
    <2>3. ASSUME NEW v \in Workers, Settle(v), ~UNCHANGED <<bet, event>>
          PROVE  ApplyBetSettlement(v) /\ CommitSettlement(v)
      BY <2>3 DEF Settle, ReadRecord, ReadEvents, ApplyBetSettlement, ReplaySettlement,
                  RejectSettlement, AbortSettlement, FailSettlement, store
    <2>4. CASE \E v \in Workers : Settle(v)
      BY <2>1, <2>2, <2>3, <2>4, CommitProjects
    <2>5. CASE \/ \E d \in Bets : CreateBetRecord(d)
               \/ \E r \in Reconcilers : ReconcileNext(r)
      BY <2>5 DEF CreateBetRecord, ReconcileNext, MarkManualReview, FailManualReview,
                     SettleAutomatically, NextQueued, TypeOK
    <2>6. CASE \/ \E o \in Owners, d \in Bets, e \in OwnerEvents, t \in SettlementTypes,
                     x \in Events \cup {None} : RequestSettlement(o, d, e, t, x)
               \/ \E r \in Reconcilers, S \in SUBSET Bets : ListPendingBets(r, S)
               \/ UNCHANGED vars
      BY <2>1, <2>6 DEF RequestSettlement, ListPendingBets, vars
    <2> QED
      BY <2>4, <2>5, <2>6 DEF SettlementNext
  <1> QED
    BY <1>1, SumInvariant, PTL DEF Spec, FreshCommitKeepsProjection
-----------------------------------------------------------------------------
(* The bankroll's own ledger, by the same sums.                              *)
(* Entries that move nothing amount to nothing. *)
LEMMA SumOfZeros ==
    ASSUME NEW S, IsFiniteSet(S), NEW l, \A e \in S : l[e] = 0
    PROVE  EntrySum(l, S) = 0
  <1> DEFINE g == [s \in SUBSET S |-> 0]
  <1>1. Adds(l, S, g)
    BY DEF Adds
  <1>2. g[S] = 0
    OBVIOUS
  <1> HIDE DEF g
  <1> QED
    BY <1>1, <1>2, EntriesAdd

(* Every entry names accounts that exist, so an account that is created later*)
(* starts with a ledger that moves nothing on it.                            *)
BankInv ==
    /\ account \in [Accounts -> Account \cup {Absent}]
    /\ entry \in [Entries -> Entry \cup {Absent}]
    /\ IsFiniteSet(Recorded)
    /\ \A e \in Recorded : /\ entry[e].from \in Present
                           /\ entry[e].to # Absent => entry[e].to \in Present
    /\ BalancesMatchLedger

(* What a step does to the accounts and to their ledger. *)
Opens(a) ==
    /\ account[a] = Absent
    /\ \E n \in Openings : account' = [account EXCEPT ![a] = NewAccount(n)]
    /\ UNCHANGED entry

Archives(a) ==
    /\ account[a] # Absent
    /\ \E flag \in BOOLEAN : account' = [account EXCEPT ![a].archived = flag]
    /\ UNCHANGED entry

Covered(x) == x.kind \in {"withdrawal", "transfer"} => account[x.from].current + AmountOn(x, x.from) >= 0

Posts(e, x) ==
    /\ entry[e] = Absent /\ x \in Entry
    /\ x.from \in Present /\ (x.to # Absent => x.to \in Present)
    /\ Covered(x)
    /\ entry' = [entry EXCEPT ![e] = x]
    /\ account' = [a \in Accounts |->
                     IF account[a] = Absent THEN Absent
                     ELSE [account[a] EXCEPT !.current = @ + AmountOn(x, a)]]

LEMMA BankSteps ==
    ASSUME BankInv, [BankrollNext]_bankrollVars
    PROVE  \/ UNCHANGED <<account, entry>>
           \/ \E a \in Accounts : Opens(a) \/ Archives(a)
           \/ \E e \in Entries : \E x : Posts(e, x)
  <1> USE BankrollAssumption
  <1>1. ASSUME NEW s \in Setups, NEW n \in Openings, SetupCreate(s, n)
        PROVE  UNCHANGED <<account, entry>> \/ Opens(Primary)
    BY <1>1 DEF SetupCreate, Opens
  <1>2. ASSUME NEW s \in Setups,
               \/ SetupList(s) \/ SetupRelist(s) \/ SetupReadConfig(s)
               \/ SetupWriteConfig(s) \/ SetupAgain(s)
        PROVE  UNCHANGED <<account, entry>>
    BY <1>2 DEF SetupList, SetupRelist, SetupReadConfig, SetupWriteConfig,
                SetupAgain
  <1>3. ASSUME NEW c \in Creators, CreatorList(c)
        PROVE  UNCHANGED <<account, entry>>
    BY <1>3 DEF CreatorList
  <1>4. ASSUME NEW c \in Creators, NEW a \in Accounts, NEW n \in Openings, CreatorInsert(c, a, n)
        PROVE  UNCHANGED <<account, entry>> \/ Opens(a)
    BY <1>4 DEF CreatorInsert, Opens
  <1>5. ASSUME NEW a \in Accounts, NEW flag \in BOOLEAN, ArchiveAccount(a, flag)
        PROVE  Archives(a)
    BY <1>5 DEF ArchiveAccount, Present, Archives
  <1>6. ASSUME NEW e \in Entries, NEW x \in Entry, Post(e, x), x.from \in Present,
               x.to # Absent => x.to \in Present, Covered(x)
        PROVE  Posts(e, x)
    BY <1>6 DEF Post, Posts
  <1>7. ASSUME NEW e \in Entries, NEW a \in Accounts, NEW n \in Amounts,
               \/ Deposit(e, a, n) \/ Withdraw(e, a, n)
               \/ Correct(e, a, n) \/ Correct(e, a, -n)
               \/ PostSettlement(e, a, n) \/ PostSettlement(e, a, -n)
        PROVE  \E x : Posts(e, x)
    <2>1. \E kind \in {"deposit", "correction", "withdrawal", "bet_settlement"}, m \in Int :
            /\ Post(e, [kind |-> kind, from |-> a, to |-> Absent, amount |-> m])
            /\ a \in Present
            /\ kind = "withdrawal" => account[a].current + m >= 0
      <3>1. a \in Active => a \in Present
        BY DEF Active
      <3>2. n \in Int /\ -n \in Int
        OBVIOUS
      <3>3. CASE Deposit(e, a, n)
        BY <3>1, <3>2, <3>3 DEF Deposit
      <3>4. CASE Withdraw(e, a, n)
        <4>1. account[a].current + (-n) >= 0
          BY <3>1, <3>2, <3>4 DEF Withdraw, BankInv, Present, Account
        <4> QED
          BY <3>1, <3>2, <3>4, <4>1 DEF Withdraw
      <3>5. CASE Correct(e, a, n) \/ Correct(e, a, -n)
        BY <3>1, <3>2, <3>5 DEF Correct
      <3>6. CASE PostSettlement(e, a, n) \/ PostSettlement(e, a, -n)
        BY <3>2, <3>6 DEF PostSettlement
      <3> QED
        BY <1>7, <3>3, <3>4, <3>5, <3>6
    <2>5. PICK kind \in {"deposit", "correction", "withdrawal", "bet_settlement"}, m \in Int :
            /\ Post(e, [kind |-> kind, from |-> a, to |-> Absent, amount |-> m])
            /\ a \in Present
            /\ kind = "withdrawal" => account[a].current + m >= 0
      BY <2>1
    <2> DEFINE x == [kind |-> kind, from |-> a, to |-> Absent, amount |-> m]
    <2>2. x \in Entry
      BY DEF Entry
    <2>3. AmountOn(x, a) = m
      BY <2>5 DEF AmountOn
    <2>4. Covered(x)
      BY <2>3, <2>5 DEF Covered
    <2> QED
      BY <1>6, <2>2, <2>4, <2>5
  <1>8. ASSUME NEW e \in Entries, NEW a \in Accounts, NEW n \in Amounts, NEW b \in Accounts,
               Transfer(e, a, b, n)
        PROVE  \E x : Posts(e, x)
    <2> DEFINE x == [kind |-> "transfer", from |-> a, to |-> b, amount |-> n]
    <2>1. x \in Entry
      BY DEF Entry
    <2>2. a \in Present /\ b \in Present /\ account[a].current \in Int /\ account[a].current >= n
      BY <1>8 DEF Transfer, Active, BankInv, Present, Account
    <2>3. AmountOn(x, a) = -n
      BY DEF AmountOn
    <2>4. Covered(x)
      <3>1. n \in Int /\ x.from = a
        OBVIOUS
      <3>2. account[a].current + (-n) >= 0
        BY <2>2, <3>1
      <3> QED
        BY <2>3, <3>1, <3>2 DEF Covered
    <2> QED
      BY <1>6, <1>8, <2>1, <2>2, <2>4 DEF Transfer
  <1>9. ASSUME PutConfig \/ UNCHANGED bankrollVars
        PROVE  UNCHANGED <<account, entry>>
    BY <1>9 DEF PutConfig, bankrollVars
  <1> QED
    BY <1>1, <1>2, <1>3, <1>4, <1>5, <1>7, <1>8, <1>9 DEF BankrollNext

(* A new account has no entry; every other keeps the entries it had.         *)
LEMMA BankStep ==
    ASSUME BankInv, [BankrollNext]_bankrollVars
    PROVE  BankInv'
  <1> USE BankrollAssumption
  <1>1. CASE UNCHANGED <<account, entry>>
    BY <1>1 DEF BankInv, Recorded, Present, BalancesMatchLedger
  <1>2. ASSUME NEW a \in Accounts, Opens(a) \/ Archives(a)
        PROVE  BankInv'
    <2>1. UNCHANGED entry /\ Recorded' = Recorded
      BY <1>2 DEF Opens, Archives, Recorded
    <2>2. /\ account' \in [Accounts -> Account \cup {Absent}]
          /\ account'[a] # Absent /\ Present' = Present \cup {a}
          /\ \A b \in Accounts : b # a => account'[b] = account[b]
      <3>1. CASE Opens(a)
        <4>1. PICK r \in Account : account' = [account EXCEPT ![a] = r]
          <5>1. \A n \in Openings : NewAccount(n) \in Account
            BY DEF NewAccount, Account
          <5> QED
            BY <3>1, <5>1 DEF Opens
        <4> QED
          BY <4>1 DEF BankInv, Present
      <3>2. CASE Archives(a)
        BY <3>2 DEF BankInv, Archives, Account, Present
      <3> QED
        BY <1>2, <3>1, <3>2
    <2>3. account'[a].current = account'[a].opening + EntrySum(MovesOn(entry, a, Recorded), Recorded)
      <3>1. CASE Opens(a)
        <4>1. \A e \in Recorded : AmountOn(entry[e], a) = 0
          <5>1. \A e \in Recorded : entry[e].from # a /\ entry[e].to # a
            <6>1. a \notin Present /\ a # Absent
              BY <3>1 DEF Opens, Present
            <6> QED
              BY <6>1 DEF BankInv
          <5> QED
            BY <5>1 DEF AmountOn
        <4>2. \A e \in Recorded : MovesOn(entry, a, Recorded)[e] = 0
          BY <4>1 DEF MovesOn
        <4>3. EntrySum(MovesOn(entry, a, Recorded), Recorded) = 0
          BY <4>2, SumOfZeros DEF BankInv
        <4>4. account'[a].current = account'[a].opening /\ account'[a].opening \in Int
          <5>1. PICK n \in Openings : account' = [account EXCEPT ![a] = NewAccount(n)]
            BY <3>1 DEF Opens
          <5>2. account'[a] = NewAccount(n)
            BY <5>1 DEF BankInv
          <5> QED
            BY <5>2 DEF NewAccount
        <4> QED
          BY <4>3, <4>4
      <3>2. CASE Archives(a)
        <4>1. a \in Present /\ account'[a].current = account[a].current /\ account'[a].opening = account[a].opening
          BY <3>2 DEF BankInv, Archives, Present
        <4> QED
          BY <4>1 DEF BankInv, BalancesMatchLedger
      <3> QED
        BY <1>2, <3>1, <3>2
    <2>4. BalancesMatchLedger'
      BY <2>1, <2>2, <2>3 DEF BankInv, BalancesMatchLedger, Present
    <2>5. \A e \in Recorded' : /\ entry'[e].from \in Present'
                               /\ entry'[e].to # Absent => entry'[e].to \in Present'
      <3>1. \A e \in Recorded : /\ entry[e].from \in Present
                                /\ entry[e].to # Absent => entry[e].to \in Present
        BY DEF BankInv
      <3> QED
        BY <2>1, <2>2, <3>1
    <2> QED
      BY <2>1, <2>2, <2>4, <2>5 DEF BankInv
  <1>3. ASSUME NEW e \in Entries, NEW x, Posts(e, x)
        PROVE  BankInv'
    <2>1. /\ Recorded' = Recorded \cup {e} /\ e \notin Recorded
          /\ entry' \in [Entries -> Entry \cup {Absent}]
          /\ entry'[e] = x /\ \A f \in Recorded : entry'[f] = entry[f]
      BY <1>3 DEF Posts, BankInv, Recorded
    <2>2. IsFiniteSet(Recorded')
      BY <2>1, FS_AddElement DEF BankInv
    <2>3. x.amount \in Int /\ \A a \in Accounts : AmountOn(x, a) \in Int
      BY <1>3 DEF Posts, Entry, AmountOn
    <2>4. /\ account' \in [Accounts -> Account \cup {Absent}]
          /\ Present' = Present
      BY <1>3, <2>3 DEF Posts, BankInv, Account, Present
    <2>5. ASSUME NEW a \in Present
          PROVE  /\ account'[a].current = account[a].current + AmountOn(x, a)
                 /\ account'[a].opening = account[a].opening
      BY <1>3 DEF Posts, Present, BankInv, Account
    <2>6. ASSUME NEW a \in Present
          PROVE  EntrySum(MovesOn(entry', a, Recorded'), Recorded')
                   = EntrySum(MovesOn(entry, a, Recorded), Recorded) + AmountOn(x, a)
      <3>1. PICK S, E, l, k : /\ S = Recorded /\ E = Recorded'
                              /\ l = MovesOn(entry, a, Recorded)
                              /\ k = MovesOn(entry', a, Recorded')
        OBVIOUS
      <3>2. /\ \A f \in S : l[f] \in Int /\ k[f] = l[f]
            /\ k[e] = AmountOn(x, a)
        <4>1. \A f \in Recorded : AmountOn(entry[f], a) \in Int
          BY DEF BankInv, Recorded, Entry, AmountOn
        <4>2. /\ \A f \in S : l[f] = AmountOn(entry[f], a)
              /\ \A f \in E : k[f] = AmountOn(entry'[f], a)
          BY <3>1 DEF MovesOn
        <4> QED
          BY <2>1, <3>1, <4>1, <4>2
      <3>3. OneMore(k, E, l, S, e)
        BY <2>1, <2>3, <3>1, <3>2 DEF OneMore, BankInv, Present
      <3>4. EntrySum(k, E) = EntrySum(l, S) + k[e]
        BY <3>3, OneMoreEntry
      <3> QED
        BY <3>1, <3>2, <3>4
    <2>7. ASSUME NEW a \in Present
          PROVE  EntrySum(MovesOn(entry, a, Recorded), Recorded) \in Int
      <3>1. \A f \in Recorded : MovesOn(entry, a, Recorded)[f] \in Int
        BY DEF BankInv, Recorded, Entry, AmountOn, MovesOn
      <3> QED
        BY <3>1, EntrySumTyped DEF BankInv
    <2>8. BalancesMatchLedger'
      <3> SUFFICES ASSUME NEW a \in Present
                   PROVE  account'[a].current = account'[a].opening
                            + EntrySum(MovesOn(entry', a, Recorded'), Recorded')
        BY <2>4 DEF BalancesMatchLedger
      <3>1. account[a].current = account[a].opening + EntrySum(MovesOn(entry, a, Recorded), Recorded)
        BY DEF BankInv, BalancesMatchLedger
      <3>2. account[a].opening \in Int
        BY DEF BankInv, Present, Account
      <3> QED
        BY <2>3, <2>5, <2>6, <2>7, <3>1, <3>2 DEF Present
    <2>9. \A f \in Recorded' : /\ entry'[f].from \in Present'
                               /\ entry'[f].to # Absent => entry'[f].to \in Present'
      BY <1>3, <2>1, <2>4 DEF Posts, BankInv
    <2>10. account' \in [Accounts -> Account \cup {Absent}] /\ entry' \in [Entries -> Entry \cup {Absent}]
      BY <2>1, <2>4
    <2> QED
      BY <2>2, <2>8, <2>9, <2>10 DEF BankInv
  <1> QED
    BY <1>1, <1>2, <1>3, BankSteps

LEMMA BankInit ==
    ASSUME BankrollInit
    PROVE  BankInv
  <1> USE BankrollAssumption
  <1>1. account \in [Accounts -> Account \cup {Absent}]
    <2>1. \A n \in Openings : NewAccount(n) \in Account
      BY DEF NewAccount, Account
    <2> QED
      BY <2>1 DEF BankrollInit
  <1>2. Recorded = {} /\ entry \in [Entries -> Entry \cup {Absent}]
    BY DEF BankrollInit, Recorded
  <1>3. ASSUME NEW a \in Present
        PROVE  account[a].current = account[a].opening + EntrySum(MovesOn(entry, a, {}), {})
    <2>1. account[a].current = account[a].opening /\ account[a].opening \in Int
      BY DEF BankrollInit, Present, NewAccount
    <2> QED
      BY <2>1, NoEntry
  <1>4. BalancesMatchLedger
    BY <1>2, <1>3 DEF BalancesMatchLedger
  <1> QED
    BY <1>1, <1>2, <1>4, FS_EmptySet DEF BankInv

THEOREM BankInvariant == BankrollSpec => []BankInv
  <1>1. BankrollInit => BankInv
    BY BankInit
  <1>2. BankInv /\ [BankrollNext]_bankrollVars => BankInv'
    BY BankStep
  <1> QED
    BY <1>1, <1>2, PTL DEF BankrollSpec

(* Bankroll: the balance of every account is its opening balance and what    *)
(* its ledger moved, however many accounts, transfers and settlements.       *)
THEOREM BankBalances == BankrollSpec => []BalancesMatchLedger
  <1>1. BankInv => BalancesMatchLedger
    BY DEF BankInv
  <1> QED
    BY <1>1, BankInvariant, PTL

(* Bankroll: no withdrawal and no transfer leaves an account below zero.     *)
THEOREM BankCovered == BankrollSpec => WithdrawalsCovered
  <1>1. BankInv /\ [BankrollNext]_bankrollVars =>
          \A e \in Entries :
            entry[e] = Absent /\ entry'[e] # Absent /\ entry'[e].kind \in {"withdrawal", "transfer"}
              => account'[entry'[e].from].current >= 0
    <2> SUFFICES ASSUME BankInv, [BankrollNext]_bankrollVars, NEW e \in Entries,
                        entry[e] = Absent, entry'[e] # Absent,
                        entry'[e].kind \in {"withdrawal", "transfer"}
                 PROVE  account'[entry'[e].from].current >= 0
      OBVIOUS
    <2>1. PICK f, x : f \in Entries /\ Posts(f, x)
      <3>1. ~\E a \in Accounts : Opens(a) \/ Archives(a)
        BY DEF Opens, Archives
      <3> QED
        BY <3>1, BankSteps
    <2>2. e = f /\ entry'[e] = x
      BY <2>1 DEF Posts, BankInv
    <2>3. x.from \in Accounts /\ account[x.from] # Absent
      BY <2>1 DEF Posts, Present
    <2>4. account'[x.from].current = account[x.from].current + AmountOn(x, x.from)
      BY <2>1, <2>3 DEF Posts, BankInv, Account
    <2> QED
      BY <2>1, <2>2, <2>4 DEF Posts, Covered
  <1> QED
    BY <1>1, BankInvariant, PTL DEF BankrollSpec, WithdrawalsCovered

(* Bankroll: an account that exists is never created again, whichever setup  *)
(* or account request comes first: it keeps its opening balance for good.    *)
THEOREM BankOpenings == BankrollSpec => OpeningIsFinal
  <1>1. BankInv /\ [BankrollNext]_bankrollVars =>
          \A a \in Present : account'[a] # Absent /\ account'[a].opening = account[a].opening
    <2> SUFFICES ASSUME BankInv, [BankrollNext]_bankrollVars, NEW a \in Present
                 PROVE  account'[a] # Absent /\ account'[a].opening = account[a].opening
      OBVIOUS
    <2>1. a \in Accounts /\ account[a] # Absent /\ account[a] \in Account
      BY DEF BankInv, Present
    <2>2. BankInv'
      BY BankStep
    <2>3. ASSUME NEW b \in Accounts, Opens(b) \/ Archives(b)
          PROVE  account'[a] # Absent /\ account'[a].opening = account[a].opening
      BY <2>1, <2>3, BankrollAssumption DEF Opens, Archives, BankInv, Account
    <2>4. ASSUME NEW e \in Entries, NEW x, Posts(e, x)
          PROVE  account'[a] # Absent /\ account'[a].opening = account[a].opening
      <3>1. account'[a] = [account[a] EXCEPT !.current = @ + AmountOn(x, a)]
        BY <2>1, <2>4 DEF Posts
      <3>2. [account[a] EXCEPT !.current = @ + AmountOn(x, a)] \in
              [opening : Int, current : {account[a].current + AmountOn(x, a)}, archived : BOOLEAN]
        BY <2>1 DEF Account
      <3>3. AmountOn(x, a) \in Int
        BY <2>1, <2>4 DEF Posts, Entry, AmountOn
      <3> QED
        BY <2>1, <3>1, <3>2, <3>3, BankrollAssumption DEF Account
    <2> QED
      BY <2>1, <2>3, <2>4, BankSteps
  <1> QED
    BY <1>1, BankInvariant, PTL DEF BankrollSpec, OpeningIsFinal

-----------------------------------------------------------------------------
(* A bet's settlement as the bankroll sees it: an entry of the one account,  *)
(* which is open and not archived.                                           *)
Points == INSTANCE Bankroll WITH
            Accounts <- {Primary}, Legacy <- {Primary},
            Openings <- {OpeningBalance}, Amounts <- {n \in Nat : n > 0}, Entries <- Events,
            Setups <- {}, Creators <- {},
            account <- [a \in {Primary} |->
                          [opening |-> OpeningBalance, current |-> balance, archived |-> FALSE]],
            entry <- [e \in Events |->
                        IF ledger[e] = None THEN Absent
                        ELSE [kind |-> "bet_settlement", from |-> Primary, to |-> Absent,
                              amount |-> ledger[e]]],
            config <- Absent, setup <- [s \in {} |-> Absent], creator <- [c \in {} |-> Absent]

LEMMA OnlyCommitsPost ==
    ASSUME TypeOK, [SettlementNext]_vars
    PROVE  \/ UNCHANGED <<ledger, balance>>
           \/ \E w \in Workers : CommitSettlement(w) /\ cmd[w] \in Command
  <1>1. ASSUME NEW w \in Workers, Settle(w)
        PROVE  UNCHANGED <<ledger, balance>> \/ (CommitSettlement(w) /\ cmd[w] \in Command)
    BY <1>1 DEF Settle, ReadRecord, ReadEvents, ApplyBetSettlement, ReplaySettlement,
                RejectSettlement, AbortSettlement, FailSettlement, store, TypeOK
  <1>2. ASSUME \/ \E b \in Bets : CreateBetRecord(b)
               \/ \E r \in Reconcilers : ReconcileNext(r)
               \/ \E r \in Reconcilers, S \in SUBSET Bets : ListPendingBets(r, S)
               \/ \E o \in Owners, b \in Bets, e \in OwnerEvents, t \in SettlementTypes,
                     x \in Events \cup {None} : RequestSettlement(o, b, e, t, x)
               \/ UNCHANGED vars
        PROVE  UNCHANGED <<ledger, balance>>
    BY <1>2 DEF CreateBetRecord, ReconcileNext, MarkManualReview, FailManualReview, SettleAutomatically,
                NextQueued, ListPendingBets, RequestSettlement, store, vars
  <1> QED
    BY <1>1, <1>2 DEF SettlementNext

(* Settlement keeps to what Bankroll says of its accounts: every commit is   *)
(* one settlement posted there, and nothing else moves the balance.          *)
THEOREM SettlementsArePostings ==
    Spec => Points!BankrollInit /\ [][Points!BankrollNext]_(Points!bankrollVars)
  <1> DEFINE Posting(n) == [kind |-> "bet_settlement", from |-> Primary, to |-> Absent, amount |-> n]
  <1>0. /\ \A n \in Int : Posting(n) # Absent
        /\ \A n \in Int : [opening |-> OpeningBalance, current |-> n, archived |-> FALSE] # Absent
    <2>1. \A n \in Int : Posting(n) \in Entry
      BY BankrollAssumption DEF Entry
    <2>2. \A n \in Int : [opening |-> OpeningBalance, current |-> n, archived |-> FALSE] \in Account
      BY BetSettlementAssumption DEF Account
    <2> QED
      BY <2>1, <2>2, BankrollAssumption
  <1>1. Init => Points!BankrollInit
    BY BetSettlementAssumption DEF Init, Points!BankrollInit, Points!NewAccount, Points!Present
  <1>2. TypeOK /\ SafetyInv /\ [SettlementNext]_vars => [Points!BankrollNext]_(Points!bankrollVars)
    <2> SUFFICES ASSUME TypeOK, SafetyInv, [SettlementNext]_vars
                 PROVE  [Points!BankrollNext]_(Points!bankrollVars)
      OBVIOUS
    <2>1. CASE UNCHANGED <<ledger, balance>>
      BY <2>1 DEF Points!bankrollVars
    <2>2. ASSUME NEW w \in Workers, CommitSettlement(w), cmd[w] \in Command
          PROVE  Points!BankrollNext
      <3>1. PICK e \in Events, d \in Int :
               /\ ledger[e] = None /\ d # 0 /\ balance \in Int
               /\ ledger' = [ledger EXCEPT ![e] = d] /\ balance' = balance + d
        BY <2>2 DEF CommitSettlement, Command, TypeOK, SafetyInv, EntryIffEvent
      <3>2. None \notin Int
        BY BetSettlementAssumption
      <3>3. PICK n \in {m \in Nat : m > 0} : d = n \/ d = -n
        <4>1. CASE d > 0
          BY <3>1, <4>1
        <4>2. CASE d < 0
          <5>1. -d \in Nat /\ -d > 0 /\ d = -(-d)
            BY <3>1, <4>2
          <5> QED
            BY <5>1
        <4> QED
          BY <3>1, <4>1, <4>2
      <3>4. Primary \in Points!Present
        BY <1>0, <3>1 DEF Points!Present
      <3>5. Points!PostSettlement(e, Primary, n) \/ Points!PostSettlement(e, Primary, -n)
        <4>1. CASE d = n
          BY <1>0, <3>1, <3>2, <3>4, <4>1
            DEF Points!PostSettlement, Points!Post, Points!AmountOn, TypeOK
        <4>2. CASE d = -n
          BY <1>0, <3>1, <3>2, <3>4, <4>2
            DEF Points!PostSettlement, Points!Post, Points!AmountOn, TypeOK
        <4> QED
          BY <3>3, <4>1, <4>2
      <3>6. \E x \in Events, a \in {Primary}, m \in {k \in Nat : k > 0} :
               Points!PostSettlement(x, a, m) \/ Points!PostSettlement(x, a, -m)
        BY <3>5
      <3> QED
        BY <3>6 DEF Points!BankrollNext
    <2> QED
      BY <2>1, <2>2, OnlyCommitsPost
  <1> QED
    BY <1>1, <1>2, SafetyInvariant, PTL DEF Spec
=============================================================================
