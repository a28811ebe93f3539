---------------------------- MODULE BetSettlement ----------------------------
(***************************************************************************)
(* Settlement of bets against one bankroll account: the settlement route   *)
(* (manual settlement and correction), the automatic settlement that the   *)
(* terminal reconciler performs, and the Supabase transaction that they    *)
(* share.                                                                  *)
(*                                                                         *)
(* settleBet reads the bet row, then the bet's settlement events, and only *)
(* then opens the transaction: three awaits between which any other request*)
(* may run.  A worker is one such request in flight; each of its awaits is *)
(* one action.                                                             *)
(*                                                                         *)
(* Abstractions: notes, odds, stake and timestamps are left out; what a    *)
(* settlement type pays for the stake is the constant ProfitLoss; bet      *)
(* numbers stand for creation order.                                       *)
(***************************************************************************)
EXTENDS Integers, FiniteSets, LedgerSums

CONSTANTS
    Bets,            \* bet ids, numbered in the order of created_at
    Owners,          \* concurrent requests to the settlement route
    Reconcilers,     \* concurrent runs of the terminal reconciler
    OwnerEvents,     \* settlement event ids the browser draws (random UUIDs)
    AutoEvent,       \* AutoEvent[b] is the id "auto-settlement:<b>"
    SettlementTypes, \* outcomes a settlement may carry
    ProfitLoss,      \* ProfitLoss[t]: points that outcome t pays
    OpeningBalance,  \* opening_balance_points of the account
    MaxBets,         \* how many pending bets one reconciliation examines
    None             \* an absent value

Events  == OwnerEvents \cup {AutoEvent[b] : b \in Bets}
Workers == Owners \cup Reconcilers

VARIABLES
    bet,      \* bet_record: status, settlement type, profit_loss, review status
    event,    \* bet_settlement_event: append-only, keyed by event id
    ledger,   \* settlement entries of bankroll_ledger_entry, keyed by event id
    balance,  \* bankroll_account.current_balance_points
    pc,       \* where each worker stands between two awaits
    cmd,      \* the settlement command a worker executes
    snap,     \* the bet row a worker read
    delta,    \* ledgerDelta a worker computed
    queue,    \* pending bets a reconciler listed and has still to examine
    failed    \* the bets of its batch that a reconciler counted as failed

store == <<bet, event, ledger, balance>>
vars  == <<bet, event, ledger, balance, pc, cmd, snap, delta, queue, failed>>

-----------------------------------------------------------------------------
Statuses == {"absent", "pending", "settled"}
Reviews  == {"none", "manual_required", "auto_settled"}

BetRow ==
    [status : Statuses, type : SettlementTypes \cup {None}, pl : Int, review : Reviews]

Command ==
    [bet : Bets, event : Events, type : SettlementTypes,
     corrects : Events \cup {None}, auto : BOOLEAN]

Event ==
    [bet : Bets, type : SettlementTypes, corrects : Events \cup {None},
     calculated : Int, delta : Int]

ASSUME BetSettlementAssumption ==
    /\ Bets \subseteq Nat
    /\ Owners \cap Reconcilers = {}
    /\ AutoEvent \in [Bets -> Events]
    /\ \A b \in Bets : AutoEvent[b] \notin OwnerEvents
    /\ \A b, c \in Bets : AutoEvent[b] = AutoEvent[c] => b = c
    /\ ProfitLoss \in [SettlementTypes -> Int]
    /\ OpeningBalance \in Int
    /\ MaxBets \in Nat
    /\ None \notin Events /\ None \notin SettlementTypes /\ None \notin Bets
    /\ None \notin Int /\ None \notin Event /\ None \notin Command

NoRow      == [status |-> "absent", type |-> None, pl |-> 0, review |-> "none"]
PendingRow == [status |-> "pending", type |-> None, pl |-> 0, review |-> "none"]

Init ==
    /\ bet     = [b \in Bets |-> NoRow]
    /\ event   = [e \in Events |-> None]
    /\ ledger  = [e \in Events |-> None]
    /\ balance = OpeningBalance
    /\ pc      = [w \in Workers |-> "idle"]
    /\ cmd     = [w \in Workers |-> None]
    /\ snap    = [w \in Workers |-> NoRow]
    /\ delta   = [w \in Workers |-> 0]
    /\ queue   = [r \in Reconcilers |-> {}]
    /\ failed  = [r \in Reconcilers |-> {}]

-----------------------------------------------------------------------------
(* Bet rows appear as pending; a duplicate id is refused by the primary key. *)
CreateBetRecord(b) ==
    /\ bet[b].status = "absent"
    /\ bet' = [bet EXCEPT ![b] = PendingRow]
    /\ UNCHANGED <<event, ledger, balance, pc, cmd, snap, delta, queue, failed>>

(* The events that listBetSettlementEvents(owner, b) returns. *)
EventsOf(b) == {e \in Events : event[e] # None /\ event[e].bet = b}

(* Fault: the error of one bet leaves the loop over the batch.              *)
FinishBatch(w, threw) ==
    /\ pc'     = [pc EXCEPT ![w] = "idle"]
    /\ cmd'    = [cmd EXCEPT ![w] = None]
    /\ snap'   = [snap EXCEPT ![w] = NoRow]
    /\ delta'  = [delta EXCEPT ![w] = 0]
    /\ queue'  = IF w \in Reconcilers
                 THEN [queue EXCEPT ![w] = IF threw THEN {} ELSE @ \ {cmd[w].bet}]
                 ELSE queue
    /\ failed' = IF w \in Reconcilers /\ threw
                 THEN [failed EXCEPT ![w] = @ \cup {cmd[w].bet}] ELSE failed

(* A settlement request is over.  A reconciler goes on with its next bet,    *)
(* also when settleBet threw: the bet is counted as failed and stays as it is.*)
Finish(w, threw) ==
    /\ pc'     = [pc EXCEPT ![w] = "idle"]
    /\ cmd'    = [cmd EXCEPT ![w] = None]
    /\ snap'   = [snap EXCEPT ![w] = NoRow]
    /\ delta'  = [delta EXCEPT ![w] = 0]
    /\ queue'  = IF w \in Reconcilers
                 THEN [queue EXCEPT ![w] = @ \ {cmd[w].bet}] ELSE queue
    /\ failed' = IF w \in Reconcilers /\ threw
                 THEN [failed EXCEPT ![w] = @ \cup {cmd[w].bet}] ELSE failed

(* POST /bets/<b>/settlements: a first settlement, or a correction of an    *)
(* event the browser was shown (c exists by then, perhaps of another bet);  *)
(* the same event id may be sent again (a retry).                           *)
RequestSettlement(o, b, e, t, c) ==
    /\ pc[o] = "idle"
    /\ c # None => event[c] # None
    /\ pc'  = [pc EXCEPT ![o] = "readRecord"]
    /\ cmd' = [cmd EXCEPT ![o] = [bet |-> b, event |-> e, type |-> t,
                                  corrects |-> c, auto |-> FALSE]]
    /\ UNCHANGED <<bet, event, ledger, balance, snap, delta, queue, failed>>

(* settleBet, first await: the bet row.  A bet that does not exist is an     *)
(* error.                                                                   *)
ReadRecord(w) ==
    /\ pc[w] = "readRecord"
    /\ \/ /\ bet[cmd[w].bet].status = "absent"
          /\ Finish(w, TRUE)
       \/ /\ bet[cmd[w].bet].status # "absent"
          /\ snap' = [snap EXCEPT ![w] = bet[cmd[w].bet]]
          /\ pc'   = [pc EXCEPT ![w] = "readEvents"]
          /\ UNCHANGED <<cmd, delta, queue, failed>>
    /\ UNCHANGED store

(* Fault: the corrected event is looked up among all events.                *)
RefusedForeign(w) ==
    /\ snap[w].status # "pending"
    /\ cmd[w].corrects = None
    /\ cmd[w].event \notin EventsOf(cmd[w].bet)

(* What settleBet refuses after it has read the bet's events.               *)
Refused(w) ==
    \/ /\ cmd[w].corrects # None
       /\ cmd[w].corrects \notin EventsOf(cmd[w].bet)
    \/ /\ snap[w].status # "pending"
       /\ cmd[w].corrects = None
       /\ cmd[w].event \notin EventsOf(cmd[w].bet)

(* Fault: a correction pays in full again.                                  *)
LedgerDeltaGross(w) == ProfitLoss[cmd[w].type]

(* ledgerDelta: what the outcome pays, less what the row that was read says *)
(* was paid when the command is a correction.                               *)
LedgerDelta(w) ==
    ProfitLoss[cmd[w].type] - (IF cmd[w].corrects = None THEN 0 ELSE snap[w].pl)

(* settleBet, second await: the bet's settlement events, the checks and the *)
(* delta.                                                                   *)
ReadEvents(w) ==
    /\ pc[w] = "readEvents"
    /\ \/ Refused(w) /\ Finish(w, TRUE)
       \/ /\ ~Refused(w)
          /\ delta' = [delta EXCEPT ![w] = LedgerDelta(w)]
          /\ pc'    = [pc EXCEPT ![w] = "apply"]
          /\ UNCHANGED <<cmd, snap, queue, failed>>
    /\ UNCHANGED store

(* Fault: the result column is left empty.                                  *)
SettledRowEmpty(c) ==
    [status |-> "settled", type |-> c.type, pl |-> None,
     review |-> IF c.auto THEN "auto_settled" ELSE "none"]

(* The row settleBet writes: settled, with the review fields dropped or set *)
(* to auto_settled.                                                         *)
SettledRow(c) ==
    [status |-> "settled", type |-> c.type, pl |-> ProfitLoss[c.type],
     review |-> IF c.auto THEN "auto_settled" ELSE "none"]

(* Fault: a retry is answered after posting the balance again.              *)
ReplayPaysAgain(w) ==
    /\ event[cmd[w].event] # None
    /\ balance' = balance + delta[w]
    /\ Finish(w, FALSE)
    /\ UNCHANGED <<bet, event, ledger>>

(* Fault: the event is upserted, and the ledger follows.                    *)
ReplayOverwrites(w) ==
    /\ event[cmd[w].event] # None
    /\ event'   = [event EXCEPT ![cmd[w].event].type = cmd[w].type,
                               ![cmd[w].event].delta = delta[w]]
    /\ ledger'  = [ledger EXCEPT ![cmd[w].event] = delta[w]]
    /\ balance' = balance - ledger[cmd[w].event] + delta[w]
    /\ Finish(w, FALSE)
    /\ UNCHANGED bet

(* The transaction finds the event id taken: it answers with what is stored *)
(* when bet and type agree and fails otherwise, and writes nothing.         *)
ReplaySettlement(w) ==
    LET c == cmd[w] IN
    /\ event[c.event] # None
    /\ Finish(w, event[c.event].bet # c.bet \/ event[c.event].type # c.type)
    /\ UNCHANGED store

(* The row, locked FOR UPDATE, is no longer pending and this is no           *)
(* correction.                                                              *)
RejectSettlement(w) ==
    LET c == cmd[w] IN
    /\ event[c.event] = None
    /\ bet[c.bet].status # "pending" /\ c.corrects = None
    /\ Finish(w, TRUE)
    /\ UNCHANGED store

(* The insert into bankroll_ledger_entry violates CHECK (amount_points <> 0) *)
(* and the whole transaction is rolled back.                                *)
AbortSettlement(w) ==
    LET c == cmd[w] IN
    /\ event[c.event] = None
    /\ bet[c.bet].status = "pending" \/ c.corrects # None
    /\ delta[w] = 0
    /\ Finish(w, TRUE)
    /\ UNCHANGED store

(* Fault: the locked row's status is not looked at again.                   *)
CommitUnchecked(w) ==
    LET c == cmd[w] IN
    /\ event[c.event] = None
    /\ delta[w] # 0
    /\ event'   = [event EXCEPT ![c.event] =
                     [bet |-> c.bet, type |-> c.type, corrects |-> c.corrects,
                      calculated |-> ProfitLoss[c.type], delta |-> delta[w]]]
    /\ bet'     = [bet EXCEPT ![c.bet] = SettledRow(c)]
    /\ ledger'  = [ledger EXCEPT ![c.event] = delta[w]]
    /\ balance' = balance + delta[w]
    /\ Finish(w, FALSE)

(* Event, row, ledger entry and balance change together.                    *)
CommitSettlement(w) ==
    LET c == cmd[w] IN
    /\ event[c.event] = None
    /\ bet[c.bet].status = "pending" \/ c.corrects # None
    /\ delta[w] # 0
    /\ event'   = [event EXCEPT ![c.event] =
                     [bet |-> c.bet, type |-> c.type, corrects |-> c.corrects,
                      calculated |-> ProfitLoss[c.type], delta |-> delta[w]]]
    /\ bet'     = [bet EXCEPT ![c.bet] = SettledRow(c)]
    /\ ledger'  = [ledger EXCEPT ![c.event] = delta[w]]
    /\ balance' = balance + delta[w]
    /\ Finish(w, FALSE)

(* applyBetSettlement: one transaction. *)
ApplyBetSettlement(w) ==
    /\ pc[w] = "apply"
    /\ \/ ReplaySettlement(w)
       \/ RejectSettlement(w)
       \/ AbortSettlement(w)
       \/ CommitSettlement(w)

(* settleBet throws at any of its awaits: a query fails, or the row lacks the*)
(* account (a bet of the time before the bankroll) or the plan adherence that*)
(* it needs.  Nothing is written.  (An answer that is lost after the commit  *)
(* is CommitSettlement: the store does not tell.)                            *)
FailSettlement(w) ==
    /\ pc[w] # "idle"
    /\ Finish(w, TRUE)
    /\ UNCHANGED store

-----------------------------------------------------------------------------
(* The n oldest bets of S. *)
Oldest(S, n) == {b \in S : Cardinality({c \in S : c < b}) < n}

(* reconcile, first await: the oldest pending bets of the matches in the     *)
(* batch (candidates), at most MaxBets of them.                             *)
ListPendingBets(r, candidates) ==
    /\ pc[r] = "idle" /\ queue[r] = {}
    /\ queue' = [queue EXCEPT ![r] =
                   Oldest({b \in candidates : bet[b].status = "pending"}, MaxBets)]
    /\ failed' = [failed EXCEPT ![r] = {}]
    /\ UNCHANGED <<bet, event, ledger, balance, pc, cmd, snap, delta>>

(* The next listed bet. *)
NextQueued(r, b) ==
    /\ pc[r] = "idle"
    /\ b \in queue[r] /\ \A c \in queue[r] : b <= c

(* The evidence decides the bet: settleBetAutomatically.                     *)
SettleAutomatically(r, b, t) ==
    /\ NextQueued(r, b)
    /\ pc'  = [pc EXCEPT ![r] = "readRecord"]
    /\ cmd' = [cmd EXCEPT ![r] = [bet |-> b, event |-> AutoEvent[b], type |-> t,
                                  corrects |-> None, auto |-> TRUE]]
    /\ UNCHANGED <<bet, event, ledger, balance, snap, delta, queue, failed>>

(* The row with its review fields set, everything else kept.                 *)
ReviewRow(row) ==
    [status |-> row.status, type |-> row.type, pl |-> row.pl, review |-> "manual_required"]

(* Fault: the review is written without the status condition.               *)
MarkReviewUnchecked(r, b) ==
    /\ NextQueued(r, b)
    /\ bet'   = [bet EXCEPT ![b] = ReviewRow(@)]
    /\ queue' = [queue EXCEPT ![r] = @ \ {b}]
    /\ UNCHANGED <<event, ledger, balance, pc, cmd, snap, delta, failed>>

(* Fault: the review rewrites the whole row as it was listed, pending.      *)
MarkReviewWholeRow(r, b) ==
    /\ NextQueued(r, b)
    /\ bet'   = [bet EXCEPT ![b] = ReviewRow(PendingRow)]
    /\ queue' = [queue EXCEPT ![r] = @ \ {b}]
    /\ UNCHANGED <<event, ledger, balance, pc, cmd, snap, delta, failed>>

(* The evidence is missing or contradictory: the row is marked for review    *)
(* unless it has stopped being pending in the meantime.                      *)
MarkManualReview(r, b) ==
    /\ NextQueued(r, b)
    /\ bet'   = IF bet[b].status = "pending"
                  THEN [bet EXCEPT ![b] = ReviewRow(@)] ELSE bet
    /\ queue' = [queue EXCEPT ![r] = @ \ {b}]
    /\ UNCHANGED <<event, ledger, balance, pc, cmd, snap, delta, failed>>

(* The review update throws: the bet is counted as failed and stays pending  *)
(* and unmarked.                                                            *)
FailManualReview(r, b) ==
    /\ NextQueued(r, b)
    /\ queue'  = [queue EXCEPT ![r] = @ \ {b}]
    /\ failed' = [failed EXCEPT ![r] = @ \cup {b}]
    /\ UNCHANGED <<bet, event, ledger, balance, pc, cmd, snap, delta>>

-----------------------------------------------------------------------------
Settle(w) ==
    ReadRecord(w) \/ ReadEvents(w) \/ ApplyBetSettlement(w) \/ FailSettlement(w)

ReconcileNext(r) ==
    \E b \in Bets : \/ MarkManualReview(r, b) \/ FailManualReview(r, b)
                    \/ \E t \in SettlementTypes : SettleAutomatically(r, b, t)

SettlementNext ==
    \/ \E b \in Bets : CreateBetRecord(b)
    \/ \E o \in Owners, b \in Bets, e \in OwnerEvents, t \in SettlementTypes,
          c \in Events \cup {None} : RequestSettlement(o, b, e, t, c)
    \/ \E w \in Workers : Settle(w)
    \/ \E r \in Reconcilers, S \in SUBSET Bets : ListPendingBets(r, S)
    \/ \E r \in Reconcilers : ReconcileNext(r)

(* A request, once received, runs to its end: its awaits are answered or fail.*)
Fairness ==
    /\ \A w \in Workers : WF_vars(Settle(w))
    /\ \A r \in Reconcilers : WF_vars(ReconcileNext(r))

Spec == Init /\ [][SettlementNext]_vars /\ Fairness

-----------------------------------------------------------------------------
(* Every variable keeps its type. *)
TypeOK ==
    /\ bet \in [Bets -> BetRow]
    /\ event \in [Events -> Event \cup {None}]
    /\ ledger \in [Events -> Int \cup {None}]
    /\ balance \in Int
    /\ pc \in [Workers -> {"idle", "readRecord", "readEvents", "apply"}]
    /\ cmd \in [Workers -> Command \cup {None}]
    /\ \A w \in Workers : pc[w] # "idle" => cmd[w] \in Command
    /\ snap \in [Workers -> BetRow]
    /\ delta \in [Workers -> Int]
    /\ queue \in [Reconcilers -> SUBSET Bets]
    /\ failed \in [Reconcilers -> SUBSET Bets]

(* A bet is paid out once: however owner requests, their retries and the     *)
(* reconciler interleave, at most one of a bet's events is a first settlement*)
(* (every other one corrects an earlier event).                              *)
SettledOnce ==
    \A e, f \in Events :
        /\ event[e] # None /\ event[f] # None
        /\ event[e].corrects = None /\ event[f].corrects = None
        /\ event[e].bet = event[f].bet
        => e = f

(* The bet row and the event log never disagree on whether a bet is settled, *)
(* although the row is written from a copy read two awaits earlier.          *)
SettledIffEvent ==
    \A b \in Bets : bet[b].status = "settled" <=> EventsOf(b) # {}

(* The CHECK bet_record_settlement_review_check never trips: a bet is marked *)
(* manual_required only while pending and auto_settled only while settled.   *)
ReviewMatchesStatus ==
    \A b \in Bets :
        /\ bet[b].review = "manual_required" => bet[b].status = "pending"
        /\ bet[b].review = "auto_settled" => bet[b].status = "settled"

(* A correction points at an event of the same bet that was there before it. *)
CorrectionsAreGrounded ==
    \A e \in Events :
        event[e] # None /\ event[e].corrects # None =>
            /\ event[e].corrects # e
            /\ event[e].corrects \in EventsOf(event[e].bet)

(* Settlement events and their ledger entries are append-only, and the       *)
(* balance moves exactly by the entry that is appended.                      *)
LedgerStep ==
    \/ UNCHANGED <<event, ledger, balance>>
    \/ \E e \in Events :
         /\ event[e] = None /\ ledger[e] = None
         /\ event'[e] # None /\ ledger'[e] = event'[e].delta
         /\ balance' = balance + ledger'[e]
         /\ \A f \in Events \ {e} : event'[f] = event[f] /\ ledger'[f] = ledger[f]

AppendOnlyLedger == [][LedgerStep]_vars

(* What the events S of a log amount to. *)
MovedSum(log, S) == MapThenSumSet(LAMBDA e : log[e].delta, S)

Posted == {e \in Events : ledger[e] # None}

(* The account's balance is its opening balance plus its ledger.             *)
BalanceMatchesLedger == balance = OpeningBalance + EntrySum(ledger, Posted)

(* What the events of bet b have moved on the account is the result its row  *)
(* shows.                                                                    *)
Projected(b) == bet[b].pl = MovedSum(event, EventsOf(b))

(* Every bet row shows what its events moved ("realizedBalance: opening      *)
(* balance plus manual ledger entries and settlement/correction P&L").       *)
ProjectionMatchesLedger == \A b \in Bets : Projected(b)

(* A request that commits while the row is still as it read it leaves the    *)
(* row's result equal to what the bet's events moved, through any chain of   *)
(* first settlement, automatic settlement and corrections.                   *)
FreshCommitKeepsProjection ==
    [][\A w \in Workers, b \in Bets :
          /\ pc[w] = "apply" /\ pc'[w] = "idle"
          /\ cmd[w].bet = b /\ snap[w] = bet[b]
          /\ Projected(b)
          => Projected(b)']_vars

(* "One malformed/racing bet must not block ... other settlements": whichever*)
(* bets of a batch fail, every listed bet is settled (by whomever), marked   *)
(* for review, or counted as failed itself.                                  *)
ListedBetResolved ==
    \A r \in Reconcilers, b \in Bets :
        b \in queue[r] ~> \/ bet[b].status = "settled"
                          \/ bet[b].review = "manual_required"
                          \/ b \in failed[r]

(* ADR-0046 lists push and void among the standard settlement outcomes: no   *)
(* settlement that has passed every check is refused by a constraint of the  *)
(* database.                                                                 *)
StandardOutcomesAccepted ==
    \A w \in Workers :
        /\ pc[w] = "apply" /\ event[cmd[w].event] = None
        /\ bet[cmd[w].bet].status = "pending" \/ cmd[w].corrects # None
        => delta[w] # 0
=============================================================================
