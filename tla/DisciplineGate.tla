---------------------------- MODULE DisciplineGate ----------------------------
(***************************************************************************)
(* The discipline gate before a bet is recorded.  POST /bets reads the     *)
(* account, the configuration, the pending bets and the settlement events, *)
(* one await after the other, evaluates the rules on what it read and, when*)
(* one is triggered, demands a challenge that was created for the same     *)
(* payload, rules and rule version, whose cooldown is over and which nobody*)
(* used.  POST /discipline-challenges makes the same evaluation and stores *)
(* the challenge.                                                          *)
(*                                                                         *)
(* Abstractions: a payload is its bet id, stake and risky motivation; the  *)
(* daily and the weekly stop-loss are one rule over one profit-and-loss    *)
(* sum (the calendar that selects the events is left out); a clock tick is *)
(* the cooldown of 15 seconds.                                             *)
(***************************************************************************)
EXTENDS Integers, FiniteSets, FiniteSetsExt

CONSTANTS
    BetIds, Payloads,   \* payloads: records of a bet id, a stake and a risky flag
    Challenges,         \* challenge ids (random UUIDs)
    Requests,           \* concurrent requests to the two routes
    Writers,            \* concurrent PUT /discipline-config requests
    Thresholds,         \* configurations the owner may save: big and stop, or None
    StartBalance,       \* balance of the single active account at the start
    Results,            \* what a settlement may pay
    MaxTime,            \* bound of the clock
    MaxVersion,         \* bound of the configuration version
    None

Rules   == {"big_bet", "stop_loss", "overexposure", "risky_motivation"}
Configs == [version : Nat, big : Nat \cup {None}, stop : Nat \cup {None}]
Entries == [payload : Payloads, rules : SUBSET Rules, version : Nat,
            under : Configs \cup {None}, availableAt : Nat, consumed : BOOLEAN]

(* None is a value of its own: no challenge id, no stored challenge.         *)
ASSUME DisciplineGateAssumption ==
    /\ Payloads \subseteq [bet : BetIds, stake : Nat, risky : BOOLEAN]
    /\ Thresholds \subseteq [big : Nat \cup {None}, stop : Nat \cup {None}]
    /\ StartBalance \in Int /\ Results \subseteq Int
    /\ MaxTime \in Nat /\ MaxVersion \in Nat
    /\ None \notin Challenges /\ None \notin Entries /\ None \notin Configs

VARIABLES
    bets,       \* bet_record: payload, status, rules and acknowledgement
    challenge,  \* discipline_challenge: payload hash, rules, version, times
    config,     \* discipline_config
    balance,    \* current_balance_points of the account
    pl,         \* profit and loss of the period, from the settlement events
    now,        \* the clock
    job,        \* the request each worker executes, with what it has read
    put         \* the configuration each writer is about to save

vars == <<bets, challenge, config, balance, pl, now, job, put>>

-----------------------------------------------------------------------------
Version(c) == IF c = None THEN 0 ELSE c.version

(* evaluateDisciplineAttempt *)
Triggered(payload, c, available, loss) ==
       {r \in {"big_bet"}   : c # None /\ c.big # None /\ payload.stake >= c.big}
  \cup {r \in {"stop_loss"} : c # None /\ c.stop # None /\ loss <= - c.stop}
  \cup {r \in {"overexposure"} : payload.stake > available}
  \cup {r \in {"risky_motivation"} : payload.risky}

PendingOf(records) == {b \in BetIds : records[b] # None /\ records[b].status = "pending"}
Pending == PendingOf(bets)

(* openExposurePoints: the stakes of the pending bets. *)
ExposureOf(records) ==
    MapThenSumSet(LAMBDA b : records[b].payload.stake, PendingOf(records))
Exposure == ExposureOf(bets)

Idle == [at |-> "idle"]

Init ==
    /\ bets      = [b \in BetIds |-> None]
    /\ challenge = [c \in Challenges |-> None]
    /\ config    = None
    /\ balance   = StartBalance
    /\ pl        = 0
    /\ now       = 0
    /\ job       = [q \in Requests |-> Idle]
    /\ put       = [u \in Writers |-> None]

-----------------------------------------------------------------------------
Goto(q, step)  == job' = [job EXCEPT ![q].at = step]
Reject(q)      == job' = [job EXCEPT ![q] = Idle]

(* A request arrives; kind tells the routes apart.  The browser sends the id *)
(* of a challenge it was given, or none.                                     *)
Receive(q, kind, p, c) ==
    /\ job[q] = Idle
    /\ c # None => kind = "bet" /\ challenge[c] # None
    /\ job' = [job EXCEPT ![q] = [at |-> "account", kind |-> kind, payload |-> p,
                                  challenge |-> c, balance |-> 0, config |-> None,
                                  exposure |-> 0, rules |-> {}, time |-> 0]]
    /\ UNCHANGED <<bets, challenge, config, balance, pl, now, put>>

(* resolveSingleActiveBankroll: the balance of the account.  The time that   *)
(* the whole POST /bets goes by is taken right after it.                     *)
ReadAccount(q) ==
    /\ job[q].at = "account"
    /\ job' = [job EXCEPT ![q].balance = balance, ![q].time = now,
                          ![q].at = IF job[q].kind = "bet" THEN "config" ELSE "records"]
    /\ UNCHANGED <<bets, challenge, config, balance, pl, now, put>>

(* getDisciplineConfig *)
ReadConfig(q) ==
    /\ job[q].at = "config"
    /\ job' = [job EXCEPT ![q].config = config,
                          ![q].at = IF job[q].kind = "bet" THEN "records" ELSE "events"]
    /\ UNCHANGED <<bets, challenge, config, balance, pl, now, put>>

(* Fault: the pending bets are left out of the availability.                 *)
ReadNoRecords(q) ==
    /\ job[q].at = "records"
    /\ job' = [job EXCEPT ![q].at = IF job[q].kind = "bet" THEN "events" ELSE "config"]
    /\ UNCHANGED <<bets, challenge, config, balance, pl, now, put>>

(* getSingleBankrollAvailability *)
ReadRecords(q) ==
    /\ job[q].at = "records"
    /\ job' = [job EXCEPT ![q].exposure = Exposure,
                          ![q].at = IF job[q].kind = "bet" THEN "events" ELSE "config"]
    /\ UNCHANGED <<bets, challenge, config, balance, pl, now, put>>

(* The settlement events arrive and the rules are evaluated.  Without a      *)
(* triggered rule a bet is recorded at once and a challenge is not needed.   *)
Evaluate(q) ==
    LET rules == Triggered(job[q].payload, job[q].config,
                           job[q].balance - job[q].exposure, pl)
    IN  /\ job[q].at = "events"
        /\ job' = [job EXCEPT ![q] =
                     IF job[q].kind = "challenge" /\ rules = {} THEN Idle
                     ELSE [@ EXCEPT !.rules = rules,
                                    !.at = IF job[q].kind = "challenge" THEN "store"
                                           ELSE IF rules = {} THEN "create" ELSE "find"]]
        /\ UNCHANGED <<bets, challenge, config, balance, pl, now, put>>

(* createDisciplineChallenge under a fresh id, available after the cooldown; *)
(* under is the configuration whose version it keeps (a history field).      *)
StoreChallenge(q, c) ==
    /\ job[q].at = "store"
    /\ challenge[c] = None
    /\ challenge' = [challenge EXCEPT ![c] =
                       [payload |-> job[q].payload, rules |-> job[q].rules,
                        version |-> Version(job[q].config), under |-> job[q].config,
                        availableAt |-> now + 1, consumed |-> FALSE]]
    /\ Reject(q)
    /\ UNCHANGED <<bets, config, balance, pl, now, put>>

(* Fault: the challenge is not tied to the payload it was created for.       *)
AcceptableForAnyPayload(q) ==
    LET c == challenge[job[q].challenge] IN
    /\ ~c.consumed
    /\ c.version = Version(job[q].config) /\ c.rules = job[q].rules
    /\ job[q].time >= c.availableAt

(* Fault: the cooldown is not waited for.                                    *)
AcceptableAtOnce(q) ==
    LET c == challenge[job[q].challenge] IN
    /\ ~c.consumed
    /\ c.payload = job[q].payload
    /\ c.version = Version(job[q].config) /\ c.rules = job[q].rules

(* What POST /bets demands of the challenge it found. *)
Acceptable(q) ==
    LET c == challenge[job[q].challenge] IN
    /\ ~c.consumed
    /\ c.payload = job[q].payload
    /\ c.version = Version(job[q].config) /\ c.rules = job[q].rules
    /\ job[q].time >= c.availableAt

(* findDisciplineChallenge and the checks on it. *)
FindChallenge(q) ==
    /\ job[q].at = "find"
    /\ IF job[q].challenge # None /\ Acceptable(q) THEN Goto(q, "consume") ELSE Reject(q)
    /\ UNCHANGED <<bets, challenge, config, balance, pl, now, put>>

(* consumeDisciplineChallenge: only an unused challenge is marked.           *)
ConsumeChallenge(q) ==
    /\ job[q].at = "consume"
    /\ IF challenge[job[q].challenge].consumed
         THEN Reject(q) /\ UNCHANGED challenge
         ELSE /\ challenge' = [challenge EXCEPT ![job[q].challenge].consumed = TRUE]
              /\ Goto(q, "create")
    /\ UNCHANGED <<bets, config, balance, pl, now, put>>

(* createBetRecord: the primary key refuses a bet id that is taken, and a    *)
(* consumed challenge is then lost.                                          *)
CreateBet(q) ==
    LET p == job[q].payload IN
    /\ job[q].at = "create"
    /\ bets' = IF bets[p.bet] # None THEN bets
               ELSE [bets EXCEPT ![p.bet] =
                       [payload |-> p, status |-> "pending", rules |-> job[q].rules,
                        under |-> job[q].config, at |-> job[q].time,
                        ack |-> IF job[q].rules = {} THEN None ELSE job[q].challenge]]
    /\ Reject(q)
    /\ UNCHANGED <<challenge, config, balance, pl, now, put>>

-----------------------------------------------------------------------------
(* Fault: a saved configuration keeps its version.                           *)
ReadForPutSameVersion(u, t) ==
    /\ put[u] = None
    /\ put' = [put EXCEPT ![u] = [version |-> 1, big |-> t.big, stop |-> t.stop]]
    /\ UNCHANGED <<bets, challenge, config, balance, pl, now, job>>

(* PUT /discipline-config, first await: the version to be saved is one more  *)
(* than the version that was read.                                           *)
ReadForPut(u, t) ==
    /\ put[u] = None /\ Version(config) < MaxVersion
    /\ put' = [put EXCEPT ![u] = [version |-> Version(config) + 1,
                                  big |-> t.big, stop |-> t.stop]]
    /\ UNCHANGED <<bets, challenge, config, balance, pl, now, job>>

(* PUT /discipline-config, second await: upsertDisciplineConfig.             *)
WriteConfig(u) ==
    /\ put[u] # None
    /\ config' = put[u]
    /\ put'    = [put EXCEPT ![u] = None]
    /\ UNCHANGED <<bets, challenge, balance, pl, now, job>>

(* A pending bet is settled (module BetSettlement).                          *)
SettleBet(b, result) ==
    /\ b \in Pending
    /\ bets'    = [bets EXCEPT ![b].status = "settled"]
    /\ balance' = balance + result
    /\ pl'      = pl + result
    /\ UNCHANGED <<challenge, config, now, job, put>>

Tick ==
    /\ now < MaxTime
    /\ now' = now + 1
    /\ UNCHANGED <<bets, challenge, config, balance, pl, job, put>>

Handle(q) ==
    \/ ReadAccount(q) \/ ReadConfig(q) \/ ReadRecords(q) \/ Evaluate(q)
    \/ FindChallenge(q) \/ ConsumeChallenge(q) \/ CreateBet(q)
    \/ \E c \in Challenges : StoreChallenge(q, c)

Next ==
    \/ \E q \in Requests, p \in Payloads :
          \/ Receive(q, "challenge", p, None)
          \/ \E c \in Challenges \cup {None} : Receive(q, "bet", p, c)
    \/ \E q \in Requests : Handle(q)
    \/ \E u \in Writers : WriteConfig(u) \/ \E t \in Thresholds : ReadForPut(u, t)
    \/ \E b \in BetIds, r \in Results : SettleBet(b, r)
    \/ Tick

Spec == Init /\ [][Next]_vars

(* The same with one owner who records one bet at a time: the requests in    *)
(* flight together, double submissions and retries among them, are for one   *)
(* bet, and a configuration or a settlement is written only between them.    *)
SameBet(p) == \A q \in Requests : job'[q] = Idle \/ job'[q].payload.bet = p.bet

OneBetAtATime ==
    /\ \A q \in Requests : job'[q] # Idle => SameBet(job'[q].payload)
    /\ (\E q \in Requests : job[q] # Idle) => UNCHANGED config /\ Pending \subseteq Pending'

OneBetSpec == Init /\ [][Next /\ OneBetAtATime]_vars

-----------------------------------------------------------------------------
Recorded == {b \in BetIds : bets[b] # None}

(* An acknowledged bet is the very attempt that was challenged: the same     *)
(* payload, the same triggered rules under the same configuration (of which *)
(* the challenge keeps only the version), after the cooldown, whatever       *)
(* requests, configurations and settlements came in between.                 *)
AcknowledgementBinds ==
    \A b \in Recorded : bets[b].rules # {} =>
        /\ bets[b].ack # None
        /\ LET c == challenge[bets[b].ack] IN
             /\ c.consumed
             /\ c.payload = bets[b].payload
             /\ c.rules = bets[b].rules /\ c.under = bets[b].under
             /\ c.availableAt <= bets[b].at

(* The ledger of warnings is complete: a bet that is recorded without an     *)
(* acknowledgement triggers no rule on the store as it is at that moment.    *)
(* ADR-0050: "A candidate stake that exceeds available balance is            *)
(* warning-only and requires the same persistent acknowledgement boundary as *)
(* other discipline warnings."                                               *)
UnacknowledgedBetsAreClean ==
    [][ \A b \in BetIds :
          bets[b] = None /\ bets'[b] # None /\ bets'[b].ack = None
            => Triggered(bets'[b].payload, config, balance - Exposure, pl) = {} ]_vars
=============================================================================
