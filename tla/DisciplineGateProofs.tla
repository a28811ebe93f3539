------------------------- MODULE DisciplineGateProofs -------------------------
(***************************************************************************)
(* Proofs about DisciplineGate for any bets, payloads, challenges and      *)
(* requests: what an acknowledged bet was challenged for.                  *)
(*                                                                         *)
(* A challenge keeps only the version of its configuration.  That two equal*)
(* versions are the same configuration (Unambiguous) needs that one writer *)
(* saves it at a time; what does not depend on it is proved for any number *)
(* of writers.                                                             *)
(***************************************************************************)
EXTENDS DisciplineGate, TLAPS

Places == {"account", "config", "records", "events", "store", "find", "consume", "create"}
Bets   == [payload : Payloads, status : {"pending", "settled"}, rules : SUBSET Rules,
           under : Configs \cup {None}, at : Nat, ack : Challenges \cup {None}]

(* A request under way.  Its balance and exposure may be anything.           *)
Work(j) ==
    /\ j = [at |-> j.at, kind |-> j.kind, payload |-> j.payload, challenge |-> j.challenge,
            balance |-> j.balance, config |-> j.config, exposure |-> j.exposure,
            rules |-> j.rules, time |-> j.time]
    /\ j.at \in Places /\ j.payload \in Payloads /\ j.challenge \in Challenges \cup {None}
    /\ j.config \in Configs \cup {None} /\ j.rules \in SUBSET Rules /\ j.time \in Nat

Typed ==
    /\ bets \in [BetIds -> Bets \cup {None}]
    /\ challenge \in [Challenges -> Entries \cup {None}]
    /\ config \in Configs \cup {None} /\ now \in Nat
    /\ put \in [Writers -> Configs \cup {None}]
    /\ job = [q \in Requests |-> job[q]]
    /\ \A q \in Requests : job[q] = Idle \/ Work(job[q])

(* The challenge that POST /bets accepted for a request. *)
Checked(j) ==
    LET c == challenge[j.challenge]
    IN  /\ j.challenge # None
        /\ c.payload = j.payload /\ c.rules = j.rules /\ c.version = Version(j.config)
        /\ c.availableAt <= j.time

Founded(j) ==
    /\ j.challenge # None => challenge[j.challenge] # None
    /\ j.at = "consume" => Checked(j)
    /\ j.at = "create" /\ j.rules # {} => Checked(j) /\ challenge[j.challenge].consumed

Versioned == \A c \in Challenges : challenge[c] # None => challenge[c].version = Version(challenge[c].under)

(* What holds of an acknowledged bet however many writers there are: the same*)
(* payload and rules, the same version of the configuration, in good time.   *)
Answered(x) ==
    LET c == challenge[x.ack]
    IN  x.rules # {} =>
            /\ x.ack # None /\ c # None /\ c.consumed
            /\ c.payload = x.payload /\ c.rules = x.rules /\ c.version = Version(x.under)
            /\ c.availableAt <= x.at

AttemptBinds == \A b \in Recorded : Answered(bets[b])

Inv == /\ Typed /\ Versioned /\ AttemptBinds
       /\ \A q \in Requests : job[q] # Idle => Founded(job[q])

-----------------------------------------------------------------------------
(* The configurations in use, and the one that is about to be saved. *)
Held == {None, config} \cup {job[q].config : q \in {r \in Requests : job[r] # Idle}}
        \cup {challenge[c].under : c \in {d \in Challenges : challenge[d] # None}}
        \cup {bets[b].under : b \in Recorded}

Unambiguous ==
    /\ \A x \in Held : Version(x) <= Version(config)
    /\ \A x, y \in Held : Version(x) = Version(y) => x = y
    /\ \A u \in Writers : put[u] # None => Version(put[u]) = Version(config) + 1

OneWriter == \A u, v \in Writers : u = v

-----------------------------------------------------------------------------
(* What an owner who records one bet at a time can rely on: until its bet is *)
(* recorded, what a request has read is what the store still says.           *)
SameBetAtWork ==
    \A q, r \in Requests :
        job[q] # Idle /\ job[r] # Idle => job[q].payload.bet = job[r].payload.bet

Current(j) ==
    bets[j.payload.bet] = None /\ j.kind = "bet" =>
        /\ j.at \in {"config", "records", "events"} => j.balance = balance
        /\ j.at \in {"records", "events"} => j.config = config
        /\ j.at = "events" => j.exposure = Exposure
        /\ j.at = "create" /\ j.rules = {}
             => Triggered(j.payload, config, balance - Exposure, pl) = {}

Sound(j) ==
    /\ j.kind \in {"bet", "challenge"}
    /\ j.at \in {"find", "consume", "create"} => j.kind = "bet"
    /\ j.at \in {"find", "consume"} => j.rules # {}
    /\ Current(j)

Steady ==
    /\ SameBetAtWork
    /\ \A q \in Requests : job[q] # Idle => Sound(job[q])

-----------------------------------------------------------------------------
(* A stored challenge keeps what it was created for, and stays consumed. *)
Grows ==
    \A c \in Challenges : challenge[c] # None =>
        /\ challenge'[c] # None
        /\ challenge'[c].payload = challenge[c].payload /\ challenge'[c].rules = challenge[c].rules
        /\ challenge'[c].version = challenge[c].version
        /\ challenge'[c].availableAt = challenge[c].availableAt
        /\ challenge[c].consumed => challenge'[c].consumed

LEMMA Fields ==
    ASSUME Inv
    PROVE  /\ \A q \in Requests : job[q] = Idle \/ (Work(job[q]) /\ Founded(job[q]))
           /\ \A c \in Challenges : challenge[c] \in Entries \cup {None}
           /\ \A b \in BetIds : bets[b] \in Bets \cup {None}
           /\ config \in Configs \cup {None} /\ now \in Nat
  BY DEF Inv, Typed

LEMMA VersionIsNat ==
    ASSUME NEW c \in Configs \cup {None}
    PROVE  Version(c) \in Nat
  BY DEF Version, Configs

(* What holds of a request or a bet goes on to hold while challenges grow. *)
LEMMA StillFounded ==
    ASSUME NEW j, Work(j), Founded(j), Grows
    PROVE  Founded(j)'
  BY DEF Work, Founded, Checked, Grows

LEMMA StillAnswered ==
    ASSUME NEW x \in Bets, Answered(x), Grows
    PROVE  Answered(x)'
  BY DEF Bets, Answered, Grows

(* It is enough that what a step writes is in order. *)
LEMMA Written ==
    ASSUME Inv, Typed', Versioned', Grows,
           \A b \in BetIds : bets'[b] = bets[b] \/ Answered(bets[b])',
           \A q \in Requests : job'[q] = job[q] \/ job'[q] = Idle \/ Founded(job[q])'
    PROVE  Inv'
  <1>1. ASSUME NEW b \in Recorded'
        PROVE  Answered(bets[b])'
    <2>1. b \in BetIds /\ bets'[b] # None
      BY DEF Recorded
    <2>2. CASE bets'[b] = bets[b]
      <3>1. b \in Recorded /\ bets[b] \in Bets /\ Answered(bets[b])
        BY <2>1, <2>2, Fields DEF Recorded, Inv, AttemptBinds
      <3>2. PICK y \in Bets : y = bets[b] /\ Answered(y)
        BY <3>1
      <3>3. Answered(y)'
        BY <3>2, StillAnswered
      <3> QED
        BY <3>2, <3>3, <2>2 DEF Answered
    <2> QED
      BY <2>1, <2>2
  <1>2. ASSUME NEW q \in Requests, job'[q] # Idle
        PROVE  Founded(job[q])'
    <2>1. CASE job'[q] = job[q]
      <3>1. PICK j : j = job[q] /\ Work(j) /\ Founded(j)
        BY <1>2, <2>1, Fields
      <3>2. Founded(j)'
        BY <3>1, StillFounded
      <3> QED
        BY <3>1, <3>2, <2>1 DEF Founded, Checked
    <2> QED
      BY <1>2, <2>1
  <1> QED
    BY <1>1, <1>2 DEF Inv, AttemptBinds

-----------------------------------------------------------------------------
(* Steps of a request that leave the store alone. *)
LEMMA RequestMoves ==
    ASSUME Inv, NEW q \in Requests, NEW work, work = Idle \/ (Work(work) /\ Founded(work)),
           job' = [job EXCEPT ![q] = work],
           UNCHANGED <<bets, challenge, config, now, put>>
    PROVE  Inv'
  <1>1. /\ job' = [r \in Requests |-> job'[r]] /\ job'[q] = work
        /\ \A r \in Requests \ {q} : job'[r] = job[r]
    BY DEF Inv, Typed
  <1>2. Typed'
    BY <1>1 DEF Inv, Typed, Work
  <1>3. Versioned' /\ Grows
    BY DEF Inv, Versioned, Grows
  <1>4. \A r \in Requests : job'[r] = job[r] \/ job'[r] = Idle \/ Founded(job[r])'
    BY <1>1 DEF Founded, Checked
  <1> QED
    BY <1>2, <1>3, <1>4, Written

LEMMA ReceiveStep ==
    ASSUME Inv, NEW q \in Requests, NEW kind, NEW p \in Payloads,
           NEW c \in Challenges \cup {None}, Receive(q, kind, p, c)
    PROVE  Inv'
  <1> DEFINE work == [at |-> "account", kind |-> kind, payload |-> p, challenge |-> c,
                      balance |-> 0, config |-> None, exposure |-> 0, rules |-> {}, time |-> 0]
  <1>1. Work(work) /\ Founded(work)
    BY DEF Receive, Work, Founded, Places
  <1> QED
    BY <1>1, RequestMoves DEF Receive

(* Before its challenge is found a request promises nothing but its fields.  *)
LEMMA ReadStep ==
    ASSUME Inv, NEW q \in Requests, ReadAccount(q) \/ ReadConfig(q) \/ ReadRecords(q)
    PROVE  Inv'
  <1> DEFINE j == job[q]
  <1>1. Work(j) /\ Founded(j) /\ config \in Configs \cup {None} /\ now \in Nat
    BY Fields DEF ReadAccount, ReadConfig, ReadRecords, Idle
  <1>2. PICK work : /\ job' = [job EXCEPT ![q] = work]
                    /\ \/ work = [j EXCEPT !.balance = balance, !.time = now,
                                  !.at = IF j.kind = "bet" THEN "config" ELSE "records"]
                       \/ work = [j EXCEPT !.config = config,
                                  !.at = IF j.kind = "bet" THEN "records" ELSE "events"]
                       \/ work = [j EXCEPT !.exposure = Exposure,
                                  !.at = IF j.kind = "bet" THEN "events" ELSE "config"]
    BY DEF ReadAccount, ReadConfig, ReadRecords, Inv, Typed
  <1>3. /\ Work(work) /\ work.challenge = j.challenge
        /\ work.at \in {"config", "records", "events"}
    BY <1>1, <1>2 DEF Work, Places
  <1>4. Founded(work)
    BY <1>1, <1>3 DEF Founded
  <1> QED
    BY <1>2, <1>3, <1>4, RequestMoves DEF ReadAccount, ReadConfig, ReadRecords

LEMMA RulesTriggered ==
    ASSUME NEW p, NEW c, NEW available, NEW loss
    PROVE  Triggered(p, c, available, loss) \in SUBSET Rules
  BY DEF Triggered, Rules

LEMMA EvaluateStep ==
    ASSUME Inv, NEW q \in Requests, Evaluate(q)
    PROVE  Inv'
  <1> DEFINE j == job[q]
  <1>1. Work(j) /\ Founded(j)
    BY Fields DEF Evaluate, Idle
  <1>2. PICK rules : /\ rules = Triggered(j.payload, j.config, j.balance - j.exposure, pl)
                     /\ rules \in SUBSET Rules
    BY RulesTriggered
  <1>3. PICK place, work :
           /\ job' = [job EXCEPT ![q] = work]
           /\ place \in {"store", "find"} \/ (place = "create" /\ rules = {})
           /\ work = Idle \/ work = [j EXCEPT !.rules = rules, !.at = place]
    <2>1. CASE j.kind = "challenge" /\ rules = {}
      BY <1>2, <2>1 DEF Evaluate
    <2>2. CASE ~(j.kind = "challenge" /\ rules = {})
      <3> DEFINE place == IF j.kind = "challenge" THEN "store"
                          ELSE IF rules = {} THEN "create" ELSE "find"
      <3>1. job' = [job EXCEPT ![q] = [j EXCEPT !.rules = rules, !.at = place]]
        BY <1>2, <2>2 DEF Evaluate
      <3>2. place \in {"store", "find"} \/ (place = "create" /\ rules = {})
        OBVIOUS
      <3> QED
        BY <3>1, <3>2
    <2> QED
      BY <2>1, <2>2
  <1>4. CASE work # Idle
    <2>1. /\ Work(work) /\ work.challenge = j.challenge /\ work.at = place
          /\ work.rules = rules
      BY <1>1, <1>2, <1>3, <1>4 DEF Work, Places
    <2>2. Founded(work)
      BY <1>1, <1>3, <2>1 DEF Founded
    <2> QED
      BY <1>3, <2>1, <2>2, RequestMoves DEF Evaluate
  <1>5. CASE work = Idle
    BY <1>3, <1>5, RequestMoves DEF Evaluate
  <1> QED
    BY <1>4, <1>5

(* A challenge that is acceptable when it is found is the one of the attempt.*)
LEMMA FindStep ==
    ASSUME Inv, NEW q \in Requests, FindChallenge(q)
    PROVE  Inv'
  <1> DEFINE j == job[q]
             work == [j EXCEPT !.at = "consume"]
  <1>1. Work(j) /\ Founded(j)
    BY Fields DEF FindChallenge, Idle
  <1>2. CASE j.challenge # None /\ Acceptable(q)
    <2>1. Checked(j)
      <3>1. challenge[j.challenge] \in Entries /\ j.time \in Nat
        BY <1>1, <1>2, Fields DEF Work, Founded
      <3> QED
        BY <1>2, <3>1 DEF Acceptable, Checked, Entries
    <2>2. /\ Work(work) /\ work.at = "consume" /\ work.challenge = j.challenge
          /\ work.payload = j.payload /\ work.rules = j.rules /\ work.config = j.config
          /\ work.time = j.time
      BY <1>1 DEF Work, Places
    <2>3. Founded(work)
      BY <1>1, <2>1, <2>2 DEF Founded, Checked
    <2>4. job' = [job EXCEPT ![q] = work]
      BY <1>2 DEF FindChallenge, Goto
    <2> QED
      BY <2>2, <2>3, <2>4, RequestMoves DEF FindChallenge
  <1>3. CASE ~(j.challenge # None /\ Acceptable(q))
    BY <1>3, RequestMoves DEF FindChallenge, Reject
  <1> QED
    BY <1>2, <1>3

-----------------------------------------------------------------------------
(* Steps that write the store. *)
LEMMA StoreStep ==
    ASSUME Inv, NEW q \in Requests, NEW c \in Challenges, StoreChallenge(q, c)
    PROVE  Inv'
  <1> DEFINE j == job[q]
             new == [payload |-> j.payload, rules |-> j.rules, version |-> Version(j.config),
                     under |-> j.config, availableAt |-> now + 1, consumed |-> FALSE]
  <1>1. Work(j) /\ now \in Nat
    BY Fields DEF StoreChallenge, Idle
  <1>2. new \in Entries /\ new # None
    <2>1. Version(j.config) \in Nat /\ now + 1 \in Nat
      BY <1>1, VersionIsNat DEF Work
    <2>2. new \in Entries
      BY <1>1, <2>1 DEF Work, Entries
    <2> QED
      BY <2>2, DisciplineGateAssumption
  <1>3. /\ challenge' \in [Challenges -> Entries \cup {None}] /\ challenge'[c] = new
        /\ \A d \in Challenges \ {c} : challenge'[d] = challenge[d]
        /\ challenge[c] = None
    BY <1>2 DEF StoreChallenge, Inv, Typed
  <1>4. /\ job' = [r \in Requests |-> job'[r]]
        /\ \A r \in Requests : job'[r] = job[r] \/ job'[r] = Idle
    BY DEF StoreChallenge, Reject, Inv, Typed
  <1>5. Typed'
    BY <1>3, <1>4 DEF StoreChallenge, Inv, Typed, Work
  <1>6. Versioned' /\ Grows
    BY <1>3 DEF Inv, Versioned, Version, Grows
  <1> QED
    BY <1>4, <1>5, <1>6, Written DEF StoreChallenge

LEMMA ConsumeStep ==
    ASSUME Inv, NEW q \in Requests, ConsumeChallenge(q)
    PROVE  Inv'
  <1> DEFINE j == job[q]
             work == [j EXCEPT !.at = "create"]
  <1>1. /\ Work(j) /\ Checked(j) /\ j.challenge \in Challenges
        /\ challenge[j.challenge] # None
    BY Fields DEF ConsumeChallenge, Idle, Founded, Checked, Work
  <1>2. CASE challenge[j.challenge].consumed
    BY <1>2, RequestMoves DEF ConsumeChallenge, Reject
  <1>3. CASE ~challenge[j.challenge].consumed
    <2>1. /\ Work(work) /\ work.at = "create" /\ work.challenge = j.challenge
          /\ work.payload = j.payload /\ work.rules = j.rules /\ work.config = j.config
          /\ work.time = j.time
      BY <1>1 DEF Work, Places
    <2>2. PICK new : /\ new = [challenge[j.challenge] EXCEPT !.consumed = TRUE]
                     /\ challenge' = [challenge EXCEPT ![j.challenge] = new]
      BY <1>3 DEF ConsumeChallenge
    <2>3. /\ new \in Entries /\ new # None /\ new.consumed
          /\ new.payload = challenge[j.challenge].payload
          /\ new.rules = challenge[j.challenge].rules
          /\ new.version = challenge[j.challenge].version
          /\ new.under = challenge[j.challenge].under
          /\ new.availableAt = challenge[j.challenge].availableAt
      <3>1. challenge[j.challenge] \in Entries
        BY <1>1, Fields
      <3> QED
        BY <2>2, <3>1, DisciplineGateAssumption DEF Entries
    <2>4. /\ challenge' \in [Challenges -> Entries \cup {None}]
          /\ challenge'[j.challenge] = new
          /\ \A d \in Challenges \ {j.challenge} : challenge'[d] = challenge[d]
      BY <1>1, <2>2, <2>3 DEF Inv, Typed
    <2>5. /\ job' = [r \in Requests |-> job'[r]] /\ job'[q] = work
          /\ \A r \in Requests \ {q} : job'[r] = job[r]
      BY <1>3 DEF ConsumeChallenge, Goto, Inv, Typed
    <2>6. Typed'
      BY <2>1, <2>4, <2>5 DEF ConsumeChallenge, Inv, Typed, Work
    <2>7. Versioned' /\ Grows
      <3>1. challenge[j.challenge].version = Version(challenge[j.challenge].under)
        BY <1>1 DEF Inv, Versioned
      <3>2. new.version = Version(new.under)
        BY <2>3, <3>1
      <3>3. Versioned'
        BY <2>4, <3>2 DEF Inv, Versioned, Version
      <3> QED
        BY <2>3, <2>4, <3>3 DEF Grows
    <2>8. Founded(job[q])'
      BY <1>1, <2>1, <2>3, <2>4, <2>5 DEF Founded, Checked, Version
    <2> QED
      BY <2>5, <2>6, <2>7, <2>8, Written DEF ConsumeChallenge
  <1> QED
    BY <1>2, <1>3

LEMMA CreateStep ==
    ASSUME Inv, NEW q \in Requests, CreateBet(q)
    PROVE  Inv'
  <1> DEFINE j == job[q]
             new == [payload |-> j.payload, status |-> "pending", rules |-> j.rules,
                     under |-> j.config, at |-> j.time,
                     ack |-> IF j.rules = {} THEN None ELSE j.challenge]
  <1>1. Work(j) /\ Founded(j) /\ j.at = "create" /\ j.payload.bet \in BetIds
    BY Fields, DisciplineGateAssumption DEF CreateBet, Idle, Work
  <1>2. new \in Bets /\ Answered(new)
    BY <1>1 DEF Bets, Answered, Work, Founded, Checked
  <1>3. /\ bets' \in [BetIds -> Bets \cup {None}]
        /\ \A b \in BetIds : bets'[b] = bets[b] \/ bets'[b] = new
    BY <1>1, <1>2 DEF CreateBet, Inv, Typed
  <1>4. /\ job' = [r \in Requests |-> job'[r]]
        /\ \A r \in Requests : job'[r] = job[r] \/ job'[r] = Idle
    BY DEF CreateBet, Reject, Inv, Typed
  <1>5. Typed'
    BY <1>3, <1>4 DEF CreateBet, Inv, Typed, Work
  <1>6. Versioned' /\ Grows
    BY DEF CreateBet, Inv, Versioned, Grows
  <1>7. \A b \in BetIds : bets'[b] = bets[b] \/ Answered(bets[b])'
    BY <1>2, <1>3 DEF CreateBet, Answered
  <1> QED
    BY <1>4, <1>5, <1>6, <1>7, Written

LEMMA SettleStep ==
    ASSUME Inv, NEW b \in BetIds, NEW r, SettleBet(b, r)
    PROVE  Inv'
  <1>1. bets[b] \in Bets /\ Answered(bets[b])
    BY Fields DEF SettleBet, Pending, PendingOf, Inv, AttemptBinds, Recorded
  <1>2. PICK new : new = [bets[b] EXCEPT !.status = "settled"]
                   /\ bets' = [bets EXCEPT ![b] = new]
    BY DEF SettleBet
  <1>3. /\ new \in Bets
        /\ \A f \in {"payload", "rules", "under", "at", "ack"} : new[f] = bets[b][f]
    BY <1>1, <1>2 DEF Bets
  <1>4. Answered(new)
    BY <1>1, <1>3 DEF Answered
  <1>5. /\ bets' \in [BetIds -> Bets \cup {None}]
        /\ \A d \in BetIds : bets'[d] = bets[d] \/ bets'[d] = new
    BY <1>2, <1>3 DEF Inv, Typed
  <1>6. Typed'
    BY <1>5 DEF SettleBet, Inv, Typed, Work
  <1>7. Versioned' /\ Grows
    BY DEF SettleBet, Inv, Versioned, Grows
  <1>8. \A d \in BetIds : bets'[d] = bets[d] \/ Answered(bets[d])'
    BY <1>4, <1>5 DEF SettleBet, Answered
  <1> QED
    BY <1>6, <1>7, <1>8, Written DEF SettleBet

(* The configuration and the clock: no request, challenge or bet is touched. *)
LEMMA OtherStep ==
    ASSUME Inv,
           \/ Tick
           \/ \E u \in Writers : WriteConfig(u) \/ \E t \in Thresholds : ReadForPut(u, t)
           \/ UNCHANGED vars
    PROVE  Inv'
  <1>1. /\ config' \in Configs \cup {None} /\ now' \in Nat
        /\ put' \in [Writers -> Configs \cup {None}]
    <2>1. CASE Tick \/ UNCHANGED vars
      BY <2>1, DisciplineGateAssumption DEF Tick, vars, Inv, Typed
    <2>2. CASE \E u \in Writers : WriteConfig(u)
      BY <2>2 DEF WriteConfig, Inv, Typed
    <2>3. CASE \E u \in Writers : \E t \in Thresholds : ReadForPut(u, t)
      <3>1. PICK u \in Writers, t \in Thresholds : ReadForPut(u, t)
        BY <2>3
      <3> DEFINE c == [version |-> Version(config) + 1, big |-> t.big, stop |-> t.stop]
      <3>2. c \in Configs
        BY Fields, VersionIsNat, DisciplineGateAssumption DEF Configs
      <3> HIDE DEF c
      <3>3. put' = [put EXCEPT ![u] = c]
        BY <3>1 DEF ReadForPut, c
      <3> QED
        BY <3>1, <3>2, <3>3 DEF ReadForPut, Inv, Typed
    <2> QED
      BY <2>1, <2>2, <2>3
  <1>2. UNCHANGED <<bets, challenge, job>>
    BY DEF Tick, WriteConfig, ReadForPut, vars
  <1>3. Typed' /\ Versioned' /\ Grows
    BY <1>1, <1>2 DEF Inv, Typed, Work, Versioned, Grows
  <1> QED
    BY <1>2, <1>3, Written

-----------------------------------------------------------------------------
LEMMA InitInv == ASSUME Init PROVE Inv
  BY DEF Init, Inv, Typed, Versioned, AttemptBinds, Recorded

LEMMA NextInv == ASSUME Inv, [Next]_vars PROVE Inv'
  <1>1. CASE \E q \in Requests, p \in Payloads :
               \/ Receive(q, "challenge", p, None)
               \/ \E c \in Challenges \cup {None} : Receive(q, "bet", p, c)
    BY <1>1, ReceiveStep
  <1>2. CASE \E q \in Requests : Handle(q)
    <2>1. PICK q \in Requests : Handle(q)
      BY <1>2
    <2> QED
      BY <2>1, ReadStep, EvaluateStep, FindStep, ConsumeStep, CreateStep, StoreStep DEF Handle
  <1>3. CASE \E b \in BetIds, r \in Results : SettleBet(b, r)
    BY <1>3, SettleStep
  <1> QED
    BY <1>1, <1>2, <1>3, OtherStep DEF Next

(* An acknowledged bet, whatever requests, challenges and configurations come*)
(* together, is of a challenge for the same payload and the same triggered   *)
(* rules at the same rule version, which is used up and whose cooldown was   *)
(* over at the time of the attempt.                                          *)
THEOREM AttemptIsChallenged == Spec => []AttemptBinds
  <1>1. Inv => AttemptBinds
    BY DEF Inv
  <1> QED
    BY InitInv, NextInv, <1>1, PTL DEF Spec

-----------------------------------------------------------------------------
(* Where a configuration in use comes from, in any step. *)
LEMMA OfRequest ==
    ASSUME Inv, [Next]_vars, NEW q \in Requests, job'[q] # Idle
    PROVE  job'[q].config \in {None, config} \/ (job[q] # Idle /\ job'[q].config = job[q].config)
  <1>1. CASE job'[q] = job[q]
    BY <1>1
  <1>2. CASE \E p \in Payloads :
               \/ Receive(q, "challenge", p, None)
               \/ \E c \in Challenges \cup {None} : Receive(q, "bet", p, c)
    BY <1>2 DEF Receive, Inv, Typed
  <1>3. CASE Handle(q)
    <2>1. CASE \/ Evaluate(q) \/ FindChallenge(q) \/ ConsumeChallenge(q) \/ CreateBet(q)
               \/ \E c \in Challenges : StoreChallenge(q, c)
      <3>1. Work(job[q])
        BY <2>1, Fields DEF Evaluate, FindChallenge, ConsumeChallenge, CreateBet,
           StoreChallenge, Idle
      <3>2. CASE Evaluate(q)
        BY <3>1, <3>2 DEF Evaluate, Inv, Typed, Work, Idle
      <3>3. CASE FindChallenge(q)
        BY <3>1, <3>3 DEF FindChallenge, Goto, Reject, Inv, Typed, Work, Idle
      <3>4. CASE ConsumeChallenge(q)
        BY <3>1, <3>4 DEF ConsumeChallenge, Goto, Reject, Inv, Typed, Work, Idle
      <3>5. CASE CreateBet(q) \/ \E c \in Challenges : StoreChallenge(q, c)
        BY <3>5 DEF CreateBet, StoreChallenge, Reject, Inv, Typed
      <3> QED
        BY <2>1, <3>2, <3>3, <3>4, <3>5
    <2>2. CASE ReadAccount(q) \/ ReadConfig(q) \/ ReadRecords(q)
      <3>1. Work(job[q])
        BY <2>2, Fields DEF ReadAccount, ReadConfig, ReadRecords, Idle
      <3> QED
        BY <2>2, <3>1 DEF ReadAccount, ReadConfig, ReadRecords, Inv, Typed, Work, Idle
    <2> QED
      BY <1>3, <2>1, <2>2 DEF Handle
  <1>4. \/ job'[q] = job[q] \/ Handle(q)
        \/ \E p \in Payloads : \/ Receive(q, "challenge", p, None)
                               \/ \E c \in Challenges \cup {None} : Receive(q, "bet", p, c)
    <2>1. CASE \E r \in Requests, p \in Payloads :
                 \/ Receive(r, "challenge", p, None)
                 \/ \E c \in Challenges \cup {None} : Receive(r, "bet", p, c)
      BY <2>1 DEF Receive, Inv, Typed
    <2>2. CASE \E r \in Requests : Handle(r)
      <3>1. PICK r \in Requests : Handle(r)
        BY <2>2
      <3>2. \E work : job' = [job EXCEPT ![r] = work]
        <4>1. CASE ReadAccount(r) \/ ReadConfig(r) \/ ReadRecords(r) \/ Evaluate(r)
          BY <4>1 DEF ReadAccount, ReadConfig, ReadRecords, Evaluate, Inv, Typed
        <4>2. CASE \/ FindChallenge(r) \/ CreateBet(r)
                   \/ \E c \in Challenges : StoreChallenge(r, c)
          BY <4>2 DEF FindChallenge, CreateBet, StoreChallenge, Goto, Reject, Inv, Typed
        <4>3. CASE ConsumeChallenge(r)
          BY <4>3 DEF ConsumeChallenge, Goto, Reject, Inv, Typed
        <4> QED
          BY <3>1, <4>1, <4>2, <4>3 DEF Handle
      <3> QED
        BY <3>1, <3>2 DEF Inv, Typed
    <2>3. CASE ~(\E r \in Requests : Handle(r)) /\ ~(\E r \in Requests, p \in Payloads :
                 \/ Receive(r, "challenge", p, None)
                 \/ \E c \in Challenges \cup {None} : Receive(r, "bet", p, c))
      BY <2>3 DEF Next, WriteConfig, ReadForPut, SettleBet, Tick, vars
    <2> QED
      BY <2>1, <2>2, <2>3
  <1> QED
    BY <1>1, <1>2, <1>3, <1>4

LEMMA OfChallenge ==
    ASSUME Inv, [Next]_vars, NEW c \in Challenges, challenge'[c] # None
    PROVE  \/ challenge[c] # None /\ challenge'[c].under = challenge[c].under
           \/ \E q \in Requests : job[q] # Idle /\ challenge'[c].under = job[q].config
  <1>1. CASE \E q \in Requests, d \in Challenges : StoreChallenge(q, d)
    BY <1>1 DEF StoreChallenge, Inv, Typed, Idle
  <1>2. CASE \E q \in Requests : ConsumeChallenge(q)
    <2>1. PICK q \in Requests : ConsumeChallenge(q)
      BY <1>2
    <2>2. job[q].challenge \in Challenges /\ challenge[job[q].challenge] # None
      <3>1. job[q].at = "consume"
        BY <2>1 DEF ConsumeChallenge
      <3>2. Work(job[q]) /\ Founded(job[q])
        BY <3>1, Fields DEF Idle
      <3> QED
        BY <3>1, <3>2 DEF Founded, Checked, Work
    <2>3. challenge[job[q].challenge] \in Entries
      BY <2>2, Fields
    <2>4. PICK new : /\ new.under = challenge[job[q].challenge].under
                     /\ \/ challenge' = challenge
                        \/ challenge' = [challenge EXCEPT ![job[q].challenge] = new]
      BY <2>1, <2>3 DEF ConsumeChallenge, Entries
    <2> QED
      BY <2>2, <2>4 DEF Inv, Typed
  <1>3. CASE /\ ~ \E q \in Requests, d \in Challenges : StoreChallenge(q, d)
             /\ ~ \E q \in Requests : ConsumeChallenge(q)
    BY <1>3 DEF Next, Handle, Receive, ReadAccount, ReadConfig, ReadRecords, Evaluate,
       FindChallenge, CreateBet, WriteConfig, ReadForPut, SettleBet, Tick, vars
  <1> QED
    BY <1>1, <1>2, <1>3

LEMMA OfBet ==
    ASSUME Inv, [Next]_vars, NEW b \in BetIds, bets'[b] # None
    PROVE  \/ bets[b] # None /\ bets'[b].under = bets[b].under
           \/ \E q \in Requests : job[q] # Idle /\ bets'[b].under = job[q].config
  <1>1. CASE \E q \in Requests : CreateBet(q)
    BY <1>1 DEF CreateBet, Inv, Typed, Idle
  <1>2. CASE \E d \in BetIds, r \in Results : SettleBet(d, r)
    <2>1. PICK d \in BetIds, r \in Results : SettleBet(d, r)
      BY <1>2
    <2>2. bets[d] \in Bets
      BY <2>1, Fields DEF SettleBet, Pending, PendingOf
    <2> QED
      BY <2>1, <2>2 DEF SettleBet, Pending, PendingOf, Inv, Typed, Bets
  <1>3. CASE /\ ~ \E q \in Requests : CreateBet(q)
             /\ ~ \E d \in BetIds, r \in Results : SettleBet(d, r)
    BY <1>3 DEF Next, Handle, Receive, ReadAccount, ReadConfig, ReadRecords, Evaluate,
       FindChallenge, ConsumeChallenge, StoreChallenge, WriteConfig, ReadForPut, Tick, vars
  <1> QED
    BY <1>1, <1>2, <1>3

(* No step brings another configuration into use than the one it saves. *)
LEMMA HeldByStep ==
    ASSUME Inv, [Next]_vars
    PROVE  Held' \subseteq Held \cup {config'}
  <1>1. \A q \in Requests : job'[q] # Idle => job'[q].config \in Held
    BY OfRequest DEF Held
  <1>2. \A c \in Challenges : challenge'[c] # None => challenge'[c].under \in Held
    BY OfChallenge DEF Held
  <1>3. \A b \in BetIds : bets'[b] # None => bets'[b].under \in Held
    BY OfBet DEF Held, Recorded
  <1> QED
    BY <1>1, <1>2, <1>3 DEF Held, Recorded, Idle

(* With one writer the configuration that is saved has a version of its own. *)
LEMMA NextUnambiguous ==
    ASSUME OneWriter, Inv, Unambiguous, [Next]_vars
    PROVE  Unambiguous'
  <1>1. Held \subseteq Configs \cup {None}
    BY DEF Held, Recorded, Inv, Typed, Work, Entries, Bets
  <1>2. Held' \subseteq Held \cup {config'} /\ config \in Held
    BY HeldByStep DEF Held
  <1>3. \A x \in Held : Version(x) \in Nat
    BY <1>1, VersionIsNat
  <1>4. CASE \E u \in Writers : WriteConfig(u)
    <2>1. PICK u \in Writers : WriteConfig(u)
      BY <1>4
    <2>2. Version(config') = Version(config) + 1
      BY <2>1 DEF WriteConfig, Unambiguous
    <2>3. \A v \in Writers : put'[v] = None
      BY <2>1 DEF WriteConfig, OneWriter, Inv, Typed
    <2>4. /\ \A x \in Held' : Version(x) <= Version(config')
          /\ \A x, y \in Held' : Version(x) = Version(y) => x = y
      <3>1. \A x \in Held : Version(x) < Version(config')
        BY <1>2, <1>3, <2>2 DEF Unambiguous
      <3> QED
        BY <1>2, <1>3, <2>2, <3>1 DEF Unambiguous
    <2> QED
      BY <2>3, <2>4 DEF Unambiguous, Version
  <1>5. CASE ~ \E u \in Writers : WriteConfig(u)
    <2>1. config' = config
      BY <1>5 DEF Next, Handle, Receive, ReadAccount, ReadConfig, ReadRecords, Evaluate,
         FindChallenge, ConsumeChallenge, StoreChallenge, CreateBet, ReadForPut, SettleBet,
         Tick, vars
    <2>2. Held' \subseteq Held
      BY <1>2, <2>1
    <2>3. ASSUME NEW u \in Writers, put'[u] # None
          PROVE  Version(put'[u]) = Version(config) + 1
      <3>1. CASE \E v \in Writers, t \in Thresholds : ReadForPut(v, t)
        <4>1. PICK v \in Writers, t \in Thresholds : ReadForPut(v, t)
          BY <3>1
        <4>2. v = u
          BY DEF OneWriter
        <4>3. put'[u] = [version |-> Version(config) + 1, big |-> t.big, stop |-> t.stop]
          BY <4>1, <4>2 DEF ReadForPut, Inv, Typed
        <4>4. Version(put'[u]) = put'[u].version
          BY <2>3 DEF Version
        <4> QED
          BY <4>3, <4>4
      <3>2. CASE ~ \E v \in Writers, t \in Thresholds : ReadForPut(v, t)
        <4>1. put' = put
          BY <1>5, <3>2 DEF Next, Handle, Receive, ReadAccount, ReadConfig, ReadRecords,
             Evaluate, FindChallenge, ConsumeChallenge, StoreChallenge, CreateBet, SettleBet,
             Tick, vars
        <4> QED
          BY <2>3, <4>1 DEF Unambiguous
      <3> QED
        BY <3>1, <3>2
    <2> QED
      BY <2>1, <2>2, <2>3 DEF Unambiguous, Version
  <1> QED
    BY <1>4, <1>5

LEMMA InitUnambiguous == ASSUME Init PROVE Unambiguous
  BY DEF Init, Unambiguous, Held, Recorded, Version, Idle

(* The version tells the configurations in use apart, so the challenge was   *)
(* made under the very configuration of the attempt.                         *)
LEMMA SameConfiguration ==
    ASSUME Inv, Unambiguous
    PROVE  AcknowledgementBinds
  <1> SUFFICES ASSUME NEW b \in Recorded, bets[b].rules # {}
               PROVE  /\ bets[b].ack # None
                      /\ LET c == challenge[bets[b].ack] IN
                           /\ c.consumed /\ c.payload = bets[b].payload
                           /\ c.rules = bets[b].rules /\ c.under = bets[b].under
                           /\ c.availableAt <= bets[b].at
    BY DEF AcknowledgementBinds
  <1> DEFINE c == challenge[bets[b].ack]
  <1>1. Answered(bets[b]) /\ bets[b].ack \in Challenges \cup {None} /\ b \in BetIds
    BY Fields DEF Inv, AttemptBinds, Recorded, Bets
  <1>2. c.under \in Held /\ bets[b].under \in Held
    BY <1>1 DEF Held, Answered
  <1>3. Version(c.under) = Version(bets[b].under)
    BY <1>1 DEF Inv, Versioned, Answered
  <1>4. c.under = bets[b].under
    BY <1>2, <1>3 DEF Unambiguous
  <1> QED
    BY <1>1, <1>4 DEF Answered

(* While the owner saves one configuration at a time, an acknowledged bet is *)
(* the very attempt that was challenged, under the same configuration, with  *)
(* any requests, settlements and configurations in between.                  *)
THEOREM AcknowledgedAsChallenged ==
    ASSUME OneWriter
    PROVE  Spec => []AcknowledgementBinds
  <1>1. Init => Inv /\ Unambiguous
    BY InitInv, InitUnambiguous
  <1>2. Inv /\ Unambiguous /\ [Next]_vars => (Inv /\ Unambiguous)'
    BY NextInv, NextUnambiguous
  <1>3. Inv /\ Unambiguous => AcknowledgementBinds
    BY SameConfiguration
  <1> QED
    BY <1>1, <1>2, <1>3, PTL DEF Spec

(* The same of an owner who records one bet at a time (the run's instance). *)
THEOREM AcknowledgedOneBetAtATime ==
    ASSUME OneWriter
    PROVE  OneBetSpec => []AcknowledgementBinds
  <1>1. [Next /\ OneBetAtATime]_vars => [Next]_vars
    OBVIOUS
  <1> QED
    BY <1>1, AcknowledgedAsChallenged, PTL DEF OneBetSpec, Spec

-----------------------------------------------------------------------------
(* One bet at a time. *)
LEMMA RequestMovesSteady ==
    ASSUME Inv, Steady, OneBetAtATime, NEW q \in Requests,
           NEW work, work = Idle \/ Sound(work),
           job' = [job EXCEPT ![q] = work], UNCHANGED <<bets, config, balance, pl>>
    PROVE  Steady'
  <1>1. /\ job'[q] = work /\ Exposure' = Exposure
        /\ \A r \in Requests \ {q} : job'[r] = job[r]
    BY DEF Inv, Typed, Exposure
  <1>2. SameBetAtWork'
    BY DEF OneBetAtATime, SameBet, SameBetAtWork
  <1> QED
    BY <1>1, <1>2 DEF Steady, Sound, Current

LEMMA ReceiveSteady ==
    ASSUME Inv, Steady, OneBetAtATime, NEW q \in Requests, NEW kind \in {"bet", "challenge"},
           NEW p, NEW c, Receive(q, kind, p, c)
    PROVE  Steady'
  <1> DEFINE work == [at |-> "account", kind |-> kind, payload |-> p, challenge |-> c,
                      balance |-> 0, config |-> None, exposure |-> 0, rules |-> {}, time |-> 0]
  <1>1. Sound(work)
    BY DEF Sound, Current
  <1> QED
    BY <1>1, RequestMovesSteady DEF Receive

LEMMA ReadSteady ==
    ASSUME Inv, Steady, OneBetAtATime, NEW q \in Requests,
           ReadAccount(q) \/ ReadConfig(q) \/ ReadRecords(q)
    PROVE  Steady'
  <1> DEFINE j == job[q]
  <1>1. Work(j) /\ Sound(j)
    BY Fields DEF ReadAccount, ReadConfig, ReadRecords, Idle, Steady, Sound
  <1>2. PICK work :
           /\ job' = [job EXCEPT ![q] = work]
           /\ \/ /\ j.at = "account"
                 /\ work = [j EXCEPT !.balance = balance, !.time = now,
                                     !.at = IF j.kind = "bet" THEN "config" ELSE "records"]
              \/ /\ j.at = "config"
                 /\ work = [j EXCEPT !.config = config,
                                     !.at = IF j.kind = "bet" THEN "records" ELSE "events"]
              \/ /\ j.at = "records"
                 /\ work = [j EXCEPT !.exposure = Exposure,
                                     !.at = IF j.kind = "bet" THEN "events" ELSE "config"]
    BY DEF ReadAccount, ReadConfig, ReadRecords, Inv, Typed
  <1>3. Sound(work)
    BY <1>1, <1>2 DEF Work, Sound, Current
  <1> QED
    BY <1>2, <1>3, RequestMovesSteady DEF ReadAccount, ReadConfig, ReadRecords

(* Nothing the rules are evaluated on has changed since it was read. *)
LEMMA EvaluateSteady ==
    ASSUME Inv, Steady, OneBetAtATime, NEW q \in Requests, Evaluate(q)
    PROVE  Steady'
  <1> DEFINE j == job[q]
  <1>1. Work(j) /\ Sound(j) /\ j.at = "events"
    BY Fields DEF Evaluate, Idle, Steady, Sound
  <1>2. PICK rules : rules = Triggered(j.payload, j.config, j.balance - j.exposure, pl)
    OBVIOUS
  <1> DEFINE place == IF j.kind = "challenge" THEN "store"
                      ELSE IF rules = {} THEN "create" ELSE "find"
             work == [j EXCEPT !.rules = rules, !.at = place]
  <1>3. CASE j.kind = "challenge" /\ rules = {}
    <2>1. job' = [job EXCEPT ![q] = Idle]
      BY <1>2, <1>3 DEF Evaluate
    <2> QED
      BY <2>1, RequestMovesSteady DEF Evaluate
  <1>4. CASE ~(j.kind = "challenge" /\ rules = {})
    <2>1. job' = [job EXCEPT ![q] = work]
      BY <1>2, <1>4 DEF Evaluate
    <2>2. /\ work.at = place /\ work.rules = rules /\ work.kind = j.kind
          /\ work.payload = j.payload
      BY <1>1 DEF Work
    <2>3. ASSUME bets[j.payload.bet] = None, j.kind = "bet", rules = {}
          PROVE  Triggered(j.payload, config, balance - Exposure, pl) = {}
      <3>1. j.balance = balance /\ j.config = config /\ j.exposure = Exposure
        BY <1>1, <2>3 DEF Sound, Current
      <3> QED
        BY <1>2, <2>3, <3>1
    <2> HIDE DEF work
    <2>4. Sound(work)
      BY <1>1, <2>2, <2>3 DEF Sound, Current
    <2> QED
      BY <2>1, <2>4, RequestMovesSteady DEF Evaluate
  <1> QED
    BY <1>3, <1>4

LEMMA FindSteady ==
    ASSUME Inv, Steady, OneBetAtATime, NEW q \in Requests,
           FindChallenge(q) \/ ConsumeChallenge(q)
    PROVE  Steady'
  <1> DEFINE j == job[q]
  <1>1. Work(j) /\ Sound(j)
    BY Fields DEF FindChallenge, ConsumeChallenge, Idle, Steady, Sound
  <1>2. PICK work : /\ job' = [job EXCEPT ![q] = work]
                    /\ \/ work = Idle
                       \/ j.at = "find" /\ work = [j EXCEPT !.at = "consume"]
                       \/ j.at = "consume" /\ work = [j EXCEPT !.at = "create"]
    BY DEF FindChallenge, ConsumeChallenge, Goto, Reject, Inv, Typed
  <1>3. work = Idle \/ Sound(work)
    BY <1>1, <1>2 DEF Work, Sound, Current
  <1> QED
    BY <1>2, <1>3, RequestMovesSteady DEF FindChallenge, ConsumeChallenge

LEMMA RecordSteady ==
    ASSUME Inv, Steady, OneBetAtATime, NEW q \in Requests, CreateBet(q)
    PROVE  Steady'
  <1>1. SameBetAtWork'
    BY DEF OneBetAtATime, SameBet, SameBetAtWork
  <1>2. /\ job'[q] = Idle /\ job[q] # Idle
        /\ \A r \in Requests \ {q} : job'[r] = job[r]
    BY DEF CreateBet, Reject, Inv, Typed, Idle
  <1>3. ASSUME NEW r \in Requests, job'[r] # Idle
        PROVE  Sound(job[r])'
    <2>1. r # q /\ job'[r] = job[r] /\ Sound(job[r])
      BY <1>2, <1>3 DEF Steady
    <2>2. job[r].payload.bet = job[q].payload.bet /\ job[q].payload.bet \in BetIds
      BY <1>2, <1>3, <2>1, Fields, DisciplineGateAssumption DEF Steady, SameBetAtWork, Work
    <2>3. ASSUME bets'[job[r].payload.bet] = None
          PROVE  bets' = bets
      BY <2>2, <2>3 DEF CreateBet, Inv, Typed
    <2>4. Current(job[r])'
      <3>1. CASE bets'[job[r].payload.bet] # None
        BY <2>1, <3>1 DEF Current
      <3>2. CASE bets'[job[r].payload.bet] = None
        <4>1. bets' = bets /\ Exposure' = Exposure
          BY <2>3, <3>2 DEF Exposure
        <4> QED
          BY <2>1, <4>1 DEF CreateBet, Sound, Current
      <3> QED
        BY <3>1, <3>2
    <2> QED
      BY <2>1, <2>4 DEF Sound
  <1> QED
    BY <1>1, <1>3 DEF Steady

(* A settlement and a configuration wait until no request is under way. *)
LEMMA BetweenSteady ==
    ASSUME Inv, Steady, OneBetAtATime,
           \/ \E b \in BetIds, r \in Results : SettleBet(b, r)
           \/ \E u \in Writers : WriteConfig(u)
    PROVE  Steady'
  <1>1. ASSUME NEW q \in Requests, job[q] # Idle
        PROVE  Current(job[q])'
    <2>1. config' = config /\ Pending \subseteq Pending'
      BY <1>1 DEF OneBetAtATime
    <2>2. ~ \E b \in BetIds, r \in Results : SettleBet(b, r)
      <3> SUFFICES ASSUME NEW b \in BetIds, NEW r, SettleBet(b, r) PROVE FALSE
        OBVIOUS
      <3>1. b \in Pending /\ bets[b] \in Bets
        BY Fields DEF SettleBet, Pending, PendingOf
      <3>2. bets'[b].status = "settled"
        BY <3>1 DEF SettleBet, Inv, Typed, Bets
      <3> QED
        BY <2>1, <3>1, <3>2 DEF Pending, PendingOf
    <2>3. UNCHANGED <<bets, balance, pl, job>>
      BY <2>2 DEF WriteConfig
    <2>4. Exposure' = Exposure
      BY <2>3 DEF Exposure
    <2> QED
      BY <1>1, <2>1, <2>3, <2>4 DEF Steady, Sound, Current
  <1>2. job' = job
    BY DEF SettleBet, WriteConfig
  <1> QED
    BY <1>1, <1>2 DEF Steady, SameBetAtWork, Sound

LEMMA NextSteady ==
    ASSUME Inv, Steady, [Next /\ OneBetAtATime]_vars
    PROVE  Steady'
  <1>1. CASE UNCHANGED vars
    BY <1>1 DEF vars, Steady, SameBetAtWork, Sound, Current, Exposure
  <1>2. CASE Next /\ OneBetAtATime
    <2>1. CASE \E q \in Requests, p \in Payloads :
                 \/ Receive(q, "challenge", p, None)
                 \/ \E c \in Challenges \cup {None} : Receive(q, "bet", p, c)
      BY <1>2, <2>1, ReceiveSteady
    <2>2. CASE \E q \in Requests : Handle(q)
      <3>1. PICK q \in Requests : Handle(q)
        BY <2>2
      <3>2. CASE \E c \in Challenges : StoreChallenge(q, c)
        BY <1>2, <3>2, RequestMovesSteady DEF StoreChallenge, Reject
      <3> QED
        BY <1>2, <3>1, <3>2, ReadSteady, EvaluateSteady, FindSteady, RecordSteady DEF Handle
    <2>3. CASE \/ \E b \in BetIds, r \in Results : SettleBet(b, r)
               \/ \E u \in Writers : WriteConfig(u)
      BY <1>2, <2>3, BetweenSteady
    <2>4. CASE \/ Tick
               \/ \E u \in Writers, t \in Thresholds : ReadForPut(u, t)
      BY <2>4 DEF Tick, ReadForPut, Steady, SameBetAtWork, Sound, Current, Exposure
    <2> QED
      BY <1>2, <2>1, <2>2, <2>3, <2>4 DEF Next
  <1> QED
    BY <1>1, <1>2

(* A bet that is recorded without an acknowledgement was evaluated to no rule*)
(* on exactly what the store says when it is recorded.                       *)
LEMMA CleanStep ==
    ASSUME Inv, Steady, [Next]_vars, NEW b \in BetIds,
           bets[b] = None, bets'[b] # None, bets'[b].ack = None
    PROVE  Triggered(bets'[b].payload, config, balance - Exposure, pl) = {}
  <1>1. PICK q \in Requests : CreateBet(q)
    <2>1. CASE \E d \in BetIds, r \in Results : SettleBet(d, r)
      BY <2>1 DEF SettleBet, Pending, PendingOf, Inv, Typed
    <2> QED
      BY <2>1 DEF Next, Handle, Receive, ReadAccount, ReadConfig, ReadRecords, Evaluate,
         FindChallenge, ConsumeChallenge, StoreChallenge, WriteConfig, ReadForPut, Tick, vars
  <1> DEFINE j == job[q]
  <1>2. Work(j) /\ Founded(j) /\ Sound(j) /\ j.at = "create"
    BY <1>1, Fields DEF CreateBet, Idle, Steady
  <1>3. /\ b = j.payload.bet
        /\ bets'[b] = [payload |-> j.payload, status |-> "pending", rules |-> j.rules,
                       under |-> j.config, at |-> j.time,
                       ack |-> IF j.rules = {} THEN None ELSE j.challenge]
    BY <1>1 DEF CreateBet, Inv, Typed
  <1>4. j.rules = {}
    BY <1>2, <1>3 DEF Founded, Checked
  <1> QED
    BY <1>2, <1>3, <1>4 DEF Sound, Current

(* No warning is lost on an owner who records one bet at a time: a bet that  *)
(* is recorded without an acknowledgement triggers no rule on the store as it*)
(* is at that moment.                                                        *)
THEOREM NoWarningIsLost == OneBetSpec => UnacknowledgedBetsAreClean
  <1>1. Init => Inv /\ Steady
    BY InitInv DEF Init, Steady, SameBetAtWork
  <1>2. Inv /\ Steady /\ [Next /\ OneBetAtATime]_vars => (Inv /\ Steady)'
    BY NextInv, NextSteady
  <1>3. Inv /\ Steady /\ [Next /\ OneBetAtATime]_vars
          => [ \A b \in BetIds :
                 bets[b] = None /\ bets'[b] # None /\ bets'[b].ack = None
                   => Triggered(bets'[b].payload, config, balance - Exposure, pl) = {} ]_vars
    BY CleanStep
  <1> QED
    BY <1>1, <1>2, <1>3, PTL DEF OneBetSpec, UnacknowledgedBetsAreClean
=============================================================================
