-------------------------- MODULE LiveRefreshProofs --------------------------
(***************************************************************************)
(* Proofs about LiveRefresh for any processes, matches, reasons, pauses and*)
(* clocks.  That a snapshot only moves forward follows from how the row    *)
(* orders the attempts: the row's attempt is never older than the published*)
(* snapshot, and strictly newer while a refresh is running (Ordered).      *)
(* That the provider is asked by one refresh at a time follows from the row *)
(* naming the latest refresh and every earlier one being a lease behind it  *)
(* (Holding, Spaced).                                                      *)
(***************************************************************************)
EXTENDS LiveRefresh, TLAPS

Steps   == {"idle", "read", "acquire", "list", "check", "finish"}
Results == [outcome : {"succeeded", "blocked", "other"}, stamp : Int]

(* The part of the types that the order of the snapshots rests on. *)
Typed ==
    /\ row \in {None} \cup RefreshStates
    /\ pc \in [Procs -> Steps]
    /\ started \in [Procs -> Int]
    /\ result \in [Procs -> {None} \cup Results]
    /\ now \in Int
    /\ \A p \in Procs : pc[p] = "finish" => result[p] \in Results

(* The published snapshot is not newer than the row's attempt, and older     *)
(* while that attempt is running.                                            *)
Ordered ==
    snapshot # None =>
        /\ row # None
        /\ snapshot.generated \in Int
        /\ snapshot.generated <= row.attempt
        /\ row.status = "running" => snapshot.generated < row.attempt

Inv == Typed /\ Ordered

-----------------------------------------------------------------------------
(* What an action that leaves row and snapshot alone may do to the rest. *)
LEMMA LeaveTyped ==
    ASSUME Typed, NEW p \in Procs, Leave(p), UNCHANGED <<row, now>>
    PROVE  Typed'
  <1>1. pc' \in [Procs -> Steps] /\ started' \in [Procs -> Int]
    BY DEF Typed, Leave, Goto, Steps
  <1>2. result' \in [Procs -> {None} \cup Results]
    BY DEF Typed, Leave
  <1>3. ASSUME NEW q \in Procs, pc'[q] = "finish" PROVE result'[q] \in Results
    BY <1>3 DEF Typed, Leave, Goto
  <1> QED
    BY <1>1, <1>2, <1>3 DEF Typed

LEMMA ConcludeTyped ==
    ASSUME Typed, NEW p \in Procs, NEW outcome \in {"succeeded", "blocked", "other"},
           Conclude(p, outcome), UNCHANGED <<row, now, started>>
    PROVE  Typed'
  <1>1. [outcome |-> outcome, stamp |-> Clock(p)] \in Results
    BY LiveRefreshAssumption DEF Results, Clock, Typed
  <1>2. pc' \in [Procs -> Steps] /\ result' \in [Procs -> {None} \cup Results]
    BY <1>1 DEF Typed, Conclude, Goto, Steps
  <1>3. ASSUME NEW q \in Procs, pc'[q] = "finish" PROVE result'[q] \in Results
    BY <1>1, <1>3 DEF Typed, Conclude, Goto
  <1> QED
    BY <1>2, <1>3 DEF Typed

LEMMA GotoTyped ==
    ASSUME Typed, NEW p \in Procs, NEW step \in Steps \ {"finish"}, Goto(p, step),
           UNCHANGED <<row, now, started, result>>
    PROVE  Typed'
  BY DEF Typed, Goto, Steps

LEMMA CollectTyped ==
    ASSUME Typed, NEW p \in Procs, NEW matches, NEW check, Collect(p, matches, check)
    PROVE  Typed' /\ UNCHANGED published
  <1>1. UNCHANGED <<row, snapshot, now, started>>
    BY DEF Collect, published, world
  <1>2. CASE check = {}
    BY <1>1, <1>2, ConcludeTyped DEF Collect, published
  <1>3. CASE check # {}
    BY <1>1, <1>3, GotoTyped DEF Collect, published, Steps
  <1> QED
    BY <1>2, <1>3

(* The steps that read the row and the provider keep the types and publish   *)
(* nothing.                                                                  *)
LEMMA QuietStep ==
    ASSUME Typed, NEW p \in Procs,
           \/ \E reason \in Reasons : Begin(p, reason)
           \/ \E what \in {"snapshot", "state"} : Read(p, what)
           \/ \E seen \in SUBSET Observable : ListWidget(p, seen) \/ ListDaily(p, seen)
           \/ \E m \in Matches, answers \in BOOLEAN : CheckTracked(p, m, answers)
           \/ \E code \in {"blocked", "other"} : SourceFails(p, code)
           \/ Crash(p)
    PROVE  Typed' /\ UNCHANGED published
  <1>1. CASE \E reason \in Reasons : Begin(p, reason)
    <2>0. Clock(p) \in Int
      BY LiveRefreshAssumption DEF Typed, Clock
    <2>1. pc' \in [Procs -> Steps] /\ started' \in [Procs -> Int]
      <3>1. Goto(p, "read") /\ started' = [started EXCEPT ![p] = Clock(p)]
        BY <1>1 DEF Begin
      <3> QED
        BY <2>0, <3>1 DEF Typed, Goto, Steps
    <2>2. ASSUME NEW q \in Procs, pc'[q] = "finish" PROVE result'[q] \in Results
      BY <1>1, <2>2 DEF Typed, Begin, Goto
    <2> QED
      BY <1>1, <2>1, <2>2 DEF Typed, Begin, published, world
  <1>2. CASE \E what \in {"snapshot", "state"} : Read(p, what)
    <2>1. UNCHANGED <<row, snapshot, now>>
      BY <1>2 DEF Read, published, world
    <2>2. CASE Leave(p)
      BY <2>1, <2>2, LeaveTyped DEF published
    <2>3. CASE ~Leave(p)
      <3>1. PICK step \in {"acquire", "read"} : Goto(p, step) /\ UNCHANGED <<started, result>>
        BY <1>2, <2>3 DEF Read
      <3> QED
        BY <2>1, <3>1, GotoTyped DEF published, Steps
    <2> QED
      BY <2>2, <2>3
  <1>3. CASE \E seen \in SUBSET Observable : ListWidget(p, seen) \/ ListDaily(p, seen)
    BY <1>3, CollectTyped DEF ListWidget, ListDaily
  <1>4. CASE \E m \in Matches, answers \in BOOLEAN : CheckTracked(p, m, answers)
    BY <1>4, CollectTyped DEF CheckTracked
  <1>5. CASE \E code \in {"blocked", "other"} : SourceFails(p, code)
    BY <1>5, ConcludeTyped DEF SourceFails, published, world
  <1>6. CASE Crash(p)
    BY <1>6, LeaveTyped DEF Crash, published
  <1> QED
    BY <1>1, <1>2, <1>3, <1>4, <1>5, <1>6

(* The lease is taken. *)
LEMMA AcquireStep ==
    ASSUME Inv, NEW p \in Procs, Acquire(p)
    PROVE  Inv' /\ UNCHANGED snapshot
  <1>1. UNCHANGED <<snapshot, now>>
    BY DEF Acquire, world
  <1>2. CASE ~Available(started[p])
    <2>1. Leave(p) /\ UNCHANGED row
      BY <1>2 DEF Acquire
    <2>2. Typed'
      BY <1>1, <2>1, LeaveTyped DEF Inv
    <2> QED
      BY <1>1, <2>1, <2>2 DEF Inv, Ordered
  <1>3. CASE Available(started[p])
    <2>1. started[p] \in Int /\ started[p] + Lease \in Int
      BY LiveRefreshAssumption DEF Inv, Typed
    <2>2. [holder |-> p, expires |-> started[p] + Lease] \in Leases
      BY <2>1 DEF Leases
    <2>3. row' \in RefreshStates /\ row'.attempt = started[p]
      BY <1>3, <2>1, <2>2 DEF Acquire, RefreshStates, Inv, Typed
    <2>4. Typed'
      <3>1. pc' \in [Procs -> Steps]
        BY <1>3 DEF Acquire, Goto, Inv, Typed, Steps
      <3>2. ASSUME NEW q \in Procs, pc'[q] = "finish" PROVE result'[q] \in Results
        BY <1>3, <3>2 DEF Acquire, Goto, Inv, Typed
      <3> QED
        BY <1>1, <1>3, <2>3, <3>1, <3>2 DEF Acquire, Inv, Typed
    <2>5. ASSUME snapshot # None PROVE snapshot.generated < started[p]
      <3>1. row # None /\ snapshot.generated \in Int /\ snapshot.generated <= row.attempt
        BY <2>5 DEF Inv, Ordered
      <3>2. row.attempt \in Int
        BY <3>1 DEF Inv, Typed, RefreshStates
      <3>3. row.attempt + Pause(row) <= started[p]
        BY <1>3, <3>1 DEF Available
      <3>4. Pause(row) \in Nat /\ Pause(row) > 0
        BY LiveRefreshAssumption DEF Pause
      <3> QED
        BY <2>1, <3>1, <3>2, <3>3, <3>4
    <2>6. Ordered'
      BY <1>1, <2>1, <2>3, <2>5, NoneAssumption DEF Ordered, Inv
    <2> QED
      BY <1>1, <2>4, <2>6 DEF Inv
  <1> QED
    BY <1>2, <1>3

(* A fenced commit keeps the attempt of the row and ends its running.        *)
LEMMA FinishRow ==
    ASSUME Inv, NEW p \in Procs, Finish(p), Owned(p)
    PROVE  /\ row' \in RefreshStates /\ row'.status # "running"
           /\ row'.attempt = row.attempt /\ Leave(p)
  <1>1. row \in RefreshStates /\ result[p] \in Results
    BY DEF Finish, Owned, Inv, Typed
  <1>2. Status(result[p].outcome) \in {"succeeded", "failed"}
    BY DEF Status
  <1>3. /\ row' = [status  |-> Status(result[p].outcome),
                   attempt |-> row.attempt,
                   success |-> IF result[p].outcome = "succeeded" THEN result[p].stamp
                               ELSE row.success,
                   error   |-> IF result[p].outcome = "succeeded" THEN None
                               ELSE result[p].outcome,
                   lease   |-> None]
        /\ Leave(p)
    BY DEF Finish
  <1> QED
    BY <1>1, <1>2, <1>3 DEF RefreshStates, Results

(* The publication. *)
LEMMA FinishStep ==
    ASSUME Inv, NEW p \in Procs, Finish(p)
    PROVE  /\ Inv'
           /\ snapshot' # snapshot =>
                snapshot = None \/ snapshot'.generated > snapshot.generated
  <1>1. pc[p] = "finish" /\ result[p] \in Results /\ started[p] \in Int
    BY DEF Finish, Inv, Typed
  <1>2. UNCHANGED now
    BY DEF Finish, world
  <1>3. CASE Owned(p)
    <2>1. row \in RefreshStates /\ row.status = "running" /\ row.attempt = started[p]
      BY <1>3 DEF Owned, Inv, Typed
    <2>2. /\ row' \in RefreshStates /\ row'.status # "running" /\ row'.attempt = row.attempt
          /\ Leave(p)
      BY <1>3, FinishRow
    <2>3. Typed'
      <3>1. pc' \in [Procs -> Steps] /\ started' \in [Procs -> Int]
        BY <2>2 DEF Inv, Typed, Leave, Goto, Steps
      <3>2. result' \in [Procs -> {None} \cup Results]
        BY <2>2 DEF Inv, Typed, Leave
      <3>3. ASSUME NEW q \in Procs, pc'[q] = "finish" PROVE result'[q] \in Results
        BY <2>2, <3>3 DEF Inv, Typed, Leave, Goto
      <3> QED
        BY <1>2, <2>2, <3>1, <3>2, <3>3 DEF Inv, Typed
    <2>4. CASE UNCHANGED snapshot
      BY <2>1, <2>2, <2>3, <2>4, NoneAssumption DEF Inv, Ordered, RefreshStates
    <2>5. CASE ~UNCHANGED snapshot
      <3>1. snapshot' = [generated |-> started[p], matches |-> job[p].matches]
        BY <1>3, <2>5 DEF Finish
      <3>2. snapshot # None => snapshot'.generated > snapshot.generated
        BY <1>1, <2>1, <3>1 DEF Inv, Ordered
      <3>3. Ordered'
        BY <1>1, <2>1, <2>2, <3>1, NoneAssumption DEF Ordered
      <3> QED
        BY <2>3, <3>2, <3>3 DEF Inv
    <2> QED
      BY <2>4, <2>5
  <1>4. CASE ~Owned(p)
    <2>1. UNCHANGED published
      BY <1>4 DEF Finish
    <2>2. CASE Leave(p)
      <3>1. Typed'
        BY <1>2, <2>1, <2>2, LeaveTyped DEF Inv, published
      <3> QED
        BY <2>1, <3>1 DEF Inv, Ordered, published
    <2>3. CASE ~Leave(p)
      <3>1. Conclude(p, "other") /\ UNCHANGED started
        BY <1>4, <2>3 DEF Finish
      <3>2. Typed'
        BY <1>2, <2>1, <3>1, ConcludeTyped DEF Inv, published
      <3> QED
        BY <2>1, <3>2 DEF Inv, Ordered, published
    <2> QED
      BY <2>2, <2>3
  <1> QED
    BY <1>3, <1>4

(* Inv is inductive, and no step publishes an older snapshot. *)
LEMMA Step ==
    Inv /\ [Next]_vars =>
      /\ Inv'
      /\ snapshot' # snapshot => snapshot = None \/ snapshot'.generated > snapshot.generated
  <1> SUFFICES ASSUME Inv, [Next]_vars
               PROVE  /\ Inv'
                      /\ snapshot' # snapshot =>
                           snapshot = None \/ snapshot'.generated > snapshot.generated
    OBVIOUS
  <1>1. ASSUME NEW p \in Procs, Advance(p) \/ Crash(p) \/ \E r \in Reasons : Begin(p, r)
        PROVE  /\ Inv'
               /\ snapshot' # snapshot =>
                    snapshot = None \/ snapshot'.generated > snapshot.generated
    <2>1. CASE Acquire(p)
      BY <2>1, AcquireStep
    <2>2. CASE Finish(p)
      BY <2>2, FinishStep
    <2>3. CASE ~Acquire(p) /\ ~Finish(p)
      <3>1. Typed' /\ UNCHANGED published
        BY <1>1, <2>3, QuietStep DEF Advance, Inv
      <3> QED
        BY <3>1 DEF Inv, Ordered, published
    <2> QED
      BY <2>1, <2>2, <2>3
  <1>2. CASE (\E m \in Matches : Kickoff(m) \/ FullTime(m)) \/ Tick \/ UNCHANGED vars
    <2>1. UNCHANGED <<published, pc, started, job, result>> /\ now' \in Int
      BY <1>2 DEF Kickoff, FullTime, Tick, vars, world, Inv, Typed
    <2> QED
      BY <2>1 DEF Inv, Typed, Ordered, published
  <1> QED
    BY <1>1, <1>2 DEF Next

LEMMA InitInv == Init => Inv
  BY DEF Init, Inv, Typed, Ordered, Steps

(* A published snapshot is only ever replaced by one of a refresh that       *)
(* started later, for any clocks, pauses and number of processes.            *)
THEOREM PublishedMovesForward == Spec => SnapshotMovesForward
  <1>1. Inv /\ [Next]_vars => Inv'
    BY Step
  <1>2. Inv /\ [Next]_vars =>
          [snapshot' # snapshot =>
             snapshot = None \/ snapshot'.generated > snapshot.generated]_vars
    BY Step
  <1>3. Spec => []Inv
    BY InitInv, <1>1, PTL DEF Spec
  <1> QED
    BY <1>2, <1>3, PTL DEF Spec, SnapshotMovesForward

-----------------------------------------------------------------------------
Asking(p) == pc[p] \in {"list", "check"}

(* A refresh began in the past of its own clock; the row holds the lease of  *)
(* each refresh that asks the provider or an attempt made after that lease.  *)
Holding ==
    \A p \in Procs :
        /\ pc[p] # "idle" => started[p] <= Clock(p)
        /\ Asking(p) => /\ row # None
                        /\ \/ row.lease = [holder |-> p, expires |-> started[p] + Lease]
                           \/ row.attempt >= started[p] + Lease

(* Two refreshes that ask the provider started a lease apart.                *)
Spaced ==
    \A p, q \in Procs :
        p # q /\ Asking(p) /\ Asking(q)
          => started[q] >= started[p] + Lease \/ started[p] >= started[q] + Lease

(* A quiet step of p moves only p, and p asks the provider only if it did    *)
(* before.                                                                   *)
LEMMA QuietFrame ==
    ASSUME Typed, NEW p \in Procs,
           \/ \E reason \in Reasons : Begin(p, reason)
           \/ \E what \in {"snapshot", "state"} : Read(p, what)
           \/ \E seen \in SUBSET Observable : ListWidget(p, seen) \/ ListDaily(p, seen)
           \/ \E m \in Matches, answers \in BOOLEAN : CheckTracked(p, m, answers)
           \/ \E code \in {"blocked", "other"} : SourceFails(p, code)
           \/ Crash(p)
    PROVE  /\ UNCHANGED <<row, now>>
           /\ \A q \in Procs \ {p} : pc'[q] = pc[q] /\ started'[q] = started[q]
           /\ pc'[p] \in {"list", "check"} =>
                pc[p] \in {"list", "check"} /\ started'[p] = started[p]
           /\ pc'[p] # "idle" =>
                \/ started'[p] = Clock(p)
                \/ pc[p] # "idle" /\ started'[p] = started[p]
  <1>1. CASE \E reason \in Reasons : Begin(p, reason)
    <2>1. Goto(p, "read") /\ started' = [started EXCEPT ![p] = Clock(p)] /\ UNCHANGED <<row, now>>
      BY <1>1 DEF Begin, published, world
    <2> QED
      BY <2>1 DEF Goto, Typed
  <1>2. CASE \E what \in {"snapshot", "state"} : Read(p, what)
    <2>1. pc[p] = "read" /\ UNCHANGED <<row, now>>
      BY <1>2 DEF Read, published, world
    <2>2. CASE Leave(p)
      BY <2>1, <2>2 DEF Leave, Goto, Typed
    <2>3. CASE ~Leave(p)
      <3>1. PICK step \in {"acquire", "read"} : Goto(p, step) /\ UNCHANGED started
        BY <1>2, <2>3 DEF Read
      <3> QED
        BY <2>1, <3>1 DEF Goto, Typed
    <2> QED
      BY <2>2, <2>3
  <1>3. ASSUME NEW matches, NEW check, Collect(p, matches, check), pc[p] \in {"list", "check"}
        PROVE  /\ UNCHANGED <<row, now, started>>
               /\ \A q \in Procs \ {p} : pc'[q] = pc[q]
               /\ pc[p] # "idle"
    <2>1. UNCHANGED <<row, now, started>> /\ (Goto(p, "finish") \/ Goto(p, "check"))
      BY <1>3 DEF Collect, Conclude, published, world
    <2> QED
      BY <1>3, <2>1 DEF Goto, Typed
  <1>4. CASE \E seen \in SUBSET Observable : ListWidget(p, seen) \/ ListDaily(p, seen)
    BY <1>3, <1>4 DEF ListWidget, ListDaily
  <1>5. CASE \E m \in Matches, answers \in BOOLEAN : CheckTracked(p, m, answers)
    BY <1>3, <1>5 DEF CheckTracked
  <1>6. CASE \E code \in {"blocked", "other"} : SourceFails(p, code)
    BY <1>6 DEF SourceFails, Conclude, Goto, published, world, Typed
  <1>7. CASE Crash(p)
    BY <1>7 DEF Crash, Leave, Goto, published, world, Typed
  <1> QED
    BY <1>1, <1>2, <1>4, <1>5, <1>6, <1>7

(* Holding and Spaced are inductive together. *)
LEMMA HoldingStep ==
    ASSUME Inv, Holding, Spaced, [Next]_vars
    PROVE  Holding' /\ Spaced'
  <1>0. /\ now \in Int /\ Lease \in Nat /\ Offset \in [Procs -> Nat]
        /\ started \in [Procs -> Int] /\ pc \in [Procs -> Steps]
    BY LiveRefreshAssumption DEF Inv, Typed
  <1>1. ASSUME NEW p \in Procs, Acquire(p) PROVE Holding' /\ Spaced'
    <2>1. pc[p] = "acquire" /\ UNCHANGED now
      BY <1>1 DEF Acquire, world
    <2>2. CASE Available(started[p])
      <3>1. /\ row' = [status |-> "running", attempt |-> started[p], error |-> None,
                       success |-> IF row = None THEN None ELSE row.success,
                       lease |-> [holder |-> p, expires |-> started[p] + Lease]]
            /\ Goto(p, "list") /\ UNCHANGED started
        BY <1>1, <2>2 DEF Acquire
      <3>2. [holder |-> p, expires |-> started[p] + Lease] \in Leases
        BY <1>0 DEF Leases
      <3>3. row' \in RefreshStates
        BY <1>0, <3>1, <3>2 DEF RefreshStates, Inv, Typed
      <3>4. ASSUME NEW q \in Procs \ {p}, Asking(q)
            PROVE  started[p] >= started[q] + Lease
        <4>1. row # None
          BY <3>4 DEF Holding
        <4>2. row \in RefreshStates
          BY <4>1 DEF Inv, Typed
        <4>3. CASE row.lease = [holder |-> q, expires |-> started[q] + Lease]
          <5>1. row.lease \in Leases /\ row.lease # None
            BY <1>0, <4>3, NoneAssumption DEF Leases
          <5>2. row.lease.expires <= started[p]
            BY <2>2, <4>1, <5>1 DEF Available
          <5> QED
            BY <1>0, <4>3, <5>2
        <4>4. CASE row.attempt >= started[q] + Lease
          <5>1. row.attempt + Pause(row) <= started[p] /\ row.attempt \in Int
            BY <2>2, <4>1, <4>2 DEF Available, RefreshStates
          <5>2. Pause(row) \in Nat
            BY LiveRefreshAssumption DEF Pause
          <5> QED
            BY <1>0, <4>4, <5>1, <5>2
        <4> QED
          BY <3>4, <4>3, <4>4 DEF Holding
      <3>5. \A q \in Procs \ {p} : pc'[q] = pc[q]
        BY <1>0, <3>1 DEF Goto
      <3>6. Holding'
        <4>1. row' # None /\ row'.attempt = started[p]
              /\ row'.lease = [holder |-> p, expires |-> started[p] + Lease]
          BY <3>1, <3>3, NoneAssumption
        <4>2. pc'[p] = "list" /\ started[p] <= Clock(p)
          BY <1>0, <2>1, <3>1 DEF Goto, Holding
        <4> QED
          BY <1>0, <2>1, <3>1, <3>4, <3>5, <4>1, <4>2 DEF Holding, Clock, Asking
      <3>7. Spaced'
        BY <1>0, <3>1, <3>4, <3>5 DEF Spaced, Asking
      <3> QED
        BY <3>6, <3>7
    <2>3. CASE ~Available(started[p])
      <3>1. Leave(p) /\ UNCHANGED row
        BY <1>1, <2>3 DEF Acquire
      <3>2. /\ pc'[p] = "idle"
            /\ \A q \in Procs \ {p} : pc'[q] = pc[q] /\ started'[q] = started[q]
        BY <1>0, <3>1 DEF Leave, Goto
      <3> QED
        BY <2>1, <3>1, <3>2 DEF Holding, Spaced, Asking, Clock
    <2> QED
      BY <2>2, <2>3
  <1>2. ASSUME NEW p \in Procs, Finish(p) PROVE Holding' /\ Spaced'
    <2>1. pc[p] = "finish" /\ UNCHANGED now
      BY <1>2 DEF Finish, world
    <2>2. /\ \/ pc'[p] = "idle"
             \/ pc'[p] = "finish" /\ started'[p] = started[p]
          /\ \A q \in Procs \ {p} : pc'[q] = pc[q] /\ started'[q] = started[q]
      <3>1. Leave(p) \/ (Conclude(p, "other") /\ UNCHANGED started)
        BY <1>2 DEF Finish
      <3> QED
        BY <1>0, <3>1 DEF Leave, Conclude, Goto
    <2>3. Spaced'
      BY <2>2 DEF Spaced, Asking
    <2>4. CASE Owned(p)
      <3>1. row # None /\ row.lease.holder = p
        BY <2>4 DEF Owned
      <3>2. row' # None /\ row'.attempt = row.attempt
        BY <1>2, <2>4, FinishRow, NoneAssumption
      <3>3. ASSUME NEW q \in Procs \ {p}, Asking(q) PROVE row.attempt >= started[q] + Lease
        <4>1. row.lease # [holder |-> q, expires |-> started[q] + Lease]
          BY <3>1
        <4> QED
          BY <3>3, <4>1 DEF Holding
      <3> QED
        BY <2>1, <2>2, <2>3, <3>2, <3>3 DEF Holding, Clock, Asking
    <2>5. CASE ~Owned(p)
      <3>1. UNCHANGED row
        BY <1>2, <2>5 DEF Finish, published
      <3> QED
        BY <2>1, <2>2, <2>3, <3>1 DEF Holding, Clock, Asking
    <2> QED
      BY <2>4, <2>5
  <1>3. ASSUME NEW p \in Procs, Advance(p) \/ Crash(p) \/ \E r \in Reasons : Begin(p, r),
               ~Acquire(p), ~Finish(p)
        PROVE  Holding' /\ Spaced'
    <2>1. /\ UNCHANGED <<row, now>>
          /\ \A q \in Procs \ {p} : pc'[q] = pc[q] /\ started'[q] = started[q]
          /\ pc'[p] \in {"list", "check"} =>
               pc[p] \in {"list", "check"} /\ started'[p] = started[p]
          /\ pc'[p] # "idle" =>
               \/ started'[p] = Clock(p)
               \/ pc[p] # "idle" /\ started'[p] = started[p]
      BY <1>3, QuietFrame DEF Advance, Inv
    <2>2. Spaced'
      BY <2>1 DEF Spaced, Asking
    <2>3. Holding'
      BY <1>0, <2>1 DEF Holding, Clock, Asking
    <2> QED
      BY <2>2, <2>3
  <1>4. CASE (\E m \in Matches : Kickoff(m) \/ FullTime(m)) \/ Tick \/ UNCHANGED vars
    <2>1. UNCHANGED <<row, pc, started>> /\ (now' = now \/ now' = now + 1)
      BY <1>4 DEF Kickoff, FullTime, Tick, vars, world, published
    <2> QED
      BY <1>0, <2>1 DEF Holding, Spaced, Clock, Asking
  <1> QED
    BY <1>1, <1>2, <1>3, <1>4 DEF Next

(* Two refreshes ask the provider at the same time only when the lease of one*)
(* is over by the clock of the other, however far the clocks are apart.      *)
THEOREM LeaseExcludes == Spec => []OneRefreshAtATime
  <1>1. Init => Inv /\ Holding /\ Spaced
    <2>1. Init => Holding /\ Spaced
      BY DEF Init, Holding, Spaced, Asking
    <2> QED
      BY <2>1, InitInv
  <1>2. Inv /\ Holding /\ Spaced /\ [Next]_vars => (Inv /\ Holding /\ Spaced)'
    BY Step, HoldingStep
  <1>3. Inv /\ Holding /\ Spaced => OneRefreshAtATime
    <2>1. SUFFICES ASSUME Inv, Holding, Spaced, NEW p \in Procs, NEW q \in Procs, p # q,
                          {pc[p], pc[q]} \subseteq {"list", "check"}
                   PROVE  Clock(q) >= started[p] + Lease \/ Clock(p) >= started[q] + Lease
      BY DEF OneRefreshAtATime
    <2>2. Asking(p) /\ Asking(q) /\ started[p] <= Clock(p) /\ started[q] <= Clock(q)
      BY <2>1 DEF Asking, Holding
    <2>3. {Clock(p), Clock(q), started[p], started[q], Lease} \subseteq Int
      BY <2>1, LiveRefreshAssumption DEF Inv, Typed, Clock
    <2>4. started[q] >= started[p] + Lease \/ started[p] >= started[q] + Lease
      BY <2>1, <2>2 DEF Spaced
    <2> QED
      BY <2>2, <2>3, <2>4
  <1> QED
    BY <1>1, <1>2, <1>3, PTL DEF Spec

-----------------------------------------------------------------------------
(* What the overlay shows.  A refresh compares what it has seen with the     *)
(* snapshot it read, which may have been replaced since; what it carries is  *)
(* therefore confirmed by itself, and complete with respect to that snapshot.*)
Sights == [status : {"live", "completed"}, updated : Int]

Confirmed(s) ==
    \A m \in Matches : Shown(s, m) # None =>
        /\ upstream[m] # "scheduled"
        /\ Shown(s, m).status = "completed" => upstream[m] = "completed"

(* The refresh of p has matches to publish in place of the snapshot prev.    *)
Told(p, prev, matches) ==
    /\ matches \in [Matches -> {None} \cup Sights]
    /\ \A m \in Matches : matches[m] # None =>
         /\ upstream[m] # "scheduled"
         /\ matches[m].status = "completed" => upstream[m] = "completed"
    /\ \A m \in Tracked(prev) :
         \/ matches[m] # None
         \/ Mode[p] = "daily" /\ started[p] - Shown(prev, m).updated >= Retain

Carries(p, j) ==
    /\ j = [reason |-> j.reason, todo |-> j.todo, prev |-> j.prev, fresh |-> j.fresh,
            matches |-> j.matches, check |-> j.check]
    /\ j.prev \in {None} \cup Overlays /\ Confirmed(j.prev)
    /\ pc[p] = "check" => j.check \subseteq Tracked(j.prev) /\ Told(p, j.prev, j.matches)
    /\ pc[p] = "finish" /\ result[p].outcome = "succeeded" => Told(p, j.prev, j.matches)

Seen ==
    /\ upstream \in [Matches -> {"scheduled", "live", "completed"}]
    /\ snapshot \in {None} \cup Overlays /\ Confirmed(snapshot)
    /\ job = [p \in Procs |-> job[p]]
    /\ \A p \in Procs : pc[p] # "idle" => Carries(p, job[p])

LEMMA OneMoves ==
    ASSUME Seen, NEW p \in Procs, UNCHANGED upstream,
           snapshot' \in {None} \cup Overlays, Confirmed(snapshot)',
           job' = [q \in Procs |-> job'[q]],
           \A q \in Procs \ {p} : /\ pc'[q] = pc[q] /\ job'[q] = job[q]
                                  /\ started'[q] = started[q] /\ result'[q] = result[q],
           pc'[p] # "idle" => Carries(p, job[p])'
    PROVE  Seen'
  <1>1. ASSUME NEW q \in Procs \ {p}, pc'[q] # "idle"
        PROVE  Carries(q, job[q])'
    <2>1. Carries(q, job[q])
      BY <1>1 DEF Seen
    <2> QED
      BY <2>1 DEF Carries, Confirmed, Told
  <1> QED
    BY <1>1 DEF Seen

LEMMA LeaveSeen ==
    ASSUME Inv, Seen, NEW p \in Procs, Leave(p), UNCHANGED upstream,
           snapshot' \in {None} \cup Overlays, Confirmed(snapshot)'
    PROVE  Seen'
  <1>1. /\ pc'[p] = "idle" /\ job' = [q \in Procs |-> job'[q]]
        /\ \A q \in Procs \ {p} : /\ pc'[q] = pc[q] /\ job'[q] = job[q]
                                  /\ started'[q] = started[q] /\ result'[q] = result[q]
    BY DEF Leave, Goto, Inv, Typed, Seen
  <1> QED
    BY <1>1, OneMoves

(* A refresh that stops without a success. *)
LEMMA FailSeen ==
    ASSUME Inv, Seen, NEW p \in Procs, pc[p] # "idle", NEW code \in {"blocked", "other"},
           Conclude(p, code), UNCHANGED <<snapshot, upstream, started, job>>
    PROVE  Seen'
  <1>1. /\ pc'[p] = "finish" /\ result'[p].outcome = code
        /\ \A q \in Procs \ {p} : pc'[q] = pc[q] /\ result'[q] = result[q]
    BY DEF Conclude, Goto, Inv, Typed
  <1>2. Carries(p, job[p])'
    BY <1>1 DEF Seen, Carries, Confirmed
  <1>3. snapshot' \in {None} \cup Overlays /\ Confirmed(snapshot)'
    BY DEF Seen, Confirmed
  <1>4. job' = [q \in Procs |-> job'[q]]
    BY DEF Seen
  <1> QED
    BY <1>1, <1>2, <1>3, <1>4, OneMoves

LEMMA CollectSeen ==
    ASSUME Inv, Seen, NEW p \in Procs, pc[p] # "idle", NEW matches, NEW check,
           Collect(p, matches, check), check \subseteq Tracked(job[p].prev),
           Told(p, job[p].prev, matches)
    PROVE  Seen'
  <1>1. /\ job' = [job EXCEPT ![p].matches = matches, ![p].check = check]
        /\ UNCHANGED <<snapshot, upstream, started>>
        /\ check = {} => Conclude(p, "succeeded")
        /\ check # {} => Goto(p, "check") /\ UNCHANGED result
    BY DEF Collect, published, world
  <1>2. PICK j : j = job[p] /\ Carries(p, j)
    BY DEF Seen
  <1>3. PICK work : work = [j EXCEPT !.matches = matches, !.check = check]
    OBVIOUS
  <1>4. job' = [job EXCEPT ![p] = work]
    BY <1>1, <1>2, <1>3 DEF Seen
  <1>5. /\ work = [reason |-> work.reason, todo |-> work.todo, prev |-> work.prev,
                   fresh |-> work.fresh, matches |-> work.matches, check |-> work.check]
        /\ work.prev = j.prev /\ work.matches = matches /\ work.check = check
    BY <1>2, <1>3 DEF Carries
  <1>6. /\ pc'[p] \in {"check", "finish"} /\ job'[p] = work /\ job' = [q \in Procs |-> job'[q]]
        /\ \A q \in Procs \ {p} : /\ pc'[q] = pc[q] /\ job'[q] = job[q]
                                  /\ started'[q] = started[q] /\ result'[q] = result[q]
    BY <1>1, <1>4 DEF Conclude, Goto, Inv, Typed, Seen
  <1>7. Told(p, work.prev, work.matches)'
    BY <1>1, <1>2, <1>5 DEF Told
  <1>8. Carries(p, work)'
    BY <1>1, <1>2, <1>5, <1>7 DEF Carries, Confirmed
  <1>9. Carries(p, job[p])'
    BY <1>6, <1>8 DEF Carries, Told, Confirmed
  <1>10. snapshot' \in {None} \cup Overlays /\ Confirmed(snapshot)'
    BY <1>1 DEF Seen, Confirmed
  <1> QED
    BY <1>1, <1>6, <1>9, <1>10, OneMoves

(* What a refresh has collected from a list, with the tracked matches it     *)
(* carries over.                                                             *)
LEMMA MergedTold ==
    ASSUME Inv, Seen, NEW p \in Procs, pc[p] # "idle", NEW seen \in SUBSET Observable, NEW kept,
           kept \subseteq Tracked(job[p].prev),
           \A m \in Tracked(job[p].prev) \ (seen \cup kept) :
              Mode[p] = "daily" /\ started[p] - Shown(job[p].prev, m).updated >= Retain
    PROVE  Told(p, job[p].prev, Merged(p, seen, kept))
  <1>1. PICK w, prev : w = Merged(p, seen, kept) /\ prev = job[p].prev
    OBVIOUS
  <1>2. prev \in {None} \cup Overlays /\ Confirmed(prev) /\ started[p] \in Int
    BY <1>1 DEF Seen, Carries, Inv, Typed
  <1>3. \A m \in Tracked(prev) : m \in Matches /\ Shown(prev, m) \in Sights
    BY <1>2 DEF Tracked, Shown, Overlays, Sights
  <1>4. /\ w = [m \in Matches |-> w[m]]
        /\ \A m \in seen : w[m] = [status |-> upstream[m], updated |-> started[p]]
        /\ \A m \in kept \ seen : w[m] = Shown(prev, m)
        /\ \A m \in Matches \ (seen \cup kept) : w[m] = None
    BY <1>1, <1>3 DEF Merged, Observed, Observable
  <1>5. \A m \in seen : /\ m \in Matches /\ upstream[m] # "scheduled"
                        /\ w[m] \in Sights /\ w[m].status = upstream[m]
    <2>1. \A m \in seen : m \in Matches /\ upstream[m] \in {"live", "completed"}
      BY DEF Observable, Seen
    <2>2. \A m \in seen : w[m] = [status |-> upstream[m], updated |-> started[p]]
      BY <1>4
    <2>3. ASSUME NEW m \in seen
          PROVE  /\ m \in Matches /\ upstream[m] # "scheduled"
                 /\ w[m] \in Sights /\ w[m].status = upstream[m]
      <3>1. PICK s \in {"live", "completed"} : s = upstream[m]
        BY <2>1, <2>3
      <3>2. w[m] = [status |-> s, updated |-> started[p]]
        BY <2>2, <2>3, <3>1
      <3>3. w[m].status = s /\ w[m] \in Sights
        BY <1>2, <3>2 DEF Sights
      <3> QED
        BY <2>1, <2>3, <3>1, <3>3
    <2> QED
      BY <2>3
  <1>6. \A m \in kept \ seen : w[m] \in Sights
    BY <1>1, <1>3, <1>4
  <1>7. w \in [Matches -> {None} \cup Sights]
    BY <1>4, <1>5, <1>6
  <1>8. ASSUME NEW m \in Matches, w[m] # None
        PROVE  /\ upstream[m] # "scheduled"
               /\ w[m].status = "completed" => upstream[m] = "completed"
    <2>1. CASE m \in seen
      BY <1>5, <2>1
    <2>2. CASE m \in kept \ seen
      BY <1>2, <1>4, <1>8, <2>2 DEF Confirmed
    <2>3. CASE m \notin seen \cup kept
      BY <1>4, <1>8, <2>3
    <2> QED
      BY <2>1, <2>2, <2>3
  <1>9. None \notin Sights
    BY NoneAssumption DEF Sights
  <1>10. ASSUME NEW m \in Tracked(prev)
         PROVE  \/ w[m] # None
                \/ Mode[p] = "daily" /\ started[p] - Shown(prev, m).updated >= Retain
    <2>1. CASE m \in seen \cup kept
      BY <1>5, <1>6, <1>9, <2>1
    <2>2. CASE m \notin seen \cup kept
      BY <1>1, <2>2
    <2> QED
      BY <2>1, <2>2
  <1> QED
    BY <1>1, <1>7, <1>8, <1>10 DEF Told

LEMMA ListSeen ==
    ASSUME Inv, Seen, NEW p \in Procs, NEW seen \in SUBSET Observable,
           ListWidget(p, seen) \/ ListDaily(p, seen)
    PROVE  Seen'
  <1>1. pc[p] # "idle"
    BY DEF ListWidget, ListDaily
  <1>2. CASE ListWidget(p, seen)
    <2>1. PICK gone : gone = Tracked(job[p].prev) \ seen
      OBVIOUS
    <2>2. PICK check \in Checks(gone) : Collect(p, Merged(p, seen, gone), check)
      BY <1>2, <2>1 DEF ListWidget
    <2>3. check \subseteq Tracked(job[p].prev)
      BY <2>1, <2>2 DEF Checks
    <2>4. Told(p, job[p].prev, Merged(p, seen, gone))
      BY <1>1, <2>1, MergedTold
    <2> QED
      BY <1>1, <2>2, <2>3, <2>4, CollectSeen
  <1>3. CASE ListDaily(p, seen)
    <2>1. PICK kept : kept = {m \in Tracked(job[p].prev) \ seen :
                                started[p] - Shown(job[p].prev, m).updated < Retain}
      OBVIOUS
    <2>2. Mode[p] = "daily" /\ Collect(p, Merged(p, seen, kept), {})
      BY <1>3, <2>1 DEF ListDaily
    <2>3. ASSUME NEW m \in Tracked(job[p].prev) \ (seen \cup kept)
          PROVE  started[p] - Shown(job[p].prev, m).updated >= Retain
      <3>1. Shown(job[p].prev, m).updated \in Int
        BY <1>1, <2>3 DEF Seen, Carries, Tracked, Shown, Overlays
      <3>2. started[p] \in Int /\ Retain \in Nat
        BY LiveRefreshAssumption DEF Inv, Typed
      <3> QED
        BY <2>1, <2>3, <3>1, <3>2
    <2>4. Told(p, job[p].prev, Merged(p, seen, kept))
      BY <1>1, <2>1, <2>2, <2>3, MergedTold
    <2> QED
      BY <1>1, <2>2, <2>4, CollectSeen
  <1> QED
    BY <1>2, <1>3

LEMMA CheckSeen ==
    ASSUME Inv, Seen, NEW p \in Procs, NEW m \in Matches, NEW answers \in BOOLEAN,
           CheckTracked(p, m, answers)
    PROVE  Seen'
  <1>1. PICK j, w, o : /\ j = job[p] /\ o = Observed(p, m)
                       /\ w = IF answers THEN [j.matches EXCEPT ![m] = o] ELSE j.matches
    OBVIOUS
  <1>2. pc[p] = "check" /\ m \in j.check /\ Collect(p, w, j.check \ {m})
    BY <1>1 DEF CheckTracked
  <1>3. /\ j.prev \in {None} \cup Overlays /\ Confirmed(j.prev) /\ j.check \subseteq Tracked(j.prev)
        /\ Told(p, j.prev, j.matches)
    BY <1>1, <1>2 DEF Seen, Carries
  <1>4. upstream[m] \in {"live", "completed"}
    BY <1>2, <1>3 DEF Tracked, Confirmed, Seen
  <1>5. o \in Sights /\ o.status = upstream[m] /\ o # None
    BY <1>1, <1>4, NoneAssumption DEF Observed, Sights, Inv, Typed
  <1>6. w \in [Matches -> {None} \cup Sights] /\ \A n \in Matches : w[n] = j.matches[n] \/ (n = m /\ w[n] = o)
    BY <1>1, <1>3, <1>5 DEF Told
  <1>7. Told(p, j.prev, w)
    <2>1. ASSUME NEW n \in Matches, w[n] # None
          PROVE  /\ upstream[n] # "scheduled"
                 /\ w[n].status = "completed" => upstream[n] = "completed"
      BY <1>3, <1>4, <1>5, <1>6, <2>1 DEF Told
    <2>2. ASSUME NEW n \in Tracked(j.prev)
          PROVE  \/ w[n] # None
                 \/ Mode[p] = "daily" /\ started[p] - Shown(j.prev, n).updated >= Retain
      BY <1>3, <1>5, <1>6 DEF Told, Tracked
    <2> QED
      BY <1>6, <2>1, <2>2 DEF Told
  <1> QED
    BY <1>1, <1>2, <1>3, <1>7, CollectSeen

LEMMA BeginSeen ==
    ASSUME Inv, Seen, NEW p \in Procs, NEW reason \in Reasons, Begin(p, reason)
    PROVE  Seen'
  <1>1. PICK j : j = [reason |-> reason, todo |-> {"snapshot", "state"}, prev |-> None,
                      fresh |-> FALSE, matches |-> None, check |-> {}]
    OBVIOUS
  <1>2. /\ job' = [job EXCEPT ![p] = j] /\ Goto(p, "read")
        /\ started' = [started EXCEPT ![p] = Clock(p)] /\ UNCHANGED <<snapshot, upstream, result>>
    BY <1>1 DEF Begin, published, world
  <1>3. /\ pc'[p] = "read" /\ job'[p] = j /\ job' = [q \in Procs |-> job'[q]]
        /\ \A q \in Procs \ {p} : /\ pc'[q] = pc[q] /\ job'[q] = job[q]
                                  /\ started'[q] = started[q] /\ result'[q] = result[q]
    BY <1>2 DEF Goto, Inv, Typed, Seen
  <1>4. Carries(p, job[p])'
    BY <1>1, <1>3 DEF Carries, Confirmed, Shown
  <1>5. snapshot' \in {None} \cup Overlays /\ Confirmed(snapshot)'
    BY <1>2 DEF Seen, Confirmed
  <1> QED
    BY <1>2, <1>3, <1>4, <1>5, OneMoves

LEMMA ReadSeen ==
    ASSUME Inv, Seen, NEW p \in Procs, NEW what \in {"snapshot", "state"}, Read(p, what)
    PROVE  Seen'
  <1>1. UNCHANGED <<snapshot, upstream>> /\ pc[p] = "read"
    BY DEF Read, published, world
  <1>2. snapshot' \in {None} \cup Overlays /\ Confirmed(snapshot)'
    BY <1>1 DEF Seen, Confirmed
  <1>3. CASE Leave(p)
    BY <1>1, <1>2, <1>3, LeaveSeen
  <1>4. CASE ~Leave(p)
    <2>1. PICK j : j = job[p] /\ Carries(p, j)
      BY <1>1 DEF Seen
    <2>2. PICK work : work = [j EXCEPT !.todo = j.todo \ {what},
                                       !.prev = IF what = "snapshot" THEN snapshot ELSE j.prev,
                                       !.fresh = IF what = "state"
                                                   THEN IsFresh(row, j.reason, started[p])
                                                   ELSE j.fresh]
      OBVIOUS
    <2>3. /\ job' = [job EXCEPT ![p] = work] /\ UNCHANGED <<started, result>>
          /\ \E step \in {"acquire", "read"} : Goto(p, step)
      BY <1>4, <2>1, <2>2 DEF Read
    <2>4. /\ work = [reason |-> work.reason, todo |-> work.todo, prev |-> work.prev,
                     fresh |-> work.fresh, matches |-> work.matches, check |-> work.check]
          /\ work.prev \in {snapshot, j.prev}
      BY <2>1, <2>2 DEF Carries
    <2>5. work.prev \in {None} \cup Overlays /\ Confirmed(work.prev)
      BY <2>1, <2>4 DEF Seen, Carries
    <2>6. /\ pc'[p] \in {"acquire", "read"} /\ job'[p] = work /\ job' = [q \in Procs |-> job'[q]]
          /\ \A q \in Procs \ {p} : /\ pc'[q] = pc[q] /\ job'[q] = job[q]
                                    /\ started'[q] = started[q] /\ result'[q] = result[q]
      BY <2>3 DEF Goto, Inv, Typed, Seen
    <2>7. Carries(p, job[p])'
      BY <1>1, <2>4, <2>5, <2>6 DEF Carries, Confirmed
    <2> QED
      BY <1>1, <1>2, <2>6, <2>7, OneMoves
  <1> QED
    BY <1>3, <1>4

LEMMA AcquireSeen ==
    ASSUME Inv, Seen, NEW p \in Procs, Acquire(p)
    PROVE  Seen'
  <1>1. UNCHANGED <<snapshot, upstream>> /\ pc[p] = "acquire"
    BY DEF Acquire, world
  <1>2. snapshot' \in {None} \cup Overlays /\ Confirmed(snapshot)'
    BY <1>1 DEF Seen, Confirmed
  <1>3. CASE Leave(p)
    BY <1>1, <1>2, <1>3, LeaveSeen
  <1>4. CASE ~Leave(p)
    <2>1. Goto(p, "list") /\ UNCHANGED <<started, job, result>>
      BY <1>4 DEF Acquire
    <2>2. /\ pc'[p] = "list" /\ \A q \in Procs \ {p} : pc'[q] = pc[q]
          /\ job' = [q \in Procs |-> job'[q]]
      BY <2>1 DEF Goto, Inv, Typed, Seen
    <2>3. Carries(p, job[p])'
      BY <1>1, <2>1, <2>2 DEF Seen, Carries, Confirmed
    <2> QED
      BY <1>1, <1>2, <2>1, <2>2, <2>3, OneMoves
  <1> QED
    BY <1>3, <1>4

(* What a publication shows is what the refresh was told. *)
LEMMA FinishPublishes ==
    ASSUME Inv, Seen, NEW p \in Procs, Finish(p), snapshot' # snapshot
    PROVE  /\ snapshot' \in Overlays /\ Confirmed(snapshot)'
           /\ snapshot'.generated = started[p] /\ Told(p, job[p].prev, snapshot'.matches)
           /\ UNCHANGED upstream
  <1>1. /\ pc[p] = "finish" /\ result[p].outcome = "succeeded" /\ UNCHANGED upstream
        /\ snapshot' = [generated |-> started[p], matches |-> job[p].matches]
    BY DEF Finish, published, world
  <1>2. Told(p, job[p].prev, job[p].matches)
    BY <1>1 DEF Seen, Carries
  <1>3. /\ snapshot'.generated = started[p] /\ snapshot'.matches = job[p].matches
        /\ started[p] \in Int /\ job[p].matches \in [Matches -> {None} \cup Sights]
    BY <1>1, <1>2 DEF Told, Inv, Typed
  <1>4. snapshot' \in Overlays
    BY <1>1, <1>3 DEF Overlays, Sights
  <1>5. Confirmed(snapshot)'
    BY <1>1, <1>2, <1>3 DEF Confirmed, Told, Shown
  <1> QED
    BY <1>1, <1>2, <1>3, <1>4, <1>5

LEMMA FinishSeen ==
    ASSUME Inv, Seen, NEW p \in Procs, Finish(p)
    PROVE  Seen'
  <1>1. UNCHANGED upstream /\ pc[p] = "finish"
    BY DEF Finish, world
  <1>2. snapshot' \in {None} \cup Overlays /\ Confirmed(snapshot)'
    <2>1. CASE snapshot' = snapshot
      BY <1>1, <2>1 DEF Seen, Confirmed
    <2>2. CASE snapshot' # snapshot
      BY <2>2, FinishPublishes
    <2> QED
      BY <2>1, <2>2
  <1>3. CASE Leave(p)
    BY <1>1, <1>2, <1>3, LeaveSeen
  <1>4. CASE ~Leave(p)
    <2>1. Conclude(p, "other") /\ UNCHANGED <<snapshot, started, job>>
      BY <1>4 DEF Finish, published
    <2> QED
      BY <1>1, <2>1, FailSeen
  <1> QED
    BY <1>3, <1>4

(* A match that starts or ends makes nothing wrong that was shown.           *)
LEMMA WorldSeen ==
    ASSUME Inv, Seen, UNCHANGED <<snapshot, pc, started, job, result>>,
           upstream' \in [Matches -> {"scheduled", "live", "completed"}],
           \A m \in Matches : /\ upstream[m] # "scheduled" => upstream'[m] # "scheduled"
                              /\ upstream[m] = "completed" => upstream'[m] = "completed"
    PROVE  Seen'
  <1>1. \A s : Confirmed(s) => Confirmed(s)'
    BY DEF Confirmed
  <1>2. snapshot' \in {None} \cup Overlays /\ Confirmed(snapshot)'
    BY DEF Seen, Confirmed
  <1>3. ASSUME NEW p \in Procs, pc'[p] # "idle"
        PROVE  Carries(p, job[p])'
    <2>1. PICK j : j = job[p] /\ Carries(p, j)
      BY <1>3 DEF Seen
    <2>2. Told(p, j.prev, j.matches) => Told(p, j.prev, j.matches)'
      BY DEF Told
    <2>3. Carries(p, j)'
      BY <1>1, <2>1, <2>2 DEF Carries
    <2>4. job'[p] = j
      BY <2>1
    <2> QED
      BY <2>3, <2>4 DEF Carries, Told, Confirmed
  <1> QED
    BY <1>2, <1>3 DEF Seen

LEMMA SeenStep ==
    ASSUME Inv, Seen, [Next]_vars
    PROVE  Seen'
  <1>1. CASE \E m \in Matches : Kickoff(m) \/ FullTime(m)
    <2>1. PICK m \in Matches : Kickoff(m) \/ FullTime(m)
      BY <1>1
    <2>2. /\ UNCHANGED <<snapshot, pc, started, job, result>>
          /\ \/ upstream[m] = "scheduled" /\ upstream' = [upstream EXCEPT ![m] = "live"]
             \/ upstream[m] = "live" /\ upstream' = [upstream EXCEPT ![m] = "completed"]
      BY <2>1 DEF Kickoff, FullTime, published
    <2>3. /\ upstream' \in [Matches -> {"scheduled", "live", "completed"}]
          /\ \A n \in Matches : /\ upstream[n] # "scheduled" => upstream'[n] # "scheduled"
                                /\ upstream[n] = "completed" => upstream'[n] = "completed"
      BY <2>2 DEF Seen
    <2> QED
      BY <2>2, <2>3, WorldSeen
  <1>2. CASE Tick \/ UNCHANGED vars
    <2>1. UNCHANGED <<snapshot, pc, started, job, result, upstream>>
      BY <1>2 DEF Tick, vars, published, world
    <2> QED
      BY <2>1, WorldSeen DEF Seen
  <1>3. ASSUME NEW p \in Procs, \E reason \in Reasons : Begin(p, reason)
        PROVE  Seen'
    BY <1>3, BeginSeen
  <1>4. ASSUME NEW p \in Procs, Crash(p)
        PROVE  Seen'
    BY <1>4, LeaveSeen DEF Crash, published, Seen, Confirmed
  <1>5. ASSUME NEW p \in Procs, Advance(p)
        PROVE  Seen'
    <2>1. CASE \E what \in {"snapshot", "state"} : Read(p, what)
      BY <2>1, ReadSeen
    <2>2. CASE Acquire(p) \/ Finish(p)
      BY <2>2, AcquireSeen, FinishSeen
    <2>3. CASE \E seen \in SUBSET Observable : ListWidget(p, seen) \/ ListDaily(p, seen)
      BY <2>3, ListSeen
    <2>4. CASE \E m \in Matches, answers \in BOOLEAN : CheckTracked(p, m, answers)
      BY <2>4, CheckSeen
    <2>5. CASE \E code \in {"blocked", "other"} : SourceFails(p, code)
      BY <2>5, FailSeen DEF SourceFails, published, world
    <2> QED
      BY <1>5, <2>1, <2>2, <2>3, <2>4, <2>5 DEF Advance
  <1> QED
    BY <1>1, <1>2, <1>3, <1>4, <1>5 DEF Next

THEOREM SeenInvariance == Spec => [](Inv /\ Seen)
  <1>1. Init => Inv /\ Seen
    <2>1. Init => Seen
      BY DEF Init, Seen, Confirmed, Shown
    <2> QED
      BY <2>1, InitInv
  <1>2. Inv /\ Seen /\ [Next]_vars => (Inv /\ Seen)'
    BY Step, SeenStep
  <1> QED
    BY <1>1, <1>2, PTL DEF Spec

(* The overlay shows as completed only what the provider has ended: a match   *)
(* that is gone from a list never counts as over.                            *)
THEOREM CompletedOnlyWhenEnded == Spec => []CompletedIsConfirmed
  <1>1. Seen => CompletedIsConfirmed
    BY DEF Seen, Confirmed, CompletedIsConfirmed
  <1> QED
    BY <1>1, SeenInvariance, PTL

(* A refresh that replaces the snapshot it carries matches over from forgets  *)
(* no live match, but one the daily source has not listed for too long.       *)
THEOREM LiveMatchesStay == Spec => LiveIsNotForgotten
  <1>1. Inv /\ Seen /\ [Next]_vars
          => [ \A p \in Procs : \A m \in Tracked(snapshot) :
                 /\ pc[p] = "finish" /\ pc'[p] # "finish" /\ snapshot' # snapshot
                 /\ job[p].prev = snapshot
                 => \/ Shown(snapshot', m) # None
                    \/ /\ Mode[p] = "daily"
                       /\ snapshot'.generated - Shown(snapshot, m).updated >= Retain ]_vars
    <2> SUFFICES ASSUME Inv, Seen, Next, NEW p \in Procs, NEW m \in Tracked(snapshot),
                        pc[p] = "finish", pc'[p] # "finish", snapshot' # snapshot,
                        job[p].prev = snapshot
                 PROVE  \/ Shown(snapshot', m) # None
                        \/ /\ Mode[p] = "daily"
                           /\ snapshot'.generated - Shown(snapshot, m).updated >= Retain
      OBVIOUS
    <2>1. PICK q \in Procs : Finish(q)
      <3>1. ~ Tick /\ ~ \E n \in Matches : Kickoff(n) \/ FullTime(n)
        BY DEF Kickoff, FullTime, Tick, published
      <3>2. ASSUME NEW q \in Procs, Acquire(q) PROVE FALSE
        BY <3>2 DEF Acquire
      <3>3. ASSUME NEW q \in Procs, Crash(q) \/ \E reason \in Reasons : Begin(q, reason)
            PROVE  FALSE
        BY <3>3 DEF Crash, Begin, published
      <3>4. ASSUME NEW q \in Procs, Advance(q), ~ Acquire(q), ~ Finish(q) PROVE FALSE
        <4>1. UNCHANGED published
          BY <3>4, QuietStep DEF Inv, Advance
        <4> QED
          BY <4>1 DEF published
      <3> QED
        BY <3>1, <3>2, <3>3, <3>4 DEF Next
    <2>2. q = p
      BY <2>1 DEF Finish, Leave, Conclude, Goto, Inv, Typed
    <2>3. /\ snapshot' \in Overlays /\ snapshot'.generated = started[p]
          /\ Told(p, snapshot, snapshot'.matches)
      BY <2>1, <2>2, FinishPublishes
    <2>4. Shown(snapshot', m) = snapshot'.matches[m]
      BY <2>3, NoneAssumption DEF Shown
    <2> QED
      BY <2>3, <2>4 DEF Told
  <1> QED
    BY <1>1, SeenInvariance, PTL DEF Spec, LiveIsNotForgotten
=============================================================================
