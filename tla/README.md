# Miraichi: a TLA+ development

Miraichi is an owner-only record of football data, bets and a points bankroll. A browser application talks through a
stateless Cloudflare Worker to a Supabase Edge API over one PostgreSQL database; scheduled runs bring provider data in;
a few owner-local jobs and a file queue do the same on the owner's machine. There is one owner, but never one request at
a time: pages are open in several tabs, requests are sent again, cron runs overlap with page loads, handlers read and
write over several awaits, and hosts stop anywhere. This directory models the parts in which that matters.

Every module checks with TLC as `tlc -config <run>.cfg <module>`; the `*Proofs` modules check with `tlapm`.

## 1. Inventory

Paths are relative to the repository. "Properties" says what makes the component correct, whether or not it is checked
here; section 4 says what is.

| Component | State | Operations | Meets |
|---|---|---|---|
| **Bet settlement** `apps/api/src/services/bet-settlement-service.ts`, `terminal-bet-reconciliation.ts`, `routes/bet-settlements.ts`, `SupabaseCloudPersistenceAdapter.applyBetSettlement` | bet row, settlement events, ledger entries, account balance | settle, correct, retry, automatic settlement, manual review | owner bets, bankroll, calculators, provider refresh |
| **Owner bets** `routes/bets.ts` | bet rows | POST (behind the gate), PATCH | settlement, gate |
| **Bankroll** `services/single-bankroll-service.ts`, `routes/bankroll.ts` | accounts, ledger, configuration | first-run setup, create, archive, deposit, withdraw, transfer, correct | settlement |
| **Discipline gate** `services/discipline-service.ts`, `routes/discipline.ts` | versioned configuration, challenges | evaluate, challenge, consume, reconfigure | owner bets, bankroll |
| **Settlement calculators** `packages/shared/src/calculator/*`, `contracts/structured-bet-selection.ts` | none | validate a selection, evaluate it on row and detail, profit and loss | reconciler, hosted detail |
| **Live refresh** `live/live-refresh-coordinator.ts` and its two sources | snapshot, refresh state with lease | refresh, publish, fail | browser, serving store |
| **Hosted provider refresh** `refresh/*`, planners and merge in `apps/worker/src/sources` | match rows, ledger (dates, targets, circuits), lease, revision | current run, terminal run | reconciler, hosted detail |
| **Match detail refresh queue** `repositories/match-detail-refresh-queue.ts` | items, `queue.json`, backup, lock file | enqueue, due items, mark processing / completed / failed | local detail store |
| **Hosted match detail** `detail/*`, `routes/match-detail.ts` | detail cache, provider control (lease, budget, circuit) | read, acquire, finish, reconcile | reconciler, provider refresh |
| **Local match detail store**, **serving match store** `repositories/*` | files, projections | write, publish, fall back | worker jobs, live refresh |
| **Owner backup** `routes/backups.ts`, `scripts/release/*` | export documents | export, import, encrypt, prune | everything the owner owns |
| **Owner authentication** `auth/*` | revocation epoch, attempt windows | log in, log out everywhere, check | router |
| **Worker jobs** `apps/worker/src/jobs/*`, ledgers and file leases | ledger files, lock files, snapshot versions, manifest | season hydration, terminal results, publication | provider refresh (same planners and merge) |
| **Web application** `apps/web/src/shell-entry.ts` and its controllers | open sheet, add-bet session, pending challenge, records last loaded, match detail | add, edit, save, discard, record, finalize, open a match | bets, drafts, gate, hosted detail |
| **Bet drafts** `routes/bet-drafts.ts` | `bet_draft` rows | save, delete | web application |
| Reports, contracts, router and runtimes, PostgreSQL client and migrations, Cloudflare gateway, release scripts | see `PROJECT.json` | | |

**How they interact.** The settlement route, PATCH /bets and the reconciler read and write the *same* bet row: the
settlement by a transaction that locks it, PATCH by an unconditional write of the row it read. POST /bets evaluates the
gate on four reads that the settlement and the configuration route may overtake. A terminal provider run hands the
matches it completed to the reconciler, which reads the cached detail, calls the calculators and settles through the
settlement service. Live refresh and provider refresh never write each other's tables.

**What is hard.**
- *Interleaving*: every handler is several awaits; only the statements inside `transaction` are atomic.
- *Late answers*: a handler of the page reads the page's variables again when its answer arrives; the owner has gone on.
- *Leases*: live refresh, provider refresh, hosted detail and the file queue each have their own, with expiry, takeover
  and a fenced commit; a holder can be arbitrarily slow.
- *Retries*: settlement events are idempotent by id; set-up is sent twice; challenges are used once.
- *Partial evidence*: two provider feeds that lag, contradict each other, answer 304 and leave sections out.
- *Crash points*: two renames in the queue file, a lease held by a stopped process, a result published before its bets
  are reconciled.
- *Numbers*: quarter lines, half wins in ten-thousandths, limits that are inclusive on one side.

**Correctness per component.** Settlement: a bet is paid once, row, event log, ledger and balance agree, corrections
rest on an event of the bet. Bets: a note does not undo a settlement. Bankroll: balance = opening + ledger, no
withdrawal below zero, one opening. Gate: nothing a rule catches is recorded unacknowledged, an acknowledgement serves
the attempt it was made for. Calculators: what is settled is what was played. Live refresh: forward only, nothing shown
as ended that has not, no live match forgotten, one asker per lease. Provider refresh: checkpoint and row together, no
result hidden, results stay, limits kept. Queue: exclusive and all-or-nothing. Worker jobs: the manifest names a
complete version, nothing published is lost, nothing is ticked off that was not published. Hosted detail: published only
from the row it was asked for, forward only, renewed only for the detail the source vouched for. Browser: a linked bet
names its match, a draft keeps its match and goes only after its bet, no detail of another match. `PROJECT.json` lists the hazards line by
line with the properties that cover them.

## 2. Modules

| Module | What it models | State and actions against the code |
|---|---|---|
| `BetSettlement` | the settlement service, route, reconciler and the SQL transaction | `bet`, `event`, `ledger`, `balance` are tables; `pc/cmd/snap/delta` a request in flight. `ReadRecord`, `ReadEvents`, `ApplyBetSettlement` are the three awaits of `settleBet`; the last is replay, refusal or commit. `FailSettlement` is `settleBet` throwing at any of them. `ListPendingBets`, `NextQueued`, `SettleAutomatically`, `MarkManualReview`, `FailManualReview` are the reconciler, and `failed` the bets its `catch` has counted. |
| `OwnerBets` | EXTENDS `BetSettlement` with PATCH /bets | the read and the write-back of the whole row |
| `Bankroll` | accounts and ledger | set-up, which lists once more after a refused insert, one action per await; a transfer is one transaction |
| `DisciplineGate` | POST /bets and /discipline-challenges | one action per read, `Acceptable`, the conditional consumption, the insert |
| `BetOutcome` | the calculators, pure | quarter goals and ten-thousandths as integers |
| `OutcomeEvidence` | EXTENDS `BetOutcome`: a match is played, row and detail are written, the reconciler evaluates | `PublishRow`, `CacheDetail(page)` with `Adapted` as the two detail adapters, `Reconcile` |
| `LiveRefresh` | the coordinator, both sources, the upsert and the fenced publication | `Begin`, `Read`, `Acquire`, `ListWidget` / `ListDaily`, `CheckTracked`, `Finish`, `Crash`; each process has a clock offset |
| `ProviderRefresh` | current and terminal runs | `Acquire`, `FetchTarget`, `FetchDate`, `Finish`, `Reconcile`, `Abort`, with the planners (`DueMatches`, `DueTargets`), the merge (`Accepted`) and the old ledger (`Migrated`) |
| `RefreshQueueItems` | what one queue call does to the items | pure, shared by the next two |
| `RefreshQueue` | **abstract specification**: a call takes effect as a whole, at once | |
| `RefreshQueueStore` | the same calls over lock file, temporary file, `queue.json`, backup, with refused renames and stops | refines `RefreshQueue` (`ImplementsQueue`, `INSTANCE ... WITH`) |
| `WorkerJobs` | the season job and the result job of the owner's machine on one data root | one action per lock, read, request, merge, version file, manifest and ledger write; a lock names its owner, who may have stopped |
| `HostedDetail` | the detail of a match on a request of the owner | `Acquire` (per-match and per-provider lease, daily budget, circuit), `Ask`, `Answered`, and `Publish`, `Discard` or `NoteFailure` as the outcomes of the fenced `finish`, against other writers of the row |
| `OwnerShell` | the page while bets are added, with the draft and bet routes behind it | a handler that awaits is a task; `form`, `sheet`, `open`, `pending`, `known` are the page's variables, read again when an answer arrives; leaving the detail or its info tab outdates the answer under way; the fields of the form are filled in one step (`Filled`) because no waiting task reads them |

`MC*` modules give the constants values; `LedgerSums` holds the sum of a ledger's entries, for `BetSettlement` and
`Bankroll`. The theorems are in one module per component: `BetSettlementProofs` (with those of `OwnerBets` and
`Bankroll`, whose ledger needs the same lemmas), `DisciplineGateProofs`, `LiveRefreshProofs`, `ProviderRefreshProofs`,
`WorkerJobsProofs`, `MatchDetailProofs` (for `HostedDetail` and the queue's files), `OwnerShellProofs`, and `BetOutcomeProofs` for the calculators together with `OutcomeEvidence`. Definitions whose comment begins
with "Fault:" are plausible mistakes in the code that the properties were tried against; no specification uses them. `PROJECT.json` maps every definition to its lines.

### Abstractions worth knowing
Amounts that a settlement pays are a constant (`ProfitLoss`) in `BetSettlement` and computed in `BetOutcome`. A live
match has no minute. The gate's daily and weekly stop-loss are one rule. `ProviderRefresh` has equal clocks, one
provider and completed results only (no postponement). `OutcomeEvidence` lets at most one of the two feeds show a wrong
final score, and provider scores count extra time; cached details are written whole there, the 304 of the detail is part
of `HostedDetail`. `WorkerJobs` has one season file and one date per match and abstracts a snapshot to the results it
holds. `HostedDetail` measures leases, spacings and pauses as the time that is left, and a new UTC day is an action of
its own; one provider at a time. In `OwnerShell` teams are the match that has exactly those names, or none; a draft is
its match group; stakes, odds and selection are complete, and the row of a match is never removed (a draft whose match
row has gone may change its group, `bet-drafts.ts:36`).

Smaller omissions: terminal entries of the provider ledger are never pruned (`hosted-provider-refresh.ts:208`); the files
of a serving version are written in one step, because nothing names a version before it has been verified; a write to
the queue's lock file or its release that fails in a living process is left out (the lock then stays, and calls time out
without changing anything, until it is stale or the process ends); where and when the context of a running bet was taken
is validated by the code but pays nothing (`structured-bet-selection.ts:104`).

## 3. Runs

| Run | Specification, bounds | Shows |
|---|---|---|
| `settle_race` | 2 bets, 2 event ids, 1 reconciler, results won / push; 2 owner requests at once while there is one bet, 1 when there are two (`InScope`) | paid once; row, log, ledger and balance agree; retries change nothing; a commit on an unchanged row keeps row and ledger equal; a bet that fails in the reconciler keeps no other listed bet from being settled or marked |
| `patch_lost_update` (violated) | 1 request, 1 reconciler, 1 PATCH | a note undoes a settlement |
| `bankroll_ledger` | 2 accounts, 1 set-up, 1 creator, 2 entries | ledger identity, covered withdrawals, final opening |
| `gate_race` | 2 requests, 2 bets one at a time, 1 challenge, 1 reconfiguration | no unacknowledged violation, acknowledgements bind |
| `live_race` | 2 processes with clocks one tick apart on different sources, 2 matches, 1 stop | order, exclusion, no early end, nothing forgotten |
| `live_ends` | 2 processes, no matches, 1 stop, time to 4 | a stopped refresh does not stay "running" |
| `provider_race` | 2 runs at once of 3, 2 matches, 1 date, 1 target, 1 fault | checkpoint with row, no hidden result, results stay, spacing, ledger forward |
| `queue_store` | 2 processes, 4 calls, 1 stop, 1 match | lock exclusive and in use; the files implement `RefreshQueue` |
| `outcome_evidence` | 30 selections of all markets, placed at minute 0, 15 or 50, up to 2 goals at minutes 15, 46 and 100, 3 reports | settled and paid as played, conclusive evidence settles |
| `jobs_publish` | 2 processes, both jobs, 2 matches, 2 versions, 2 provider news, 1 fault | the manifest names a complete version; results stay; nothing is ticked off or hidden that was not published |
| `detail_publish` | 2 requests of 1 match, 2 source ids, 2 bodies, lease 1, 2 rewrites of the row | published from the row that was asked for, forward only, a 304 renews what it is about; no request waits for ever (deadlock is checked) |
| `owner_shell` | 2 handlers under way, 2 drafts, 2 matches; 2 submissions and 1 view, or 5 views | linked bets name their match, drafts keep theirs and go after their bet, no stale detail |

**Why the bounds are enough.** Every race here is between two actors over one row, so two requests (and the reconciler)
with one bet show it; a third adds only repetitions, except in the queue's lock, where three processes matter and the
failure is recorded in section 6. Two event ids allow a first settlement, a correction, and a retry of either. A second
bet is there for the reconciler's batch, of which one bet fails, is overtaken or goes to review and the other must still
be examined; `InScope` keeps out only two owner requests at once *and* a second bet, which never meet in one row. In
`live_race` two ticks of lease and retention with a time of 3 let a lease expire, be taken over and the first holder
commit late; one check of two disappeared matches exceeds the budget. In `provider_race` the second match starts later,
so a body can be asked for before it is due, and three runs suffice for holder, successor and late commit. In
`outcome_evidence` minutes 15, 46 and 100 are a window's boundary, the second half and extra time; three reports allow
row, detail and one rewrite of either; the lines cover each remainder by four, negative lines included; stake 1.0001 and odds
0.9501 make each rounding visible. In `jobs_publish` two processes are the two jobs, or one that finds the lock of a
stopped one; two versions let the second be built on the first. In `detail_publish` a lease of one tick lets the first
request outlive it, the second publish, and the first come back; two edits of the row are a rebinding and a status. In
`owner_shell` two submissions are a record and its finalization, or a record and a draft saved or discarded meanwhile;
five views open a match, ask for its detail, leave, and open and ask for another while the first answer is under way.

**Deadlock** is not checked where requests, calls, reports or clocks are bounded: such a system stops when they are used
up. Where it matters that something ends, a liveness property says so.

## 4. Fairness

- `BetSettlement`: weak fairness of each request's next step and of the reconciler's loop. A query is answered, fails or
  times out, and the handler continues or throws; no answer is assumed to be a good one (`FailSettlement`,
  `FailManualReview`), and nothing forces a request to arrive. Without it `ListedBetResolved` says nothing. A host that
  stops in the middle of a batch is not part of it: what that leaves behind is in section 6.
- `LiveRefresh`: requests have timeouts, time passes, and the scheduler and the open page keep asking (`Begin`), which
  `RunningEnds` needs: no process watches a stopped one, the *next* refresh takes its lease.
- `HostedDetail`, `WorkerJobs` and `OwnerShell` assume nothing of answers: any of them may be lost for ever.
- The other specifications state no fairness and only safety is checked of them.

## 5. What is proved

For every value of the constants, any number of processes, requests, matches and time, from the named assumptions of the
modules only. The assumptions type the constants, keep the marks (`None`, `Free`, ...) apart from the values, and state
the relations between the times that the code's constants have: the recheck pause is no longer than a lease, a match
outlasts the first check by a lease, a detail's lease lies between a provider's spacing and
the pause of a match after an attempt, which no refusal undercuts.
Each invariant below was checked by TLC on the component's run before it was proved. Names in brackets are the parts of
the inductive invariant that the argument needs.

- **`BetSettlementProofs`**: `TypeCorrect`; `BetSettledOnce`, `RowMatchesLog`, `ReviewCheckHolds`,
  `CorrectionsGrounded`, from one inductive invariant `TypeOK /\ SafetyInv`. `SettledOnce` is not inductive alone: a
  first settlement commits because the row is not settled, so the status has to be tied to the log (`SettledIffEvent`);
  a correction commits because of an event it saw two awaits earlier, so what a waiting request has seen has to be
  carried (`GroundedApply`), and a replay is recognised by its event, so entries exist exactly with events
  (`EntryIffEvent`). `LedgerAppendOnly` is the action property from the same invariant. `BalanceIsLedger` and
  `ProjectionIsKept` (`FreshCommitKeepsProjection`) are about sums over a log of any length. `MapThenSumSet` takes the
  elements in an order that `CHOOSE` fixes; `Adds` says what every order gives, `SumsExist` finds it by a smallest
  counterexample among the finite sets (`WFMin` on the strict subset order, which takes no operator parameter), and from
  there `OneMoreEntry` adds an entry in one step. `SumInv` says that the log is finite and that a request about to
  commit carries the amount that follows from the row it read.
- **PATCH** (`OwnerBets`), in the same module: `PatchKeepsBalance`, `PatchKeepsLedger` and `PatchKeepsGrounds` bound
  what the finding of section 6 can do. A row written back as pending breaks `SafetyInv`, but log, ledger and balance
  do not depend on rows: `MoneyInv` keeps of it only that entries exist exactly with events, and is inductive with
  PATCH among the steps; `Grounds`, what a correction rests on, does not depend on rows either.
- **The bankroll's ledger**, also there for the sake of these lemmas: `BankBalances` (`BalancesMatchLedger`),
  `BankCovered` (`WithdrawalsCovered`), `BankOpenings` (`OpeningIsFinal`). `BankSteps` reduces every route to three
  effects: an account is opened under a free id, is archived, or one covered entry is posted. The invariant (`BankInv`)
  needs that entries name accounts that exist: only so does an account created later start with nothing moved on it.
  `SettlementsArePostings` composes the two modules: under a mapping of the balance to the primary account and of the
  settlement ledger to its entries (`Points == INSTANCE Bankroll WITH ...`), every commit of `BetSettlement` is
  `PostSettlement` and every other step leaves the account alone.
- **`DisciplineGateProofs`**: `AttemptIsChallenged`, for any number of writers: the challenge of an acknowledged bet had
  its payload, its triggered rules and its rule version, is used up, and its cooldown was over (`Founded` carries what a
  request has found from one await to the next). A challenge keeps a version, not a configuration; that both are the
  same is `AcknowledgedAsChallenged`, under `OneWriter` (`Unambiguous`: among all configurations still held anywhere a
  version names one, and the one about to be saved is new). Two writers really do break it (section 6).
  `NoWarningIsLost`: under `OneBetSpec`, the owner who records one bet at a time, what a request has read of account,
  configuration and bets may be stale, but never in a way that hides a rule (`Steady`, `Sound`).
- **`LiveRefreshProofs`**: `PublishedMovesForward`, from `Ordered`: the row's attempt is never older than the snapshot
  and strictly newer while running. `LeaseExcludes`, for any clock offsets, from `Holding` (whoever asks has the lease
  or an attempt a lease later has replaced it) and `Spaced` (two askers started a lease apart). `CompletedOnlyWhenEnded`
  and `LiveMatchesStay` from `Seen`: whatever the snapshot shows, or a refresh is about to show, as completed
  the provider has ended, and what a refresh has put together accounts for every tracked match of the snapshot it
  carries over from, except one the daily source has not listed for the retention time.
- **`ProviderRefreshProofs`**: `CheckpointsMatchRows`, `NoResultIsHidden`, `ResultsStay`, `LedgersMoveForward`,
  `DateRequestsAreSpaced`. Rows and ledger change only together with the revision, so while the revision is the one a
  run has read, what it carries can be compared with both as they still are (`Based`). Runs in flight at once started a
  lease apart (`Leased`, `Apart`), and a run that gave the lease back early left the pause of its date in the ledger
  (`Rested`, `Spaced`): that spaces the requests. An ETag hides nothing because a run that may still publish has asked
  soon enough after it planned to have every ended match in its base (`Telling`), which is where the length of a match
  and the lease have to fit.
- **`WorkerJobsProofs`**: `ManifestIsComplete` needs no lock at all: a version is begun under a number nobody uses, and
  a job removes only its own (`Begun`). `NoSeasonIsHidden`, `PublicationsKeep`, `TickedOffIsPublished` hold as long as
  no running process lost its lock (`~evicted`, the premise of the three properties themselves, since the takeover of a
  dead lock can evict a live one, section 6): then a job at work has the publication lock (`Exclusive`), so what it
  built is compared with the snapshot that it still replaces (`Based`), and the ledgers claim only what is published
  (`Recorded`).
- **`MatchDetailProofs`, the hosted detail**: `FencedPublication`, `DetailNeverGoesBack`, `RenewedDetailIsVouchedFor`.
  The fence on the row gives the first; that the body of one source never goes back needs the lease too: while a
  request holds the match nobody else publishes, so what is cached is not newer than what the source answered
  (`Leased`), and the ETag a request sends is that of the detail cached under that lease (`Kept`, `Carried`).
- **`MatchDetailProofs`, the queue's files**: `LockWithSoleTaker` and `FilesKeepPromise`, for any number of processes,
  as long as no two of them remove a stale lock at the same time (`SoleTaker`; without it three processes break
  `OneHolder`, section 6). With two processes the condition always holds, since a third would have to be the stopped
  owner, which gives `LockOfTwo` and `FilesOfTwoKeepPromise` without it. `LockInv`: who works on the files has the
  lock (`HolderHasLock`), a lock is of somebody who works or stopped while working (`LockHasHolder`), and is taken
  from stopped processes only (`TakenFromStopped`). From there nobody else touches the files between a call's reading
  and its writing, so what it read is what the files still stand for (`ViewIsStored`), and `FilesFollow` says which of
  `queue.json` and its backup exists at each point of the replacement. `StepKeepsPromise` then maps every file
  operation to a step of `RefreshQueue` or a stutter; `ApplyTyped` says that every call makes a queue state of one.
  The refinement also needs `SpuriousRefusals = FALSE`, without which it is false (section 6).
- **`OwnerShellProofs`**: `LinkIsChecked`; `LateAnswersAreDropped` from `Outdated` (an answer of another match has a
  number that is no longer the current one); `DraftOutlivesItsBet` from `Stored` (a recording at its deletion has
  stored its bet); `GroupIsForGood` from `Grouped`: there is *one* assignment of groups to drafts with which the
  database, the page and everything on its way agree, and which only the creation of a draft extends.
- **`BetOutcomeProofs`**: `AsianGrades`: for every integer result, every line and both directions, the split over two
  legs pays by the distance to the line. `SettlementsMatchPlay`: whatever the goals, in any order of reports, an
  automatic settlement grades the bet as the match was played. Its invariant (`Evidence`) has a part that never changes
  during a behaviour (`Fixed`: the bet is valid, the goals are finite, the bet was placed on the score of its minute)
  and one on what the feeds have shown (`Evident`): the feed that is not faulty shows only true scores, and cached goals
  are goals that fell. `ScoreIsTrue` is the heart: the calculators accept a score only when row and detail
  agree on it, and one of the two is right. From there one lemma per market (`ResultGrades`, `CornersGrade`,
  `ToWhistleGrades`, `FixedWindowGrades`), where a window's goals are counted (`CountedMore`) against the score the bet
  was placed on. `SettlementsPayPlay`: with `PaymentRounds`, what is paid is the exact share to within half a unit, for
  every stake and odds. `ConclusiveSettles`: on evidence that is complete and true in both feeds the calculators do
  settle. All three leave out full-time bets of a match with extra time (section 6).

Only model-checked:

- *Liveness* (`ListedBetResolved`, `RunningEnds`): fairness and ENABLED are beyond the proof system.
- *Several takers of one lock*: what holds of the queue and the jobs when two processes remove a stale lock at once is
  little; the theorems exclude it (`SoleTaker`, `~evicted`) and section 6 records the failures.

Every other property of the passing runs is stated by a theorem.

## 6. Disagreements between the code and its documents

`patch_lost_update` is a run whose property is violated (`findings` in `PROJECT.json` quotes the document): *PATCH undoes
a settlement*, because it writes back the whole row it read.

Three more are definitions of the models that TLC refutes when they are checked in place of a run's properties:

- *A push cannot be settled*: `StandardOutcomesAccepted` in `settle_race`. ADR-0046 line 30 lists push and void among the
  standard outcomes; the transaction inserts a ledger entry of 0 points, and
  `20260702052851_phase9_cloud_persistence.sql:110` has `check (amount_points <> 0)`. The reconciler counts such a bet
  as failed and leaves it pending and unmarked, as it does with every bet whose settlement throws.
- *A match that a season file completes is not reconciled*: `CompletedIsReconciled` in `provider_race`.
  `hosted-provider-refresh.ts:67` reconciles only after a terminal run, and the terminal planner never returns to a
  completed row; the plan of 2026-09-15 (line 143) reconciles "after canonical terminal publication".
- *Extra time is settled as full time*: `ExtraTimeIsReviewed` in `outcome_evidence`. The same plan (line 39) makes
  extra-time ambiguity a manual review; `fotmob-detail-adapter.ts:63` leaves the extra-time score null, so the check in
  `structured-bet-outcome.ts:122` never fires.

Found with TLC while choosing the passing runs, and reproducible by the change named:

- *Two corrections drift the ledger*: check `ProjectionMatchesLedger` on `MCBetSettlement` under `Spec`, with 1 bet, 3 event ids
  and the types full_win and full_loss. Both subtract the result that was there before either.
- *Two POST /bets exceed the balance together*: check `UnacknowledgedBetsAreClean` under `Spec` in place of
  `OneBetSpec`, without writers.
- *Two writers of the configuration* save the same next version, so a challenge of one passes under the other: two
  members in `Writers`.
- *Two active accounts* after set-up and creation both listed an empty database; and set-up's default configuration
  replaces one saved in between.
- *Two holders of the queue's lock*: `OneHolder` with three processes; the slower takeover unlinks the lock that the
  faster one has just made.
- *The queue's only copy is dropped*: `ImplementsQueue` with `SpuriousRefusals = TRUE`.
- *A terminal run that stops, or whose reconciler throws, after publication* leaves its bets pending: no later run
  returns to a completed match.
- *A renewed detail can stay useless*: `RefreshedDetailIsUsable` in `detail_publish`. A 304 renews `last_success_at` but
  not the status and `updatedAt` inside the cached document (`hosted-match-detail-store.ts:95`), so a detail cached
  before its row was completed stays refused by the calculators until the provider's body changes, although the plan of
  2026-09-15 (line 145) lets "a retry" use an owner-refreshed detail.
- *Two jobs publish from one base*: `BasedOnPublished` in `jobs_publish` with `DateOf <- SameDate` and `Known = {1, 2}`:
  two takers of a dead publication lock, the slower unlink removing the fresh one.
  `docs/data/sportscore-local-operations.md:160` says that concurrent commands cannot.
- *A local result hides behind an ETag*: `NoHiddenResult` of `WorkerJobs`. The body is filtered to the matches of this
  run and the ETag kept; the hosted refresh pauses the date instead. A match that was postponed is ticked off for good
  (`2026-08-31-fotmob-terminal-results-design.md`, lines 38 and 86).
- *Recording a bet deletes another draft*: `RecordedDraftIsRemoved` in `owner_shell`. The handler reads `editingDraftId`
  after the bet was stored (`shell-entry.ts:1559`); if the owner has closed the sheet and opened a draft meanwhile, that
  one is deleted. Nine steps: add, record, close, edit a draft, the two answers, and the deletion.
- *A discarded draft comes back*: `PUT /bet-drafts` looks the draft up and then upserts it; a deletion in between is
  undone (`Checked` and `Save` of `OwnerShell` are two steps for that reason).
- *A late closing*: the handler of a recorded bet closes whatever sheet is open when it ends, a new session included
  (`Done`), and a challenge opens over whatever the owner does by then (`Challenged`). The add form has no guard against
  a second submission, so two quick ones are two bets.

## 7. Plan

The order followed the money first, then what feeds it: settlement, bets, bankroll, gate; live refresh; provider
refresh; queue; calculators and evidence. Next:

1. The composition of `HostedDetail` with `OutcomeEvidence` in place of the atomic `CacheDetail`, so that what a renewed
   detail costs the reconciler is seen in the outcome.
2. `OwnerBackup`: export table by table against running settlements, import, and the ledger identity afterwards.
3. The local detail store: the queue's lock protocol over a second kind of file.
4. `OwnerSession`: log in, revocation epoch, attempt limiter.
5. `ServingProjection`: live overlay over canonical rows, and when a completed match may leave the overlay.
6. Liveness of hydration targets behind one that always fails (`selectRunnableTier`).

The set of runs stays small enough to repeat on every change: a new component shares a run with what it extends, or
replaces one that says less.

Theorem to add, once the detail is composed with the evidence: that the requests of `HostedDetail` in place of
`CacheDetail` keep `SettlementsMatchPlay`.

## 8. What is not modelled, and why

Parsing, identities and HTTP (no state; their results are the inputs enumerated); contracts, validators and static
tables; rendering; cryptography; the router, runtimes and the gateway (wiring); reports (sums over settled bets); the
release and operator scripts (run by hand, one at a time); the SportScore publication job, which takes no lease but is
called from tests only; the replacement of a ledger file on systems that refuse to rename over a file. Owner backup,
owner authentication, the serving store and the local detail store are components of their own that the plan above
leaves for later.
