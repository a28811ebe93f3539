------------------------------- MODULE Bankroll -------------------------------
(***************************************************************************)
(* Bankroll accounts and their ledger: first-run setup, the account, ledger*)
(* and transfer routes, and the entries that settlements post.  Setup and  *)
(* account creation list the accounts first and insert later, so they can  *)
(* overtake each other; a ledger entry or a transfer is one transaction.   *)
(***************************************************************************)
EXTENDS Integers, FiniteSets, LedgerSums

CONSTANTS
    Accounts,        \* account ids
    Legacy,          \* accounts there may already be before the first setup
    Primary,         \* the id "bankroll-primary" that setup creates
    Openings,        \* opening balances that may be asked for
    Amounts,         \* sizes of deposits, withdrawals, corrections, settlements
    Entries,         \* ids of ledger entries and of transfers
    Setups,          \* concurrent POST /setup requests
    Creators,        \* concurrent POST /accounts requests
    Absent

(* The rows of bankroll_account and bankroll_ledger_entry; a transfer's two  *)
(* entries are one here.                                                     *)
Account == [opening : Int, current : Int, archived : BOOLEAN]
Entry   == [kind : {"deposit", "correction", "withdrawal", "transfer", "bet_settlement"},
            from : Accounts, to : Accounts \cup {Absent}, amount : Int]

ASSUME BankrollAssumption ==
    /\ Primary \in Accounts /\ Legacy \subseteq Accounts
    /\ Openings \subseteq {n \in Nat : n > 0}
    /\ Amounts \subseteq {n \in Nat : n > 0}
    /\ Absent \notin Accounts /\ Absent \notin Account /\ Absent \notin Entry

VARIABLES
    account,   \* bankroll_account: opening and current balance, archived flag
    entry,     \* bankroll_ledger_entry: who, what and how much, by entry id
    config,    \* discipline_config: Absent, or its version and who wrote it
    setup,     \* each setup request: where it stands and what it has found
    creator    \* each account request: where it stands

bankrollVars == <<account, entry, config, setup, creator>>

-----------------------------------------------------------------------------
Present  == {a \in Accounts : account[a] # Absent}
Active   == {a \in Present : ~account[a].archived}

NewAccount(opening) == [opening |-> opening, current |-> opening, archived |-> FALSE]

(* What an entry does to each account it names. *)
AmountOn(x, a) ==
    CASE x.kind = "transfer" -> IF a = x.from THEN - x.amount
                                ELSE IF a = x.to THEN x.amount ELSE 0
      [] OTHER               -> IF a = x.from THEN x.amount ELSE 0

Recorded == {e \in Entries : entry[e] # Absent}

Idle == [at |-> "idle", account |-> Absent]

(* A fresh database, or one that holds accounts of the time before the       *)
(* single-bankroll flow.                                                     *)
BankrollInit ==
    /\ account \in [Accounts -> {Absent} \cup {NewAccount(n) : n \in Openings}]
    /\ Present \subseteq Legacy
    /\ entry   = [e \in Entries |-> Absent]
    /\ config  = Absent
    /\ setup   = [s \in Setups |-> Idle]
    /\ creator = [c \in Creators |-> "idle"]

-----------------------------------------------------------------------------
(* POST /bankroll/setup, first await: with two active accounts, or with only *)
(* archived ones, setup is a conflict; an active account is reused.          *)
SetupList(s) ==
    /\ setup[s].at = "idle"
    /\ Cardinality(Active) <= 1 /\ (Active = {} => Present = {})
    /\ setup' = [setup EXCEPT ![s] =
                   IF Active = {} THEN [at |-> "create", account |-> Absent]
                   ELSE [at |-> "config", account |-> CHOOSE a \in Active : TRUE]]
    /\ UNCHANGED <<account, entry, config, creator>>

(* Fault: setup upserts the primary account.                                 *)
SetupUpsert(s, opening) ==
    /\ setup[s].at = "create"
    /\ account' = [account EXCEPT ![Primary] = NewAccount(opening)]
    /\ setup'   = [setup EXCEPT ![s] = [at |-> "config", account |-> Primary]]
    /\ UNCHANGED <<entry, config, creator>>

(* Setup, second await: the primary account is inserted; the primary key     *)
(* refuses the loser of a race, which lists the accounts again.              *)
SetupCreate(s, opening) ==
    /\ setup[s].at = "create"
    /\ \/ /\ account[Primary] = Absent
          /\ account' = [account EXCEPT ![Primary] = NewAccount(opening)]
          /\ setup'   = [setup EXCEPT ![s] = [at |-> "config", account |-> Primary]]
       \/ /\ account[Primary] # Absent
          /\ setup' = [setup EXCEPT ![s].at = "relist"]
          /\ UNCHANGED account
    /\ UNCHANGED <<entry, config, creator>>

(* Setup, after losing the race: the one active account, or the error.       *)
SetupRelist(s) ==
    /\ setup[s].at = "relist"
    /\ setup' = [setup EXCEPT ![s] =
                   IF Cardinality(Active) = 1
                     THEN [at |-> "config", account |-> CHOOSE a \in Active : TRUE]
                     ELSE Idle]
    /\ UNCHANGED <<account, entry, config, creator>>

(* Setup, getDisciplineConfig: an existing configuration is kept.            *)
SetupReadConfig(s) ==
    /\ setup[s].at = "config"
    /\ setup' = [setup EXCEPT ![s].at = IF config = Absent THEN "upsert" ELSE "done"]
    /\ UNCHANGED <<account, entry, config, creator>>

(* Setup, upsertDisciplineConfig: the empty configuration, version 1.        *)
SetupWriteConfig(s) ==
    /\ setup[s].at = "upsert"
    /\ config' = [version |-> 1, rules |-> "empty"]
    /\ setup'  = [setup EXCEPT ![s].at = "done"]
    /\ UNCHANGED <<account, entry, creator>>

(* The response has been received; the owner may run setup again.            *)
SetupAgain(s) ==
    /\ setup[s].at = "done"
    /\ setup' = [setup EXCEPT ![s] = Idle]
    /\ UNCHANGED <<account, entry, config, creator>>

-----------------------------------------------------------------------------
(* POST /bankroll/accounts, first await: refused when any account exists.    *)
CreatorList(c) ==
    /\ creator[c] = "idle" /\ Present = {}
    /\ creator' = [creator EXCEPT ![c] = "create"]
    /\ UNCHANGED <<account, entry, config, setup>>

(* POST /bankroll/accounts, second await: the insert; a duplicate id fails.  *)
CreatorInsert(c, a, opening) ==
    /\ creator[c] = "create"
    /\ account' = IF account[a] = Absent
                    THEN [account EXCEPT ![a] = NewAccount(opening)] ELSE account
    /\ creator' = [creator EXCEPT ![c] = "idle"]
    /\ UNCHANGED <<entry, config, setup>>

(* PATCH /bankroll/accounts archives an account or takes it back.            *)
ArchiveAccount(a, archived) ==
    /\ a \in Present /\ account[a].archived # archived
    /\ account' = [account EXCEPT ![a].archived = archived]
    /\ UNCHANGED <<entry, config, setup, creator>>

(* Moves amounts and records the entry, in one transaction. *)
Post(e, x) ==
    /\ entry[e] = Absent
    /\ entry'   = [entry EXCEPT ![e] = x]
    /\ account' = [a \in Accounts |->
                     IF account[a] = Absent THEN Absent
                     ELSE [account[a] EXCEPT !.current = @ + AmountOn(x, a)]]
    /\ UNCHANGED <<config, setup, creator>>

(* POST /bankroll/ledger: a deposit or a signed correction of an active      *)
(* account.                                                                  *)
Deposit(e, a, n) ==
    /\ a \in Active
    /\ Post(e, [kind |-> "deposit", from |-> a, to |-> Absent, amount |-> n])

Correct(e, a, n) ==
    /\ a \in Active
    /\ Post(e, [kind |-> "correction", from |-> a, to |-> Absent, amount |-> n])

(* Fault: the cover is looked at without the amount.                         *)
WithdrawUncovered(e, a, n) ==
    /\ a \in Active
    /\ account[a].current >= 0
    /\ Post(e, [kind |-> "withdrawal", from |-> a, to |-> Absent, amount |-> -n])

(* POST /bankroll/ledger: a withdrawal, covered by the balance.              *)
Withdraw(e, a, n) ==
    /\ a \in Active
    /\ account[a].current - n >= 0
    /\ Post(e, [kind |-> "withdrawal", from |-> a, to |-> Absent, amount |-> -n])

(* Fault: only the side the points leave is checked and moved.               *)
TransferOneSided(e, a, b, n) ==
    /\ a # b
    /\ a \in Active /\ account[a].current >= n
    /\ entry[e] = Absent
    /\ entry'   = [entry EXCEPT ![e] =
                     [kind |-> "transfer", from |-> a, to |-> b, amount |-> n]]
    /\ account' = [account EXCEPT ![a].current = @ - n]
    /\ UNCHANGED <<config, setup, creator>>

(* POST /bankroll/transfers: two entries and two balances, between two       *)
(* active accounts, covered by the balance the points leave.                 *)
Transfer(e, a, b, n) ==
    /\ a # b
    /\ {a, b} \subseteq Active
    /\ account[a].current >= n
    /\ Post(e, [kind |-> "transfer", from |-> a, to |-> b, amount |-> n])

(* A settlement posts its delta, of either sign and not covered by anything, *)
(* also to an archived account.                                              *)
PostSettlement(e, a, n) ==
    /\ a \in Present
    /\ Post(e, [kind |-> "bet_settlement", from |-> a, to |-> Absent, amount |-> n])

(* PUT /discipline-config: one step here, two in DisciplineGate.             *)
PutConfig ==
    /\ config' = [version |-> IF config = Absent THEN 1 ELSE 2, rules |-> "owner"]
    /\ UNCHANGED <<account, entry, setup, creator>>

BankrollNext ==
    \/ \E s \in Setups : \/ SetupList(s) \/ SetupRelist(s) \/ SetupReadConfig(s)
                         \/ SetupWriteConfig(s) \/ SetupAgain(s)
                         \/ \E n \in Openings : SetupCreate(s, n)
    \/ \E c \in Creators : \/ CreatorList(c)
                           \/ \E a \in Accounts, n \in Openings : CreatorInsert(c, a, n)
    \/ \E a \in Accounts, flag \in BOOLEAN : ArchiveAccount(a, flag)
    \/ \E e \in Entries, a \in Accounts, n \in Amounts :
          \/ Deposit(e, a, n) \/ Withdraw(e, a, n)
          \/ Correct(e, a, n) \/ Correct(e, a, -n)
          \/ PostSettlement(e, a, n) \/ PostSettlement(e, a, -n)
          \/ \E b \in Accounts : Transfer(e, a, b, n)
    \/ PutConfig

BankrollSpec == BankrollInit /\ [][BankrollNext]_bankrollVars

-----------------------------------------------------------------------------
(* What the entries S of a log move on account a. *)
MovesOn(log, a, S) == [e \in S |-> AmountOn(log[e], a)]

(* Each account's balance is its opening balance and everything the ledger   *)
(* moved on it, both sides of a transfer included.                           *)
BalancesMatchLedger ==
    \A a \in Present :
        account[a].current = account[a].opening
                             + EntrySum(MovesOn(entry, a, Recorded), Recorded)

(* ADR-0050: "Withdrawal/transfer cannot make realized balance negative."    *)
(* The balance left after one that was posted is covered, although           *)
(* settlements may drive it below zero at any time.                          *)
WithdrawalsCovered ==
    [][ \A e \in Entries :
          entry[e] = Absent /\ entry'[e] # Absent /\ entry'[e].kind \in {"withdrawal", "transfer"}
            => account'[entry'[e].from].current >= 0 ]_bankrollVars

(* Setup never changes a balance that exists: an account keeps its opening   *)
(* balance for good, whichever setup or account request came first.          *)
OpeningIsFinal ==
    [][ \A a \in Present : account'[a] # Absent /\ account'[a].opening = account[a].opening ]_bankrollVars
=============================================================================
