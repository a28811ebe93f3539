SPECIFICATION ScopedSpec
CONSTANTS
    e1 = e1 e2 = e2 e3 = e3 auto1 = auto1 auto2 = auto2
    o1 = o1 o2 = o2 r1 = r1 r2 = r2 None = None
    Bets = {1, 2}
    Owners = {o1, o2}
    Reconcilers = {r1}
    OwnerEvents = {e1, e2}
    AutoEvent <- MCAutoEvent
    SettlementTypes = {"full_win", "push"}
    ProfitLoss <- MCProfitLoss
    OpeningBalance = 100
    MaxBets = 2
INVARIANTS
    TypeOK SettledOnce SettledIffEvent ReviewMatchesStatus BalanceMatchesLedger
PROPERTIES AppendOnlyLedger FreshCommitKeepsProjection ListedBetResolved
CHECK_DEADLOCK FALSE
