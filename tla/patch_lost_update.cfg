SPECIFICATION OwnerSpec
CONSTANTS
    e1 = e1 e2 = e2 auto1 = auto1 o1 = o1 r1 = r1 p1 = p1 p2 = p2 n1 = n1
    None = None
    Bets = {1}
    Owners = {o1}
    Reconcilers = {r1}
    OwnerEvents = {e1}
    Patchers = {p1}
    Notes = {n1}
    AutoEvent <- MCAutoEvent
    SettlementTypes = {"full_win", "full_loss"}
    ProfitLoss <- MCProfitLoss
    OpeningBalance = 100
    MaxBets = 2
PROPERTY PatchKeepsSettlement
CHECK_DEADLOCK FALSE
