SPECIFICATION Spec
CONSTANTS
    p1 = p1 p2 = p2 m1 = m1 m2 = m2
    None = None
    Procs = {p1, p2}
    Matches = {m1, m2}
    Reasons = {"manual"}
    Mode <- MCMode
    Freshness <- MCFreshness
    Lease = 2
    Cooldown = 2
    BlockedCooldown = 3
    Retain = 2
    MaxChecks = 1
    Offset <- MCOffset
    MaxTime = 3
    MaxCrashes = 1
INVARIANTS CompletedIsConfirmed OneRefreshAtATime
PROPERTIES SnapshotMovesForward LiveIsNotForgotten
CHECK_DEADLOCK FALSE
SYMMETRY MatchSymmetry
