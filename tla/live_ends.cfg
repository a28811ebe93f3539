SPECIFICATION Spec
CONSTANTS
    p1 = p1 p2 = p2 m1 = m1 m2 = m2
    None = None
    Procs = {p1, p2}
    Matches = {}
    Reasons = {"manual"}
    Mode <- MCMode
    Freshness <- MCFreshness
    Lease = 2
    Cooldown = 2
    BlockedCooldown = 3
    Retain = 3
    MaxChecks = 1
    Offset <- MCOffset
    MaxTime = 4
    MaxCrashes = 1
PROPERTIES RunningEnds
CHECK_DEADLOCK FALSE
