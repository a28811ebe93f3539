SPECIFICATION Spec
CONSTANTS
    p1 = p1 p2 = p2 m1 = m1 m2 = m2
    None = None
    Procs = {p1, p2}
    Matches = {m1, m2}
    Dates = {0}
    Targets = {0}
    DateOf <- MCDateOf
    TargetOf <- MCTargetOf
    Kickoff <- MCKickoff
    FirstCheck = 1
    Length = 2
    Cutoff = 4
    MaxChecks = 2
    MaxDates = 1
    MaxTargets = 1
    Lease = 1
    Recheck = 1
    Ttl = 2
    Deadline = 0
    Backoff <- MCBackoff
    Levels = 1
    Blocked = 2
    MaxTime = 3
    MaxFaults = 1
    MaxRuns = 3
INVARIANTS CheckpointMatchesRow NoHiddenResult
PROPERTIES CompletedStays DateRequestsSpaced LedgerMovesForward
SYMMETRY RunSymmetry
CHECK_DEADLOCK FALSE
