SPECIFICATION StoreSpec
CONSTANTS
    p1 = p1 p2 = p2 m1 = m1
    Missing = Missing
    Procs = {p1, p2}
    MatchIds = {m1}
    MaxAttempts = 2
    ProcessingLease = 1
    Delay = 1
    Keep = 1
    SpuriousRefusals = FALSE
    MaxTime = 1
    MaxCalls = 4
    MaxCrashes = 1
INVARIANT LockIsInUse
PROPERTIES ImplementsQueue
CHECK_DEADLOCK FALSE
SYMMETRY CallerSymmetry
