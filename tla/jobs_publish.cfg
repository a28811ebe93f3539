SPECIFICATION Spec
CONSTANTS
    p1 = p1
    p2 = p2
    Procs = {p1, p2}
    Matches = {1, 2}
    Dates = {1, 2}
    Targets = {1, 2}
    DateOf <- TwoDates
    TargetOf <- Own
    Known = {1}
    FotMob = {2}
    MaxDates = 2
    MaxTargets = 2
    MaxVersions = 2
    MaxNews = 2
    MaxFaults = 1
    Free = Free
    Dead = Dead
    None = None
SYMMETRY Symmetry
INVARIANT VersionsAreComplete
INVARIANT NoHiddenSeason
PROPERTY PublishedStays
PROPERTY TickedOffWhenPublished
CHECK_DEADLOCK FALSE
