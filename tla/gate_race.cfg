SPECIFICATION OneBetSpec
CONSTANTS
    q1 = q1 q2 = q2 u1 = u1 u2 = u2 c1 = c1 c2 = c2 None = None
    BetIds = {1, 2}
    Payloads <- MCPayloads
    Challenges = {c1}
    Requests = {q1, q2}
    Writers = {u1}
    Thresholds <- MCThresholds
    StartBalance = 10
    Results <- MCResults
    MaxTime = 1
    MaxVersion = 1
INVARIANT AcknowledgementBinds
PROPERTY UnacknowledgedBetsAreClean
SYMMETRY RequestSymmetry
CHECK_DEADLOCK FALSE
