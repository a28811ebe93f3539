SPECIFICATION EvidenceSpec
CONSTANTS
    None = None
    Manual = Manual
    Bets <- MCBets
    Moments = {0, 15, 50}
    Minutes = {15, 46, 100}
    Corners <- MCCorners
    MaxGoals = 2
    MaxReports = 3
    Stake = 10001
    Odds = 9501
INVARIANTS SettledAsPlayed PaidAsPlayed ConclusiveEvidenceSettles
CHECK_DEADLOCK FALSE
