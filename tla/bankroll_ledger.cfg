SPECIFICATION BankrollSpec
CONSTANTS
    primary = primary a2 = a2 t1 = t1 t2 = t2 s1 = s1 s2 = s2 c1 = c1
    Absent = Absent
    Accounts = {primary, a2}
    Primary = primary
    Legacy = {primary, a2}
    Openings = {3, 5}
    Amounts = {2, 4}
    Entries = {t1, t2}
    Setups = {s1}
    Creators = {c1}
INVARIANT BalancesMatchLedger
PROPERTIES WithdrawalsCovered OpeningIsFinal
CHECK_DEADLOCK FALSE
