SPECIFICATION Spec
CONSTANTS
    t1 = t1  t2 = t2  d1 = d1  d2 = d2  m1 = m1  m2 = m2
    None = None  Others = Others  Manual = Manual  Gone = Gone
    Tasks = {t1, t2}
    Drafts = {d1, d2}
    Matches = {m1, m2}
    Budgets <- MCBudgets
SYMMETRY Symmetry
INVARIANT LinkedBetNamesItsMatch DetailIsOfOpenMatch
PROPERTY DraftKeepsItsMatch DraftGoesAfterItsBet
CHECK_DEADLOCK FALSE
