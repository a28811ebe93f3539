SPECIFICATION Spec
CONSTANTS
    q1 = q1  q2 = q2  m1 = m1
    fotmob = fotmob  sportscore = sportscore
    f1 = f1  f2 = f2  s1 = s1  k1 = k1  k2 = k2
    None = None
    Requests = {q1, q2}
    Matches = {m1}
    Providers = {fotmob}
    Sources = {f1, f2}
    ProviderOf <- MCProviderOf
    Tagged = {fotmob}
    Kickoffs = {k1, k2}
    Lease = 1
    Spacing = 1
    Gap = 1
    Refusal <- MCRefusal
    Budget = 1
    MaxStamps = 2
    MaxEditions = 1
SYMMETRY Symmetry
PROPERTY PublishedFromCurrentRow DetailMovesForward RenewalIsTrue
