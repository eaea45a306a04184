SPECIFICATION FairSpec
CONSTANTS
    p1 = p1  h1 = h1  w1 = w1  w2 = w2
    a1 = a1  a2 = a2  b1 = b1  n1 = n1  n2 = n2
    NoPhone = NoPhone
    Pumps = {p1}
    Handlers = {h1}
    Phones = {n1, n2}
    Workers = {w1, w2}
    Conns = {a1, a2, b1}
    Pool <- MCPool
    Window = 1
    Limits = {1, 2}
    Filters <- MCFilters
    Casts <- MCCasts
    MaxClock = 2
    MaxId = 3
    MaxNesting = 2
INVARIANTS PagesAccounted
PROPERTIES SwapRecordedInWindow WalkGoesDown ExpiredIsSwept
CHECK_DEADLOCK FALSE
