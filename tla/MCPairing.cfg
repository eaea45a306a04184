SPECIFICATION Spec
CONSTANTS
    c1 = c1
    c2 = c2
    c3 = c3
    n1 = n1
    n2 = n2
    Calls = {c1, c2}
    Numbers = {n1, n2}
    NoNumber = NoNumber
    Commands = {"connect", "pair_phone", "disconnect", "logout", "drain"}
    MaxPairings = 2
    MaxAttempts = 2
    MaxLogouts = 1
    Buffer = 2
    LongWindow = TRUE
INVARIANTS
    TypeOK
    SwapRecorded
    ConnectedHasIdentity
    TeardownNotBlocked
PROPERTIES
    PairedSocketSurvives
SYMMETRY Symmetry
CHECK_DEADLOCK FALSE
