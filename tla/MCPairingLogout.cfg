SPECIFICATION Spec
CONSTANTS
    c1 = c1
    c2 = c2
    c3 = c3
    n1 = n1
    n2 = n2
    Calls = {c1, c2}
    Numbers = {n1, n2}
    NoNumber = NoNumber
    Commands = {"connect", "logout"}
    MaxPairings = 2
    MaxAttempts = 2
    MaxLogouts = 0
    Buffer = 3
    LongWindow = TRUE
INVARIANTS
    IdentityHasMaterial
CHECK_DEADLOCK FALSE
