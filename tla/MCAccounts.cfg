SPECIFICATION Spec
CONSTANTS
    a1 = a1
    b1 = b1
    b2 = b2
    r1 = r1
    r2 = r2
    c1 = c1
    c2 = c2
    NoUser = NoUser
    Admins = {a1}
    Roots = {b1, b2}
    Replicas = {r1, r2}
    Calls = {c1, c2}
    MaxFailures = 2
    LockWindow = 1
    Ttl = 2
    Second = 2
    MaxClock = 3
    Mistyped = {a1}
    MaxTokens = 2
    MaxWrites = 1
INVARIANTS
    OneSuperAdmin
    FreshTokenAccepted
    OldPasswordRefused
PROPERTIES
    LockStands
SYMMETRY Symmetry
CHECK_DEADLOCK FALSE
