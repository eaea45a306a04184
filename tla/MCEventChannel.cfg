SPECIFICATION Spec
CONSTANTS
    p1 = p1
    p2 = p2
    Publishers = {p1, p2}
    BufferSize = 2
    MaxWrites = 4
    MaxLost = 1
    MaxExpiries = 1
INVARIANTS
    TypeOK
    NothingMissed
PROPERTIES
    NoHoles
    NeverOlder
CHECK_DEADLOCK FALSE
