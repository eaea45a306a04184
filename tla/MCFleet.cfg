SPECIFICATION Spec
CONSTANTS
    w1 = w1
    w2 = w2
    i1 = i1
    i2 = i2
    c1 = c1
    c2 = c2
    c3 = c3
    Workers = {w1, w2}
    Instances = {i1, i2}
    Calls = {c1}
    NoWorker = NoWorker
    Expiry = 0
    MaxGeneration = 2
    MaxSessions = 1
    InboxSize = 2
    Scenarios <- FleetScenarios
    Lossy = FALSE
INVARIANTS
    TypeOK
    WithinCapacity
    ExclusiveSocket
    OpenUnderLease
    GenerationsDisjoint
    DrainedOwnsNothing
PROPERTIES
    ReleasedAfterTeardown
SYMMETRY Symmetry
