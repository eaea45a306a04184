SPECIFICATION Spec
CONSTANTS
    w1 = w1
    w2 = w2
    i1 = i1
    i2 = i2
    Instances = {i1, i2}
    Workers = {w1, w2}
    NoWorker = NoWorker
    Expiry = 1
    MaxGeneration = 3
INVARIANTS
    GenerationNeverReused
    OnlyLatestFencePasses
    HolderWasGranted
PROPERTIES
    LiveLeaseNeverStolen
    ImplementsOwnership
