SPECIFICATION Spec
CONSTANTS
    w1 = w1  w2 = w2  c1 = c1  c2 = c2  c3 = c3
    inst = inst
    NoWorker = NoWorker
    Nobody = Nobody
    Instances = {inst}
    Workers = {w1, w2}
    Setters = {c1, c2}
    Askers = {c3}
    Expiry = 0
    MaxGeneration = 2
    Budgets <- MCBudgets
INVARIANTS RefusedOnlyIfMoved RepeatedOnlyAfterFailure PassiveInForce
SYMMETRY Symmetry
CHECK_DEADLOCK FALSE
