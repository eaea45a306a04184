SPECIFICATION Spec
CONSTANTS
    t1 = t1  t2 = t2
    i1 = i1
    k1 = k1
    n1 = n1  n2 = n2  m1 = m1
    c1 = c1  c2 = c2
    Nil = Nil
    Tenants = {t1, t2}
    Instances = {i1}
    Keys = {k1}
    Names = {n1, n2}
    InstanceNames = {m1}
    Calls = {c1, c2}
    Mixes <- MCMixes
    MaxEdits = 2
    MaxAborts = 1
INVARIANTS TypeOK NoOrphans TrailTellsTheTables
PROPERTIES DriftIsOvertaken
SYMMETRY Symmetry
CHECK_DEADLOCK FALSE
