CONSTANTS
    s1 = s1
    s2 = s2
    m1 = m1
    m2 = m2
    Shards = {s1}
    Migrations = {m1, m2}
    Dest <- Nowhere
    Home = s1
    NumKeys = 2
    LCKey = 1
    Restartable = {}
    Cancellable = {m1, m2}
    Deletable = FALSE
    Resyncing = FALSE
    MaxWrites = 0
    MaxFaults = 0
    None = None
SPECIFICATION Spec
CHECK_DEADLOCK FALSE
INVARIANTS AnnotationIsKept
