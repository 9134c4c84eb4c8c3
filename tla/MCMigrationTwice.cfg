CONSTANTS
    s1 = s1
    s2 = s2
    m1 = m1
    m2 = m2
    Shards = {s1, s2}
    Migrations = {m1, m2}
    Dest <- ToS2
    Home = s1
    NumKeys = 1
    LCKey = 1
    Restartable = {}
    Cancellable = {}
    Deletable = FALSE
    Resyncing = FALSE
    MaxWrites = 0
    MaxFaults = 0
    None = None
SPECIFICATION Spec
CHECK_DEADLOCK FALSE
INVARIANTS DataNeverLost
