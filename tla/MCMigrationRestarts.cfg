CONSTANTS
    s1 = s1
    s2 = s2
    m1 = m1
    m2 = m2
    Shards = {s1, s2}
    Migrations = {m1}
    Dest <- ToS2
    Home = s1
    NumKeys = 2
    LCKey = 1
    Restartable = {s1, s2}
    Cancellable = {m1}
    Deletable = FALSE
    Resyncing = FALSE
    MaxWrites = 0
    MaxFaults = 1
    None = None
SPECIFICATION FairSpec
CHECK_DEADLOCK FALSE
INVARIANTS TypeOK DataNeverLost EndsSettled RouteFollows
PROPERTIES CancellationCompletes MigrationCompletes
