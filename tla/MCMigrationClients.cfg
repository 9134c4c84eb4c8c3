CONSTANTS
    s1 = s1
    s2 = s2
    m1 = m1
    m2 = m2
    Shards = {s1, s2}
    Migrations = {m1}
    Dest <- ToS2
    Home = s1
    NumKeys = 2
    LCKey = 1
    Restartable = {}
    Cancellable = {m1}
    Deletable = TRUE
    Resyncing = FALSE
    MaxWrites = 1
    MaxFaults = 0
    None = None
SPECIFICATION Spec
CHECK_DEADLOCK FALSE
INVARIANTS ServedDataIsCurrent ClientsBlockedWhileMigrating NeverVanishes AbortOnlyAfterDeletion
PROPERTIES OutcomeIsFinal
