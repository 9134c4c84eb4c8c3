SPECIFICATION FairSpec
CONSTANTS
    s1 = s1
    s2 = s2
    c1 = c1
    c2 = c2
    root = root
    n = n
    e = e
    none = none
    Shards = {s1, s2}
    Clusters <- MCClusters
    Root = root
    Names = {n}
    Home = s1
    Budgets <- MCBudgets
    Empty = e
    None = none
CHECK_DEADLOCK FALSE
INVARIANTS TypeOK RouteIsBacked NoRouteToCopy
PROPERTIES PathsConverge NamesConverge
