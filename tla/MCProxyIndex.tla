---------------------------- MODULE MCProxyIndex ----------------------------
(* The index of a front-proxy for two shards, two LCs below the root and one *)
(* name of a workspace, which can be taken below the root and below an LC.   *)
EXTENDS ProxyLookup

CONSTANTS s1, s2, c1, c2, root, n, e, none

MCClusters == <<c1, c2>>

Budget(creates, mounted, deletes, phases, migrates, renews, restarts, lags) ==
    [create |-> creates, mount |-> mounted, delete |-> deletes, phase |-> phases,
     migrate |-> migrates, renew |-> renews, restart |-> restarts, lag |-> lags]

MCBudgets == {
    Budget(2, 0, 2, 0, 0, 0, 0, 1),
    Budget(2, 0, 0, 0, 1, 0, 0, 0),
    Budget(1, 1, 0, 2, 0, 0, 1, 1),
    Budget(1, 1, 0, 0, 1, 1, 0, 0),
    Budget(1, 1, 1, 0, 0, 0, 0, 2),
    Budget(1, 0, 1, 0, 1, 0, 1, 1),
    Budget(1, 0, 0, 0, 1, 0, 0, 2),
    Budget(0, 2, 1, 0, 0, 1, 1, 1)}
====
