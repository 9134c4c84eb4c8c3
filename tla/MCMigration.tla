----------------------------- MODULE MCMigration -----------------------------
EXTENDS Migration

CONSTANTS s1, s2, m1, m2

\* Every migration moves the logical cluster from s1 to s2.
ToS2 == [m \in Migrations |-> s2]

\* Every migration goes to a shard that is not there.
Nowhere == [m \in Migrations |-> None]
=============================================================================
