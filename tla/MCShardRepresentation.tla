---- MODULE MCShardRepresentation ----
EXTENDS ShardRepresentation
====
