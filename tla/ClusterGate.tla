---------------------------- MODULE ClusterGate ----------------------------
(***************************************************************************)
(* What the context manager promises its users (pkg/server/filters,        *)
(* the migration controller, the front-proxy index), without contexts,     *)
(* locks or lookups: every logical cluster has a gate.  Requests run only  *)
(* through an open gate; cancelling a cluster shuts its gate and stops     *)
(* every running request of it in the same instant; deleting its context   *)
(* stops them too and leaves the gate open.                                *)
(***************************************************************************)
CONSTANTS
    Keys,     \* logical clusters
    Callers,  \* requests
    NoKey     \* the caller has no running request

VARIABLES
    gate,  \* "open" or "closed" for each key
    live   \* the key of the running request of each caller

gvars == <<gate, live>>

\* The running requests of the keys in K are stopped.
Stopped(K) == [c \in Callers |-> IF live[c] \in K THEN NoKey ELSE live[c]]

GateInit ==
    /\ gate = [k \in Keys |-> "open"]
    /\ live = [c \in Callers |-> NoKey]

\* A request (or a batch that waited for the same lookup) starts running.
Admit(S, k) ==
    /\ gate[k] = "open"
    /\ \A c \in S : live[c] = NoKey
    /\ live' = [c \in Callers |-> IF c \in S THEN k ELSE live[c]]
    /\ UNCHANGED gate

\* A running request returns.
End(c) ==
    /\ live' = [live EXCEPT ![c] = NoKey]
    /\ UNCHANGED gate

CancelKey(k) ==
    /\ gate' = [gate EXCEPT ![k] = "closed"]
    /\ live' = Stopped({k})

DeleteKey(k) ==
    /\ gate' = [gate EXCEPT ![k] = "open"]
    /\ live' = Stopped({k})

Close ==
    /\ gate' = [k \in Keys |-> "closed"]
    /\ live' = Stopped(Keys)

GateNext ==
    \/ \E S \in SUBSET Callers, k \in Keys : Admit(S, k)
    \/ \E c \in Callers : End(c)
    \/ \E k \in Keys : CancelKey(k) \/ DeleteKey(k)
    \/ Close

GateSpec == GateInit /\ [][GateNext]_gvars
=============================================================================
