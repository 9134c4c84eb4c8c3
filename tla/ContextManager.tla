--------------------------- MODULE ContextManager ---------------------------
(***************************************************************************)
(* pkg/contextmanager: one cancellable context per logical cluster, shared *)
(* by every request for that cluster.  The migration controller cancels    *)
(* the context of a cluster to stop its requests (Cancel), and deletes it  *)
(* to let the cluster be served again (Delete).                            *)
(*                                                                         *)
(* Lookups are lock free (sync.Map), creation goes through a singleflight  *)
(* group and then the mutex, Cancel and Delete hold the mutex.  A key      *)
(* context that nothing refers to any more is garbage and its identity is  *)
(* used again, so the behaviours are unbounded.                            *)
(***************************************************************************)

CONSTANTS
    Keys,      \* logical clusters
    Callers,   \* goroutines: requests and controllers
    Contexts,  \* identities of key contexts
    NoCtx,     \* no key context
    Nobody     \* no goroutine

ASSUME NoneAssumption == NoCtx \notin Contexts \cup Keys /\ Nobody \notin Callers

VARIABLES
    entries,    \* rootCtx.entries: the current context of each key
    cancelled,  \* the key contexts whose cancel function was called
    rootDone,   \* rootCtx.root is cancelled
    lock,       \* the holder of rootCtx.lock, across steps
    flight,     \* rootCtx.group: the leader of the call in flight per key
    pc,         \* where each goroutine is
    key,        \* the key of its current call
    held        \* the key context its current call obtained

vars == <<entries, cancelled, rootDone, lock, flight, pc, key, held>>

Done(x) == rootDone \/ x \in cancelled

\* Identities a new key context can have.
Fresh == {x \in Contexts : /\ \A k \in Keys : entries[k] # x
                           /\ \A c \in Callers : held[c] # x}

PCs == {"idle", "missed", "leading", "built", "waiting", "serving", "stopped",
        "deleting"}

TypeOK ==
    /\ entries \in [Keys -> Contexts \cup {NoCtx}]
    /\ cancelled \subseteq Contexts
    /\ rootDone \in BOOLEAN
    /\ lock \in Callers \cup {Nobody}
    /\ flight \in [Keys -> Callers \cup {Nobody}]
    /\ pc \in [Callers -> PCs]
    /\ key \in [Callers -> Keys]
    /\ held \in [Callers -> Contexts \cup {NoCtx}]

Init ==
    /\ entries = [k \in Keys |-> NoCtx]
    /\ cancelled = {}
    /\ rootDone = FALSE
    /\ lock = Nobody
    /\ flight = [k \in Keys |-> Nobody]
    /\ pc = [c \in Callers |-> "idle"]
    /\ key \in [Callers -> Keys]
    /\ held = [c \in Callers |-> NoCtx]

-----------------------------------------------------------------------------
(* context(key), called by Manager.Context for a request.                  *)

\* The lock-free lookup: a hit is used as it is, a miss goes to the group.
Lookup(c, k) ==
    /\ pc[c] = "idle"
    /\ key' = [key EXCEPT ![c] = k]
    /\ held' = [held EXCEPT ![c] = entries[k]]
    /\ pc' = [pc EXCEPT ![c] = IF entries[k] = NoCtx THEN "missed" ELSE "serving"]
    /\ UNCHANGED <<entries, cancelled, rootDone, lock, flight>>

\* group.Do: the first caller of a key leads, the others wait for its result.
Do(c) ==
    /\ pc[c] = "missed"
    /\ IF flight[key[c]] = Nobody
       THEN /\ flight' = [flight EXCEPT ![key[c]] = c]
            /\ pc' = [pc EXCEPT ![c] = "leading"]
       ELSE /\ pc' = [pc EXCEPT ![c] = "waiting"]
            /\ UNCHANGED flight
    /\ UNCHANGED <<entries, cancelled, rootDone, lock, key, held>>

\* Variant of Build without the second lookup under the mutex.
BuildUnchecked(c) ==
    /\ pc[c] = "leading"
    /\ lock = Nobody
    /\ pc' = [pc EXCEPT ![c] = "built"]
    /\ \E x \in Fresh : /\ entries' = [entries EXCEPT ![key[c]] = x]
                        /\ held' = [held EXCEPT ![c] = x]
                        /\ cancelled' = cancelled \ {x}
    /\ UNCHANGED <<rootDone, lock, flight, key>>

\* The function passed to group.Do, a critical section of the mutex with one
\* write: the second lookup, and the creation when it misses too.
Build(c) ==
    LET k == key[c] IN
    /\ pc[c] = "leading"
    /\ lock = Nobody
    /\ pc' = [pc EXCEPT ![c] = "built"]
    /\ \/ /\ entries[k] # NoCtx
          /\ held' = [held EXCEPT ![c] = entries[k]]
          /\ UNCHANGED <<entries, cancelled>>
       \/ /\ entries[k] = NoCtx
          /\ \E x \in Fresh : /\ entries' = [entries EXCEPT ![k] = x]
                              /\ held' = [held EXCEPT ![c] = x]
                              /\ cancelled' = cancelled \ {x}
    /\ UNCHANGED <<rootDone, lock, flight, key>>

\* Variant of Share that hands the result to the leader alone.
ShareLeaderOnly(c) ==
    /\ pc[c] = "built"
    /\ flight' = [flight EXCEPT ![key[c]] = Nobody]
    /\ pc' = [pc EXCEPT ![c] = "serving"]
    /\ UNCHANGED <<entries, cancelled, rootDone, lock, key, held>>

\* The group forgets the call and hands its result to leader and waiters.
Share(c) ==
    LET sharers == {d \in Callers : d = c \/ (pc[d] = "waiting" /\ key[d] = key[c])} IN
    /\ pc[c] = "built"
    /\ flight' = [flight EXCEPT ![key[c]] = Nobody]
    /\ pc' = [d \in Callers |-> IF d \in sharers THEN "serving" ELSE pc[d]]
    /\ held' = [d \in Callers |-> IF d \in sharers THEN held[c] ELSE held[d]]
    /\ UNCHANGED <<entries, cancelled, rootDone, lock, key>>

\* context.AfterFunc: the request's context follows its key context.
StopRequest(c) ==
    /\ pc[c] = "serving"
    /\ Done(held[c])
    /\ pc' = [pc EXCEPT ![c] = "stopped"]
    /\ UNCHANGED <<entries, cancelled, rootDone, lock, flight, key, held>>

\* The cleanup function: the handler returned.
Cleanup(c) ==
    /\ pc[c] \in {"serving", "stopped"}
    /\ pc' = [pc EXCEPT ![c] = "idle"]
    /\ held' = [held EXCEPT ![c] = NoCtx]
    /\ UNCHANGED <<entries, cancelled, rootDone, lock, flight, key>>

-----------------------------------------------------------------------------
(* The operations of the controllers.                                      *)

\* Variant of Cancel that always stores a cancelled context and forgets the
\* current one.
CancelByReplacing(c, k) ==
    /\ pc[c] = "idle"
    /\ lock = Nobody
    /\ \E x \in Fresh : /\ entries' = [entries EXCEPT ![k] = x]
                        /\ cancelled' = cancelled \cup {x}
    /\ UNCHANGED <<rootDone, lock, flight, pc, key, held>>

\* Cancel: the current context, or a fresh one stored already cancelled.
Cancel(c, k) ==
    /\ pc[c] = "idle"
    /\ lock = Nobody
    /\ \/ /\ entries[k] # NoCtx
          /\ cancelled' = cancelled \cup {entries[k]}
          /\ UNCHANGED entries
       \/ /\ entries[k] = NoCtx
          /\ \E x \in Fresh : /\ entries' = [entries EXCEPT ![k] = x]
                              /\ cancelled' = cancelled \cup {x}
    /\ UNCHANGED <<rootDone, lock, flight, pc, key, held>>

\* Variant of DeleteEntry that does not take the mutex.
DeleteEntryUnlocked(c, k) ==
    /\ pc[c] = "idle"
    /\ entries[k] # NoCtx
    /\ entries' = [entries EXCEPT ![k] = NoCtx]
    /\ key' = [key EXCEPT ![c] = k]
    /\ held' = [held EXCEPT ![c] = entries[k]]
    /\ pc' = [pc EXCEPT ![c] = "deleting"]
    /\ UNCHANGED <<cancelled, rootDone, lock, flight>>

\* Delete: LoadAndDelete, visible to lookups before the context is cancelled.
DeleteEntry(c, k) ==
    /\ pc[c] = "idle"
    /\ lock = Nobody
    /\ entries[k] # NoCtx
    /\ lock' = c
    /\ entries' = [entries EXCEPT ![k] = NoCtx]
    /\ key' = [key EXCEPT ![c] = k]
    /\ held' = [held EXCEPT ![c] = entries[k]]
    /\ pc' = [pc EXCEPT ![c] = "deleting"]
    /\ UNCHANGED <<cancelled, rootDone, flight>>

\* Variant of DeleteCancel that drops the context without cancelling it.
DeleteWithoutCancel(c) ==
    /\ pc[c] = "deleting"
    /\ lock' = Nobody
    /\ held' = [held EXCEPT ![c] = NoCtx]
    /\ pc' = [pc EXCEPT ![c] = "idle"]
    /\ UNCHANGED <<entries, cancelled, rootDone, flight, key>>

\* Delete: the removed context is cancelled and the mutex released.
DeleteCancel(c) ==
    /\ pc[c] = "deleting"
    /\ cancelled' = cancelled \cup {held[c]}
    /\ lock' = Nobody
    /\ held' = [held EXCEPT ![c] = NoCtx]
    /\ pc' = [pc EXCEPT ![c] = "idle"]
    /\ UNCHANGED <<entries, rootDone, flight, key>>

\* Shutdown: every key context derives from the root context.
Shutdown ==
    /\ ~rootDone
    /\ rootDone' = TRUE
    /\ UNCHANGED <<entries, cancelled, lock, flight, pc, key, held>>

Next ==
    \/ \E c \in Callers : \/ Do(c) \/ Build(c) \/ Share(c)
                          \/ StopRequest(c) \/ Cleanup(c) \/ DeleteCancel(c)
    \/ \E c \in Callers, k \in Keys : \/ Lookup(c, k) \/ Cancel(c, k)
                                      \/ DeleteEntry(c, k)
    \/ Shutdown

\* A goroutine inside the manager is scheduled again, and the AfterFunc of a
\* done context runs; nothing obliges a handler to return.
Fairness ==
    \A c \in Callers : /\ WF_vars(Do(c)) /\ WF_vars(Share(c))
                       /\ SF_vars(Build(c))
                       /\ WF_vars(StopRequest(c)) /\ WF_vars(DeleteCancel(c))

Spec == Init /\ [][Next]_vars

FairSpec == Spec /\ Fairness
-----------------------------------------------------------------------------
(* Properties.                                                             *)

\* c has obtained, or is about to obtain, the key context held[c].
Using(c) == pc[c] \in {"built", "serving", "stopped"}

\* A context that is not cancelled and that some request uses is the one the
\* map holds for its key, or the one a Delete is about to cancel: a live
\* context that neither Cancel nor Delete can find would run for ever.
LiveContextIsCurrent ==
    \A c \in Callers : Using(c) /\ held[c] \notin cancelled =>
        \/ entries[key[c]] = held[c]
        \/ \E d \in Callers : pc[d] = "deleting" /\ held[d] = held[c]

\* After Cancel(k) returned and until Delete(k), no request of k runs, neither
\* one that looked its context up before nor one that did so after
\* (rootCtx_test.go: "After cancel returns, every subsequent context call must
\* yield a cancelled context").
BlockedKeyHasNoLiveRequest ==
    \A k \in Keys : entries[k] # NoCtx /\ entries[k] \in cancelled =>
        \A c \in Callers : Using(c) /\ key[c] = k => held[c] \in cancelled

\* Concurrent lookups of one key share one live context, whichever of the
\* lock-free hit, the leader's second lookup and the shared result each used.
LiveRequestsShareContext ==
    \A c, d \in Callers :
        /\ Using(c) /\ Using(d) /\ key[c] = key[d]
        /\ held[c] \notin cancelled /\ held[d] \notin cancelled
        => held[c] = held[d]

\* A request whose context the map no longer holds stops, or has returned: Delete
\* takes the context out of the map before it cancels it, and a leader may have
\* built it and not yet handed it over (rootCtx.go:97, contextmanager.go:40).  No
\* later Cancel or Delete of the key would find that context any more.
RemovedContextStops ==
    \A c \in Callers : (pc[c] \in {"built", "serving"} /\ entries[key[c]] # held[c])
                           ~> (pc[c] \in {"stopped", "idle"})

\* Every lookup that missed returns a context: no leader is lost and no waiter
\* is left behind by singleflight, the mutex and a concurrent Delete.
EveryLookupReturns ==
    \A c \in Callers : (pc[c] \in {"missed", "waiting"}) ~> (pc[c] = "serving")

\* The gate abstraction: a key is closed while its entry is cancelled, and a
\* request runs while its key context does.
gateBar ==
    [k \in Keys |-> IF \/ rootDone
                       \/ entries[k] # NoCtx /\ entries[k] \in cancelled
                    THEN "closed" ELSE "open"]

liveBar ==
    [c \in Callers |-> IF pc[c] = "serving" /\ ~Done(held[c]) THEN key[c] ELSE NoCtx]

Gate == INSTANCE ClusterGate WITH NoKey <- NoCtx, gate <- gateBar, live <- liveBar

\* The manager, with its lock-free lookups, singleflight and two-step Delete,
\* implements the atomic gate its callers rely on.
ImplementsGate == Gate!GateSpec
=============================================================================
