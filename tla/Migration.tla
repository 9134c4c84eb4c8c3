------------------------------ MODULE Migration ------------------------------
(***************************************************************************)
(* Migration of one logical cluster (LC) between shards:                   *)
(* pkg/reconciler/migration/logicalclustermigration, with the parts of the *)
(* system it coordinates: the dump endpoint of the source shard, the       *)
(* request filters of every shard, the front-proxy's route to the LC, the  *)
(* cache server that carries the migration object between shards, the LC   *)
(* deletion controller, and clients writing to the LC all along.           *)
(*                                                                         *)
(* Every shard runs one controller; a controller handles one migration at  *)
(* a time per key.  It reads the migration object, acts on its own etcd,   *)
(* LC object, registry and contexts, and then commits its changes of the   *)
(* migration object with optimistic concurrency.  A restart loses the      *)
(* worker, the registry and the contexts, never etcd.                      *)
(*                                                                         *)
(* The LC's data is the key range 1..NumKeys of a shard's etcd, in dump    *)
(* order; LCKey is the LC object.  A continue token is the next key to     *)
(* copy, 0 for none.  An optimistic update succeeds when the object still  *)
(* is what was read.                                                       *)
(***************************************************************************)
EXTENDS Naturals, Sequences

CONSTANTS
    Shards,
    Migrations,   \* LogicalClusterMigration objects, all of the same LC
    Dest,         \* spec.destinationShard of each; None: a shard that is not there
    Home,         \* the shard that has the LC at first
    NumKeys,
    LCKey,
    Restartable,  \* shards that may restart
    Cancellable,  \* migrations that may be deleted
    Deletable,    \* whether the workspace may be deleted
    Resyncing,    \* whether the informers on the cache server resync
    MaxWrites,    \* bound: client writes, and the deletion of the workspace
    MaxFaults,    \* bound: failed calls and restarts
    None

Keys == 1..NumKeys

DataKeys == Keys \ {LCKey}

ASSUME ConstantsAssumption ==
    /\ Home \in Shards
    /\ Dest \in [Migrations -> Shards \cup {None}]
    /\ NumKeys \in Nat /\ LCKey \in Keys
    /\ Restartable \subseteq Shards /\ Cancellable \subseteq Migrations
    /\ Deletable \in BOOLEAN /\ Resyncing \in BOOLEAN
    /\ MaxWrites \in Nat /\ MaxFaults \in Nat
    /\ None \notin Shards \cup Migrations \cup Nat

VARIABLES
    mig,       \* the migration objects
    life,      \* "unborn", "exists" or "gone" for each
    cache,     \* their copy on the cache server: "absent", "stale" or "fresh"
    worker,    \* the worker of each shard for each migration
    queued,    \* the keys in the shards' workqueues, delayed ones included
    etcd,      \* the LC's data on each shard
    lc,        \* the LC object on each shard
    lister,    \* each shard's informer copy of its LC object
    registry,  \* MigratingLogicalClusters of each shard
    blocked,   \* the LC's request context on a shard is cancelled
    feed,      \* the front-proxy's watch of each shard's LC object: what it
               \* has handled last, then the changes under way
    route,     \* the front-proxy's route: State.clusterShards
    req,       \* the client's write in flight
    acked,     \* the last acknowledged value of each data key
    written,   \* number of client writes so far
    wsDeleted, \* the workspace was deleted
    faults     \* number of failed calls and restarts so far

vars == <<mig, life, cache, worker, queued, etcd, lc, feed, lister, registry, blocked,
          route, req, acked, written, wsDeleted, faults>>

\* What a step of a controller's reconcile never changes.
outside == <<mig, life, cache, lister, route, acked, written, wsDeleted>>

-----------------------------------------------------------------------------
(* State.                                                                  *)

Phases == {"", "Preparing", "Migrating", "OriginCleanup", "DestinationFinalize",
           "Completed", "Aborting", "Failed", "CancellationPreparing", "Restoring",
           "CancellationCleanup", "CancellationFinalize", "Cancelled"}

Terminal == {"Completed", "Failed", "Cancelled"}

MigrationObjects ==
    [phase : Phases,
     origin : Shards \cup {None},   \* status.originShard
     cont : 0..NumKeys,             \* status.dumpContinue
     copied : BOOLEAN,              \* condition DataCopied is True
     originCleaned : BOOLEAN,
     destCleaned : BOOLEAN,
     fin : BOOLEAN,                 \* the finalizer is set
     deleting : BOOLEAN]            \* deletionTimestamp is set

NewMigration ==
    [phase |-> "", origin |-> None, cont |-> 0, copied |-> FALSE,
     originCleaned |-> FALSE, destCleaned |-> FALSE, fin |-> FALSE, deleting |-> FALSE]

LCObjects == [ann : Migrations \cup {None}, deleting : BOOLEAN]

ASSUME NoneAssumption == None \notin LCObjects

Idle == [pc |-> "idle", obj |-> NewMigration, new |-> NewMigration, rq |-> FALSE]

NoRequest == [st |-> "none", shard |-> None, k |-> None, read |-> None, live |-> FALSE]

Values == 0..MaxWrites

PCs == {"idle", "reconcile", "register", "block", "finalize", "check", "release", "commit"}

Workers == [pc : PCs, obj : MigrationObjects, new : MigrationObjects, rq : BOOLEAN]

TypeOK ==
    /\ mig \in [Migrations -> MigrationObjects]
    /\ life \in [Migrations -> {"unborn", "exists", "gone"}]
    /\ cache \in [Migrations -> {"absent", "stale", "fresh"}]
    /\ worker \in [Shards -> [Migrations -> Workers]]
    /\ queued \subseteq Shards \X Migrations
    /\ etcd \in [Shards -> [DataKeys -> Values \cup {None}]]
    /\ lc \in [Shards -> LCObjects \cup {None}]
    /\ lister \in [Shards -> LCObjects \cup {None}]
    /\ registry \in [Shards -> Migrations \cup {None}]
    /\ blocked \in [Shards -> BOOLEAN]
    /\ feed \in [Shards -> Seq(LCObjects \cup {None})]
    /\ \A s \in Shards : feed[s] # <<>>
    /\ route \in Shards \cup {None}
    /\ req \in [st : {"none", "admitted", "applied"}, shard : Shards \cup {None},
                k : DataKeys \cup {None}, read : Values \cup {None}, live : BOOLEAN]
    /\ acked \in [DataKeys -> Values]
    /\ written \in 0..MaxWrites
    /\ wsDeleted \in BOOLEAN
    /\ faults \in 0..MaxFaults

Init ==
    LET there == [s \in Shards |-> IF s = Home THEN [ann |-> None, deleting |-> FALSE]
                                               ELSE None] IN
    /\ mig = [m \in Migrations |-> NewMigration]
    /\ life = [m \in Migrations |-> "unborn"]
    /\ cache = [m \in Migrations |-> "absent"]
    /\ worker = [s \in Shards |-> [m \in Migrations |-> Idle]]
    /\ queued = {}
    /\ etcd = [s \in Shards |-> [k \in DataKeys |-> IF s = Home THEN 0 ELSE None]]
    /\ lc = there
    /\ lister = there
    /\ registry = [s \in Shards |-> None]
    /\ blocked = [s \in Shards |-> FALSE]
    /\ feed = [s \in Shards |-> <<there[s]>>]
    /\ route = Home
    /\ req = NoRequest
    /\ acked = [k \in DataKeys |-> 0]
    /\ written = 0
    /\ wsDeleted = FALSE
    /\ faults = 0

-----------------------------------------------------------------------------
(* Shard state.                                                            *)

\* The LC object of shard s becomes x; a change is sent to the front-proxy.
SetLC(s, x) ==
    /\ lc' = [lc EXCEPT ![s] = x]
    /\ feed' = [feed EXCEPT ![s] = IF x # lc[s] THEN Append(@, x) ELSE @]

\* The keys of the LC that a shard's etcd holds.
Present(s) == {k \in DataKeys : etcd[s][k] # None} \cup {k \in {LCKey} : lc[s] # None}

\* The LC's keys in D are deleted from shard s.
Wipe(s, D) ==
    /\ etcd' = [etcd EXCEPT ![s] = [k \in DataKeys |-> IF k \in D THEN None ELSE @[k]]]
    /\ SetLC(s, IF LCKey \in D THEN None ELSE lc[s])

\* The LC's keys in P are written to shard s as they are on shard src.
Write(s, src, P) ==
    /\ etcd' = [etcd EXCEPT ![s] = [k \in DataKeys |-> IF k \in P THEN etcd[src][k] ELSE @[k]]]
    /\ SetLC(s, IF LCKey \in P THEN lc[src] ELSE lc[s])

\* Mutant: the last page points past the end.
PagesPastEnd(src, cont) ==
    LET rest == {k \in Present(src) : k >= cont} IN
    {[keys |-> rest, next |-> NumKeys + 1]}

\* Mutant: the continue token is taken for the last key of the page before.
PagesSkipping(src, cont) ==
    LET rest == {k \in Present(src) : k > cont} IN
    {[keys |-> {k \in rest : k < n}, next |-> n] :
        n \in {n \in rest : \E k \in rest : k < n}} \cup {[keys |-> rest, next |-> 0]}

\* The pages a dump of shard src from a continue token may return: one entry
\* or more, and the first key that was left out.
Pages(src, cont) ==
    LET rest == {k \in Present(src) : k >= cont} IN
    {[keys |-> {k \in rest : k < n}, next |-> n] :
        n \in {n \in rest : \E k \in rest : k < n}} \cup {[keys |-> rest, next |-> 0]}

SetAnnotation(s, m) == SetLC(s, [lc[s] EXCEPT !.ann = m])

\* The context manager: cancelling the LC's context stops its requests and
\* refuses new ones; deleting it stops them and admits new ones (ClusterGate).
StopRequests(s) == req' = [req EXCEPT !.live = @ /\ req.shard # s]

CancelContext(s) == blocked' = [blocked EXCEPT ![s] = TRUE] /\ StopRequests(s)

DeleteContext(s) == blocked' = [blocked EXCEPT ![s] = FALSE] /\ StopRequests(s)

\* MigratingLogicalClusters.Remove: whoever registered it.
Remove(s) == registry' = [registry EXCEPT ![s] = None]

\* A call of the controller fails.
Fault == faults < MaxFaults /\ faults' = faults + 1
-----------------------------------------------------------------------------
(* The controller: process, reconcile and its handlers.                    *)

IsOrigin(s, o) == IF o.origin # None THEN o.origin = s ELSE lister[s] # None

IsDestination(s, m) == Dest[m] = s

At(s, m, p) == worker[s][m].pc = p

Obj(s, m) == worker[s][m].obj

Goto(s, m, p) == worker' = [worker EXCEPT ![s][m].pc = p] /\ UNCHANGED queued

\* Mutant: no poll of a migration under way.
RequeueOnRequest(s, m, new, rq) ==
    queued' = IF rq THEN queued \cup {<<s, m>>} ELSE queued

\* process, after a commit without errors: the key comes back when the handler
\* asked for it or failed, and as a poll every second while the phase is not
\* final and the shard takes part.
Requeue(s, m, new, rq) ==
    queued' = IF \/ rq
                 \/ /\ new.phase \notin Terminal
                    /\ IsOrigin(s, new) \/ IsDestination(s, m)
              THEN queued \cup {<<s, m>>} ELSE queued

\* The handler returns: the object it leaves, and whether it asks for a requeue
\* or failed.  The commit of an unchanged object writes nothing.
Return(s, m, new, rq) ==
    IF new = Obj(s, m)
    THEN worker' = [worker EXCEPT ![s][m] = Idle] /\ Requeue(s, m, new, rq)
    ELSE /\ worker' = [worker EXCEPT ![s][m] = [@ EXCEPT !.pc = "commit", !.new = new, !.rq = rq]]
         /\ UNCHANGED queued

\* The handler fails before it changed anything.
Fails(s, m) ==
    /\ Return(s, m, Obj(s, m), TRUE)
    /\ UNCHANGED <<etcd, lc, feed, registry, blocked, req>>

\* process: the worker takes the key and reads the object through the front-proxy.
Get(s, m) ==
    /\ <<s, m>> \in queued
    /\ At(s, m, "idle")
    /\ queued' = queued \ {<<s, m>>}
    /\ IF life[m] = "exists"
       THEN worker' = [worker EXCEPT ![s][m] = [@ EXCEPT !.pc = "reconcile", !.obj = mig[m]]]
       ELSE UNCHANGED worker
    /\ UNCHANGED <<mig, life, cache, etcd, lc, feed, lister, registry, blocked, route,
                   req, acked, written, wsDeleted, faults>>

\* Mutant: the key of a failed commit is forgotten.
CommitForgets(s, m) ==
    LET w == worker[s][m]
        applies == life[m] = "exists" /\ mig[m] = w.obj IN
    /\ At(s, m, "commit")
    /\ worker' = [worker EXCEPT ![s][m] = Idle]
    /\ \/ /\ applies
          /\ mig' = [mig EXCEPT ![m] = w.new]
          /\ life' = [life EXCEPT ![m] = IF w.new.deleting /\ ~w.new.fin THEN "gone" ELSE @]
          /\ cache' = [cache EXCEPT ![m] = IF @ = "fresh" THEN "stale" ELSE @]
          /\ Requeue(s, m, w.new, w.rq)
          /\ UNCHANGED faults
       \/ /\ IF applies THEN Fault ELSE UNCHANGED faults
          /\ UNCHANGED <<mig, life, cache, queued>>
    /\ UNCHANGED <<etcd, lc, feed, lister, registry, blocked, route, req, acked,
                   written, wsDeleted>>

\* process: the commit of the changed object.
Commit(s, m) ==
    LET w == worker[s][m]
        applies == life[m] = "exists" /\ mig[m] = w.obj IN
    /\ At(s, m, "commit")
    /\ worker' = [worker EXCEPT ![s][m] = Idle]
    /\ \/ /\ applies
          /\ mig' = [mig EXCEPT ![m] = w.new]
          /\ life' = [life EXCEPT ![m] = IF w.new.deleting /\ ~w.new.fin THEN "gone" ELSE @]
          /\ cache' = [cache EXCEPT ![m] = IF @ = "fresh" THEN "stale" ELSE @]
          /\ Requeue(s, m, w.new, w.rq)
          /\ UNCHANGED faults
       \/ /\ IF applies THEN Fault ELSE UNCHANGED faults
          /\ queued' = queued \cup {<<s, m>>}
          /\ UNCHANGED <<mig, life, cache>>
    /\ UNCHANGED <<etcd, lc, feed, lister, registry, blocked, route, req, acked,
                   written, wsDeleted>>

\* Mutant: a completed migration is rolled back, too.
StartsCancellationAfterEnd(s, m, o) ==
    /\ o.deleting
    /\ \/ o.phase \in {"", "Preparing", "OriginCleanup"} /\ IsOrigin(s, o)
       \/ o.phase \in {"Migrating", "DestinationFinalize", "Completed"} /\ IsDestination(s, m)

\* startCancellation: the shard that owns the phase hands over to the rollback
\* of a migration that is being deleted.
StartsCancellation(s, m, o) ==
    /\ o.deleting
    /\ \/ o.phase \in {"", "Preparing", "OriginCleanup"} /\ IsOrigin(s, o)
       \/ o.phase \in {"Migrating", "DestinationFinalize"} /\ IsDestination(s, m)

\* Mutant: any participant takes an LC it does not have for a deleted one.
SeesLCDeletedAnywhere(s, o) ==
    /\ ~o.deleting
    /\ o.phase \in {"Preparing", "Migrating"}
    /\ lister[s] # None => lister[s].deleting

\* The origin still owns the LC and sees it deleted or being deleted.
SeesLCDeleted(s, o) ==
    /\ ~o.deleting /\ IsOrigin(s, o)
    /\ o.phase \in {"Preparing", "Migrating"}
    /\ lister[s] # None => lister[s].deleting

\* reconcile reaches the handler of a phase.
Handles(s, m, phase) ==
    LET o == Obj(s, m) IN
    /\ At(s, m, "reconcile")
    /\ o.phase = phase
    /\ ~StartsCancellation(s, m, o)
    /\ ~SeesLCDeleted(s, o)

StartCancellation(s, m) ==
    LET o == Obj(s, m) IN
    /\ At(s, m, "reconcile")
    /\ StartsCancellation(s, m, o)
    /\ Return(s, m,
         [o EXCEPT !.cont = 0,
                   !.origin = IF o.phase \in {"", "Preparing"} THEN s ELSE @,
                   !.phase = CASE o.phase \in {"", "Preparing"} -> "CancellationFinalize"
                               [] o.phase = "Migrating" -> "CancellationCleanup"
                               [] OTHER -> "CancellationPreparing"], TRUE)
    /\ UNCHANGED <<outside, etcd, lc, feed, registry, blocked, req, faults>>

DetectLCDeletion(s, m) ==
    /\ At(s, m, "reconcile")
    /\ SeesLCDeleted(s, Obj(s, m))
    /\ Return(s, m, [Obj(s, m) EXCEPT !.phase = "Aborting"], TRUE)
    /\ UNCHANGED <<outside, etcd, lc, feed, registry, blocked, req, faults>>

\* The shard has nothing to do in this phase: it takes no part, or the other
\* shard is the active one.  The origin requeues in Migrating.
Wait(s, m) ==
    LET o == Obj(s, m)
        origin == IsOrigin(s, o)
        destination == IsDestination(s, m) IN
    /\ Handles(s, m, o.phase)
    /\ \/ ~origin /\ ~destination
       \/ ~origin /\ o.phase \in {"", "Preparing", "OriginCleanup", "CancellationFinalize",
                                  "Cancelled"}
       \/ ~destination /\ o.phase \in {"Migrating", "DestinationFinalize", "Completed"}
    /\ Return(s, m, o, origin /\ o.phase = "Migrating")
    /\ UNCHANGED <<outside, etcd, lc, feed, registry, blocked, req, faults>>

\* Mutant: the phase moves on before the finalizer is persisted.
StartWithoutFinalizer(s, m) ==
    /\ Handles(s, m, "") /\ IsOrigin(s, Obj(s, m))
    /\ Return(s, m, [Obj(s, m) EXCEPT !.phase = "Preparing"], TRUE)
    /\ UNCHANGED <<outside, etcd, lc, feed, registry, blocked, req, faults>>

\* The first phase: the finalizer, and in the next reconcile the phase.
Start(s, m) ==
    LET o == Obj(s, m) IN
    /\ Handles(s, m, "") /\ IsOrigin(s, o)
    /\ Return(s, m, IF o.fin THEN [o EXCEPT !.phase = "Preparing"]
                             ELSE [o EXCEPT !.fin = TRUE], TRUE)
    /\ UNCHANGED <<outside, etcd, lc, feed, registry, blocked, req, faults>>

\* Mutant: the phase moves on after the annotation, without the registration.
PrepareByAnnotation(s, m) ==
    LET o == Obj(s, m) IN
    /\ Handles(s, m, "Preparing") /\ IsOrigin(s, o)
    /\ \/ /\ o.origin = None
          /\ Return(s, m, [o EXCEPT !.origin = s], TRUE)
          /\ UNCHANGED <<lc, feed>>
       \/ /\ o.origin # None /\ lc[s] = lister[s]
          /\ SetAnnotation(s, m)
          /\ Return(s, m, [o EXCEPT !.phase = "Migrating"], FALSE)
    /\ UNCHANGED <<outside, etcd, registry, blocked, req, faults>>

\* reconcilePreparing: the origin shard is recorded first; a migration of an LC
\* that another one annotated fails; then the LC is annotated through the
\* front-proxy, an update of the informer's copy that fails when the object
\* changed since, or when the route leads to another shard's copy.
Prepare(s, m) ==
    LET o == Obj(s, m) IN
    /\ Handles(s, m, "Preparing") /\ IsOrigin(s, o)
    /\ \/ /\ o.origin = None
          /\ Return(s, m, [o EXCEPT !.origin = s], TRUE)
          /\ UNCHANGED <<etcd, lc, feed, registry, blocked, req, faults>>
       \/ /\ o.origin # None /\ lister[s].ann \notin {None, m}
          /\ Return(s, m, [o EXCEPT !.phase = "Failed"], FALSE)
          /\ UNCHANGED <<etcd, lc, feed, registry, blocked, req, faults>>
       \/ /\ o.origin # None /\ lister[s].ann = m
          /\ Goto(s, m, "register")
          /\ UNCHANGED <<etcd, lc, feed, registry, blocked, req, faults>>
       \/ /\ o.origin # None /\ lister[s].ann = None
          /\ route = s /\ lc[s] = lister[s]
          /\ SetAnnotation(s, m)
          /\ Goto(s, m, "register")
          /\ UNCHANGED <<etcd, registry, blocked, req, faults>>
       \/ /\ o.origin # None /\ lister[s].ann = None
          /\ ~(route = s /\ lc[s] = lister[s])
          /\ Fails(s, m) /\ UNCHANGED faults
    /\ UNCHANGED outside

\* reconcilePreparing: the registration, from which on requests are refused.
PrepareRegister(s, m) ==
    /\ At(s, m, "register")
    /\ registry' = [registry EXCEPT ![s] = IF @ = None THEN m ELSE @]
    /\ Goto(s, m, "block")
    /\ UNCHANGED <<outside, etcd, lc, feed, blocked, req, faults>>

\* Mutant: new requests are refused, those in flight go on.
PrepareBlockNewOnly(s, m) ==
    /\ At(s, m, "block")
    /\ blocked' = [blocked EXCEPT ![s] = TRUE]
    /\ Return(s, m, [Obj(s, m) EXCEPT !.phase = "Migrating"], FALSE)
    /\ UNCHANGED <<outside, etcd, lc, feed, registry, req, faults>>

\* reconcilePreparing: the requests in flight are cancelled, and the origin is
\* ready.
PrepareBlock(s, m) ==
    /\ At(s, m, "block")
    /\ CancelContext(s)
    /\ Return(s, m, [Obj(s, m) EXCEPT !.phase = "Migrating"], FALSE)
    /\ UNCHANGED <<outside, etcd, lc, feed, registry, faults>>

\* copyPageFromOrigin: one page from shard src, which serves the dump while it
\* has the LC registered.
CopyPage(s, m, src, p) ==
    /\ src # None /\ registry'[src] # None
    /\ p \in Pages(src, Obj(s, m).cont)
    /\ Write(s, src, p.keys)
    /\ UNCHANGED faults

\* copyPageFromOrigin fails: the dump is refused, or any part of a page was
\* written.
CopyFails(s, m, src) ==
    /\ \/ /\ ~(src # None /\ registry'[src] # None)
          /\ UNCHANGED <<etcd, lc, feed, faults>>
       \/ /\ src # None /\ registry'[src] # None
          /\ Fault
          /\ \E p \in Pages(src, Obj(s, m).cont), n \in Keys :
                Write(s, src, {k \in p.keys : k < n})
    /\ Return(s, m, Obj(s, m), TRUE)

\* reconcileMigrating: the destination registers the LC and copies one page.
Migrate(s, m) ==
    LET o == Obj(s, m) IN
    /\ Handles(s, m, "Migrating") /\ IsDestination(s, m)
    /\ registry' = [registry EXCEPT ![s] = IF @ = None THEN m ELSE @]
    /\ \/ \E p \in Pages(o.origin, o.cont) :
             /\ CopyPage(s, m, o.origin, p)
             /\ Return(s, m, [o EXCEPT !.cont = p.next, !.copied = p.next = 0,
                                       !.phase = IF p.next = 0 THEN "OriginCleanup" ELSE @],
                       p.next # 0)
       \/ CopyFails(s, m, o.origin)
    /\ UNCHANGED <<outside, blocked, req>>

\* deleteOriginData, and the shard forgets the LC.
DeleteData(s) ==
    /\ Wipe(s, Keys)
    /\ DeleteContext(s)
    /\ Remove(s)
    /\ UNCHANGED faults

\* deleteOriginData fails: any part of the data is left.
DeleteFails(s, m) ==
    /\ Fault
    /\ \E D \in SUBSET Present(s) : Wipe(s, D)
    /\ Return(s, m, Obj(s, m), TRUE)

\* reconcileOriginCleanup.
OriginCleanup(s, m) ==
    LET o == Obj(s, m) IN
    /\ Handles(s, m, "OriginCleanup") /\ IsOrigin(s, o)
    /\ \/ /\ DeleteData(s)
          /\ Return(s, m, [o EXCEPT !.originCleaned = TRUE,
                                    !.phase = "DestinationFinalize"], FALSE)
       \/ DeleteFails(s, m) /\ UNCHANGED <<registry, blocked, req>>
    /\ UNCHANGED outside

\* reconcileDestinationFinalize: the LC must be there; its annotation is removed
\* with the shard's own client.
DestinationFinalize(s, m) ==
    /\ Handles(s, m, "DestinationFinalize") /\ IsDestination(s, m)
    /\ \/ lc[s] = None /\ Fails(s, m)
       \/ /\ lc[s] # None
          /\ SetAnnotation(s, None)
          /\ Goto(s, m, "finalize")
          /\ UNCHANGED <<etcd, registry, blocked, req>>
    /\ UNCHANGED <<outside, faults>>

\* Mutant: the registration is left behind.
DestinationReleaseKeepsHold(s, m) ==
    /\ At(s, m, "finalize")
    /\ Return(s, m, [Obj(s, m) EXCEPT !.phase = "Completed"], FALSE)
    /\ UNCHANGED <<outside, etcd, lc, feed, registry, blocked, req, faults>>

\* reconcileDestinationFinalize: the bound CRDs, which need the APIBindings to be
\* read under the LC's context, and access is allowed.
DestinationRelease(s, m) ==
    /\ At(s, m, "finalize")
    /\ \/ /\ ~blocked[s]
          /\ Remove(s)
          /\ Return(s, m, [Obj(s, m) EXCEPT !.phase = "Completed"], FALSE)
          /\ UNCHANGED <<etcd, lc, feed, blocked, req, faults>>
       \/ /\ IF blocked[s] THEN UNCHANGED faults ELSE Fault
          /\ Fails(s, m)
    /\ UNCHANGED outside

\* reconcileAborting: each shard that takes part deletes its data.
Abort(s, m) ==
    LET o == Obj(s, m)
        originCleaned == o.originCleaned \/ IsOrigin(s, o)
        destCleaned == o.destCleaned \/ IsDestination(s, m) IN
    /\ Handles(s, m, "Aborting")
    /\ IsOrigin(s, o) \/ IsDestination(s, m)
    /\ \/ /\ DeleteData(s)
          /\ Return(s, m,
               [o EXCEPT !.originCleaned = originCleaned, !.destCleaned = destCleaned,
                         !.phase = IF originCleaned /\ (destCleaned \/ ~o.copied)
                                   THEN "Failed" ELSE @], FALSE)
       \/ DeleteFails(s, m) /\ UNCHANGED <<registry, blocked, req>>
    /\ UNCHANGED outside

\* Mutant: the finalizer of a cancelled migration is kept.
RemoveFinalizerAtEndOnly(s, m) ==
    LET o == Obj(s, m) IN
    /\ Handles(s, m, o.phase)
    /\ \/ o.phase = "Completed" /\ IsDestination(s, m)
       \/ o.phase = "Failed" /\ (IsOrigin(s, o) \/ IsDestination(s, m))
    /\ Return(s, m, [o EXCEPT !.fin = FALSE], FALSE)
    /\ UNCHANGED <<outside, etcd, lc, feed, registry, blocked, req, faults>>

\* The final phases: the finalizer is removed by the shard that ended the
\* migration, by any after a failure.
RemoveFinalizer(s, m) ==
    LET o == Obj(s, m) IN
    /\ Handles(s, m, o.phase)
    /\ \/ o.phase = "Completed" /\ IsDestination(s, m)
       \/ o.phase = "Cancelled" /\ IsOrigin(s, o)
       \/ o.phase = "Failed" /\ (IsOrigin(s, o) \/ IsDestination(s, m))
    /\ Return(s, m, [o EXCEPT !.fin = FALSE], FALSE)
    /\ UNCHANGED <<outside, etcd, lc, feed, registry, blocked, req, faults>>

-----------------------------------------------------------------------------
(* Cancellation.                                                           *)

\* registerCancellation: refused when another migration registered the LC.
RegisterCancellation(s, m) ==
    /\ registry[s] \in {None, m}
    /\ registry' = [registry EXCEPT ![s] = m]
    /\ CancelContext(s)

\* The shard that waits for the other one keeps its copy blocked.
KeepBlocked(s, m) ==
    LET o == Obj(s, m) IN
    /\ Handles(s, m, o.phase)
    /\ o.phase \in {"CancellationPreparing", "CancellationCleanup"} /\ IsOrigin(s, o)
    /\ \/ /\ RegisterCancellation(s, m)
          /\ Return(s, m, o, FALSE)
          /\ UNCHANGED <<etcd, lc, feed>>
       \/ registry[s] \notin {None, m} /\ Fails(s, m)
    /\ UNCHANGED <<outside, faults>>

\* blockForCancellation, in CancellationPreparing (the step to Restoring) and
\* again in Restoring.
BlockForCancellation(s, m) ==
    LET o == Obj(s, m) IN
    /\ Handles(s, m, o.phase) /\ IsDestination(s, m)
    /\ \/ o.phase = "CancellationPreparing" /\ ~IsOrigin(s, o)
       \/ o.phase = "Restoring"
    /\ \/ registry[s] \notin {None, m} /\ Fails(s, m)
       \/ /\ RegisterCancellation(s, m)
          /\ ~(lc[s] # None /\ lc[s].ann \in {None, m})
          /\ Return(s, m, o, TRUE)
          /\ UNCHANGED <<etcd, lc, feed>>
       \/ /\ RegisterCancellation(s, m)
          /\ lc[s] # None /\ lc[s].ann \in {None, m}
          /\ SetAnnotation(s, m)
          /\ Return(s, m, [o EXCEPT !.phase = "Restoring"], o.phase = "CancellationPreparing")
          /\ UNCHANGED etcd
    /\ UNCHANGED <<outside, faults>>

\* reconcileRestoring: the origin copies one page back.
Restore(s, m) ==
    LET o == Obj(s, m) IN
    /\ Handles(s, m, "Restoring") /\ IsOrigin(s, o) /\ ~IsDestination(s, m)
    /\ \/ registry[s] \notin {None, m} /\ Fails(s, m) /\ UNCHANGED faults
       \/ /\ RegisterCancellation(s, m)
          /\ \/ \E p \in Pages(Dest[m], o.cont) :
                   /\ CopyPage(s, m, Dest[m], p)
                   /\ Return(s, m, [o EXCEPT !.cont = p.next,
                                             !.phase = IF p.next = 0 THEN "CancellationCleanup"
                                                                     ELSE @], TRUE)
             \/ CopyFails(s, m, Dest[m])
    /\ UNCHANGED outside

\* reconcileCancellationCleanup: the destination deletes its copy.
CancellationCleanup(s, m) ==
    LET o == Obj(s, m) IN
    /\ Handles(s, m, "CancellationCleanup") /\ IsDestination(s, m) /\ ~IsOrigin(s, o)
    /\ \/ registry[s] \notin {None, m} /\ Fails(s, m) /\ UNCHANGED faults
       \/ /\ registry[s] \in {None, m}
          /\ DeleteData(s)
          /\ Return(s, m, [o EXCEPT !.phase = "CancellationFinalize"], TRUE)
       \/ RegisterCancellation(s, m) /\ DeleteFails(s, m)
    /\ UNCHANGED outside

\* Mutant: the annotation is removed whoever set it.
CancellationFinalizeAnyOwner(s, m) ==
    LET o == Obj(s, m) IN
    /\ Handles(s, m, "CancellationFinalize") /\ IsOrigin(s, o)
    /\ lc[s] # None
    /\ SetAnnotation(s, None) /\ Goto(s, m, "check")
    /\ UNCHANGED <<outside, etcd, registry, blocked, req, faults>>

\* finalizeCancellation: the LC is given back unless another migration owns it
\* by now, or it is gone although its data had been moved.
CancellationFinalize(s, m) ==
    LET o == Obj(s, m) IN
    /\ Handles(s, m, "CancellationFinalize") /\ IsOrigin(s, o)
    /\ \/ /\ lc[s] = None /\ o.copied
          /\ Fails(s, m) /\ UNCHANGED faults
       \/ /\ lc[s] = None /\ ~o.copied
          /\ Goto(s, m, "check")
          /\ UNCHANGED <<etcd, lc, feed, registry, blocked, req, faults>>
       \/ /\ lc[s] # None /\ lc[s].ann \notin {None, m}
          /\ Return(s, m, [o EXCEPT !.phase = "Cancelled"], TRUE)
          /\ UNCHANGED <<etcd, lc, feed, registry, blocked, req, faults>>
       \/ /\ lc[s] # None /\ lc[s].ann \in {None, m}
          /\ IF o.copied THEN DeleteContext(s) ELSE UNCHANGED <<blocked, req>>
          /\ \/ SetAnnotation(s, None) /\ Goto(s, m, "check") /\ UNCHANGED faults
             \/ o.copied /\ Fault /\ Return(s, m, o, TRUE) /\ UNCHANGED <<lc, feed>>
          /\ UNCHANGED <<etcd, registry>>
    /\ UNCHANGED outside

\* finalizeCancellation: the registration must not be another migration's.
CancellationCheck(s, m) ==
    /\ At(s, m, "check")
    /\ \/ registry[s] \in {None, m} /\ Goto(s, m, "release")
       \/ registry[s] \notin {None, m} /\ Return(s, m, Obj(s, m), TRUE)
    /\ UNCHANGED <<outside, etcd, lc, feed, registry, blocked, req, faults>>

\* Mutant: the cancelled context stays.
CancellationReleaseKeepsContext(s, m) ==
    /\ At(s, m, "release")
    /\ Remove(s)
    /\ Return(s, m, [Obj(s, m) EXCEPT !.phase = "Cancelled"], TRUE)
    /\ UNCHANGED <<outside, etcd, lc, feed, blocked, req, faults>>

\* finalizeCancellation: access is allowed again.
CancellationRelease(s, m) ==
    /\ At(s, m, "release")
    /\ DeleteContext(s)
    /\ Remove(s)
    /\ Return(s, m, [Obj(s, m) EXCEPT !.phase = "Cancelled"], TRUE)
    /\ UNCHANGED <<outside, etcd, lc, feed, faults>>

-----------------------------------------------------------------------------
(* Around the controller.                                                  *)

\* A migration is created.
CreateMigration(m) ==
    /\ life[m] = "unborn"
    /\ life' = [life EXCEPT ![m] = "exists"]
    /\ UNCHANGED <<mig, cache, worker, queued, etcd, lc, feed, lister, registry,
                   blocked, route, req, acked, written, wsDeleted, faults>>

\* A migration is deleted: marked while it has its finalizer, gone otherwise.
DeleteMigration(m) ==
    /\ m \in Cancellable
    /\ life[m] = "exists" /\ ~mig[m].deleting
    /\ mig' = [mig EXCEPT ![m].deleting = TRUE]
    /\ life' = [life EXCEPT ![m] = IF mig[m].fin THEN @ ELSE "gone"]
    /\ cache' = [cache EXCEPT ![m] = IF @ = "fresh" THEN "stale" ELSE @]
    /\ UNCHANGED <<worker, queued, etcd, lc, feed, lister, registry, blocked, route,
                   req, acked, written, wsDeleted, faults>>

\* The replication controller of the migration's own shard: changes reach the
\* cache server, and from there every shard's queue, until the object is being
\* deleted; its removal does again.
Replicate(m) ==
    /\ \/ /\ life[m] = "exists" /\ ~mig[m].deleting /\ cache[m] # "fresh"
          /\ cache' = [cache EXCEPT ![m] = "fresh"]
       \/ /\ life[m] = "gone" /\ cache[m] # "absent"
          /\ cache' = [cache EXCEPT ![m] = "absent"]
    /\ queued' = queued \cup (Shards \X {m})
    /\ UNCHANGED <<mig, life, worker, etcd, lc, feed, lister, registry, blocked,
                   route, req, acked, written, wsDeleted, faults>>

\* The periodic resync of a shard's informer on the cache server.
Resync(s) ==
    LET known == {m \in Migrations : cache[m] # "absent"} IN
    /\ Resyncing
    /\ queued' = queued \cup ({s} \X known)
    /\ queued' # queued
    /\ UNCHANGED <<mig, life, cache, worker, etcd, lc, feed, lister, registry,
                   blocked, route, req, acked, written, wsDeleted, faults>>

\* The LC informer of a shard catches up; a migration of a registered LC is
\* enqueued.
SyncLister(s) ==
    /\ lister[s] # lc[s]
    /\ lister' = [lister EXCEPT ![s] = lc[s]]
    /\ \/ /\ lister[s] # None /\ registry[s] # None
          /\ \E m \in Migrations : cache[m] # "absent" /\ queued' = queued \cup {<<s, m>>}
       \/ /\ ~(lister[s] # None /\ registry[s] # None /\ \E m \in Migrations : cache[m] # "absent")
          /\ UNCHANGED queued
    /\ UNCHANGED <<mig, life, cache, worker, etcd, lc, feed, registry, blocked, route,
                   req, acked, written, wsDeleted, faults>>

\* Mutant: a deletion removes the route, whichever shard reports it.
IndexDeleteAny(s, x) ==
    route' = IF x = None THEN None ELSE IF x.ann = None THEN s ELSE route

\* UpsertLogicalCluster and DeleteLogicalCluster of the front-proxy's index: an LC
\* that is migrating is ignored, and so is the deletion of one routed elsewhere.
Index(s, x) ==
    route' = IF x = None THEN (IF route = s THEN None ELSE route)
             ELSE IF x.ann = None THEN s ELSE route

\* The front-proxy handles the next change of a shard's LC object.
IndexObserve(s) ==
    /\ Len(feed[s]) > 1
    /\ feed' = [feed EXCEPT ![s] = Tail(@)]
    /\ Index(s, feed[s][2])
    /\ UNCHANGED <<mig, life, cache, worker, queued, etcd, lc, lister, registry, blocked, req,
                   acked, written, wsDeleted, faults>>

\* The periodic resync of the front-proxy's informer.
IndexResync(s) ==
    /\ Resyncing
    /\ feed[s][1] # None
    /\ Index(s, feed[s][1])
    /\ UNCHANGED <<mig, life, cache, worker, queued, etcd, lc, feed, lister, registry, blocked,
                   req, acked, written, wsDeleted, faults>>

\* The workspace is deleted: its controller deletes the LC it is routed to.
DeleteWorkspace ==
    /\ Deletable /\ (wsDeleted \/ written < MaxWrites)
    /\ route # None /\ lc[route] # None
    /\ ~lc[route].deleting
    /\ SetLC(route, [lc[route] EXCEPT !.deleting = TRUE])
    /\ wsDeleted' = TRUE
    /\ UNCHANGED <<mig, life, cache, worker, queued, etcd, lister, registry, blocked,
                   route, req, acked, written, faults>>

\* The LC deletion controller: skips an LC that its informer shows as migrating,
\* deletes the content, then releases the LC it read.
DeleteLC(s) ==
    /\ lister[s] # None
    /\ lister[s].deleting /\ lister[s].ann = None
    /\ Wipe(s, IF lc[s] = lister[s] THEN Keys ELSE DataKeys)
    /\ <<etcd, lc>>' # <<etcd, lc>>
    /\ UNCHANGED <<mig, life, cache, worker, queued, lister, registry, blocked, route,
                   req, acked, written, wsDeleted, faults>>

\* A shard restarts: worker, registry, contexts and requests are gone, and its
\* informers list again.
Restart(s) ==
    /\ s \in Restartable
    /\ Fault
    /\ worker' = [worker EXCEPT ![s] = [m \in Migrations |-> Idle]]
    /\ registry' = [registry EXCEPT ![s] = None]
    /\ blocked' = [blocked EXCEPT ![s] = FALSE]
    /\ lister' = [lister EXCEPT ![s] = lc[s]]
    /\ queued' = {q \in queued : q[1] # s}
                   \cup ({s} \X {m \in Migrations : cache[m] # "absent"})
    /\ req' = IF req.shard = s THEN NoRequest ELSE req
    /\ UNCHANGED <<mig, life, cache, etcd, lc, feed, route, acked, written,
                   wsDeleted>>

-----------------------------------------------------------------------------
(* A client.  Its write passes the filters of the shard it is routed to    *)
(* (per-cluster context, then the registry), is applied to etcd if the     *)
(* object still is what the request read, and is acknowledged unless the   *)
(* context was cancelled meanwhile.                                        *)

ClientStart(k) ==
    /\ req.st = "none" /\ written + (IF wsDeleted THEN 1 ELSE 0) < MaxWrites
    /\ route # None /\ registry[route] = None /\ ~blocked[route]
    /\ lc[route] # None /\ etcd[route][k] # None
    /\ written' = written + 1
    /\ req' = [st |-> "admitted", shard |-> route, k |-> k, read |-> etcd[route][k],
               live |-> TRUE]
    /\ UNCHANGED <<mig, life, cache, worker, queued, etcd, lc, feed, lister, registry,
                   blocked, route, acked, wsDeleted, faults>>

ClientApply ==
    /\ req.st = "admitted" /\ etcd[req.shard][req.k] = req.read
    /\ etcd' = [etcd EXCEPT ![req.shard][req.k] = written]
    /\ req' = [req EXCEPT !.st = "applied"]
    /\ UNCHANGED <<mig, life, cache, worker, queued, lc, feed, lister, registry,
                   blocked, route, acked, written, wsDeleted, faults>>

ClientAck ==
    /\ req.st = "applied" /\ req.live
    /\ acked' = [acked EXCEPT ![req.k] = written]
    /\ req' = NoRequest
    /\ UNCHANGED <<mig, life, cache, worker, queued, etcd, lc, feed, lister, registry,
                   blocked, route, written, wsDeleted, faults>>

\* The request failed: cancelled, or its object changed or went away.
ClientFail ==
    /\ req.st # "none"
    /\ ~req.live \/ (req.st = "admitted" /\ etcd[req.shard][req.k] # req.read)
    /\ req' = NoRequest
    /\ UNCHANGED <<mig, life, cache, worker, queued, etcd, lc, feed, lister, registry,
                   blocked, route, acked, written, wsDeleted, faults>>

-----------------------------------------------------------------------------
Reconcile(s, m) ==
    \/ Get(s, m) \/ StartCancellation(s, m) \/ DetectLCDeletion(s, m) \/ Wait(s, m)
    \/ Start(s, m) \/ Prepare(s, m) \/ PrepareRegister(s, m) \/ PrepareBlock(s, m)
    \/ Migrate(s, m) \/ OriginCleanup(s, m)
    \/ DestinationFinalize(s, m) \/ DestinationRelease(s, m)
    \/ Abort(s, m) \/ RemoveFinalizer(s, m)
    \/ KeepBlocked(s, m) \/ BlockForCancellation(s, m) \/ Restore(s, m)
    \/ CancellationCleanup(s, m) \/ CancellationFinalize(s, m)
    \/ CancellationCheck(s, m) \/ CancellationRelease(s, m)
    \/ Commit(s, m)

Next ==
    \/ \E s \in Shards, m \in Migrations : Reconcile(s, m)
    \/ \E m \in Migrations : CreateMigration(m) \/ DeleteMigration(m) \/ Replicate(m)
    \/ \E s \in Shards : \/ Resync(s) \/ SyncLister(s) \/ IndexObserve(s) \/ IndexResync(s)
                         \/ DeleteLC(s) \/ Restart(s)
    \/ DeleteWorkspace
    \/ \E k \in DataKeys : ClientStart(k)
    \/ ClientApply \/ ClientAck \/ ClientFail

Spec == Init /\ [][Next]_vars

\* Workers, informers and the replication make progress; no client, no
\* administrator and no fault is obliged to act, and no resync is relied on.
Fairness ==
    /\ \A s \in Shards, m \in Migrations : WF_vars(Reconcile(s, m))
    /\ \A m \in Migrations : WF_vars(Replicate(m))
    /\ \A s \in Shards : WF_vars(SyncLister(s)) /\ WF_vars(IndexObserve(s))

FairSpec == Spec /\ Fairness

\* The informers also resync, as they do every few hours.
ResyncSpec == FairSpec /\ \A s \in Shards : WF_vars(Resync(s)) /\ WF_vars(IndexResync(s))

-----------------------------------------------------------------------------
(* The inductive invariant of the migration objects (MigrationProofs).     *)

\* A migration under way has its finalizer.
Guarded(o) == o.phase \notin Terminal \cup {""} => o.fin

\* A handler that read o may leave n.
Follows(o, n) ==
    /\ o.phase \in Terminal => n.phase = o.phase
    /\ o.origin # None => n.origin = o.origin

ObjectsInv ==
    /\ mig \in [Migrations -> MigrationObjects]
    /\ life \in [Migrations -> {"unborn", "exists", "gone"}]
    /\ \A m \in Migrations :
          /\ Guarded(mig[m])
          /\ life[m] = "exists" /\ mig[m].deleting => mig[m].fin
          /\ life[m] = "gone" => ~mig[m].fin
          /\ life[m] = "unborn" => mig[m] = NewMigration

WorkerOK(w) ==
    /\ w.pc # "idle" => Guarded(w.obj) /\ (w.obj.deleting => w.obj.fin)
    /\ w.pc \in {"register", "block", "finalize", "check", "release"} =>
          w.obj.phase \notin Terminal \cup {""}
    /\ w.pc = "commit" => Guarded(w.new) /\ Follows(w.obj, w.new)

WorkersInv ==
    /\ worker \in [Shards -> [Migrations -> Workers]]
    /\ \A s \in Shards, m \in Migrations : WorkerOK(worker[s][m])

MigrationInv == ObjectsInv /\ WorkersInv

-----------------------------------------------------------------------------
(* Properties.                                                             *)

\* Shard s holds the whole LC.
Complete(s) == lc[s] # None /\ \A k \in DataKeys : etcd[s][k] # None

\* The shard to which clients are routed and which would admit them.
Serves(s) == route = s /\ registry[s] = None /\ ~blocked[s] /\ lc[s] # None

\* Until its workspace is deleted, some shard holds the whole LC: no order of
\* copying, cleaning, cancelling, failing and restarting deletes the only copy
\* (deleteOriginData runs only where another complete copy exists).
DataNeverLost == wsDeleted \/ \E s \in Shards : Complete(s)

\* Whichever shard serves clients has every write that was ever acknowledged:
\* none slips in behind the copy between the filter's check and the cancellation
\* of the request contexts (reconcilePreparing).
ServedDataIsCurrent ==
    \A s \in Shards : Serves(s) /\ ~wsDeleted =>
        \A k \in DataKeys : etcd[s][k] # None /\ etcd[s][k] >= acked[k]

\* While a migration moves the LC, no shard admits a client's request
\* (WithBlockMigratingLogicalClusters, and the front-proxy's route).
ClientsBlockedWhileMigrating ==
    \A m \in Migrations, s \in Shards :
        mig[m].phase \in {"Migrating", "OriginCleanup"} => ~Serves(s)

\* A migration that ended leaves the LC on one shard, open to clients, and
\* nothing of it on the other: on the destination when it completed, on the
\* origin when it was cancelled.
EndsSettled ==
    \A m \in Migrations :
        LET o == mig[m]
            settled(s, t) ==
                /\ Complete(s) /\ lc[s].ann = None
                /\ t # None => Present(t) = {}
                /\ \A x \in {s, t} \ {None} : registry[x] = None /\ ~blocked[x] IN
        /\ o.phase = "Completed" /\ ~wsDeleted => settled(Dest[m], o.origin)
        /\ o.phase = "Cancelled" /\ ~wsDeleted => settled(o.origin, Dest[m])

\* When the front-proxy has handled every change of the LC, in whatever order the
\* two shards' changes arrived, a migration that completed has left the route on
\* the destination (finalizeDestination publishes it, DeleteLogicalCluster leaves
\* the route of another shard alone).
RouteFollows ==
    \A m \in Migrations :
        (~wsDeleted /\ mig[m].phase = "Completed" /\ \A s \in Shards : Len(feed[s]) = 1)
            => route = Dest[m]

\* While the destination copies, the origin's LC carries that migration's
\* annotation, whatever other migrations of the LC start, fail or are cancelled
\* (reconcilePreparing and finalizeCancellation look at the owner first).
AnnotationIsKept ==
    \A m \in Migrations :
        LET s == mig[m].origin IN
        mig[m].phase = "Migrating" /\ lc[s] # None => lc[s].ann = m

\* A migration is aborted only when the workspace was deleted: neither a
\* destination that has no copy yet nor the origin's own cleanup is taken for a
\* deletion (reconcile, the check before the phases).
AbortOnlyAfterDeletion ==
    \A m \in Migrations : mig[m].phase = "Aborting" => wsDeleted

\* The outcome of a migration is final, and so is its origin once it is recorded:
\* no late commit of a worker, of either shard, and no deletion of the object turns
\* a migration that ended into another one (startCancellation leaves ended
\* migrations alone, the committer refuses what was computed from an old object).
OutcomeIsFinal ==
    [][\A m \in Migrations :
          /\ mig[m].phase \in Terminal => mig'[m].phase = mig[m].phase
          /\ mig[m].origin # None => mig'[m].origin = mig[m].origin]_vars

\* A migration object disappears only before it started or after it ended: the
\* finalizer is persisted before the first side effect and removed after the last
\* (addFinalizer, removeFinalizer).
NeverVanishes ==
    \A m \in Migrations : life[m] = "gone" => mig[m].phase \in Terminal \cup {""}

\* A cancelled migration ends for good, through restarts and failing calls, without
\* any help of the cache server, which does not carry objects that are being deleted
\* (the poll in process).
CancellationCompletes ==
    <>[](\A m \in Migrations : mig[m].deleting => mig[m].phase \in Terminal \/ life[m] = "gone")

\* The origin restarted while the destination copies: its registry is empty, and
\* in Migrating the origin does not register the LC again.
Orphaned(m) == mig[m].phase = "Migrating" /\ registry[mig[m].origin] = None

\* A migration ends, unless it is cancelled or its origin restarts: a destination
\* that restarts between two pages, a failed call and a lost commit only delay it
\* (reconcileMigrating resumes from status.dumpContinue).
MigrationCompletes ==
    <>[](\A m \in Migrations : life[m] = "exists" =>
            mig[m].phase \in Terminal \/ mig[m].deleting \/ Orphaned(m))

\* A deleted migration goes away: some shard removes the finalizer (the final
\* phases of reconcile).
DeletedMigrationGoes ==
    <>[](\A m \in Migrations : mig[m].deleting => life[m] = "gone")

\* A cancelled migration leaves the LC whole, routed to, and open to clients from
\* some point on (finalizeCancellation, UpsertLogicalCluster).
CancellationRestoresService ==
    <>[](\A m \in Migrations : mig[m].deleting =>
            wsDeleted \/ \E s \in Shards : Serves(s) /\ Complete(s))
=============================================================================
