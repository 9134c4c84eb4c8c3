# TLA+ models of kcp

kcp serves many isolated Kubernetes-like control planes, the *logical clusters*
(LCs), from a set of *shards*. This directory holds models of the parts of kcp whose
correctness depends on the order in which several processes act, the TLC
configurations that check them on small instances, and TLAPS proofs.

## The system

| Part | Where (under `pkg/`) | What it does | Model |
|---|---|---|---|
| Context manager | `contextmanager` | one cancellable context per LC, shared by all its requests | `ContextManager`, `ClusterGate` |
| LC migration, dump endpoint | `reconciler/migration`, `server/migrationdump` | moves an LC's etcd data to another shard, or back | `Migration` |
| Request filters | `server/filters` | refuse requests to migrating, cancelled or inactive LCs | `Migration`, `LogicalCluster` |
| Workspace controller | `reconciler/tenancy/workspace` | schedules a workspace on a shard, creates and deletes its LC | `Workspaces` |
| LC controller and deletion | `reconciler/core/logicalcluster`, `logicalclusterdeletion` | an LC's labels, finalizers, phases, connections, content | `LogicalCluster` |
| API bindings | `reconciler/apis/apibinding`, `apibindingdeletion`, `crdcleanup`, `logicalclustercleanup`, `admission/crdnooverlappinggvr` | who owns a resource of an LC, and what becomes of its instances | `APIBindings` |
| Front-proxy index | `index`, `proxy/index` | resolves a workspace path to an LC and a shard | `ProxyIndex`, `ProxyLookup` |
| Cache replication | `reconciler/cache/replication`, `virtual/admin` | carries objects to the cache server, and a few fields back | `Replication` |
| Shard representation | `reconciler/core/shardrepresentation` | mirrors the shards into the root workspace | `ShardRepresentation` |
| Committer | `reconciler/committer` | versioned patches, status applies | in each of the above |

`PROJECT.json` lists every component with its status, maps definitions to source
lines, and lists the hazards of the code with the properties that watch them.

Nearly all of it is level-triggered controllers: a worker takes a key from a queue,
reads objects from listers that lag behind, and writes what it computed. What a write
does when the object has changed meanwhile differs from place to place (refused,
refused and repeated, forced, last writer wins), and most of the properties are about
the consequences. In every model a lister shows what the API server held at one
earlier moment, events may be collapsed, a failed call puts its key back, and a
restart loses queues, listers and memory, and nothing that is stored.

## Modules

### ContextManager and ClusterGate

`ContextManager` models `rootCtx` at the granularity of its `sync.Map`,
`singleflight` and mutex operations: `Lookup`, `Do`, `Build`, `Share` are the steps of
`context()`, `Cancel` is one critical section, `DeleteEntry` and `DeleteCancel` are the
two effects of `delete()` that a lock-free lookup can fall between, `StopRequest`,
`Cleanup` and `Shutdown` complete `Manager`. Identities of contexts are used again
when nothing refers to them, so behaviours have no length bound.

`ClusterGate` is what callers rely on: a key is open or blocked, a request runs only
on an open key, blocking and reopening stop its requests, each in one step.
`ContextManager` implements it (`ImplementsGate`). That result is what allows
`Migration` (`CancelContext`, `DeleteContext`) and `LogicalCluster` (`cancelled`) to
treat cancelling and deleting a context as single steps of their one LC.

### Migration

State: the migration objects (`mig`, `life`), their copy on the cache server
(`cache`), one worker per shard and migration (`worker`, `queued`), and per shard the
LC's keys (`etcd`), the LC object (`lc`), its informer copy (`lister`), the in-memory
registry (`registry`) and the cancelled context (`blocked`). The front-proxy has an
event stream per shard (`feed`) and its `route`. A client has one write in flight
(`req`); `acked` is what it was promised.

Actions: `Get` and `Commit` are the two ends of `process`. Each phase handler is an
action between them, split only where other processes can see an intermediate state:
preparing (`Prepare`, `PrepareRegister`, `PrepareBlock`), finalizing
(`DestinationFinalize`, `DestinationRelease`) and the end of a cancellation
(`CancellationFinalize`, `CancellationCheck`, `CancellationRelease`). A handler that
leaves the object unchanged commits nothing. Failing calls leave any part of a page
written or any part of the data deleted. `Restart` loses the worker, the registry and
the contexts, never etcd.

Abstractions: an LC is the keys `1..NumKeys` in dump order, one of them the LC object;
a continue token is the next key. An optimistic update succeeds when the object still
equals what was read; for the LC object this admits slightly more than the resource
version does. The condition a failed copy marks False is left out: it only causes
further conflicts. The reference count of the shared origin client, wildcard contexts
and informer purges are left out. A successful deletion of the data and
the release of context and registration after it are one step (`DeleteData`): the
handlers make no call in between that can fail, and a client finds no LC either way.
What another migration of the LC registers in that window is therefore not explored.
The API server drops an update that changes nothing, so it causes no event (`SetLC`).
The feeds of the front-proxy keep the order of each shard and none across shards. A
migration starts with an empty phase: the default of the phase field does not apply
while the object has no status. Clients are ordinary users; the administrators whom
the filter lets through are not modelled. The deletion of the workspace and of its LC
are one step each here; `Workspaces` and `LogicalCluster` have their stages.

### LogicalCluster and Workspaces

`LogicalCluster` is an LC on its shard: `ReconcileLC` is one pass of the
logicalcluster controller (`WithLabels`, `WithFinalizer`, `NextPhase` and, for the
context manager, `Contexts` are its reconcilers), `ReconcileDeletion` one of the
deletion controller. Initializers and terminators (`Initialize`, `Terminate`) are
external, but see only what the virtual workspaces show them, and they, like the
deletion of content, are refused while the LC is inactive or its context is cancelled
(`Blocked`). `Admit` hands out initializers and terminators when the phase becomes
Initializing; `Accepted` is the API server's rule that a deleting object takes no new
finalizer. `lcStale` stands for the resource version: it is set by every write and
reset when the lister catches up.

`Workspaces` extends it with the workspace controller. `Chain` is one pass: metadata,
deletion, scheduling and phase in the code's order, each returning the workspace it
leaves, whether it ends the pass and whether the key comes back. Scheduling has its
two commits: finalizer, shard and cluster name first, the LC and `spec` second. The
controller reaches the LC directly, if it knows the shard, and through the
front-proxy, whose index learns of LCs and of Unavailable workspaces in its own time
(`FrontProxy`). An LC's events wake the workspace only from the same shard.

Abstractions: initializers and terminators are a set or none; one suitable shard,
known or not; the content of an LC is present, going or gone; a generated cluster name
is free, or taken by an LC of another owner. A pass is one step, although its calls are
several: other writers of the workspace and of the LC interleave between passes, and a
call that fails half way is `fault`. The URL and shard annotation of an LC are left
out: no other part modelled reads them.

`Types` and `Budgets` (the numbers of deletions, toggles, lost shards, restarts and
failures of one behaviour) are constants, and each behaviour starts with one of each.

### APIBindings

One resource of one LC, the APIBindings and the CustomResourceDefinition that want it,
and the lock in an annotation of the LC. `Skip` and `Bind` are a pass of the apibinding
controller, which applies the annotation by force and its status without a version;
`AdmitCRD` is the admission plugin, which takes the lock against the version it read;
`StartCleanup` and `Clean` release locks, `CleanCRD` deletes unused bound CRDs,
`Delete` is the deletion controller with `Retention` by a successor. `heirs` is a
history variable for `HeirsKeepInstances`. A behaviour starts (`Starts`) with a new LC,
or with one in which a binding is bound and every controller has finished.

Abstractions: exports and schemas do not change; a failing creation of the CRD counts
as waiting for it; a binding has one resource and keeps its deletion policy. The expiry
of a CRD's lock is the time it was taken, as in the code, so it has always passed. Two
parts of the deletion controller are out of the model with what they wait for:

* The bindings have no permission claims. With claims the finalizer is also held while
  `status.appliedPermissionClaims` is not empty (`apibinding_deletion_controller.go:308-326`),
  which the permissionclaimlabel controller, not modelled, clears. `DeletionsFinish` says
  nothing of a binding whose claims are never withdrawn.
* The LC is not deleted. While it is, a binding that waits for a successor is deleted as
  if it did not (`apibinding_adoption.go:80-91`): `Retention` keeps the instances of such
  a binding for as long as there is no successor.

### ProxyIndex and ProxyLookup

The index as in `State`, one map per variable (`forward`, `reverse`, `mounts`,
`errors`, `clusterShards`, `baseURLs`), each handler one step (they hold the write
lock). Each shard has two informers, which deliver in their own time. Usually
`SeeWorkspace` and `SeeLC` hand over an object as it is by then, so that all that
happened since the last delivery is collapsed into one event. `LagWorkspaces` and
`LagLCs` let a watch fall behind: it has then sent the objects of the moment
(`workspacesSent`, `lcsSent`), and the handlers run for these versions, whatever has
become of the objects, before they run for later ones. So the add of an LC can be
handled after the deletion of its workspace, or after that of the LC itself.

`ProxyLookup` extends it with `Lookup` and `LookupURL`, the walk over a path; `Resolve`
is the same walk over the shards themselves and the reference the properties compare
with. Workspaces, mounts,
phases, deletions and migrations change the shards in the steps that the controllers
of the other modules take, reduced to what the index can see.

Abstractions: paths of up to three segments; rewriters, workspace types and the memory
of recent migrations are left out; a shard gets a new URL but is not removed for good.

### Replication and ShardRepresentation

One object and its copy. `ver` is the version at which the shard-owned content was
written, so that older content is smaller; `intent` stands for the cache-owned fields,
which administrators write to the copy (`WriteIntent`) and the controller carries back
(`UpdateLocal`). `Decide` is the two reads and the choice, every call a step of its
own, which may fail. `ShardRepresentation` composes it with the controller of the root
shard, which mirrors the copy with two calls, one for metadata and spec, one for the
status.

Some definitions are commented as mutants: each is the definition after it with one
plausible mistake, kept to show that a property notices it.

## What TLC checks

| Run | Instance | Result |
|---|---|---|
| `context_manager` | 3 goroutines, 1 key, fair | no request runs on a context that `Cancel` and `Delete` cannot reach; a blocked key has no live request; live requests share a context; a request stops when `Delete` has taken its context out of the map; lookups return; the gate is implemented |
| `migration_clients` | 2 shards, 2 keys; cancellation; a write or a workspace deletion | acknowledged writes survive; no client is admitted while data moves; aborts only after a deletion; the finalizer outlives the side effects; outcomes are final |
| `migration_restarts` | one restart or failed call, cancellable, fair | a complete copy always exists; the end leaves one copy, open and, once completed, routed to; migration and cancellation end |
| `migration_contention` | 2 migrations, 1 shard, both cancellable | neither takes the LC's annotation from the other |
| `migration_resync` | cancellable, fair, with resyncs | a deleted migration disappears, the LC is served again |
| `workspaces` | 3 types, 5 budgets, fair | Ready means initialized; no pass writes metadata and status together; no LC without a workspace to delete it; terminators keep their finalizer; workspaces become Ready, deleted ones go; connections are cancelled exactly while inactive |
| `shard_representation` | 2 intents, 2 writes, 1 intent write, 1 fault, fair | administrators' fields stay, content never goes back, copy and representation settle |
| `api_bindings` | 2 bindings of a schema, 7 starts with a budget each, fair | locks do not outlive their holders, a wanted resource is served, deletions finish, heirs keep instances |
| `proxy_index` | 2 shards, 2 LCs, 8 budgets, fair | routes are backed by delivered LCs and never lead to an unfinished copy; every path and name comes to resolve to what it stands for, with the exceptions named below |

Three runs end in a counterexample, where the code and its own comments disagree
(`findings` in `PROJECT.json` quotes them):

* `migration_twice`: a second migration to the same destination reads the first one's
  origin cleanup as a workspace deletion and deletes the only copy.
* `workspaces_terminators`: an LC deleted before the controller has added the
  terminators' finalizer goes with its terminators set.
* `workspaces_reactivated`: an LC reactivated while Terminating keeps its cancelled
  context, and its terminators and its content deletion are refused until a restart.

### Disagreements without a run

Met while modelling, with the same modules and other constants or with properties that
are not part of a run:

* Migration. An abort during the copy ends in Failed with pages left on the destination
  (`reconciler.go:464`). A restart of the origin during Migrating loses its
  registration, so that the dump is refused and the copy cannot resume
  (`reconciler.go:277-280`); clients are then also admitted. After a cancellation from
  DestinationFinalize the destination's late events can take the route away, until the
  next resync (`cancellation.go:186`). A migration whose destination is its origin
  loses its data. A finalization that is repeated on the destination removes the
  annotation of the next migration, if that one began after the first try
  (`reconciler.go:394` asks for any annotation). Of two migrations on a shard, the end of one's cancellation can remove
  the registration that the other made after the ownership check
  (`cancellation.go:192`). The user documentation says that a migration cannot be
  cancelled once started (`docs/content/concepts/sharding/migration.md:117`), which the
  code contradicts.
* Workspaces. A workspace on the shard of its LC that is deleted while Unavailable never
  goes: the delete call goes through the front-proxy, which answers 503, and the
  scheduling that would make it available is skipped (`workspace_reconcile_deletion.go:75`).
  The unconditional update to Initializing (`workspace_reconcile_scheduling.go:233`)
  takes a Ready LC back when the pass runs on a stale workspace. A workspace that became
  Unavailable before its location was set has no cluster name to ask for.
  The wait for a deleted LC in phase Scheduling ends with the ten-hour resync, not with
  an event as `workspace_reconcile_deletion.go:117` says. The admission rules for
  inactive LCs apply only to identities that may not toggle the annotation anyway.
  An inactive LC that is deleted waits for its reactivation.
* API bindings. Two bindings of different schemas can both be bound, since the lock is
  applied by force from a stale read (against `logical_cluster_lock.go:57-60`). Two
  bindings bound to one schema are held against each other by the conflict checker, and
  their status need not settle.
* Index. An LC addressed by name carries the error code of its workspace
  (`index.go:531`) only if both are on one shard. What the informers of a shard deliver
  while it is registered anew can stay in the index. `LookupURL` reads the base URL
  without the lock. A workspace that is deleted and created again as a mount of the same
  name, and delivered as one update, stays unreachable: `UpsertWorkspace` sets the edge
  of the old workspace to the empty cluster name and does not remove it
  (`index.go:172-186`). `Lookup` finds that edge and never comes to the mount
  (`index.go:546-569`, against "Lets check if we have a mount for this workspace, and if
  we do, we can return the URL from the mount"). A resync leaves the edge; a restart of
  the front-proxy, or the delivered deletion of the mount, removes it. Such an edge can
  also be left when the add of an LC is handled after the deletion of its workspace
  (`index.go:330`) and a mount then takes the name.
* Replication. A copy whose finalizer nobody removes outlives its object
  (against `replication_reconcile.go:141`), as `NoLeftover` allows.

Passing results hold within their instance. `ClientsBlockedWhileMigrating` is checked
without restarts, `RouteFollows` for completed migrations, `MigrationCompletes` but for
a restarted origin (`Orphaned`), `DataNeverLost` for one migration whose destination is
another shard, `WorkspaceBecomesReady` and `DeletedWorkspaceGoes` without a deletion
while the shard is lost, `DeletionsFinish` but for two bindings bound to one schema,
`PathsConverge` but for what a shard registered anew leaves behind (`Leaked`) and for
mounts behind an emptied edge (`Hidden`); outside they fail as above. `RouteIsBacked`
says nothing of the routes of a shard that is registered anew.

### Bounds

*Migration*: `NumKeys = 2` with pages of any size gives both a copy in one page and one
that resumes from a token, with the LC object in either page. `MaxFaults = 1` puts one
failure or one restart between any two steps; runs whose question is not about
failures use 0. A restart in the middle of a deletion or of a page is a failure
followed by a restart, two faults: `DataNeverLost` and `EndsSettled` also hold for the
constants of `migration_restarts` with `MaxFaults = 2`, which is not a run because its
liveness properties would take too long there. `MaxWrites = 1` puts the client's write,
or the workspace's deletion, at every point of a migration. Two migrations on two shards
are beyond exhaustive search, so `migration_contention` keeps to the origin and
`migration_twice` to one key.

*Context manager*: three goroutines are the fewest in which one looks up, one deletes
and one builds. Contexts are used again, but only as long as one is free, so the
instance with fairness has one key; the safety properties are proved for any number.

*Workspaces, APIBindings, ProxyIndex*: a behaviour draws one of a few budgets. Each
budget allows the combination of two or three kinds of events that share state (a
deletion with a failed call or a restart; toggles with either; a lost shard with a
taken name; a hand-over between bindings; creation and deletion with migration or with a
mount that takes the name, phase changes with a restart, a new URL with a mount). Each
kind occurs at every point. All kinds at once are beyond exhaustive search. In
`ProxyIndex` a watch falls behind at most twice: two are enough for both informers of a
shard, or those of two shards, to lag at once. In `APIBindings` the starts with a bound
binding reach hand-overs, names used again and old CRDs without the interleavings of
the first binding, which the starts with a new LC explore.

*Replication*: two writes of the owner include creation, deletion and recreation; one
intent and one fault fall between any two of the steps.

Deadlock is not checked where the system comes to rest: all but `context_manager`.

### Fairness

In `ContextManager`, goroutines inside the manager go on and the `AfterFunc` of a done
context runs; handlers need not return. `Build` waits for the mutex, which others may
take again and again, so it has strong fairness: Go's mutex hands over to a waiter
that starves.

In the controllers, a worker with a queued key goes on, an unfinished handler goes on,
informers deliver, a retried call succeeds at last (failures are drawn from a finite
bound), and the front-proxy's index follows. Nothing obliges clients, users,
administrators, faults or restarts. Beyond that:

* `ResyncSpec` of `Migration` and `ResyncWS`, `Resync` of `Workspaces` and `ProxyIndex`
  are the informers' resync: every ten hours on the shards (`pkg/server/server.go:73`),
  every two hours in the index (`pkg/proxy/index/index_controller.go:49`). Without it a
  migration that completes and is deleted before its last change is replicated keeps
  its finalizer, a workspace deleted before its location was stored stays, and an index
  that missed an event stays wrong.
* `Workspaces` assumes that initializers, terminators and finalizers of the content do
  their work, that a lost shard comes back, and that a pass in which nothing is out of
  the ordinary (`Usual`) is taken again and again: failures, taken names and the grace
  of a young workspace do not go on for ever.
* `ProxyIndex` assumes that controllers and informers together do not stop while one of
  them has something to do. Since both have finitely much to do, each gets its turn.
* `APIBindings` assumes that the API server establishes and finalizes CRDs. It does not
  assume that a CRD grows old.

## What is proved

`ContextManagerProofs` (for any sets of keys, goroutines and contexts): `TypeOK`, the
three safety properties above, and that every step of the manager is a step of
`ClusterGate` or a stutter. The inductive invariant `IInv` relates the mutex,
the deletion under way and the entries. The mutex is held across steps only by the
goroutine inside `Delete`, whose key has no entry meanwhile; no two keys share a
context; a context in use is cancelled, or the current entry of its key, or about to
be cancelled by that deletion. The last part alone is not inductive: a deletion must
not cancel another key's context, and no context may be created while it is under way.
The only assumption is `NoneAssumption`: the markers for "none" are no real values.

`MigrationProofs`, `MigrationDataProofs` and `MigrationServiceProofs` (for any shards,
migrations, keys and bounds) prove every invariant and action property that passing runs
check of `Migration`, from `ConstantsAssumption`, the types of the constants, and
`NoneAssumption`, that the marker for "none" is no LC object. A theorem that assumes
more says so in its statement:

| Theorem | Property | Assumes |
|---|---|---|
| `NeverVanishesTheorem` | `NeverVanishes` | |
| `OutcomeIsFinalTheorem` | `OutcomeIsFinal` | |
| `MigrationIsTyped` | `TypeOK` | |
| `AnnotationStays` | `AnnotationIsKept` | `Only(m)` |
| `AnnotationSurvivesContention` | `AnnotationIsKept` | `NoDestination` |
| `DataIsNeverLost` | `DataNeverLost` | `Only(m)` |
| `AbortNeedsDeletion` | `AbortOnlyAfterDeletion` | `Only(m)` |
| `MigrationEndsSettled` | `EndsSettled` | `Only(m)` |
| `ClientsAreBlocked` | `ClientsBlockedWhileMigrating` | `Only(m)`, no restarts |
| `ServedIsCurrent` | `ServedDataIsCurrent` | `Only(m)`, no restarts |
| `RouteFollowsTheMigration` | `RouteFollows` | `Only(m)`, no resync |

`Only(m)` says that `m` is the only migration of the LC and that its destination is
not its origin. The data properties are false without it (`migration_twice`). Restarts
are excluded where clients are concerned because the registry and the contexts are in
memory: a restarted origin admits clients in the middle of a copy. A resync of the
front-proxy indexes the object handled last again, which may be the origin's from
before the migration. Failed calls, cancellation, deletion of the workspace and every
lag of informers, cache and front-proxy are included throughout; so are restarts in all
other rows. `NoDestination` says that no migration has a destination that is there, as in
`migration_contention`, but for any number of migrations and with restarts, failures and
the deletion of the workspace. With destinations the property is false for more than one
migration, because of the repeated finalization described above.

None of these properties is inductive, because a worker commits what it computed from
an object it read earlier and every shard acts on its own view. The invariants build on
each other:

* `MigrationInv`, of the objects and the workers: what a worker read has its finalizer
  if it was under way or being deleted, and what it is about to commit keeps the
  finalizer while under way, keeps a recorded origin and keeps a final phase.
* `OrderInv`: each phase has one shard that may leave it (`Owns`, `Moves`). A worker of
  the owner has read the current phase, unless the origin has aborted meanwhile; a worker
  of the other shard may be late, by a known amount (`Knows`). Without it a late worker
  could repeat a cleanup. It also carries the annotation: set or seen by the origin, it
  stays until the migration is rolled back.
* `DataInv`: what each phase says of the two shards' keys (`HomeData`, `DestData`), for
  the current phase and for the one that a worker is about to commit. The second half is
  needed because the data is moved before the phase says so. It holds until the
  workspace is deleted, which is why an abort is known to follow a deletion.
* `ShutInv`: in which phases a shard refuses requests and has none of them alive; a shard
  is shut before the commit that relies on it.
* `FeedInv`, `RouteInv`: the front-proxy has seen, or will see, each LC object as it is;
  going forward, what it will see of the origin's is annotated or a deletion, and these
  leave the route of another shard alone.
* `CurrentInv`: `DataInv` for values, the acknowledged ones, for all keys or those before
  the token. It needs `ShutInv`: no request may write behind the token.
* `ContentionInv`, for `NoDestination`: a migration that is under way, or whose origin has
  seen or set its annotation, has it, as long as it is not being rolled back. An origin
  that only goes by its informer could be shown an annotation that is gone; the invariant
  says that then the rollback has begun, and the commit will be refused.

An invariance theorem has one named step per handler, which rests on steps for what the
handlers share (a return, an update of the LC object, a copy, a wipe).

`ReplicationProofs` (for any values and bounds): `IntentIsKept` and `NeverGoesBack`,
from an invariant that relates versions on the two sides: resource versions of objects,
listers and of the reconciliation in progress are at most the newest ones, equal
versions mean equal objects, and content that is read, listed or copied is never newer
than the object it came from. Without the second part a write that passes the version
check could still carry something other than what was read.

`ProxyIndexProofs` (for any shards, LCs, names and budgets, from
`ProxyIndexAssumption`): `TypeOK`; `RouteIsBacked`, from an invariant that adds what a
stopped or restarted informer has delivered; and `NoRouteToCopy` for budgets with at
most one migration (`OneMigration`). The last rests on where an LC has left a trace:
before its migration on its own shard only, and in what that shard has sent, so that the
destination knows nothing of it when the copy is made. An LC that migrates back may find its old route, if the deletion
was never delivered.

`WorkspacesProofs` (for any workspace type and any budget of deletions, toggles, lost
shards, taken names, restarts and failed calls, from `LogicalClusterAssumption`):
`TypeOK`, `ReadyMeansInitialized`, `FinalizerHolds`, `CommitsOneHalf` and, as long as no
shard is lost (`NoShardLost`), `NoOrphan`. That a Ready workspace has an initialized LC is not inductive: a pass of the workspace controller on a stale workspace
may put an existing LC back to Initializing. The invariant therefore adds that a
workspace is initialized only once its location is stored, that the controller which
made it Ready has seen that location (and so does not schedule again), that the LC of a
workspace not being deleted exists and is not deleted, and that the lister shows the LC
unless it was written since. Each reconciler of the controller has a lemma on what it
may do to the workspace and to the LC; `ChainFacts` composes them into a pass.
`CommitsOneHalf` needs to know which workspaces the reconcilers leave alone
(`SettledInv`): one that is being deleted before an LC was named goes through the whole
chain and must find its status as it should be. For `NoOrphan`, `OwnerInv` says that what
the controller has read of a name and of the finalizer still holds. A lost shard breaks
it: a workspace whose LC was created but whose location could not be stored becomes
Unavailable without a location, and its deletion, which asks for an LC without a name,
may be told that there is none.

`APIBindingsProofs` (for any bindings, schemas, policies and budgets, from
`APIBindingsAssumption`): `TypeOK` and `HeirsKeepInstances`. The deletion controller
looks for heirs in its lister, so the invariant speaks of both sides: a key queued for
deletion belongs to a binding being deleted, the heirs of such a binding are live, and
a lister that shows the deletion also shows the heirs.

Only model-checked: what rests on fairness, which is outside the prover's reach
(`RemovedContextStops`, `EveryLookupReturns`, `CancellationCompletes`,
`MigrationCompletes`, `DeletedMigrationGoes`, `CancellationRestoresService`,
`WorkspaceBecomesReady`, `DeletedWorkspaceGoes`, `InactiveSettles`, `Converges`,
`RepresentationConverges`, `LocksSettle`, `ResourceIsServed`, `DeletionsFinish`,
`PathsConverge`, `NamesConverge`). Every invariant and every action property of a passing
run is also a theorem, with the assumptions named above. The type invariants of
`ContextManager`, `Workspaces` and `APIBindings` are proved and not listed in a run as
well.

## Not modelled

* Controllers that compute one field from listers, and that no other modelled part
  reads back: API exports and endpoint slices, partitions, permission claim labels,
  replication labels, mount and type status, URLs of LCs. A model of each would restate
  its one assignment.
* Cached resources: their transport is that of `Replication`; what they add is the
  creation and removal of informers, that is, client-go's machinery.
* Dynamic informers, REST mapper, quota and garbage collection: wrappers that run
  upstream Kubernetes code per LC.
* Admission, authentication and authorization other than the plugins above: decisions
  on single requests, without state of their own.
* Virtual workspaces beyond what initializers, terminators and administrators may see
  and write: request routing and storage wrappers.
* Server assembly, command line, metrics, and generated clients, informers, deep copies
  and OpenAPI definitions, which are by far most of the repository's lines.
