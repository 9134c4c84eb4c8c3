----------------------------- MODULE ProxyIndex -----------------------------
(***************************************************************************)
(* The index of the front-proxy (pkg/index) and the controller that feeds  *)
(* it (pkg/proxy/index).  The index resolves a workspace path to a logical *)
(* cluster (LC) and the shard that has it.  It is pieced together from two *)
(* informers per shard, one of Workspaces and one of LogicalClusters.      *)
(*                                                                         *)
(* Each informer delivers in its own time.  It may hand over an object as  *)
(* it is by then, and what happened to it in between is lost, as when a    *)
(* watch has to list again; or its watch falls behind and the handlers run *)
(* for versions that have since been replaced or deleted.  Handlers hold   *)
(* the write lock of the index, so each is one step.                       *)
(*                                                                         *)
(* The workspaces and LCs themselves come and go and move between shards   *)
(* as the workspace, deletion and migration controllers make them.         *)
(***************************************************************************)
EXTENDS Naturals, Sequences, Functions

CONSTANTS
    Shards,
    Clusters,     \* the LCs, in the order their names are handed out
    Root,         \* the root LC, which has no workspace
    Names,        \* the names of workspaces
    Home,         \* the shard of the root LC
    Budgets,      \* how often each of Events may happen
    Empty,        \* the empty string, as the name of an LC
    None          \* no entry in a map

Children == Range(Clusters)
LCNames  == Children \cup {Root}

\* A slot: where a workspace of a name can be.
Slots == LCNames \X Names

\* What users and operators do, and that a watch falls behind.
Events == {"create", "mount", "delete", "phase", "migrate", "renew", "restart", "lag"}

ASSUME ProxyIndexAssumption ==
    /\ Clusters \in Seq(Children) /\ IsInjective(Clusters) /\ Root \notin Children
    /\ Home \in Shards
    /\ Budgets \subseteq [Events -> Nat]
    /\ None \notin Shards \cup LCNames \cup Slots \cup {Empty}
    /\ Empty \notin LCNames

VARIABLES
    lcs,            \* the LCs of each shard
    workspaces,     \* the Workspaces of each shard
    handed,         \* how many LC names have been handed out
    lcsSent,        \* the LCs as the watch of the shard's informer has sent them
    workspacesSent, \* the Workspaces as the other watch has sent them
    lcsSeen,        \* the LCs as they were handed to the handlers
    workspacesSeen, \* the Workspaces as they were
    running,        \* the shards whose informers run
    renewed,        \* the shards whose base URL has changed
    stopping,       \* a shard whose informers are about to be stopped, or None
    clusterShards,  \* the index: LC -> shard
    forward,        \* shard, slot -> LC
    reverse,        \* shard, LC -> slot
    mounts,         \* shard -> the slots of its mounts
    errors,         \* shard -> the slots that answer 503
    baseURLs,       \* shard -> base URL
    budget          \* how often each of Events may still happen

worldVars == <<lcs, workspaces, handed>>
sentVars  == <<lcsSent, workspacesSent>>
seenVars  == <<lcsSeen, workspacesSeen>>
shardVars == <<running, renewed, stopping>>
indexVars == <<clusterShards, forward, reverse, mounts, errors, baseURLs>>
vars == <<worldVars, sentVars, seenVars, shardVars, indexVars, budget>>

----------------------------------------------------------------------------
\* An LC: the slot of the workspace that owns it, the migrating annotation, and
\* whether it is the copy of a migration that has not finished.
LC == [exists : BOOLEAN, owner : Slots \cup {None}, migrating : BOOLEAN, copy : BOOLEAN]
NoLC == [exists |-> FALSE, owner |-> None, migrating |-> FALSE, copy |-> FALSE]
RootLC == [NoLC EXCEPT !.exists = TRUE]

\* A Workspace: whether it is a mount, its phase (every phase after Scheduling
\* but Unavailable is "Ready" here), and spec.cluster.
Phases == {"Scheduling", "Ready", "Unavailable"}
Workspace == [exists : BOOLEAN, mount : BOOLEAN, phase : Phases,
              cluster : Children \cup {Empty}]
NoWorkspace == [exists |-> FALSE, mount |-> FALSE, phase |-> "Scheduling",
                cluster |-> Empty]

NoEdges == [x \in Slots |-> None]
NoBack  == [c \in Children |-> None]
NoLCs   == [c \in LCNames |-> NoLC]
NoWorkspaces == [x \in Slots |-> NoWorkspace]

TypeOK ==
    /\ lcs \in [Shards -> [LCNames -> LC]]
    /\ workspaces \in [Shards -> [Slots -> Workspace]]
    /\ handed \in 0..Len(Clusters)
    /\ lcsSent \in [Shards -> [LCNames -> LC]]
    /\ workspacesSent \in [Shards -> [Slots -> Workspace]]
    /\ lcsSeen \in [Shards -> [LCNames -> LC]]
    /\ workspacesSeen \in [Shards -> [Slots -> Workspace]]
    /\ running \subseteq Shards /\ renewed \subseteq Shards
    /\ stopping \in Shards \cup {None}
    /\ clusterShards \in [LCNames -> Shards \cup {None}]
    /\ forward \in [Shards -> [Slots -> Children \cup {None, Empty}]]
    /\ reverse \in [Shards -> [Children -> Slots \cup {None}]]
    /\ mounts \in [Shards -> SUBSET Slots]
    /\ errors \in [Shards -> SUBSET Slots]
    /\ baseURLs \in [Shards -> {"none", "old", "new"}]
    /\ budget \in [Events -> Nat]

Init ==
    /\ lcs = [s \in Shards |-> [c \in LCNames |->
                IF s = Home /\ c = Root THEN RootLC ELSE NoLC]]
    /\ workspaces = [s \in Shards |-> NoWorkspaces]
    /\ handed = 0
    /\ lcsSent = [s \in Shards |-> NoLCs]
    /\ workspacesSent = [s \in Shards |-> NoWorkspaces]
    /\ lcsSeen = [s \in Shards |-> NoLCs]
    /\ workspacesSeen = [s \in Shards |-> NoWorkspaces]
    /\ running = {} /\ renewed = {} /\ stopping = None
    /\ clusterShards = [c \in LCNames |-> None]
    /\ forward = [s \in Shards |-> NoEdges]
    /\ reverse = [s \in Shards |-> NoBack]
    /\ mounts = [s \in Shards |-> {}]
    /\ errors = [s \in Shards |-> {}]
    /\ baseURLs = [s \in Shards |-> "old"]
    /\ budget \in Budgets

Spend(event) ==
    /\ budget[event] > 0
    /\ budget' = [budget EXCEPT ![event] = @ - 1]

----------------------------------------------------------------------------
(* The workspaces and LCs.                                                 *)

WriteLC(s, c, lc) == lcs' = [lcs EXCEPT ![s][c] = lc]
WriteWorkspace(s, x, w) == workspaces' = [workspaces EXCEPT ![s][x] = w]
Indexed == UNCHANGED <<sentVars, seenVars, shardVars, indexVars>>

\* A user creates a workspace or a mount in an LC that serves.
CreateWorkspace(s, x, mount) ==
    /\ lcs[s][x[1]].exists /\ ~lcs[s][x[1]].migrating
    /\ ~workspaces[s][x].exists
    /\ mount \/ handed < Len(Clusters)
    /\ Spend(IF mount THEN "mount" ELSE "create")
    /\ WriteWorkspace(s, x, [NoWorkspace EXCEPT !.exists = TRUE, !.mount = mount])
    /\ UNCHANGED <<lcs, handed>> /\ Indexed

\* The workspace controller creates the LC of the workspace on some shard ...
Schedule(s, x, t) ==
    LET w == workspaces[s][x]
        started == \E u \in Shards, c \in Children : lcs[u][c].exists /\ lcs[u][c].owner = x
    IN  /\ w.exists /\ ~w.mount /\ w.phase = "Scheduling" /\ ~started
        /\ ~lcs[s][x[1]].migrating
        /\ handed < Len(Clusters)
        /\ handed' = handed + 1
        /\ WriteLC(t, Clusters[handed + 1], [NoLC EXCEPT !.exists = TRUE, !.owner = x])
        /\ UNCHANGED <<workspaces, budget>> /\ Indexed

\* ... and publishes it in spec.cluster, after which the phase moves on.  A mount
\* has no LC: its phase moves on when its URL is known.
Publish(s, x) ==
    /\ workspaces[s][x].exists /\ workspaces[s][x].phase = "Scheduling"
    /\ ~lcs[s][x[1]].migrating
    /\ \/ /\ workspaces[s][x].mount
          /\ WriteWorkspace(s, x, [workspaces[s][x] EXCEPT !.phase = "Ready"])
       \/ \E u \in Shards, c \in Children :
            /\ lcs[u][c].exists /\ lcs[u][c].owner = x
            /\ WriteWorkspace(s, x, [workspaces[s][x] EXCEPT !.phase = "Ready", !.cluster = c])
    /\ UNCHANGED <<lcs, handed, budget>> /\ Indexed

\* The phase reconciler marks the workspace Unavailable, and Ready again.
SetPhase(s, x) ==
    LET w == workspaces[s][x]
    IN  /\ w.exists /\ w.phase # "Scheduling"
        /\ ~lcs[s][x[1]].migrating
        /\ Spend("phase")
        /\ WriteWorkspace(s, x, [w EXCEPT !.phase =
                IF @ = "Ready" THEN "Unavailable" ELSE "Ready"])
        /\ UNCHANGED <<lcs, handed>> /\ Indexed

\* A user deletes a workspace.  Its LC goes once there is no workspace left in
\* it, and only then does the workspace (DeleteWorkspaceObject).
DeleteLC(s, x) ==
    /\ workspaces[s][x].exists /\ ~workspaces[s][x].mount
    /\ Spend("delete")
    /\ \E t \in Shards, c \in Children :
         /\ lcs[t][c].exists /\ lcs[t][c].owner = x /\ ~lcs[t][c].migrating
         /\ workspaces[s][x].cluster = c
         /\ \A n \in Names : ~workspaces[t][<<c, n>>].exists
         /\ WriteLC(t, c, NoLC)
    /\ UNCHANGED <<workspaces, handed>> /\ Indexed

DeleteWorkspaceObject(s, x) ==
    /\ workspaces[s][x].exists /\ workspaces[s][x].cluster # Empty
    /\ \A t \in Shards : ~lcs[t][workspaces[s][x].cluster].exists
    /\ ~lcs[s][x[1]].migrating
    /\ WriteWorkspace(s, x, NoWorkspace)
    /\ UNCHANGED <<lcs, handed, budget>> /\ Indexed

DeleteMount(s, x) ==
    /\ workspaces[s][x].exists /\ workspaces[s][x].mount
    /\ ~lcs[s][x[1]].migrating
    /\ Spend("delete")
    /\ WriteWorkspace(s, x, NoWorkspace)
    /\ UNCHANGED <<lcs, handed>> /\ Indexed

\* The migration controllers move an LC and the workspaces in it to another
\* shard: the origin is annotated ...
Migrate(s, c) ==
    /\ lcs[s][c].exists /\ ~lcs[s][c].migrating
    /\ Spend("migrate")
    /\ WriteLC(s, c, [lcs[s][c] EXCEPT !.migrating = TRUE])
    /\ UNCHANGED <<workspaces, handed>> /\ Indexed

Inside(c) == {c} \X Names

\* ... the LC and its contents are copied to the destination, annotated too ...
CopyLC(s, c, t) ==
    /\ s # t
    /\ lcs[s][c].exists /\ lcs[s][c].migrating /\ ~lcs[s][c].copy
    /\ \A u \in Shards \ {s} : ~lcs[u][c].exists
    /\ WriteLC(t, c, [lcs[s][c] EXCEPT !.copy = TRUE])
    /\ workspaces' = [workspaces EXCEPT ![t] = [x \in Slots |->
            IF x \in Inside(c) THEN workspaces[s][x] ELSE @[x]]]
    /\ UNCHANGED <<handed, budget>> /\ Indexed

\* ... deleted from the origin ...
DropOrigin(s, c) ==
    /\ lcs[s][c].exists /\ ~lcs[s][c].copy
    /\ \E t \in Shards : lcs[t][c].exists /\ lcs[t][c].copy
    /\ WriteLC(s, c, NoLC)
    /\ workspaces' = [workspaces EXCEPT ![s] = [x \in Slots |->
            IF x \in Inside(c) THEN NoWorkspace ELSE @[x]]]
    /\ UNCHANGED <<handed, budget>> /\ Indexed

\* ... and the annotation is taken off the copy.
FinishMigration(t, c) ==
    /\ lcs[t][c].exists /\ lcs[t][c].copy
    /\ \A s \in Shards \ {t} : ~lcs[s][c].exists
    /\ WriteLC(t, c, [lcs[t][c] EXCEPT !.copy = FALSE, !.migrating = FALSE])
    /\ UNCHANGED <<workspaces, handed, budget>> /\ Indexed

Users == \E s \in Shards :
    \/ \E x \in Slots :
         \/ \E mount \in BOOLEAN : CreateWorkspace(s, x, mount)
         \/ SetPhase(s, x)
         \/ DeleteLC(s, x)
         \/ DeleteMount(s, x)
    \/ \E c \in Children : Migrate(s, c)

Controllers == \E s \in Shards :
    \/ \E x \in Slots :
         \/ \E t \in Shards : Schedule(s, x, t)
         \/ Publish(s, x)
         \/ DeleteWorkspaceObject(s, x)
    \/ \E c \in Children :
         \/ \E t \in Shards : CopyLC(s, c, t)
         \/ DropOrigin(s, c)
         \/ FinishMigration(s, c)

----------------------------------------------------------------------------
(* The handlers of the index.                                              *)

\* Mutant: the error code of a workspace that has recovered stays.
UpsertWorkspace_KeepError(s, x, w) ==
    IF w.phase = "Scheduling" THEN UNCHANGED <<forward, reverse, mounts, errors>>
    ELSE
        /\ errors' = [errors EXCEPT ![s] =
                IF w.phase = "Unavailable" THEN @ \cup {x} ELSE @]
        /\ IF (IF forward[s][x] = None THEN Empty ELSE forward[s][x]) # w.cluster
           THEN /\ forward' = [forward EXCEPT ![s][x] = w.cluster]
                /\ reverse' = [reverse EXCEPT ![s] = [c \in Children |->
                        IF c = w.cluster THEN x ELSE @[c]]]
           ELSE UNCHANGED <<forward, reverse>>
        /\ mounts' = [mounts EXCEPT ![s] = IF w.mount THEN @ \cup {x} ELSE @]


UpsertWorkspace(s, x, w) ==
    IF w.phase = "Scheduling" THEN UNCHANGED <<forward, reverse, mounts, errors>>
    ELSE
        /\ errors' = [errors EXCEPT ![s] =
                IF w.phase = "Unavailable" THEN @ \cup {x} ELSE @ \ {x}]
        /\ IF (IF forward[s][x] = None THEN Empty ELSE forward[s][x]) # w.cluster
           THEN /\ forward' = [forward EXCEPT ![s][x] = w.cluster]
                /\ reverse' = [reverse EXCEPT ![s] = [c \in Children |->
                        IF c = w.cluster THEN x ELSE @[c]]]
           ELSE UNCHANGED <<forward, reverse>>
        /\ mounts' = [mounts EXCEPT ![s] = IF w.mount THEN @ \cup {x} ELSE @]

\* Mutant: the reverse edges are emptied, not removed.
DeleteWorkspace_EmptyEntry(s, x, w) ==
    IF forward[s][x] = None /\ x \notin mounts[s]
    THEN UNCHANGED <<forward, reverse, mounts, errors>>
    ELSE
        /\ forward' = [forward EXCEPT ![s][x] = None]
        /\ reverse' = [reverse EXCEPT ![s] = [c \in Children |->
                IF forward[s][x] # None /\ c = w.cluster THEN Empty ELSE @[c]]]
        /\ mounts' = [mounts EXCEPT ![s] = @ \ {x}]
        /\ errors' = [errors EXCEPT ![s] = @ \ {x}]

\* w: the object as it was last delivered.
DeleteWorkspace(s, x, w) ==
    IF forward[s][x] = None /\ x \notin mounts[s]
    THEN UNCHANGED <<forward, reverse, mounts, errors>>
    ELSE
        /\ forward' = [forward EXCEPT ![s][x] = None]
        /\ reverse' = [reverse EXCEPT ![s] = [c \in Children |->
                IF forward[s][x] # None /\ c = w.cluster THEN None ELSE @[c]]]
        /\ mounts' = [mounts EXCEPT ![s] = @ \ {x}]
        /\ errors' = [errors EXCEPT ![s] = @ \ {x}]

\* Mutant: an LC with the migrating annotation is not passed over.
UpsertLogicalCluster_Annotated(s, c, lc) ==
    IF clusterShards[c] = s
    THEN UNCHANGED <<clusterShards, forward, reverse>>
    ELSE
        LET parentShard == clusterShards[lc.owner[1]]
            known == lc.owner # None /\ parentShard # None
        IN  /\ clusterShards' = [clusterShards EXCEPT ![c] = s]
            /\ forward' = IF known /\ forward[parentShard][lc.owner] = None
                          THEN [forward EXCEPT ![parentShard][lc.owner] = c]
                          ELSE forward
            /\ reverse' = IF known /\ reverse[parentShard][c] = None
                          THEN [reverse EXCEPT ![parentShard][c] = lc.owner]
                          ELSE reverse


UpsertLogicalCluster(s, c, lc) ==
    IF clusterShards[c] = s \/ lc.migrating
    THEN UNCHANGED <<clusterShards, forward, reverse>>
    ELSE
        LET parentShard == clusterShards[lc.owner[1]]
            known == lc.owner # None /\ parentShard # None
        IN  /\ clusterShards' = [clusterShards EXCEPT ![c] = s]
            /\ forward' = IF known /\ forward[parentShard][lc.owner] = None
                          THEN [forward EXCEPT ![parentShard][lc.owner] = c]
                          ELSE forward
            /\ reverse' = IF known /\ reverse[parentShard][c] = None
                          THEN [reverse EXCEPT ![parentShard][c] = lc.owner]
                          ELSE reverse

DeleteLogicalCluster(s, c) ==
    IF clusterShards[c] # s
    THEN UNCHANGED <<clusterShards, forward, reverse, mounts, errors>>
    ELSE
        LET scrubbed == Inside(c) \cup (IF c \in Children THEN {reverse[s][c]} ELSE {})
        IN  /\ clusterShards' = [clusterShards EXCEPT ![c] = None]
            /\ reverse' = [reverse EXCEPT ![s] = [d \in Children |->
                    IF d = c THEN None ELSE @[d]]]
            /\ forward' = [forward EXCEPT ![s] = [x \in Slots |->
                    IF x \in scrubbed THEN None ELSE @[x]]]
            /\ mounts' = [mounts EXCEPT ![s] = @ \ scrubbed]
            /\ errors' = [errors EXCEPT ![s] = @ \ scrubbed]

----------------------------------------------------------------------------
(* The informers of a shard.                                               *)

\* A watch falls behind: the handlers run for the objects as they are now,
\* whatever happens to them before.
LagWorkspaces(s) ==
    /\ s \in running
    /\ workspacesSent[s] = workspacesSeen[s] /\ workspacesSent[s] # workspaces[s]
    /\ Spend("lag")
    /\ workspacesSent' = [workspacesSent EXCEPT ![s] = workspaces[s]]
    /\ UNCHANGED <<worldVars, lcsSent, seenVars, shardVars, indexVars>>

LagLCs(s) ==
    /\ s \in running
    /\ lcsSent[s] = lcsSeen[s] /\ lcsSent[s] # lcs[s]
    /\ Spend("lag")
    /\ lcsSent' = [lcsSent EXCEPT ![s] = lcs[s]]
    /\ UNCHANGED <<worldVars, workspacesSent, seenVars, shardVars, indexVars>>

\* What the handlers run for next: what the watch has sent, and when there is
\* nothing of it left, what it will send.
NextWorkspaces(s) ==
    IF workspacesSent[s] = workspacesSeen[s] THEN workspaces[s] ELSE workspacesSent[s]

NextLCs(s) == IF lcsSent[s] = lcsSeen[s] THEN lcs[s] ELSE lcsSent[s]

\* An informer delivers a Workspace: an add or an update, or a delete with the
\* object as it was last delivered.
SeeWorkspace(s, x) ==
    LET w == NextWorkspaces(s)[x] IN
    /\ s \in running
    /\ workspacesSeen[s][x] # w
    /\ workspacesSent' = [workspacesSent EXCEPT ![s][x] = w]
    /\ workspacesSeen' = [workspacesSeen EXCEPT ![s][x] = w]
    /\ IF w.exists
       THEN UpsertWorkspace(s, x, w)
       ELSE DeleteWorkspace(s, x, workspacesSeen[s][x])
    /\ UNCHANGED <<worldVars, lcsSent, lcsSeen, shardVars, clusterShards, baseURLs, budget>>

\* Mutant: the delete of an LC is not handled.
SeeLC_NoTombstone(s, c) ==
    LET lc == NextLCs(s)[c] IN
    /\ s \in running
    /\ lcsSeen[s][c] # lc
    /\ lcsSent' = [lcsSent EXCEPT ![s][c] = lc]
    /\ lcsSeen' = [lcsSeen EXCEPT ![s][c] = lc]
    /\ IF lc.exists
       THEN UpsertLogicalCluster(s, c, lc) /\ UNCHANGED <<mounts, errors>>
       ELSE UNCHANGED <<clusterShards, forward, reverse, mounts, errors>>
    /\ UNCHANGED <<worldVars, workspacesSent, workspacesSeen, shardVars, baseURLs, budget>>


SeeLC(s, c) ==
    LET lc == NextLCs(s)[c] IN
    /\ s \in running
    /\ lcsSeen[s][c] # lc
    /\ lcsSent' = [lcsSent EXCEPT ![s][c] = lc]
    /\ lcsSeen' = [lcsSeen EXCEPT ![s][c] = lc]
    /\ IF lc.exists
       THEN UpsertLogicalCluster(s, c, lc) /\ UNCHANGED <<mounts, errors>>
       ELSE DeleteLogicalCluster(s, c)
    /\ UNCHANGED <<worldVars, workspacesSent, workspacesSeen, shardVars, baseURLs, budget>>

\* Every resyncPeriod an informer delivers what it has again.
ResyncWorkspace(s, x) ==
    /\ s \in running /\ workspacesSeen[s][x].exists
    /\ UpsertWorkspace(s, x, workspacesSeen[s][x])
    /\ UNCHANGED <<worldVars, sentVars, seenVars, shardVars, clusterShards, baseURLs, budget>>

ResyncLC(s, c) ==
    /\ s \in running /\ lcsSeen[s][c].exists
    /\ UpsertLogicalCluster(s, c, lcsSeen[s][c])
    /\ UNCHANGED <<worldVars, sentVars, seenVars, shardVars, mounts, errors, baseURLs, budget>>

\* Mutant: the entry of the informers that were stopped is found, so that they
\* are not started again.
StartInformers_Once(s) ==
    /\ s \notin running /\ s \notin renewed
    /\ running' = running \cup {s}
    /\ UNCHANGED <<worldVars, sentVars, seenVars, renewed, stopping, indexVars, budget>>

\* process: the informers of a shard whose key is queued are started.
StartInformers(s) ==
    /\ s \notin running
    /\ running' = running \cup {s}
    /\ UNCHANGED <<worldVars, sentVars, seenVars, renewed, stopping, indexVars, budget>>

\* onShardUpdate for a new base URL.  stopShard first drops what the index has
\* of the shard; its informers still run ...
DeleteShard(s) ==
    /\ stopping = None /\ s \notin renewed
    /\ Spend("renew")
    /\ renewed' = renewed \cup {s} /\ stopping' = s
    /\ clusterShards' = [c \in LCNames |->
            IF clusterShards[c] = s THEN None ELSE clusterShards[c]]
    /\ forward' = [forward EXCEPT ![s] = NoEdges]
    /\ reverse' = [reverse EXCEPT ![s] = NoBack]
    /\ mounts' = [mounts EXCEPT ![s] = {}]
    /\ errors' = [errors EXCEPT ![s] = {}]
    /\ baseURLs' = [baseURLs EXCEPT ![s] = "none"]
    /\ UNCHANGED <<worldVars, sentVars, seenVars, running>>

\* ... then stops them, and the handler registers the shard again.
StopShard(s) ==
    /\ stopping = s
    /\ stopping' = None /\ running' = running \ {s}
    /\ lcsSent' = [lcsSent EXCEPT ![s] = NoLCs]
    /\ workspacesSent' = [workspacesSent EXCEPT ![s] = NoWorkspaces]
    /\ lcsSeen' = [lcsSeen EXCEPT ![s] = NoLCs]
    /\ workspacesSeen' = [workspacesSeen EXCEPT ![s] = NoWorkspaces]
    /\ baseURLs' = [baseURLs EXCEPT ![s] = "new"]
    /\ UNCHANGED <<worldVars, renewed, clusterShards, forward, reverse, mounts, errors, budget>>

\* The front-proxy restarts: only the shards are known at once.
Restart ==
    /\ Spend("restart")
    /\ running' = {} /\ stopping' = None
    /\ lcsSent' = [s \in Shards |-> NoLCs]
    /\ workspacesSent' = [s \in Shards |-> NoWorkspaces]
    /\ lcsSeen' = [s \in Shards |-> NoLCs]
    /\ workspacesSeen' = [s \in Shards |-> NoWorkspaces]
    /\ clusterShards' = [c \in LCNames |-> None]
    /\ forward' = [s \in Shards |-> NoEdges]
    /\ reverse' = [s \in Shards |-> NoBack]
    /\ mounts' = [s \in Shards |-> {}]
    /\ errors' = [s \in Shards |-> {}]
    /\ baseURLs' = [s \in Shards |-> IF s \in renewed THEN "new" ELSE "old"]
    /\ UNCHANGED <<worldVars, renewed>>

Deliver == \E s \in Shards :
    \/ \E x \in Slots : SeeWorkspace(s, x)
    \/ \E c \in LCNames : SeeLC(s, c)
    \/ StartInformers(s)
    \/ StopShard(s)

Resync == \E s \in Shards :
    \/ \E x \in Slots : ResyncWorkspace(s, x)
    \/ \E c \in LCNames : ResyncLC(s, c)

Operator == Restart \/ \E s \in Shards : DeleteShard(s)

FallBehind == \E s \in Shards : LagWorkspaces(s) \/ LagLCs(s)

Next == Users \/ Controllers \/ Deliver \/ Resync \/ Operator \/ FallBehind

Spec == Init /\ [][Next]_vars

\* The controllers finish what they have begun and the informers deliver, in
\* whatever order; the informers resync as long as they run.
FairSpec == Spec /\ WF_vars(Controllers \/ Deliver) /\ WF_vars(Resync)

----------------------------------------------------------------------------
(* Properties.                                                             *)

\* The copy that a migration makes is not routed to before the migration has
\* finished: UpsertLogicalCluster passes over an annotated LC, so that requests
\* go to the origin, or nowhere, while the contents are copied
\* (pkg/index/index.go:283).
NoRouteToCopy ==
    \A c \in Children, s \in Shards : lcs[s][c].copy => clusterShards[c] # s

\* A route is backed by an LC that the informer of its shard has delivered and
\* not yet delivered as deleted: no order of the events of several shards leaves
\* a route behind that no event will remove.  stopShard of a shard that is
\* registered anew can (pkg/index/index.go:264, 355, 486,
\* pkg/proxy/index/index_controller.go:293).
RouteIsBacked ==
    \A c \in LCNames, s \in Shards :
        clusterShards[c] = s /\ s \notin renewed => s \in running /\ lcsSeen[s][c].exists
====
