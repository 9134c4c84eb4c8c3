-------------------------- MODULE ProxyIndexProofs --------------------------
(***************************************************************************)
(* The proofs that the index of the front-proxy keeps its types, that it   *)
(* routes only to shards whose informer has the LC (RouteIsBacked) and, as *)
(* long as there is one migration, not to an unfinished copy               *)
(* (NoRouteToCopy), for every number of shards, LCs and workspaces and     *)
(* every number of operations.                                             *)
(*                                                                         *)
(* A route is set by an event of the shard it points to, and removed by    *)
(* the next delete event of that shard.  RouteInv strengthens that for the *)
(* window in which stopShard has dropped the routes and the informers of   *)
(* the shard still run: only a shard that is registered anew is stopped.   *)
(***************************************************************************)
EXTENDS ProxyIndex, TLAPS

\* The types of what routes depend on.
RouteType ==
    /\ lcsSent \in [Shards -> [LCNames -> LC]]
    /\ lcsSeen \in [Shards -> [LCNames -> LC]]
    /\ lcs \in [Shards -> [LCNames -> LC]]
    /\ running \subseteq Shards /\ renewed \subseteq Shards
    /\ stopping \in renewed \cup {None}
    /\ clusterShards \in [LCNames -> Shards \cup {None}]

RouteInv == RouteType /\ RouteIsBacked

\* The missing LC and the root LC are LCs.
LEMMA NoLCType == /\ NoLC \in LC /\ ~NoLC.exists /\ RootLC \in LC
                  /\ NoLCs \in [LCNames -> LC]
                  /\ \A c \in LCNames : NoLCs[c] = NoLC
  BY Zenon DEF NoLC, LC, NoLCs, RootLC

\* The invariant holds at first.
LEMMA InitRoute == Init => RouteInv
<1> SUFFICES ASSUME Init PROVE RouteInv
  OBVIOUS
<1>1. RouteType
  BY Zenon, NoLCType DEF Init, RouteType
<1>2. RouteIsBacked
  BY Zenon, ProxyIndexAssumption DEF Init, RouteIsBacked
<1> QED BY Zenon, <1>1, <1>2 DEF RouteInv

\* An operation of users or controllers leaves the index and its informers alone.
LEMMA WorldRoute ==
    ASSUME RouteInv, Indexed, lcs' \in [Shards -> [LCNames -> LC]]
    PROVE  RouteInv'
  BY Zenon DEF RouteInv, RouteType, RouteIsBacked, Indexed, sentVars, seenVars, shardVars, indexVars

\* What a shard stores keeps its type.
LEMMA WriteType ==
    ASSUME RouteType, NEW s \in Shards, NEW c \in LCNames, NEW lc \in LC, WriteLC(s, c, lc)
    PROVE  lcs' \in [Shards -> [LCNames -> LC]]
  BY Zenon DEF RouteType, WriteLC

\* So does one LC that is changed.
LEMMA UpdatedLC ==
    ASSUME NEW lc \in LC
    PROVE  /\ [lc EXCEPT !.migrating = TRUE] \in LC /\ [lc EXCEPT !.copy = TRUE] \in LC
           /\ [lc EXCEPT !.copy = FALSE, !.migrating = FALSE] \in LC
  BY Zenon DEF LC

\* A stored LC is an LC.
LEMMA StoredLC == ASSUME RouteType, NEW s \in Shards, NEW c \in LCNames PROVE lcs[s][c] \in LC
  BY Zenon DEF RouteType

\* Users touch neither the index nor its informers.
LEMMA UsersRoute == RouteInv /\ Users => RouteInv'
<1> SUFFICES ASSUME RouteInv, NEW s \in Shards,
                    \/ \E x \in Slots :
                         \/ \E mount \in BOOLEAN : CreateWorkspace(s, x, mount)
                         \/ SetPhase(s, x) \/ DeleteLC(s, x) \/ DeleteMount(s, x)
                    \/ \E c \in Children : Migrate(s, c)
             PROVE  RouteInv'
  BY Zenon DEF Users
<1> USE DEF RouteInv
<1>1. ASSUME NEW x \in Slots, NEW mount \in BOOLEAN, CreateWorkspace(s, x, mount)
      PROVE  RouteInv'
  BY Zenon, <1>1, WorldRoute DEF CreateWorkspace, RouteType
<1>2. ASSUME NEW x \in Slots, SetPhase(s, x)
      PROVE  RouteInv'
  BY Zenon, <1>2, WorldRoute DEF SetPhase, RouteType
<1>3. ASSUME NEW x \in Slots, DeleteMount(s, x)
      PROVE  RouteInv'
  BY Zenon, <1>3, WorldRoute DEF DeleteMount, RouteType
<1>4. ASSUME NEW x \in Slots, DeleteLC(s, x)
      PROVE  RouteInv'
  <2>1. PICK t \in Shards, c \in Children : WriteLC(t, c, NoLC)
    BY Zenon, <1>4 DEF DeleteLC
  <2> QED BY Zenon, <1>4, <2>1, WorldRoute, WriteType, NoLCType DEF DeleteLC, LCNames
<1>5. ASSUME NEW c \in Children, Migrate(s, c)
      PROVE  RouteInv'
  <2>1. [lcs[s][c] EXCEPT !.migrating = TRUE] \in LC
    BY Zenon, StoredLC, UpdatedLC DEF LCNames
  <2> QED BY Zenon, <1>5, <2>1, WorldRoute, WriteType DEF Migrate, LCNames
<1> QED BY Zenon, <1>1, <1>2, <1>3, <1>4, <1>5

\* Nor do the controllers of the shards.
LEMMA ControllersRoute == RouteInv /\ Controllers => RouteInv'
<1> SUFFICES ASSUME RouteInv, NEW s \in Shards,
                    \/ \E x \in Slots :
                         \/ \E t \in Shards : Schedule(s, x, t)
                         \/ Publish(s, x) \/ DeleteWorkspaceObject(s, x)
                    \/ \E c \in Children :
                         \/ \E t \in Shards : CopyLC(s, c, t)
                         \/ DropOrigin(s, c) \/ FinishMigration(s, c)
             PROVE  RouteInv'
  BY Zenon DEF Controllers
<1> USE DEF RouteInv
<1>1. ASSUME NEW x \in Slots, NEW t \in Shards, Schedule(s, x, t)
      PROVE  RouteInv'
  <2> DEFINE lc == [NoLC EXCEPT !.exists = TRUE, !.owner = x]
             c  == Clusters[handed + 1]
  <2>1. lc \in LC
    BY Zenon DEF NoLC, LC
  <2>2. WriteLC(t, c, lc) /\ Indexed
    BY Zenon, <1>1 DEF Schedule
  <2>3. lcs' \in [Shards -> [LCNames -> LC]]
    BY Zenon, <2>1, <2>2 DEF WriteLC, RouteType
  <2> QED BY Zenon, <2>2, <2>3, WorldRoute
<1>2. ASSUME NEW x \in Slots, Publish(s, x)
      PROVE  RouteInv'
  BY Zenon, <1>2, WorldRoute DEF Publish, RouteType
<1>3. ASSUME NEW x \in Slots, DeleteWorkspaceObject(s, x)
      PROVE  RouteInv'
  BY Zenon, <1>3, WorldRoute DEF DeleteWorkspaceObject, RouteType
<1>4. ASSUME NEW c \in Children, NEW t \in Shards, CopyLC(s, c, t)
      PROVE  RouteInv'
  <2>1. [lcs[s][c] EXCEPT !.copy = TRUE] \in LC
    BY Zenon, StoredLC, UpdatedLC DEF LCNames
  <2> QED BY Zenon, <1>4, <2>1, WorldRoute, WriteType DEF CopyLC, LCNames
<1>5. ASSUME NEW c \in Children, DropOrigin(s, c)
      PROVE  RouteInv'
  BY Zenon, <1>5, WorldRoute, WriteType, NoLCType DEF DropOrigin, LCNames
<1>6. ASSUME NEW c \in Children, FinishMigration(s, c)
      PROVE  RouteInv'
  <2>1. [lcs[s][c] EXCEPT !.copy = FALSE, !.migrating = FALSE] \in LC
    BY Zenon, StoredLC, UpdatedLC DEF LCNames
  <2> QED BY Zenon, <1>6, <2>1, WorldRoute, WriteType DEF FinishMigration, LCNames
<1> QED BY Zenon, <1>1, <1>2, <1>3, <1>4, <1>5, <1>6

\* An upsert routes the LC to the shard of the event, or leaves the routes alone.
LEMMA UpsertRoute ==
    ASSUME RouteType, NEW s \in Shards, NEW c \in LCNames, NEW lc,
           UpsertLogicalCluster(s, c, lc)
    PROVE  /\ clusterShards' \in [LCNames -> Shards \cup {None}]
           /\ \A d \in LCNames : clusterShards'[d] = clusterShards[d] \/ (d = c /\ clusterShards'[d] = s)
  BY Zenon DEF RouteType, UpsertLogicalCluster

\* A delete of the shard leaves no route of the LC to it.
LEMMA DeleteRoute ==
    ASSUME RouteType, NEW s \in Shards, NEW c \in LCNames, DeleteLogicalCluster(s, c)
    PROVE  /\ clusterShards' \in [LCNames -> Shards \cup {None}]
           /\ clusterShards'[c] # s
           /\ \A d \in LCNames : clusterShards'[d] \in {clusterShards[d], None}
  BY Zenon, ProxyIndexAssumption DEF RouteType, DeleteLogicalCluster

\* What is delivered next is what the watch has sent, or what the shard has.
LEMMA NextLCsFacts ==
    ASSUME NEW s \in Shards, NEW c \in LCNames
    PROVE  NextLCs(s)[c] = lcs[s][c] \/ NextLCs(s)[c] = lcsSent[s][c]
  BY Zenon DEF NextLCs

\* Either way it is an LC.
LEMMA NextLCType ==
    ASSUME lcs \in [Shards -> [LCNames -> LC]], lcsSent \in [Shards -> [LCNames -> LC]],
           NEW s \in Shards, NEW c \in LCNames
    PROVE  NextLCs(s)[c] \in LC
<1>1. lcs[s][c] \in LC /\ lcsSent[s][c] \in LC
  BY Zenon
<1> QED BY <1>1, NextLCsFacts

\* An event leaves a route to a shard that has delivered the LC.
LEMMA DeliverRoute == RouteInv /\ Deliver => RouteInv'
<1> SUFFICES ASSUME RouteInv, NEW s \in Shards,
                    \/ \E x \in Slots : SeeWorkspace(s, x)
                    \/ \E c \in LCNames : SeeLC(s, c)
                    \/ StartInformers(s) \/ StopShard(s)
             PROVE  RouteInv'
  BY Zenon DEF Deliver
<1> USE DEF RouteInv
<1>1. ASSUME NEW x \in Slots, SeeWorkspace(s, x)
      PROVE  RouteInv'
  BY Zenon, <1>1 DEF SeeWorkspace, RouteType, RouteIsBacked, worldVars, shardVars
<1>2. ASSUME NEW c \in LCNames, SeeLC(s, c)
      PROVE  RouteInv'
  <2> DEFINE lc == NextLCs(s)[c]
  <2>1. /\ s \in running /\ UNCHANGED <<lcs, running, renewed, stopping>>
        /\ lcsSent' = [lcsSent EXCEPT ![s][c] = lc]
        /\ lcsSeen' = [lcsSeen EXCEPT ![s][c] = lc]
        /\ IF lc.exists THEN UpsertLogicalCluster(s, c, lc) ELSE DeleteLogicalCluster(s, c)
    BY Zenon, <1>2 DEF SeeLC, worldVars, shardVars
  <2>2. lc \in LC
    BY Zenon, NextLCType DEF RouteType
  <2> HIDE DEF lc
  <2>3. CASE lc.exists
    <3>1. UpsertLogicalCluster(s, c, lc)
      BY Zenon, <2>1, <2>3
    <3> QED BY <2>1, <2>2, <2>3, <3>1, UpsertRoute DEF RouteType, RouteIsBacked
  <2>4. CASE ~lc.exists
    <3>1. DeleteLogicalCluster(s, c)
      BY Zenon, <2>1, <2>4
    <3>2. /\ clusterShards' \in [LCNames -> Shards \cup {None}]
          /\ clusterShards'[c] # s
          /\ \A d \in LCNames : clusterShards'[d] \in {clusterShards[d], None}
      BY Zenon, <3>1, DeleteRoute
    <3>3. RouteType'
      BY Zenon, <2>1, <2>2, <3>2 DEF RouteType
    <3>4. ASSUME NEW d \in LCNames, NEW t \in Shards, clusterShards'[d] = t, t \notin renewed'
          PROVE  t \in running' /\ lcsSeen'[t][d].exists
      <4>1. clusterShards[d] = t /\ ~(d = c /\ t = s)
        BY Zenon, <3>2, <3>4, ProxyIndexAssumption
      <4>2. t \in running /\ lcsSeen[t][d].exists
        BY Zenon, <2>1, <3>4, <4>1 DEF RouteIsBacked
      <4>3. lcsSeen'[t][d] = lcsSeen[t][d]
        BY Zenon, <2>1, <4>1 DEF RouteType
      <4> QED BY Zenon, <2>1, <4>2, <4>3
    <3> QED BY Zenon, <3>3, <3>4 DEF RouteIsBacked
  <2> QED BY Zenon, <2>3, <2>4
<1>3. ASSUME StartInformers(s)
      PROVE  RouteInv'
  BY Zenon, <1>3 DEF StartInformers, RouteType, RouteIsBacked, worldVars, sentVars, seenVars, indexVars
<1>4. ASSUME StopShard(s)
      PROVE  RouteInv'
  BY Zenon, <1>4, NoLCType, ProxyIndexAssumption DEF StopShard, RouteType, RouteIsBacked, worldVars
<1> QED BY Zenon, <1>1, <1>2, <1>3, <1>4

\* A resync delivers what the lister holds.
LEMMA ResyncRoute == RouteInv /\ Resync => RouteInv'
<1> SUFFICES ASSUME RouteInv, NEW s \in Shards,
                    \/ \E x \in Slots : ResyncWorkspace(s, x)
                    \/ \E c \in LCNames : ResyncLC(s, c)
             PROVE  RouteInv'
  BY Zenon DEF Resync
<1> USE DEF RouteInv
<1>1. ASSUME NEW x \in Slots, ResyncWorkspace(s, x)
      PROVE  RouteInv'
  BY Zenon, <1>1 DEF ResyncWorkspace, RouteType, RouteIsBacked, worldVars, sentVars, seenVars, shardVars
<1>2. ASSUME NEW c \in LCNames, ResyncLC(s, c)
      PROVE  RouteInv'
  <2>1. /\ s \in running /\ lcsSeen[s][c].exists
        /\ UNCHANGED <<lcs, lcsSent, lcsSeen, running, renewed, stopping>>
        /\ UpsertLogicalCluster(s, c, lcsSeen[s][c])
    BY Zenon, <1>2 DEF ResyncLC, worldVars, sentVars, seenVars, shardVars
  <2> QED BY <2>1, UpsertRoute DEF RouteType, RouteIsBacked
<1> QED BY Zenon, <1>1, <1>2

\* A new URL or a restart removes the routes with what was delivered.
LEMMA OperatorRoute == RouteInv /\ Operator => RouteInv'
<1> USE DEF RouteInv
<1>1. ASSUME RouteInv, Restart
      PROVE  RouteInv'
  BY Zenon, <1>1, NoLCType, ProxyIndexAssumption DEF Restart, RouteType, RouteIsBacked, worldVars
<1>2. ASSUME RouteInv, NEW s \in Shards, DeleteShard(s)
      PROVE  RouteInv'
  BY Zenon, <1>2, ProxyIndexAssumption DEF DeleteShard, RouteType, RouteIsBacked, worldVars, sentVars, seenVars
<1> QED BY Zenon, <1>1, <1>2 DEF Operator

\* A watch that falls behind has delivered nothing yet.
LEMMA FallBehindRoute == RouteInv /\ FallBehind => RouteInv'
<1> SUFFICES ASSUME RouteInv, NEW s \in Shards, LagWorkspaces(s) \/ LagLCs(s)
             PROVE  RouteInv'
  BY Zenon DEF FallBehind
<1>1. UNCHANGED <<lcs, lcsSeen, running, renewed, stopping, clusterShards>>
  BY Zenon DEF LagWorkspaces, LagLCs, worldVars, seenVars, shardVars, indexVars
<1>2. UNCHANGED lcsSent \/ lcsSent' = [lcsSent EXCEPT ![s] = lcs[s]]
  BY Zenon DEF LagWorkspaces, LagLCs
<1>3. lcsSent' \in [Shards -> [LCNames -> LC]]
  BY Zenon, <1>2 DEF RouteInv, RouteType
<1> QED BY Zenon, <1>1, <1>3 DEF RouteInv, RouteType, RouteIsBacked

\* Every route of the index is backed by an LC that the informer of its shard
\* has delivered and not delivered as deleted, unless the shard was registered
\* anew: the handlers of pkg/index/index.go remove what they have set.
THEOREM RoutesBacked == Spec => []RouteIsBacked
<1>1. RouteInv /\ [Next]_vars => RouteInv'
  <2> SUFFICES ASSUME RouteInv, [Next]_vars PROVE RouteInv'
    OBVIOUS
  <2>1. CASE UNCHANGED vars
    BY Zenon, <2>1 DEF vars, worldVars, sentVars, seenVars, shardVars, indexVars,
       RouteInv, RouteType, RouteIsBacked
  <2> QED BY Zenon, <2>1, UsersRoute, ControllersRoute, DeliverRoute, ResyncRoute, OperatorRoute,
             FallBehindRoute DEF Next
<1>2. RouteInv => RouteIsBacked
  BY Zenon DEF RouteInv
<1> QED BY InitRoute, <1>1, <1>2, PTL DEF Spec

----------------------------------------------------------------------------
(* The types, for which the LC that has no workspace matters: the root LC  *)
(* has no owner, so that no forward edge leads to it.                      *)

RootHasNoOwner == \A s \in Shards : /\ lcs[s][Root].owner = None
                                    /\ lcsSent[s][Root].owner = None
                                    /\ lcsSeen[s][Root].owner = None

TypeInv == TypeOK /\ RootHasNoOwner

\* The parts of the types that the shards, and that the index and its informers
\* have.
WorldType ==
    /\ lcs \in [Shards -> [LCNames -> LC]]
    /\ workspaces \in [Shards -> [Slots -> Workspace]]
    /\ handed \in 0..Len(Clusters)
    /\ budget \in [Events -> Nat]

IndexType ==
    /\ lcsSent \in [Shards -> [LCNames -> LC]]
    /\ workspacesSent \in [Shards -> [Slots -> Workspace]]
    /\ lcsSeen \in [Shards -> [LCNames -> LC]]
    /\ workspacesSeen \in [Shards -> [Slots -> Workspace]]
    /\ running \subseteq Shards /\ renewed \subseteq Shards
    /\ stopping \in Shards \cup {None}
    /\ clusterShards \in [LCNames -> Shards \cup {None}]
    /\ forward \in [Shards -> [Slots -> Children \cup {None, Empty}]]
    /\ reverse \in [Shards -> [Children -> Slots \cup {None}]]
    /\ mounts \in [Shards -> SUBSET Slots]
    /\ errors \in [Shards -> SUBSET Slots]
    /\ baseURLs \in [Shards -> {"none", "old", "new"}]

\* The two parts are the whole.
LEMMA TypeSplit == TypeOK <=> WorldType /\ IndexType
  BY Zenon DEF TypeOK, WorldType, IndexType

\* The constants of the types: an absent workspace and the empty maps.
LEMMA EmptyTypes ==
    /\ NoWorkspace \in Workspace
    /\ NoWorkspaces \in [Slots -> Workspace]
    /\ NoEdges \in [Slots -> Children \cup {None, Empty}]
    /\ NoBack \in [Children -> Slots \cup {None}]
    /\ \A c \in LCNames : NoLCs[c].owner = None
    /\ Root \in LCNames /\ Root \notin Children /\ Children \subseteq LCNames
  BY Zenon, ProxyIndexAssumption DEF NoWorkspace, Workspace, NoWorkspaces, NoEdges, NoBack, NoLCs,
     NoLC, Phases, LCNames

\* A name that is handed out is that of an LC below the root.
LEMMA NextCluster ==
    ASSUME handed \in 0..Len(Clusters), handed < Len(Clusters)
    PROVE  Clusters[handed + 1] \in Children /\ handed + 1 \in 1..Len(Clusters)
<1>1. Clusters \in Seq(Children)
  BY Zenon, ProxyIndexAssumption
<1>2. Len(Clusters) \in Nat
  BY <1>1
<1>3. handed + 1 \in 1..Len(Clusters)
  BY <1>2
<1> QED BY <1>1, <1>3

\* The types hold at first.
LEMMA InitType == Init => TypeInv
<1> SUFFICES ASSUME Init PROVE TypeInv
  OBVIOUS
<1>1. WorldType
  <2>1. Len(Clusters) \in Nat
    BY ProxyIndexAssumption
  <2> QED BY <2>1, NoLCType, EmptyTypes, ProxyIndexAssumption DEF Init, WorldType
<1>2. IndexType
  BY Zenon, NoLCType, EmptyTypes DEF Init, IndexType
<1>3. RootHasNoOwner
  BY Zenon, EmptyTypes DEF Init, RootHasNoOwner, RootLC, NoLC
<1> QED BY Zenon, <1>1, <1>2, <1>3, TypeSplit DEF TypeInv

\* What users and operators do is counted down.
LEMMA SpendType ==
    ASSUME budget \in [Events -> Nat], NEW event \in Events, Spend(event)
    PROVE  budget' \in [Events -> Nat]
<1>1. budget[event] - 1 \in Nat
  BY DEF Spend
<1> QED BY Zenon, <1>1 DEF Spend

\* An operation on the shards keeps the types if it writes what is typed and
\* gives the root LC no owner.
LEMMA WorldTyped ==
    ASSUME TypeInv, Indexed, WorldType',
           \A s \in Shards : lcs'[s][Root].owner = None
    PROVE  TypeInv'
<1>1. IndexType'
  BY Zenon, TypeSplit DEF TypeInv, IndexType, Indexed, sentVars, seenVars, shardVars, indexVars
<1>2. TypeOK'
  BY Zenon, <1>1 DEF TypeOK, WorldType, IndexType
<1> QED BY Zenon, <1>2 DEF TypeInv, RootHasNoOwner, Indexed, sentVars, seenVars

\* Writing an LC below the root.
LEMMA WriteLCTyped ==
    ASSUME TypeInv, NEW s \in Shards, NEW c \in Children, NEW lc \in LC, WriteLC(s, c, lc)
    PROVE  /\ lcs' \in [Shards -> [LCNames -> LC]]
           /\ \A t \in Shards : lcs'[t][Root].owner = None
<1>1. c \in LCNames /\ c # Root /\ Root \in LCNames
  BY Zenon, EmptyTypes
<1>2. lcs \in [Shards -> [LCNames -> LC]]
  BY Zenon DEF TypeInv, TypeOK
<1>3. lcs' \in [Shards -> [LCNames -> LC]]
  BY Zenon, <1>1, <1>2 DEF WriteLC
<1>4. \A t \in Shards : lcs'[t][Root] = lcs[t][Root]
  BY Zenon, <1>1, <1>2 DEF WriteLC
<1> QED BY Zenon, <1>3, <1>4 DEF TypeInv, RootHasNoOwner

\* Writing a workspace.
LEMMA WriteWorkspaceTyped ==
    ASSUME TypeOK, NEW s \in Shards, NEW x \in Slots, NEW w \in Workspace,
           WriteWorkspace(s, x, w)
    PROVE  workspaces' \in [Shards -> [Slots -> Workspace]]
  BY Zenon DEF TypeOK, WriteWorkspace

\* What users do keeps the types.
LEMMA UsersType == TypeInv /\ Users => TypeInv'
<1> SUFFICES ASSUME TypeInv, NEW s \in Shards,
                    \/ \E x \in Slots :
                         \/ \E mount \in BOOLEAN : CreateWorkspace(s, x, mount)
                         \/ SetPhase(s, x) \/ DeleteLC(s, x) \/ DeleteMount(s, x)
                    \/ \E c \in Children : Migrate(s, c)
             PROVE  TypeInv'
  BY Zenon DEF Users
<1>0. TypeOK /\ WorldType /\ budget \in [Events -> Nat]
      /\ \A t \in Shards : lcs[t][Root].owner = None
  BY Zenon, TypeSplit DEF TypeInv, WorldType, RootHasNoOwner
<1>e. {"create", "mount", "phase", "delete", "migrate"} \subseteq Events
  BY Zenon DEF Events
<1>1. ASSUME NEW x \in Slots, NEW mount \in BOOLEAN, CreateWorkspace(s, x, mount)
      PROVE  TypeInv'
  <2>1. [NoWorkspace EXCEPT !.exists = TRUE, !.mount = mount] \in Workspace
    BY Zenon, EmptyTypes DEF Workspace
  <2>2. workspaces' \in [Shards -> [Slots -> Workspace]]
    BY Zenon, <1>0, <1>1, <2>1, WriteWorkspaceTyped DEF CreateWorkspace
  <2>3. budget' \in [Events -> Nat]
    BY Zenon, <1>0, <1>1, <1>e, SpendType DEF CreateWorkspace
  <2> QED BY Zenon, <1>0, <1>1, <2>2, <2>3, WorldTyped DEF CreateWorkspace, WorldType
<1>2. ASSUME NEW x \in Slots, SetPhase(s, x)
      PROVE  TypeInv'
  <2>1. workspaces[s][x] \in Workspace
    BY <1>0 DEF TypeOK
  <2>2. [workspaces[s][x] EXCEPT !.phase = IF @ = "Ready" THEN "Unavailable" ELSE "Ready"]
           \in Workspace
    BY Zenon, <2>1 DEF Workspace, Phases
  <2>3. workspaces' \in [Shards -> [Slots -> Workspace]]
    BY Zenon, <1>0, <1>2, <2>2, WriteWorkspaceTyped DEF SetPhase
  <2>4. budget' \in [Events -> Nat]
    BY Zenon, <1>0, <1>2, <1>e, SpendType DEF SetPhase
  <2> QED BY Zenon, <1>0, <1>2, <2>3, <2>4, WorldTyped DEF SetPhase, WorldType
<1>3. ASSUME NEW x \in Slots, DeleteMount(s, x)
      PROVE  TypeInv'
  <2>1. workspaces' \in [Shards -> [Slots -> Workspace]]
    BY Zenon, <1>0, <1>3, EmptyTypes, WriteWorkspaceTyped DEF DeleteMount
  <2>2. budget' \in [Events -> Nat]
    BY Zenon, <1>0, <1>3, <1>e, SpendType DEF DeleteMount
  <2> QED BY Zenon, <1>0, <1>3, <2>1, <2>2, WorldTyped DEF DeleteMount, WorldType
<1>4. ASSUME NEW x \in Slots, DeleteLC(s, x)
      PROVE  TypeInv'
  <2>1. PICK t \in Shards, c \in Children : WriteLC(t, c, NoLC)
    BY Zenon, <1>4 DEF DeleteLC
  <2>2. /\ lcs' \in [Shards -> [LCNames -> LC]]
        /\ \A u \in Shards : lcs'[u][Root].owner = None
    BY Zenon, <2>1, WriteLCTyped, NoLCType
  <2>3. budget' \in [Events -> Nat]
    BY Zenon, <1>0, <1>4, <1>e, SpendType DEF DeleteLC
  <2> QED BY Zenon, <1>0, <1>4, <2>2, <2>3, WorldTyped DEF DeleteLC, WorldType
<1>5. ASSUME NEW c \in Children, Migrate(s, c)
      PROVE  TypeInv'
  <2>1. lcs[s][c] \in LC
    BY <1>0, EmptyTypes DEF TypeOK
  <2>2. [lcs[s][c] EXCEPT !.migrating = TRUE] \in LC
    BY Zenon, <2>1, UpdatedLC
  <2>3. /\ lcs' \in [Shards -> [LCNames -> LC]]
        /\ \A u \in Shards : lcs'[u][Root].owner = None
    BY Zenon, <1>5, <2>2, WriteLCTyped DEF Migrate
  <2>4. budget' \in [Events -> Nat]
    BY Zenon, <1>0, <1>5, <1>e, SpendType DEF Migrate
  <2> QED BY Zenon, <1>0, <1>5, <2>3, <2>4, WorldTyped DEF Migrate, WorldType
<1> QED BY Zenon, <1>1, <1>2, <1>3, <1>4, <1>5

\* What the controllers of the shards do keeps the types.
LEMMA ControllersType == TypeInv /\ Controllers => TypeInv'
<1> SUFFICES ASSUME TypeInv, NEW s \in Shards,
                    \/ \E x \in Slots :
                         \/ \E t \in Shards : Schedule(s, x, t)
                         \/ Publish(s, x) \/ DeleteWorkspaceObject(s, x)
                    \/ \E c \in Children :
                         \/ \E t \in Shards : CopyLC(s, c, t)
                         \/ DropOrigin(s, c) \/ FinishMigration(s, c)
             PROVE  TypeInv'
  BY Zenon DEF Controllers
<1>0. TypeOK /\ WorldType /\ \A t \in Shards : lcs[t][Root].owner = None
  BY Zenon, TypeSplit DEF TypeInv, RootHasNoOwner
<1>w. workspaces \in [Shards -> [Slots -> Workspace]]
  BY Zenon, <1>0 DEF TypeOK
<1>l. \A t \in Shards, c \in Children : lcs[t][c] \in LC
  BY <1>0, EmptyTypes DEF TypeOK
<1>1. ASSUME NEW x \in Slots, NEW t \in Shards, Schedule(s, x, t)
      PROVE  TypeInv'
  <2> DEFINE lc == [NoLC EXCEPT !.exists = TRUE, !.owner = x]
             c  == Clusters[handed + 1]
  <2>1. lc \in LC
    BY Zenon DEF NoLC, LC
  <2>2. WriteLC(t, c, lc) /\ Indexed /\ handed < Len(Clusters) /\ handed' = handed + 1
        /\ UNCHANGED <<workspaces, budget>>
    BY Zenon, <1>1 DEF Schedule
  <2>3. handed \in 0..Len(Clusters)
    BY Zenon, <1>0 DEF WorldType
  <2>4. c \in Children /\ handed + 1 \in 1..Len(Clusters)
    BY Zenon, <2>2, <2>3, NextCluster
  <2>5. handed' \in 0..Len(Clusters)
    BY <2>2, <2>4
  <2> HIDE DEF lc, c
  <2>6. /\ lcs' \in [Shards -> [LCNames -> LC]]
        /\ \A u \in Shards : lcs'[u][Root].owner = None
    BY Zenon, <2>1, <2>2, <2>4, WriteLCTyped
  <2> QED BY Zenon, <1>0, <2>2, <2>5, <2>6, WorldTyped DEF WorldType
<1>2. ASSUME NEW x \in Slots, Publish(s, x)
      PROVE  TypeInv'
  <2>1. workspaces[s][x] \in Workspace
    BY Zenon, <1>w
  <2>2. /\ [workspaces[s][x] EXCEPT !.phase = "Ready"] \in Workspace
        /\ \A c \in Children :
             [workspaces[s][x] EXCEPT !.phase = "Ready", !.cluster = c] \in Workspace
    BY Zenon, <2>1 DEF Workspace, Phases
  <2>3. \E w \in Workspace : WriteWorkspace(s, x, w)
    BY Zenon, <1>2, <2>2 DEF Publish
  <2>4. workspaces' \in [Shards -> [Slots -> Workspace]]
    BY Zenon, <1>0, <2>3, WriteWorkspaceTyped
  <2> QED BY Zenon, <1>0, <1>2, <2>4, WorldTyped DEF Publish, WorldType
<1>3. ASSUME NEW x \in Slots, DeleteWorkspaceObject(s, x)
      PROVE  TypeInv'
  <2>1. workspaces' \in [Shards -> [Slots -> Workspace]]
    BY Zenon, <1>0, <1>3, EmptyTypes, WriteWorkspaceTyped DEF DeleteWorkspaceObject
  <2> QED BY Zenon, <1>0, <1>3, <2>1, WorldTyped DEF DeleteWorkspaceObject, WorldType
<1>4. ASSUME NEW c \in Children, NEW t \in Shards, CopyLC(s, c, t)
      PROVE  TypeInv'
  <2>1. [lcs[s][c] EXCEPT !.copy = TRUE] \in LC
    BY Zenon, <1>l, UpdatedLC
  <2>2. /\ lcs' \in [Shards -> [LCNames -> LC]]
        /\ \A u \in Shards : lcs'[u][Root].owner = None
    BY Zenon, <1>4, <2>1, WriteLCTyped DEF CopyLC
  <2>3. workspaces' \in [Shards -> [Slots -> Workspace]]
    BY Zenon, <1>4, <1>w DEF CopyLC
  <2> QED BY Zenon, <1>0, <1>4, <2>2, <2>3, WorldTyped DEF CopyLC, WorldType
<1>5. ASSUME NEW c \in Children, DropOrigin(s, c)
      PROVE  TypeInv'
  <2>1. /\ lcs' \in [Shards -> [LCNames -> LC]]
        /\ \A u \in Shards : lcs'[u][Root].owner = None
    BY Zenon, <1>5, NoLCType, WriteLCTyped DEF DropOrigin
  <2>2. workspaces' \in [Shards -> [Slots -> Workspace]]
    BY Zenon, <1>5, <1>w, EmptyTypes DEF DropOrigin
  <2> QED BY Zenon, <1>0, <1>5, <2>1, <2>2, WorldTyped DEF DropOrigin, WorldType
<1>6. ASSUME NEW c \in Children, FinishMigration(s, c)
      PROVE  TypeInv'
  <2>1. [lcs[s][c] EXCEPT !.copy = FALSE, !.migrating = FALSE] \in LC
    BY Zenon, <1>l, UpdatedLC
  <2>2. /\ lcs' \in [Shards -> [LCNames -> LC]]
        /\ \A u \in Shards : lcs'[u][Root].owner = None
    BY Zenon, <1>6, <2>1, WriteLCTyped DEF FinishMigration
  <2> QED BY Zenon, <1>0, <1>6, <2>2, WorldTyped DEF FinishMigration, WorldType
<1> QED BY Zenon, <1>1, <1>2, <1>3, <1>4, <1>5, <1>6

\* An upsert of a workspace leads to an LC below the root, or to none.
LEMMA UpsertWorkspaceTyped ==
    ASSUME IndexType, NEW s \in Shards, NEW x \in Slots, NEW w \in Workspace,
           UpsertWorkspace(s, x, w)
    PROVE  /\ forward' \in [Shards -> [Slots -> Children \cup {None, Empty}]]
           /\ reverse' \in [Shards -> [Children -> Slots \cup {None}]]
           /\ mounts' \in [Shards -> SUBSET Slots] /\ errors' \in [Shards -> SUBSET Slots]
<1>1. w.cluster \in Children \cup {None, Empty}
  BY Zenon DEF Workspace
<1>2. CASE w.phase = "Scheduling"
  BY Zenon, <1>2 DEF UpsertWorkspace, IndexType
<1>3. CASE w.phase # "Scheduling"
  <2>0. /\ forward \in [Shards -> [Slots -> Children \cup {None, Empty}]]
        /\ reverse \in [Shards -> [Children -> Slots \cup {None}]]
        /\ mounts \in [Shards -> SUBSET Slots] /\ errors \in [Shards -> SUBSET Slots]
    BY Zenon DEF IndexType
  <2>1. errors' = [errors EXCEPT ![s] =
                      IF w.phase = "Unavailable" THEN @ \cup {x} ELSE @ \ {x}]
        /\ mounts' = [mounts EXCEPT ![s] = IF w.mount THEN @ \cup {x} ELSE @]
    BY Zenon, <1>3 DEF UpsertWorkspace
  <2>2. \/ /\ forward' = [forward EXCEPT ![s][x] = w.cluster]
           /\ reverse' = [reverse EXCEPT ![s] = [c \in Children |->
                                IF c = w.cluster THEN x ELSE @[c]]]
        \/ UNCHANGED <<forward, reverse>>
    BY Zenon, <1>3 DEF UpsertWorkspace
  <2>3. mounts' \in [Shards -> SUBSET Slots]
    <3>1. mounts[s] \in SUBSET Slots /\ mounts[s] \cup {x} \in SUBSET Slots
      BY Zenon, <2>0
    <3>2. \E m \in SUBSET Slots : mounts' = [mounts EXCEPT ![s] = m]
      BY Zenon, <2>1, <3>1
    <3> QED BY Zenon, <2>0, <3>2
  <2>4. errors' \in [Shards -> SUBSET Slots]
    <3>1. errors[s] \cup {x} \in SUBSET Slots /\ errors[s] \ {x} \in SUBSET Slots
      BY Zenon, <2>0
    <3>2. \E m \in SUBSET Slots : errors' = [errors EXCEPT ![s] = m]
      BY Zenon, <2>1, <3>1
    <3> QED BY Zenon, <2>0, <3>2
  <2>5. forward' \in [Shards -> [Slots -> Children \cup {None, Empty}]]
    <3>1. CASE forward' = [forward EXCEPT ![s][x] = w.cluster]
      BY Zenon, <1>1, <2>0, <3>1
    <3>2. CASE UNCHANGED <<forward, reverse>>
      BY Zenon, <2>0, <3>2
    <3> QED BY Zenon, <2>2, <3>1, <3>2
  <2>6. reverse' \in [Shards -> [Children -> Slots \cup {None}]]
    <3> DEFINE back == [c \in Children |-> IF c = w.cluster THEN x ELSE reverse[s][c]]
    <3>1. reverse' = [reverse EXCEPT ![s] = back] \/ UNCHANGED reverse
      BY Zenon, <2>2
    <3>2. back \in [Children -> Slots \cup {None}]
      BY <2>0
    <3> HIDE DEF back
    <3> QED BY Zenon, <2>0, <3>1, <3>2
  <2> QED BY Zenon, <2>3, <2>4, <2>5, <2>6
<1> QED BY Zenon, <1>2, <1>3

\* A delete of a workspace.
LEMMA DeleteWorkspaceTyped ==
    ASSUME IndexType, NEW s \in Shards, NEW x \in Slots, NEW w, DeleteWorkspace(s, x, w)
    PROVE  /\ forward' \in [Shards -> [Slots -> Children \cup {None, Empty}]]
           /\ reverse' \in [Shards -> [Children -> Slots \cup {None}]]
           /\ mounts' \in [Shards -> SUBSET Slots] /\ errors' \in [Shards -> SUBSET Slots]
<1>0. /\ forward \in [Shards -> [Slots -> Children \cup {None, Empty}]]
      /\ reverse \in [Shards -> [Children -> Slots \cup {None}]]
      /\ mounts \in [Shards -> SUBSET Slots] /\ errors \in [Shards -> SUBSET Slots]
  BY Zenon DEF IndexType
<1>1. CASE forward[s][x] = None /\ x \notin mounts[s]
  BY Zenon, <1>0, <1>1 DEF DeleteWorkspace
<1>2. CASE ~(forward[s][x] = None /\ x \notin mounts[s])
  <2>1. /\ forward' = [forward EXCEPT ![s][x] = None]
        /\ reverse' = [reverse EXCEPT ![s] = [c \in Children |->
                IF forward[s][x] # None /\ c = w.cluster THEN None ELSE @[c]]]
        /\ mounts' = [mounts EXCEPT ![s] = @ \ {x}]
        /\ errors' = [errors EXCEPT ![s] = @ \ {x}]
    BY Zenon, <1>2 DEF DeleteWorkspace
  <2>2. forward' \in [Shards -> [Slots -> Children \cup {None, Empty}]]
    BY Zenon, <1>0, <2>1
  <2>3. reverse' \in [Shards -> [Children -> Slots \cup {None}]]
    BY Zenon, <1>0, <2>1
  <2>4. mounts' \in [Shards -> SUBSET Slots] /\ errors' \in [Shards -> SUBSET Slots]
    BY Zenon, <1>0, <2>1
  <2> QED BY Zenon, <2>2, <2>3, <2>4
<1> QED BY Zenon, <1>1, <1>2

\* An upsert of an LC whose owner, if it has one, leads to an LC below the root.
LEMMA UpsertLCTyped ==
    ASSUME IndexType, NEW s \in Shards, NEW c \in LCNames, NEW lc \in LC,
           lc.owner # None => c \in Children, UpsertLogicalCluster(s, c, lc)
    PROVE  /\ clusterShards' \in [LCNames -> Shards \cup {None}]
           /\ forward' \in [Shards -> [Slots -> Children \cup {None, Empty}]]
           /\ reverse' \in [Shards -> [Children -> Slots \cup {None}]]
<1>1. CASE clusterShards[c] = s \/ lc.migrating
  BY Zenon, <1>1 DEF UpsertLogicalCluster, IndexType
<1>2. CASE ~(clusterShards[c] = s \/ lc.migrating)
  <2> DEFINE parentShard == clusterShards[lc.owner[1]]
             known == lc.owner # None /\ parentShard # None
  <2>1. /\ clusterShards' = [clusterShards EXCEPT ![c] = s]
        /\ forward' = IF known /\ forward[parentShard][lc.owner] = None
                      THEN [forward EXCEPT ![parentShard][lc.owner] = c] ELSE forward
        /\ reverse' = IF known /\ reverse[parentShard][c] = None
                      THEN [reverse EXCEPT ![parentShard][c] = lc.owner] ELSE reverse
    BY Zenon, <1>2 DEF UpsertLogicalCluster
  <2>2. known => /\ c \in Children /\ lc.owner \in Slots
    BY Zenon DEF LC
  <2> HIDE DEF parentShard, known
  <2> QED BY Zenon, <2>1, <2>2 DEF IndexType
<1> QED BY Zenon, <1>1, <1>2

\* A delete of an LC.
LEMMA DeleteLCTyped ==
    ASSUME IndexType, NEW s \in Shards, NEW c \in LCNames, DeleteLogicalCluster(s, c)
    PROVE  /\ clusterShards' \in [LCNames -> Shards \cup {None}]
           /\ forward' \in [Shards -> [Slots -> Children \cup {None, Empty}]]
           /\ reverse' \in [Shards -> [Children -> Slots \cup {None}]]
           /\ mounts' \in [Shards -> SUBSET Slots] /\ errors' \in [Shards -> SUBSET Slots]
<1>0. /\ clusterShards \in [LCNames -> Shards \cup {None}]
      /\ forward \in [Shards -> [Slots -> Children \cup {None, Empty}]]
      /\ reverse \in [Shards -> [Children -> Slots \cup {None}]]
      /\ mounts \in [Shards -> SUBSET Slots] /\ errors \in [Shards -> SUBSET Slots]
  BY Zenon DEF IndexType
<1>1. CASE clusterShards[c] # s
  BY Zenon, <1>0, <1>1 DEF DeleteLogicalCluster
<1>2. CASE clusterShards[c] = s
  <2> DEFINE scrubbed == Inside(c) \cup (IF c \in Children THEN {reverse[s][c]} ELSE {})
  <2>1. /\ clusterShards' = [clusterShards EXCEPT ![c] = None]
        /\ reverse' = [reverse EXCEPT ![s] = [d \in Children |->
                            IF d = c THEN None ELSE @[d]]]
        /\ forward' = [forward EXCEPT ![s] = [x \in Slots |->
                            IF x \in scrubbed THEN None ELSE @[x]]]
        /\ mounts' = [mounts EXCEPT ![s] = @ \ scrubbed]
        /\ errors' = [errors EXCEPT ![s] = @ \ scrubbed]
    BY Zenon, <1>2 DEF DeleteLogicalCluster
  <2> HIDE DEF scrubbed
  <2>2. forward' \in [Shards -> [Slots -> Children \cup {None, Empty}]]
    BY Zenon, <1>0, <2>1
  <2>3. reverse' \in [Shards -> [Children -> Slots \cup {None}]]
    BY Zenon, <1>0, <2>1
  <2>4. mounts' \in [Shards -> SUBSET Slots] /\ errors' \in [Shards -> SUBSET Slots]
    BY Zenon, <1>0, <2>1
  <2>5. clusterShards' \in [LCNames -> Shards \cup {None}]
    BY Zenon, <1>0, <2>1
  <2> QED BY Zenon, <2>2, <2>3, <2>4, <2>5
<1> QED BY Zenon, <1>1, <1>2

\* A step of the index and its informers keeps the types if it leaves the shards
\* alone and what was sent and delivered of the root LC has no owner.
LEMMA IndexTyped ==
    ASSUME TypeInv, UNCHANGED worldVars, budget' \in [Events -> Nat], IndexType',
           \A s \in Shards : lcsSent'[s][Root].owner = None /\ lcsSeen'[s][Root].owner = None
    PROVE  TypeInv'
<1>1. WorldType'
  BY Zenon, TypeSplit DEF TypeInv, WorldType, worldVars
<1>2. TypeOK'
  BY Zenon, <1>1 DEF TypeOK, WorldType, IndexType
<1> QED BY Zenon, <1>2 DEF TypeInv, RootHasNoOwner, worldVars

\* An LC with an owner is below the root.
LEMMA OwnedBelowRoot ==
    ASSUME TypeInv, NEW s \in Shards, NEW c \in LCNames
    PROVE  /\ NextLCs(s)[c].owner # None => c \in Children
           /\ lcsSeen[s][c].owner # None => c \in Children
  BY Zenon, NextLCsFacts DEF TypeInv, RootHasNoOwner, LCNames

\* What the informers deliver keeps the types.
LEMMA DeliverType == TypeInv /\ Deliver => TypeInv'
<1> SUFFICES ASSUME TypeInv, NEW s \in Shards,
                    \/ \E x \in Slots : SeeWorkspace(s, x)
                    \/ \E c \in LCNames : SeeLC(s, c)
                    \/ StartInformers(s) \/ StopShard(s)
             PROVE  TypeInv'
  BY Zenon DEF Deliver
<1>0. TypeOK /\ WorldType /\ IndexType /\ budget \in [Events -> Nat]
      /\ \A t \in Shards : lcsSent[t][Root].owner = None /\ lcsSeen[t][Root].owner = None
  BY Zenon, TypeSplit DEF TypeInv, WorldType, RootHasNoOwner
<1>1. ASSUME NEW x \in Slots, SeeWorkspace(s, x)
      PROVE  TypeInv'
  <2> DEFINE w == NextWorkspaces(s)[x]
  <2>1. w \in Workspace
    <3>1. workspaces[s][x] \in Workspace /\ workspacesSent[s][x] \in Workspace
      BY Zenon, <1>0 DEF WorldType, IndexType
    <3> QED BY <3>1 DEF NextWorkspaces
  <2>2. \/ UpsertWorkspace(s, x, w)
        \/ DeleteWorkspace(s, x, workspacesSeen[s][x])
    BY Zenon, <1>1 DEF SeeWorkspace
  <2>3. /\ forward' \in [Shards -> [Slots -> Children \cup {None, Empty}]]
        /\ reverse' \in [Shards -> [Children -> Slots \cup {None}]]
        /\ mounts' \in [Shards -> SUBSET Slots] /\ errors' \in [Shards -> SUBSET Slots]
    BY Zenon, <1>0, <2>1, <2>2, UpsertWorkspaceTyped, DeleteWorkspaceTyped
  <2>4. /\ UNCHANGED <<worldVars, lcsSent, lcsSeen, shardVars, clusterShards, baseURLs, budget>>
        /\ workspacesSent' = [workspacesSent EXCEPT ![s][x] = w]
        /\ workspacesSeen' = [workspacesSeen EXCEPT ![s][x] = w]
    BY Zenon, <1>1 DEF SeeWorkspace
  <2> HIDE DEF w
  <2>5. IndexType'
    BY Zenon, <1>0, <2>1, <2>3, <2>4 DEF IndexType, shardVars
  <2> QED BY Zenon, <1>0, <2>4, <2>5, IndexTyped
<1>2. ASSUME NEW c \in LCNames, SeeLC(s, c)
      PROVE  TypeInv'
  <2> DEFINE lc == NextLCs(s)[c]
  <2>1. lc \in LC /\ (lc.owner # None => c \in Children)
    BY Zenon, <1>0, NextLCType, OwnedBelowRoot DEF WorldType, IndexType
  <2>2. \/ UpsertLogicalCluster(s, c, lc) /\ UNCHANGED <<mounts, errors>>
        \/ DeleteLogicalCluster(s, c)
    BY Zenon, <1>2 DEF SeeLC
  <2>3. /\ UNCHANGED <<worldVars, workspacesSent, workspacesSeen, shardVars, baseURLs, budget>>
        /\ lcsSent' = [lcsSent EXCEPT ![s][c] = lc]
        /\ lcsSeen' = [lcsSeen EXCEPT ![s][c] = lc]
    BY Zenon, <1>2 DEF SeeLC
  <2> HIDE DEF lc
  <2>4. /\ clusterShards' \in [LCNames -> Shards \cup {None}]
        /\ forward' \in [Shards -> [Slots -> Children \cup {None, Empty}]]
        /\ reverse' \in [Shards -> [Children -> Slots \cup {None}]]
        /\ mounts' \in [Shards -> SUBSET Slots] /\ errors' \in [Shards -> SUBSET Slots]
    <3>1. CASE UpsertLogicalCluster(s, c, lc) /\ UNCHANGED <<mounts, errors>>
      <4>1. mounts' \in [Shards -> SUBSET Slots] /\ errors' \in [Shards -> SUBSET Slots]
        BY Zenon, <1>0, <3>1 DEF IndexType
      <4> QED BY Zenon, <1>0, <2>1, <3>1, <4>1, UpsertLCTyped
    <3>2. CASE DeleteLogicalCluster(s, c)
      BY Zenon, <1>0, <3>2, DeleteLCTyped
    <3> QED BY Zenon, <2>2, <3>1, <3>2
  <2>5. IndexType'
    BY Zenon, <1>0, <2>1, <2>3, <2>4 DEF IndexType, shardVars
  <2>6. lc.owner = None \/ c # Root
    BY Zenon, <2>1, EmptyTypes
  <2>7. \A t \in Shards : lcsSent'[t][Root].owner = None /\ lcsSeen'[t][Root].owner = None
    BY <1>0, <2>3, <2>6 DEF IndexType
  <2> QED BY Zenon, <1>0, <2>3, <2>5, <2>7, IndexTyped
<1>3. ASSUME StartInformers(s)
      PROVE  TypeInv'
  <2>1. IndexType'
    BY Zenon, <1>0, <1>3 DEF StartInformers, IndexType, sentVars, seenVars, indexVars
  <2> QED BY Zenon, <1>0, <1>3, <2>1, IndexTyped DEF StartInformers, sentVars, seenVars
<1>4. ASSUME StopShard(s)
      PROVE  TypeInv'
  <2>1. IndexType'
    BY Zenon, <1>0, <1>4, NoLCType, EmptyTypes DEF StopShard, IndexType
  <2>2. \A t \in Shards : lcsSent'[t][Root].owner = None /\ lcsSeen'[t][Root].owner = None
    BY Zenon, <1>0, <1>4, EmptyTypes DEF StopShard, IndexType
  <2> QED BY Zenon, <1>0, <1>4, <2>1, <2>2, IndexTyped DEF StopShard
<1> QED BY Zenon, <1>1, <1>2, <1>3, <1>4

\* A resync keeps the types.
LEMMA ResyncType == TypeInv /\ Resync => TypeInv'
<1> SUFFICES ASSUME TypeInv, NEW s \in Shards,
                    \/ \E x \in Slots : ResyncWorkspace(s, x)
                    \/ \E c \in LCNames : ResyncLC(s, c)
             PROVE  TypeInv'
  BY Zenon DEF Resync
<1>0. IndexType /\ budget \in [Events -> Nat]
      /\ \A t \in Shards : lcsSent[t][Root].owner = None /\ lcsSeen[t][Root].owner = None
  BY Zenon, TypeSplit DEF TypeInv, WorldType, RootHasNoOwner
<1>1. ASSUME NEW x \in Slots, ResyncWorkspace(s, x)
      PROVE  TypeInv'
  <2>1. workspacesSeen[s][x] \in Workspace
    BY <1>0 DEF IndexType
  <2>2. /\ UpsertWorkspace(s, x, workspacesSeen[s][x])
        /\ UNCHANGED <<worldVars, sentVars, seenVars, shardVars, clusterShards, baseURLs, budget>>
    BY Zenon, <1>1 DEF ResyncWorkspace
  <2>3. IndexType'
    BY Zenon, <1>0, <2>1, <2>2, UpsertWorkspaceTyped DEF IndexType, sentVars, seenVars, shardVars
  <2> QED BY Zenon, <1>0, <2>2, <2>3, IndexTyped DEF sentVars, seenVars
<1>2. ASSUME NEW c \in LCNames, ResyncLC(s, c)
      PROVE  TypeInv'
  <2>1. lcsSeen[s][c] \in LC /\ (lcsSeen[s][c].owner # None => c \in Children)
    BY Zenon, <1>0, OwnedBelowRoot DEF IndexType
  <2>2. /\ UpsertLogicalCluster(s, c, lcsSeen[s][c])
        /\ UNCHANGED <<worldVars, sentVars, seenVars, shardVars, mounts, errors, baseURLs, budget>>
    BY Zenon, <1>2 DEF ResyncLC
  <2>3. IndexType'
    BY Zenon, <1>0, <2>1, <2>2, UpsertLCTyped DEF IndexType, sentVars, seenVars, shardVars
  <2> QED BY Zenon, <1>0, <2>2, <2>3, IndexTyped DEF sentVars, seenVars
<1> QED BY Zenon, <1>1, <1>2

\* So do a shard that is registered anew and a restart.
LEMMA OperatorType == TypeInv /\ Operator => TypeInv'
<1> SUFFICES ASSUME TypeInv, Restart \/ \E s \in Shards : DeleteShard(s) PROVE TypeInv'
  BY Zenon DEF Operator
<1>0. IndexType /\ budget \in [Events -> Nat]
      /\ \A t \in Shards : lcsSent[t][Root].owner = None /\ lcsSeen[t][Root].owner = None
  BY Zenon, TypeSplit DEF TypeInv, WorldType, RootHasNoOwner
<1>e. "restart" \in Events /\ "renew" \in Events
  BY Zenon DEF Events
<1>1. ASSUME Restart
      PROVE  TypeInv'
  <2>1. budget' \in [Events -> Nat]
    BY Zenon, <1>0, <1>1, <1>e, SpendType DEF Restart
  <2>2. IndexType'
    BY Zenon, <1>0, <1>1, NoLCType, EmptyTypes DEF Restart, IndexType
  <2> QED BY Zenon, <1>1, <2>1, <2>2, IndexTyped, EmptyTypes DEF Restart
<1>2. ASSUME NEW s \in Shards, DeleteShard(s)
      PROVE  TypeInv'
  <2>1. budget' \in [Events -> Nat]
    BY Zenon, <1>0, <1>2, <1>e, SpendType DEF DeleteShard
  <2>2. IndexType'
    BY Zenon, <1>0, <1>2, EmptyTypes DEF DeleteShard, IndexType, sentVars, seenVars
  <2> QED BY Zenon, <1>0, <1>2, <2>1, <2>2, IndexTyped DEF DeleteShard, sentVars, seenVars
<1> QED BY Zenon, <1>1, <1>2

\* What a watch has sent when it falls behind is what the shard has.
LEMMA FallBehindType == TypeInv /\ FallBehind => TypeInv'
<1> SUFFICES ASSUME TypeInv, NEW s \in Shards, LagWorkspaces(s) \/ LagLCs(s)
             PROVE  TypeInv'
  BY Zenon DEF FallBehind
<1>0. WorldType /\ IndexType /\ budget \in [Events -> Nat] /\ RootHasNoOwner
  BY Zenon, TypeSplit DEF TypeInv, WorldType
<1>1. UNCHANGED <<worldVars, seenVars, shardVars, indexVars>>
  BY Zenon DEF LagWorkspaces, LagLCs
<1>2. /\ workspacesSent' \in {workspacesSent, [workspacesSent EXCEPT ![s] = workspaces[s]]}
      /\ lcsSent' \in {lcsSent, [lcsSent EXCEPT ![s] = lcs[s]]}
  BY Zenon DEF LagWorkspaces, LagLCs
<1>3. budget' \in [Events -> Nat]
  <2>1. "lag" \in Events
    BY Zenon DEF Events
  <2> QED BY Zenon, <1>0, <2>1, SpendType DEF LagWorkspaces, LagLCs
<1>4. /\ workspacesSent' \in [Shards -> [Slots -> Workspace]]
      /\ lcsSent' \in [Shards -> [LCNames -> LC]]
  BY Zenon, <1>0, <1>2 DEF WorldType, IndexType
<1>5. IndexType'
  BY Zenon, <1>0, <1>1, <1>4 DEF IndexType, seenVars, shardVars, indexVars
<1>6. \A t \in Shards : lcsSent'[t][Root].owner = None /\ lcsSeen'[t][Root].owner = None
  BY Zenon, <1>0, <1>1, <1>2 DEF RootHasNoOwner, IndexType, seenVars
<1> QED BY Zenon, <1>1, <1>3, <1>5, <1>6, IndexTyped

\* A step that changes nothing.
LEMMA StutterType == TypeInv /\ UNCHANGED vars => TypeInv'
<1> SUFFICES ASSUME TypeInv, UNCHANGED vars PROVE TypeInv'
  OBVIOUS
<1>1. UNCHANGED <<worldVars, budget>> /\ Indexed
  BY Zenon DEF vars, Indexed
<1>2. WorldType'
  BY Zenon, <1>1, TypeSplit DEF TypeInv, WorldType, worldVars
<1> QED BY Zenon, <1>1, <1>2, WorldTyped DEF worldVars, TypeInv, RootHasNoOwner

\* The maps of the index hold what they are declared to hold, whatever events
\* arrive in whatever order: edges lead to LCs below the root, back edges to
\* workspaces (State of pkg/index/index.go).
THEOREM IndexIsTyped == Spec => []TypeOK
<1>1. TypeInv /\ [Next]_vars => TypeInv'
  BY Zenon, UsersType, ControllersType, DeliverType, ResyncType, OperatorType, FallBehindType,
     StutterType DEF Next
<1>2. TypeInv => TypeOK
  BY Zenon DEF TypeInv
<1> QED BY InitType, <1>1, <1>2, PTL DEF Spec

----------------------------------------------------------------------------
(* No route to a copy, as long as there is one migration.  The argument is *)
(* where an LC has left a trace: before its migration only on its shard,   *)
(* so that the destination knows nothing of it when the copy is made.  (An *)
(* LC that migrates back finds its old route if the delete was never       *)
(* delivered.)                                                             *)

OneMigration == \A b \in Budgets : b["migrate"] <= 1

\* The LC is on the shard, was sent or delivered by it, or is routed to it.
Trace(s, c) ==
    lcs[s][c].exists \/ lcsSent[s][c].exists \/ lcsSeen[s][c].exists \/ clusterShards[c] = s

\* The LC on the shard is, or may become, the origin of a migration.
MayBeCopied(s, c) ==
    lcs[s][c].exists /\ ~lcs[s][c].copy /\ (lcs[s][c].migrating \/ budget["migrate"] > 0)

\* A copy: no route leads to it, and what was sent and delivered of it is
\* annotated.
CopyIsHidden(s, c) ==
    lcs[s][c].copy =>
        /\ lcs[s][c].exists /\ lcs[s][c].migrating
        /\ clusterShards[c] # s
        /\ lcsSent[s][c].exists => lcsSent[s][c].migrating
        /\ lcsSeen[s][c].exists => lcsSeen[s][c].migrating

\* Beside a possible origin there are traces of its copy only.
OriginIsAlone(s, c) == MayBeCopied(s, c) => \A t \in Shards : t # s /\ Trace(t, c) => lcs[t][c].copy

CopyInv ==
    /\ budget["migrate"] \in 0..1
    /\ \A i \in 1..Len(Clusters), s \in Shards : i > handed => ~Trace(s, Clusters[i])
    /\ \A c \in Children, s \in Shards :
         /\ lcs[s][c].migrating => budget["migrate"] = 0
         /\ CopyIsHidden(s, c)
         /\ OriginIsAlone(s, c)

\* The invariant holds at first.
LEMMA InitCopy == ASSUME OneMigration PROVE Init => CopyInv
<1> SUFFICES ASSUME Init PROVE CopyInv
  OBVIOUS
<1>1. budget["migrate"] \in 0..1
  <2>1. budget \in Budgets /\ "migrate" \in Events
    BY Zenon DEF Init, Events
  <2>2. budget["migrate"] \in Nat
    BY Zenon, <2>1, ProxyIndexAssumption
  <2> QED BY <2>1, <2>2 DEF OneMigration
<1>2. \A c \in Children, s \in Shards : lcs[s][c] = NoLC /\ ~Trace(s, c)
  BY Zenon, EmptyTypes, NoLCType, ProxyIndexAssumption DEF Init, Trace
<1>3. \A i \in 1..Len(Clusters) : Clusters[i] \in Children
  BY ProxyIndexAssumption
<1>4. ~NoLC.migrating /\ ~NoLC.copy /\ ~NoLC.exists
  BY Zenon DEF NoLC
<1> QED BY Zenon, <1>1, <1>2, <1>3, <1>4 DEF CopyInv, CopyIsHidden, OriginIsAlone, MayBeCopied

\* A step of the index or its informers sends what the shard has, delivers what
\* was sent, and routes an LC only to a shard that has delivered it without the
\* annotation, which is never a copy.
LEMMA RoutesOnlyDelivered ==
    ASSUME CopyInv, UNCHANGED <<lcs, handed>>, budget'["migrate"] = budget["migrate"],
           \A t \in Shards, d \in LCNames :
             /\ lcsSent'[t][d].exists => lcsSent'[t][d] = lcsSent[t][d] \/ lcsSent'[t][d] = lcs[t][d]
             /\ lcsSeen'[t][d].exists => \/ lcsSeen'[t][d] = lcsSeen[t][d]
                                         \/ lcsSeen'[t][d] = lcsSent[t][d]
                                         \/ lcsSeen'[t][d] = lcs[t][d]
             /\ clusterShards'[d] = t => \/ clusterShards[d] = t
                                         \/ lcsSeen'[t][d].exists /\ ~lcsSeen'[t][d].migrating
    PROVE  CopyInv'
<1>1. \A t \in Shards, d \in LCNames : Trace(t, d)' => Trace(t, d)
  BY Zenon DEF Trace
<1>2. Children \subseteq LCNames /\ \A i \in 1..Len(Clusters) : Clusters[i] \in LCNames
  BY EmptyTypes, ProxyIndexAssumption
<1>3. \A i \in 1..Len(Clusters), s \in Shards : i > handed' => ~Trace(s, Clusters[i])'
  BY Zenon, <1>1, <1>2 DEF CopyInv
<1>4. ASSUME NEW c \in Children, NEW s \in Shards
      PROVE  /\ lcs'[s][c].migrating => budget'["migrate"] = 0
             /\ CopyIsHidden(s, c)'
             /\ OriginIsAlone(s, c)'
  <2>1. lcs'[s][c].migrating => budget'["migrate"] = 0
    BY Zenon DEF CopyInv
  <2>2. CopyIsHidden(s, c)'
    <3> SUFFICES ASSUME lcs[s][c].copy
                 PROVE  /\ lcs[s][c].exists /\ lcs[s][c].migrating
                        /\ clusterShards'[c] # s
                        /\ lcsSent'[s][c].exists => lcsSent'[s][c].migrating
                        /\ lcsSeen'[s][c].exists => lcsSeen'[s][c].migrating
      BY Zenon DEF CopyIsHidden
    <3>1. /\ lcs[s][c].exists /\ lcs[s][c].migrating
          /\ clusterShards[c] # s
          /\ lcsSent[s][c].exists => lcsSent[s][c].migrating
          /\ lcsSeen[s][c].exists => lcsSeen[s][c].migrating
      BY Zenon DEF CopyInv, CopyIsHidden
    <3> QED BY <1>2, <3>1
  <2>3. OriginIsAlone(s, c)'
    BY Zenon, <1>1, <1>2 DEF CopyInv, OriginIsAlone, MayBeCopied
  <2> QED BY Zenon, <2>1, <2>2, <2>3
<1> QED BY Zenon, <1>3, <1>4 DEF CopyInv

\* One LC is written, the others stay.
LEMMA WriteLCFacts ==
    ASSUME TypeOK, NEW s \in Shards, NEW c \in Children, NEW lc, WriteLC(s, c, lc)
    PROVE  /\ lcs'[s][c] = lc
           /\ \A t \in Shards, d \in LCNames : t # s \/ d # c => lcs'[t][d] = lcs[t][d]
<1>1. lcs \in [Shards -> [LCNames -> LC]] /\ c \in LCNames
  BY Zenon, EmptyTypes DEF TypeOK
<1> QED BY Zenon, <1>1 DEF WriteLC

\* What users and operators do but for migrating leaves the budget of migrations.
LEMMA SpendOther ==
    ASSUME TypeOK, NEW event \in Events \ {"migrate"}, Spend(event)
    PROVE  budget'["migrate"] = budget["migrate"]
<1>1. budget \in [Events -> Nat] /\ "migrate" \in Events
  BY Zenon DEF TypeOK, Events
<1> QED BY Zenon, <1>1 DEF Spend

\* An LC goes that is not a copy.
LEMMA LCGoes ==
    ASSUME TypeOK, CopyInv, Indexed, UNCHANGED handed, budget'["migrate"] = budget["migrate"],
           NEW s \in Shards, NEW c \in Children, ~lcs[s][c].copy, WriteLC(s, c, NoLC)
    PROVE  CopyInv'
<1>1. /\ lcs'[s][c] = NoLC
      /\ \A t \in Shards, d \in LCNames : t # s \/ d # c => lcs'[t][d] = lcs[t][d]
  BY Zenon, WriteLCFacts
<1>2. UNCHANGED <<lcsSent, lcsSeen, clusterShards>>
  BY Zenon DEF Indexed, sentVars, seenVars, indexVars
<1>3. ~NoLC.exists /\ ~NoLC.copy /\ ~NoLC.migrating
  BY Zenon DEF NoLC
<1>4. \A t \in Shards, d \in LCNames : Trace(t, d)' => Trace(t, d)
  BY Zenon, <1>1, <1>2, <1>3 DEF Trace
<1>5. Children \subseteq LCNames /\ \A i \in 1..Len(Clusters) : Clusters[i] \in LCNames
  BY EmptyTypes, ProxyIndexAssumption
<1>6. \A i \in 1..Len(Clusters), t \in Shards : i > handed' => ~Trace(t, Clusters[i])'
  BY Zenon, <1>4, <1>5 DEF CopyInv
<1>7. ASSUME NEW d \in Children, NEW t \in Shards
      PROVE  /\ lcs'[t][d].migrating => budget'["migrate"] = 0
             /\ CopyIsHidden(t, d)'
             /\ OriginIsAlone(t, d)'
  <2>1. lcs'[t][d] = lcs[t][d] \/ lcs'[t][d] = NoLC
    BY Zenon, <1>1, <1>5
  <2>2. lcs'[t][d].migrating => budget'["migrate"] = 0
    BY Zenon, <1>3, <2>1 DEF CopyInv
  <2>3. CopyIsHidden(t, d)'
    BY Zenon, <1>2, <1>3, <2>1 DEF CopyInv, CopyIsHidden
  <2>4. OriginIsAlone(t, d)'
    <3> SUFFICES ASSUME MayBeCopied(t, d)', NEW u \in Shards, u # t, Trace(u, d)'
                 PROVE  lcs'[u][d].copy
      BY Zenon DEF OriginIsAlone
    <3>1. MayBeCopied(t, d)
      BY Zenon, <1>3, <2>1 DEF MayBeCopied
    <3>2. lcs[u][d].copy
      BY Zenon, <1>4, <1>5, <3>1 DEF CopyInv, OriginIsAlone
    <3> QED BY Zenon, <1>1, <1>5, <3>2
  <2> QED BY Zenon, <2>2, <2>3, <2>4
<1> QED BY Zenon, <1>6, <1>7 DEF CopyInv

\* The LC of a workspace gets a name that has no trace.
LEMMA ScheduleCopy ==
    ASSUME TypeInv, CopyInv, NEW s \in Shards, NEW x \in Slots, NEW t \in Shards, Schedule(s, x, t)
    PROVE  CopyInv'
<1> DEFINE lc == [NoLC EXCEPT !.exists = TRUE, !.owner = x]
           c  == Clusters[handed + 1]
<1>0. TypeOK
  BY Zenon DEF TypeInv
<1>1. ~lc.migrating /\ ~lc.copy
  BY Zenon DEF NoLC
<1>2. /\ WriteLC(t, c, lc) /\ handed < Len(Clusters) /\ handed' = handed + 1
      /\ UNCHANGED <<budget, lcsSent, lcsSeen, clusterShards>>
  BY Zenon DEF Schedule, Indexed, sentVars, seenVars, indexVars
<1>3. handed \in 0..Len(Clusters)
  BY Zenon, <1>0 DEF TypeOK
<1>4. c \in Children /\ handed + 1 \in 1..Len(Clusters)
  BY Zenon, <1>2, <1>3, NextCluster
<1>5. \A i \in 1..Len(Clusters) : i > handed + 1 => Clusters[i] # c
  <2>1. \A i, j \in 1..Len(Clusters) : Clusters[i] = Clusters[j] => i = j
    BY ProxyIndexAssumption DEF IsInjective
  <2> QED BY <1>3, <1>4, <2>1
<1>6. Children \subseteq LCNames /\ \A i \in 1..Len(Clusters) : Clusters[i] \in LCNames
  BY EmptyTypes, ProxyIndexAssumption
<1>7. \A u \in Shards : ~Trace(u, c)
  BY <1>3, <1>4 DEF CopyInv
<1> HIDE DEF lc, c
<1>8. /\ lcs'[t][c] = lc
      /\ \A u \in Shards, d \in LCNames : u # t \/ d # c => lcs'[u][d] = lcs[u][d]
  BY Zenon, <1>0, <1>2, <1>4, WriteLCFacts
<1>9. \A u \in Shards, d \in LCNames : Trace(u, d)' => Trace(u, d) \/ (u = t /\ d = c)
  BY Zenon, <1>2, <1>8 DEF Trace
<1>10. \A i \in 1..Len(Clusters), u \in Shards : i > handed' => ~Trace(u, Clusters[i])'
  <2> SUFFICES ASSUME NEW i \in 1..Len(Clusters), NEW u \in Shards, i > handed'
               PROVE  ~Trace(u, Clusters[i])'
    OBVIOUS
  <2>1. i > handed
    BY <1>2, <1>3
  <2> QED BY Zenon, <1>2, <1>5, <1>6, <1>9, <2>1 DEF CopyInv
<1>11. ASSUME NEW d \in Children, NEW u \in Shards
       PROVE  /\ lcs'[u][d].migrating => budget'["migrate"] = 0
              /\ CopyIsHidden(u, d)'
              /\ OriginIsAlone(u, d)'
  <2>1. lcs'[u][d] = lcs[u][d] \/ lcs'[u][d] = lc
    BY Zenon, <1>6, <1>8
  <2>2. lcs'[u][d].migrating => budget'["migrate"] = 0
    BY Zenon, <1>1, <1>2, <2>1 DEF CopyInv
  <2>3. CopyIsHidden(u, d)'
    BY Zenon, <1>1, <1>2, <2>1 DEF CopyInv, CopyIsHidden
  <2>4. OriginIsAlone(u, d)'
    <3> SUFFICES ASSUME MayBeCopied(u, d)', NEW v \in Shards, v # u, Trace(v, d)'
                 PROVE  lcs'[v][d].copy
      BY Zenon DEF OriginIsAlone
    <3>1. CASE d = c
      <4>1. v = t /\ u # t
        BY Zenon, <1>6, <1>7, <1>9, <3>1
      <4>2. lcs'[u][d] = lcs[u][d]
        BY Zenon, <1>6, <1>8, <4>1
      <4> QED BY Zenon, <1>7, <3>1, <4>2 DEF MayBeCopied, Trace
    <3>2. CASE d # c
      <4>1. lcs'[u][d] = lcs[u][d] /\ lcs'[v][d] = lcs[v][d] /\ Trace(v, d)
        BY Zenon, <1>6, <1>8, <1>9, <3>2
      <4> QED BY Zenon, <1>2, <4>1 DEF CopyInv, OriginIsAlone, MayBeCopied
    <3> QED BY Zenon, <3>1, <3>2
  <2> QED BY Zenon, <2>2, <2>3, <2>4
<1> QED BY Zenon, <1>2, <1>10, <1>11 DEF CopyInv

\* The annotation spends the one migration there is.
LEMMA MigrateCopy ==
    ASSUME TypeInv, CopyInv, NEW s \in Shards, NEW c \in Children, Migrate(s, c)
    PROVE  CopyInv'
<1>0. TypeOK /\ lcs[s][c] \in LC /\ budget \in [Events -> Nat] /\ "migrate" \in Events
  BY EmptyTypes DEF TypeInv, TypeOK, Events
<1> DEFINE lc == [lcs[s][c] EXCEPT !.migrating = TRUE]
<1>1. lc.exists = lcs[s][c].exists /\ lc.copy = lcs[s][c].copy /\ lc.migrating
  BY Zenon, <1>0 DEF LC
<1>2. /\ WriteLC(s, c, lc) /\ UNCHANGED <<handed, lcsSent, lcsSeen, clusterShards>>
      /\ lcs[s][c].exists /\ ~lcs[s][c].migrating
  BY Zenon DEF Migrate, Indexed, sentVars, seenVars, indexVars
<1>3. budget["migrate"] = 1 /\ budget'["migrate"] = 0
  <2>1. budget["migrate"] > 0 /\ budget' = [budget EXCEPT !["migrate"] = @ - 1]
    BY Zenon DEF Migrate, Spend
  <2>2. budget["migrate"] = 1
    BY <1>0, <2>1 DEF CopyInv
  <2> QED BY <1>0, <2>1, <2>2
<1> HIDE DEF lc
<1>4. /\ lcs'[s][c] = lc
      /\ \A u \in Shards, d \in LCNames : u # s \/ d # c => lcs'[u][d] = lcs[u][d]
  BY Zenon, <1>0, <1>2, WriteLCFacts
<1>5. Children \subseteq LCNames /\ \A i \in 1..Len(Clusters) : Clusters[i] \in LCNames
  BY EmptyTypes, ProxyIndexAssumption
<1>6. \A u \in Shards, d \in Children : ~lcs[u][d].migrating /\ ~lcs[u][d].copy
  BY <1>3 DEF CopyInv, CopyIsHidden
<1>7. \A u \in Shards, d \in LCNames : Trace(u, d)' => Trace(u, d)
  BY Zenon, <1>1, <1>2, <1>4 DEF Trace
<1>8. \A u \in Shards, d \in Children :
        /\ ~lcs'[u][d].copy
        /\ lcs'[u][d].migrating => u = s /\ d = c
  BY Zenon, <1>1, <1>4, <1>5, <1>6
<1>9. \A i \in 1..Len(Clusters), t \in Shards : i > handed' => ~Trace(t, Clusters[i])'
  BY Zenon, <1>2, <1>5, <1>7 DEF CopyInv
<1>10. MayBeCopied(s, c)
  BY <1>2, <1>3, <1>6 DEF MayBeCopied
<1>11. \A u \in Shards : u # s => ~Trace(u, c)
  BY Zenon, <1>6, <1>10 DEF CopyInv, OriginIsAlone
<1>12. \A u \in Shards, d \in Children : OriginIsAlone(u, d)'
  BY <1>3, <1>5, <1>7, <1>8, <1>11 DEF OriginIsAlone, MayBeCopied
<1>13. \A u \in Shards, d \in Children : CopyIsHidden(u, d)'
  BY Zenon, <1>8 DEF CopyIsHidden
<1> QED BY <1>3, <1>9, <1>12, <1>13 DEF CopyInv

\* The destination has no trace of the LC when the copy is made.
LEMMA CopyLCCopy ==
    ASSUME TypeInv, CopyInv, NEW s \in Shards, NEW c \in Children, NEW t \in Shards, CopyLC(s, c, t)
    PROVE  CopyInv'
<1>0. TypeOK /\ lcs[s][c] \in LC
  BY EmptyTypes DEF TypeInv, TypeOK
<1> DEFINE lc == [lcs[s][c] EXCEPT !.copy = TRUE]
<1>1. lc.exists = lcs[s][c].exists /\ lc.migrating = lcs[s][c].migrating /\ lc.copy
  BY Zenon, <1>0 DEF LC
<1>2. /\ WriteLC(t, c, lc) /\ UNCHANGED <<handed, budget, lcsSent, lcsSeen, clusterShards>>
      /\ s # t /\ lcs[s][c].exists /\ lcs[s][c].migrating /\ ~lcs[s][c].copy
      /\ \A u \in Shards \ {s} : ~lcs[u][c].exists
  BY Zenon DEF CopyLC, Indexed, sentVars, seenVars, indexVars
<1> HIDE DEF lc
<1>3. /\ lcs'[t][c] = lc
      /\ \A u \in Shards, d \in LCNames : u # t \/ d # c => lcs'[u][d] = lcs[u][d]
  BY Zenon, <1>0, <1>2, WriteLCFacts
<1>4. Children \subseteq LCNames /\ \A i \in 1..Len(Clusters) : Clusters[i] \in LCNames
  BY EmptyTypes, ProxyIndexAssumption
<1>5. \A u \in Shards : u # s => ~Trace(u, c)
  <2>1. MayBeCopied(s, c)
    BY Zenon, <1>2 DEF MayBeCopied
  <2>2. \A u \in Shards : u # s => ~lcs[u][c].copy
    BY Zenon, <1>2 DEF CopyInv, CopyIsHidden
  <2> QED BY Zenon, <2>1, <2>2 DEF CopyInv, OriginIsAlone
<1>6. \A u \in Shards, d \in LCNames : Trace(u, d)' => Trace(u, d) \/ (u = t /\ d = c)
  BY Zenon, <1>2, <1>3 DEF Trace
<1>7. \A i \in 1..Len(Clusters), u \in Shards : i > handed' => ~Trace(u, Clusters[i])'
  <2>1. \A i \in 1..Len(Clusters) : i > handed => Clusters[i] # c
    BY Zenon, <1>2 DEF CopyInv, Trace
  <2> QED BY Zenon, <1>2, <1>4, <1>6, <2>1 DEF CopyInv
<1>8. ASSUME NEW d \in Children, NEW u \in Shards
      PROVE  /\ lcs'[u][d].migrating => budget'["migrate"] = 0
             /\ CopyIsHidden(u, d)'
             /\ OriginIsAlone(u, d)'
  <2>1. CASE u = t /\ d = c
    <3>1. lcs'[u][d] = lc
      BY Zenon, <1>3, <2>1
    <3>2. lcs'[u][d].migrating => budget'["migrate"] = 0
      BY Zenon, <1>1, <1>2, <3>1 DEF CopyInv
    <3>3. CopyIsHidden(u, d)'
      BY Zenon, <1>1, <1>2, <1>5, <2>1, <3>1 DEF CopyIsHidden, Trace
    <3> QED BY Zenon, <1>1, <3>1, <3>2, <3>3 DEF OriginIsAlone, MayBeCopied
  <2>2. CASE ~(u = t /\ d = c)
    <3>1. lcs'[u][d] = lcs[u][d]
      BY Zenon, <1>3, <1>4, <2>2
    <3>2. lcs'[u][d].migrating => budget'["migrate"] = 0
      BY Zenon, <1>2, <3>1 DEF CopyInv
    <3>3. CopyIsHidden(u, d)'
      BY Zenon, <1>2, <3>1 DEF CopyInv, CopyIsHidden
    <3>4. OriginIsAlone(u, d)'
      <4> SUFFICES ASSUME MayBeCopied(u, d)', NEW v \in Shards, v # u, Trace(v, d)'
                   PROVE  lcs'[v][d].copy
        BY Zenon DEF OriginIsAlone
      <4>1. CASE v = t /\ d = c
        BY Zenon, <1>1, <1>3, <4>1
      <4>2. CASE ~(v = t /\ d = c)
        <5>1. MayBeCopied(u, d) /\ Trace(v, d) /\ lcs'[v][d] = lcs[v][d]
          BY Zenon, <1>2, <1>3, <1>4, <1>6, <3>1, <4>2 DEF MayBeCopied
        <5> QED BY Zenon, <5>1 DEF CopyInv, OriginIsAlone
      <4> QED BY Zenon, <4>1, <4>2
    <3> QED BY Zenon, <3>2, <3>3, <3>4
  <2> QED BY Zenon, <2>1, <2>2
<1> QED BY Zenon, <1>2, <1>7, <1>8 DEF CopyInv

\* When the annotation is taken off the copy there is no other migration.
LEMMA FinishCopy ==
    ASSUME TypeInv, CopyInv, NEW t \in Shards, NEW c \in Children, FinishMigration(t, c)
    PROVE  CopyInv'
<1>0. TypeOK /\ lcs[t][c] \in LC
  BY EmptyTypes DEF TypeInv, TypeOK
<1> DEFINE lc == [lcs[t][c] EXCEPT !.copy = FALSE, !.migrating = FALSE]
<1>1. lc.exists = lcs[t][c].exists /\ ~lc.migrating /\ ~lc.copy
  BY Zenon, <1>0 DEF LC
<1>2. /\ WriteLC(t, c, lc) /\ UNCHANGED <<handed, budget, lcsSent, lcsSeen, clusterShards>>
      /\ lcs[t][c].exists /\ lcs[t][c].copy
      /\ \A u \in Shards \ {t} : ~lcs[u][c].exists
  BY Zenon DEF FinishMigration, Indexed, sentVars, seenVars, indexVars
<1> HIDE DEF lc
<1>3. /\ lcs'[t][c] = lc
      /\ \A u \in Shards, d \in LCNames : u # t \/ d # c => lcs'[u][d] = lcs[u][d]
  BY Zenon, <1>0, <1>2, WriteLCFacts
<1>4. Children \subseteq LCNames /\ \A i \in 1..Len(Clusters) : Clusters[i] \in LCNames
  BY EmptyTypes, ProxyIndexAssumption
<1>5. budget["migrate"] = 0
  BY Zenon, <1>2 DEF CopyInv, CopyIsHidden
<1>6. \A u \in Shards, d \in LCNames : Trace(u, d)' => Trace(u, d)
  BY Zenon, <1>1, <1>2, <1>3 DEF Trace
<1>7. \A i \in 1..Len(Clusters), u \in Shards : i > handed' => ~Trace(u, Clusters[i])'
  BY Zenon, <1>2, <1>4, <1>6 DEF CopyInv
<1>8. ASSUME NEW d \in Children, NEW u \in Shards
      PROVE  CopyIsHidden(u, d)' /\ OriginIsAlone(u, d)'
  <2>1. lcs'[u][d] = lcs[u][d] \/ lcs'[u][d] = lc
    BY Zenon, <1>3, <1>4
  <2>2. CopyIsHidden(u, d)'
    BY Zenon, <1>1, <1>2, <2>1 DEF CopyInv, CopyIsHidden
  <2>3. OriginIsAlone(u, d)'
    <3> SUFFICES ASSUME MayBeCopied(u, d)', NEW v \in Shards, v # u, Trace(v, d)'
                 PROVE  lcs'[v][d].copy
      BY Zenon DEF OriginIsAlone
    <3>1. lcs'[u][d].exists /\ lcs'[u][d].migrating
      BY <1>2, <1>5 DEF MayBeCopied
    <3>2. d # c
      BY <1>1, <1>2, <1>3, <1>4, <3>1
    <3>3. lcs'[u][d] = lcs[u][d] /\ lcs'[v][d] = lcs[v][d]
      BY Zenon, <1>3, <1>4, <3>2
    <3> QED BY Zenon, <1>2, <1>4, <1>6, <3>3 DEF CopyInv, OriginIsAlone, MayBeCopied
  <2> QED BY Zenon, <2>2, <2>3
<1> QED BY Zenon, <1>2, <1>5, <1>7, <1>8 DEF CopyInv

\* A step that changes no LC, no route and nothing delivered of an LC.
LEMMA NoLCTouched ==
    ASSUME CopyInv, UNCHANGED <<lcs, handed, lcsSent, lcsSeen, clusterShards>>,
           budget'["migrate"] = budget["migrate"]
    PROVE  CopyInv'
  BY DEF CopyInv, CopyIsHidden, OriginIsAlone, MayBeCopied, Trace

\* Users.
LEMMA UsersCopy == TypeInv /\ CopyInv /\ Users => CopyInv'
<1> SUFFICES ASSUME TypeInv, CopyInv, NEW s \in Shards,
                    \/ \E x \in Slots :
                         \/ \E mount \in BOOLEAN : CreateWorkspace(s, x, mount)
                         \/ SetPhase(s, x) \/ DeleteLC(s, x) \/ DeleteMount(s, x)
                    \/ \E c \in Children : Migrate(s, c)
             PROVE  CopyInv'
  BY Zenon DEF Users
<1>0. TypeOK
  BY Zenon DEF TypeInv
<1>e. {"create", "mount", "phase", "delete"} \subseteq Events \ {"migrate"}
  BY Zenon DEF Events
<1>1. ASSUME NEW x \in Slots, NEW mount \in BOOLEAN, CreateWorkspace(s, x, mount)
      PROVE  CopyInv'
  <2>1. Spend("mount") \/ Spend("create")
    BY Zenon, <1>1 DEF CreateWorkspace
  <2>2. UNCHANGED <<lcs, handed, lcsSent, lcsSeen, clusterShards>>
    BY Zenon, <1>1 DEF CreateWorkspace, Indexed, sentVars, seenVars, indexVars
  <2> QED BY Zenon, <1>0, <1>e, <2>1, <2>2, SpendOther, NoLCTouched
<1>2. ASSUME NEW x \in Slots, SetPhase(s, x) \/ DeleteMount(s, x)
      PROVE  CopyInv'
  <2>1. Spend("phase") \/ Spend("delete")
    BY Zenon, <1>2 DEF SetPhase, DeleteMount
  <2>2. UNCHANGED <<lcs, handed, lcsSent, lcsSeen, clusterShards>>
    BY Zenon, <1>2 DEF SetPhase, DeleteMount, Indexed, sentVars, seenVars, indexVars
  <2> QED BY Zenon, <1>0, <1>e, <2>1, <2>2, SpendOther, NoLCTouched
<1>3. ASSUME NEW x \in Slots, DeleteLC(s, x)
      PROVE  CopyInv'
  <2>1. PICK t \in Shards, c \in Children : ~lcs[t][c].migrating /\ WriteLC(t, c, NoLC)
    BY Zenon, <1>3 DEF DeleteLC
  <2>2. ~lcs[t][c].copy
    BY Zenon, <2>1 DEF CopyInv, CopyIsHidden
  <2>3. Indexed /\ UNCHANGED handed /\ Spend("delete")
    BY Zenon, <1>3 DEF DeleteLC
  <2>4. budget'["migrate"] = budget["migrate"]
    BY Zenon, <1>0, <1>e, <2>3, SpendOther
  <2> QED BY Zenon, <1>0, <2>1, <2>2, <2>3, <2>4, LCGoes
<1> QED BY Zenon, <1>1, <1>2, <1>3, MigrateCopy

\* The controllers of the shards.
LEMMA ControllersCopy == TypeInv /\ CopyInv /\ Controllers => CopyInv'
<1> SUFFICES ASSUME TypeInv, CopyInv, NEW s \in Shards,
                    \/ \E x \in Slots :
                         \/ \E t \in Shards : Schedule(s, x, t)
                         \/ Publish(s, x) \/ DeleteWorkspaceObject(s, x)
                    \/ \E c \in Children :
                         \/ \E t \in Shards : CopyLC(s, c, t)
                         \/ DropOrigin(s, c) \/ FinishMigration(s, c)
             PROVE  CopyInv'
  BY Zenon DEF Controllers
<1>1. ASSUME NEW x \in Slots, Publish(s, x) \/ DeleteWorkspaceObject(s, x)
      PROVE  CopyInv'
  <2>1. UNCHANGED <<lcs, handed, budget, lcsSent, lcsSeen, clusterShards>>
    BY Zenon, <1>1 DEF Publish, DeleteWorkspaceObject, Indexed, sentVars, seenVars, indexVars
  <2> QED BY Zenon, <2>1, NoLCTouched
<1>2. ASSUME NEW c \in Children, DropOrigin(s, c)
      PROVE  CopyInv'
  <2>1. Indexed /\ UNCHANGED <<handed, budget>> /\ ~lcs[s][c].copy /\ WriteLC(s, c, NoLC)
    BY Zenon, <1>2 DEF DropOrigin
  <2> QED BY Zenon, <2>1, LCGoes DEF TypeInv
<1> QED BY Zenon, <1>1, <1>2, ScheduleCopy, CopyLCCopy, FinishCopy

\* The informers.
LEMMA InformersCopy == TypeInv /\ CopyInv /\ (Deliver \/ Resync) => CopyInv'
<1> SUFFICES ASSUME TypeInv, CopyInv, NEW s \in Shards,
                    \/ \E x \in Slots : SeeWorkspace(s, x) \/ ResyncWorkspace(s, x)
                    \/ \E c \in LCNames : SeeLC(s, c) \/ ResyncLC(s, c)
                    \/ StartInformers(s) \/ StopShard(s)
             PROVE  CopyInv'
  BY Zenon DEF Deliver, Resync
<1>0. /\ lcsSent \in [Shards -> [LCNames -> LC]]
      /\ lcsSeen \in [Shards -> [LCNames -> LC]]
      /\ clusterShards \in [LCNames -> Shards \cup {None}]
  BY Zenon DEF TypeInv, TypeOK
<1>1. ASSUME \/ \E x \in Slots : SeeWorkspace(s, x) \/ ResyncWorkspace(s, x)
             \/ StartInformers(s)
      PROVE  CopyInv'
  <2>1. UNCHANGED <<lcs, handed, budget, lcsSent, lcsSeen, clusterShards>>
    BY Zenon, <1>1 DEF SeeWorkspace, ResyncWorkspace, StartInformers, worldVars,
       sentVars, seenVars, indexVars
  <2> QED BY Zenon, <2>1, NoLCTouched
<1>2. ASSUME NEW c \in LCNames, SeeLC(s, c)
      PROVE  CopyInv'
  <2> DEFINE lc == NextLCs(s)[c]
  <2>1. /\ lcsSent' = [lcsSent EXCEPT ![s][c] = lc]
        /\ lcsSeen' = [lcsSeen EXCEPT ![s][c] = lc]
        /\ IF lc.exists THEN UpsertLogicalCluster(s, c, lc) ELSE DeleteLogicalCluster(s, c)
        /\ UNCHANGED <<lcs, handed, budget>>
    BY Zenon, <1>2 DEF SeeLC, worldVars
  <2>2. lc = lcs[s][c] \/ lc = lcsSent[s][c]
    BY Zenon, NextLCsFacts
  <2> HIDE DEF lc
  <2>3. \A t \in Shards, d \in LCNames :
          /\ lcsSent'[t][d] = IF t = s /\ d = c THEN lc ELSE lcsSent[t][d]
          /\ lcsSeen'[t][d] = IF t = s /\ d = c THEN lc ELSE lcsSeen[t][d]
    BY Zenon, <1>0, <2>1
  <2>4. \A d \in LCNames : \/ clusterShards'[d] \in {clusterShards[d], None}
                           \/ /\ d = c /\ clusterShards'[d] = s
                              /\ lc.exists /\ ~lc.migrating
    <3>1. CASE lc.exists
      <4>1. UpsertLogicalCluster(s, c, lc)
        BY Zenon, <2>1, <3>1
      <4> QED BY Zenon, <1>0, <3>1, <4>1 DEF UpsertLogicalCluster
    <3>2. CASE ~lc.exists
      <4>1. DeleteLogicalCluster(s, c)
        BY Zenon, <2>1, <3>2
      <4>2. clusterShards' \in {clusterShards, [clusterShards EXCEPT ![c] = None]}
        BY Zenon, <4>1 DEF DeleteLogicalCluster
      <4> QED BY Zenon, <1>0, <4>2
    <3> QED BY Zenon, <3>1, <3>2
  <2>5. \A t \in Shards : t # None
    BY Zenon, ProxyIndexAssumption
  <2>6. budget'["migrate"] = budget["migrate"]
    BY Zenon, <2>1
  <2> QED BY <2>1, <2>2, <2>3, <2>4, <2>5, <2>6, RoutesOnlyDelivered
<1>3. ASSUME NEW c \in LCNames, ResyncLC(s, c)
      PROVE  CopyInv'
  <2>1. /\ UNCHANGED <<lcs, handed, budget, lcsSent, lcsSeen>> /\ lcsSeen[s][c].exists
        /\ UpsertLogicalCluster(s, c, lcsSeen[s][c])
    BY Zenon, <1>3 DEF ResyncLC, worldVars, sentVars, seenVars
  <2>2. \A d \in LCNames : \/ clusterShards'[d] = clusterShards[d]
                           \/ d = c /\ clusterShards'[d] = s /\ ~lcsSeen[s][c].migrating
    BY Zenon, <1>0, <2>1 DEF UpsertLogicalCluster
  <2>3. budget'["migrate"] = budget["migrate"]
    BY Zenon, <2>1
  <2> QED BY Zenon, <2>1, <2>2, <2>3, RoutesOnlyDelivered
<1>4. ASSUME StopShard(s)
      PROVE  CopyInv'
  <2>1. /\ lcsSent' = [lcsSent EXCEPT ![s] = NoLCs]
        /\ lcsSeen' = [lcsSeen EXCEPT ![s] = NoLCs]
        /\ UNCHANGED <<lcs, handed, budget, clusterShards>>
    BY Zenon, <1>4 DEF StopShard, worldVars
  <2>2. \A t \in Shards, d \in LCNames :
          /\ lcsSent'[t][d] = IF t = s THEN NoLC ELSE lcsSent[t][d]
          /\ lcsSeen'[t][d] = IF t = s THEN NoLC ELSE lcsSeen[t][d]
    BY Zenon, <1>0, <2>1, NoLCType
  <2>3. budget'["migrate"] = budget["migrate"]
    BY Zenon, <2>1
  <2> QED BY <2>1, <2>2, <2>3, NoLCType, RoutesOnlyDelivered
<1> QED BY Zenon, <1>1, <1>2, <1>3, <1>4

\* A shard that is registered anew, and a restart of the front-proxy.
LEMMA OperatorCopy == TypeInv /\ CopyInv /\ Operator => CopyInv'
<1> SUFFICES ASSUME TypeInv, CopyInv, Restart \/ \E s \in Shards : DeleteShard(s) PROVE CopyInv'
  BY Zenon DEF Operator
<1>0. TypeOK /\ \A t \in Shards : t # None
  BY Zenon, ProxyIndexAssumption DEF TypeInv
<1>1. "restart" \in Events \ {"migrate"} /\ "renew" \in Events \ {"migrate"}
  BY Zenon DEF Events
<1>2. CASE Restart
  <2>1. /\ UNCHANGED <<lcs, handed>> /\ Spend("restart")
        /\ lcsSent' = [s \in Shards |-> NoLCs]
        /\ lcsSeen' = [s \in Shards |-> NoLCs]
        /\ clusterShards' = [c \in LCNames |-> None]
    BY Zenon, <1>2 DEF Restart, worldVars
  <2>2. budget'["migrate"] = budget["migrate"]
    BY Zenon, <1>0, <1>1, <2>1, SpendOther
  <2> QED BY Zenon, <1>0, <2>1, <2>2, NoLCType, RoutesOnlyDelivered
<1>3. ASSUME NEW s \in Shards, DeleteShard(s)
      PROVE  CopyInv'
  <2>1. /\ UNCHANGED <<lcs, handed, lcsSent, lcsSeen>> /\ Spend("renew")
        /\ clusterShards' = [c \in LCNames |->
                IF clusterShards[c] = s THEN None ELSE clusterShards[c]]
    BY Zenon, <1>3 DEF DeleteShard, worldVars, sentVars, seenVars
  <2>2. budget'["migrate"] = budget["migrate"]
    BY Zenon, <1>0, <1>1, <2>1, SpendOther
  <2> QED BY Zenon, <1>0, <2>1, <2>2, RoutesOnlyDelivered
<1> QED BY Zenon, <1>2, <1>3

\* A watch that falls behind sends what the shard has.
LEMMA FallBehindCopy == TypeInv /\ CopyInv /\ FallBehind => CopyInv'
<1> SUFFICES ASSUME TypeInv, CopyInv, NEW s \in Shards, LagWorkspaces(s) \/ LagLCs(s)
             PROVE  CopyInv'
  BY Zenon DEF FallBehind
<1>0. TypeOK /\ lcsSent \in [Shards -> [LCNames -> LC]] /\ "lag" \in Events \ {"migrate"}
  BY Zenon DEF TypeInv, TypeOK, Events
<1>1. /\ UNCHANGED <<lcs, handed, lcsSeen, clusterShards>> /\ Spend("lag")
      /\ lcsSent' \in {lcsSent, [lcsSent EXCEPT ![s] = lcs[s]]}
  BY Zenon DEF LagWorkspaces, LagLCs, worldVars, seenVars, indexVars
<1>2. budget'["migrate"] = budget["migrate"]
  BY Zenon, <1>0, <1>1, SpendOther
<1>3. \A t \in Shards, d \in LCNames :
        lcsSent'[t][d] = lcsSent[t][d] \/ lcsSent'[t][d] = lcs[t][d]
  BY Zenon, <1>0, <1>1
<1> QED BY Zenon, <1>1, <1>2, <1>3, RoutesOnlyDelivered

\* As long as there is one migration, the copy it makes is not routed to before
\* it has finished, in whatever order the events of the shards arrive, if shards
\* are registered anew and if the front-proxy restarts: UpsertLogicalCluster
\* passes over an annotated LC (pkg/index/index.go).
THEOREM CopiesUnrouted ==
    ASSUME OneMigration
    PROVE  Spec => []NoRouteToCopy
<1>1. TypeInv /\ CopyInv /\ [Next]_vars => (TypeInv /\ CopyInv)'
  <2>1. TypeInv /\ CopyInv /\ UNCHANGED vars => CopyInv'
    BY Zenon, NoLCTouched DEF vars, worldVars, sentVars, seenVars, indexVars
  <2> QED BY Zenon, <2>1, UsersType, ControllersType, DeliverType, ResyncType, OperatorType, FallBehindType,
             StutterType, UsersCopy, ControllersCopy, InformersCopy, OperatorCopy,
             FallBehindCopy DEF Next
<1>2. TypeInv /\ CopyInv => NoRouteToCopy
  BY Zenon DEF CopyInv, CopyIsHidden, NoRouteToCopy
<1>3. Init => TypeInv /\ CopyInv
  BY Zenon, InitType, InitCopy
<1> QED BY <1>1, <1>2, <1>3, PTL DEF Spec
====
