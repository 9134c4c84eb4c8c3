------------------------ MODULE ShardRepresentation ------------------------
(***************************************************************************)
(* The representation of a shard in the root workspace, composed with the  *)
(* replication of its Shard object.                                        *)
(*                                                                         *)
(* A controller of the root shard (pkg/reconciler/core/                    *)
(* shardrepresentation) keeps, for the copy of every Shard on the cache    *)
(* server, a read-only Shard of the same name in the root workspace.  It   *)
(* runs in another process than the replication controller of Replication  *)
(* and has listers of its own.  Metadata and spec are written with one     *)
(* call and the status with another.                                       *)
(***************************************************************************)
EXTENDS Replication

VARIABLES
    root,          \* the representation
    rootRV,        \* newest resource version of the root shard's storage
    rootSeen,      \* the representation in the root shard's lister
    sourceSeen,    \* the copy in the root shard's lister of the cache server
    rootQueued,    \* whether the queue holds the controller's only key
    rootWork       \* the reconciliation in progress

rootController == <<rootSeen, sourceSeen, rootQueued, rootWork>>
rootVars == <<root, rootRV, rootController>>
allVars == <<vars, rootVars>>

\* Content is split as the two calls split it; status 0 is the empty status.
Representation == [rv: Nat, spec: Nat, intent: Intents, status: Nat]

NoRoot == [rv |-> 0, spec |-> 0, intent |-> Gone.intent, status |-> 0]

\* "base" is the resource version that the next call carries.
IdleRoot == [pc |-> "idle", source |-> Gone, base |-> 0]

\* Start puts the key on the queue even without an event.
RootInit ==
    /\ Init
    /\ root = NoRoot /\ rootRV = 0
    /\ rootSeen = NoRoot /\ sourceSeen = Gone
    /\ rootQueued = TRUE
    /\ rootWork = IdleRoot

----------------------------------------------------------------------------
SyncRoot ==
    /\ rootSeen # root
    /\ rootSeen' = root
    /\ rootQueued' = TRUE
    /\ UNCHANGED <<vars, root, rootRV, sourceSeen, rootWork>>

SyncSource ==
    /\ sourceSeen # copy
    /\ sourceSeen' = copy
    /\ rootQueued' = TRUE
    /\ UNCHANGED <<vars, root, rootRV, rootSeen, rootWork>>

\* representationFor: whether a representation has the source's metadata and
\* spec, and its status.
SameSpec(r, source) == r.spec = source.ver /\ r.intent = source.intent
SameStatus(r, source) == r.status = source.ver

\* Which call the two lists lead to.
RootDecision(source, r) ==
    IF ~Exists(source) THEN IF Exists(r) THEN "delete" ELSE "idle"
    ELSE IF ~Exists(r) THEN "create"
    ELSE IF ~SameSpec(r, source) THEN "update"
    ELSE IF ~SameStatus(r, source) THEN "status" ELSE "idle"

\* The controller lists both sides and decides; as in Replication, the two
\* reads may be taken as one.
DecideRoot ==
    /\ rootQueued /\ rootWork.pc = "idle"
    /\ rootQueued' = FALSE
    /\ LET next == RootDecision(sourceSeen, rootSeen)
       IN  rootWork' = IF next = "idle" THEN IdleRoot
                       ELSE [pc |-> next, source |-> sourceSeen, base |-> rootSeen.rv]
    /\ UNCHANGED <<vars, root, rootRV, rootSeen, sourceSeen>>

\* Mutant: the key of a failed call is forgotten.
RootReturn_ForgetKey(err) ==
    /\ rootWork' = IdleRoot
    /\ UNCHANGED rootQueued

RootReturn(err) ==
    /\ rootWork' = IdleRoot
    /\ rootQueued' = (rootQueued \/ err)

\* The representation is stored as r; the reconciliation goes on with "pc".
StoreRoot(r, pc) ==
    /\ root' = [r EXCEPT !.rv = rootRV + 1]
    /\ rootRV' = rootRV + 1
    /\ IF pc = "idle" THEN RootReturn(FALSE)
       ELSE /\ rootWork' = [rootWork EXCEPT !.pc = pc, !.base = rootRV + 1]
            /\ UNCHANGED rootQueued

\* A new object has no status yet; the status is written next.
CreateRoot ==
    /\ rootWork.pc = "create"
    /\ IF Exists(root)
       THEN RootReturn(FALSE) /\ UNCHANGED <<root, rootRV>>
       ELSE StoreRoot([NoRoot EXCEPT !.spec = rootWork.source.ver,
                                     !.intent = rootWork.source.intent], "status")
    /\ UNCHANGED <<vars, rootSeen, sourceSeen>>

\* The status follows if the one that was listed differs.
UpdateRoot ==
    /\ rootWork.pc = "update"
    /\ IF root.rv = rootWork.base
       THEN StoreRoot([root EXCEPT !.spec = rootWork.source.ver,
                                   !.intent = rootWork.source.intent],
                      IF SameStatus(root, rootWork.source) THEN "idle" ELSE "status")
       ELSE RootReturn(TRUE) /\ UNCHANGED <<root, rootRV>>
    /\ UNCHANGED <<vars, rootSeen, sourceSeen>>

UpdateRootStatus ==
    /\ rootWork.pc = "status"
    /\ IF root.rv = rootWork.base
       THEN StoreRoot([root EXCEPT !.status = rootWork.source.ver], "idle")
       ELSE RootReturn(TRUE) /\ UNCHANGED <<root, rootRV>>
    /\ UNCHANGED <<vars, rootSeen, sourceSeen>>

DeleteRoot ==
    /\ rootWork.pc = "delete"
    /\ root' = NoRoot
    /\ RootReturn(FALSE)
    /\ UNCHANGED <<vars, rootRV, rootSeen, sourceSeen>>

RootReconcile ==
    DecideRoot \/ CreateRoot \/ UpdateRoot \/ UpdateRootStatus \/ DeleteRoot

\* A call fails: the key comes back, and what the calls before it have written
\* stays.
FailRootCall ==
    /\ faults < MaxFaults
    /\ rootWork.pc \in {"create", "update", "status", "delete"}
    /\ RootReturn(TRUE)
    /\ faults' = faults + 1
    /\ UNCHANGED <<objects, controller, writes, intents, root, rootRV, rootSeen, sourceSeen>>

RestartRoot ==
    /\ faults < MaxFaults
    /\ rootWork' = IdleRoot
    /\ rootSeen' = root
    /\ sourceSeen' = copy
    /\ rootQueued' = TRUE
    /\ faults' = faults + 1
    /\ UNCHANGED <<objects, controller, writes, intents, root, rootRV>>

RootNext ==
    \/ Next /\ UNCHANGED rootVars
    \/ SyncRoot \/ SyncSource \/ RootReconcile \/ FailRootCall \/ RestartRoot

RootSpec ==
    /\ RootInit /\ [][RootNext]_allVars
    /\ WF_vars(SyncLocal) /\ WF_vars(SyncCopy) /\ WF_vars(Reconcile)
    /\ WF_allVars(SyncRoot) /\ WF_allVars(SyncSource) /\ WF_allVars(RootReconcile)

----------------------------------------------------------------------------
(* Properties.                                                             *)

\* The representation shows what the copy holds, the administrators' intent
\* included, in its spec and in its status, and there is none without a copy.
Represents ==
    IF Exists(copy) THEN Exists(root) /\ SameSpec(root, copy) /\ SameStatus(root, copy)
    ELSE ~Exists(root)

\* Whatever the order of the events of the two processes, and wherever one of
\* the two calls fails, the representation settles on the copy
\* (shardrepresentation_controller.go:195).
RepresentationConverges == <>[]Represents

=============================================================================
