---------------------------- MODULE Replication ----------------------------
(***************************************************************************)
(* One object of a shard and its copy on the cache server.                 *)
(*                                                                         *)
(* The replication controller of the shard (pkg/reconciler/cache/          *)
(* replication) copies the object to the cache server.  A few fields, the  *)
(* cache-owned ones, flow the other way: an administrator writes them to   *)
(* the copy through the Admin workspace (pkg/virtual/admin), and the       *)
(* controller carries them to the object.  On the root shard a second      *)
(* controller (pkg/reconciler/core/shardrepresentation) mirrors the copy   *)
(* of a Shard into the root workspace.                                     *)
(*                                                                         *)
(* The keys of a controller's queue are independent of one another and a   *)
(* key is handled by one worker at a time, so one object is enough.        *)
(*                                                                         *)
(* An object is a record.  "ver" stands for all the content that the shard *)
(* owns: it is the resource version at which that content was last         *)
(* written, so that an older content has a smaller version.  "intent"      *)
(* stands for the cache-owned fields, their absence included.              *)
(***************************************************************************)
EXTENDS Naturals

CONSTANTS
    Intents,       \* values of the cache-owned fields
    MaxWrites,     \* bound: writes and deletions of the object by its owner
    MaxIntents,    \* bound: writes of the cache-owned fields by administrators
    MaxFaults      \* bound: failed calls and restarts of the controllers

ASSUME ReplicationAssumption ==
    /\ Intents # {}
    /\ MaxWrites \in Nat /\ MaxIntents \in Nat /\ MaxFaults \in Nat

VARIABLES
    local,         \* the object on the shard
    copy,          \* the copy on the cache server
    localSeen,     \* the object in the shard's lister of its own objects
    copySeen,      \* the copy in the shard's lister of the cache server
    queued,        \* whether the queue holds the key
    work,          \* the reconciliation in progress
    localRV,       \* newest resource version of the shard's storage
    copyRV,        \* newest resource version of the cache server's storage
    writes,        \* owner's writes so far
    intents,       \* administrators' writes so far
    faults         \* faults so far

objects == <<local, copy, localRV, copyRV>>
listers == <<localSeen, copySeen>>
controller == <<listers, queued, work>>
bounds == <<writes, intents, faults>>
vars == <<objects, controller, bounds>>

Object == [rv: Nat, ver: Nat, intent: Intents, finalizers: BOOLEAN,
           deleting: BOOLEAN, replicated: BOOLEAN]

\* An object that does not exist: the resource version of one that does is
\* never 0.
Gone == [rv |-> 0, ver |-> 0, intent |-> CHOOSE i \in Intents : TRUE,
         finalizers |-> FALSE, deleting |-> FALSE, replicated |-> FALSE]

Exists(o) == o.rv # 0

\* getLocalCopy: an object that the filter of its resource leaves out (no
\* replicate annotation, the representation of another shard) counts as gone.
Filtered(o) == IF o.replicated THEN o ELSE Gone

Idle == [pc |-> "idle", l |-> Gone, g |-> Gone]

Steps == {"idle", "delete", "create", "updateLocal", "updateCopy"}

\* The state is made of objects, listers and one reconciliation.
TypeOK ==
    /\ local \in Object /\ copy \in Object
    /\ localSeen \in Object /\ copySeen \in Object
    /\ queued \in BOOLEAN
    /\ work \in [pc: Steps, l: Object, g: Object]
    /\ localRV \in Nat /\ copyRV \in Nat
    /\ writes \in Nat /\ intents \in Nat /\ faults \in Nat

Init ==
    /\ local = Gone /\ copy = Gone
    /\ localSeen = Gone /\ copySeen = Gone
    /\ queued = FALSE
    /\ work = Idle
    /\ localRV = 0 /\ copyRV = 0
    /\ writes = 0 /\ intents = 0 /\ faults = 0

----------------------------------------------------------------------------
(* The owner of the object, on the shard.                                  *)

\* Create the object, or write new content to it.  The owner may touch the
\* cache-owned fields, the finalizers and the replicate annotation as well.
WriteLocal(i, f, r) ==
    /\ writes < MaxWrites
    /\ ~local.deleting
    /\ local' = [rv |-> localRV + 1, ver |-> localRV + 1, intent |-> i,
                 finalizers |-> f, deleting |-> FALSE, replicated |-> r]
    /\ localRV' = localRV + 1
    /\ writes' = writes + 1
    /\ UNCHANGED <<copy, copyRV, controller, intents, faults>>

\* A deletion of an object with finalizers only marks it.
Deleted(o, rv) ==
    IF o.finalizers THEN [o EXCEPT !.deleting = TRUE, !.rv = rv] ELSE Gone

DeleteLocal ==
    /\ writes < MaxWrites
    /\ Exists(local) /\ ~local.deleting
    /\ local' = Deleted(local, localRV + 1)
    /\ localRV' = localRV + 1
    /\ writes' = writes + 1
    /\ UNCHANGED <<copy, copyRV, controller, intents, faults>>

\* The last finalizer of an object that is being deleted is removed.
FinalizeLocal ==
    /\ local.deleting
    /\ local' = Gone
    /\ UNCHANGED <<copy, localRV, copyRV, controller, bounds>>

----------------------------------------------------------------------------
(* An administrator, through the shards view of the Admin workspace: the   *)
(* copy is read from the cache server, everything but the mutable fields   *)
(* has to be as it is there, and the write carries its resource version.   *)

\* The object o with the cache-owned fields i, stored at rv.
WithIntent(o, i, rv) == [o EXCEPT !.intent = i, !.rv = rv]

WriteIntent(i) ==
    /\ intents < MaxIntents
    /\ Exists(copy)
    /\ i # copy.intent
    /\ copy' = WithIntent(copy, i, copyRV + 1)
    /\ copyRV' = copyRV + 1
    /\ intents' = intents + 1
    /\ UNCHANGED <<local, localRV, controller, writes, faults>>

----------------------------------------------------------------------------
(* Informers.  A lister lags behind by any number of changes; what it      *)
(* delivers puts the key on the queue.                                     *)

SyncLocal ==
    /\ localSeen # local
    /\ localSeen' = local
    /\ queued' = TRUE
    /\ UNCHANGED <<objects, copySeen, work, bounds>>

SyncCopy ==
    /\ copySeen # copy
    /\ copySeen' = copy
    /\ queued' = TRUE
    /\ UNCHANGED <<objects, localSeen, work, bounds>>

----------------------------------------------------------------------------
(* The replication controller.                                             *)

\* reconcile: which call the two reads lead to.
Decision(l, g) ==
    IF ~Exists(l) \/ l.deleting
    THEN IF Exists(g) /\ ~(Exists(l) /\ l.finalizers) THEN "delete" ELSE "idle"
    ELSE IF ~Exists(g) THEN "create"
    ELSE IF l.intent # g.intent THEN "updateLocal" ELSE "updateCopy"

\* A worker takes the key, reads the object and the copy, and decides.  The
\* copy is read a little later than the object; a lister that lags until the
\* worker has decided gives it the same values.
Decide ==
    /\ queued /\ work.pc = "idle"
    /\ queued' = FALSE
    /\ LET l == Filtered(localSeen)
           next == Decision(l, copySeen)
       IN  work' = IF next = "idle" THEN Idle
                   ELSE [pc |-> next, l |-> l, g |-> copySeen]
    /\ UNCHANGED <<objects, listers, bounds>>

\* The call returned: without an error the key is done with, an error puts
\* it back on the queue.
Return(err) ==
    /\ work' = Idle
    /\ queued' = (queued \/ err)
    /\ UNCHANGED <<listers, bounds>>

\* Delete the copy, whatever its resource version is by now.
DeleteCopy ==
    /\ work.pc = "delete"
    /\ IF Exists(copy) /\ ~copy.deleting
       THEN copy' = Deleted(copy, copyRV + 1) /\ copyRV' = copyRV + 1
       ELSE UNCHANGED <<copy, copyRV>>
    /\ Return(FALSE)
    /\ UNCHANGED <<local, localRV>>

\* What the copy is to hold of the object l.
Content(l, rv) == [l EXCEPT !.rv = rv]

\* Create the copy; that there is one already is no error.
CreateCopy ==
    /\ work.pc = "create"
    /\ IF Exists(copy)
       THEN UNCHANGED <<copy, copyRV>>
       ELSE copy' = Content(work.l, copyRV + 1) /\ copyRV' = copyRV + 1
    /\ Return(FALSE)
    /\ UNCHANGED <<local, localRV>>

\* Mutant: the object is written whatever its version.
UpdateLocal_AnyVersion ==
    /\ work.pc = "updateLocal"
    /\ IF Exists(local)
       THEN /\ local' = WithIntent(work.l, work.g.intent, localRV + 1)
            /\ localRV' = localRV + 1
       ELSE UNCHANGED <<local, localRV>>
    /\ Return(~Exists(local))
    /\ UNCHANGED <<copy, copyRV>>

\* syncCacheOwnedFields: the cache-owned fields of the copy go to the object,
\* unless it has changed since it was read.
UpdateLocal ==
    /\ work.pc = "updateLocal"
    /\ IF local.rv = work.l.rv
       THEN /\ local' = WithIntent(work.l, work.g.intent, localRV + 1)
            /\ localRV' = localRV + 1
            /\ Return(FALSE)
       ELSE /\ UNCHANGED <<local, localRV>>
            /\ Return(TRUE)
    /\ UNCHANGED <<copy, copyRV>>

\* ensureMeta, ensureRemaining: the copy as the object wants it.  It keeps the
\* resource version it was read at, which the cache server compares with the
\* stored one.  A copy that is being deleted stays so, and goes when the
\* object's content takes its finalizers away.  Writing what is there already
\* changes nothing.
UpdatedCopy ==
    LET new == [Content(work.l, copyRV + 1) EXCEPT !.deleting = copy.deleting]
    IN  IF new.deleting /\ ~new.finalizers THEN Gone
        ELSE IF Content(new, copy.rv) = copy THEN copy ELSE new

\* Mutant: the copy is written whatever its version.
UpdateCopy_AnyVersion ==
    /\ work.pc = "updateCopy"
    /\ IF Exists(copy)
       THEN /\ copy' = UpdatedCopy
            /\ copyRV' = IF UpdatedCopy = copy THEN copyRV ELSE copyRV + 1
       ELSE UNCHANGED <<copy, copyRV>>
    /\ Return(~Exists(copy))
    /\ UNCHANGED <<local, localRV>>

UpdateCopy ==
    /\ work.pc = "updateCopy"
    /\ IF copy.rv = work.g.rv
       THEN /\ copy' = UpdatedCopy
            /\ copyRV' = IF UpdatedCopy = copy THEN copyRV ELSE copyRV + 1
            /\ Return(FALSE)
       ELSE /\ UNCHANGED <<copy, copyRV>>
            /\ Return(TRUE)
    /\ UNCHANGED <<local, localRV>>

Reconcile ==
    Decide \/ DeleteCopy \/ CreateCopy \/ UpdateLocal \/ UpdateCopy

\* Mutant: the key of a failed call is forgotten.
FailCall_ForgetKey ==
    /\ faults < MaxFaults
    /\ work.pc \in {"delete", "create", "updateLocal", "updateCopy"}
    /\ work' = Idle
    /\ faults' = faults + 1
    /\ UNCHANGED <<objects, listers, queued, writes, intents>>

\* A call fails and its key comes back.
FailCall ==
    /\ faults < MaxFaults
    /\ work.pc \in {"delete", "create", "updateLocal", "updateCopy"}
    /\ work' = Idle
    /\ queued' = TRUE
    /\ faults' = faults + 1
    /\ UNCHANGED <<objects, listers, writes, intents>>

\* The shard restarts: its informers list anew before the workers start, and
\* every object listed is put on the queue.
Restart ==
    /\ faults < MaxFaults
    /\ work' = Idle
    /\ localSeen' = local
    /\ copySeen' = copy
    /\ queued' = (Exists(local) \/ Exists(copy))
    /\ faults' = faults + 1
    /\ UNCHANGED <<objects, writes, intents>>

----------------------------------------------------------------------------
Owner ==
    \/ \E i \in Intents, f, r \in BOOLEAN : WriteLocal(i, f, r)
    \/ DeleteLocal
    \/ FinalizeLocal

Administrator == \E i \in Intents : WriteIntent(i)

Next == Owner \/ Administrator \/ SyncLocal \/ SyncCopy \/ Reconcile
        \/ FailCall \/ Restart

Spec == Init /\ [][Next]_vars

\* The informers deliver and the workers run; nobody has to write.
FairSpec == Spec /\ WF_vars(SyncLocal) /\ WF_vars(SyncCopy) /\ WF_vars(Reconcile)

----------------------------------------------------------------------------
(* Properties.                                                             *)

\* What an administrator has written to the copy stays until another
\* administrator changes it or the copy goes: no step of the controller, of
\* the owner or of the informers changes it, however stale the objects are
\* that the controller decides on (replication_reconcile.go:209).
IntentIsKept ==
    [][(Exists(copy) /\ Exists(copy') /\ copy'.intent # copy.intent)
        => intents' # intents]_vars

\* The content of a copy is never replaced by older content of the object
\* (replication_reconcile.go:228).
NeverGoesBack ==
    [][Exists(copy) /\ Exists(copy') => copy'.ver >= copy.ver]_vars

Wanted == Exists(local) /\ local.replicated /\ ~local.deleting

\* Once nobody writes any more, an object that is to be replicated and its
\* copy agree in everything, with the intent of the copy.
Agree ==
    Wanted => /\ Exists(copy)
              /\ copy.ver = local.ver /\ copy.intent = local.intent
              /\ copy.finalizers = local.finalizers

\* An object that is gone, or not to be replicated, has no copy, or one that
\* is being deleted and waits for a finalizer.
NoLeftover ==
    ~Exists(local) \/ ~local.replicated => ~Exists(copy) \/ (copy.deleting /\ copy.finalizers)

\* All changes come to an end, and the two sides settle.
Converges == <>[](Agree /\ NoLeftover)
=============================================================================
