---------------------------- MODULE APIBindings ----------------------------
(***************************************************************************)
(* One group/resource of one logical cluster, and everything on a shard    *)
(* that can own it: the APIBindings whose exports serve it and a           *)
(* CustomResourceDefinition of the workspace itself.                       *)
(*                                                                         *)
(* Who owns the resource is recorded as a lock in an annotation of the     *)
(* LogicalCluster.  Five parties work on it concurrently, each from the    *)
(* informers of the shard, which lag behind the API server:                *)
(*   - the apibinding controller takes the lock, creates the bound CRD of  *)
(*     the schema and writes the status of the binding;                    *)
(*   - the admission plugin of CustomResourceDefinitions takes the lock    *)
(*     for a CRD that is being created;                                    *)
(*   - the logicalclustercleanup controller releases what nobody holds;    *)
(*   - the crdcleanup controller deletes bound CRDs no binding uses;       *)
(*   - the apibindingdeletion controller deletes the instances of a        *)
(*     binding that is being deleted, or leaves them to a successor.       *)
(*                                                                         *)
(* One informer serves each kind of object, so what a lister shows is      *)
(* what the API server held at one moment in the past.  Exports and        *)
(* schemas do not change, and every one is found.                          *)
(***************************************************************************)
EXTENDS Naturals, FiniteSets

CONSTANTS
    Bindings,     \* the names of the APIBindings of the workspace
    Schemas,      \* the APIResourceSchemas serving the resource, by UID
    SchemaOf,     \* the schema the export of a binding serves it with
    Waits,        \* the bindings with deletionPolicy WaitForSuccessor
    Starts        \* who owns the resource at first, if anybody, and how often
                  \* users, time and crashes may do what they do

\* What users, time and crashes do.
Events == {"create", "delete", "instance", "crd", "deleteCRD", "age", "restart"}

ASSUME APIBindingsAssumption ==
    /\ SchemaOf \in [Bindings -> Schemas]
    /\ Waits \subseteq Bindings
    /\ Starts \subseteq [owner : Bindings \cup {"none"}, budget : [Events -> Nat]]

VARIABLES
    bindings,     \* the APIBindings, by name
    bindingsSeen, \* the APIBindings as the lister shows them
    current,      \* the bindings the lister shows in their latest version
    lock,         \* the lock of the resource, on the LogicalCluster
    lockSeen,     \* the lock as the lister of LogicalClusters shows it
    lockCurrent,  \* the lister shows the latest version of the LogicalCluster
    crds,         \* the bound CRDs by schema, and the CRD of the workspace
    crdsSeen,     \* the CRDs as the lister shows them
    instances,    \* the schemas that instances are stored under
    queue,        \* the keys of the apibinding controller
    deleteQueue,  \* the keys of the apibindingdeletion controller
    lockQueued,   \* the key of the logicalclustercleanup controller is queued
    lockWork,     \* what its worker is doing
    crdQueue,     \* the keys of the crdcleanup controller
    admitted,     \* a CRD of the workspace has passed admission
    heirs,        \* history: the live bindings of the same schema a binding had
                  \* when it was deleted, and has had ever since
    budget        \* what users, time and crashes may still do

bindingVars == <<bindings, bindingsSeen, current>>
lockVars    == <<lock, lockSeen, lockCurrent>>
crdVars     == <<crds, crdsSeen>>
cleanVars   == <<lockQueued, lockWork>>
vars == <<bindingVars, lockVars, crdVars, instances, queue, deleteQueue,
          cleanVars, crdQueue, admitted, heirs, budget>>

----------------------------------------------------------------------------
\* The CRD of the workspace for the resource, next to the bound ones.
Local == "local"

\* An APIBinding: its phase, whether status.boundResources lists the resource,
\* why BindingUpToDate is what it is, and BindingResourceDeleteSuccess.
DeleteStatus == {"none", "held", "ok"}
Status == [phase : {"", "Binding", "Bound"}, bound : BOOLEAN,
           why : {"none", "waiting", "conflict", "ok"}, del : DeleteStatus]
NoStatus == [phase |-> "", bound |-> FALSE, why |-> "none", del |-> "none"]
Binding == [exists : BOOLEAN, deleting : BOOLEAN, status : Status]
NoBinding == [exists |-> FALSE, deleting |-> FALSE, status |-> NoStatus]
BoundBinding == [exists |-> TRUE, deleting |-> FALSE,
                 status |-> [phase |-> "Bound", bound |-> TRUE, why |-> "ok", del |-> "none"]]

\* A lock: the annotation is missing, nobody's, a binding's, or a CRD's, with
\* or without an expiry.  The expiry is the time of the lock, so it has passed
\* whenever somebody looks.
Locks == Bindings \cup {"unset", "free", "crd", "crdExpiry"}

CRD == [state : {"absent", "new", "established", "terminating"}, old : BOOLEAN]
NoCRD == [state |-> "absent", old |-> FALSE]

\* The names of a CRD are accepted once it is established.
Accepted(crd) == crd.state \in {"established", "terminating"}

IdleLock == [pc |-> "idle", lock |-> "free", current |-> FALSE]

Live(bs)     == {b \in Bindings : bs[b].exists /\ ~bs[b].deleting}
Bound(bs)    == {b \in Bindings : bs[b].exists /\ bs[b].status.bound}
UsedBy(bs, s) == {b \in Bound(bs) : SchemaOf[b] = s}

\* Every variable has its type: the queues hold keys of the right kind, and a
\* lock belongs to somebody the annotation can name (Lock, ResourceBindingsAnnotation).
TypeOK ==
    /\ bindings \in [Bindings -> Binding]
    /\ bindingsSeen \in [Bindings -> Binding]
    /\ current \subseteq Bindings
    /\ lock \in Locks /\ lockSeen \in Locks /\ lockCurrent \in BOOLEAN
    /\ crds \in [Schemas \cup {Local} -> CRD]
    /\ crdsSeen \in [Schemas \cup {Local} -> CRD]
    /\ instances \subseteq Schemas
    /\ queue \subseteq Bindings
    /\ deleteQueue \subseteq Bindings
    /\ lockQueued \in BOOLEAN
    /\ lockWork \in [pc : {"idle", "clean"}, lock : Locks, current : BOOLEAN]
    /\ crdQueue \subseteq Schemas
    /\ admitted \in BOOLEAN
    /\ heirs \in [Bindings -> SUBSET Bindings]
    /\ budget \in [Events -> Nat]

\* A new LogicalCluster, or one in which a binding is bound and nothing is left to do.
Init ==
    \E start \in Starts :
        LET owner == start.owner IN
        /\ bindings = [b \in Bindings |-> IF b = owner THEN BoundBinding ELSE NoBinding]
        /\ bindingsSeen = bindings
        /\ current = Bindings
        /\ lock = IF owner \in Bindings THEN owner ELSE "unset"
        /\ lockSeen = lock /\ lockCurrent = TRUE
        /\ crds = [c \in Schemas \cup {Local} |->
                     IF owner \in Bindings /\ c = SchemaOf[owner]
                     THEN [NoCRD EXCEPT !.state = "established"] ELSE NoCRD]
        /\ crdsSeen = crds
        /\ instances = {}
        /\ queue = {}
        /\ deleteQueue = {}
        /\ lockQueued = (owner \notin Bindings) /\ lockWork = IdleLock
        /\ crdQueue = {}
        /\ admitted = FALSE
        /\ heirs = [b \in Bindings |-> {}]
        /\ budget = start.budget

Spend(event) ==
    /\ budget[event] > 0
    /\ budget' = [budget EXCEPT ![event] = @ - 1]

\* A binding is written: neither the lister nor a worker that read it before
\* has its latest version any more.
WriteBinding(b, new) ==
    /\ bindings' = [bindings EXCEPT ![b] = new]
    /\ current' = current \ {b}
    /\ UNCHANGED bindingsSeen

\* The annotation of the LogicalCluster is written.
WriteLock(new) ==
    /\ lock' = new
    /\ lockCurrent' = FALSE
    /\ UNCHANGED lockSeen

----------------------------------------------------------------------------
(* Users                                                                   *)

CreateBinding(b) ==
    /\ ~bindings[b].exists
    /\ Spend("create")
    /\ WriteBinding(b, [NoBinding EXCEPT !.exists = TRUE])
    /\ UNCHANGED <<lockVars, crdVars, instances, queue, deleteQueue, cleanVars,
                   crdQueue, admitted, heirs>>

\* The finalizer that admission put on the binding keeps it.
DeleteBinding(b) ==
    /\ b \in Live(bindings)
    /\ Spend("delete")
    /\ WriteBinding(b, [bindings[b] EXCEPT !.deleting = TRUE])
    /\ heirs' = [c \in Bindings |->
                   IF c = b THEN {d \in Live(bindings) \ {b} : SchemaOf[d] = SchemaOf[b]}
                   ELSE heirs[c] \ {b}]
    /\ UNCHANGED <<lockVars, crdVars, instances, queue, deleteQueue, cleanVars,
                   crdQueue, admitted>>

\* apiBindingAwareCRDLister serves the resource from a binding the lister shows
\* bound, unless that binding is being deleted.
CreateInstance(b) ==
    /\ b \in Bound(bindingsSeen) \cap Live(bindingsSeen)
    /\ crdsSeen[SchemaOf[b]].state = "established"
    /\ SchemaOf[b] \notin instances
    /\ Spend("instance")
    /\ instances' = instances \cup {SchemaOf[b]}
    /\ UNCHANGED <<bindingVars, lockVars, crdVars, queue, deleteQueue, cleanVars,
                   crdQueue, admitted, heirs>>

\* Validate: a CRD of the workspace is admitted when the resource is not locked
\* by a binding and the lock, with an expiry, could be written to the version
\* of the LogicalCluster that was read.
AdmitCRD ==
    /\ ~admitted
    /\ lockSeen \in {"free", "crd", "crdExpiry"}
    /\ lockCurrent
    /\ Spend("crd")
    /\ WriteLock("crdExpiry")
    /\ lockWork' = [lockWork EXCEPT !.current = FALSE]
    /\ admitted' = TRUE
    /\ UNCHANGED <<bindingVars, crdVars, instances, queue, deleteQueue, lockQueued,
                   crdQueue, heirs>>

\* The request goes on to create the CRD, or fails after all.
FinishCRD ==
    /\ admitted
    /\ admitted' = FALSE
    /\ \/ crds[Local].state = "absent" /\ crds' = [crds EXCEPT ![Local].state = "new"]
       \/ UNCHANGED crds
    /\ UNCHANGED <<bindingVars, lockVars, crdsSeen, instances, queue, deleteQueue,
                   cleanVars, crdQueue, heirs, budget>>

DeleteLocalCRD ==
    /\ crds[Local].state \in {"new", "established"}
    /\ Spend("deleteCRD")
    /\ crds' = [crds EXCEPT ![Local] = NoCRD]
    /\ UNCHANGED <<bindingVars, lockVars, crdsSeen, instances, queue, deleteQueue,
                   cleanVars, crdQueue, admitted, heirs>>

----------------------------------------------------------------------------
(* The API server's own controllers                                        *)

EstablishCRD(c) ==
    /\ crds[c].state = "new"
    /\ crds' = [crds EXCEPT ![c].state = "established"]
    /\ UNCHANGED <<bindingVars, lockVars, crdsSeen, instances, queue, deleteQueue,
                   cleanVars, crdQueue, admitted, heirs, budget>>

FinalizeCRD(c) ==
    /\ crds[c].state = "terminating"
    /\ crds' = [crds EXCEPT ![c] = NoCRD]
    /\ UNCHANGED <<bindingVars, lockVars, crdsSeen, instances, queue, deleteQueue,
                   cleanVars, crdQueue, admitted, heirs, budget>>

\* Time passes: a bound CRD reaches AgeThreshold.  So has the one the lister
\* shows, which is no younger.
AgeCRD(s) ==
    /\ crds[s].state # "absent" /\ ~crds[s].old
    /\ Spend("age")
    /\ crds' = [crds EXCEPT ![s].old = TRUE]
    /\ crdsSeen' = [crdsSeen EXCEPT ![s].old = (crdsSeen[s].state # "absent")]
    /\ UNCHANGED <<bindingVars, lockVars, instances, queue, deleteQueue, cleanVars,
                   crdQueue, admitted, heirs>>

----------------------------------------------------------------------------
(* Informers                                                               *)

\* Mutant: the cleanup of locks does not hear of bindings that go.
SyncBindings_OnlyAdded ==
    LET changed == {b \in Bindings : bindingsSeen[b] # bindings[b] \/ b \notin current}
        added   == {b \in changed : ~bindingsSeen[b].exists}
    IN  /\ changed # {}
        /\ bindingsSeen' = bindings
        /\ current' = Bindings
        /\ queue' = queue \cup changed
        /\ deleteQueue' = deleteQueue \cup {b \in changed : bindings[b].deleting}
        /\ lockQueued' = (lockQueued \/ added # {})
        /\ crdQueue' = crdQueue \cup
               {SchemaOf[b] : b \in (changed \ added) \cap (Bound(bindings) \cup Bound(bindingsSeen))}
        /\ UNCHANGED <<bindings, lockVars, crdVars, instances, lockWork, admitted, heirs, budget>>

\* The APIBinding handlers of the four controllers.  The cleanup of locks hears
\* of bindings that come and go, the cleanup of CRDs of those that change or go.
SyncBindings ==
    LET changed == {b \in Bindings : bindingsSeen[b] # bindings[b] \/ b \notin current}
        added   == {b \in changed : ~bindingsSeen[b].exists}
        gone    == {b \in changed : ~bindings[b].exists}
    IN  /\ changed # {}
        /\ bindingsSeen' = bindings
        /\ current' = Bindings
        /\ queue' = queue \cup changed
        /\ deleteQueue' = deleteQueue \cup {b \in changed : bindings[b].deleting}
        /\ lockQueued' = (lockQueued \/ added \cup gone # {})
        /\ crdQueue' = crdQueue \cup
               {SchemaOf[b] : b \in (changed \ added) \cap (Bound(bindings) \cup Bound(bindingsSeen))}
        /\ UNCHANGED <<bindings, lockVars, crdVars, instances, lockWork, admitted, heirs, budget>>

\* Mutant: a changed annotation does not queue the bindings.
SyncLock_NoBindings ==
    /\ ~lockCurrent
    /\ lockSeen' = lock
    /\ lockCurrent' = TRUE
    /\ lockQueued' = TRUE
    /\ UNCHANGED <<bindingVars, lock, crdVars, instances, queue, deleteQueue, lockWork,
                   crdQueue, admitted, heirs, budget>>

\* The LogicalCluster handlers: a changed annotation queues every binding.
SyncLock ==
    /\ ~lockCurrent
    /\ lockSeen' = lock
    /\ lockCurrent' = TRUE
    /\ queue' = IF lock # lockSeen
                THEN queue \cup {b \in Bindings : bindingsSeen[b].exists} ELSE queue
    /\ lockQueued' = TRUE
    /\ UNCHANGED <<bindingVars, lock, crdVars, instances, deleteQueue, lockWork,
                   crdQueue, admitted, heirs, budget>>

\* The CRD handlers: a bound CRD queues the bindings of its schema, a CRD of
\* the workspace its LogicalCluster.
SyncCRDs ==
    LET changed == {c \in DOMAIN crds : crdsSeen[c] # crds[c]}
    IN  /\ changed # {}
        /\ crdsSeen' = crds
        /\ queue' = queue \cup {b \in Bindings : bindingsSeen[b].exists /\ SchemaOf[b] \in changed}
        /\ crdQueue' = crdQueue \cup (changed \ {Local})
        /\ lockQueued' = (lockQueued \/ Local \in changed)
        /\ UNCHANGED <<bindingVars, lockVars, crds, instances, deleteQueue, lockWork, admitted, heirs, budget>>

----------------------------------------------------------------------------
(* The apibinding controller                                               *)

\* commit: a changed status is applied to the binding of that name, whatever
\* has happened to it since it was read.  The key comes back when "again" says
\* so, or when the binding is gone.
Commit(b, old, new, again) ==
    /\ IF old # new /\ bindings[b].exists
       THEN WriteBinding(b, [bindings[b] EXCEPT !.status = new])
       ELSE UNCHANGED bindingVars
    /\ queue' = IF again \/ (old # new /\ ~bindings[b].exists)
                THEN queue \cup {b} ELSE queue \ {b}

\* WithLockedResources: the resource can be locked by b.
Lockable(b) ==
    \/ lockSeen \in {"free", b}
    \/ lockSeen = "crdExpiry" /\ crdsSeen[Local].state = "absent"

\* conflictChecker: the names of b conflict with those of the workspace's CRD,
\* or of a bound CRD that is held against another binding.  Of several bindings
\* bound to one CRD it is held against the one listed last.
Conflicts(b) ==
    {Accepted(crdsSeen[Local]) \/
     \E s \in Schemas : Accepted(crdsSeen[s]) /\ UsedBy(bindingsSeen, s) # {} /\ last[s] # b :
         last \in {f \in [Schemas -> Bindings] :
                     \A s \in Schemas : UsedBy(bindingsSeen, s) # {} => f[s] \in UsedBy(bindingsSeen, s)}}

\* reconcile of a binding that does not get the lock: a new one only enters phase
\* Binding, the others report a conflict.
Skip(b) ==
    LET old == bindingsSeen[b].status IN
    /\ b \in queue
    /\ IF ~bindingsSeen[b].exists THEN UNCHANGED bindingVars /\ queue' = queue \ {b}
       ELSE IF old.phase = "" THEN Commit(b, old, [old EXCEPT !.phase = "Binding"], TRUE)
       ELSE /\ ~Lockable(b)
            /\ Commit(b, old, [old EXCEPT !.why = "conflict"], lockSeen = "unset")
    /\ UNCHANGED <<lockVars, crdVars, instances, deleteQueue, cleanVars, crdQueue,
                   admitted, heirs, budget>>

\* reconcile of one that gets it.  updateLogicalCluster is a forced server-side
\* apply of the annotation, without a resource version.  Then the names are
\* checked, and the bound CRD is created when the lister does not show it.
Bind(b) ==
    LET old == bindingsSeen[b].status
        s   == SchemaOf[b]
        crd == crdsSeen[s].state
    IN  /\ b \in queue /\ bindingsSeen[b].exists /\ old.phase # ""
        /\ Lockable(b)
        /\ IF lockSeen = b THEN UNCHANGED <<lockVars, lockWork>>
           ELSE WriteLock(b) /\ lockWork' = [lockWork EXCEPT !.current = FALSE]
        /\ \E conflict \in Conflicts(b) :
             LET create == ~conflict /\ crd = "absent"
                 failed == create /\ crds[s].state # "absent"
                 why == IF conflict THEN "conflict"
                        ELSE IF crd # "established" THEN "waiting" ELSE "ok"
                 new == IF why = "ok" THEN [old EXCEPT !.why = why, !.bound = TRUE, !.phase = "Bound"]
                        ELSE [old EXCEPT !.why = why]
             IN  /\ crds' = IF create /\ ~failed THEN [crds EXCEPT ![s].state = "new"] ELSE crds
                 /\ Commit(b, old, new, conflict \/ failed)
        /\ UNCHANGED <<crdsSeen, instances, deleteQueue, lockQueued, crdQueue, admitted, heirs, budget>>

----------------------------------------------------------------------------
(* The logicalclustercleanup controller                                    *)

\* The LogicalCluster is read first, the bindings and CRDs after it.
StartCleanup ==
    /\ lockQueued /\ lockWork.pc = "idle"
    /\ lockQueued' = FALSE
    /\ lockWork' = [pc |-> "clean", lock |-> lockSeen, current |-> lockCurrent]
    /\ UNCHANGED <<bindingVars, lockVars, crdVars, instances, queue, deleteQueue,
                   crdQueue, admitted, heirs, budget>>

\* What the lock is to become: rebuilt from the bindings when it was never set,
\* free when its binding is gone, the CRD's when nobody has it.
Cleaned(l) ==
    LET held == IF l = "unset" THEN (IF Bound(bindingsSeen) = {} THEN {"free"} ELSE Bound(bindingsSeen))
                ELSE IF l \in Bindings /\ ~bindingsSeen[l].exists THEN {"free"} ELSE {l}
        withCRD(h) == IF h = "free" /\ Accepted(crdsSeen[Local]) THEN "crd" ELSE h
        expired(h) == IF h \in {"crd", "crdExpiry"}
                      THEN (IF crdsSeen[Local].state = "absent" THEN "free" ELSE "crd") ELSE h
    IN  {expired(withCRD(h)) : h \in held}

\* A changed annotation is written to the version that was read, or not at all.
Clean ==
    /\ lockWork.pc = "clean"
    /\ \E l \in Cleaned(lockWork.lock) :
          IF l = lockWork.lock THEN UNCHANGED <<lockVars, lockQueued>>
          ELSE IF lockWork.current THEN WriteLock(l) /\ UNCHANGED lockQueued
          ELSE UNCHANGED lockVars /\ lockQueued' = TRUE
    /\ lockWork' = IdleLock
    /\ UNCHANGED <<bindingVars, crdVars, instances, queue, deleteQueue, crdQueue,
                   admitted, heirs, budget>>

----------------------------------------------------------------------------
(* The crdcleanup controller                                               *)

\* A bound CRD that the lister shows, that no binding lists and that is old
\* enough is deleted, by name; a younger one is looked at again later.
CleanCRD(s) ==
    LET unused == crdsSeen[s].state # "absent" /\ UsedBy(bindingsSeen, s) = {} IN
    /\ s \in crdQueue
    /\ unused => crdsSeen[s].old
    /\ crdQueue' = crdQueue \ {s}
    /\ crds' = IF unused /\ crds[s].state # "absent"
               THEN [crds EXCEPT ![s].state = "terminating"] ELSE crds
    /\ UNCHANGED <<bindingVars, lockVars, crdsSeen, instances, queue, deleteQueue, cleanVars,
                   admitted, heirs, budget>>

----------------------------------------------------------------------------
(* The apibindingdeletion controller                                       *)

\* Mutant: only a binding that is already bound adopts the instances.
Retention_BoundOnly(b) ==
    IF ~bindingsSeen[b].status.bound THEN "keep"
    ELSE IF \E c \in Live(bindingsSeen) \ {b} : c \in UsedBy(bindingsSeen, SchemaOf[b]) THEN "keep"
    ELSE IF b \in Waits THEN "wait"
    ELSE "delete"

\* retainedResources: what is to happen to the instances.  Any other live
\* binding of the same schema adopts them, bound or not.
Retention(b) ==
    IF ~bindingsSeen[b].status.bound THEN "keep"
    ELSE IF \E c \in Live(bindingsSeen) \ {b} : SchemaOf[c] = SchemaOf[b] THEN "keep"
    ELSE IF b \in Waits THEN "wait"
    ELSE "delete"

\* Mutant: the key of a deletion that has to wait is forgotten.
Delete_ForgetKey(b) ==
    LET s     == SchemaOf[b]
        kind  == Retention(b)
        held  == kind # "keep" /\ (~Accepted(crds[s]) \/ s \in instances)
        old   == bindingsSeen[b].status.del
        new   == IF held THEN "held" ELSE "ok"
        final == b \in current /\ old = "ok" /\ new = "ok"
    IN  /\ b \in deleteQueue
        /\ deleteQueue' = deleteQueue \ {b}
        /\ IF ~bindingsSeen[b].deleting
           THEN UNCHANGED <<bindingVars, instances>>
           ELSE /\ instances' = IF kind = "delete" /\ Accepted(crds[s])
                                THEN instances \ {s} ELSE instances
                /\ IF final THEN WriteBinding(b, NoBinding)
                   ELSE IF b \in current /\ new # old
                        THEN WriteBinding(b, [bindings[b] EXCEPT !.status.del = new])
                   ELSE UNCHANGED bindingVars
        /\ UNCHANGED <<lockVars, crdVars, queue, cleanVars, crdQueue, admitted, heirs, budget>>

\* process: deleteAllCRs, then the status, then the finalizer.  Instances that
\* were there are reported as remaining, even though they have just been
\* deleted, and cannot be listed without their CRD.  The status goes only to the
\* version that was read, and the finalizer with the same version, so it stays
\* when the status has changed.  The binding is gone without it.
Delete(b) ==
    LET s     == SchemaOf[b]
        kind  == Retention(b)
        held  == kind # "keep" /\ (~Accepted(crds[s]) \/ s \in instances)
        old   == bindingsSeen[b].status.del
        new   == IF held THEN "held" ELSE "ok"
        final == b \in current /\ old = "ok" /\ new = "ok"
    IN  /\ b \in deleteQueue
        /\ IF ~bindingsSeen[b].deleting
           THEN /\ deleteQueue' = deleteQueue \ {b}
                /\ UNCHANGED <<bindingVars, instances>>
           ELSE /\ deleteQueue' = IF final THEN deleteQueue \ {b} ELSE deleteQueue
                /\ instances' = IF kind = "delete" /\ Accepted(crds[s])
                                THEN instances \ {s} ELSE instances
                /\ IF final THEN WriteBinding(b, NoBinding)
                   ELSE IF b \in current /\ new # old
                        THEN WriteBinding(b, [bindings[b] EXCEPT !.status.del = new])
                   ELSE UNCHANGED bindingVars
        /\ UNCHANGED <<lockVars, crdVars, queue, cleanVars, crdQueue, admitted, heirs, budget>>

----------------------------------------------------------------------------
\* The shard restarts: its workers are gone, its informers list anew, and every
\* object listed is put on the queues.
Restart ==
    /\ Spend("restart")
    /\ bindingsSeen' = bindings /\ current' = Bindings
    /\ lockSeen' = lock /\ lockCurrent' = TRUE
    /\ crdsSeen' = crds
    /\ queue' = {b \in Bindings : bindings[b].exists}
    /\ deleteQueue' = {b \in Bindings : bindings[b].deleting}
    /\ lockQueued' = TRUE /\ lockWork' = IdleLock
    /\ crdQueue' = {s \in Schemas : crds[s].state # "absent"}
    /\ admitted' = FALSE
    /\ UNCHANGED <<bindings, lock, crds, instances, heirs>>

User ==
    \/ \E b \in Bindings : CreateBinding(b) \/ DeleteBinding(b) \/ CreateInstance(b)
    \/ AdmitCRD \/ DeleteLocalCRD

BindingController(b) == Skip(b) \/ Bind(b)
LockController == StartCleanup \/ Clean
APIServer(c) == EstablishCRD(c) \/ FinalizeCRD(c)

Next ==
    \/ User \/ FinishCRD \/ Restart
    \/ \E s \in Schemas : AgeCRD(s) \/ CleanCRD(s)
    \/ \E c \in Schemas \cup {Local} : APIServer(c)
    \/ SyncBindings \/ SyncLock \/ SyncCRDs
    \/ \E b \in Bindings : BindingController(b) \/ Delete(b)
    \/ LockController

Spec == Init /\ [][Next]_vars

\* Every informer delivers, every queued key is worked on and every call
\* returns; the API server establishes and finalizes CRDs.
Fairness ==
    /\ WF_vars(SyncBindings) /\ WF_vars(SyncLock) /\ WF_vars(SyncCRDs)
    /\ WF_vars(FinishCRD) /\ WF_vars(LockController)
    /\ \A b \in Bindings : WF_vars(BindingController(b)) /\ WF_vars(Delete(b))
    /\ \A s \in Schemas : WF_vars(CleanCRD(s))
    /\ \A c \in Schemas \cup {Local} : WF_vars(APIServer(c))

FairSpec == Spec /\ Fairness

----------------------------------------------------------------------------
\* Whoever holds the lock is there.
LockHeld ==
    /\ lock \in Bindings => bindings[lock].exists
    /\ lock \in {"crd", "crdExpiry"} => crds[Local].state # "absent"

\* A lock never outlives its holder for good: once users are done, the lock is
\* free or its binding or CRD exists.  The lock is written without a version by
\* one controller (updateLogicalCluster) from a stale lister, so it can come back
\* after its binding is gone, and logicalclustercleanup has to notice.
LocksSettle == <>[]LockHeld

\* No binding is there to be served, the workspace has its own CRD, or a binding
\* is bound to an established bound CRD.
Served ==
    \/ Live(bindings) = {}
    \/ crds[Local].state # "absent"
    \/ \E b \in Bound(bindings) :
          bindings[b].status.phase = "Bound" /\ crds[SchemaOf[b]].state = "established"

\* Once users are done, a resource that bindings want is served: the lock left
\* by a binding or CRD that is gone, a lock taken for a CRD that never came, and
\* a bound CRD that crdcleanup deleted under the reconciler do not keep every
\* binding from it.
ResourceIsServed == <>[]Served

\* Once users are done, the deletion of a binding finishes, unless its instances
\* wait for a successor (WaitForSuccessor) and no live binding of the schema is
\* there.  Status writes of the apibinding controller make the versioned ones of
\* apibindingdeletion fail.  Two bindings bound to one CRD are left out: the
\* conflict checker holds it against either, and their status need not settle.
DeletionsFinish ==
    <>[](\A b \in Bindings : bindings[b].deleting =>
            \/ UsedBy(bindings, SchemaOf[b]) \ {b} # {}
            \/ /\ b \in Waits /\ SchemaOf[b] \in instances
               /\ \A c \in Live(bindings) : SchemaOf[c] # SchemaOf[b])

\* Instances are deleted only for a binding that was alone when it was deleted, or
\* whose heirs were deleted since: successorFor takes any live binding of the
\* same schema, and the lister that shows the deletion shows them too.
HeirsKeepInstances ==
    [][\A s \in instances \ instances' :
          \E b \in Bindings : bindings[b].deleting /\ SchemaOf[b] = s /\ heirs[b] = {}]_vars
============================================================================
