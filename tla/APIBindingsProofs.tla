-------------------------- MODULE APIBindingsProofs --------------------------
(***************************************************************************)
(* Proofs for APIBindings, for any bindings, schemas, policies and budgets: *)
(* instances survive as long as a live binding inherits them.              *)
(***************************************************************************)
EXTENDS APIBindings, TLAPS

----------------------------------------------------------------------------
(* The inductive invariant.                                                *)

\* The deletion controller works on bindings that are being deleted: a key it has
\* finished is not queued again for a binding of the same name that is alive.
QueueInv ==
    /\ \A b \in Bindings : bindings[b].deleting => bindings[b].exists
    /\ \A b \in deleteQueue : bindings[b].deleting

\* The heirs of a binding are alive, and whoever sees the deletion sees them.
HeirsInv ==
    \A b \in Bindings :
        /\ bindings[b].deleting =>
             \A d \in heirs[b] : d # b /\ SchemaOf[d] = SchemaOf[b] /\ d \in Live(bindings)
        /\ b \in deleteQueue /\ bindingsSeen[b].deleting => heirs[b] \subseteq Live(bindingsSeen)

IInv == TypeOK /\ QueueInv /\ HeirsInv

\* What NoBinding and its like are.
LEMMA ConstantTypes ==
    /\ NoBinding \in Binding /\ ~NoBinding.deleting /\ ~NoBinding.exists
    /\ NoCRD \in CRD /\ IdleLock \in [pc : {"idle", "clean"}, lock : Locks, current : BOOLEAN]
  BY DEF NoBinding, Binding, NoStatus, Status, DeleteStatus, NoCRD, CRD, IdleLock, Locks

\* The invariant holds at first.
LEMMA InitEstablishes == Init => IInv
<1> SUFFICES ASSUME Init PROVE IInv
  OBVIOUS
<1>1. PICK start \in Starts :
        /\ bindings = [b \in Bindings |-> IF b = start.owner THEN BoundBinding ELSE NoBinding]
        /\ bindingsSeen = bindings
        /\ lock = IF start.owner \in Bindings THEN start.owner ELSE "unset"
        /\ crds = [c \in Schemas \cup {Local} |->
                     IF start.owner \in Bindings /\ c = SchemaOf[start.owner]
                     THEN [NoCRD EXCEPT !.state = "established"] ELSE NoCRD]
        /\ crdsSeen = crds
        /\ lockQueued = (start.owner \notin Bindings)
        /\ budget = start.budget
  BY DEF Init
<1>2. start.budget \in [Events -> Nat]
  BY APIBindingsAssumption
<1>3. BoundBinding \in Binding /\ ~BoundBinding.deleting /\ [NoCRD EXCEPT !.state = "established"] \in CRD
  BY Zenon DEF BoundBinding, Binding, Status, DeleteStatus, NoCRD, CRD
<1>4. /\ current = Bindings /\ lockSeen = lock /\ lockCurrent = TRUE /\ instances = {}
      /\ queue = {} /\ deleteQueue = {} /\ lockWork = IdleLock /\ crdQueue = {}
      /\ admitted = FALSE /\ heirs = [b \in Bindings |-> {}]
  BY DEF Init
<1>5. bindings \in [Bindings -> Binding] /\ crds \in [Schemas \cup {Local} -> CRD]
  BY <1>1, <1>3, ConstantTypes
<1>6. lock \in Locks /\ lockQueued \in BOOLEAN
  BY <1>1 DEF Locks
<1>7. TypeOK
  BY Zenon, <1>1, <1>2, <1>4, <1>5, <1>6, ConstantTypes DEF TypeOK
<1>8. \A b \in Bindings : ~bindings[b].deleting
  BY <1>1, <1>3, ConstantTypes
<1>9. QueueInv /\ HeirsInv
  BY <1>4, <1>8 DEF QueueInv, HeirsInv
<1> QED
  BY <1>7, <1>9 DEF IInv

\* The budget keeps its type.
LEMMA SpendFacts ==
    ASSUME TypeOK, NEW e \in Events, Spend(e)
    PROVE  budget' \in [Events -> Nat]
<1>1. budget[e] \in Nat /\ budget[e] > 0
  BY DEF Spend, TypeOK
<1>2. budget[e] - 1 \in Nat
  BY <1>1
<1> QED
  BY <1>2 DEF Spend, TypeOK

\* The names of the events.
LEMMA EventNames ==
    /\ "create" \in Events /\ "delete" \in Events /\ "instance" \in Events /\ "crd" \in Events
    /\ "deleteCRD" \in Events /\ "age" \in Events /\ "restart" \in Events
  BY DEF Events

\* A step that leaves the bindings, the lister, the heirs and the queue of the
\* deletion controller alone keeps what is said of them.
LEMMA BindingsStay ==
    ASSUME IInv, UNCHANGED <<bindings, bindingsSeen, heirs>>, deleteQueue' = deleteQueue
    PROVE  QueueInv' /\ HeirsInv'
  BY DEF IInv, QueueInv, HeirsInv, Live

\* So does one that writes the status of one binding.
LEMMA StatusWritten ==
    ASSUME IInv, NEW b \in Bindings, NEW st \in Status,
           WriteBinding(b, [bindings[b] EXCEPT !.status = st]), UNCHANGED heirs,
           deleteQueue' = deleteQueue
    PROVE  /\ bindings' \in [Bindings -> Binding] /\ bindingsSeen' = bindingsSeen
           /\ current' \subseteq Bindings
           /\ QueueInv' /\ HeirsInv'
<1>1. bindings \in [Bindings -> Binding] /\ deleteQueue \subseteq Bindings /\ current \subseteq Bindings
      /\ heirs \in [Bindings -> SUBSET Bindings]
  BY DEF IInv, TypeOK
<1>2. /\ bindings' \in [Bindings -> Binding]
      /\ \A c \in Bindings : bindings'[c].exists = bindings[c].exists
                             /\ bindings'[c].deleting = bindings[c].deleting
  BY <1>1 DEF WriteBinding, Binding
<1>3. Live(bindings') = Live(bindings)
  BY <1>2 DEF Live
<1>4. QueueInv'
  BY <1>1, <1>2 DEF IInv, QueueInv
<1>5. HeirsInv'
  BY <1>1, <1>2, <1>3 DEF IInv, HeirsInv, WriteBinding
<1> QED
  BY <1>1, <1>2, <1>4, <1>5 DEF WriteBinding

----------------------------------------------------------------------------
(* Users.                                                                  *)

\* A new binding is nobody's heir.
LEMMA CreateStep ==
    ASSUME IInv, NEW b \in Bindings, CreateBinding(b)
    PROVE  IInv'
<1> DEFINE n == [NoBinding EXCEPT !.exists = TRUE]
<1>1. n \in Binding /\ n.exists /\ ~n.deleting
  BY Zenon, ConstantTypes DEF Binding, NoBinding
<1> HIDE DEF n
<1>2. /\ bindings' = [bindings EXCEPT ![b] = n] /\ current' = current \ {b}
      /\ UNCHANGED <<bindingsSeen, lockVars, crdVars, instances, queue, deleteQueue, cleanVars,
                     crdQueue, admitted, heirs>>
      /\ budget' \in [Events -> Nat] /\ ~bindings[b].exists
  BY EventNames, SpendFacts DEF CreateBinding, WriteBinding, n, IInv
<1>3. TypeOK'
  BY <1>1, <1>2 DEF IInv, TypeOK, lockVars, crdVars, cleanVars
<1>4. \A c \in Bindings : c \in Live(bindings) => c \in Live(bindings)'
  BY <1>1, <1>2 DEF Live, IInv, TypeOK
<1>5. \A c \in Bindings : bindings'[c].deleting => bindings[c].deleting
  BY <1>1, <1>2 DEF IInv, TypeOK
<1>6. b \notin deleteQueue
  BY <1>2 DEF IInv, QueueInv
<1> QED
  BY Zenon, <1>2, <1>3, <1>4, <1>5, <1>6 DEF IInv, QueueInv, HeirsInv, TypeOK

\* A binding is deleted: its heirs are the live ones, and it is nobody's heir.
LEMMA DeleteBindingStep ==
    ASSUME IInv, NEW b \in Bindings, DeleteBinding(b)
    PROVE  IInv'
<1> DEFINE n == [bindings[b] EXCEPT !.deleting = TRUE]
           mine == {d \in Live(bindings) \ {b} : SchemaOf[d] = SchemaOf[b]}
<1>1. n \in Binding /\ n.exists /\ n.deleting /\ bindings[b].exists /\ ~bindings[b].deleting
  BY Zenon DEF IInv, TypeOK, Binding, DeleteBinding, Live
<1>2. mine \in SUBSET Bindings
  BY DEF Live
<1> HIDE DEF n
<1>3. /\ bindings' = [bindings EXCEPT ![b] = n] /\ current' = current \ {b}
      /\ heirs' = [c \in Bindings |-> IF c = b THEN mine ELSE heirs[c] \ {b}]
      /\ UNCHANGED <<bindingsSeen, lockVars, crdVars, instances, queue, deleteQueue, cleanVars,
                     crdQueue, admitted>>
      /\ budget' \in [Events -> Nat]
  BY EventNames, SpendFacts DEF DeleteBinding, WriteBinding, n, IInv
<1>4. TypeOK'
  BY <1>1, <1>2, <1>3 DEF IInv, TypeOK, lockVars, crdVars, cleanVars
<1>5. Live(bindings') = Live(bindings) \ {b}
  BY <1>1, <1>3 DEF Live, IInv, TypeOK
<1>6. b \notin deleteQueue
  BY <1>1 DEF IInv, QueueInv
<1>7. QueueInv'
  BY <1>1, <1>3 DEF IInv, QueueInv, TypeOK
<1>8. HeirsInv'
  <2> SUFFICES ASSUME NEW c \in Bindings
               PROVE  /\ bindings'[c].deleting =>
                            \A d \in heirs'[c] : d # c /\ SchemaOf[d] = SchemaOf[c]
                                                 /\ d \in Live(bindings')
                      /\ c \in deleteQueue' /\ bindingsSeen'[c].deleting =>
                            heirs'[c] \subseteq Live(bindingsSeen')
    BY DEF HeirsInv, Live
  <2>1. CASE c = b
    BY Zenon, <1>3, <1>5, <1>6, <2>1
  <2>2. CASE c # b
    <3>1. heirs'[c] = heirs[c] \ {b} /\ bindings'[c] = bindings[c]
      BY <1>3, <2>2 DEF IInv, TypeOK
    <3> QED
      BY Zenon, <1>3, <1>5, <2>2, <3>1 DEF IInv, HeirsInv
  <2> QED
    BY <2>1, <2>2
<1> QED
  BY <1>4, <1>7, <1>8 DEF IInv

\* Users who touch no binding, and the API server.
LEMMA OtherUsers ==
    ASSUME IInv,
           \/ \E b \in Bindings : CreateInstance(b)
           \/ AdmitCRD \/ DeleteLocalCRD \/ FinishCRD
           \/ \E s \in Schemas : AgeCRD(s)
           \/ \E c \in Schemas \cup {Local} : APIServer(c)
    PROVE  IInv' /\ instances \subseteq instances'
<1>1. UNCHANGED <<bindingVars, heirs, queue, deleteQueue, crdQueue, lockQueued>>
  BY DEF CreateInstance, AdmitCRD, DeleteLocalCRD, FinishCRD, AgeCRD, APIServer, EstablishCRD,
     FinalizeCRD, cleanVars
<1>2. budget' \in [Events -> Nat]
  BY EventNames, SpendFacts DEF CreateInstance, AdmitCRD, DeleteLocalCRD, FinishCRD, AgeCRD,
     APIServer, EstablishCRD, FinalizeCRD, IInv, TypeOK
<1>3. admitted' \in BOOLEAN
  BY Zenon DEF CreateInstance, AdmitCRD, DeleteLocalCRD, FinishCRD, AgeCRD,
     APIServer, EstablishCRD, FinalizeCRD, IInv, TypeOK
<1>4. instances' \subseteq Schemas /\ instances \subseteq instances'
  BY APIBindingsAssumption DEF CreateInstance, AdmitCRD, DeleteLocalCRD, FinishCRD, AgeCRD,
     APIServer, EstablishCRD, FinalizeCRD, IInv, TypeOK
<1>5. /\ lock' \in Locks /\ lockSeen' \in Locks /\ lockCurrent' \in BOOLEAN
      /\ lockWork' \in [pc : {"idle", "clean"}, lock : Locks, current : BOOLEAN]
  <2>1. CASE AdmitCRD
    <3>1. "crdExpiry" \in Locks
      BY DEF Locks
    <3> QED
      BY Zenon, <2>1, <3>1 DEF AdmitCRD, WriteLock, IInv, TypeOK
  <2>2. CASE UNCHANGED <<lockVars, lockWork>>
    BY <2>2 DEF lockVars, IInv, TypeOK
  <2> QED
    BY <2>1, <2>2 DEF CreateInstance, DeleteLocalCRD, FinishCRD, AgeCRD, APIServer,
       EstablishCRD, FinalizeCRD, cleanVars
<1>6. /\ crds' \in [Schemas \cup {Local} -> CRD] /\ crdsSeen' \in [Schemas \cup {Local} -> CRD]
  <2>1. CASE UNCHANGED crdVars
    BY <2>1 DEF crdVars, IInv, TypeOK
  <2>2. ASSUME NEW c \in Schemas \cup {Local}, NEW st \in {"new", "established"},
               crds' = [crds EXCEPT ![c].state = st], UNCHANGED crdsSeen
        PROVE  crds' \in [Schemas \cup {Local} -> CRD]
    BY <2>2 DEF IInv, TypeOK, CRD
  <2>3. ASSUME NEW c \in Schemas \cup {Local}, crds' = [crds EXCEPT ![c] = NoCRD]
        PROVE  crds' \in [Schemas \cup {Local} -> CRD]
    BY <2>3, ConstantTypes DEF IInv, TypeOK
  <2>4. ASSUME NEW s \in Schemas, AgeCRD(s)
        PROVE  crds' \in [Schemas \cup {Local} -> CRD] /\ crdsSeen' \in [Schemas \cup {Local} -> CRD]
    <3>0. crds[s] \in CRD /\ crdsSeen[s] \in CRD
      BY DEF IInv, TypeOK
    <3>1. [crds[s] EXCEPT !.old = TRUE] \in CRD
      BY Zenon, <3>0 DEF CRD
    <3>2. [crdsSeen[s] EXCEPT !.old = (crdsSeen[s].state # "absent")] \in CRD
      BY Zenon, <3>0 DEF CRD
    <3>3. crds' \in [Schemas \cup {Local} -> CRD]
      BY <2>4, <3>1 DEF AgeCRD, IInv, TypeOK
    <3>4. crdsSeen' \in [Schemas \cup {Local} -> CRD]
      BY <2>4, <3>2 DEF AgeCRD, IInv, TypeOK
    <3> QED
      BY <3>3, <3>4
  <2> QED
    BY Zenon, <2>1, <2>2, <2>3, <2>4 DEF CreateInstance, AdmitCRD, DeleteLocalCRD, FinishCRD,
       APIServer, EstablishCRD, FinalizeCRD, crdVars, IInv, TypeOK
<1>7. TypeOK'
  BY <1>1, <1>2, <1>3, <1>4, <1>5, <1>6 DEF IInv, TypeOK, bindingVars
<1> QED
  BY <1>1, <1>4, <1>7, BindingsStay DEF IInv, bindingVars

----------------------------------------------------------------------------
(* Informers and restarts.                                                 *)

\* A lister that shows the bindings as they are shows the heirs, and only
\* bindings that are being deleted are queued for it.
LEMMA ListerCaughtUp ==
    ASSUME IInv, bindingsSeen' = bindings, UNCHANGED <<bindings, heirs>>,
           \A b \in deleteQueue' : b \in Bindings /\ bindings[b].deleting
    PROVE  QueueInv' /\ HeirsInv'
  BY DEF IInv, QueueInv, HeirsInv, Live

\* The three informers.
LEMMA InformerSteps ==
    ASSUME IInv, SyncBindings \/ SyncLock \/ SyncCRDs
    PROVE  IInv' /\ instances' = instances
<1>1. CASE SyncBindings
  <2>1. /\ bindingsSeen' = bindings /\ current' = Bindings /\ queue' \subseteq Bindings
        /\ deleteQueue' \subseteq Bindings /\ lockQueued' \in BOOLEAN /\ crdQueue' \subseteq Schemas
        /\ \A b \in deleteQueue' : bindings[b].deleting
        /\ UNCHANGED <<bindings, lockVars, crdVars, instances, lockWork, admitted, heirs, budget>>
    BY <1>1, APIBindingsAssumption DEF SyncBindings, IInv, TypeOK, QueueInv
  <2>2. TypeOK'
    BY <2>1 DEF IInv, TypeOK, lockVars, crdVars
  <2> QED
    BY <2>1, <2>2, ListerCaughtUp DEF IInv
<1>2. CASE SyncLock
  <2>1. TypeOK' /\ instances' = instances
    BY <1>2 DEF SyncLock, IInv, TypeOK, bindingVars, crdVars
  <2> QED
    BY <1>2, <2>1, BindingsStay DEF SyncLock, IInv, bindingVars
<1>3. CASE SyncCRDs
  <2>1. /\ crdsSeen' = crds /\ queue' \subseteq Bindings /\ crdQueue' \subseteq Schemas
        /\ lockQueued' \in BOOLEAN
        /\ UNCHANGED <<bindingVars, lockVars, crds, instances, deleteQueue, lockWork, admitted,
                       heirs, budget>>
    BY <1>3 DEF SyncCRDs, IInv, TypeOK
  <2>2. TypeOK'
    BY <2>1 DEF IInv, TypeOK, bindingVars, lockVars
  <2> QED
    BY <2>1, <2>2, BindingsStay DEF IInv, bindingVars
<1> QED
  BY <1>1, <1>2, <1>3

\* A restart.
LEMMA RestartStep ==
    ASSUME IInv, Restart
    PROVE  IInv' /\ instances' = instances
<1>1. budget' \in [Events -> Nat]
  BY EventNames, SpendFacts DEF Restart, IInv
<1>2. TypeOK' /\ instances' = instances
  BY Zenon, <1>1, ConstantTypes DEF Restart, IInv, TypeOK
<1> QED
  BY <1>2, ListerCaughtUp DEF Restart, IInv

----------------------------------------------------------------------------
(* The controllers.                                                        *)

\* The apibinding controller commits a status.
LEMMA CommitFacts ==
    ASSUME IInv, NEW b \in Bindings, NEW old, NEW new \in Status, NEW again,
           Commit(b, old, new, again), UNCHANGED heirs, deleteQueue' = deleteQueue
    PROVE  /\ bindings' \in [Bindings -> Binding] /\ bindingsSeen' = bindingsSeen
           /\ current' \subseteq Bindings /\ queue' \subseteq Bindings
           /\ QueueInv' /\ HeirsInv'
<1>1. queue' \subseteq Bindings
  BY DEF Commit, IInv, TypeOK
<1>2. CASE UNCHANGED bindingVars
  BY <1>1, <1>2, BindingsStay DEF bindingVars, IInv, TypeOK
<1>3. CASE WriteBinding(b, [bindings[b] EXCEPT !.status = new])
  BY <1>1, <1>3, StatusWritten
<1> QED
  BY <1>2, <1>3 DEF Commit

\* Its two kinds of pass.
LEMMA SkipStep ==
    ASSUME IInv, NEW b \in Bindings, Skip(b)
    PROVE  IInv' /\ instances' = instances
<1> DEFINE old == bindingsSeen[b].status
<1>1. UNCHANGED <<lockVars, crdVars, instances, deleteQueue, cleanVars, crdQueue, admitted, heirs, budget>>
  BY Zenon DEF Skip
<1>2. old \in Status
  BY DEF IInv, TypeOK, Binding
<1>3. [old EXCEPT !.phase = "Binding"] \in Status /\ [old EXCEPT !.why = "conflict"] \in Status
  BY Zenon, <1>2 DEF Status
<1>4. /\ bindings' \in [Bindings -> Binding] /\ bindingsSeen' = bindingsSeen
      /\ current' \subseteq Bindings /\ queue' \subseteq Bindings
      /\ QueueInv' /\ HeirsInv'
  <2>1. CASE UNCHANGED bindingVars /\ queue' = queue \ {b}
    BY <1>1, <2>1, BindingsStay DEF bindingVars, IInv, TypeOK
  <2>2. CASE Commit(b, old, [old EXCEPT !.phase = "Binding"], TRUE)
    BY Zenon, <1>1, <1>3, <2>2, CommitFacts
  <2>3. CASE Commit(b, old, [old EXCEPT !.why = "conflict"], lockSeen = "unset")
    BY <1>1, <1>3, <2>3, CommitFacts
  <2> QED
    BY Zenon, <2>1, <2>2, <2>3 DEF Skip
<1>5. TypeOK'
  BY <1>1, <1>4 DEF IInv, TypeOK, lockVars, crdVars, cleanVars
<1> QED
  BY <1>1, <1>4, <1>5 DEF IInv

\* A pass that gets the lock, creates the bound CRD or writes the status.
LEMMA BindStep ==
    ASSUME IInv, NEW b \in Bindings, Bind(b)
    PROVE  IInv' /\ instances' = instances
<1> DEFINE old == bindingsSeen[b].status
           s == SchemaOf[b]
           crd == crdsSeen[s].state
<1>1. UNCHANGED <<crdsSeen, instances, deleteQueue, lockQueued, crdQueue, admitted, heirs, budget>>
  BY Zenon DEF Bind
<1>2. old \in Status /\ s \in Schemas
  BY APIBindingsAssumption DEF IInv, TypeOK, Binding
<1>3. /\ lock' \in Locks /\ lockSeen' \in Locks /\ lockCurrent' \in BOOLEAN
      /\ lockWork' \in [pc : {"idle", "clean"}, lock : Locks, current : BOOLEAN]
  <2>1. CASE UNCHANGED <<lockVars, lockWork>>
    BY <2>1 DEF lockVars, IInv, TypeOK
  <2>2. CASE WriteLock(b) /\ lockWork' = [lockWork EXCEPT !.current = FALSE]
    BY Zenon, <2>2 DEF WriteLock, Locks, IInv, TypeOK
  <2> QED
    BY Zenon, <2>1, <2>2 DEF Bind
<1>4. PICK conflict \in Conflicts(b) :
        LET create == ~conflict /\ crd = "absent"
            failed == create /\ crds[s].state # "absent"
            why == IF conflict THEN "conflict"
                   ELSE IF crd # "established" THEN "waiting" ELSE "ok"
            new == IF why = "ok" THEN [old EXCEPT !.why = why, !.bound = TRUE, !.phase = "Bound"]
                   ELSE [old EXCEPT !.why = why]
        IN  /\ crds' = IF create /\ ~failed THEN [crds EXCEPT ![s].state = "new"] ELSE crds
            /\ Commit(b, old, new, conflict \/ failed)
  BY Zenon DEF Bind
<1> DEFINE create == ~conflict /\ crd = "absent"
           failed == create /\ crds[s].state # "absent"
           why == IF conflict THEN "conflict"
                  ELSE IF crd # "established" THEN "waiting" ELSE "ok"
           new == IF why = "ok" THEN [old EXCEPT !.why = why, !.bound = TRUE, !.phase = "Bound"]
                  ELSE [old EXCEPT !.why = why]
<1>5. new \in Status
  <2>1. why \in {"conflict", "waiting", "ok"}
    OBVIOUS
  <2> HIDE DEF why, old
  <2> QED
    BY Zenon, <1>2, <2>1 DEF Status
<1>6. crds' \in [Schemas \cup {Local} -> CRD]
  <2>1. crds' = crds \/ crds' = [crds EXCEPT ![s].state = "new"]
    BY <1>4
  <2> QED
    BY <1>2, <2>1 DEF IInv, TypeOK, CRD
<1>7. Commit(b, old, new, conflict \/ failed)
  BY <1>4
<1> HIDE DEF new, failed
<1>8. /\ bindings' \in [Bindings -> Binding] /\ bindingsSeen' = bindingsSeen
      /\ current' \subseteq Bindings /\ queue' \subseteq Bindings
      /\ QueueInv' /\ HeirsInv'
  BY <1>1, <1>5, <1>7, CommitFacts
<1>9. TypeOK'
  BY <1>1, <1>3, <1>6, <1>8 DEF IInv, TypeOK
<1> QED
  BY <1>1, <1>8, <1>9 DEF IInv

\* The clean-up of locks and of bound CRDs.
LEMMA CleanedType ==
    ASSUME IInv, NEW l \in Locks, NEW n \in Cleaned(l)
    PROVE  n \in Locks
<1> DEFINE held == IF l = "unset"
                   THEN (IF Bound(bindingsSeen) = {} THEN {"free"} ELSE Bound(bindingsSeen))
                   ELSE IF l \in Bindings /\ ~bindingsSeen[l].exists THEN {"free"} ELSE {l}
<1>1. held \subseteq Locks
  BY DEF Bound, Locks
<1>2. "crd" \in Locks /\ "free" \in Locks
  BY DEF Locks
<1>3. \E h \in held : n \in {h, "crd", "free"}
  BY DEF Cleaned
<1> QED
  BY <1>1, <1>2, <1>3

\* The lock and the CRDs change; bindings and instances stay.
LEMMA CleanUpSteps ==
    ASSUME IInv, LockController \/ \E s \in Schemas : CleanCRD(s)
    PROVE  IInv' /\ instances' = instances
<1>1. UNCHANGED <<bindingVars, heirs, deleteQueue, queue, instances, crdsSeen, admitted, budget>>
  BY DEF LockController, StartCleanup, Clean, CleanCRD, crdVars
<1>2. CASE StartCleanup
  BY Zenon, <1>1, <1>2, BindingsStay DEF StartCleanup, IInv, TypeOK, bindingVars, lockVars, crdVars
<1>3. CASE Clean
  <2>1. PICK l \in Cleaned(lockWork.lock) :
          IF l = lockWork.lock THEN UNCHANGED <<lockVars, lockQueued>>
          ELSE IF lockWork.current THEN WriteLock(l) /\ UNCHANGED lockQueued
          ELSE UNCHANGED lockVars /\ lockQueued' = TRUE
    BY <1>3 DEF Clean
  <2>2. l \in Locks
    BY CleanedType DEF IInv, TypeOK
  <2>3. /\ lock' \in Locks /\ lockSeen' \in Locks /\ lockCurrent' \in BOOLEAN
        /\ lockQueued' \in BOOLEAN
    BY Zenon, <2>1, <2>2 DEF WriteLock, lockVars, IInv, TypeOK
  <2>4. TypeOK'
    BY <1>1, <1>3, <2>3, ConstantTypes DEF Clean, IInv, TypeOK, bindingVars, crdVars
  <2> QED
    BY <1>1, <2>4, BindingsStay DEF IInv, bindingVars
<1>4. ASSUME NEW s \in Schemas, CleanCRD(s) PROVE IInv'
  <2>1. crds' = crds \/ crds' = [crds EXCEPT ![s].state = "terminating"]
    BY <1>4 DEF CleanCRD
  <2>2. crds' \in [Schemas \cup {Local} -> CRD]
    BY <2>1 DEF IInv, TypeOK, CRD
  <2>3. TypeOK'
    BY <1>1, <1>4, <2>2 DEF CleanCRD, IInv, TypeOK, bindingVars, lockVars, cleanVars
  <2> QED
    BY <1>1, <2>3, BindingsStay DEF IInv, bindingVars
<1> QED
  BY <1>1, <1>2, <1>3, <1>4 DEF LockController

\* The deletion controller deletes instances only for a binding without heirs:
\* every heir is in the lister, and would adopt them.
LEMMA DeleteStep ==
    ASSUME IInv, NEW b \in Bindings, Delete(b)
    PROVE  /\ IInv'
           /\ instances \subseteq instances'
              \/ /\ instances \ instances' \subseteq {SchemaOf[b]}
                 /\ bindings[b].deleting /\ heirs[b] = {}
<1>1. /\ b \in deleteQueue /\ bindings[b].deleting
      /\ UNCHANGED <<lockVars, crdVars, queue, cleanVars, crdQueue, admitted, heirs, budget>>
  BY DEF Delete, IInv, QueueInv
<1>2. CASE ~bindingsSeen[b].deleting
  <2>1. UNCHANGED <<bindingVars, instances>> /\ deleteQueue' = deleteQueue \ {b}
    BY <1>2 DEF Delete
  <2>2. TypeOK'
    BY <1>1, <2>1 DEF IInv, TypeOK, bindingVars, lockVars, crdVars, cleanVars
  <2>3. QueueInv' /\ HeirsInv'
    BY <1>1, <2>1 DEF IInv, QueueInv, HeirsInv, Live, bindingVars
  <2> QED
    BY <2>1, <2>2, <2>3 DEF IInv
<1>3. CASE bindingsSeen[b].deleting
  <2> DEFINE s == SchemaOf[b]
             kind == Retention(b)
             held == kind # "keep" /\ (~Accepted(crds[s]) \/ s \in instances)
             old == bindingsSeen[b].status.del
             new == IF held THEN "held" ELSE "ok"
             final == b \in current /\ old = "ok" /\ new = "ok"
  <2>1. /\ deleteQueue' = IF final THEN deleteQueue \ {b} ELSE deleteQueue
        /\ instances' = IF kind = "delete" /\ Accepted(crds[s]) THEN instances \ {s} ELSE instances
        /\ IF final THEN WriteBinding(b, NoBinding)
           ELSE IF b \in current /\ new # old
                THEN WriteBinding(b, [bindings[b] EXCEPT !.status.del = new])
           ELSE UNCHANGED bindingVars
    BY <1>3 DEF Delete
  <2>2. new \in DeleteStatus
    BY DEF DeleteStatus
  <2>3. kind = "delete" => heirs[b] = {}
    <3>1. heirs[b] \subseteq Live(bindingsSeen)
      BY <1>1, <1>3 DEF IInv, HeirsInv
    <3>2. \A d \in heirs[b] : d # b /\ SchemaOf[d] = SchemaOf[b]
      BY <1>1 DEF IInv, HeirsInv
    <3> QED
      BY <3>1, <3>2 DEF Retention
  <2> HIDE DEF kind, new, final
  <2>4. instances' \subseteq Schemas
    BY <2>1 DEF IInv, TypeOK
  <2>5. /\ bindings' \in [Bindings -> Binding] /\ bindingsSeen' = bindingsSeen
        /\ current' \subseteq Bindings /\ deleteQueue' \subseteq Bindings
        /\ QueueInv' /\ HeirsInv'
    <3>1. CASE final
      <4>1. /\ bindings' = [bindings EXCEPT ![b] = NoBinding] /\ current' = current \ {b}
            /\ bindingsSeen' = bindingsSeen /\ deleteQueue' = deleteQueue \ {b}
        BY <2>1, <3>1 DEF WriteBinding
      <4>2. /\ bindings' \in [Bindings -> Binding]
            /\ \A c \in Bindings : bindings'[c].deleting => c # b /\ bindings'[c] = bindings[c]
        BY <4>1, ConstantTypes DEF IInv, TypeOK
      <4>3. \A c \in Live(bindings) : c \in Live(bindings')
        BY <1>1, <4>1 DEF Live, IInv, TypeOK
      <4>4. QueueInv'
        BY <4>1, <4>2 DEF IInv, QueueInv, TypeOK
      <4>5. HeirsInv'
        <5> SUFFICES ASSUME NEW c \in Bindings
                     PROVE  /\ bindings'[c].deleting =>
                                  \A d \in heirs'[c] : d # c /\ SchemaOf[d] = SchemaOf[c]
                                                       /\ d \in Live(bindings')
                            /\ c \in deleteQueue' /\ bindingsSeen'[c].deleting =>
                                  heirs'[c] \subseteq Live(bindingsSeen')
          BY DEF HeirsInv, Live
        <5> QED
          BY Zenon, <1>1, <4>1, <4>2, <4>3 DEF IInv, HeirsInv
      <4> QED
        BY <4>1, <4>2, <4>4, <4>5 DEF IInv, TypeOK
    <3>2. CASE ~final /\ WriteBinding(b, [bindings[b] EXCEPT !.status.del = new])
      <4> DEFINE st == [bindings[b].status EXCEPT !.del = new]
      <4>1. bindings[b] \in Binding /\ bindings[b].status \in Status
        BY DEF IInv, TypeOK, Binding
      <4>2. st \in Status
        BY Zenon, <2>2, <4>1 DEF Status
      <4>3. [bindings[b] EXCEPT !.status.del = new] = [bindings[b] EXCEPT !.status = st]
        BY <4>1 DEF Binding
      <4> HIDE DEF st
      <4> QED
        BY <1>1, <2>1, <3>2, <4>2, <4>3, StatusWritten DEF IInv, TypeOK
    <3>3. CASE ~final /\ UNCHANGED bindingVars
      BY <1>1, <2>1, <3>3, BindingsStay DEF bindingVars, IInv, TypeOK
    <3> QED
      BY <2>1, <3>1, <3>2, <3>3
  <2>6. TypeOK'
    BY <1>1, <2>4, <2>5 DEF IInv, TypeOK, lockVars, crdVars, cleanVars
  <2> QED
    BY <1>1, <2>1, <2>3, <2>5, <2>6 DEF IInv
<1> QED
  BY <1>2, <1>3

----------------------------------------------------------------------------
\* Instances go only with a binding without heirs.
InstancesGo ==
    \A s \in instances \ instances' :
        \E b \in Bindings : bindings[b].deleting /\ SchemaOf[b] = s /\ heirs[b] = {}

\* Every step keeps the invariant.
LEMMA NextPreserves ==
    ASSUME IInv, [Next]_vars
    PROVE  IInv' /\ InstancesGo
<1>1. ASSUME instances \subseteq instances' PROVE InstancesGo
  BY <1>1 DEF InstancesGo
<1>2. ASSUME NEW b \in Bindings, CreateBinding(b) \/ DeleteBinding(b)
      PROVE  IInv' /\ instances' = instances
  BY Zenon, <1>2, CreateStep, DeleteBindingStep DEF CreateBinding, DeleteBinding
<1>3. ASSUME NEW b \in Bindings, BindingController(b) PROVE IInv' /\ instances' = instances
  BY <1>3, SkipStep, BindStep DEF BindingController
<1>4. ASSUME NEW b \in Bindings, Delete(b) PROVE IInv' /\ InstancesGo
  BY <1>4, DeleteStep DEF InstancesGo
<1>5. CASE UNCHANGED vars
  <2>1. TypeOK'
    BY <1>5 DEF vars, IInv, TypeOK, bindingVars, lockVars, crdVars, cleanVars
  <2> QED
    BY <1>1, <1>5, <2>1, BindingsStay DEF vars, IInv, bindingVars
<1> QED
  BY <1>1, <1>2, <1>3, <1>4, <1>5, OtherUsers, InformerSteps, RestartStep, CleanUpSteps
     DEF Next, User

\* The invariant holds in every reachable state.
THEOREM Invariance == Spec => []IInv
<1>1. IInv /\ [Next]_vars => IInv'
  BY NextPreserves
<1> QED
  BY <1>1, InitEstablishes, PTL DEF Spec

\* The state of bindings, locks, CRDs and queues is well typed.
THEOREM TypeCorrect == Spec => []TypeOK
<1>1. IInv => TypeOK
  BY DEF IInv
<1> QED
  BY <1>1, Invariance, PTL

\* The deletion controller deletes instances only for a binding that has no live
\* heir left (retainedResources, successorFor), however stale its lister is and
\* whatever names are used again.
THEOREM HeirsTheorem == Spec => HeirsKeepInstances
<1>1. IInv /\ [Next]_vars => [InstancesGo]_vars
  BY NextPreserves
<1>2. [InstancesGo]_vars
      => [\A s \in instances \ instances' :
            \E b \in Bindings : bindings[b].deleting /\ SchemaOf[b] = s /\ heirs[b] = {}]_vars
  BY DEF InstancesGo
<1> QED
  BY <1>1, <1>2, Invariance, PTL DEF Spec, HeirsKeepInstances
====
