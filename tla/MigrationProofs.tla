-------------------------- MODULE MigrationProofs ---------------------------
(***************************************************************************)
(* A migration, for any number of shards, migrations and keys and any      *)
(* bounds.                                                                 *)
(*                                                                         *)
(* First the life of the migration objects: MigrationInv is inductive, and *)
(* from it follow NeverVanishes (the finalizer outlives every side effect) *)
(* and OutcomeIsFinal (how a migration ended, and where it came from, is   *)
(* never rewritten by a late worker).  Then the types (TypeOK).            *)
(*                                                                         *)
(* Then the only migration of an LC: whichever worker is late, which call  *)
(* fails and which shard restarts, its phases follow each other in the     *)
(* order of the code, each left by the shard that owns it (OrderInv), and  *)
(* the origin's LC object keeps the annotation while the destination copies*)
(* (AnnotationIsKept).  Only(m) says what is assumed.  A second migration  *)
(* of the same LC can lose its data: that is what the run migration_twice  *)
(* shows.                                                                  *)
(*                                                                         *)
(* Last, any number of migrations of an LC whose destinations are not      *)
(* there: they contend for the annotation of the origin's LC object, and   *)
(* the one that won it keeps it (ContentionInv, AnnotationIsKept).         *)
(*                                                                         *)
(* Where the data is follows in MigrationDataProofs, and what clients see  *)
(* in MigrationServiceProofs.                                              *)
(***************************************************************************)
EXTENDS Migration, TLAPS

\* What a worker at work knows of the object it read.
LEMMA ObjFacts ==
    ASSUME WorkersInv, NEW s \in Shards, NEW m \in Migrations, ~At(s, m, "idle")
    PROVE  /\ worker[s][m] \in Workers
           /\ Obj(s, m) \in MigrationObjects
           /\ Guarded(Obj(s, m))
           /\ Obj(s, m).deleting => Obj(s, m).fin
  <1>1. worker[s][m] \in Workers /\ WorkerOK(worker[s][m])
    BY Zenon DEF WorkersInv
  <1> QED
    BY Zenon, <1>1 DEF Workers, WorkerOK, At, Obj

\* A worker that is about to call reconcile is not idle.
LEMMA AtReconcile ==
    ASSUME NEW s, NEW m, At(s, m, "reconcile")
    PROVE  ~At(s, m, "idle")
  BY Zenon DEF At

\* The migration objects and the workers stay in order for ever.
THEOREM MigrationInvariant == Spec => []MigrationInv
  \* The objects stay in order in an action that does not touch them.
  <1>ObjectsStay.
      ASSUME ObjectsInv, UNCHANGED <<mig, life>>
      PROVE  ObjectsInv'
    BY Zenon, <1>ObjectsStay DEF ObjectsInv, Guarded
  \* So do the workers.
  <1>WorkersStay.
      ASSUME WorkersInv, UNCHANGED worker
      PROVE  WorkersInv'
    BY Zenon, <1>WorkersStay DEF WorkersInv
  \* One worker changes.
  <1>WorkerChanges.
      ASSUME WorkersInv, NEW s \in Shards, NEW m \in Migrations,
             NEW x \in Workers, WorkerOK(x),
             worker' = [worker EXCEPT ![s][m] = x]
      PROVE  WorkersInv'
    <2> USE <1>WorkerChanges
    <2>1. worker \in [Shards -> [Migrations -> Workers]]
      BY Zenon DEF WorkersInv
    <2>2. worker' \in [Shards -> [Migrations -> Workers]]
      BY Zenon, <2>1
    <2>3. ASSUME NEW t \in Shards, NEW n \in Migrations
          PROVE  worker'[t][n] = x \/ worker'[t][n] = worker[t][n]
      BY Zenon, <2>1, <2>3
    <2>4. ASSUME NEW t \in Shards, NEW n \in Migrations
          PROVE  WorkerOK(worker'[t][n])
      <3>1. WorkerOK(worker[t][n])
        BY Zenon, <2>4 DEF WorkersInv
      <3> QED
        BY Zenon, <2>3, <2>4, <3>1
    <2> QED
      BY Zenon, <2>2, <2>4 DEF WorkersInv
  \* Idle is a worker.
  <1>IdleType.
      /\ NewMigration \in MigrationObjects
      /\ Idle \in Workers
      /\ WorkerOK(Idle)
    <2>1. NewMigration \in MigrationObjects
      BY ConstantsAssumption DEF NewMigration, MigrationObjects, Phases
    <2>2. Idle \in Workers
      BY Zenon, <2>1 DEF Idle, PCs, Workers
    <2> QED
      BY Zenon, <2>1, <2>2 DEF Idle, WorkerOK
  \* A page's continue token is a key or 0.
  <1>PageNext.
      ASSUME NEW src, NEW cont, NEW p \in Pages(src, cont)
      PROVE  p.next \in 0..NumKeys
    BY <1>PageNext, ConstantsAssumption DEF Pages, Present, DataKeys, Keys
  \* A handler that returns a guarded object that follows the one it read keeps the
  \* workers in order.
  <1>ReturnKeeps.
      ASSUME WorkersInv, NEW s \in Shards, NEW m \in Migrations, ~At(s, m, "idle"),
             NEW new \in MigrationObjects, NEW rq \in BOOLEAN,
             Guarded(new), Follows(Obj(s, m), new),
             Return(s, m, new, rq)
      PROVE  WorkersInv'
    <2> USE <1>ReturnKeeps
    <2>1. CASE new = Obj(s, m)
      <3>1. worker' = [worker EXCEPT ![s][m] = Idle]
        BY Zenon, <2>1 DEF Return
      <3> QED
        BY Zenon, <3>1, <1>IdleType, <1>WorkerChanges
    <2>2. CASE new # Obj(s, m)
      <3> DEFINE x == [worker[s][m] EXCEPT !.pc = "commit", !.new = new, !.rq = rq]
      <3>1. worker[s][m] \in Workers /\ Guarded(Obj(s, m)) /\ (Obj(s, m).deleting => Obj(s, m).fin)
        BY Zenon, ObjFacts
      <3>2. worker' = [worker EXCEPT ![s][m] = x]
        BY Zenon, <2>2 DEF Return, WorkersInv
      <3>3. x \in Workers
        BY Zenon, <3>1 DEF Workers, PCs
      <3>4. x.pc = "commit" /\ x.obj = Obj(s, m) /\ x.new = new
        BY Zenon, <3>1 DEF Workers, Obj
      <3>5. WorkerOK(x)
        BY Zenon, <3>1, <3>4 DEF WorkerOK
      <3> QED
        BY Zenon, <3>2, <3>3, <3>5, <1>WorkerChanges
    <2> QED
      BY Zenon, <2>1, <2>2
  \* A handler that goes on to its next step keeps the workers in order.
  <1>GotoKeeps.
      ASSUME WorkersInv, NEW s \in Shards, NEW m \in Migrations, ~At(s, m, "idle"),
             NEW p \in {"register", "block", "finalize", "check", "release"},
             Obj(s, m).phase \notin Terminal \cup {""},
             Goto(s, m, p)
      PROVE  WorkersInv'
    <2> USE <1>GotoKeeps
    <2> DEFINE x == [worker[s][m] EXCEPT !.pc = p]
    <2>1. worker[s][m] \in Workers /\ Guarded(Obj(s, m)) /\ (Obj(s, m).deleting => Obj(s, m).fin)
      BY Zenon, ObjFacts
    <2>2. worker' = [worker EXCEPT ![s][m] = x]
      BY Zenon DEF Goto, WorkersInv
    <2>3. x \in Workers
      BY Zenon, <2>1 DEF Workers, PCs
    <2>4. x.pc = p /\ x.obj = Obj(s, m)
      BY Zenon, <2>1 DEF Workers, Obj
    <2>5. WorkerOK(x)
      BY Zenon, <2>1, <2>4 DEF WorkerOK
    <2> QED
      BY Zenon, <2>2, <2>3, <2>5, <1>WorkerChanges
  \* A handler that leaves the object as it read it.
  <1>ReturnSame.
      ASSUME WorkersInv, NEW s \in Shards, NEW m \in Migrations, ~At(s, m, "idle"),
             NEW rq \in BOOLEAN, Return(s, m, Obj(s, m), rq)
      PROVE  WorkersInv'
    <2> USE <1>ReturnSame
    <2>1. Obj(s, m) \in MigrationObjects /\ Guarded(Obj(s, m))
      BY Zenon, ObjFacts
    <2>2. Follows(Obj(s, m), Obj(s, m))
      BY Zenon DEF Follows
    <2> QED
      BY Zenon, <2>1, <2>2, <1>ReturnKeeps
  \* MigrationInv holds at first.
  <1>InitInv. Init => MigrationInv
    <2> SUFFICES ASSUME Init PROVE MigrationInv
      OBVIOUS
    <2>1. ObjectsInv
      BY Zenon, <1>IdleType DEF Init, ObjectsInv, Guarded, NewMigration
    <2>2. WorkersInv
      BY Zenon, <1>IdleType DEF Init, WorkersInv
    <2> QED
      BY Zenon, <2>1, <2>2 DEF MigrationInv
  \* A worker whose handler ends with object new, the migration objects untouched.
  <1>HandlerReturns.
      ASSUME MigrationInv, NEW s \in Shards, NEW m \in Migrations, ~At(s, m, "idle"),
             NEW new \in MigrationObjects, NEW rq \in BOOLEAN,
             Guarded(new), Follows(Obj(s, m), new),
             Return(s, m, new, rq), UNCHANGED <<mig, life>>
      PROVE  MigrationInv'
    BY Zenon, <1>HandlerReturns, <1>ObjectsStay, <1>ReturnKeeps DEF MigrationInv
  \* A worker whose handler fails, the migration objects untouched.
  <1>HandlerFails.
      ASSUME MigrationInv, NEW s \in Shards, NEW m \in Migrations, ~At(s, m, "idle"),
             NEW rq \in BOOLEAN, Return(s, m, Obj(s, m), rq), UNCHANGED <<mig, life>>
      PROVE  MigrationInv'
    BY Zenon, <1>HandlerFails, <1>ObjectsStay, <1>ReturnSame DEF MigrationInv
  \* A worker whose handler goes on, the migration objects untouched.
  <1>HandlerGoesOn.
      ASSUME MigrationInv, NEW s \in Shards, NEW m \in Migrations, ~At(s, m, "idle"),
             NEW p \in {"register", "block", "finalize", "check", "release"},
             Obj(s, m).phase \notin Terminal \cup {""},
             Goto(s, m, p), UNCHANGED <<mig, life>>
      PROVE  MigrationInv'
    BY Zenon, <1>HandlerGoesOn, <1>ObjectsStay, <1>GotoKeeps DEF MigrationInv
  \* A handler that changes neither the finalizer nor the recorded origin of an
  \* object under way.
  <1>Advance.
      ASSUME NEW o \in MigrationObjects, NEW n \in MigrationObjects, Guarded(o),
             o.phase \notin Terminal \cup {""},
             n.fin = o.fin, n.origin = o.origin
      PROVE  Guarded(n) /\ Follows(o, n)
    BY Zenon, <1>Advance DEF Guarded, Follows
  \* A worker in the middle of a handler, and one whose phase is at hand.
  <1>Midway.
      ASSUME WorkersInv, NEW s \in Shards, NEW m \in Migrations,
             NEW p \in {"register", "block", "finalize", "check", "release"}, At(s, m, p)
      PROVE  ~At(s, m, "idle") /\ Obj(s, m).phase \notin Terminal \cup {""}
    <2> USE <1>Midway
    <2>1. WorkerOK(worker[s][m])
      BY Zenon DEF WorkersInv
    <2> QED
      BY Zenon, <2>1 DEF WorkerOK, At, Obj
  \* process reads the object.
  <1>GetStep.
      ASSUME MigrationInv, NEW s \in Shards, NEW m \in Migrations, Get(s, m)
      PROVE  MigrationInv'
    <2> USE <1>GetStep
    <2>1. UNCHANGED <<mig, life>>
      BY Zenon DEF Get
    <2>2. WorkersInv'
      <3>1. CASE life[m] # "exists"
        BY Zenon, <3>1, <1>WorkersStay DEF Get, MigrationInv
      <3>2. CASE life[m] = "exists"
        <4> DEFINE x == [worker[s][m] EXCEPT !.pc = "reconcile", !.obj = mig[m]]
        <4>1. worker[s][m] \in Workers
          BY Zenon DEF MigrationInv, WorkersInv
        <4>2. /\ mig[m] \in MigrationObjects /\ Guarded(mig[m])
              /\ mig[m].deleting => mig[m].fin
          BY Zenon, <3>2 DEF MigrationInv, ObjectsInv
        <4>3. worker' = [worker EXCEPT ![s][m] = x]
          BY Zenon, <3>2 DEF Get, MigrationInv, WorkersInv
        <4>4. x \in Workers
          BY Zenon, <4>1, <4>2 DEF Workers, PCs
        <4>5. x.pc = "reconcile" /\ x.obj = mig[m]
          BY Zenon, <4>1 DEF Workers
        <4>6. WorkerOK(x)
          BY Zenon, <4>2, <4>5 DEF WorkerOK
        <4> QED
          BY Zenon, <4>3, <4>4, <4>6, <1>WorkerChanges DEF MigrationInv
      <3> QED
        BY Zenon, <3>1, <3>2
    <2> QED
      BY Zenon, <2>1, <2>2, <1>ObjectsStay DEF MigrationInv
  \* process commits what the handler left.
  <1>CommitStep.
      ASSUME MigrationInv, NEW s \in Shards, NEW m \in Migrations, Commit(s, m)
      PROVE  MigrationInv'
    <2> USE <1>CommitStep
    <2> DEFINE w == worker[s][m]
    <2>1. w \in Workers /\ WorkerOK(w) /\ w.pc = "commit"
      BY Zenon DEF Commit, At, MigrationInv, WorkersInv
    <2>2. w.new \in MigrationObjects /\ Guarded(w.new)
      BY Zenon, <2>1 DEF Workers, WorkerOK
    <2>3. WorkersInv'
      <3>1. worker' = [worker EXCEPT ![s][m] = Idle]
        BY Zenon DEF Commit
      <3> QED
        BY Zenon, <3>1, <1>IdleType, <1>WorkerChanges DEF MigrationInv
    <2>4. ObjectsInv'
      <3>1. CASE UNCHANGED <<mig, life>>
        BY Zenon, <3>1, <1>ObjectsStay DEF MigrationInv
      <3>2. CASE /\ life[m] = "exists"
                 /\ mig' = [mig EXCEPT ![m] = w.new]
                 /\ life' = [life EXCEPT ![m] = IF w.new.deleting /\ ~w.new.fin THEN "gone" ELSE @]
        <4>1. /\ mig \in [Migrations -> MigrationObjects]
              /\ life \in [Migrations -> {"unborn", "exists", "gone"}]
          BY Zenon DEF MigrationInv, ObjectsInv
        <4>2. /\ mig' \in [Migrations -> MigrationObjects]
              /\ life' \in [Migrations -> {"unborn", "exists", "gone"}]
          BY Zenon, <2>2, <3>2, <4>1
        <4>3. ASSUME NEW n \in Migrations
              PROVE  /\ Guarded(mig'[n])
                     /\ life'[n] = "exists" /\ mig'[n].deleting => mig'[n].fin
                     /\ life'[n] = "gone" => ~mig'[n].fin
                     /\ life'[n] = "unborn" => mig'[n] = NewMigration
          <5>1. CASE n = m
            BY Zenon, <2>2, <3>2, <4>1, <5>1
          <5>2. CASE n # m
            BY Zenon, <3>2, <4>1, <5>2 DEF MigrationInv, ObjectsInv
          <5> QED
            BY Zenon, <5>1, <5>2
        <4> QED
          BY Zenon, <4>2, <4>3 DEF ObjectsInv
      <3> QED
        BY Zenon, <3>1, <3>2 DEF Commit
    <2> QED
      BY Zenon, <2>3, <2>4 DEF MigrationInv
  \* startCancellation: a deleted object that is still there has its finalizer.
  <1>StartCancellationStep.
      ASSUME MigrationInv, NEW s \in Shards, NEW m \in Migrations, StartCancellation(s, m)
      PROVE  MigrationInv'
    <2> USE <1>StartCancellationStep
    <2> DEFINE o == Obj(s, m)
    <2>1. At(s, m, "reconcile") /\ ~At(s, m, "idle") /\ UNCHANGED <<mig, life>>
      BY Zenon, AtReconcile DEF StartCancellation, outside
    <2>2. o \in MigrationObjects /\ Guarded(o) /\ (o.deleting => o.fin)
      BY Zenon, <2>1, ObjFacts DEF MigrationInv
    <2> DEFINE origin == IF o.phase \in {"", "Preparing"} THEN s ELSE o.origin
               phase == CASE o.phase \in {"", "Preparing"} -> "CancellationFinalize"
                          [] o.phase = "Migrating" -> "CancellationCleanup"
                          [] OTHER -> "CancellationPreparing"
               new == [o EXCEPT !.cont = 0, !.origin = origin, !.phase = phase]
    <2>3. Return(s, m, new, TRUE)
      BY Zenon DEF StartCancellation
    <2>4. StartsCancellation(s, m, o)
      BY Zenon DEF StartCancellation
    <2>5. new \in MigrationObjects
      <3>1. phase \in Phases
        BY Zenon DEF Phases
      <3>2. origin \in Shards \cup {None}
        BY Zenon, <2>2 DEF MigrationObjects
      <3>3. 0 \in 0..NumKeys
        BY ConstantsAssumption
      <3> HIDE DEF origin, phase
      <3> QED
        BY Zenon, <2>2, <3>1, <3>2, <3>3 DEF MigrationObjects
    <2>6. o.fin /\ new.fin = o.fin
      BY Zenon, <2>2, <2>4 DEF StartsCancellation, MigrationObjects
    <2>7. o.phase \notin Terminal
      BY Zenon, <2>4 DEF StartsCancellation, Terminal
    <2>8. o.origin # None => new.origin = o.origin
      BY Zenon, <2>2, <2>4 DEF StartsCancellation, IsOrigin, MigrationObjects
    <2> QED
      BY Zenon, <2>1, <2>3, <2>5, <2>6, <2>7, <2>8, <1>HandlerReturns DEF Guarded, Follows
  \* The deletion of the LC is detected.
  <1>DetectLCDeletionStep.
      ASSUME MigrationInv, NEW s \in Shards, NEW m \in Migrations, DetectLCDeletion(s, m)
      PROVE  MigrationInv'
    <2> USE <1>DetectLCDeletionStep
    <2> DEFINE o == Obj(s, m)
    <2>1. At(s, m, "reconcile") /\ ~At(s, m, "idle") /\ UNCHANGED <<mig, life>>
      BY Zenon, AtReconcile DEF DetectLCDeletion, outside
    <2>2. o \in MigrationObjects /\ Guarded(o) /\ (o.deleting => o.fin)
      BY Zenon, <2>1, ObjFacts DEF MigrationInv
    <2> DEFINE new == [o EXCEPT !.phase = "Aborting"]
    <2>3. Return(s, m, new, TRUE) /\ o.phase \notin Terminal \cup {""}
      BY Zenon DEF DetectLCDeletion, SeesLCDeleted, Terminal
    <2>4. new \in MigrationObjects /\ new.fin = o.fin /\ new.origin = o.origin
      BY Zenon, <2>2 DEF MigrationObjects, Phases
    <2> QED
      BY Zenon, <2>1, <2>2, <2>3, <2>4, <1>Advance, <1>HandlerReturns
  \* A shard with nothing to do.
  <1>WaitStep.
      ASSUME MigrationInv, NEW s \in Shards, NEW m \in Migrations, Wait(s, m)
      PROVE  MigrationInv'
    <2> USE <1>WaitStep
    <2>1. At(s, m, "reconcile") /\ UNCHANGED <<mig, life>>
      BY Zenon DEF Wait, Handles, outside
    <2>2. PICK rq \in BOOLEAN : Return(s, m, Obj(s, m), rq)
      BY Zenon DEF Wait
    <2> QED
      BY Zenon, <2>1, <2>2, AtReconcile, <1>HandlerFails
  \* The finalizer is persisted before the phase.
  <1>StartStep.
      ASSUME MigrationInv, NEW s \in Shards, NEW m \in Migrations, Start(s, m)
      PROVE  MigrationInv'
    <2> USE <1>StartStep
    <2> DEFINE o == Obj(s, m)
    <2>1. At(s, m, "reconcile") /\ ~At(s, m, "idle") /\ UNCHANGED <<mig, life>>
      BY Zenon, AtReconcile DEF Start, Handles, outside
    <2>2. o \in MigrationObjects /\ Guarded(o) /\ (o.deleting => o.fin)
      BY Zenon, <2>1, ObjFacts DEF MigrationInv
    <2>3. o.phase = ""
      BY Zenon DEF Start, Handles
    <2>4. CASE o.fin
      <3> DEFINE new == [o EXCEPT !.phase = "Preparing"]
      <3>1. Return(s, m, new, TRUE)
        BY Zenon, <2>4 DEF Start
      <3>2. new \in MigrationObjects /\ new.fin /\ new.origin = o.origin
        BY Zenon, <2>2, <2>4 DEF MigrationObjects, Phases
      <3> QED
        BY Zenon, <2>1, <2>3, <3>1, <3>2, <1>HandlerReturns DEF Guarded, Follows, Terminal
    <2>5. CASE ~o.fin
      <3> DEFINE new == [o EXCEPT !.fin = TRUE]
      <3>1. Return(s, m, new, TRUE)
        BY Zenon, <2>5 DEF Start
      <3>2. new \in MigrationObjects /\ new.fin /\ new.origin = o.origin
        BY Zenon, <2>2 DEF MigrationObjects
      <3> QED
        BY Zenon, <2>1, <2>3, <3>1, <3>2, <1>HandlerReturns DEF Guarded, Follows, Terminal
    <2> QED
      BY Zenon, <2>4, <2>5
  \* reconcilePreparing up to the annotation.
  <1>PrepareStep.
      ASSUME MigrationInv, NEW s \in Shards, NEW m \in Migrations, Prepare(s, m)
      PROVE  MigrationInv'
    <2> USE <1>PrepareStep
    <2> DEFINE o == Obj(s, m)
    <2>1. At(s, m, "reconcile") /\ ~At(s, m, "idle") /\ UNCHANGED <<mig, life>>
      BY Zenon, AtReconcile DEF Prepare, Handles, outside
    <2>2. o \in MigrationObjects /\ Guarded(o) /\ (o.deleting => o.fin)
      BY Zenon, <2>1, ObjFacts DEF MigrationInv
    <2>3. o.phase = "Preparing" /\ o.phase \notin Terminal \cup {""}
      BY Zenon DEF Prepare, Handles, Terminal
    <2>4. \/ o.origin = None /\ Return(s, m, [o EXCEPT !.origin = s], TRUE)
          \/ Return(s, m, [o EXCEPT !.phase = "Failed"], FALSE)
          \/ Goto(s, m, "register")
          \/ Return(s, m, Obj(s, m), TRUE)
      BY Zenon DEF Prepare, Fails
    <2>5. CASE o.origin = None /\ Return(s, m, [o EXCEPT !.origin = s], TRUE)
      <3> DEFINE new == [o EXCEPT !.origin = s]
      <3>1. new \in MigrationObjects /\ new.fin = o.fin /\ new.phase = o.phase
        BY Zenon, <2>2 DEF MigrationObjects
      <3> QED
        BY Zenon, <2>1, <2>2, <2>3, <2>5, <3>1, <1>HandlerReturns DEF Guarded, Follows
    <2>6. CASE Return(s, m, [o EXCEPT !.phase = "Failed"], FALSE)
      <3> DEFINE new == [o EXCEPT !.phase = "Failed"]
      <3>1. new \in MigrationObjects /\ new.fin = o.fin /\ new.origin = o.origin
        BY Zenon, <2>2 DEF MigrationObjects, Phases
      <3> QED
        BY Zenon, <2>1, <2>2, <2>3, <2>6, <3>1, <1>Advance, <1>HandlerReturns
    <2>7. CASE Goto(s, m, "register")
      BY Zenon, <2>1, <2>3, <2>7, <1>HandlerGoesOn
    <2>8. CASE Return(s, m, Obj(s, m), TRUE)
      BY Zenon, <2>1, <2>8, <1>HandlerFails
    <2> QED
      BY Zenon, <2>4, <2>5, <2>6, <2>7, <2>8
  \* The registration.
  <1>PrepareRegisterStep.
      ASSUME MigrationInv, NEW s \in Shards, NEW m \in Migrations, PrepareRegister(s, m)
      PROVE  MigrationInv'
    <2> USE <1>PrepareRegisterStep
    <2> DEFINE o == Obj(s, m)
    <2>1. ~At(s, m, "idle") /\ o.phase \notin Terminal \cup {""} /\ UNCHANGED <<mig, life>>
      BY Zenon, <1>Midway DEF PrepareRegister, outside, MigrationInv
    <2>2. o \in MigrationObjects /\ Guarded(o)
      BY Zenon, <2>1, ObjFacts DEF MigrationInv
    <2> QED
      BY Zenon, <2>1, <1>HandlerGoesOn DEF PrepareRegister
  \* The origin is ready.
  <1>PrepareBlockStep.
      ASSUME MigrationInv, NEW s \in Shards, NEW m \in Migrations, PrepareBlock(s, m)
      PROVE  MigrationInv'
    <2> USE <1>PrepareBlockStep
    <2> DEFINE o == Obj(s, m)
    <2>1. ~At(s, m, "idle") /\ o.phase \notin Terminal \cup {""} /\ UNCHANGED <<mig, life>>
      BY Zenon, <1>Midway DEF PrepareBlock, outside, MigrationInv
    <2>2. o \in MigrationObjects /\ Guarded(o)
      BY Zenon, <2>1, ObjFacts DEF MigrationInv
    <2> DEFINE new == [o EXCEPT !.phase = "Migrating"]
    <2>3. Return(s, m, new, FALSE)
      BY Zenon DEF PrepareBlock
    <2>4. new \in MigrationObjects /\ new.fin = o.fin /\ new.origin = o.origin
      BY Zenon, <2>2 DEF MigrationObjects, Phases
    <2> QED
      BY Zenon, <2>1, <2>2, <2>3, <2>4, <1>Advance, <1>HandlerReturns
  \* Access is allowed after a cancellation.
  <1>CancellationReleaseStep.
      ASSUME MigrationInv, NEW s \in Shards, NEW m \in Migrations, CancellationRelease(s, m)
      PROVE  MigrationInv'
    <2> USE <1>CancellationReleaseStep
    <2> DEFINE o == Obj(s, m)
    <2>1. ~At(s, m, "idle") /\ o.phase \notin Terminal \cup {""} /\ UNCHANGED <<mig, life>>
      BY Zenon, <1>Midway DEF CancellationRelease, outside, MigrationInv
    <2>2. o \in MigrationObjects /\ Guarded(o)
      BY Zenon, <2>1, ObjFacts DEF MigrationInv
    <2> DEFINE new == [o EXCEPT !.phase = "Cancelled"]
    <2>3. Return(s, m, new, TRUE)
      BY Zenon DEF CancellationRelease
    <2>4. new \in MigrationObjects /\ new.fin = o.fin /\ new.origin = o.origin
      BY Zenon, <2>2 DEF MigrationObjects, Phases
    <2> QED
      BY Zenon, <2>1, <2>2, <2>3, <2>4, <1>Advance, <1>HandlerReturns
  \* Access is allowed on the destination.
  <1>DestinationReleaseStep.
      ASSUME MigrationInv, NEW s \in Shards, NEW m \in Migrations, DestinationRelease(s, m)
      PROVE  MigrationInv'
    <2> USE <1>DestinationReleaseStep
    <2> DEFINE o == Obj(s, m)
    <2>1. ~At(s, m, "idle") /\ o.phase \notin Terminal \cup {""} /\ UNCHANGED <<mig, life>>
      BY Zenon, <1>Midway DEF DestinationRelease, outside, MigrationInv
    <2>2. o \in MigrationObjects /\ Guarded(o)
      BY Zenon, <2>1, ObjFacts DEF MigrationInv
    <2> DEFINE new == [o EXCEPT !.phase = "Completed"]
    <2>3. Return(s, m, new, FALSE) \/ Return(s, m, Obj(s, m), TRUE)
      BY Zenon DEF DestinationRelease, Fails
    <2>4. new \in MigrationObjects /\ new.fin = o.fin /\ new.origin = o.origin
      BY Zenon, <2>2 DEF MigrationObjects, Phases
    <2>5. CASE Return(s, m, new, FALSE)
      BY Zenon, <2>1, <2>2, <2>4, <2>5, <1>Advance, <1>HandlerReturns
    <2>6. CASE Return(s, m, Obj(s, m), TRUE)
      BY Zenon, <2>1, <2>6, <1>HandlerFails
    <2> QED
      BY Zenon, <2>3, <2>5, <2>6
  \* The owner of the registration is checked.
  <1>CancellationCheckStep.
      ASSUME MigrationInv, NEW s \in Shards, NEW m \in Migrations, CancellationCheck(s, m)
      PROVE  MigrationInv'
    <2> USE <1>CancellationCheckStep
    <2> DEFINE o == Obj(s, m)
    <2>1. ~At(s, m, "idle") /\ o.phase \notin Terminal \cup {""} /\ UNCHANGED <<mig, life>>
      BY Zenon, <1>Midway DEF CancellationCheck, outside, MigrationInv
    <2>2. o \in MigrationObjects /\ Guarded(o)
      BY Zenon, <2>1, ObjFacts DEF MigrationInv
    <2>3. Goto(s, m, "release") \/ Return(s, m, Obj(s, m), TRUE)
      BY Zenon DEF CancellationCheck
    <2>4. CASE Goto(s, m, "release")
      BY Zenon, <2>1, <2>4, <1>HandlerGoesOn
    <2>5. CASE Return(s, m, Obj(s, m), TRUE)
      BY Zenon, <2>1, <2>5, <1>HandlerFails
    <2> QED
      BY Zenon, <2>3, <2>4, <2>5
  \* reconcileMigrating: a page is copied, or not.
  <1>MigrateStep.
      ASSUME MigrationInv, NEW s \in Shards, NEW m \in Migrations, Migrate(s, m)
      PROVE  MigrationInv'
    <2> USE <1>MigrateStep
    <2> DEFINE o == Obj(s, m)
    <2>1. At(s, m, "reconcile") /\ ~At(s, m, "idle") /\ UNCHANGED <<mig, life>>
      BY Zenon, AtReconcile DEF Migrate, Handles, outside
    <2>2. o \in MigrationObjects /\ Guarded(o)
      BY Zenon, <2>1, ObjFacts DEF MigrationInv
    <2>3. o.phase \notin Terminal \cup {""}
      BY Zenon DEF Migrate, Handles, Terminal
    <2>4. \/ \E p \in Pages(o.origin, o.cont) :
                Return(s, m, [o EXCEPT !.cont = p.next, !.copied = p.next = 0,
                        !.phase = IF p.next = 0 THEN "OriginCleanup" ELSE @], p.next # 0)
          \/ Return(s, m, Obj(s, m), TRUE)
      BY Zenon DEF Migrate, CopyFails, Fails
    <2>5. ASSUME NEW p \in Pages(o.origin, o.cont),
                 Return(s, m, [o EXCEPT !.cont = p.next, !.copied = p.next = 0,
                        !.phase = IF p.next = 0 THEN "OriginCleanup" ELSE @], p.next # 0)
          PROVE  MigrationInv'
      <3> DEFINE new == [o EXCEPT !.cont = p.next, !.copied = p.next = 0,
                        !.phase = IF p.next = 0 THEN "OriginCleanup" ELSE @]
      <3>1. p.next \in 0..NumKeys
        BY Zenon, <1>PageNext
      <3>2. new \in MigrationObjects /\ new.fin = o.fin /\ new.origin = o.origin
        BY Zenon, <2>2, <3>1 DEF MigrationObjects, Phases
      <3>3. Guarded(new) /\ Follows(o, new)
        BY Zenon, <2>2, <2>3, <3>2, <1>Advance
      <3> QED
        BY Zenon, <2>1, <2>5, <3>2, <3>3, <1>HandlerReturns
    <2>6. CASE Return(s, m, Obj(s, m), TRUE)
      BY Zenon, <2>1, <2>6, <1>HandlerFails
    <2> QED
      BY Zenon, <2>4, <2>5, <2>6
  \* reconcileRestoring: a page is copied back, or not.
  <1>RestoreStep.
      ASSUME MigrationInv, NEW s \in Shards, NEW m \in Migrations, Restore(s, m)
      PROVE  MigrationInv'
    <2> USE <1>RestoreStep
    <2> DEFINE o == Obj(s, m)
    <2>1. At(s, m, "reconcile") /\ ~At(s, m, "idle") /\ UNCHANGED <<mig, life>>
      BY Zenon, AtReconcile DEF Restore, Handles, outside
    <2>2. o \in MigrationObjects /\ Guarded(o)
      BY Zenon, <2>1, ObjFacts DEF MigrationInv
    <2>3. o.phase \notin Terminal \cup {""}
      BY Zenon DEF Restore, Handles, Terminal
    <2>4. \/ \E p \in Pages(Dest[m], o.cont) : Return(s, m, [o EXCEPT !.cont = p.next,
                        !.phase = IF p.next = 0 THEN "CancellationCleanup" ELSE @], TRUE)
          \/ Return(s, m, Obj(s, m), TRUE)
      BY Zenon DEF Restore, CopyFails, Fails
    <2>5. ASSUME NEW p \in Pages(Dest[m], o.cont), Return(s, m, [o EXCEPT !.cont = p.next,
                        !.phase = IF p.next = 0 THEN "CancellationCleanup" ELSE @], TRUE)
          PROVE  MigrationInv'
      <3> DEFINE new == [o EXCEPT !.cont = p.next,
                        !.phase = IF p.next = 0 THEN "CancellationCleanup" ELSE @]
      <3>1. p.next \in 0..NumKeys
        BY Zenon, <1>PageNext
      <3>2. new \in MigrationObjects /\ new.fin = o.fin /\ new.origin = o.origin
        BY Zenon, <2>2, <3>1 DEF MigrationObjects, Phases
      <3>3. Guarded(new) /\ Follows(o, new)
        BY Zenon, <2>2, <2>3, <3>2, <1>Advance
      <3> QED
        BY Zenon, <2>1, <2>5, <3>2, <3>3, <1>HandlerReturns
    <2>6. CASE Return(s, m, Obj(s, m), TRUE)
      BY Zenon, <2>1, <2>6, <1>HandlerFails
    <2> QED
      BY Zenon, <2>4, <2>5, <2>6
  \* reconcileOriginCleanup.
  <1>OriginCleanupStep.
      ASSUME MigrationInv, NEW s \in Shards, NEW m \in Migrations, OriginCleanup(s, m)
      PROVE  MigrationInv'
    <2> USE <1>OriginCleanupStep
    <2> DEFINE o == Obj(s, m)
    <2>1. At(s, m, "reconcile") /\ ~At(s, m, "idle") /\ UNCHANGED <<mig, life>>
      BY Zenon, AtReconcile DEF OriginCleanup, Handles, outside
    <2>2. o \in MigrationObjects /\ Guarded(o)
      BY Zenon, <2>1, ObjFacts DEF MigrationInv
    <2>3. o.phase \notin Terminal \cup {""}
      BY Zenon DEF OriginCleanup, Handles, Terminal
    <2>4. \/ Return(s, m, [o EXCEPT !.originCleaned = TRUE, !.phase = "DestinationFinalize"], FALSE)
          \/ Return(s, m, Obj(s, m), TRUE)
      BY Zenon DEF OriginCleanup, Fails, DeleteFails
    <2>5. CASE Return(s, m, [o EXCEPT !.originCleaned = TRUE, !.phase = "DestinationFinalize"], FALSE)
      <3> DEFINE new == [o EXCEPT !.originCleaned = TRUE, !.phase = "DestinationFinalize"]
      <3>1. new \in MigrationObjects /\ new.fin = o.fin /\ new.origin = o.origin
        BY Zenon, <2>2 DEF MigrationObjects, Phases
      <3>2. Guarded(new) /\ Follows(o, new)
        BY Zenon, <2>2, <2>3, <3>1, <1>Advance
      <3> QED
        BY Zenon, <2>1, <2>5, <3>1, <3>2, <1>HandlerReturns
    <2>6. CASE Return(s, m, Obj(s, m), TRUE)
      BY Zenon, <2>1, <2>6, <1>HandlerFails
    <2> QED
      BY Zenon, <2>4, <2>5, <2>6
  \* reconcileDestinationFinalize up to the annotation.
  <1>DestinationFinalizeStep.
      ASSUME MigrationInv, NEW s \in Shards, NEW m \in Migrations, DestinationFinalize(s, m)
      PROVE  MigrationInv'
    <2> USE <1>DestinationFinalizeStep
    <2> DEFINE o == Obj(s, m)
    <2>1. At(s, m, "reconcile") /\ ~At(s, m, "idle") /\ UNCHANGED <<mig, life>>
      BY Zenon, AtReconcile DEF DestinationFinalize, Handles, outside
    <2>2. o \in MigrationObjects /\ Guarded(o)
      BY Zenon, <2>1, ObjFacts DEF MigrationInv
    <2>3. o.phase \notin Terminal \cup {""}
      BY Zenon DEF DestinationFinalize, Handles, Terminal
    <2>4. \/ Goto(s, m, "finalize")
          \/ Return(s, m, Obj(s, m), TRUE)
      BY Zenon DEF DestinationFinalize, Fails
    <2>5. CASE Goto(s, m, "finalize")
      BY Zenon, <2>1, <2>3, <2>5, <1>HandlerGoesOn
    <2>6. CASE Return(s, m, Obj(s, m), TRUE)
      BY Zenon, <2>1, <2>6, <1>HandlerFails
    <2> QED
      BY Zenon, <2>4, <2>5, <2>6
  \* The shard that waits keeps its copy blocked.
  <1>KeepBlockedStep.
      ASSUME MigrationInv, NEW s \in Shards, NEW m \in Migrations, KeepBlocked(s, m)
      PROVE  MigrationInv'
    <2> USE <1>KeepBlockedStep
    <2> DEFINE o == Obj(s, m)
    <2>1. At(s, m, "reconcile") /\ ~At(s, m, "idle") /\ UNCHANGED <<mig, life>>
      BY Zenon, AtReconcile DEF KeepBlocked, Handles, outside
    <2>2. o \in MigrationObjects /\ Guarded(o)
      BY Zenon, <2>1, ObjFacts DEF MigrationInv
    <2>3. o.phase \notin Terminal \cup {""}
      BY Zenon DEF KeepBlocked, Handles, Terminal
    <2>4. \/ Return(s, m, Obj(s, m), FALSE)
          \/ Return(s, m, Obj(s, m), TRUE)
      BY Zenon DEF KeepBlocked, Fails
    <2>5. CASE Return(s, m, Obj(s, m), FALSE)
      BY Zenon, <2>1, <2>5, <1>HandlerFails
    <2>6. CASE Return(s, m, Obj(s, m), TRUE)
      BY Zenon, <2>1, <2>6, <1>HandlerFails
    <2> QED
      BY Zenon, <2>4, <2>5, <2>6
  \* blockForCancellation.
  <1>BlockForCancellationStep.
      ASSUME MigrationInv, NEW s \in Shards, NEW m \in Migrations, BlockForCancellation(s, m)
      PROVE  MigrationInv'
    <2> USE <1>BlockForCancellationStep
    <2> DEFINE o == Obj(s, m)
    <2>1. At(s, m, "reconcile") /\ ~At(s, m, "idle") /\ UNCHANGED <<mig, life>>
      BY Zenon, AtReconcile DEF BlockForCancellation, Handles, outside
    <2>2. o \in MigrationObjects /\ Guarded(o)
      BY Zenon, <2>1, ObjFacts DEF MigrationInv
    <2>3. o.phase \notin Terminal \cup {""}
      BY Zenon DEF BlockForCancellation, Handles, Terminal
    <2>4. \/ Return(s, m, [o EXCEPT !.phase = "Restoring"], o.phase = "CancellationPreparing")
          \/ Return(s, m, Obj(s, m), TRUE)
      BY Zenon DEF BlockForCancellation, Fails
    <2>5. CASE Return(s, m, [o EXCEPT !.phase = "Restoring"], o.phase = "CancellationPreparing")
      <3> DEFINE new == [o EXCEPT !.phase = "Restoring"]
      <3>1. new \in MigrationObjects /\ new.fin = o.fin /\ new.origin = o.origin
        BY Zenon, <2>2 DEF MigrationObjects, Phases
      <3>2. Guarded(new) /\ Follows(o, new)
        BY Zenon, <2>2, <2>3, <3>1, <1>Advance
      <3> QED
        BY Zenon, <2>1, <2>5, <3>1, <3>2, <1>HandlerReturns
    <2>6. CASE Return(s, m, Obj(s, m), TRUE)
      BY Zenon, <2>1, <2>6, <1>HandlerFails
    <2> QED
      BY Zenon, <2>4, <2>5, <2>6
  \* reconcileCancellationCleanup.
  <1>CancellationCleanupStep.
      ASSUME MigrationInv, NEW s \in Shards, NEW m \in Migrations, CancellationCleanup(s, m)
      PROVE  MigrationInv'
    <2> USE <1>CancellationCleanupStep
    <2> DEFINE o == Obj(s, m)
    <2>1. At(s, m, "reconcile") /\ ~At(s, m, "idle") /\ UNCHANGED <<mig, life>>
      BY Zenon, AtReconcile DEF CancellationCleanup, Handles, outside
    <2>2. o \in MigrationObjects /\ Guarded(o)
      BY Zenon, <2>1, ObjFacts DEF MigrationInv
    <2>3. o.phase \notin Terminal \cup {""}
      BY Zenon DEF CancellationCleanup, Handles, Terminal
    <2>4. \/ Return(s, m, [o EXCEPT !.phase = "CancellationFinalize"], TRUE)
          \/ Return(s, m, Obj(s, m), TRUE)
      BY Zenon DEF CancellationCleanup, Fails, DeleteFails
    <2>5. CASE Return(s, m, [o EXCEPT !.phase = "CancellationFinalize"], TRUE)
      <3> DEFINE new == [o EXCEPT !.phase = "CancellationFinalize"]
      <3>1. new \in MigrationObjects /\ new.fin = o.fin /\ new.origin = o.origin
        BY Zenon, <2>2 DEF MigrationObjects, Phases
      <3>2. Guarded(new) /\ Follows(o, new)
        BY Zenon, <2>2, <2>3, <3>1, <1>Advance
      <3> QED
        BY Zenon, <2>1, <2>5, <3>1, <3>2, <1>HandlerReturns
    <2>6. CASE Return(s, m, Obj(s, m), TRUE)
      BY Zenon, <2>1, <2>6, <1>HandlerFails
    <2> QED
      BY Zenon, <2>4, <2>5, <2>6
  \* finalizeCancellation up to the annotation.
  <1>CancellationFinalizeStep.
      ASSUME MigrationInv, NEW s \in Shards, NEW m \in Migrations, CancellationFinalize(s, m)
      PROVE  MigrationInv'
    <2> USE <1>CancellationFinalizeStep
    <2> DEFINE o == Obj(s, m)
    <2>1. At(s, m, "reconcile") /\ ~At(s, m, "idle") /\ UNCHANGED <<mig, life>>
      BY Zenon, AtReconcile DEF CancellationFinalize, Handles, outside
    <2>2. o \in MigrationObjects /\ Guarded(o)
      BY Zenon, <2>1, ObjFacts DEF MigrationInv
    <2>3. o.phase \notin Terminal \cup {""}
      BY Zenon DEF CancellationFinalize, Handles, Terminal
    <2>4. \/ Return(s, m, [o EXCEPT !.phase = "Cancelled"], TRUE)
          \/ Goto(s, m, "check")
          \/ Return(s, m, Obj(s, m), TRUE)
      BY Zenon DEF CancellationFinalize, Fails
    <2>5. CASE Return(s, m, [o EXCEPT !.phase = "Cancelled"], TRUE)
      <3> DEFINE new == [o EXCEPT !.phase = "Cancelled"]
      <3>1. new \in MigrationObjects /\ new.fin = o.fin /\ new.origin = o.origin
        BY Zenon, <2>2 DEF MigrationObjects, Phases
      <3>2. Guarded(new) /\ Follows(o, new)
        BY Zenon, <2>2, <2>3, <3>1, <1>Advance
      <3> QED
        BY Zenon, <2>1, <2>5, <3>1, <3>2, <1>HandlerReturns
    <2>6. CASE Goto(s, m, "check")
      BY Zenon, <2>1, <2>3, <2>6, <1>HandlerGoesOn
    <2>7. CASE Return(s, m, Obj(s, m), TRUE)
      BY Zenon, <2>1, <2>7, <1>HandlerFails
    <2> QED
      BY Zenon, <2>4, <2>5, <2>6, <2>7
  \* reconcileAborting.
  <1>AbortStep.
      ASSUME MigrationInv, NEW s \in Shards, NEW m \in Migrations, Abort(s, m)
      PROVE  MigrationInv'
    <2> USE <1>AbortStep
    <2> DEFINE o == Obj(s, m)
    <2>1. At(s, m, "reconcile") /\ ~At(s, m, "idle") /\ UNCHANGED <<mig, life>>
      BY Zenon, AtReconcile DEF Abort, Handles, outside
    <2>2. o \in MigrationObjects /\ Guarded(o)
      BY Zenon, <2>1, ObjFacts DEF MigrationInv
    <2> DEFINE originCleaned == o.originCleaned \/ IsOrigin(s, o)
               destCleaned == o.destCleaned \/ IsDestination(s, m)
               new == [o EXCEPT !.originCleaned = originCleaned, !.destCleaned = destCleaned,
                           !.phase = IF originCleaned /\ (destCleaned \/ ~o.copied)
                                     THEN "Failed" ELSE @]
    <2>3. o.phase \notin Terminal \cup {""}
      BY Zenon DEF Abort, Handles, Terminal
    <2>4. Return(s, m, new, FALSE) \/ Return(s, m, Obj(s, m), TRUE)
      BY Zenon DEF Abort, DeleteFails
    <2>5. CASE Return(s, m, new, FALSE)
      <3>1. originCleaned \in BOOLEAN /\ destCleaned \in BOOLEAN
        BY Zenon, <2>2 DEF MigrationObjects, IsOrigin, IsDestination
      <3> HIDE DEF originCleaned, destCleaned
      <3>2. new \in MigrationObjects /\ new.fin = o.fin /\ new.origin = o.origin
        BY Zenon, <2>2, <3>1 DEF MigrationObjects, Phases
      <3>3. Guarded(new) /\ Follows(o, new)
        BY Zenon, <2>2, <2>3, <3>2, <1>Advance
      <3> QED
        BY Zenon, <2>1, <2>5, <3>2, <3>3, <1>HandlerReturns
    <2>6. CASE Return(s, m, Obj(s, m), TRUE)
      BY Zenon, <2>1, <2>6, <1>HandlerFails
    <2> QED
      BY Zenon, <2>4, <2>5, <2>6
  \* The finalizer is removed in the final phases.
  <1>RemoveFinalizerStep.
      ASSUME MigrationInv, NEW s \in Shards, NEW m \in Migrations, RemoveFinalizer(s, m)
      PROVE  MigrationInv'
    <2> USE <1>RemoveFinalizerStep
    <2> DEFINE o == Obj(s, m)
    <2>1. At(s, m, "reconcile") /\ ~At(s, m, "idle") /\ UNCHANGED <<mig, life>>
      BY Zenon, AtReconcile DEF RemoveFinalizer, Handles, outside
    <2>2. o \in MigrationObjects /\ Guarded(o)
      BY Zenon, <2>1, ObjFacts DEF MigrationInv
    <2> DEFINE new == [o EXCEPT !.fin = FALSE]
    <2>3. Return(s, m, new, FALSE) /\ o.phase \in Terminal
      BY Zenon DEF RemoveFinalizer, Terminal
    <2>4. new \in MigrationObjects /\ new.phase = o.phase /\ new.origin = o.origin
      BY Zenon, <2>2 DEF MigrationObjects
    <2> QED
      BY Zenon, <2>1, <2>3, <2>4, <1>HandlerReturns DEF Guarded, Follows
  \* A migration is created: it is as it was first.
  <1>CreateMigrationStep.
      ASSUME MigrationInv, NEW m \in Migrations, CreateMigration(m)
      PROVE  MigrationInv'
    <2> USE <1>CreateMigrationStep
    <2>1. WorkersInv'
      BY Zenon, <1>WorkersStay DEF CreateMigration, MigrationInv
    <2>2. mig[m] = NewMigration /\ ~mig[m].deleting
      <3>1. mig[m] = NewMigration
        BY Zenon DEF CreateMigration, MigrationInv, ObjectsInv
      <3>2. ~NewMigration.deleting
        BY Zenon DEF NewMigration
      <3> QED
        BY Zenon, <3>1, <3>2
    <2>3. ObjectsInv'
      BY Zenon, <2>2 DEF CreateMigration, MigrationInv, ObjectsInv, Guarded
    <2> QED
      BY Zenon, <2>1, <2>3 DEF MigrationInv
  \* A migration is deleted: it is gone at once only without its finalizer.
  <1>DeleteMigrationStep.
      ASSUME MigrationInv, NEW m \in Migrations, DeleteMigration(m)
      PROVE  MigrationInv'
    <2> USE <1>DeleteMigrationStep
    <2> DEFINE new == [mig[m] EXCEPT !.deleting = TRUE]
    <2>1. WorkersInv'
      BY Zenon, <1>WorkersStay DEF DeleteMigration, MigrationInv
    <2>2. /\ mig \in [Migrations -> MigrationObjects]
          /\ life \in [Migrations -> {"unborn", "exists", "gone"}]
          /\ life[m] = "exists" /\ Guarded(mig[m])
      BY Zenon DEF DeleteMigration, MigrationInv, ObjectsInv
    <2>3. /\ mig' = [mig EXCEPT ![m] = new]
          /\ life' = [life EXCEPT ![m] = IF mig[m].fin THEN @ ELSE "gone"]
      BY Zenon, <2>2 DEF DeleteMigration
    <2>4. new \in MigrationObjects /\ new.fin = mig[m].fin /\ new.phase = mig[m].phase
      BY Zenon, <2>2 DEF MigrationObjects
    <2>5. /\ mig' \in [Migrations -> MigrationObjects]
          /\ life' \in [Migrations -> {"unborn", "exists", "gone"}]
      BY Zenon, <2>2, <2>3, <2>4
    <2>6. ASSUME NEW n \in Migrations
          PROVE  /\ Guarded(mig'[n])
                 /\ life'[n] = "exists" /\ mig'[n].deleting => mig'[n].fin
                 /\ life'[n] = "gone" => ~mig'[n].fin
                 /\ life'[n] = "unborn" => mig'[n] = NewMigration
      <3>1. CASE n = m
        <4>1. mig'[n] = new /\ life'[n] = IF mig[m].fin THEN "exists" ELSE "gone"
          BY Zenon, <2>2, <2>3, <3>1
        <4> QED
          BY Zenon, <2>2, <2>4, <4>1 DEF Guarded
      <3>2. CASE n # m
        BY Zenon, <2>2, <2>3, <3>2 DEF MigrationInv, ObjectsInv
      <3> QED
        BY Zenon, <3>1, <3>2
    <2> QED
      BY Zenon, <2>1, <2>5, <2>6 DEF MigrationInv, ObjectsInv
  \* A restart leaves every worker of the shard idle.
  <1>RestartStep.
      ASSUME MigrationInv, NEW s \in Shards, Restart(s)
      PROVE  MigrationInv'
    <2> USE <1>RestartStep
    <2>1. ObjectsInv'
      BY Zenon, <1>ObjectsStay DEF Restart, MigrationInv
    <2>2. /\ worker \in [Shards -> [Migrations -> Workers]]
          /\ worker' = [worker EXCEPT ![s] = [m \in Migrations |-> Idle]]
      BY Zenon DEF Restart, MigrationInv, WorkersInv
    <2>3. worker' \in [Shards -> [Migrations -> Workers]]
      BY Zenon, <2>2, <1>IdleType
    <2>4. ASSUME NEW t \in Shards, NEW n \in Migrations
          PROVE  WorkerOK(worker'[t][n])
      <3>1. worker'[t][n] = Idle \/ worker'[t][n] = worker[t][n]
        BY Zenon, <2>2
      <3>2. WorkerOK(worker[t][n])
        BY Zenon DEF MigrationInv, WorkersInv
      <3> QED
        BY Zenon, <3>1, <3>2, <1>IdleType
    <2> QED
      BY Zenon, <2>1, <2>3, <2>4 DEF MigrationInv, WorkersInv
  \* A step that touches neither objects nor workers.
  <1>OtherSteps.
      ASSUME MigrationInv, UNCHANGED <<mig, life, worker>>
      PROVE  MigrationInv'
    BY Zenon, <1>OtherSteps, <1>ObjectsStay, <1>WorkersStay DEF MigrationInv
  \* Every step of a worker keeps the invariant.
  <1>ReconcileStep.
      ASSUME MigrationInv, NEW s \in Shards, NEW m \in Migrations, Reconcile(s, m)
      PROVE  MigrationInv'
    <2> USE <1>ReconcileStep
    <2>1. CASE Get(s, m)
      BY Zenon, <2>1, <1>GetStep
    <2>2. CASE StartCancellation(s, m)
      BY <2>2, <1>StartCancellationStep
    <2>3. CASE DetectLCDeletion(s, m)
      BY Zenon, <2>3, <1>DetectLCDeletionStep
    <2>4. CASE Wait(s, m)
      BY Zenon, <2>4, <1>WaitStep
    <2>5. CASE Start(s, m)
      BY Zenon, <2>5, <1>StartStep
    <2>6. CASE Prepare(s, m)
      BY Zenon, <2>6, <1>PrepareStep
    <2>7. CASE PrepareRegister(s, m)
      BY Zenon, <2>7, <1>PrepareRegisterStep
    <2>8. CASE PrepareBlock(s, m)
      BY Zenon, <2>8, <1>PrepareBlockStep
    <2>9. CASE Migrate(s, m)
      BY Zenon, <2>9, <1>MigrateStep
    <2>10. CASE OriginCleanup(s, m)
      BY Zenon, <2>10, <1>OriginCleanupStep
    <2>11. CASE DestinationFinalize(s, m)
      BY Zenon, <2>11, <1>DestinationFinalizeStep
    <2>12. CASE DestinationRelease(s, m)
      BY Zenon, <2>12, <1>DestinationReleaseStep
    <2>13. CASE Abort(s, m)
      BY Zenon, <2>13, <1>AbortStep
    <2>14. CASE RemoveFinalizer(s, m)
      BY Zenon, <2>14, <1>RemoveFinalizerStep
    <2>15. CASE KeepBlocked(s, m)
      BY Zenon, <2>15, <1>KeepBlockedStep
    <2>16. CASE BlockForCancellation(s, m)
      BY Zenon, <2>16, <1>BlockForCancellationStep
    <2>17. CASE Restore(s, m)
      BY Zenon, <2>17, <1>RestoreStep
    <2>18. CASE CancellationCleanup(s, m)
      BY Zenon, <2>18, <1>CancellationCleanupStep
    <2>19. CASE CancellationFinalize(s, m)
      BY Zenon, <2>19, <1>CancellationFinalizeStep
    <2>20. CASE CancellationCheck(s, m)
      BY Zenon, <2>20, <1>CancellationCheckStep
    <2>21. CASE CancellationRelease(s, m)
      BY Zenon, <2>21, <1>CancellationReleaseStep
    <2>22. CASE Commit(s, m)
      BY Zenon, <2>22, <1>CommitStep
    <2> QED
      BY Zenon, <2>1, <2>2, <2>3, <2>4, <2>5, <2>6, <2>7, <2>8, <2>9, <2>10, <2>11,
         <2>12, <2>13, <2>14, <2>15, <2>16, <2>17, <2>18, <2>19, <2>20, <2>21,
         <2>22 DEF Reconcile
  \* Every step keeps the invariant.
  <1>NextInv. MigrationInv /\ [Next]_vars => MigrationInv'
    <2> SUFFICES ASSUME MigrationInv, [Next]_vars PROVE MigrationInv'
      OBVIOUS
    <2>1. ASSUME NEW s \in Shards, NEW m \in Migrations, Reconcile(s, m)
          PROVE  MigrationInv'
      BY Zenon, <2>1, <1>ReconcileStep
    <2>2. ASSUME NEW m \in Migrations, CreateMigration(m) \/ DeleteMigration(m)
          PROVE  MigrationInv'
      BY Zenon, <2>2, <1>CreateMigrationStep, <1>DeleteMigrationStep
    <2>3. ASSUME NEW s \in Shards, Restart(s)
          PROVE  MigrationInv'
      BY Zenon, <2>3, <1>RestartStep
    <2>4. ASSUME NEW m \in Migrations, Replicate(m)
          PROVE  UNCHANGED <<mig, life, worker>>
      BY Zenon, <2>4 DEF Replicate
    <2>5. ASSUME NEW s \in Shards,
                 \/ Resync(s) \/ SyncLister(s) \/ IndexObserve(s) \/ IndexResync(s)
                 \/ DeleteLC(s)
          PROVE  UNCHANGED <<mig, life, worker>>
      BY Zenon, <2>5 DEF Resync, SyncLister, IndexObserve, IndexResync, DeleteLC
    <2>6. ASSUME \/ DeleteWorkspace \/ ClientApply \/ ClientAck \/ ClientFail
                 \/ UNCHANGED vars \/ \E k \in DataKeys : ClientStart(k)
          PROVE  UNCHANGED <<mig, life, worker>>
      BY Zenon, <2>6 DEF DeleteWorkspace, ClientApply, ClientAck, ClientFail, ClientStart, vars
    <2> QED
      BY Zenon, <2>1, <2>2, <2>3, <2>4, <2>5, <2>6, <1>OtherSteps DEF Next
  <1> QED
    BY <1>InitInv, <1>NextInv, PTL DEF Spec

\* A migration object that is gone had not begun or had ended: the finalizer is
\* persisted before the first side effect of reconcile and removed after the last.
THEOREM NeverVanishesTheorem == Spec => []NeverVanishes
  <1>1. MigrationInv => NeverVanishes
    BY Zenon DEF MigrationInv, ObjectsInv, NeverVanishes, Guarded
  <1> QED
    BY <1>1, MigrationInvariant, PTL

\* How a migration ended, and the origin it recorded, are never rewritten: the
\* committer refuses what was computed from an old object, and no handler of an
\* ended migration changes its phase.
THEOREM OutcomeIsFinalTheorem == Spec => OutcomeIsFinal
  \* Only a commit and a deletion change a migration object, and neither changes an
  \* outcome or a recorded origin.
  <1>OutcomeStep.
      MigrationInv /\ [Next]_vars =>
          [\A m \in Migrations :
              /\ mig[m].phase \in Terminal => mig'[m].phase = mig[m].phase
              /\ mig[m].origin # None => mig'[m].origin = mig[m].origin]_vars
    <2> SUFFICES ASSUME MigrationInv, Next, NEW n \in Migrations
                 PROVE  Follows(mig[n], mig'[n])
      BY Zenon DEF Follows
    <2>1. mig \in [Migrations -> MigrationObjects]
      BY Zenon DEF MigrationInv, ObjectsInv
    <2>2. ASSUME NEW s \in Shards, NEW m \in Migrations, Commit(s, m)
          PROVE  Follows(mig[n], mig'[n])
      <3>1. worker[s][m].pc = "commit" /\ WorkerOK(worker[s][m])
        BY Zenon, <2>2 DEF Commit, At, MigrationInv, WorkersInv
      <3>2. Follows(worker[s][m].obj, worker[s][m].new)
        BY Zenon, <3>1 DEF WorkerOK
      <3>3. \/ UNCHANGED mig
            \/ mig[m] = worker[s][m].obj /\ mig' = [mig EXCEPT ![m] = worker[s][m].new]
        BY Zenon, <2>2 DEF Commit
      <3>4. mig'[n] = mig[n] \/ (mig[n] = worker[s][m].obj /\ mig'[n] = worker[s][m].new)
        BY Zenon, <2>1, <3>3
      <3> QED
        BY Zenon, <3>2, <3>4 DEF Follows
    <2>3. ASSUME NEW m \in Migrations, DeleteMigration(m)
          PROVE  Follows(mig[n], mig'[n])
      BY Zenon, <2>1, <2>3 DEF DeleteMigration, Follows, MigrationObjects
    <2>4. CASE UNCHANGED mig
      BY Zenon, <2>4 DEF Follows
    <2>5. ASSUME NEW s \in Shards, NEW m \in Migrations, Reconcile(s, m), ~Commit(s, m)
          PROVE  UNCHANGED mig
      BY Zenon, <2>5 DEF Reconcile, outside, Get, StartCancellation, DetectLCDeletion, Wait,
         Start, Prepare, PrepareRegister, PrepareBlock, Migrate, OriginCleanup,
         DestinationFinalize, DestinationRelease, Abort, RemoveFinalizer, KeepBlocked,
         BlockForCancellation, Restore, CancellationCleanup, CancellationFinalize,
         CancellationCheck, CancellationRelease
    <2>6. ASSUME NEW m \in Migrations, CreateMigration(m) \/ Replicate(m)
          PROVE  UNCHANGED mig
      BY Zenon, <2>6 DEF CreateMigration, Replicate
    <2>7. ASSUME NEW s \in Shards,
                 \/ Resync(s) \/ SyncLister(s) \/ IndexObserve(s) \/ IndexResync(s)
                 \/ DeleteLC(s) \/ Restart(s)
          PROVE  UNCHANGED mig
      BY Zenon, <2>7 DEF Resync, SyncLister, IndexObserve, IndexResync, DeleteLC, Restart
    <2>8. ASSUME \/ DeleteWorkspace \/ ClientApply \/ ClientAck \/ ClientFail
                 \/ \E k \in DataKeys : ClientStart(k)
          PROVE  UNCHANGED mig
      BY Zenon, <2>8 DEF DeleteWorkspace, ClientApply, ClientAck, ClientFail, ClientStart
    <2> QED
      BY Zenon, <2>2, <2>3, <2>4, <2>5, <2>6, <2>7, <2>8 DEF Next
  <1> QED
    BY <1>OutcomeStep, MigrationInvariant, PTL DEF Spec, OutcomeIsFinal

-----------------------------------------------------------------------------
(* The types of the shards' state.                                         *)

\* The parts of TypeOK besides the migration objects and the workers.
QueueType ==
    /\ cache \in [Migrations -> {"absent", "stale", "fresh"}]
    /\ queued \subseteq Shards \X Migrations

DataType ==
    /\ etcd \in [Shards -> [DataKeys -> Values \cup {None}]]
    /\ lc \in [Shards -> LCObjects \cup {None}]
    /\ feed \in [Shards -> Seq(LCObjects \cup {None})]
    /\ \A s \in Shards : feed[s] # <<>>

GateType ==
    /\ registry \in [Shards -> Migrations \cup {None}]
    /\ blocked \in [Shards -> BOOLEAN]
    /\ req \in [st : {"none", "admitted", "applied"}, shard : Shards \cup {None},
                k : DataKeys \cup {None}, read : Values \cup {None}, live : BOOLEAN]

RestType ==
    /\ lister \in [Shards -> LCObjects \cup {None}]
    /\ route \in Shards \cup {None}
    /\ acked \in [DataKeys -> Values]
    /\ written \in 0..MaxWrites
    /\ wsDeleted \in BOOLEAN
    /\ faults \in 0..MaxFaults

ShardType == QueueType /\ DataType /\ GateType /\ RestType

\* reconcilePreparing: an LC that the informer does not show is taken for deleted,
\* so the one that is annotated is there.
LEMMA PrepareSees ==
    ASSUME NEW s \in Shards, NEW m \in Migrations, Prepare(s, m)
    PROVE  lister[s] # None /\ ~lister[s].deleting /\ ~Obj(s, m).deleting
  BY Zenon DEF Prepare, Handles, StartsCancellation, SeesLCDeleted

\* The variables outside of the controller keep their types.
LEMMA TypeInvariant == Spec => []ShardType
  \* A shard's LC object is set.
  <1>SetLCType.
      ASSUME DataType, NEW s \in Shards, NEW x \in LCObjects \cup {None}, SetLC(s, x)
      PROVE  /\ lc' \in [Shards -> LCObjects \cup {None}]
             /\ feed' \in [Shards -> Seq(LCObjects \cup {None})]
             /\ \A t \in Shards : feed'[t] # <<>>
    <2> USE <1>SetLCType
    <2> DEFINE T == LCObjects \cup {None}
    <2>1. lc \in [Shards -> T] /\ feed \in [Shards -> Seq(T)] /\ \A t \in Shards : feed[t] # <<>>
      BY Zenon DEF DataType
    <2> HIDE DEF T
    <2>2. x \in T
      BY Zenon DEF T
    <2>3. lc' \in [Shards -> T]
      BY Zenon, <2>1, <2>2 DEF SetLC
    <2>4. Append(feed[s], x) \in Seq(T) /\ Append(feed[s], x) # <<>>
      BY <2>1, <2>2
    <2>5. feed' = [feed EXCEPT ![s] = IF x # lc[s] THEN Append(feed[s], x) ELSE feed[s]]
      BY Zenon DEF SetLC
    <2>6. feed' \in [Shards -> Seq(T)]
      BY Zenon, <2>1, <2>4, <2>5
    <2>7. \A t \in Shards : feed'[t] # <<>>
      BY Zenon, <2>1, <2>4, <2>5
    <2> QED
      BY Zenon, <2>3, <2>6, <2>7 DEF T
  \* An annotation is set.
  <1>SetAnnotationType.
      ASSUME DataType, NEW s \in Shards, NEW a \in Migrations \cup {None}, lc[s] # None,
             SetAnnotation(s, a), UNCHANGED etcd
      PROVE  DataType'
    <2> USE <1>SetAnnotationType
    <2>1. lc[s] \in LCObjects
      BY Zenon DEF DataType
    <2>2. [lc[s] EXCEPT !.ann = a] \in LCObjects
      BY Zenon, <2>1 DEF LCObjects
    <2> QED
      BY Zenon, <2>2, <1>SetLCType DEF SetAnnotation, DataType
  \* Data is deleted.
  <1>WipeType.
      ASSUME DataType, NEW s \in Shards, NEW D, Wipe(s, D)
      PROVE  DataType'
    <2> USE <1>WipeType
    <2> DEFINE x == IF LCKey \in D THEN None ELSE lc[s]
    <2>1. x \in LCObjects \cup {None}
      BY Zenon DEF DataType
    <2>2. SetLC(s, x)
      BY Zenon DEF Wipe
    <2>3. etcd \in [Shards -> [DataKeys -> Values \cup {None}]]
      BY Zenon DEF DataType
    <2>4. [k \in DataKeys |-> IF k \in D THEN None ELSE etcd[s][k]] \in [DataKeys -> Values \cup {None}]
      BY Zenon, <2>3
    <2>5. etcd' = [etcd EXCEPT ![s] = [k \in DataKeys |-> IF k \in D THEN None ELSE etcd[s][k]]]
      BY Zenon DEF Wipe
    <2>6. etcd' \in [Shards -> [DataKeys -> Values \cup {None}]]
      BY Zenon, <2>3, <2>4, <2>5
    <2> HIDE DEF x
    <2> QED
      BY Zenon, <2>1, <2>2, <2>6, <1>SetLCType DEF DataType
  \* Data is copied.
  <1>WriteType.
      ASSUME DataType, NEW s \in Shards, NEW src \in Shards, NEW P, Write(s, src, P)
      PROVE  DataType'
    <2> USE <1>WriteType
    <2> DEFINE x == IF LCKey \in P THEN lc[src] ELSE lc[s]
               d == [k \in DataKeys |-> IF k \in P THEN etcd[src][k] ELSE etcd[s][k]]
    <2>1. x \in LCObjects \cup {None}
      BY Zenon DEF DataType
    <2>2. SetLC(s, x)
      BY Zenon DEF Write
    <2>3. etcd \in [Shards -> [DataKeys -> Values \cup {None}]]
      BY Zenon DEF DataType
    <2>4. d \in [DataKeys -> Values \cup {None}]
      BY Zenon, <2>3
    <2>5. etcd' = [etcd EXCEPT ![s] = d]
      BY Zenon DEF Write
    <2> HIDE DEF x, d
    <2>6. etcd' \in [Shards -> [DataKeys -> Values \cup {None}]]
      BY Zenon, <2>3, <2>4, <2>5
    <2> QED
      BY Zenon, <2>1, <2>2, <2>6, <1>SetLCType DEF DataType
  \* Requests are stopped.
  <1>StopType.
      ASSUME GateType, NEW s \in Shards, StopRequests(s)
      PROVE  req' \in [st : {"none", "admitted", "applied"}, shard : Shards \cup {None},
                       k : DataKeys \cup {None}, read : Values \cup {None}, live : BOOLEAN]
    <2> USE <1>StopType
    <2>1. (req.live /\ req.shard # s) \in BOOLEAN
      OBVIOUS
    <2>2. req' = [req EXCEPT !.live = req.live /\ req.shard # s]
      BY Zenon DEF StopRequests
    <2> QED
      BY Zenon, <2>1, <2>2 DEF GateType
  \* The gate of one shard changes: its registration, its context, or both.
  <1>GateChanges.
      ASSUME GateType, NEW s \in Shards,
             \/ UNCHANGED registry
             \/ \E r \in Migrations \cup {None} : registry' = [registry EXCEPT ![s] = r],
             \/ UNCHANGED <<blocked, req>>
             \/ CancelContext(s) \/ DeleteContext(s)
      PROVE  GateType'
    <2> USE <1>GateChanges
    <2>1. registry' \in [Shards -> Migrations \cup {None}]
      BY Zenon DEF GateType
    <2>2. CASE UNCHANGED <<blocked, req>>
      BY Zenon, <2>1, <2>2 DEF GateType
    <2>3. CASE CancelContext(s) \/ DeleteContext(s)
      <3>1. blocked' \in [Shards -> BOOLEAN]
        BY Zenon, <2>3 DEF CancelContext, DeleteContext, GateType
      <3>2. StopRequests(s)
        BY Zenon, <2>3 DEF CancelContext, DeleteContext
      <3> QED
        BY Zenon, <2>1, <3>1, <3>2, <1>StopType DEF GateType
    <2> QED
      BY Zenon, <2>2, <2>3
  \* A worker's key is queued again, or not.
  <1>ReturnType.
      ASSUME QueueType, NEW s \in Shards, NEW m \in Migrations, UNCHANGED cache,
             \/ \E new, rq : Return(s, m, new, rq)
             \/ \E p : Goto(s, m, p)
      PROVE  QueueType'
    <2> USE <1>ReturnType
    <2>1. queued' = queued \/ queued' = queued \cup {<<s, m>>}
      BY Zenon DEF Return, Requeue, Goto
    <2> QED
      BY <2>1 DEF QueueType
  \* A call fails, or not.
  <1>FaultType.
      ASSUME RestType, Fault \/ UNCHANGED faults,
             UNCHANGED <<lister, route, acked, written, wsDeleted>>
      PROVE  RestType'
    <2> USE <1>FaultType
    <2>1. faults' \in 0..MaxFaults
      BY ConstantsAssumption DEF RestType, Fault
    <2> QED
      BY Zenon, <2>1 DEF RestType
  \* A step of a worker, by what it does to its shard.
  <1>StepType.
      ASSUME ShardType, NEW s \in Shards, NEW m \in Migrations, UNCHANGED outside,
             \/ \E new, rq : Return(s, m, new, rq)
             \/ \E p : Goto(s, m, p),
             DataType', GateType', Fault \/ UNCHANGED faults
      PROVE  ShardType'
    <2> USE <1>StepType
    <2>1. QueueType'
      BY Zenon, <1>ReturnType DEF ShardType, outside
    <2>2. RestType'
      BY Zenon, <1>FaultType DEF ShardType, outside
    <2> QED
      BY Zenon, <2>1, <2>2 DEF ShardType
  \* The data is left alone.
  <1>DataStays.
      ASSUME DataType, UNCHANGED <<etcd, lc, feed>>
      PROVE  DataType'
    BY Zenon, <1>DataStays DEF DataType
  \* The registrations and the contexts are left alone.
  <1>GateStays.
      ASSUME GateType, UNCHANGED <<registry, blocked, req>>
      PROVE  GateType'
    BY Zenon, <1>GateStays DEF GateType
  \* The handlers that change nothing of the shard.
  <1>IdleHandlersType.
      ASSUME ShardType, NEW s \in Shards, NEW m \in Migrations,
             \/ StartCancellation(s, m) \/ DetectLCDeletion(s, m) \/ Wait(s, m)
             \/ Start(s, m) \/ RemoveFinalizer(s, m) \/ CancellationCheck(s, m)
      PROVE  ShardType'
    <2> USE <1>IdleHandlersType
    <2>1. UNCHANGED <<outside, etcd, lc, feed, registry, blocked, req, faults>>
      BY Zenon DEF StartCancellation, DetectLCDeletion, Wait, Start, RemoveFinalizer,
         CancellationCheck
    <2>2. \/ \E new, rq : Return(s, m, new, rq)
          \/ \E p : Goto(s, m, p)
      BY Zenon DEF StartCancellation, DetectLCDeletion, Wait, Start, RemoveFinalizer,
         CancellationCheck
    <2>3. DataType' /\ GateType'
      BY Zenon, <2>1, <1>DataStays, <1>GateStays DEF ShardType
    <2> QED
      BY Zenon, <2>1, <2>2, <2>3, <1>StepType
  \* A handler that fails.
  <1>FailsType.
      ASSUME ShardType, NEW s \in Shards, NEW m \in Migrations, Fails(s, m),
             UNCHANGED outside, Fault \/ UNCHANGED faults
      PROVE  ShardType'
    <2> USE <1>FailsType
    <2>1. UNCHANGED <<etcd, lc, feed, registry, blocked, req>> /\ Return(s, m, Obj(s, m), TRUE)
      BY Zenon DEF Fails
    <2>3. DataType' /\ GateType'
      BY Zenon, <2>1, <1>DataStays, <1>GateStays DEF ShardType
    <2> QED
      BY Zenon, <2>1, <2>3, <1>StepType
  \* reconcilePreparing up to the annotation keeps the types.
  <1>PrepareType.
      ASSUME ShardType, NEW s \in Shards, NEW m \in Migrations, Prepare(s, m)
      PROVE  ShardType'
    <2> USE <1>PrepareType
    <2>1. \/ \E new, rq : Return(s, m, new, rq)
          \/ \E p : Goto(s, m, p)
      BY Zenon DEF Prepare, Fails
    <2>2. UNCHANGED <<outside, registry, blocked, req, faults, etcd>>
      BY Zenon DEF Prepare, Fails
    <2>3. \/ UNCHANGED <<lc, feed>>
          \/ lc[s] = lister[s] /\ SetAnnotation(s, m)
      BY Zenon DEF Prepare, Fails
    <2>4. DataType'
      BY Zenon, <2>2, <2>3, PrepareSees, <1>DataStays, <1>SetAnnotationType DEF ShardType
    <2> QED
      BY Zenon, <2>1, <2>2, <2>4, <1>GateStays, <1>StepType DEF ShardType
  \* The rest of reconcilePreparing: the registration and the cancelled context.
  <1>PrepareRestType.
      ASSUME ShardType, NEW s \in Shards, NEW m \in Migrations,
             PrepareRegister(s, m) \/ PrepareBlock(s, m)
      PROVE  ShardType'
    <2> USE <1>PrepareRestType
    <2>1. \/ \E new, rq : Return(s, m, new, rq)
          \/ \E p : Goto(s, m, p)
      BY Zenon DEF PrepareRegister, PrepareBlock
    <2>2. UNCHANGED <<outside, etcd, lc, feed, faults>>
      BY Zenon DEF PrepareRegister, PrepareBlock
    <2>3. registry[s] \in Migrations \cup {None}
      BY Zenon DEF ShardType, GateType
    <2>4. \/ \E r \in Migrations \cup {None} : registry' = [registry EXCEPT ![s] = r]
          \/ UNCHANGED registry
      BY Zenon, <2>3 DEF PrepareRegister, PrepareBlock
    <2>5. UNCHANGED <<blocked, req>> \/ CancelContext(s)
      BY Zenon DEF PrepareRegister, PrepareBlock
    <2> QED
      BY Zenon, <2>1, <2>2, <2>4, <2>5, <1>DataStays, <1>GateChanges, <1>StepType DEF ShardType
  \* The data and the gate of a shard that copies.
  <1>CopyType.
      ASSUME DataType, NEW s \in Shards, NEW m \in Migrations, NEW src \in Shards \cup {None},
             (\E p : CopyPage(s, m, src, p)) \/ CopyFails(s, m, src)
      PROVE  DataType' /\ (Fault \/ UNCHANGED faults)
    <2> USE <1>CopyType
    <2>1. \/ UNCHANGED <<etcd, lc, feed>>
          \/ src # None /\ \E P : Write(s, src, P)
      BY Zenon DEF CopyPage, CopyFails
    <2>2. Fault \/ UNCHANGED faults
      BY Zenon DEF CopyPage, CopyFails
    <2> QED
      BY Zenon, <2>1, <2>2, <1>DataStays, <1>WriteType
  \* reconcileMigrating: a shard that copies has a recorded origin or none.
  <1>MigrateType.
      ASSUME ShardType, MigrationInv, NEW s \in Shards, NEW m \in Migrations, Migrate(s, m)
      PROVE  ShardType'
    <2> USE <1>MigrateType
    <2>1. \E new, rq : Return(s, m, new, rq)
      BY Zenon DEF Migrate, CopyFails
    <2>2. ~At(s, m, "idle") /\ UNCHANGED <<outside, blocked, req>>
      BY Zenon, AtReconcile DEF Migrate, Handles
    <2>3. Obj(s, m).origin \in Shards \cup {None}
      BY Zenon, <2>2, ObjFacts DEF MigrationInv, MigrationObjects
    <2>4. (\E p : CopyPage(s, m, Obj(s, m).origin, p)) \/ CopyFails(s, m, Obj(s, m).origin)
      BY Zenon DEF Migrate
    <2>5. \E r \in Migrations \cup {None} : registry' = [registry EXCEPT ![s] = r]
      BY Zenon DEF Migrate, ShardType, GateType
    <2>6. DataType' /\ (Fault \/ UNCHANGED faults)
      BY Zenon, <2>3, <2>4, <1>CopyType DEF ShardType
    <2>7. GateType'
      BY Zenon, <2>2, <2>5, <1>GateChanges DEF ShardType
    <2> QED
      BY Zenon, <2>1, <2>2, <2>6, <2>7, <1>StepType
  \* A shard that deletes its data.
  <1>DeleteType.
      ASSUME ShardType, NEW s \in Shards, NEW m \in Migrations,
             \/ DeleteData(s)
             \/ DeleteFails(s, m) /\ UNCHANGED <<registry, blocked, req>>
      PROVE  DataType' /\ GateType' /\ (Fault \/ UNCHANGED faults)
    <2> USE <1>DeleteType
    <2>1. (\E D : Wipe(s, D)) /\ (Fault \/ UNCHANGED faults)
      BY Zenon DEF DeleteData, DeleteFails
    <2>2. \/ UNCHANGED <<registry, blocked, req>>
          \/ /\ \E r \in Migrations \cup {None} : registry' = [registry EXCEPT ![s] = r]
             /\ DeleteContext(s)
      BY Zenon DEF DeleteData, DeleteFails, Remove
    <2>3. GateType'
      BY Zenon, <2>2, <1>GateStays, <1>GateChanges DEF ShardType
    <2> QED
      BY Zenon, <2>1, <2>3, <1>WipeType DEF ShardType
  \* reconcileOriginCleanup and reconcileAborting.
  <1>CleanupType.
      ASSUME ShardType, NEW s \in Shards, NEW m \in Migrations,
             OriginCleanup(s, m) \/ Abort(s, m)
      PROVE  ShardType'
    <2> USE <1>CleanupType
    <2>1. \E new, rq : Return(s, m, new, rq)
      BY Zenon DEF OriginCleanup, Abort, DeleteFails
    <2>2. \/ DeleteData(s)
          \/ DeleteFails(s, m) /\ UNCHANGED <<registry, blocked, req>>
      BY Zenon DEF OriginCleanup, Abort
    <2>3. UNCHANGED outside
      BY Zenon DEF OriginCleanup, Abort
    <2> QED
      BY Zenon, <2>1, <2>2, <2>3, <1>DeleteType, <1>StepType
  \* reconcileDestinationFinalize annotates only an LC that it found.
  <1>FinalizeType.
      ASSUME ShardType, NEW s \in Shards, NEW m \in Migrations,
             DestinationFinalize(s, m) \/ DestinationRelease(s, m)
      PROVE  ShardType'
    <2> USE <1>FinalizeType
    <2>1. CASE Fails(s, m)
      BY Zenon, <2>1, <1>FailsType DEF DestinationFinalize, DestinationRelease
    <2>2. CASE lc[s] # None /\ SetAnnotation(s, None) /\ Goto(s, m, "finalize")
               /\ UNCHANGED <<outside, etcd, registry, blocked, req, faults>>
      BY Zenon, <2>2, <1>SetAnnotationType, <1>GateStays, <1>StepType DEF ShardType
    <2>3. CASE Remove(s) /\ (\E new, rq : Return(s, m, new, rq))
               /\ UNCHANGED <<outside, etcd, lc, feed, blocked, req, faults>>
      <3>1. \E r \in Migrations \cup {None} : registry' = [registry EXCEPT ![s] = r]
        BY Zenon, <2>3 DEF Remove
      <3> QED
        BY Zenon, <2>3, <3>1, <1>DataStays, <1>GateChanges, <1>StepType DEF ShardType
    <2> QED
      BY Zenon, <2>1, <2>2, <2>3 DEF DestinationFinalize, DestinationRelease
  \* The gate of a shard that is blocked for a cancellation.
  <1>RegisterType.
      ASSUME GateType, NEW s \in Shards, NEW m \in Migrations, RegisterCancellation(s, m)
      PROVE  GateType'
    <2> USE <1>RegisterType
    <2>1. \E r \in Migrations \cup {None} : registry' = [registry EXCEPT ![s] = r]
      BY Zenon DEF RegisterCancellation
    <2> QED
      BY Zenon, <2>1, <1>GateChanges DEF RegisterCancellation
  \* blockForCancellation and the shard that waits.
  <1>BlockType.
      ASSUME ShardType, NEW s \in Shards, NEW m \in Migrations,
             KeepBlocked(s, m) \/ BlockForCancellation(s, m)
      PROVE  ShardType'
    <2> USE <1>BlockType
    <2>1. UNCHANGED <<outside, faults>>
      BY Zenon DEF KeepBlocked, BlockForCancellation
    <2>2. CASE Fails(s, m)
      BY Zenon, <2>1, <2>2, <1>FailsType
    <2>3. CASE /\ RegisterCancellation(s, m)
               /\ \E new, rq : Return(s, m, new, rq)
               /\ \/ UNCHANGED <<etcd, lc, feed>>
                  \/ lc[s] # None /\ SetAnnotation(s, m) /\ UNCHANGED etcd
      BY Zenon, <2>1, <2>3, <1>RegisterType, <1>DataStays, <1>SetAnnotationType, <1>StepType DEF
         ShardType
    <2> QED
      BY Zenon, <2>2, <2>3 DEF KeepBlocked, BlockForCancellation
  \* reconcileRestoring: the copy comes from the destination, if there is one.
  <1>RestoreType.
      ASSUME ShardType, NEW s \in Shards, NEW m \in Migrations, Restore(s, m)
      PROVE  ShardType'
    <2> USE <1>RestoreType
    <2>1. CASE Fails(s, m) /\ UNCHANGED faults
      BY Zenon, <2>1, <1>FailsType DEF Restore
    <2>2. CASE ~(Fails(s, m) /\ UNCHANGED faults)
      <3>1. \E new, rq : Return(s, m, new, rq)
        BY Zenon, <2>2 DEF Restore, CopyFails
      <3>2. RegisterCancellation(s, m) /\ UNCHANGED outside
        BY Zenon, <2>2 DEF Restore
      <3>3. (\E p : CopyPage(s, m, Dest[m], p)) \/ CopyFails(s, m, Dest[m])
        BY Zenon, <2>2 DEF Restore
      <3>4. Dest[m] \in Shards \cup {None}
        BY Zenon, ConstantsAssumption
      <3>5. DataType' /\ (Fault \/ UNCHANGED faults)
        BY Zenon, <3>3, <3>4, <1>CopyType DEF ShardType
      <3> QED
        BY Zenon, <3>1, <3>2, <3>5, <1>RegisterType, <1>StepType DEF ShardType
    <2> QED
      BY Zenon, <2>1, <2>2
  \* reconcileCancellationCleanup.
  <1>CancellationCleanupType.
      ASSUME ShardType, NEW s \in Shards, NEW m \in Migrations, CancellationCleanup(s, m)
      PROVE  ShardType'
    <2> USE <1>CancellationCleanupType
    <2>1. CASE Fails(s, m) /\ UNCHANGED faults
      BY Zenon, <2>1, <1>FailsType DEF CancellationCleanup
    <2>2. CASE DeleteData(s) /\ (\E new, rq : Return(s, m, new, rq)) /\ UNCHANGED outside
      BY Zenon, <2>2, <1>DeleteType, <1>StepType
    <2>3. CASE RegisterCancellation(s, m) /\ DeleteFails(s, m) /\ UNCHANGED outside
      <3>1. (\E D : Wipe(s, D)) /\ Fault /\ Return(s, m, Obj(s, m), TRUE)
        BY Zenon, <2>3 DEF DeleteFails
      <3>2. DataType' /\ GateType'
        BY Zenon, <2>3, <3>1, <1>WipeType, <1>RegisterType DEF ShardType
      <3> QED
        BY Zenon, <2>3, <3>1, <3>2, <1>StepType
    <2> QED
      BY Zenon, <2>1, <2>2, <2>3 DEF CancellationCleanup
  \* finalizeCancellation annotates only an LC that it found.
  <1>CancellationFinalizeType.
      ASSUME ShardType, NEW s \in Shards, NEW m \in Migrations,
             CancellationFinalize(s, m) \/ CancellationRelease(s, m)
      PROVE  ShardType'
    <2> USE <1>CancellationFinalizeType
    <2>1. CASE Fails(s, m) /\ UNCHANGED <<outside, faults>>
      BY Zenon, <2>1, <1>FailsType
    <2>2. CASE /\ \/ \E new, rq : Return(s, m, new, rq)
                  \/ \E p : Goto(s, m, p)
               /\ UNCHANGED <<outside, etcd, lc, feed, registry, blocked, req, faults>>
      BY Zenon, <2>2, <1>DataStays, <1>GateStays, <1>StepType DEF ShardType
    <2>3. CASE /\ DeleteContext(s) \/ UNCHANGED <<blocked, req>>
               /\ \/ \E new, rq : Return(s, m, new, rq)
                  \/ \E p : Goto(s, m, p)
               /\ (lc[s] # None /\ SetAnnotation(s, None)) \/ UNCHANGED <<lc, feed>>
               /\ Fault \/ UNCHANGED faults
               /\ Remove(s) \/ UNCHANGED registry
               /\ UNCHANGED <<outside, etcd>>
      <3>1. DataType'
        BY Zenon, <2>3, <1>DataStays, <1>SetAnnotationType DEF ShardType
      <3>2. \/ \E r \in Migrations \cup {None} : registry' = [registry EXCEPT ![s] = r]
            \/ UNCHANGED registry
        BY Zenon, <2>3 DEF Remove
      <3>3. GateType'
        BY Zenon, <2>3, <3>2, <1>GateChanges DEF ShardType
      <3> QED
        BY Zenon, <2>3, <3>1, <3>3, <1>StepType
    <2> QED
      BY Zenon, <2>1, <2>2, <2>3 DEF CancellationFinalize, CancellationRelease
  \* process: the key is taken, the changes are committed.
  <1>GetCommitType.
      ASSUME ShardType, NEW s \in Shards, NEW m \in Migrations, Get(s, m) \/ Commit(s, m)
      PROVE  ShardType'
    <2> USE <1>GetCommitType
    <2>1. \/ queued' = queued \ {<<s, m>>} \/ queued' = queued
          \/ queued' = queued \cup {<<s, m>>}
      BY Zenon DEF Get, Commit, Requeue
    <2>2. queued' \subseteq Shards \X Migrations
      BY <2>1 DEF ShardType, QueueType
    <2>3. \/ UNCHANGED cache
          \/ cache' = [cache EXCEPT ![m] = IF cache[m] = "fresh" THEN "stale" ELSE cache[m]]
      BY Zenon DEF Get, Commit
    <2>4. cache' \in [Migrations -> {"absent", "stale", "fresh"}]
      BY Zenon, <2>3 DEF ShardType, QueueType
    <2>5. UNCHANGED <<etcd, lc, feed, lister, registry, blocked, route, req, acked, written, wsDeleted>>
      BY Zenon DEF Get, Commit
    <2>6. Fault \/ UNCHANGED faults
      BY Zenon DEF Get, Commit
    <2> QED
      BY Zenon, <2>2, <2>4, <2>5, <2>6, <1>DataStays, <1>GateStays, <1>FaultType DEF ShardType,
         QueueType
  \* Every step of a worker.
  <1>ReconcileType.
      ASSUME ShardType, MigrationInv, NEW s \in Shards, NEW m \in Migrations, Reconcile(s, m)
      PROVE  ShardType'
    BY Zenon, <1>ReconcileType, <1>IdleHandlersType, <1>PrepareType, <1>PrepareRestType,
       <1>MigrateType, <1>CleanupType, <1>FinalizeType, <1>BlockType, <1>RestoreType,
       <1>CancellationCleanupType, <1>CancellationFinalizeType, <1>GetCommitType DEF Reconcile
  \* The objects and the queues: what happens to the migration from outside.
  <1>OutsideType.
      ASSUME ShardType, NEW m \in Migrations,
             CreateMigration(m) \/ DeleteMigration(m) \/ Replicate(m)
      PROVE  ShardType'
    <2> USE <1>OutsideType
    <2>1. UNCHANGED <<etcd, lc, feed, lister, registry, blocked, route, req, acked, written,
                      wsDeleted, faults>>
      BY Zenon DEF CreateMigration, DeleteMigration, Replicate
    <2>2. UNCHANGED queued \/ queued' = queued \cup (Shards \X {m})
      BY Zenon DEF CreateMigration, DeleteMigration, Replicate
    <2>3. queued' \subseteq Shards \X Migrations
      BY Zenon, <2>2 DEF ShardType, QueueType
    <2>4. UNCHANGED cache \/ \E c \in {"absent", "stale", "fresh"} : cache' = [cache EXCEPT ![m] = c]
      BY Zenon DEF CreateMigration, DeleteMigration, Replicate, ShardType, QueueType
    <2>5. cache' \in [Migrations -> {"absent", "stale", "fresh"}]
      BY Zenon, <2>4 DEF ShardType, QueueType
    <2> QED
      BY Zenon, <2>1, <2>3, <2>5, <1>DataStays, <1>GateStays, <1>FaultType DEF ShardType,
         QueueType
  \* The informers of a shard, and a restart.
  <1>InformerType.
      ASSUME ShardType, NEW s \in Shards, Resync(s) \/ SyncLister(s) \/ Restart(s)
      PROVE  ShardType'
    <2> USE <1>InformerType
    <2>1. UNCHANGED <<cache, etcd, lc, feed, route, acked, written, wsDeleted>>
      BY Zenon DEF Resync, SyncLister, Restart
    <2>2. queued' \subseteq Shards \X Migrations
      BY DEF ShardType, QueueType, Resync, SyncLister, Restart
    <2>3. lc[s] \in LCObjects \cup {None}
      BY Zenon DEF ShardType, DataType
    <2>4. UNCHANGED lister \/ lister' = [lister EXCEPT ![s] = lc[s]]
      BY Zenon DEF Resync, SyncLister, Restart
    <2>5. lister' \in [Shards -> LCObjects \cup {None}]
      BY Zenon, <2>3, <2>4 DEF ShardType, RestType
    <2>6. faults' \in 0..MaxFaults
      BY ConstantsAssumption DEF ShardType, RestType, Resync, SyncLister, Restart, Fault
    <2>7. NoRequest \in [st : {"none", "admitted", "applied"}, shard : Shards \cup {None},
                         k : DataKeys \cup {None}, read : Values \cup {None}, live : BOOLEAN]
      BY Zenon DEF NoRequest
    <2>8. GateType'
      BY Zenon, <2>7 DEF ShardType, GateType, Resync, SyncLister, Restart
    <2>9. RestType'
      BY Zenon, <2>1, <2>5, <2>6 DEF ShardType, RestType
    <2> QED
      BY Zenon, <2>1, <2>2, <2>8, <2>9, <1>DataStays DEF ShardType, QueueType
  \* What remains of the changes under way when the next one is handled.
  <1>TailOfTwo.
      ASSUME NEW T, NEW q \in Seq(T), Len(q) > 1
      PROVE  Tail(q) \in Seq(T) /\ Tail(q) # <<>>
    <2> USE <1>TailOfTwo
    <2>1. Tail(q) \in Seq(T) /\ Len(Tail(q)) = Len(q) - 1 /\ Len(q) \in Nat /\ Len(<<>>) = 0
      OBVIOUS
    <2>2. \A n \in Nat : n > 1 => n - 1 # 0
      OBVIOUS
    <2> QED
      BY Zenon, <2>1, <2>2
  \* The front-proxy's index.
  <1>IndexType.
      ASSUME ShardType, NEW s \in Shards, IndexObserve(s) \/ IndexResync(s)
      PROVE  ShardType'
    <2> USE <1>IndexType
    <2>1. UNCHANGED <<cache, queued, etcd, lc, lister, registry, blocked, req, acked, written,
                      wsDeleted, faults>>
      BY Zenon DEF IndexObserve, IndexResync
    <2>2. route' \in Shards \cup {None}
      BY Zenon DEF IndexObserve, IndexResync, Index, ShardType, RestType
    <2>3. /\ feed' \in [Shards -> Seq(LCObjects \cup {None})]
          /\ \A t \in Shards : feed'[t] # <<>>
      <3> DEFINE T == LCObjects \cup {None}
      <3>1. feed \in [Shards -> Seq(T)] /\ \A t \in Shards : feed[t] # <<>>
        BY Zenon DEF ShardType, DataType
      <3> HIDE DEF T
      <3>2. ASSUME UNCHANGED feed
            PROVE  feed' \in [Shards -> Seq(T)] /\ \A t \in Shards : feed'[t] # <<>>
        BY Zenon, <3>1, <3>2
      <3>3. ASSUME Len(feed[s]) > 1, feed' = [feed EXCEPT ![s] = Tail(feed[s])]
            PROVE  feed' \in [Shards -> Seq(T)] /\ \A t \in Shards : feed'[t] # <<>>
        <4>1. Tail(feed[s]) \in Seq(T) /\ Tail(feed[s]) # <<>>
          BY Zenon, <3>1, <3>3, <1>TailOfTwo
        <4> QED
          BY Zenon, <3>1, <3>3, <4>1
      <3> QED
        BY Zenon, <3>2, <3>3 DEF T, IndexObserve, IndexResync
    <2> QED
      BY Zenon, <2>1, <2>2, <2>3, <1>GateStays DEF ShardType, QueueType, DataType, RestType
  \* The deletion of the workspace and of the LC.
  <1>DeletionType.
      ASSUME ShardType, DeleteWorkspace \/ \E s \in Shards : DeleteLC(s)
      PROVE  ShardType'
    <2> USE <1>DeletionType
    <2>1. UNCHANGED <<cache, queued, lister, registry, blocked, route, req, acked, written, faults>>
      BY Zenon DEF DeleteWorkspace, DeleteLC
    <2>2. wsDeleted' \in BOOLEAN
      BY Zenon DEF DeleteWorkspace, DeleteLC, ShardType, RestType
    <2>3. DataType'
      <3>1. CASE DeleteWorkspace
        <4>1. route \in Shards /\ lc[route] \in LCObjects
          BY Zenon, <3>1 DEF DeleteWorkspace, ShardType, RestType, DataType
        <4>2. [lc[route] EXCEPT !.deleting = TRUE] \in LCObjects
          BY Zenon, <4>1 DEF LCObjects
        <4>3. SetLC(route, [lc[route] EXCEPT !.deleting = TRUE]) /\ UNCHANGED etcd
          BY Zenon, <3>1 DEF DeleteWorkspace
        <4> QED
          BY Zenon, <4>1, <4>2, <4>3, <1>SetLCType DEF ShardType, DataType
      <3>2. ASSUME NEW s \in Shards, DeleteLC(s) PROVE DataType'
        BY Zenon, <3>2, <1>WipeType DEF DeleteLC, ShardType
      <3> QED
        BY Zenon, <3>1, <3>2
    <2> QED
      BY Zenon, <2>1, <2>2, <2>3, <1>GateStays DEF ShardType, QueueType, RestType
  \* The client.
  <1>ClientType.
      ASSUME ShardType,
             \/ \E k \in DataKeys : ClientStart(k)
             \/ ClientApply \/ ClientAck \/ ClientFail
      PROVE  ShardType'
    <2> USE <1>ClientType
    <2> DEFINE Requests == [st : {"none", "admitted", "applied"}, shard : Shards \cup {None},
                            k : DataKeys \cup {None}, read : Values \cup {None}, live : BOOLEAN]
    <2>1. UNCHANGED <<cache, queued, lc, feed, lister, registry, blocked, route, wsDeleted, faults>>
      BY Zenon DEF ClientStart, ClientApply, ClientAck, ClientFail
    <2>2. req \in Requests /\ NoRequest \in Requests
      BY Zenon DEF ShardType, GateType, NoRequest
    <2>3. written \in Values
      BY Zenon DEF ShardType, RestType, Values
    <2>4. written' \in 0..MaxWrites
      BY ConstantsAssumption DEF ShardType, RestType, ClientStart, ClientApply, ClientAck,
         ClientFail
    <2>5. req' \in Requests
      <3>1. ASSUME NEW k \in DataKeys, ClientStart(k) PROVE req' \in Requests
        <4>1. route \in Shards
          BY Zenon, <3>1 DEF ClientStart, ShardType, RestType
        <4>2. etcd[route][k] \in Values \cup {None}
          BY Zenon, <3>1, <4>1 DEF ShardType, DataType
        <4>3. req' = [st |-> "admitted", shard |-> route, k |-> k, read |-> etcd[route][k], live |-> TRUE]
          BY Zenon, <3>1 DEF ClientStart
        <4> QED
          BY Zenon, <3>1, <4>1, <4>2, <4>3
      <3>2. CASE ClientApply
        BY Zenon, <2>2, <3>2 DEF ClientApply
      <3> QED
        BY Zenon, <2>2, <3>1, <3>2 DEF ClientAck, ClientFail
    <2>6. acked' \in [DataKeys -> Values]
      BY Zenon, <2>3 DEF ShardType, RestType, ClientStart, ClientApply, ClientAck, ClientFail
    <2>7. etcd' \in [Shards -> [DataKeys -> Values \cup {None}]]
      <3>1. CASE ClientApply
        <4>1. etcd' = [etcd EXCEPT ![req.shard][req.k] = written]
          BY Zenon, <3>1 DEF ClientApply
        <4>2. etcd \in [Shards -> [DataKeys -> Values \cup {None}]]
          BY Zenon DEF ShardType, DataType
        <4> QED
          BY Zenon, <2>3, <4>1, <4>2
      <3>2. CASE UNCHANGED etcd
        BY Zenon, <3>2 DEF ShardType, DataType
      <3> QED
        BY Zenon, <3>1, <3>2 DEF ClientStart, ClientAck, ClientFail
    <2> QED
      BY Zenon, <2>1, <2>4, <2>5, <2>6, <2>7 DEF ShardType, QueueType, DataType, GateType,
         RestType
  \* Every step keeps the types.
  <1>NextType. MigrationInv /\ ShardType /\ [Next]_vars => ShardType'
    <2> SUFFICES ASSUME MigrationInv, ShardType, [Next]_vars PROVE ShardType'
      OBVIOUS
    <2>1. CASE UNCHANGED vars
      BY Zenon, <2>1, <1>DataStays, <1>GateStays, <1>FaultType DEF vars, ShardType, QueueType
    <2>2. CASE Next
      BY Zenon, <2>2, <1>ReconcileType, <1>OutsideType, <1>InformerType, <1>IndexType,
         <1>DeletionType,
         <1>ClientType DEF Next
    <2> QED
      BY Zenon, <2>1, <2>2
  \* The first state is typed.
  <1>InitType. Init => ShardType
    <2> SUFFICES ASSUME Init PROVE ShardType
      OBVIOUS
    <2>1. [ann |-> None, deleting |-> FALSE] \in LCObjects
      BY Zenon DEF LCObjects
    <2>2. 0 \in 0..MaxWrites /\ 0 \in 0..MaxFaults
      BY ConstantsAssumption
    <2> DEFINE there == [s \in Shards |-> IF s = Home THEN [ann |-> None, deleting |-> FALSE]
                                                      ELSE None]
               T == LCObjects \cup {None}
    <2>3. there \in [Shards -> T]
      BY Zenon, <2>1
    <2>4. lc = there /\ lister = there /\ feed = [s \in Shards |-> <<there[s]>>]
      BY Zenon DEF Init
    <2> HIDE DEF there, T
    <2>5. feed \in [Shards -> Seq(T)] /\ \A s \in Shards : feed[s] # <<>>
      BY <2>3, <2>4
    <2>6. DataType
      BY Zenon, <2>2, <2>3, <2>4, <2>5 DEF Init, DataType, T, Values
    <2>7. GateType
      BY Zenon DEF Init, GateType, NoRequest
    <2>8. RestType
      BY Zenon, <2>2, <2>3, <2>4, ConstantsAssumption DEF Init, RestType, T, Values
    <2>9. QueueType
      BY Zenon DEF Init, QueueType
    <2> QED
      BY Zenon, <2>6, <2>7, <2>8, <2>9 DEF ShardType
  <1> QED
    BY <1>InitType, <1>NextType, MigrationInvariant, PTL DEF Spec

\* Every variable keeps its type: in particular no handler reads the annotation of
\* an LC object that is not there, and none copies from a shard that is not there.
THEOREM MigrationIsTyped == Spec => []TypeOK
  <1>1. MigrationInv /\ ShardType => TypeOK
    BY Zenon DEF MigrationInv, ObjectsInv, WorkersInv, ShardType, QueueType, DataType, GateType,
       RestType, TypeOK
  <1> QED
    BY <1>1, TypeInvariant, MigrationInvariant, PTL

-----------------------------------------------------------------------------
(* The only migration of an LC.                                            *)

\* m is the only migration of the LC, and leads to another shard.
Only(m) ==
    /\ m \in Migrations /\ \A n \in Migrations : n = m
    /\ Dest[m] # Home

-----------------------------------------------------------------------------
(* Who moves a migration on.                                               *)

Broken == {"Aborting", "Failed"}

\* The phases in which the origin, and the destination, hold the pen.
OriginOwns == {"", "Preparing", "OriginCleanup", "Restoring", "CancellationFinalize", "Cancelled"}
DestinationOwns == {"Migrating", "DestinationFinalize", "Completed", "CancellationPreparing",
                    "CancellationCleanup"}

Owns(s, m, p) ==
    \/ s = Home /\ p \in OriginOwns
    \/ s = Dest[m] /\ p \in DestinationOwns

\* The phase that a handler of shard s may leave, having read p.
Moves(s, m, p, q) ==
    \/ /\ s = Home
       /\ \/ p = "" /\ q \in {"", "Preparing", "CancellationFinalize"}
          \/ p = "Preparing" /\ q \in {"Preparing", "Migrating", "CancellationFinalize", "Aborting"}
          \/ p = "Migrating" /\ q = "Aborting"
          \/ p = "OriginCleanup" /\ q \in {"DestinationFinalize", "CancellationPreparing"}
          \/ p = "Restoring" /\ q \in {"Restoring", "CancellationCleanup"}
          \/ p \in {"CancellationFinalize", "Cancelled"} /\ q = "Cancelled"
    \/ /\ s = Dest[m]
       /\ \/ p = "Migrating" /\ q \in {"Migrating", "OriginCleanup", "CancellationCleanup"}
          \/ p = "DestinationFinalize" /\ q \in {"Completed", "CancellationPreparing"}
          \/ p = "CancellationPreparing" /\ q = "Restoring"
          \/ p = "CancellationCleanup" /\ q = "CancellationFinalize"
          \/ p = "Completed" /\ q = "Completed"
    \/ p \in Broken /\ q \in Broken

\* An object of the only migration of the LC.
ObjOK(o) ==
    /\ o.origin \in {None, Home}
    /\ o.origin = None => o.phase \in {"", "Preparing"} \cup Broken
    /\ o.cont # 0 => o.phase \in {"Migrating", "Restoring"} \cup Broken

\* What a worker at work knows: the owner of the phase it read has read the
\* current one, or its migration was aborted meanwhile; the others may be late, and
\* by how much.
Knows(s, m, w) ==
    LET o == w.obj
        p == mig[m].phase IN
    w.pc # "idle" =>
        /\ ObjOK(o)
        /\ o.origin # None => mig[m].origin = o.origin
        /\ Owns(s, m, o.phase) =>
              \/ o.phase = p /\ o.cont = mig[m].cont
              \/ o.phase = "Migrating" /\ p \in Broken
        /\ s # Home /\ o.origin = None => lister[s] = None /\ lc[s] = None
        /\ s = Home /\ o.phase = "CancellationPreparing" => p \in {"CancellationPreparing", "Restoring"}
        /\ s = Home /\ o.phase = "CancellationCleanup" => p \in {"CancellationCleanup", "CancellationFinalize"}
        /\ s = Dest[m] /\ o.phase = "Restoring" => p \in {"Restoring", "CancellationCleanup"}

\* Where in a handler a worker may be, and what it may leave.
Stage(s, m, w) ==
    /\ w.pc \in {"register", "block"} =>
          s = Home /\ w.obj.phase = "Preparing" /\ w.obj.origin = Home
    /\ w.pc = "finalize" => s = Dest[m] /\ w.obj.phase = "DestinationFinalize"
    /\ w.pc \in {"check", "release"} => s = Home /\ w.obj.phase = "CancellationFinalize"
    /\ w.pc = "commit" => ObjOK(w.new) /\ Moves(s, m, w.obj.phase, w.new.phase)

\* The origin's LC carries the annotation, if it is there.
Annotated(m) == lc[Home] # None => lc[Home].ann = m

\* The origin is past the annotation.
Holding(w) == w.pc \in {"register", "block"} \/ (w.pc = "commit" /\ w.new.phase = "Migrating")

AnnotationInv(m) ==
    /\ mig[m].phase = "Migrating" => Annotated(m)
    /\ mig[m].phase \in {"", "Preparing"} /\ lister[Home] # None /\ lister[Home].ann = m => Annotated(m)
    /\ Holding(worker[Home][m]) => Annotated(m)

\* Before the origin is recorded there is no other copy.
ObjectInv(m) ==
    /\ ObjOK(mig[m])
    /\ mig[m].origin = None => \A s \in Shards \ {Home} : lister[s] = None /\ lc[s] = None

OrderInv(m) ==
    /\ ObjectInv(m)
    /\ \A s \in Shards : Knows(s, m, worker[s][m]) /\ Stage(s, m, worker[s][m])
    /\ AnnotationInv(m)

Base == MigrationInv /\ ShardType

-----------------------------------------------------------------------------
(* The order of the phases.                                                *)

\* The worker becomes x, with the object it read or idle.
Acts(s, m, x) ==
    /\ worker' = [worker EXCEPT ![s][m] = x]
    /\ x.pc = "idle" \/ x.obj = Obj(s, m)

\* Such a step changes that worker only.
LEMMA ActsFacts ==
    ASSUME Base, NEW m \in Migrations, NEW s \in Shards, NEW x, Acts(s, m, x)
    PROVE  /\ worker'[s][m] = x
           /\ \A t \in Shards \ {s} : worker'[t][m] = worker[t][m]
  <1>1. worker \in [Shards -> [Migrations -> Workers]]
    BY Zenon DEF Base, MigrationInv, WorkersInv
  <1> QED
    BY Zenon, <1>1 DEF Acts

\* The worker that a handler leaves behind.
LEMMA ReturnActs ==
    ASSUME Base, NEW m \in Migrations, NEW s \in Shards, ~At(s, m, "idle"),
           NEW new, NEW rq, Return(s, m, new, rq)
    PROVE  \E x : /\ Acts(s, m, x)
                  /\ \/ x = Idle /\ new = Obj(s, m)
                     \/ x.pc = "commit" /\ x.obj = Obj(s, m) /\ x.new = new
  <1>1. /\ worker \in [Shards -> [Migrations -> Workers]] /\ worker[s][m] \in Workers
    BY Zenon DEF Base, MigrationInv, WorkersInv
  <1>2. CASE new = Obj(s, m)
    <2>1. worker' = [worker EXCEPT ![s][m] = Idle]
      BY Zenon, <1>2 DEF Return
    <2>2. Idle.pc = "idle"
      BY DEF Idle
    <2> QED
      BY Zenon, <1>2, <2>1, <2>2 DEF Acts
  <1>3. CASE new # Obj(s, m)
    <2> DEFINE x == [worker[s][m] EXCEPT !.pc = "commit", !.new = new, !.rq = rq]
    <2>1. worker' = [worker EXCEPT ![s][m] = x]
      BY Zenon, <1>1, <1>3 DEF Return
    <2>2. x.pc = "commit" /\ x.obj = Obj(s, m) /\ x.new = new
      BY <1>1 DEF Workers, Obj
    <2> HIDE DEF x
    <2> QED
      BY Zenon, <2>1, <2>2 DEF Acts
  <1> QED
    BY Zenon, <1>2, <1>3

\* A handler that goes on keeps the object it read.
LEMMA GotoActs ==
    ASSUME Base, NEW m \in Migrations, NEW s \in Shards, NEW p, Goto(s, m, p)
    PROVE  \E x : Acts(s, m, x) /\ x.pc = p /\ x.obj = Obj(s, m)
  <1> DEFINE x == [worker[s][m] EXCEPT !.pc = p]
  <1>1. /\ worker \in [Shards -> [Migrations -> Workers]] /\ worker[s][m] \in Workers
    BY Zenon DEF Base, MigrationInv, WorkersInv
  <1>2. worker' = [worker EXCEPT ![s][m] = x]
    BY Zenon, <1>1 DEF Goto
  <1>3. x.pc = p /\ x.obj = Obj(s, m)
    BY <1>1 DEF Workers, Obj
  <1> HIDE DEF x
  <1> QED
    BY Zenon, <1>2, <1>3 DEF Acts

\* The origin is a shard.
LEMMA HomeThere == Home \in Shards /\ Home # None
  BY Zenon, ConstantsAssumption

\* The LC object of shard s is all that changes of the LC objects, and it does not
\* appear out of turn.
LocalTo(s, m) ==
    /\ UNCHANGED <<mig, lister>>
    /\ \A t \in Shards \ {s} : lc'[t] = lc[t]
    /\ s # Home /\ Obj(s, m).origin = None => lc'[s] = None
    /\ s = Home => \/ Annotated(m) => Annotated(m)'
                   \/ mig[m].phase \notin {"", "Preparing", "Migrating"}

\* What a worker has read, and whether it takes its shard for the origin.
LEMMA Reads ==
    ASSUME Base, NEW m, Only(m), OrderInv(m), NEW s \in Shards, ~At(s, m, "idle")
    PROVE  /\ m \in Migrations
           /\ ObjOK(Obj(s, m)) /\ Obj(s, m) \in MigrationObjects
           /\ IsOrigin(s, Obj(s, m)) => s = Home
           /\ s = Home /\ Obj(s, m).origin # None => IsOrigin(s, Obj(s, m))
           /\ Owns(s, m, Obj(s, m).phase) =>
                 \/ Obj(s, m).phase = mig[m].phase /\ Obj(s, m).cont = mig[m].cont
                 \/ Obj(s, m).phase = "Migrating" /\ mig[m].phase \in Broken
  <1>1. Knows(s, m, worker[s][m]) /\ m \in Migrations
    BY Zenon DEF OrderInv, Only
  <1>2. Obj(s, m) \in MigrationObjects
    BY Zenon, <1>1, ObjFacts DEF Base, MigrationInv
  <1> QED
    BY Zenon, <1>1, <1>2 DEF Knows, At, Obj, IsOrigin, ObjOK

\* What wiping and copying do to the LC objects of the other shards.
LEMMA SetLCLocal ==
    ASSUME Base, NEW s \in Shards, NEW x, SetLC(s, x)
    PROVE  lc'[s] = x /\ \A t \in Shards \ {s} : lc'[t] = lc[t]
  <1>1. lc \in [Shards -> LCObjects \cup {None}]
    BY Zenon DEF Base, ShardType, DataType
  <1> QED
    BY Zenon, <1>1 DEF SetLC

\* What setting the annotation does to the LC objects.
LEMMA SetAnnotationLocal ==
    ASSUME Base, NEW s \in Shards, NEW a \in Migrations \cup {None}, lc[s] # None,
           SetAnnotation(s, a)
    PROVE  /\ lc'[s] # None /\ lc'[s].ann = a /\ lc'[s].deleting = lc[s].deleting
           /\ \A t \in Shards \ {s} : lc'[t] = lc[t]
  <1> DEFINE x == [lc[s] EXCEPT !.ann = a]
  <1>1. lc[s] \in LCObjects
    BY Zenon DEF Base, ShardType, DataType
  <1>2. x \in LCObjects /\ x.ann = a /\ x.deleting = lc[s].deleting
    BY <1>1 DEF LCObjects
  <1>3. SetLC(s, x)
    BY Zenon DEF SetAnnotation
  <1> HIDE DEF x
  <1> QED
    BY Zenon, <1>2, <1>3, SetLCLocal, NoneAssumption

\* With one migration, an LC carries its annotation or none.
LEMMA OneAnnotation ==
    ASSUME Base, NEW m, Only(m), NEW s \in Shards
    PROVE  /\ lc[s] # None => lc[s].ann \in {None, m}
           /\ lister[s] # None => lister[s].ann \in {None, m}
           /\ registry[s] \in {None, m}
  <1>1. /\ lc[s] # None => lc[s].ann \in Migrations \cup {None}
        /\ lister[s] # None => lister[s].ann \in Migrations \cup {None}
        /\ registry[s] \in Migrations \cup {None}
    BY Zenon DEF Base, ShardType, DataType, GateType, RestType, LCObjects
  <1> QED
    BY Zenon, <1>1 DEF Only

\* A page is written: the LC object of the source arrives, or nothing of it.
LEMMA CopyLocal ==
    ASSUME Base, NEW m \in Migrations, NEW s \in Shards, NEW src,
           (\E p : CopyPage(s, m, src, p)) \/ CopyFails(s, m, src)
    PROVE  \A t \in Shards \ {s} : lc'[t] = lc[t]
  <1>1. \/ UNCHANGED lc
        \/ \E x : SetLC(s, x)
    BY Zenon DEF CopyPage, CopyFails, Write
  <1> QED
    BY Zenon, <1>1, SetLCLocal

\* What a worker knows once the migration object has become new.
StillKnows(t, m, w, new) ==
    w.pc # "idle" =>
        /\ w.obj.origin # None => new.origin = w.obj.origin
        /\ Owns(t, m, w.obj.phase) =>
              \/ w.obj.phase = new.phase /\ w.obj.cont = new.cont
              \/ w.obj.phase = "Migrating" /\ new.phase \in Broken
        /\ t = Home /\ w.obj.phase = "CancellationPreparing" =>
              new.phase \in {"CancellationPreparing", "Restoring"}
        /\ t = Home /\ w.obj.phase = "CancellationCleanup" =>
              new.phase \in {"CancellationCleanup", "CancellationFinalize"}
        /\ t = Dest[m] /\ w.obj.phase = "Restoring" =>
              new.phase \in {"Restoring", "CancellationCleanup"}

\* The steps that change neither objects nor workers nor LC objects.
LEMMA Unrelated ==
    ASSUME \/ \E m \in Migrations : CreateMigration(m) \/ Replicate(m)
           \/ \E s \in Shards : Resync(s) \/ IndexObserve(s) \/ IndexResync(s)
           \/ \E k \in DataKeys : ClientStart(k)
           \/ ClientApply \/ ClientAck \/ ClientFail \/ UNCHANGED vars
    PROVE  UNCHANGED <<mig, worker, lc, lister, wsDeleted, registry, blocked>>
  BY Zenon DEF CreateMigration, Replicate, Resync, IndexObserve, IndexResync, ClientStart,
     ClientApply, ClientAck, ClientFail, vars

\* The registration and the context of one shard.
LEMMA GateLocal ==
    ASSUME Base, NEW s \in Shards
    PROVE  /\ \A e : registry' = [registry EXCEPT ![s] = e] =>
                 registry'[s] = e /\ \A t \in Shards \ {s} : registry'[t] = registry[t]
           /\ \A e : blocked' = [blocked EXCEPT ![s] = e] =>
                 blocked'[s] = e /\ \A t \in Shards \ {s} : blocked'[t] = blocked[t]
  <1>1. registry \in [Shards -> Migrations \cup {None}] /\ blocked \in [Shards -> BOOLEAN]
    BY Zenon DEF Base, ShardType, GateType
  <1> QED
    BY Zenon, <1>1

\* The base holds.
LEMMA BaseInvariant == Spec => []Base
  <1>1. MigrationInv /\ ShardType => Base
    BY DEF Base
  <1> QED
    BY <1>1, TypeInvariant, MigrationInvariant, PTL

\* The phases of the only migration of an LC follow each other in order, each left
\* by the shard that owns it.
THEOREM OrderInvariant ==
    ASSUME NEW m, Only(m)
    PROVE  Spec => []OrderInv(m)
  \* A step of one worker keeps the order, if what the worker leaves is in order and
  \* its LC object does not appear out of turn.
  <1>OrderStep.
      ASSUME Base, OrderInv(m), NEW s \in Shards, ~At(s, m, "idle"),
             NEW x, Acts(s, m, x), Stage(s, m, x), UNCHANGED <<mig, lister>>,
             \A t \in Shards \ {s} : lc'[t] = lc[t],
             s # Home /\ Obj(s, m).origin = None => lc'[s] = None,
             AnnotationInv(m)'
      PROVE  OrderInv(m)'
    <2> USE <1>OrderStep
    <2>1. m \in Migrations
      BY Zenon DEF Only
    <2>2. worker'[s][m] = x /\ \A t \in Shards \ {s} : worker'[t][m] = worker[t][m]
      BY Zenon, <2>1, ActsFacts
    <2>3. x.pc = "idle" \/ x.obj = Obj(s, m)
      BY Zenon DEF Acts
    <2>4. \A t \in Shards : Knows(t, m, worker[t][m]) /\ Stage(t, m, worker[t][m])
      BY Zenon DEF OrderInv
    <2>5. worker[s][m].pc # "idle" /\ Obj(s, m) = worker[s][m].obj
      BY Zenon DEF At, Obj
    <2>6. ASSUME NEW t \in Shards
          PROVE  Stage(t, m, worker'[t][m])
      BY Zenon, <2>2, <2>4
    <2>7. ASSUME NEW t \in Shards, t # s
          PROVE  Knows(t, m, worker[t][m])'
      <3>1. worker'[t][m] = worker[t][m] /\ lc'[t] = lc[t]
        BY Zenon, <2>2, <2>7
      <3>2. Knows(t, m, worker[t][m])
        BY Zenon, <2>4
      <3> QED
        BY Zenon, <3>1, <3>2 DEF Knows
    <2>8. Knows(s, m, worker[s][m])'
      <3>1. Knows(s, m, worker[s][m])
        BY Zenon, <2>4
      <3>2. CASE x.pc = "idle"
        BY Zenon, <2>2, <3>2 DEF Knows
      <3>3. CASE x.obj = Obj(s, m)
        <4>1. worker'[s][m].obj = worker[s][m].obj
          BY Zenon, <2>2, <2>5, <3>3
        <4> QED
          BY Zenon, <2>5, <3>1, <4>1 DEF Knows
      <3> QED
        BY Zenon, <2>3, <3>2, <3>3
    <2>9. ObjectInv(m)'
      <3>1. ObjectInv(m)
        BY Zenon DEF OrderInv
      <3>2. ASSUME mig[m].origin = None, NEW t \in Shards \ {Home} PROVE lc'[t] = None
        <4>1. CASE t # s
          <5>1. lc'[t] = lc[t]
            BY <3>2, <4>1
          <5> QED
            BY Zenon, <3>1, <3>2, <5>1 DEF ObjectInv
        <4>2. CASE t = s
          <5>1. Obj(s, m).origin = None
            BY Zenon, <2>4, <2>5, <3>2 DEF Knows
          <5> QED
            BY Zenon, <3>2, <4>2, <5>1
        <4> QED
          BY Zenon, <4>1, <4>2
      <3> QED
        BY Zenon, <3>1, <3>2 DEF ObjectInv
    <2>10. \A t \in Shards : (Knows(t, m, worker[t][m]) /\ Stage(t, m, worker[t][m]))'
      BY Zenon, <2>6, <2>7, <2>8 DEF Stage
    <2> QED
      BY Zenon, <2>9, <2>10 DEF OrderInv
  \* The annotation is not touched by another shard, nor by a step that leaves an
  \* annotated LC annotated.
  <1>AnnotationAway.
      ASSUME Base, m \in Migrations, OrderInv(m), NEW s \in Shards, s # Home,
             NEW x, Acts(s, m, x), UNCHANGED <<mig, lister>>, lc'[Home] = lc[Home]
      PROVE  AnnotationInv(m)'
    <2> USE <1>AnnotationAway
    <2>1. Home \in Shards \ {s}
      BY Zenon, HomeThere
    <2>2. worker'[Home][m] = worker[Home][m]
      BY Zenon, <2>1, ActsFacts
    <2> QED
      BY Zenon, <2>2 DEF OrderInv, AnnotationInv, Annotated, Holding
  \* Nor by a step of the origin that leaves it annotated, or comes when nobody
  \* relies on it; a worker that starts to rely on it has found it there.
  <1>AnnotationAtHome.
      ASSUME Base, m \in Migrations, OrderInv(m),
             NEW x, Acts(Home, m, x), UNCHANGED <<mig, lister>>,
             \/ Annotated(m) => Annotated(m)'
             \/ mig[m].phase \notin {"", "Preparing", "Migrating"},
             Holding(x) => Annotated(m)'
      PROVE  AnnotationInv(m)'
    <2> USE <1>AnnotationAtHome
    <2>1. worker'[Home][m] = x
      BY Zenon, ActsFacts, ConstantsAssumption
    <2>2. AnnotationInv(m)
      BY Zenon DEF OrderInv
    <2> QED
      BY Zenon, <2>1, <2>2 DEF AnnotationInv, Annotated, Holding
  \* A step that keeps to its shard, and leaves its worker at a legal point, keeps
  \* the order.
  <1>Ordered.
      ASSUME Base, OrderInv(m), NEW s \in Shards, ~At(s, m, "idle"),
             NEW x, Acts(s, m, x), Stage(s, m, x), LocalTo(s, m),
             s = Home /\ Holding(x) => Annotated(m)'
      PROVE  OrderInv(m)'
    <2> USE <1>Ordered
    <2>1. m \in Migrations
      BY Zenon DEF Only
    <2>2. AnnotationInv(m)'
      <3>1. CASE s = Home
        BY Zenon, <2>1, <3>1, <1>AnnotationAtHome DEF LocalTo
      <3>2. CASE s # Home
        <4>1. lc'[Home] = lc[Home] /\ UNCHANGED <<mig, lister>>
          BY Zenon, <3>2, ConstantsAssumption DEF LocalTo
        <4> QED
          BY Zenon, <2>1, <3>2, <4>1, <1>AnnotationAway
      <3> QED
        BY Zenon, <3>1, <3>2
    <2> QED
      BY Zenon, <2>2, <1>OrderStep DEF LocalTo
  \* A handler that returns: with the object as it was, or with the next phase.
  <1>ReturnOrder.
      ASSUME Base, OrderInv(m), NEW s \in Shards, ~At(s, m, "idle"),
             NEW new, NEW rq, Return(s, m, new, rq), LocalTo(s, m),
             \/ new = Obj(s, m)
             \/ /\ ObjOK(new) /\ Moves(s, m, Obj(s, m).phase, new.phase)
                /\ s = Home /\ new.phase = "Migrating" => Annotated(m)'
      PROVE  OrderInv(m)'
    <2> USE <1>ReturnOrder
    <2>1. m \in Migrations
      BY Zenon DEF Only
    <2>2. PICK x : /\ Acts(s, m, x)
                   /\ \/ x = Idle /\ new = Obj(s, m)
                      \/ x.pc = "commit" /\ x.obj = Obj(s, m) /\ x.new = new
      BY Zenon, <2>1, ReturnActs
    <2>3. Idle.pc = "idle"
      BY DEF Idle
    <2>4. CASE x = Idle
      BY Zenon, <2>2, <2>3, <2>4, <1>Ordered DEF Stage, Holding
    <2>5. CASE x.pc = "commit" /\ x.obj = Obj(s, m) /\ x.new = new /\ new # Obj(s, m)
      <3>1. Stage(s, m, x)
        BY Zenon, <2>5 DEF Stage
      <3>2. s = Home /\ Holding(x) => Annotated(m)'
        BY Zenon, <2>5 DEF Holding
      <3> QED
        BY Zenon, <2>2, <3>1, <3>2, <1>Ordered
    <2>6. CASE x.pc = "commit" /\ x.obj = Obj(s, m) /\ x.new = new /\ new = Obj(s, m)
      <3>1. worker' = [worker EXCEPT ![s][m] = Idle]
        BY Zenon, <2>6 DEF Return
      <3>2. Acts(s, m, Idle)
        BY Zenon, <2>3, <3>1 DEF Acts
      <3> QED
        BY Zenon, <2>3, <3>2, <1>Ordered DEF Stage, Holding
    <2> QED
      BY Zenon, <2>2, <2>4, <2>5, <2>6
  \* A handler that goes on to its next part.
  <1>GotoOrder.
      ASSUME Base, OrderInv(m), NEW s \in Shards, ~At(s, m, "idle"),
             NEW p \in {"register", "block", "finalize", "check", "release"},
             Goto(s, m, p), LocalTo(s, m),
             p \in {"register", "block"} =>
                /\ s = Home /\ Obj(s, m).phase = "Preparing" /\ Obj(s, m).origin = Home
                /\ Annotated(m)',
             p = "finalize" => s = Dest[m] /\ Obj(s, m).phase = "DestinationFinalize",
             p \in {"check", "release"} => s = Home /\ Obj(s, m).phase = "CancellationFinalize"
      PROVE  OrderInv(m)'
    <2> USE <1>GotoOrder
    <2>1. m \in Migrations
      BY Zenon DEF Only
    <2>2. PICK x : Acts(s, m, x) /\ x.pc = p /\ x.obj = Obj(s, m)
      BY Zenon, <2>1, GotoActs
    <2>3. Stage(s, m, x)
      BY Zenon, <2>2 DEF Stage
    <2>4. Holding(x) => Annotated(m)'
      BY Zenon, <2>2 DEF Holding
    <2> QED
      BY Zenon, <2>2, <2>3, <2>4, <1>Ordered
  \* A step that leaves the LC objects alone is local.
  <1>QuietIsLocal.
      ASSUME OrderInv(m), NEW s \in Shards, ~At(s, m, "idle"),
             UNCHANGED <<mig, lister, lc>>
      PROVE  LocalTo(s, m)
    <2> USE <1>QuietIsLocal
    <2>1. Knows(s, m, worker[s][m])
      BY Zenon DEF OrderInv
    <2> QED
      BY Zenon, <2>1 DEF LocalTo, Knows, At, Obj, Annotated
  \* A shard that wipes keeps its LC object or loses it.
  <1>WipeIsLocal.
      ASSUME Base, OrderInv(m), NEW s \in Shards, ~At(s, m, "idle"),
             NEW D, Wipe(s, D), UNCHANGED <<mig, lister>>
      PROVE  LocalTo(s, m)
    <2> USE <1>WipeIsLocal
    <2>1. lc'[s] \in {None, lc[s]} /\ \A t \in Shards \ {s} : lc'[t] = lc[t]
      <3>1. SetLC(s, IF LCKey \in D THEN None ELSE lc[s])
        BY Zenon DEF Wipe
      <3> QED
        BY Zenon, <3>1, SetLCLocal
    <2>2. Knows(s, m, worker[s][m])
      BY Zenon DEF OrderInv
    <2> QED
      BY Zenon, <2>1, <2>2 DEF LocalTo, Knows, At, Obj, Annotated
  \* startCancellation hands over to the rollback.
  <1>StartCancellationOrder.
      ASSUME Base, OrderInv(m), NEW s \in Shards, StartCancellation(s, m)
      PROVE  OrderInv(m)'
    <2> USE <1>StartCancellationOrder
    <2> DEFINE o == Obj(s, m)
               origin == IF o.phase \in {"", "Preparing"} THEN s ELSE o.origin
               phase == CASE o.phase \in {"", "Preparing"} -> "CancellationFinalize"
                          [] o.phase = "Migrating" -> "CancellationCleanup"
                          [] OTHER -> "CancellationPreparing"
               new == [o EXCEPT !.cont = 0, !.origin = origin, !.phase = phase]
    <2>1. ~At(s, m, "idle") /\ UNCHANGED <<mig, lister, lc>>
      BY Zenon, AtReconcile DEF StartCancellation, outside
    <2>2. /\ o \in MigrationObjects /\ ObjOK(o)
          /\ IsOrigin(s, o) => s = Home
      BY Zenon, <2>1, Reads
    <2>3. Return(s, m, new, TRUE) /\ StartsCancellation(s, m, o)
      BY Zenon DEF StartCancellation
    <2>4. new.origin = origin /\ new.phase = phase /\ new.cont = 0
      BY <2>2 DEF MigrationObjects
    <2> HIDE DEF new
    <2>5. CASE o.phase \in {"", "Preparing"}
      <3>1. s = Home /\ origin = Home /\ phase = "CancellationFinalize"
        BY <2>2, <2>3, <2>5 DEF StartsCancellation
      <3> HIDE DEF origin, phase
      <3>2. ObjOK(new) /\ Moves(s, m, o.phase, new.phase)
        BY Zenon, <2>4, <2>5, <3>1, HomeThere DEF ObjOK, Moves
      <3> QED
        BY Zenon, <2>1, <2>3, <2>4, <3>1, <3>2, <1>QuietIsLocal, <1>ReturnOrder
    <2>6. CASE o.phase \notin {"", "Preparing"}
      <3>1. origin = o.origin /\ o.origin = Home
        BY Zenon, <2>2, <2>3, <2>6 DEF StartsCancellation, ObjOK, Broken
      <3>2. \/ o.phase = "OriginCleanup" /\ s = Home /\ phase = "CancellationPreparing"
            \/ o.phase = "DestinationFinalize" /\ s = Dest[m] /\ phase = "CancellationPreparing"
            \/ o.phase = "Migrating" /\ s = Dest[m] /\ phase = "CancellationCleanup"
        BY <2>2, <2>3, <2>6 DEF StartsCancellation, IsDestination
      <3> HIDE DEF origin, phase
      <3>3. ObjOK(new)
        BY Zenon, <2>4, <3>1, HomeThere DEF ObjOK
      <3>4. Moves(s, m, o.phase, new.phase) /\ new.phase # "Migrating"
        BY Zenon, <2>4, <3>2 DEF Moves
      <3> QED
        BY Zenon, <2>1, <2>3, <3>3, <3>4, <1>QuietIsLocal, <1>ReturnOrder
    <2> QED
      BY Zenon, <2>5, <2>6
  \* The origin aborts.
  <1>DetectLCDeletionOrder.
      ASSUME Base, OrderInv(m), NEW s \in Shards, DetectLCDeletion(s, m)
      PROVE  OrderInv(m)'
    <2> USE <1>DetectLCDeletionOrder
    <2> DEFINE o == Obj(s, m)
               new == [o EXCEPT !.phase = "Aborting"]
    <2>1. ~At(s, m, "idle") /\ UNCHANGED <<mig, lister, lc>>
      BY Zenon, AtReconcile DEF DetectLCDeletion, outside
    <2>2. /\ o \in MigrationObjects /\ ObjOK(o)
          /\ IsOrigin(s, o) => s = Home
      BY Zenon, <2>1, Reads
    <2>3. Return(s, m, new, TRUE) /\ IsOrigin(s, o) /\ o.phase \in {"Preparing", "Migrating"}
      BY Zenon DEF DetectLCDeletion, SeesLCDeleted
    <2>4. new.origin = o.origin /\ new.phase = "Aborting" /\ new.cont = o.cont
      BY <2>2 DEF MigrationObjects
    <2> HIDE DEF new
    <2>5. ObjOK(new) /\ Moves(s, m, o.phase, new.phase) /\ new.phase # "Migrating"
      BY Zenon, <2>2, <2>3, <2>4 DEF ObjOK, Moves, Broken
    <2> QED
      BY Zenon, <2>1, <2>3, <2>5, <1>QuietIsLocal, <1>ReturnOrder
  \* A shard that waits, and one that finds the registration taken.
  <1>WaitOrder.
      ASSUME Base, OrderInv(m), NEW s \in Shards,
             Wait(s, m)
      PROVE  OrderInv(m)'
    <2> USE <1>WaitOrder
    <2>1. ~At(s, m, "idle") /\ UNCHANGED <<mig, lister, lc>>
      BY Zenon, AtReconcile DEF Wait, Handles, outside
    <2>2. \E rq : Return(s, m, Obj(s, m), rq)
      BY Zenon DEF Wait
    <2> QED
      BY Zenon, <2>1, <2>2, <1>QuietIsLocal, <1>ReturnOrder
  \* A handler that fails leaves everything in order.
  <1>FailsOrder.
      ASSUME Base, OrderInv(m), NEW s \in Shards, ~At(s, m, "idle"),
             Fails(s, m), UNCHANGED outside
      PROVE  OrderInv(m)'
    <2> USE <1>FailsOrder
    <2>1. UNCHANGED <<mig, lister, lc>>
      BY Zenon DEF Fails, outside
    <2> QED
      BY Zenon, <2>1, <1>QuietIsLocal, <1>ReturnOrder DEF Fails
  \* The finalizer and the first phase.
  <1>StartOrder.
      ASSUME Base, OrderInv(m), NEW s \in Shards, Start(s, m)
      PROVE  OrderInv(m)'
    <2> USE <1>StartOrder
    <2> DEFINE o == Obj(s, m)
               new == IF o.fin THEN [o EXCEPT !.phase = "Preparing"] ELSE [o EXCEPT !.fin = TRUE]
    <2>1. ~At(s, m, "idle") /\ UNCHANGED <<mig, lister, lc>>
      BY Zenon, AtReconcile DEF Start, Handles, outside
    <2>2. /\ o \in MigrationObjects /\ ObjOK(o)
          /\ IsOrigin(s, o) => s = Home
      BY Zenon, <2>1, Reads
    <2>3. Return(s, m, new, TRUE) /\ IsOrigin(s, o) /\ o.phase = ""
      BY Zenon DEF Start, Handles
    <2>4. new.origin = o.origin /\ new.phase \in {"", "Preparing"} /\ new.cont = o.cont
      BY <2>2, <2>3 DEF MigrationObjects
    <2> HIDE DEF new
    <2>5. ObjOK(new)
      BY Zenon, <2>2, <2>3, <2>4 DEF ObjOK, Broken
    <2>6. Moves(s, m, o.phase, new.phase) /\ new.phase # "Migrating"
      BY Zenon, <2>2, <2>3, <2>4 DEF Moves
    <2> QED
      BY Zenon, <2>1, <2>3, <2>5, <2>6, <1>QuietIsLocal, <1>ReturnOrder
  \* reconcilePreparing up to the annotation.
  <1>PrepareOrder.
      ASSUME Base, OrderInv(m), NEW s \in Shards, Prepare(s, m)
      PROVE  OrderInv(m)'
    <2> USE <1>PrepareOrder
    <2> DEFINE o == Obj(s, m)
    <2>1. ~At(s, m, "idle") /\ UNCHANGED <<mig, lister, outside>>
      BY Zenon, AtReconcile DEF Prepare, Handles, outside
    <2>2. /\ o \in MigrationObjects /\ ObjOK(o) /\ s = Home /\ o.phase = "Preparing"
          /\ m \in Migrations
      BY Zenon, <2>1, Reads DEF Prepare, Handles
    <2>3. mig[m].phase = "Preparing"
      BY Zenon, <2>1, <2>2, Reads DEF Owns, OriginOwns
    <2>4. lister[s] # None /\ lister[s].ann \in {None, m}
      BY Zenon, <2>2, PrepareSees, OneAnnotation
    <2>5. CASE /\ Return(s, m, [o EXCEPT !.origin = s], TRUE)
               /\ UNCHANGED lc
      <3> DEFINE new == [o EXCEPT !.origin = s]
      <3>1. new.origin = s /\ new.phase = o.phase /\ new.cont = o.cont
        BY <2>2 DEF MigrationObjects
      <3> HIDE DEF new
      <3>2. ObjOK(new) /\ Moves(s, m, o.phase, new.phase) /\ new.phase # "Migrating"
        BY Zenon, <2>2, <3>1, HomeThere DEF ObjOK, Moves
      <3>3. Return(s, m, new, TRUE)
        BY Zenon, <2>5 DEF new
      <3> QED
        BY Zenon, <2>1, <2>5, <3>2, <3>3, <1>QuietIsLocal, <1>ReturnOrder
    <2>6. CASE /\ o.origin # None /\ lister[s].ann = m
               /\ Goto(s, m, "register") /\ UNCHANGED lc
      <3>1. Annotated(m) /\ Annotated(m)'
        BY Zenon, <2>2, <2>3, <2>4, <2>6 DEF OrderInv, AnnotationInv, Annotated
      <3>2. o.origin = Home
        BY Zenon, <2>2, <2>6 DEF ObjOK
      <3> QED
        BY Zenon, <2>1, <2>2, <2>6, <3>1, <3>2, <1>QuietIsLocal, <1>GotoOrder
    <2>7. CASE /\ o.origin # None /\ lc[s] = lister[s]
               /\ SetAnnotation(s, m) /\ Goto(s, m, "register")
      <3>1. lc'[s].ann = m /\ \A t \in Shards \ {s} : lc'[t] = lc[t]
        BY Zenon, <2>2, <2>4, <2>7, SetAnnotationLocal
      <3>2. Annotated(m)'
        BY Zenon, <2>2, <3>1 DEF Annotated
      <3>3. o.origin = Home
        BY Zenon, <2>2, <2>7 DEF ObjOK
      <3>4. LocalTo(s, m)
        BY Zenon, <2>1, <2>2, <3>1, <3>2 DEF LocalTo
      <3> QED
        BY Zenon, <2>1, <2>2, <2>7, <3>2, <3>3, <3>4, <1>GotoOrder
    <2>8. CASE Fails(s, m)
      BY Zenon, <2>1, <2>8, <1>FailsOrder
    <2> QED
      BY Zenon, <2>4, <2>5, <2>6, <2>7, <2>8 DEF Prepare
  \* The registration and the cancelled context.
  <1>PrepareRestOrder.
      ASSUME Base, OrderInv(m), NEW s \in Shards,
             PrepareRegister(s, m) \/ PrepareBlock(s, m)
      PROVE  OrderInv(m)'
    <2> USE <1>PrepareRestOrder
    <2> DEFINE o == Obj(s, m)
               new == [o EXCEPT !.phase = "Migrating"]
    <2>1. /\ ~At(s, m, "idle") /\ UNCHANGED <<mig, lister, lc>>
          /\ worker[s][m].pc \in {"register", "block"}
      BY Zenon DEF PrepareRegister, PrepareBlock, outside, At
    <2>2. /\ o \in MigrationObjects /\ ObjOK(o) /\ m \in Migrations
      BY Zenon, <2>1, Reads
    <2>3. s = Home /\ o.phase = "Preparing" /\ o.origin = Home
      BY Zenon, <2>1 DEF OrderInv, Stage, Obj
    <2>4. Annotated(m) /\ Annotated(m)'
      BY Zenon, <2>1, <2>3 DEF OrderInv, AnnotationInv, Annotated, Holding
    <2>5. LocalTo(s, m)
      BY Zenon, <2>1, <1>QuietIsLocal
    <2>6. CASE PrepareRegister(s, m)
      BY Zenon, <2>1, <2>3, <2>4, <2>5, <2>6, <1>GotoOrder DEF PrepareRegister
    <2>7. CASE PrepareBlock(s, m)
      <3>1. new.origin = o.origin /\ new.phase = "Migrating" /\ new.cont = o.cont
        BY <2>2 DEF MigrationObjects
      <3>2. Return(s, m, new, FALSE)
        BY Zenon, <2>7 DEF PrepareBlock
      <3> HIDE DEF new
      <3>3. ObjOK(new) /\ Moves(s, m, o.phase, new.phase)
        BY Zenon, <2>2, <2>3, <3>1, HomeThere DEF ObjOK, Moves
      <3> QED
        BY Zenon, <2>1, <2>4, <2>5, <3>2, <3>3, <1>ReturnOrder
    <2> QED
      BY Zenon, <2>6, <2>7
  \* reconcileMigrating.
  <1>MigrateOrder.
      ASSUME Base, OrderInv(m), NEW s \in Shards, Migrate(s, m)
      PROVE  OrderInv(m)'
    <2> USE <1>MigrateOrder
    <2> DEFINE o == Obj(s, m)
    <2>1. /\ ~At(s, m, "idle") /\ UNCHANGED <<mig, lister>>
          /\ o.phase = "Migrating" /\ s = Dest[m] /\ s # Home
      BY Zenon, AtReconcile DEF Migrate, Handles, IsDestination, outside, Only
    <2>2. o \in MigrationObjects /\ ObjOK(o) /\ m \in Migrations
      BY Zenon, <2>1, Reads
    <2>3. o.origin = Home
      BY Zenon, <2>1, <2>2 DEF ObjOK, Broken
    <2>4. (\E p : CopyPage(s, m, o.origin, p)) \/ CopyFails(s, m, o.origin)
      BY Zenon DEF Migrate
    <2>5. LocalTo(s, m)
      BY Zenon, <2>1, <2>2, <2>3, <2>4, CopyLocal, HomeThere DEF LocalTo
    <2>6. \/ \E p \in Pages(o.origin, o.cont) :
                Return(s, m, [o EXCEPT !.cont = p.next, !.copied = p.next = 0,
                        !.phase = IF p.next = 0 THEN "OriginCleanup" ELSE @], p.next # 0)
          \/ Return(s, m, Obj(s, m), TRUE)
      BY Zenon DEF Migrate, CopyFails
    <2>7. ASSUME NEW p \in Pages(o.origin, o.cont),
                 Return(s, m, [o EXCEPT !.cont = p.next, !.copied = p.next = 0,
                        !.phase = IF p.next = 0 THEN "OriginCleanup" ELSE @], p.next # 0)
          PROVE  OrderInv(m)'
      <3> DEFINE new == [o EXCEPT !.cont = p.next, !.copied = p.next = 0,
                        !.phase = IF p.next = 0 THEN "OriginCleanup" ELSE @]
      <3>1. /\ new.origin = o.origin /\ new.cont = p.next
            /\ new.phase = IF p.next = 0 THEN "OriginCleanup" ELSE o.phase
        BY <2>2 DEF MigrationObjects
      <3> HIDE DEF new
      <3>2. ObjOK(new) /\ Moves(s, m, o.phase, new.phase)
        BY Zenon, <2>1, <2>3, <3>1, HomeThere DEF ObjOK, Moves
      <3>3. Return(s, m, new, p.next # 0)
        BY Zenon, <2>7 DEF new
      <3> QED
        BY Zenon, <2>1, <2>5, <3>2, <3>3, <1>ReturnOrder
    <2>8. CASE Return(s, m, Obj(s, m), TRUE)
      BY Zenon, <2>1, <2>5, <2>8, <1>ReturnOrder
    <2> QED
      BY Zenon, <2>6, <2>7, <2>8
  \* reconcileOriginCleanup.
  <1>OriginCleanupOrder.
      ASSUME Base, OrderInv(m), NEW s \in Shards, OriginCleanup(s, m)
      PROVE  OrderInv(m)'
    <2> USE <1>OriginCleanupOrder
    <2> DEFINE o == Obj(s, m)
               new == [o EXCEPT !.originCleaned = TRUE, !.phase = "DestinationFinalize"]
    <2>1. /\ ~At(s, m, "idle") /\ UNCHANGED <<mig, lister>>
          /\ o.phase = "OriginCleanup" /\ IsOrigin(s, o) /\ \E D : Wipe(s, D)
      BY Zenon, AtReconcile DEF OriginCleanup, Handles, outside, DeleteData, DeleteFails
    <2>2. o \in MigrationObjects /\ ObjOK(o) /\ s = Home
      BY Zenon, <2>1, Reads
    <2>3. LocalTo(s, m)
      BY Zenon, <2>1, <1>WipeIsLocal
    <2>4. new.origin = o.origin /\ new.phase = "DestinationFinalize" /\ new.cont = o.cont
      BY <2>2 DEF MigrationObjects
    <2>5. Return(s, m, new, FALSE) \/ Return(s, m, Obj(s, m), TRUE)
      BY Zenon DEF OriginCleanup, DeleteFails
    <2> HIDE DEF new
    <2>6. ObjOK(new) /\ Moves(s, m, o.phase, new.phase) /\ new.phase # "Migrating"
      BY Zenon, <2>1, <2>2, <2>4 DEF ObjOK, Moves, Broken
    <2> QED
      BY Zenon, <2>1, <2>3, <2>5, <2>6, <1>ReturnOrder
  \* reconcileAborting.
  <1>AbortOrder.
      ASSUME Base, OrderInv(m), NEW s \in Shards, Abort(s, m)
      PROVE  OrderInv(m)'
    <2> USE <1>AbortOrder
    <2> DEFINE o == Obj(s, m)
               originCleaned == o.originCleaned \/ IsOrigin(s, o)
               destCleaned == o.destCleaned \/ IsDestination(s, m)
               new == [o EXCEPT !.originCleaned = originCleaned, !.destCleaned = destCleaned,
                           !.phase = IF originCleaned /\ (destCleaned \/ ~o.copied)
                                     THEN "Failed" ELSE @]
    <2>1. /\ ~At(s, m, "idle") /\ UNCHANGED <<mig, lister>>
          /\ o.phase = "Aborting" /\ \E D : Wipe(s, D)
      BY Zenon, AtReconcile DEF Abort, Handles, outside, DeleteData, DeleteFails
    <2>2. o \in MigrationObjects /\ ObjOK(o)
      BY Zenon, <2>1, Reads
    <2>3. LocalTo(s, m)
      BY Zenon, <2>1, <1>WipeIsLocal
    <2>4. Return(s, m, new, FALSE) \/ Return(s, m, Obj(s, m), TRUE)
      BY Zenon DEF Abort, DeleteFails
    <2>5. new.origin = o.origin /\ new.phase \in Broken /\ new.cont = o.cont
      <3> HIDE DEF originCleaned, destCleaned
      <3> QED
        BY <2>1, <2>2 DEF MigrationObjects, Broken
    <2> HIDE DEF new
    <2>6. ObjOK(new) /\ Moves(s, m, o.phase, new.phase) /\ new.phase # "Migrating"
      BY Zenon, <2>1, <2>2, <2>5 DEF ObjOK, Moves, Broken
    <2> QED
      BY Zenon, <2>1, <2>3, <2>4, <2>6, <1>ReturnOrder
  \* reconcileDestinationFinalize.
  <1>FinalizeOrder.
      ASSUME Base, OrderInv(m), NEW s \in Shards, DestinationFinalize(s, m)
      PROVE  OrderInv(m)'
    <2> USE <1>FinalizeOrder
    <2> DEFINE o == Obj(s, m)
    <2>1. /\ ~At(s, m, "idle") /\ UNCHANGED <<mig, lister, outside>>
          /\ o.phase = "DestinationFinalize" /\ s = Dest[m] /\ s # Home
      BY Zenon, AtReconcile DEF DestinationFinalize, Handles, outside, IsDestination, Only
    <2>2. ObjOK(o)
      BY Zenon, <2>1, Reads
    <2>3. CASE Fails(s, m)
      BY Zenon, <2>1, <2>3, <1>FailsOrder
    <2>4. CASE lc[s] # None /\ SetAnnotation(s, None) /\ Goto(s, m, "finalize")
      <3>1. \A t \in Shards \ {s} : lc'[t] = lc[t]
        BY Zenon, <2>4, SetAnnotationLocal
      <3>2. LocalTo(s, m)
        BY Zenon, <2>1, <2>2, <3>1 DEF LocalTo, ObjOK, Broken
      <3> QED
        BY Zenon, <2>1, <2>4, <3>2, <1>GotoOrder
    <2> QED
      BY Zenon, <2>3, <2>4 DEF DestinationFinalize
  \* The destination is released.
  <1>DestinationReleaseOrder.
      ASSUME Base, OrderInv(m), NEW s \in Shards, DestinationRelease(s, m)
      PROVE  OrderInv(m)'
    <2> USE <1>DestinationReleaseOrder
    <2> DEFINE o == Obj(s, m)
               new == [o EXCEPT !.phase = "Completed"]
    <2>1. /\ ~At(s, m, "idle") /\ UNCHANGED <<mig, lister, lc>> /\ worker[s][m].pc = "finalize"
      BY Zenon DEF DestinationRelease, outside, At, Fails
    <2>2. o \in MigrationObjects /\ ObjOK(o)
      BY Zenon, <2>1, Reads
    <2>3. s = Dest[m] /\ o.phase = "DestinationFinalize"
      BY Zenon, <2>1 DEF OrderInv, Stage, Obj
    <2>4. LocalTo(s, m)
      BY Zenon, <2>1, <1>QuietIsLocal
    <2>5. Return(s, m, new, FALSE) \/ Return(s, m, Obj(s, m), TRUE)
      BY Zenon DEF DestinationRelease, Fails
    <2>6. new.origin = o.origin /\ new.phase = "Completed" /\ new.cont = o.cont
      BY <2>2 DEF MigrationObjects
    <2> HIDE DEF new
    <2>7. ObjOK(new) /\ Moves(s, m, o.phase, new.phase) /\ new.phase # "Migrating"
      BY Zenon, <2>2, <2>3, <2>6 DEF ObjOK, Moves, Broken
    <2> QED
      BY Zenon, <2>1, <2>4, <2>5, <2>7, <1>ReturnOrder
  \* The finalizer goes in the final phases.
  <1>RemoveFinalizerOrder.
      ASSUME Base, OrderInv(m), NEW s \in Shards, RemoveFinalizer(s, m)
      PROVE  OrderInv(m)'
    <2> USE <1>RemoveFinalizerOrder
    <2> DEFINE o == Obj(s, m)
               new == [o EXCEPT !.fin = FALSE]
    <2>1. /\ ~At(s, m, "idle") /\ UNCHANGED <<mig, lister, lc>>
          /\ \/ o.phase = "Completed" /\ s = Dest[m]
             \/ o.phase = "Cancelled" /\ IsOrigin(s, o)
             \/ o.phase = "Failed"
      BY Zenon, AtReconcile DEF RemoveFinalizer, outside, Handles, IsDestination
    <2>2. o \in MigrationObjects /\ ObjOK(o) /\ (IsOrigin(s, o) => s = Home)
      BY Zenon, <2>1, Reads
    <2>3. new.origin = o.origin /\ new.phase = o.phase /\ new.cont = o.cont
      BY <2>2 DEF MigrationObjects
    <2>4. Return(s, m, new, FALSE)
      BY Zenon DEF RemoveFinalizer
    <2> HIDE DEF new
    <2>5. ObjOK(new)
      BY Zenon, <2>2, <2>3 DEF ObjOK
    <2>6. Moves(s, m, o.phase, new.phase) /\ new.phase # "Migrating"
      BY Zenon, <2>1, <2>2, <2>3 DEF Moves, Broken
    <2> QED
      BY Zenon, <2>1, <2>4, <2>5, <2>6, <1>QuietIsLocal, <1>ReturnOrder
  \* The shard that waits for the other one.
  <1>KeepBlockedOrder.
      ASSUME Base, OrderInv(m), NEW s \in Shards, KeepBlocked(s, m)
      PROVE  OrderInv(m)'
    <2> USE <1>KeepBlockedOrder
    <2>1. ~At(s, m, "idle") /\ UNCHANGED <<mig, lister, lc>>
      BY Zenon, AtReconcile DEF KeepBlocked, outside, Handles, Fails
    <2>2. \E rq : Return(s, m, Obj(s, m), rq)
      BY Zenon DEF KeepBlocked, Fails
    <2> QED
      BY Zenon, <2>1, <2>2, <1>QuietIsLocal, <1>ReturnOrder
  \* blockForCancellation.
  <1>BlockOrder.
      ASSUME Base, OrderInv(m), NEW s \in Shards, BlockForCancellation(s, m)
      PROVE  OrderInv(m)'
    <2> USE <1>BlockOrder
    <2> DEFINE o == Obj(s, m)
               new == [o EXCEPT !.phase = "Restoring"]
    <2>1. /\ ~At(s, m, "idle") /\ UNCHANGED <<mig, lister, outside>>
          /\ o.phase \in {"CancellationPreparing", "Restoring"} /\ s = Dest[m] /\ s # Home
      BY Zenon, AtReconcile DEF BlockForCancellation, outside, Handles, IsDestination, Only
    <2>2. o \in MigrationObjects /\ ObjOK(o) /\ m \in Migrations
      BY Zenon, <2>1, Reads
    <2>3. CASE Return(s, m, Obj(s, m), TRUE) /\ UNCHANGED lc
      BY Zenon, <2>1, <2>3, <1>QuietIsLocal, <1>ReturnOrder
    <2>4. CASE /\ lc[s] # None /\ SetAnnotation(s, m)
               /\ Return(s, m, new, o.phase = "CancellationPreparing")
      <3>1. \A t \in Shards \ {s} : lc'[t] = lc[t]
        BY Zenon, <2>2, <2>4, SetAnnotationLocal
      <3>2. LocalTo(s, m)
        BY Zenon, <2>1, <2>2, <3>1 DEF LocalTo, ObjOK, Broken
      <3>3. CASE o.phase = "Restoring"
        <4>1. new = o
          BY Zenon, <2>2, <3>3 DEF MigrationObjects
        <4> HIDE DEF new
        <4> QED
          BY Zenon, <2>1, <2>4, <3>2, <4>1, <1>ReturnOrder
      <3>4. CASE o.phase = "CancellationPreparing"
        <4>1. new.origin = o.origin /\ new.phase = "Restoring" /\ new.cont = o.cont
          BY <2>2 DEF MigrationObjects
        <4> HIDE DEF new
        <4>2. ObjOK(new) /\ Moves(s, m, o.phase, new.phase) /\ new.phase # "Migrating"
          BY Zenon, <2>1, <2>2, <3>4, <4>1 DEF ObjOK, Moves, Broken
        <4> QED
          BY Zenon, <2>1, <2>4, <3>2, <4>2, <1>ReturnOrder
      <3> QED
        BY Zenon, <2>1, <3>3, <3>4
    <2> QED
      BY Zenon, <2>3, <2>4 DEF BlockForCancellation, Fails
  \* reconcileRestoring.
  <1>RestoreOrder.
      ASSUME Base, OrderInv(m), NEW s \in Shards, Restore(s, m)
      PROVE  OrderInv(m)'
    <2> USE <1>RestoreOrder
    <2> DEFINE o == Obj(s, m)
    <2>1. /\ ~At(s, m, "idle") /\ UNCHANGED <<mig, lister, outside>>
          /\ o.phase = "Restoring" /\ IsOrigin(s, o)
      BY Zenon, AtReconcile DEF Restore, Handles, outside
    <2>2. o \in MigrationObjects /\ ObjOK(o) /\ m \in Migrations /\ s = Home
      BY Zenon, <2>1, Reads
    <2>3. mig[m].phase = "Restoring" /\ o.origin = Home
      <3>1. Owns(s, m, o.phase)
        BY Zenon, <2>1, <2>2 DEF Owns, OriginOwns
      <3> QED
        BY Zenon, <2>1, <2>2, <3>1, Reads DEF ObjOK, Broken
    <2>4. CASE Fails(s, m)
      BY Zenon, <2>1, <2>4, <1>FailsOrder
    <2>5. CASE ~Fails(s, m)
      <3>1. (\E p : CopyPage(s, m, Dest[m], p)) \/ CopyFails(s, m, Dest[m])
        BY Zenon, <2>5 DEF Restore
      <3>2. \A t \in Shards \ {s} : lc'[t] = lc[t]
        BY Zenon, <2>2, <3>1, CopyLocal
      <3>3. LocalTo(s, m)
        BY Zenon, <2>1, <2>2, <2>3, <3>2 DEF LocalTo
      <3>4. \/ \E p \in Pages(Dest[m], o.cont) : Return(s, m, [o EXCEPT !.cont = p.next,
                        !.phase = IF p.next = 0 THEN "CancellationCleanup" ELSE @], TRUE)
            \/ Return(s, m, Obj(s, m), TRUE)
        BY Zenon DEF Restore, CopyFails, Fails
      <3>5. ASSUME NEW p \in Pages(Dest[m], o.cont), Return(s, m, [o EXCEPT !.cont = p.next,
                        !.phase = IF p.next = 0 THEN "CancellationCleanup" ELSE @], TRUE)
            PROVE  OrderInv(m)'
        <4> DEFINE new == [o EXCEPT !.cont = p.next,
                        !.phase = IF p.next = 0 THEN "CancellationCleanup" ELSE @]
        <4>1. /\ new.origin = o.origin /\ new.cont = p.next
              /\ new.phase = IF p.next = 0 THEN "CancellationCleanup" ELSE o.phase
          BY <2>2 DEF MigrationObjects
        <4> HIDE DEF new
        <4>2. ObjOK(new) /\ Moves(s, m, o.phase, new.phase) /\ new.phase # "Migrating"
          BY Zenon, <2>1, <2>2, <2>3, <4>1, HomeThere DEF ObjOK, Moves
        <4>3. Return(s, m, new, TRUE)
          BY Zenon, <3>5 DEF new
        <4> QED
          BY Zenon, <2>1, <3>3, <4>2, <4>3, <1>ReturnOrder
      <3>6. CASE Return(s, m, Obj(s, m), TRUE)
        BY Zenon, <2>1, <3>3, <3>6, <1>ReturnOrder
      <3> QED
        BY Zenon, <3>4, <3>5, <3>6
    <2> QED
      BY Zenon, <2>4, <2>5
  \* reconcileCancellationCleanup.
  <1>CancellationCleanupOrder.
      ASSUME Base, OrderInv(m), NEW s \in Shards, CancellationCleanup(s, m)
      PROVE  OrderInv(m)'
    <2> USE <1>CancellationCleanupOrder
    <2> DEFINE o == Obj(s, m)
               new == [o EXCEPT !.phase = "CancellationFinalize"]
    <2>1. /\ ~At(s, m, "idle") /\ UNCHANGED <<mig, lister, outside>>
          /\ o.phase = "CancellationCleanup" /\ s = Dest[m]
      BY Zenon, AtReconcile DEF CancellationCleanup, Handles, outside, IsDestination
    <2>2. o \in MigrationObjects /\ ObjOK(o)
      BY Zenon, <2>1, Reads
    <2>3. CASE Fails(s, m)
      BY Zenon, <2>1, <2>3, <1>FailsOrder
    <2>4. CASE ~Fails(s, m)
      <3>1. \E D : Wipe(s, D)
        BY Zenon, <2>4 DEF CancellationCleanup, DeleteData, DeleteFails
      <3>2. LocalTo(s, m)
        BY Zenon, <2>1, <3>1, <1>WipeIsLocal
      <3>3. Return(s, m, new, TRUE) \/ Return(s, m, Obj(s, m), TRUE)
        BY Zenon DEF CancellationCleanup, DeleteFails, Fails
      <3>4. new.origin = o.origin /\ new.phase = "CancellationFinalize" /\ new.cont = o.cont
        BY <2>2 DEF MigrationObjects
      <3> HIDE DEF new
      <3>5. ObjOK(new) /\ Moves(s, m, o.phase, new.phase) /\ new.phase # "Migrating"
        BY Zenon, <2>1, <2>2, <3>4 DEF ObjOK, Moves, Broken
      <3> QED
        BY Zenon, <2>1, <3>2, <3>3, <3>5, <1>ReturnOrder
    <2> QED
      BY Zenon, <2>3, <2>4
  \* finalizeCancellation up to the annotation.
  <1>CancellationFinalizeOrder.
      ASSUME Base, OrderInv(m), NEW s \in Shards, CancellationFinalize(s, m)
      PROVE  OrderInv(m)'
    <2> USE <1>CancellationFinalizeOrder
    <2> DEFINE o == Obj(s, m)
               new == [o EXCEPT !.phase = "Cancelled"]
    <2>1. /\ ~At(s, m, "idle") /\ UNCHANGED <<mig, lister>>
          /\ o.phase = "CancellationFinalize" /\ IsOrigin(s, o)
      BY Zenon, AtReconcile DEF CancellationFinalize, Handles, outside
    <2>2. o \in MigrationObjects /\ ObjOK(o) /\ m \in Migrations /\ s = Home
      BY Zenon, <2>1, Reads
    <2>3. mig[m].phase = "CancellationFinalize"
      <3>1. Owns(s, m, o.phase)
        BY Zenon, <2>1, <2>2 DEF Owns, OriginOwns
      <3> QED
        BY Zenon, <2>1, <3>1, Reads
    <2>4. UNCHANGED lc \/ (lc[s] # None /\ SetAnnotation(s, None))
      BY Zenon DEF CancellationFinalize, Fails
    <2>5. \A t \in Shards \ {s} : lc'[t] = lc[t]
      BY Zenon, <2>4, SetAnnotationLocal
    <2>6. LocalTo(s, m)
      BY Zenon, <2>1, <2>2, <2>3, <2>5 DEF LocalTo
    <2>7. \/ Return(s, m, new, TRUE)
          \/ Goto(s, m, "check")
          \/ Return(s, m, Obj(s, m), TRUE)
      BY Zenon DEF CancellationFinalize, Fails
    <2>8. CASE Goto(s, m, "check")
      BY Zenon, <2>1, <2>2, <2>6, <2>8, <1>GotoOrder
    <2>9. CASE Return(s, m, Obj(s, m), TRUE)
      BY Zenon, <2>1, <2>6, <2>9, <1>ReturnOrder
    <2>10. CASE Return(s, m, new, TRUE)
      <3>1. new.origin = o.origin /\ new.phase = "Cancelled" /\ new.cont = o.cont
        BY <2>2 DEF MigrationObjects
      <3> HIDE DEF new
      <3>2. ObjOK(new) /\ Moves(s, m, o.phase, new.phase) /\ new.phase # "Migrating"
        BY Zenon, <2>1, <2>2, <3>1 DEF ObjOK, Moves, Broken
      <3> QED
        BY Zenon, <2>1, <2>6, <2>10, <3>2, <1>ReturnOrder
    <2> QED
      BY Zenon, <2>7, <2>8, <2>9, <2>10
  \* The rest of finalizeCancellation.
  <1>CancellationReleaseOrder.
      ASSUME Base, OrderInv(m), NEW s \in Shards,
             CancellationCheck(s, m) \/ CancellationRelease(s, m)
      PROVE  OrderInv(m)'
    <2> USE <1>CancellationReleaseOrder
    <2> DEFINE o == Obj(s, m)
               new == [o EXCEPT !.phase = "Cancelled"]
    <2>1. /\ ~At(s, m, "idle") /\ UNCHANGED <<mig, lister, lc>>
          /\ worker[s][m].pc \in {"check", "release"}
      BY Zenon DEF CancellationCheck, CancellationRelease, outside, At
    <2>2. o \in MigrationObjects /\ ObjOK(o)
      BY Zenon, <2>1, Reads
    <2>3. s = Home /\ o.phase = "CancellationFinalize"
      BY Zenon, <2>1 DEF OrderInv, Stage, Obj
    <2>4. LocalTo(s, m)
      BY Zenon, <2>1, <1>QuietIsLocal
    <2>5. \/ Goto(s, m, "release")
          \/ Return(s, m, Obj(s, m), TRUE)
          \/ Return(s, m, new, TRUE)
      BY Zenon DEF CancellationCheck, CancellationRelease
    <2>6. CASE Goto(s, m, "release")
      BY Zenon, <2>1, <2>3, <2>4, <2>6, <1>GotoOrder
    <2>7. CASE Return(s, m, Obj(s, m), TRUE)
      BY Zenon, <2>1, <2>4, <2>7, <1>ReturnOrder
    <2>8. CASE Return(s, m, new, TRUE)
      <3>1. new.origin = o.origin /\ new.phase = "Cancelled" /\ new.cont = o.cont
        BY <2>2 DEF MigrationObjects
      <3> HIDE DEF new
      <3>2. ObjOK(new) /\ Moves(s, m, o.phase, new.phase) /\ new.phase # "Migrating"
        BY Zenon, <2>2, <2>3, <3>1 DEF ObjOK, Moves, Broken
      <3> QED
        BY Zenon, <2>1, <2>4, <2>8, <3>2, <1>ReturnOrder
    <2> QED
      BY Zenon, <2>5, <2>6, <2>7, <2>8
  \* process reads the object: the worker knows what is current.
  <1>GetOrder.
      ASSUME Base, OrderInv(m), NEW s \in Shards, Get(s, m)
      PROVE  OrderInv(m)'
    <2> USE <1>GetOrder
    <2>1. UNCHANGED <<mig, lister, lc>> /\ m \in Migrations
      BY Zenon DEF Get, Only
    <2>2. CASE UNCHANGED worker
      BY Zenon, <2>1, <2>2 DEF OrderInv, ObjectInv, Knows, AnnotationInv, Annotated
    <2>3. CASE worker' = [worker EXCEPT ![s][m] = [@ EXCEPT !.pc = "reconcile", !.obj = mig[m]]]
      <3> DEFINE x == [worker[s][m] EXCEPT !.pc = "reconcile", !.obj = mig[m]]
      <3>1. worker \in [Shards -> [Migrations -> Workers]] /\ worker[s][m] \in Workers
        BY Zenon, <2>1 DEF Base, MigrationInv, WorkersInv
      <3>2. worker'[s][m] = x /\ \A t \in Shards \ {s} : worker'[t][m] = worker[t][m]
        BY Zenon, <2>1, <2>3, <3>1
      <3>3. x.pc = "reconcile" /\ x.obj = mig[m]
        BY <3>1 DEF Workers
      <3> HIDE DEF x
      <3>4. Stage(s, m, x) /\ ~Holding(x)
        BY Zenon, <3>3 DEF Stage, Holding
      <3>5. Knows(s, m, x)
        BY Zenon, <3>3 DEF Knows, OrderInv, ObjectInv
      <3>6. \A t \in Shards : Knows(t, m, worker[t][m])' /\ Stage(t, m, worker'[t][m])
        <4> TAKE t \in Shards
        <4>1. Knows(t, m, worker[t][m]) /\ Stage(t, m, worker[t][m])
          BY Zenon DEF OrderInv
        <4>2. CASE t = s
          BY Zenon, <2>1, <3>2, <3>4, <3>5, <4>2 DEF Knows
        <4>3. CASE t # s
          <5>1. worker'[t][m] = worker[t][m]
            BY Zenon, <3>2, <4>3
          <5> QED
            BY Zenon, <2>1, <4>1, <5>1 DEF Knows
        <4> QED
          BY Zenon, <4>2, <4>3
      <3>7. AnnotationInv(m)'
        <4>1. Holding(worker'[Home][m]) => Holding(worker[Home][m])
          BY Zenon, <3>2, <3>4, HomeThere
        <4> QED
          BY Zenon, <2>1, <4>1 DEF OrderInv, AnnotationInv, Annotated, Holding
      <3>8. ObjectInv(m)'
        BY Zenon, <2>1 DEF OrderInv, ObjectInv
      <3> QED
        BY Zenon, <3>6, <3>7, <3>8 DEF OrderInv, Stage
    <2> QED
      BY Zenon, <2>2, <2>3 DEF Get
  \* What the commit of one shard means to a worker of another: the owner of a phase
  \* is the only one that leaves it, but for the origin that aborts.
  <1>OtherKnows.
      ASSUME NEW s \in Shards, NEW t \in Shards, s # t,
             NEW w, Knows(t, m, w), NEW new, Follows(mig[m], new),
             Moves(s, m, mig[m].phase, new.phase)
      PROVE  StillKnows(t, m, w, new)
    <2> USE <1>OtherKnows
    <2> DEFINE p == mig[m].phase
               q == new.phase
               o == w.obj
    <2>0. Dest[m] # Home
      BY Zenon DEF Only
    <2>1. w.pc # "idle" /\ o.origin # None => new.origin = o.origin
      BY Zenon DEF Knows, Follows
    <2>2. ASSUME w.pc # "idle", Owns(t, m, o.phase)
          PROVE  o.phase = "Migrating" /\ q \in Broken
      <3>1. \/ o.phase = p
            \/ o.phase = "Migrating" /\ p \in Broken
        BY Zenon, <2>2 DEF Knows
      <3>2. CASE o.phase = p /\ t = Home /\ p \in OriginOwns
        <4>1. s # Home /\ p \notin DestinationOwns \cup Broken
          BY Zenon, <3>2 DEF OriginOwns, DestinationOwns, Broken
        <4> QED
          BY Zenon, <4>1 DEF Moves, DestinationOwns
      <3>3. CASE o.phase = p /\ t = Dest[m] /\ p \in DestinationOwns
        <4>1. s # Dest[m] /\ p \notin OriginOwns \cup Broken
          BY Zenon, <3>3 DEF OriginOwns, DestinationOwns, Broken
        <4> QED
          BY Zenon, <3>3, <4>1 DEF Moves, OriginOwns, Broken
      <3>4. CASE o.phase = "Migrating" /\ p \in Broken
        BY Zenon, <3>4 DEF Moves, Broken
      <3> QED
        BY Zenon, <2>2, <3>1, <3>2, <3>3, <3>4 DEF Owns
    <2>3. ASSUME w.pc # "idle", t = Home, o.phase = "CancellationPreparing"
          PROVE  q \in {"CancellationPreparing", "Restoring"}
      <3>1. p \in {"CancellationPreparing", "Restoring"} /\ s # Home
        BY Zenon, <2>3 DEF Knows
      <3> QED
        BY Zenon, <3>1 DEF Moves, Broken
    <2>4. ASSUME w.pc # "idle", t = Home, o.phase = "CancellationCleanup"
          PROVE  q \in {"CancellationCleanup", "CancellationFinalize"}
      <3>1. p \in {"CancellationCleanup", "CancellationFinalize"} /\ s # Home
        BY Zenon, <2>4 DEF Knows
      <3> QED
        BY Zenon, <3>1 DEF Moves, Broken
    <2>5. ASSUME w.pc # "idle", t = Dest[m], o.phase = "Restoring"
          PROVE  q \in {"Restoring", "CancellationCleanup"}
      <3>1. p \in {"Restoring", "CancellationCleanup"} /\ s # Dest[m]
        BY Zenon, <2>5 DEF Knows
      <3> QED
        BY Zenon, <3>1 DEF Moves, Broken
    <2> QED
      BY Zenon, <2>1, <2>2, <2>3, <2>4, <2>5 DEF StillKnows
  \* process commits.
  <1>CommitOrder.
      ASSUME Base, OrderInv(m), NEW s \in Shards, Commit(s, m)
      PROVE  OrderInv(m)'
    <2> USE <1>CommitOrder
    <2> DEFINE w == worker[s][m]
    <2>1. UNCHANGED <<lister, lc>> /\ m \in Migrations /\ w.pc = "commit"
      BY Zenon DEF Commit, Only, At
    <2>2. /\ worker \in [Shards -> [Migrations -> Workers]] /\ w \in Workers /\ WorkerOK(w)
          /\ mig \in [Migrations -> MigrationObjects]
      BY Zenon, <2>1 DEF Base, MigrationInv, WorkersInv, ObjectsInv
    <2>3. worker' = [worker EXCEPT ![s][m] = Idle]
      BY Zenon DEF Commit
    <2>4. worker'[s][m] = Idle /\ \A t \in Shards \ {s} : worker'[t][m] = worker[t][m]
      BY Zenon, <2>1, <2>2, <2>3
    <2>5. Idle.pc = "idle"
      BY DEF Idle
    <2>6. \A t \in Shards : Stage(t, m, worker'[t][m])
      <3> TAKE t \in Shards
      <3>1. Stage(t, m, worker[t][m])
        BY Zenon DEF OrderInv
      <3>2. Stage(t, m, Idle)
        BY Zenon, <2>5 DEF Stage
      <3> QED
        BY Zenon, <2>4, <3>1, <3>2
    <2>7. Holding(worker'[Home][m]) => Holding(worker[Home][m])
      BY Zenon, <2>4, <2>5, HomeThere DEF Holding
    <2>8. CASE UNCHANGED mig
      <3>1. \A t \in Shards : Knows(t, m, worker[t][m])'
        <4> TAKE t \in Shards
        <4>1. Knows(t, m, worker[t][m])
          BY Zenon DEF OrderInv
        <4>2. worker'[t][m] = Idle \/ worker'[t][m] = worker[t][m]
          BY Zenon, <2>4
        <4> QED
          BY Zenon, <2>1, <2>5, <2>8, <4>1, <4>2 DEF Knows
      <3>2. AnnotationInv(m)' /\ ObjectInv(m)'
        BY Zenon, <2>1, <2>7, <2>8 DEF OrderInv, ObjectInv, AnnotationInv, Annotated, Holding
      <3> QED
        BY Zenon, <2>6, <3>1, <3>2 DEF OrderInv, Stage
    <2>9. CASE mig[m] = w.obj /\ mig' = [mig EXCEPT ![m] = w.new]
      <3> DEFINE p == mig[m].phase
                 q == w.new.phase
      <3>1. mig'[m] = w.new
        BY Zenon, <2>1, <2>2, <2>9
      <3>2. Follows(mig[m], w.new) /\ Moves(s, m, p, q) /\ ObjOK(w.new)
        BY Zenon, <2>1, <2>2, <2>9 DEF WorkerOK, OrderInv, Stage
      <3>3. \A t \in Shards : Knows(t, m, worker[t][m])'
        <4> TAKE t \in Shards
        <4>1. Knows(t, m, worker[t][m])
          BY Zenon DEF OrderInv
        <4>2. CASE t = s
          BY Zenon, <2>4, <2>5, <4>2 DEF Knows
        <4>3. CASE t # s
          <5> DEFINE v == worker[t][m]
                     new == w.new
          <5>1. worker'[t][m] = v
            BY Zenon, <2>4, <4>3
          <5>3. /\ mig'[m] = new /\ Knows(t, m, v)
                /\ Follows(mig[m], new) /\ Moves(s, m, mig[m].phase, new.phase)
            BY Zenon, <3>1, <3>2, <4>1
          <5> HIDE DEF v, w, new
          <5>2. StillKnows(t, m, v, new)
            BY Zenon, <4>3, <5>3, <1>OtherKnows
          <5> QED
            BY Zenon, <2>1, <5>1, <5>2, <5>3 DEF Knows, StillKnows
        <4> QED
          BY Zenon, <4>2, <4>3
      <3>4. ObjectInv(m)'
        <4>1. w.new.origin = None => mig[m].origin = None
          BY Zenon, <3>2 DEF Follows
        <4> QED
          BY Zenon, <2>1, <3>1, <3>2, <4>1 DEF OrderInv, ObjectInv
      <3>5. AnnotationInv(m)'
        <4>1. AnnotationInv(m)
          BY Zenon DEF OrderInv
        <4>2. ASSUME q = "Migrating" PROVE Annotated(m)
          <5>1. p = "Migrating" \/ (s = Home /\ p = "Preparing")
            BY Zenon, <3>2, <4>2 DEF Moves, Broken
          <5>2. CASE s = Home
            BY Zenon, <2>1, <4>1, <4>2, <5>2 DEF AnnotationInv, Holding
          <5> QED
            BY Zenon, <4>1, <5>1, <5>2 DEF AnnotationInv
        <4>3. q \in {"", "Preparing"} => p \in {"", "Preparing"}
          BY Zenon, <3>2 DEF Moves, Broken
        <4>4. mig'[m].phase = q
          BY Zenon, <3>1
        <4> HIDE DEF q, p
        <4> QED
          BY Zenon, <2>1, <2>7, <4>1, <4>2, <4>3, <4>4 DEF AnnotationInv, Annotated, Holding, p
      <3> QED
        BY Zenon, <2>6, <3>3, <3>4, <3>5 DEF OrderInv, Stage
    <2> QED
      BY Zenon, <2>8, <2>9 DEF Commit
  \* A migration is marked as deleted: its phase and its token stay.
  <1>DeleteMigrationOrder.
      ASSUME Base, OrderInv(m), DeleteMigration(m)
      PROVE  OrderInv(m)'
    <2> USE <1>DeleteMigrationOrder
    <2>1. UNCHANGED <<worker, lister, lc>> /\ mig \in [Migrations -> MigrationObjects]
      BY Zenon DEF DeleteMigration, Base, MigrationInv, ObjectsInv
    <2>2. /\ mig'[m].phase = mig[m].phase /\ mig'[m].origin = mig[m].origin
          /\ mig'[m].cont = mig[m].cont
      <3>1. m \in Migrations /\ mig[m] \in MigrationObjects
        BY Zenon, <2>1 DEF Only
      <3>2. mig'[m] = [mig[m] EXCEPT !.deleting = TRUE]
        BY Zenon, <2>1, <3>1 DEF DeleteMigration
      <3> QED
        BY <3>1, <3>2 DEF MigrationObjects
    <2>3. \A t \in Shards : Knows(t, m, worker[t][m])' /\ Stage(t, m, worker'[t][m])
      <3> TAKE t \in Shards
      <3>1. Knows(t, m, worker[t][m]) /\ Stage(t, m, worker[t][m])
        BY Zenon DEF OrderInv
      <3> QED
        BY Zenon, <2>1, <2>2, <3>1 DEF Knows
    <2>4. ObjectInv(m)' /\ AnnotationInv(m)'
      BY Zenon, <2>1, <2>2 DEF OrderInv, ObjectInv, ObjOK, AnnotationInv, Annotated
    <2> QED
      BY Zenon, <2>3, <2>4 DEF OrderInv, Stage
  \* The LC objects and what the informers show of them change around the workers:
  \* none appears, an annotation stays, and the informers show what is there.
  <1>AroundOrder.
      ASSUME Base, OrderInv(m), UNCHANGED mig,
             \A t \in Shards : worker'[t][m] = worker[t][m] \/ worker'[t][m] = Idle,
             \A t \in Shards : lc[t] = None => lc'[t] = None,
             \A t \in Shards : lc'[t] # None => lc'[t].ann = lc[t].ann,
             \A t \in Shards : lister'[t] = lister[t] \/ (lister'[t] = lc[t] /\ lc'[t] = lc[t])
      PROVE  OrderInv(m)'
    <2> USE <1>AroundOrder
    <2>1. Idle.pc = "idle"
      BY DEF Idle
    <2>2. \A t \in Shards : Knows(t, m, worker[t][m])' /\ Stage(t, m, worker'[t][m])
      <3> TAKE t \in Shards
      <3>1. Knows(t, m, worker[t][m]) /\ Stage(t, m, worker[t][m])
        BY Zenon DEF OrderInv
      <3>2. CASE worker'[t][m] = Idle
        BY Zenon, <2>1, <3>2 DEF Knows, Stage
      <3>3. CASE worker'[t][m] = worker[t][m]
        <4>1. lister[t] = None /\ lc[t] = None => lister'[t] = None /\ lc'[t] = None
          BY Zenon
        <4> QED
          BY Zenon, <3>1, <3>3, <4>1 DEF Knows
      <3> QED
        BY Zenon, <3>2, <3>3
    <2>3. ObjectInv(m)'
      BY Zenon DEF OrderInv, ObjectInv
    <2>4. AnnotationInv(m)'
      <3>1. AnnotationInv(m)
        BY Zenon DEF OrderInv
      <3>2. Annotated(m) => Annotated(m)'
        BY Zenon, HomeThere DEF Annotated
      <3>3. Holding(worker'[Home][m]) => Holding(worker[Home][m])
        BY Zenon, <2>1, HomeThere DEF Holding
      <3>4. CASE lister'[Home] = lister[Home]
        BY Zenon, <3>1, <3>2, <3>3, <3>4 DEF AnnotationInv, Holding
      <3>5. CASE lister'[Home] = lc[Home] /\ lc'[Home] = lc[Home]
        BY Zenon, <3>1, <3>2, <3>3, <3>5 DEF AnnotationInv, Holding, Annotated
      <3> QED
        BY Zenon, <3>4, <3>5, HomeThere
    <2> QED
      BY Zenon, <2>2, <2>3, <2>4 DEF OrderInv, Stage
  \* The informers, the deletion of the LC and the restart of a shard.
  <1>ShardOrder.
      ASSUME Base, OrderInv(m), NEW s \in Shards,
             SyncLister(s) \/ DeleteLC(s) \/ Restart(s)
      PROVE  OrderInv(m)'
    <2> USE <1>ShardOrder
    <2>1. /\ lc \in [Shards -> LCObjects \cup {None}]
          /\ lister \in [Shards -> LCObjects \cup {None}]
          /\ worker \in [Shards -> [Migrations -> Workers]]
          /\ m \in Migrations
      BY Zenon DEF Base, ShardType, DataType, RestType, MigrationInv, WorkersInv, Only
    <2>2. CASE SyncLister(s)
      <3>1. lister' = [lister EXCEPT ![s] = lc[s]] /\ UNCHANGED <<mig, worker, lc>>
        BY Zenon, <2>2 DEF SyncLister
      <3>2. \A t \in Shards : lister'[t] = lister[t] \/ (lister'[t] = lc[t] /\ lc'[t] = lc[t])
        BY Zenon, <2>1, <3>1
      <3> QED
        BY Zenon, <3>1, <3>2, <1>AroundOrder
    <2>3. CASE DeleteLC(s)
      <3>1. UNCHANGED <<mig, worker, lister>> /\ \E D : Wipe(s, D)
        BY Zenon, <2>3 DEF DeleteLC
      <3>2. lc'[s] \in {None, lc[s]} /\ \A t \in Shards \ {s} : lc'[t] = lc[t]
        BY Zenon, <3>1, SetLCLocal DEF Wipe
      <3>3. \A t \in Shards : lc'[t] = lc[t] \/ lc'[t] = None
        BY Zenon, <3>2
      <3> QED
        BY Zenon, <3>1, <3>3, <1>AroundOrder
    <2>4. CASE Restart(s)
      <3>1. /\ lister' = [lister EXCEPT ![s] = lc[s]] /\ UNCHANGED <<mig, lc>>
            /\ worker' = [worker EXCEPT ![s] = [n \in Migrations |-> Idle]]
        BY Zenon, <2>4 DEF Restart
      <3>2. \A t \in Shards : lister'[t] = lister[t] \/ (lister'[t] = lc[t] /\ lc'[t] = lc[t])
        BY Zenon, <2>1, <3>1
      <3>3. \A t \in Shards : worker'[t][m] = worker[t][m] \/ worker'[t][m] = Idle
        BY Zenon, <2>1, <3>1
      <3> QED
        BY Zenon, <3>1, <3>2, <3>3, <1>AroundOrder
    <2> QED
      BY Zenon, <2>2, <2>3, <2>4
  \* The workspace is deleted: the annotation stays.
  <1>DeleteWorkspaceOrder.
      ASSUME Base, OrderInv(m), DeleteWorkspace
      PROVE  OrderInv(m)'
    <2> USE <1>DeleteWorkspaceOrder
    <2> DEFINE x == [lc[route] EXCEPT !.deleting = TRUE]
    <2>1. UNCHANGED <<mig, worker, lister>> /\ SetLC(route, x) /\ route # None /\ lc[route] # None
      BY Zenon DEF DeleteWorkspace
    <2>2. route \in Shards /\ lc[route] \in LCObjects
      BY Zenon, <2>1 DEF Base, ShardType, RestType, DataType
    <2>3. x.ann = lc[route].ann
      BY <2>2 DEF LCObjects
    <2> HIDE DEF x
    <2>4. lc'[route] = x /\ \A t \in Shards \ {route} : lc'[t] = lc[t]
      BY Zenon, <2>1, <2>2, SetLCLocal
    <2>5. /\ \A t \in Shards : lc[t] = None => lc'[t] = None
          /\ \A t \in Shards : lc'[t] # None => lc'[t].ann = lc[t].ann
      BY Zenon, <2>1, <2>3, <2>4
    <2> QED
      BY Zenon, <2>1, <2>5, <1>AroundOrder
  \* The other steps touch none of it.
  <1>OtherOrder.
      ASSUME OrderInv(m), UNCHANGED <<mig, worker, lc, lister>>
      PROVE  OrderInv(m)'
    <2> USE <1>OtherOrder
    <2>1. \A t \in Shards : Knows(t, m, worker[t][m])' /\ Stage(t, m, worker[t][m])'
      <3> TAKE t \in Shards
      <3>1. Knows(t, m, worker[t][m]) /\ Stage(t, m, worker[t][m])
        BY Zenon DEF OrderInv
      <3> QED
        BY Zenon, <3>1 DEF Knows, Stage
    <2>2. ObjectInv(m)' /\ AnnotationInv(m)'
      BY Zenon DEF OrderInv, ObjectInv, AnnotationInv, Annotated
    <2> QED
      BY Zenon, <2>1, <2>2 DEF OrderInv
  \* Every step of a worker keeps the order.
  <1>ReconcileOrder.
      ASSUME Base, OrderInv(m), NEW s \in Shards, Reconcile(s, m)
      PROVE  OrderInv(m)'
    BY Zenon, <1>ReconcileOrder, <1>GetOrder, <1>StartCancellationOrder,
       <1>DetectLCDeletionOrder, <1>WaitOrder, <1>StartOrder, <1>PrepareOrder,
       <1>PrepareRestOrder, <1>MigrateOrder, <1>OriginCleanupOrder, <1>FinalizeOrder,
       <1>DestinationReleaseOrder, <1>AbortOrder, <1>RemoveFinalizerOrder, <1>KeepBlockedOrder,
       <1>BlockOrder, <1>RestoreOrder, <1>CancellationCleanupOrder,
       <1>CancellationFinalizeOrder, <1>CancellationReleaseOrder, <1>CommitOrder DEF Reconcile
  \* Every step keeps the order.
  <1>NextOrder.
      ASSUME Base, OrderInv(m), [Next]_vars
      PROVE  OrderInv(m)'
    <2> USE <1>NextOrder
    <2>1. \A n \in Migrations : n = m
      BY Zenon DEF Only
    <2>2. CASE \/ \E n \in Migrations : CreateMigration(n) \/ Replicate(n)
               \/ \E s \in Shards : Resync(s) \/ IndexObserve(s) \/ IndexResync(s)
               \/ \E k \in DataKeys : ClientStart(k)
               \/ ClientApply \/ ClientAck \/ ClientFail \/ UNCHANGED vars
      <3>1. UNCHANGED <<mig, worker, lc, lister>>
        BY Zenon, <2>2, Unrelated
      <3> QED
        BY Zenon, <3>1, <1>OtherOrder
    <2>3. ASSUME NEW s \in Shards, NEW n \in Migrations, Reconcile(s, n)
          PROVE  OrderInv(m)'
      BY Zenon, <2>1, <2>3, <1>ReconcileOrder
    <2>4. ASSUME NEW n \in Migrations, DeleteMigration(n) PROVE OrderInv(m)'
      BY Zenon, <2>1, <2>4, <1>DeleteMigrationOrder
    <2>5. ASSUME NEW s \in Shards, SyncLister(s) \/ DeleteLC(s) \/ Restart(s)
          PROVE  OrderInv(m)'
      BY Zenon, <2>5, <1>ShardOrder
    <2> QED
      BY Zenon, <2>2, <2>3, <2>4, <2>5, <1>DeleteWorkspaceOrder DEF Next
  \* The order holds at first.
  <1>InitOrder.
      ASSUME Init
      PROVE  OrderInv(m)
    <2> USE <1>InitOrder
    <2>1. m \in Migrations /\ Home \in Shards
      BY Zenon, HomeThere DEF Only
    <2>2. mig[m] = NewMigration /\ \A t \in Shards : worker[t][m] = Idle
      BY Zenon, <2>1 DEF Init
    <2>3. \A t \in Shards \ {Home} : lister[t] = None /\ lc[t] = None
      BY Zenon DEF Init
    <2>4. lister[Home] = lc[Home]
      BY Zenon DEF Init
    <2>5. Idle.pc = "idle" /\ NewMigration.phase = "" /\ NewMigration.origin = None
          /\ NewMigration.cont = 0
      BY DEF Idle, NewMigration
    <2>6. ObjectInv(m)
      BY Zenon, <2>2, <2>3, <2>5 DEF ObjectInv, ObjOK
    <2>7. AnnotationInv(m)
      BY Zenon, <2>1, <2>2, <2>4, <2>5 DEF AnnotationInv, Annotated, Holding
    <2>8. \A t \in Shards : Knows(t, m, worker[t][m]) /\ Stage(t, m, worker[t][m])
      BY Zenon, <2>2, <2>5 DEF Knows, Stage
    <2> QED
      BY Zenon, <2>6, <2>7, <2>8 DEF OrderInv
  <1>1. Init => OrderInv(m)
    BY <1>InitOrder
  <1>2. Base /\ OrderInv(m) /\ [Next]_vars => OrderInv(m)'
    BY <1>NextOrder
  <1> QED
    BY <1>1, <1>2, BaseInvariant, PTL DEF Spec

\* While the destination of the only migration of an LC copies, the LC object of the
\* origin carries its annotation (reconcilePreparing, finalizeCancellation).
THEOREM AnnotationStays ==
    ASSUME NEW m, Only(m)
    PROVE  Spec => []AnnotationIsKept
  <1>1. OrderInv(m) => AnnotationIsKept
    <2> SUFFICES ASSUME OrderInv(m), mig[m].phase = "Migrating", lc[mig[m].origin] # None
                 PROVE  lc[mig[m].origin].ann = m
      BY Zenon DEF AnnotationIsKept, Only
    <2>1. mig[m].origin = Home
      BY Zenon DEF OrderInv, ObjectInv, ObjOK, Broken
    <2> QED
      BY Zenon, <2>1 DEF OrderInv, AnnotationInv, Annotated
  <1> QED
    BY <1>1, OrderInvariant, PTL

-----------------------------------------------------------------------------
(* Any number of migrations whose destinations are not there.              *)

NoDestination == \A m \in Migrations : Dest[m] \notin Shards

\* The phases before the rollback, and those that are reached at all.
Early == {"", "Preparing", "Migrating"}
Reached == Early \cup {"Aborting", "Failed", "CancellationFinalize", "Cancelled"}

\* An object of one of them.
HeldObj(o) ==
    /\ o.phase \in Reached /\ o.origin \in {None, Home}
    /\ o.phase = "Migrating" => o.origin = Home

\* A worker of one of them: a rollback that it read has begun, and a phase is left
\* after the one before.
HeldWorker(s, m, w) ==
    w.pc # "idle" =>
        /\ HeldObj(w.obj)
        /\ w.obj.phase \notin Early => mig[m].phase \notin Early
        /\ w.pc \in {"register", "block"} =>
              s = Home /\ w.obj.phase = "Preparing" /\ w.obj.origin = Home
        /\ w.pc # "finalize"
        /\ w.pc \in {"check", "release"} => w.obj.phase = "CancellationFinalize"
        /\ w.pc = "commit" =>
              /\ HeldObj(w.new)
              /\ w.new.phase = "Migrating" => s = Home /\ w.obj.phase = "Preparing"
              /\ w.new.phase \in {"", "Preparing"} => w.obj.phase \in {"", "Preparing"}

\* The migration counts on its annotation: it is under way, or the origin has seen
\* the annotation, or is past setting it.
Claims(m) ==
    \/ mig[m].phase = "Migrating"
    \/ /\ mig[m].phase \in {"", "Preparing"}
       /\ \/ lister[Home] # None /\ lister[Home].ann = m
          \/ Holding(worker[Home][m])

ContentionInv ==
    /\ \A s \in Shards \ {Home} : lc[s] = None /\ lister[s] = None
    /\ \A m \in Migrations : HeldObj(mig[m]) /\ (Claims(m) => Annotated(m))
    /\ \A s \in Shards, m \in Migrations : HeldWorker(s, m, worker[s][m])

\* A step of a handler as far as it concerns the LC objects: none appears, and no
\* annotation of a migration that is not being rolled back goes.
KeepsAnnotations ==
    /\ UNCHANGED <<mig, lister>>
    /\ \A t \in Shards \ {Home} : lc'[t] = None
    /\ \A m \in Migrations : mig[m].phase \in Early /\ Annotated(m) => Annotated(m)'

\* Migrations of the same LC that contend for the annotation, none of which has a
\* destination that answers: whichever is early, late, aborted or rolled back, one
\* that counts on the annotation has it.
THEOREM ContentionInvariant ==
    ASSUME NoDestination
    PROVE  Spec => []ContentionInv
  \* What a worker at work has read.
  <1>Sees.
      ASSUME Base, ContentionInv, NEW s \in Shards, NEW m \in Migrations, ~At(s, m, "idle")
      PROVE  /\ Obj(s, m) \in MigrationObjects /\ HeldObj(Obj(s, m))
             /\ IsOrigin(s, Obj(s, m)) => s = Home
             /\ ~IsDestination(s, m)
             /\ Obj(s, m).phase \notin Early => mig[m].phase \notin Early
             /\ HeldWorker(s, m, worker[s][m])
    <2> USE <1>Sees
    <2>1. HeldWorker(s, m, worker[s][m]) /\ worker[s][m].pc # "idle"
      BY Zenon DEF ContentionInv, At
    <2>2. Obj(s, m) \in MigrationObjects
      BY Zenon, ObjFacts DEF Base, MigrationInv
    <2>3. HeldObj(Obj(s, m)) /\ (Obj(s, m).phase \notin Early => mig[m].phase \notin Early)
      BY Zenon, <2>1 DEF HeldWorker, Obj
    <2>4. IsOrigin(s, Obj(s, m)) => s = Home
      BY Zenon, <2>3 DEF IsOrigin, HeldObj, ContentionInv
    <2>5. ~IsDestination(s, m)
      BY Zenon DEF NoDestination, IsDestination
    <2> QED
      BY Zenon, <2>1, <2>2, <2>3, <2>4, <2>5
  \* A step of one worker.
  <1>Step.
      ASSUME Base, ContentionInv, NEW s \in Shards, NEW n \in Migrations, ~At(s, n, "idle"),
             NEW x, Acts(s, n, x), HeldWorker(s, n, x), KeepsAnnotations,
             s = Home /\ Holding(x) /\ mig[n].phase \in {"", "Preparing"} => Annotated(n)'
      PROVE  ContentionInv'
    <2> USE <1>Step
    <2>1. worker \in [Shards -> [Migrations -> Workers]]
      BY Zenon DEF Base, MigrationInv, WorkersInv
    <2>2. worker' = [worker EXCEPT ![s][n] = x]
      BY Zenon DEF Acts
    <2>3. \A t \in Shards, m \in Migrations :
             worker'[t][m] = worker[t][m] \/ (t = s /\ m = n /\ worker'[t][m] = x)
      BY Zenon, <2>1, <2>2
    <2>4. UNCHANGED <<mig, lister>>
      BY Zenon DEF KeepsAnnotations
    <2>5. \A t \in Shards, m \in Migrations : HeldWorker(t, m, worker[t][m])'
      <3> TAKE t \in Shards, m \in Migrations
      <3>1. HeldWorker(t, m, worker[t][m])
        BY Zenon DEF ContentionInv
      <3>2. HeldWorker(t, m, worker'[t][m])
        BY Zenon, <2>3, <3>1
      <3> QED
        BY Zenon, <2>4, <3>2 DEF HeldWorker
    <2>6. ASSUME NEW m \in Migrations, Claims(m)' PROVE Annotated(m)'
      <3>1. mig[m].phase \in Early
        BY Zenon, <2>4, <2>6 DEF Claims, Early
      <3>2. CASE Claims(m)
        BY Zenon, <3>1, <3>2 DEF ContentionInv, KeepsAnnotations
      <3>3. CASE ~Claims(m)
        <4>1. /\ mig[m].phase \in {"", "Preparing"}
              /\ Holding(worker'[Home][m]) /\ ~Holding(worker[Home][m])
          BY Zenon, <2>4, <2>6, <3>3 DEF Claims, Holding
        <4>2. s = Home /\ m = n /\ worker'[Home][m] = x
          BY Zenon, <2>3, <4>1, HomeThere
        <4> QED
          BY Zenon, <4>1, <4>2
      <3> QED
        BY Zenon, <3>2, <3>3
    <2>7. /\ \A t \in Shards \ {Home} : lc'[t] = None /\ lister'[t] = None
          /\ \A m \in Migrations : HeldObj(mig'[m])
      BY Zenon, <2>4 DEF ContentionInv, KeepsAnnotations
    <2> QED
      BY Zenon, <2>5, <2>6, <2>7 DEF ContentionInv, HeldObj
  \* A handler that returns, with an object that may follow the one it read.
  <1>Returns.
      ASSUME Base, ContentionInv, NEW s \in Shards, NEW n \in Migrations, ~At(s, n, "idle"),
             NEW new, NEW rq, Return(s, n, new, rq), KeepsAnnotations,
             \/ new = Obj(s, n)
             \/ /\ HeldObj(new) /\ new.phase # "Migrating"
                /\ new.phase \in {"", "Preparing"} => Obj(s, n).phase \in {"", "Preparing"}
      PROVE  ContentionInv'
    <2> USE <1>Returns
    <2>1. PICK x : /\ Acts(s, n, x)
                   /\ \/ x = Idle /\ new = Obj(s, n)
                      \/ x.pc = "commit" /\ x.obj = Obj(s, n) /\ x.new = new
      <3>1. Base /\ ~At(s, n, "idle") /\ Return(s, n, new, rq)
        OBVIOUS
      <3> HIDE <1>Returns
      <3> QED
        BY Zenon, <3>1, ReturnActs
    <2>2. Idle.pc = "idle"
      BY DEF Idle
    <2>3. HeldWorker(s, n, Idle) /\ ~Holding(Idle)
      BY Zenon, <2>2 DEF HeldWorker, Holding
    <2>4. CASE x = Idle
      BY Zenon, <2>1, <2>3, <2>4, <1>Step
    <2>5. CASE new = Obj(s, n)
      <3>1. Acts(s, n, Idle)
        BY Zenon, <2>2, <2>5 DEF Acts, Return
      <3> QED
        BY Zenon, <2>3, <3>1, <1>Step
    <2>6. CASE x.pc = "commit" /\ x.obj = Obj(s, n) /\ x.new = new /\ new # Obj(s, n)
      <3>1. HeldWorker(s, n, x) /\ ~Holding(x)
        <4>1. HeldObj(x.obj) /\ (x.obj.phase \notin Early => mig[n].phase \notin Early)
          BY Zenon, <2>6, <1>Sees
        <4> QED
          BY Zenon, <2>6, <4>1 DEF HeldWorker, Holding
      <3> QED
        BY Zenon, <2>1, <3>1, <1>Step
    <2> QED
      BY Zenon, <2>1, <2>4, <2>5, <2>6
  \* A handler that does not touch the LC objects, and one that wipes its shard's.
  <1>Quiet.
      ASSUME ContentionInv, UNCHANGED <<mig, lister, lc>>
      PROVE  KeepsAnnotations
    BY Zenon, <1>Quiet DEF ContentionInv, KeepsAnnotations, Annotated
  <1>Wiped.
      ASSUME Base, ContentionInv, NEW s \in Shards, NEW D, Wipe(s, D), UNCHANGED <<mig, lister>>
      PROVE  KeepsAnnotations
    <2> USE <1>Wiped
    <2>1. lc'[s] \in {None, lc[s]} /\ \A t \in Shards \ {s} : lc'[t] = lc[t]
      BY Zenon, SetLCLocal DEF Wipe
    <2>2. \A t \in Shards : lc'[t] \in {None, lc[t]}
      BY Zenon, <2>1
    <2> QED
      BY Zenon, <2>2, HomeThere DEF ContentionInv, KeepsAnnotations, Annotated
  \* startCancellation, and the origin that aborts.
  <1>StartCancellation.
      ASSUME Base, ContentionInv, NEW s \in Shards, NEW n \in Migrations, StartCancellation(s, n)
      PROVE  ContentionInv'
    <2> USE <1>StartCancellation
    <2> DEFINE o == Obj(s, n)
               origin == IF o.phase \in {"", "Preparing"} THEN s ELSE o.origin
               phase == CASE o.phase \in {"", "Preparing"} -> "CancellationFinalize"
                          [] o.phase = "Migrating" -> "CancellationCleanup"
                          [] OTHER -> "CancellationPreparing"
               new == [o EXCEPT !.cont = 0, !.origin = origin, !.phase = phase]
    <2>1. ~At(s, n, "idle") /\ UNCHANGED <<mig, lister, lc>>
      BY Zenon, AtReconcile DEF StartCancellation, outside
    <2>2. /\ o \in MigrationObjects /\ HeldObj(o)
          /\ IsOrigin(s, o) => s = Home
          /\ ~IsDestination(s, n)
      BY Zenon, <2>1, <1>Sees
    <2>3. Return(s, n, new, TRUE) /\ StartsCancellation(s, n, o)
      BY Zenon DEF StartCancellation
    <2>4. s = Home /\ o.phase \in {"", "Preparing"}
      BY Zenon, <2>2, <2>3 DEF StartsCancellation, HeldObj, Reached, Early
    <2>5. new.origin = Home /\ new.phase = "CancellationFinalize"
      BY <2>2, <2>4 DEF MigrationObjects
    <2> HIDE DEF new
    <2>6. HeldObj(new)
      BY Zenon, <2>5 DEF HeldObj, Reached
    <2> QED
      BY Zenon, <2>1, <2>3, <2>5, <2>6, <1>Quiet, <1>Returns
  <1>DetectLCDeletion.
      ASSUME Base, ContentionInv, NEW s \in Shards, NEW n \in Migrations, DetectLCDeletion(s, n)
      PROVE  ContentionInv'
    <2> USE <1>DetectLCDeletion
    <2> DEFINE new == [Obj(s, n) EXCEPT !.phase = "Aborting"]
    <2>1. ~At(s, n, "idle") /\ UNCHANGED <<mig, lister, lc>> /\ Return(s, n, new, TRUE)
      BY Zenon, AtReconcile DEF DetectLCDeletion, outside
    <2>2. Obj(s, n) \in MigrationObjects /\ HeldObj(Obj(s, n))
      BY Zenon, <2>1, <1>Sees
    <2>3. new.origin = Obj(s, n).origin /\ new.phase = "Aborting"
      BY <2>2 DEF MigrationObjects
    <2> HIDE DEF new
    <2>4. HeldObj(new)
      BY Zenon, <2>2, <2>3 DEF HeldObj, Reached
    <2> QED
      BY Zenon, <2>1, <2>3, <2>4, <1>Quiet, <1>Returns
  \* A shard that waits, and a handler that fails.
  <1>Stays.
      ASSUME Base, ContentionInv, NEW s \in Shards, NEW n \in Migrations, ~At(s, n, "idle"),
             UNCHANGED <<mig, lister, lc>>, \E rq : Return(s, n, Obj(s, n), rq)
      PROVE  ContentionInv'
    BY Zenon, <1>Stays, <1>Quiet, <1>Returns
  <1>Wait.
      ASSUME Base, ContentionInv, NEW s \in Shards, NEW n \in Migrations, Wait(s, n)
      PROVE  ContentionInv'
    <2> USE <1>Wait
    <2>1. ~At(s, n, "idle") /\ UNCHANGED <<mig, lister, lc>>
      BY Zenon, AtReconcile DEF Wait, Handles, outside
    <2>2. \E rq : Return(s, n, Obj(s, n), rq)
      BY Zenon DEF Wait
    <2> QED
      BY Zenon, <2>1, <2>2, <1>Stays
  \* The finalizer and the first phase.
  <1>Start.
      ASSUME Base, ContentionInv, NEW s \in Shards, NEW n \in Migrations, Start(s, n)
      PROVE  ContentionInv'
    <2> USE <1>Start
    <2> DEFINE o == Obj(s, n)
               new == IF o.fin THEN [o EXCEPT !.phase = "Preparing"] ELSE [o EXCEPT !.fin = TRUE]
    <2>1. ~At(s, n, "idle") /\ UNCHANGED <<mig, lister, lc>>
      BY Zenon, AtReconcile DEF Start, Handles, outside
    <2>2. o \in MigrationObjects /\ HeldObj(o)
      BY Zenon, <2>1, <1>Sees
    <2>3. Return(s, n, new, TRUE) /\ o.phase = ""
      BY Zenon DEF Start, Handles
    <2>4. new.origin = o.origin /\ new.phase \in {"", "Preparing"}
      BY <2>2, <2>3 DEF MigrationObjects
    <2> HIDE DEF new
    <2>5. HeldObj(new) /\ new.phase # "Migrating"
      BY Zenon, <2>2, <2>4 DEF HeldObj, Reached, Early
    <2> QED
      BY Zenon, <2>1, <2>3, <2>5, <1>Quiet, <1>Returns
  \* reconcilePreparing up to the annotation: it is set on an LC that has none, so
  \* no migration counted on one.
  <1>Prepare.
      ASSUME Base, ContentionInv, NEW s \in Shards, NEW n \in Migrations, Prepare(s, n)
      PROVE  ContentionInv'
    <2> USE <1>Prepare
    <2> DEFINE o == Obj(s, n)
    <2>1. /\ ~At(s, n, "idle") /\ UNCHANGED <<mig, lister>>
          /\ o.phase = "Preparing" /\ IsOrigin(s, o)
      BY Zenon, AtReconcile DEF Prepare, Handles, outside
    <2>2. o \in MigrationObjects /\ HeldObj(o) /\ s = Home
      BY Zenon, <2>1, <1>Sees
    <2>3. lister[s] # None
      BY Zenon, PrepareSees
    <2>4. ASSUME NEW new, new \in {[o EXCEPT !.origin = s], [o EXCEPT !.phase = "Failed"]}
          PROVE  /\ HeldObj(new) /\ new.phase # "Migrating"
                 /\ new.phase \in {"", "Preparing"} => o.phase \in {"", "Preparing"}
      <3>1. new.phase \in {"Preparing", "Failed"} /\ new.origin \in {o.origin, s}
        BY <2>1, <2>2, <2>4 DEF MigrationObjects
      <3> QED
        BY Zenon, <2>1, <2>2, <3>1 DEF HeldObj, Reached, Early
    <2>5. ASSUME UNCHANGED lc, NEW rq,
                 \/ Return(s, n, [o EXCEPT !.origin = s], rq)
                 \/ Return(s, n, [o EXCEPT !.phase = "Failed"], rq)
          PROVE  ContentionInv'
      <3> DEFINE recorded == [o EXCEPT !.origin = s]
                 failed == [o EXCEPT !.phase = "Failed"]
      <3>1. \A new \in {recorded, failed} :
               /\ HeldObj(new) /\ new.phase # "Migrating"
               /\ new.phase \in {"", "Preparing"} => o.phase \in {"", "Preparing"}
        BY Zenon, <2>4
      <3>2. Return(s, n, recorded, rq) \/ Return(s, n, failed, rq)
        BY Zenon, <2>5
      <3> HIDE DEF recorded, failed
      <3> QED
        BY Zenon, <2>1, <2>5, <3>1, <3>2, <1>Quiet, <1>Returns
    <2>6. ASSUME Goto(s, n, "register"), o.origin # None, KeepsAnnotations,
                 mig[n].phase \in {"", "Preparing"} => Annotated(n)'
          PROVE  ContentionInv'
      <3>1. PICK x : Acts(s, n, x) /\ x.pc = "register" /\ x.obj = o
        BY Zenon, <2>6, GotoActs
      <3>2. HeldWorker(s, n, x)
        <4>1. o.origin = Home /\ o.phase \in Early
          BY Zenon, <2>1, <2>2, <2>6 DEF HeldObj, Early
        <4> QED
          BY Zenon, <2>1, <2>2, <3>1, <4>1 DEF HeldWorker
      <3> QED
        BY Zenon, <2>1, <2>6, <3>1, <3>2, <1>Step
    <2>7. CASE /\ o.origin # None /\ lister[s].ann = n
               /\ Goto(s, n, "register") /\ UNCHANGED lc
      <3>1. mig[n].phase \in {"", "Preparing"} => Annotated(n)
        BY Zenon, <2>2, <2>3, <2>7 DEF ContentionInv, Claims
      <3>2. mig[n].phase \in {"", "Preparing"} => Annotated(n)'
        BY Zenon, <2>7, <3>1 DEF Annotated
      <3> QED
        BY Zenon, <2>1, <2>6, <2>7, <3>2, <1>Quiet
    <2>8. CASE /\ o.origin # None /\ lister[s].ann = None /\ lc[s] = lister[s]
               /\ SetAnnotation(s, n) /\ Goto(s, n, "register")
      <3>1. lc'[s] # None /\ lc'[s].ann = n /\ \A t \in Shards \ {s} : lc'[t] = lc[t]
        BY Zenon, <2>3, <2>8, SetAnnotationLocal
      <3>2. Annotated(n)'
        BY Zenon, <2>2, <3>1 DEF Annotated
      <3>3. \A m \in Migrations : ~Annotated(m)
        BY Zenon, <2>2, <2>3, <2>8, ConstantsAssumption DEF Annotated
      <3>4. KeepsAnnotations
        BY Zenon, <2>1, <2>2, <3>1, <3>3 DEF KeepsAnnotations, ContentionInv
      <3> QED
        BY Zenon, <2>6, <2>8, <3>2, <3>4
    <2>9. CASE Fails(s, n)
      BY Zenon, <2>1, <2>9, <1>Stays DEF Fails
    <2>10. CASE UNCHANGED lc /\ Return(s, n, [o EXCEPT !.origin = s], TRUE)
      BY Zenon, <2>5, <2>10
    <2>11. CASE UNCHANGED lc /\ Return(s, n, [o EXCEPT !.phase = "Failed"], FALSE)
      BY Zenon, <2>5, <2>11
    <2> QED
      BY Zenon, <2>7, <2>8, <2>9, <2>10, <2>11 DEF Prepare
  \* The registration and the cancelled context.
  <1>PrepareRest.
      ASSUME Base, ContentionInv, NEW s \in Shards, NEW n \in Migrations,
             PrepareRegister(s, n) \/ PrepareBlock(s, n)
      PROVE  ContentionInv'
    <2> USE <1>PrepareRest
    <2> DEFINE o == Obj(s, n)
               new == [o EXCEPT !.phase = "Migrating"]
    <2>1. /\ ~At(s, n, "idle") /\ UNCHANGED <<mig, lister, lc>>
          /\ worker[s][n].pc \in {"register", "block"}
      BY Zenon DEF PrepareRegister, PrepareBlock, outside, At
    <2>2. /\ o \in MigrationObjects /\ HeldObj(o)
          /\ s = Home /\ o.phase = "Preparing" /\ o.origin = Home
      BY Zenon, <2>1, <1>Sees DEF HeldWorker, Obj
    <2>3. mig[n].phase \in {"", "Preparing"} => Annotated(n)'
      <3>1. mig[n].phase \in {"", "Preparing"} => Annotated(n)
        BY Zenon, <2>1, <2>2 DEF ContentionInv, Claims, Holding
      <3> QED
        BY Zenon, <2>1, <3>1 DEF Annotated
    <2>4. o.phase \in Early
      BY Zenon, <2>2 DEF Early
    <2>5. CASE PrepareRegister(s, n)
      <3>1. PICK x : Acts(s, n, x) /\ x.pc = "block" /\ x.obj = o
        BY Zenon, <2>5, GotoActs DEF PrepareRegister
      <3>2. HeldWorker(s, n, x)
        BY Zenon, <2>2, <2>4, <3>1 DEF HeldWorker
      <3> QED
        BY Zenon, <2>1, <2>3, <3>1, <3>2, <1>Quiet, <1>Step
    <2>6. CASE PrepareBlock(s, n)
      <3>1. new.origin = o.origin /\ new.phase = "Migrating"
        BY <2>2 DEF MigrationObjects
      <3>2. Return(s, n, new, FALSE)
        BY Zenon, <2>6 DEF PrepareBlock
      <3> HIDE DEF new
      <3>3. HeldObj(new) /\ new # o
        BY Zenon, <2>2, <3>1 DEF HeldObj, Reached, Early
      <3>4. PICK x : /\ Acts(s, n, x)
                     /\ \/ x = Idle /\ new = o
                        \/ x.pc = "commit" /\ x.obj = o /\ x.new = new
        <4>1. Base /\ ~At(s, n, "idle") /\ Return(s, n, new, FALSE)
          BY Zenon, <2>1, <3>2
        <4> HIDE <1>PrepareRest
        <4> QED
          BY Zenon, <4>1, ReturnActs
      <3>5. HeldWorker(s, n, x)
        BY Zenon, <2>2, <2>4, <3>1, <3>3, <3>4 DEF HeldWorker
      <3> QED
        BY Zenon, <2>1, <2>3, <3>4, <3>5, <1>Quiet, <1>Step
    <2> QED
      BY Zenon, <2>5, <2>6
  \* No handler of a destination, or of what comes after it, has anything to do.
  <1>Never.
      ASSUME Base, ContentionInv, NEW s \in Shards, NEW n \in Migrations,
             \/ Migrate(s, n) \/ OriginCleanup(s, n) \/ DestinationFinalize(s, n)
             \/ DestinationRelease(s, n) \/ KeepBlocked(s, n) \/ BlockForCancellation(s, n)
             \/ Restore(s, n) \/ CancellationCleanup(s, n)
      PROVE  FALSE
    <2> USE <1>Never
    <2>1. ~At(s, n, "idle")
      BY Zenon, AtReconcile DEF Migrate, OriginCleanup, DestinationFinalize, DestinationRelease,
         KeepBlocked, BlockForCancellation, Restore, CancellationCleanup, Handles, At
    <2>2. /\ ~IsDestination(s, n) /\ HeldObj(Obj(s, n)) /\ ~At(s, n, "finalize")
      BY Zenon, <2>1, <1>Sees DEF HeldWorker, At
    <2>3. Obj(s, n).phase \notin {"OriginCleanup", "CancellationPreparing", "CancellationCleanup",
                                  "Restoring"}
      BY Zenon, <2>2 DEF HeldObj, Reached, Early
    <2> QED
      BY Zenon, <2>2, <2>3 DEF Migrate, OriginCleanup, DestinationFinalize, DestinationRelease,
         KeepBlocked, BlockForCancellation, Restore, CancellationCleanup, Handles
  \* reconcileAborting.
  <1>Abort.
      ASSUME Base, ContentionInv, NEW s \in Shards, NEW n \in Migrations, Abort(s, n)
      PROVE  ContentionInv'
    <2> USE <1>Abort
    <2> DEFINE o == Obj(s, n)
               originCleaned == o.originCleaned \/ IsOrigin(s, o)
               destCleaned == o.destCleaned \/ IsDestination(s, n)
               new == [o EXCEPT !.originCleaned = originCleaned, !.destCleaned = destCleaned,
                           !.phase = IF originCleaned /\ (destCleaned \/ ~o.copied)
                                     THEN "Failed" ELSE @]
    <2>1. /\ ~At(s, n, "idle") /\ UNCHANGED <<mig, lister>>
          /\ o.phase = "Aborting" /\ \E D : Wipe(s, D)
      BY Zenon, AtReconcile DEF Abort, Handles, outside, DeleteData, DeleteFails
    <2>2. o \in MigrationObjects /\ HeldObj(o)
      BY Zenon, <2>1, <1>Sees
    <2>3. Return(s, n, new, FALSE) \/ Return(s, n, Obj(s, n), TRUE)
      BY Zenon DEF Abort, DeleteFails
    <2>4. new.origin = o.origin /\ new.phase \in {"Aborting", "Failed"}
      <3> HIDE DEF originCleaned, destCleaned
      <3> QED
        BY <2>1, <2>2 DEF MigrationObjects
    <2> HIDE DEF new
    <2>5. /\ HeldObj(new) /\ new.phase # "Migrating"
          /\ new.phase \notin {"", "Preparing"}
      BY Zenon, <2>2, <2>4 DEF HeldObj, Reached
    <2> QED
      BY Zenon, <2>1, <2>3, <2>5, <1>Wiped, <1>Returns
  \* The final phases.
  <1>RemoveFinalizer.
      ASSUME Base, ContentionInv, NEW s \in Shards, NEW n \in Migrations, RemoveFinalizer(s, n)
      PROVE  ContentionInv'
    <2> USE <1>RemoveFinalizer
    <2> DEFINE o == Obj(s, n)
               new == [o EXCEPT !.fin = FALSE]
    <2>1. /\ ~At(s, n, "idle") /\ UNCHANGED <<mig, lister, lc>>
          /\ o.phase \in {"Completed", "Cancelled", "Failed"} /\ Return(s, n, new, FALSE)
      BY Zenon, AtReconcile DEF RemoveFinalizer, Handles, outside
    <2>2. o \in MigrationObjects /\ HeldObj(o)
      BY Zenon, <2>1, <1>Sees
    <2>3. new.origin = o.origin /\ new.phase = o.phase
      BY <2>2 DEF MigrationObjects
    <2> HIDE DEF new
    <2>4. HeldObj(new) /\ new.phase \notin {"", "Preparing", "Migrating"}
      BY Zenon, <2>1, <2>2, <2>3 DEF HeldObj
    <2> QED
      BY Zenon, <2>1, <2>4, <1>Quiet, <1>Returns
  \* finalizeCancellation removes an annotation of its own, and that of a migration
  \* that is being rolled back.
  <1>CancellationFinalize.
      ASSUME Base, ContentionInv, NEW s \in Shards, NEW n \in Migrations,
             CancellationFinalize(s, n)
      PROVE  ContentionInv'
    <2> USE <1>CancellationFinalize
    <2> DEFINE o == Obj(s, n)
               new == [o EXCEPT !.phase = "Cancelled"]
    <2>1. /\ ~At(s, n, "idle") /\ UNCHANGED <<mig, lister>>
          /\ o.phase = "CancellationFinalize" /\ IsOrigin(s, o)
      BY Zenon, AtReconcile DEF CancellationFinalize, Handles, outside
    <2>2. o \in MigrationObjects /\ HeldObj(o) /\ s = Home /\ mig[n].phase \notin Early
      <3>1. o.phase \notin Early
        BY Zenon, <2>1 DEF Early
      <3> QED
        BY Zenon, <2>1, <3>1, <1>Sees
    <2>3. \/ UNCHANGED lc
          \/ lc[s] # None /\ lc[s].ann \in {None, n} /\ SetAnnotation(s, None)
      BY Zenon DEF CancellationFinalize, Fails
    <2>4. KeepsAnnotations
      <3>1. CASE UNCHANGED lc
        BY Zenon, <2>1, <3>1, <1>Quiet
      <3>2. CASE lc[s] # None /\ lc[s].ann \in {None, n} /\ SetAnnotation(s, None)
        <4>1. \A t \in Shards \ {s} : lc'[t] = lc[t]
          BY Zenon, <3>2, SetAnnotationLocal
        <4>2. \A m \in Migrations : Annotated(m) => m = n
          BY Zenon, <2>2, <3>2, ConstantsAssumption DEF Annotated
        <4> QED
          BY Zenon, <2>1, <2>2, <4>1, <4>2 DEF KeepsAnnotations, ContentionInv
      <3> QED
        BY Zenon, <2>3, <3>1, <3>2
    <2>5. \/ Return(s, n, new, TRUE)
          \/ Goto(s, n, "check")
          \/ Return(s, n, Obj(s, n), TRUE)
      BY Zenon DEF CancellationFinalize, Fails
    <2>6. CASE Goto(s, n, "check")
      <3>1. PICK x : Acts(s, n, x) /\ x.pc = "check" /\ x.obj = o
        BY Zenon, <2>6, GotoActs
      <3>2. HeldWorker(s, n, x) /\ ~Holding(x)
        BY Zenon, <2>1, <2>2, <3>1 DEF HeldWorker, Holding
      <3> QED
        BY Zenon, <2>1, <2>4, <3>1, <3>2, <1>Step
    <2>7. CASE Return(s, n, Obj(s, n), TRUE)
      BY Zenon, <2>1, <2>4, <2>7, <1>Returns
    <2>8. CASE Return(s, n, new, TRUE)
      <3>1. new.origin = o.origin /\ new.phase = "Cancelled"
        BY <2>2 DEF MigrationObjects
      <3> HIDE DEF new
      <3>2. HeldObj(new) /\ new.phase \notin {"", "Preparing", "Migrating"}
        BY Zenon, <2>2, <3>1 DEF HeldObj, Reached
      <3> QED
        BY Zenon, <2>1, <2>4, <2>8, <3>2, <1>Returns
    <2> QED
      BY Zenon, <2>5, <2>6, <2>7, <2>8
  \* The rest of finalizeCancellation.
  <1>CancellationRest.
      ASSUME Base, ContentionInv, NEW s \in Shards, NEW n \in Migrations,
             CancellationCheck(s, n) \/ CancellationRelease(s, n)
      PROVE  ContentionInv'
    <2> USE <1>CancellationRest
    <2> DEFINE o == Obj(s, n)
               new == [o EXCEPT !.phase = "Cancelled"]
    <2>1. /\ ~At(s, n, "idle") /\ UNCHANGED <<mig, lister, lc>>
          /\ worker[s][n].pc \in {"check", "release"}
      BY Zenon DEF CancellationCheck, CancellationRelease, outside, At
    <2>2. o \in MigrationObjects /\ HeldObj(o) /\ o.phase = "CancellationFinalize"
      BY Zenon, <2>1, <1>Sees DEF HeldWorker, Obj
    <2>3. o.phase \notin Early => mig[n].phase \notin Early
      BY Zenon, <2>1, <1>Sees
    <2>4. \/ Goto(s, n, "release")
          \/ Return(s, n, Obj(s, n), TRUE)
          \/ Return(s, n, new, TRUE)
      BY Zenon DEF CancellationCheck, CancellationRelease
    <2>5. CASE Goto(s, n, "release")
      <3>1. PICK x : Acts(s, n, x) /\ x.pc = "release" /\ x.obj = o
        BY Zenon, <2>5, GotoActs
      <3>2. HeldWorker(s, n, x) /\ ~Holding(x)
        BY Zenon, <2>2, <2>3, <3>1 DEF HeldWorker, Holding
      <3> QED
        BY Zenon, <2>1, <3>1, <3>2, <1>Quiet, <1>Step
    <2>6. CASE Return(s, n, Obj(s, n), TRUE)
      BY Zenon, <2>1, <2>6, <1>Stays
    <2>7. CASE Return(s, n, new, TRUE)
      <3>1. new.origin = o.origin /\ new.phase = "Cancelled"
        BY <2>2 DEF MigrationObjects
      <3> HIDE DEF new
      <3>2. HeldObj(new) /\ new.phase \notin {"", "Preparing", "Migrating"}
        BY Zenon, <2>2, <3>1 DEF HeldObj, Reached
      <3> QED
        BY Zenon, <2>1, <2>7, <3>2, <1>Quiet, <1>Returns
    <2> QED
      BY Zenon, <2>4, <2>5, <2>6, <2>7
  \* process reads the object.
  <1>Get.
      ASSUME Base, ContentionInv, NEW s \in Shards, NEW n \in Migrations, Get(s, n)
      PROVE  ContentionInv'
    <2> USE <1>Get
    <2> DEFINE x == [worker[s][n] EXCEPT !.pc = "reconcile", !.obj = mig[n]]
    <2>1. UNCHANGED <<mig, lister, lc>>
      BY Zenon DEF Get
    <2>2. worker \in [Shards -> [Migrations -> Workers]] /\ worker[s][n] \in Workers
      BY Zenon DEF Base, MigrationInv, WorkersInv
    <2>3. UNCHANGED worker \/ worker' = [worker EXCEPT ![s][n] = x]
      BY Zenon, <2>2 DEF Get
    <2>4. x.pc = "reconcile" /\ x.obj = mig[n]
      BY <2>2 DEF Workers
    <2> HIDE DEF x
    <2>5. \A t \in Shards, m \in Migrations :
             worker'[t][m] = worker[t][m] \/ (t = s /\ m = n /\ worker'[t][m] = x)
      <3>1. CASE UNCHANGED worker
        BY Zenon, <3>1
      <3>2. CASE worker' = [worker EXCEPT ![s][n] = x]
        BY Zenon, <2>2, <3>2
      <3> QED
        BY Zenon, <2>3, <3>1, <3>2
    <2>6. HeldWorker(s, n, x) /\ ~Holding(x)
      BY Zenon, <2>4 DEF HeldWorker, Holding, ContentionInv
    <2>7. \A t \in Shards, m \in Migrations : HeldWorker(t, m, worker[t][m])'
      <3> TAKE t \in Shards, m \in Migrations
      <3>1. HeldWorker(t, m, worker'[t][m])
        BY Zenon, <2>5, <2>6 DEF ContentionInv
      <3> QED
        BY Zenon, <2>1, <3>1 DEF HeldWorker
    <2>8. ASSUME NEW m \in Migrations, Claims(m)' PROVE Annotated(m)'
      <3>1. Holding(worker'[Home][m]) => Holding(worker[Home][m])
        BY Zenon, <2>5, <2>6, HomeThere
      <3>2. Claims(m)
        BY Zenon, <2>1, <2>8, <3>1 DEF Claims, Holding
      <3> QED
        BY Zenon, <2>1, <3>2 DEF ContentionInv, Annotated
    <2> QED
      BY Zenon, <2>1, <2>7, <2>8 DEF ContentionInv, HeldObj
  \* A commit: the object follows the one that is there.
  <1>Commit.
      ASSUME Base, ContentionInv, NEW s \in Shards, NEW n \in Migrations, Commit(s, n)
      PROVE  ContentionInv'
    <2> USE <1>Commit
    <2> DEFINE w == worker[s][n]
    <2>1. UNCHANGED <<lister, lc>> /\ w.pc = "commit" /\ ~At(s, n, "idle")
      BY Zenon DEF Commit, At
    <2>2. /\ worker \in [Shards -> [Migrations -> Workers]]
          /\ mig \in [Migrations -> MigrationObjects]
      BY Zenon DEF Base, MigrationInv, WorkersInv, ObjectsInv
    <2>3. \A t \in Shards, m \in Migrations :
             worker'[t][m] = worker[t][m] \/ (t = s /\ m = n /\ worker'[t][m] = Idle)
      <3>1. worker' = [worker EXCEPT ![s][n] = Idle]
        BY Zenon DEF Commit
      <3> QED
        BY Zenon, <2>2, <3>1
    <2>4. Idle.pc = "idle"
      BY DEF Idle
    <2>5. \/ UNCHANGED mig
          \/ mig[n] = w.obj /\ mig' = [mig EXCEPT ![n] = w.new]
      BY Zenon DEF Commit
    <2>6. /\ HeldObj(w.new)
          /\ w.new.phase = "Migrating" => s = Home /\ w.obj.phase = "Preparing"
          /\ w.new.phase \in {"", "Preparing"} => w.obj.phase \in {"", "Preparing"}
      BY Zenon, <2>1, <1>Sees DEF HeldWorker
    <2>7. \A m \in Migrations : \/ mig'[m] = mig[m]
                                \/ m = n /\ mig[m] = w.obj /\ mig'[m] = w.new
      BY Zenon, <2>2, <2>5
    <2> HIDE DEF w
    <2>8. \A m \in Migrations : HeldObj(mig'[m])
      BY Zenon, <2>6, <2>7 DEF ContentionInv
    <2>9. \A m \in Migrations : mig'[m].phase \in Early => mig[m].phase \in Early
      BY Zenon, <2>6, <2>7 DEF Early
    <2>10. \A t \in Shards, m \in Migrations : HeldWorker(t, m, worker[t][m])'
      <3> TAKE t \in Shards, m \in Migrations
      <3>1. HeldWorker(t, m, worker[t][m])
        BY Zenon DEF ContentionInv
      <3>2. CASE worker'[t][m] = Idle
        BY Zenon, <2>4, <3>2 DEF HeldWorker
      <3>3. CASE worker'[t][m] = worker[t][m]
        BY Zenon, <2>9, <3>1, <3>3 DEF HeldWorker
      <3> QED
        BY Zenon, <2>3, <3>2, <3>3
    <2>11. ASSUME NEW m \in Migrations, Claims(m)' PROVE Claims(m)
      <3>1. Holding(worker'[Home][m]) => Holding(worker[Home][m])
        BY Zenon, <2>3, <2>4, HomeThere DEF Holding
      <3>2. CASE mig'[m] = mig[m]
        BY Zenon, <2>1, <2>11, <3>1, <3>2 DEF Claims, Holding
      <3>3. CASE m = n /\ mig[m] = w.obj /\ mig'[m] = w.new
        <4>1. CASE mig'[m].phase = "Migrating"
          BY Zenon, <2>1, <2>6, <3>3, <4>1 DEF Claims, Holding, w
        <4>2. CASE mig'[m].phase \in {"", "Preparing"}
          BY Zenon, <2>1, <2>6, <2>11, <3>1, <3>3, <4>2 DEF Claims, Holding
        <4> QED
          BY Zenon, <2>11, <4>1, <4>2 DEF Claims
      <3> QED
        BY Zenon, <2>7, <3>2, <3>3
    <2>12. \A m \in Migrations : Claims(m)' => Annotated(m)'
      BY Zenon, <2>1, <2>11 DEF ContentionInv, Annotated
    <2> QED
      BY Zenon, <2>1, <2>8, <2>10, <2>12 DEF ContentionInv, HeldObj
  \* Around the workers: no LC object appears, an annotation stays, the informers
  \* show what is there, and the objects keep phase and origin.
  <1>Around.
      ASSUME Base, ContentionInv,
             \A m \in Migrations : /\ mig'[m].phase = mig[m].phase
                                   /\ mig'[m].origin = mig[m].origin,
             \A t \in Shards, m \in Migrations :
                worker'[t][m] = worker[t][m] \/ worker'[t][m] = Idle,
             \A t \in Shards : lc[t] = None => lc'[t] = None,
             \A t \in Shards : lc'[t] # None => lc'[t].ann = lc[t].ann,
             \A t \in Shards : lister'[t] = lister[t] \/ (lister'[t] = lc[t] /\ lc'[t] = lc[t])
      PROVE  ContentionInv'
    <2> USE <1>Around
    <2>1. Idle.pc = "idle"
      BY DEF Idle
    <2>2. \A t \in Shards, m \in Migrations : HeldWorker(t, m, worker[t][m])'
      <3> TAKE t \in Shards, m \in Migrations
      <3>1. HeldWorker(t, m, worker[t][m])
        BY Zenon DEF ContentionInv
      <3>2. CASE worker'[t][m] = Idle
        BY Zenon, <2>1, <3>2 DEF HeldWorker
      <3>3. CASE worker'[t][m] = worker[t][m]
        BY Zenon, <3>1, <3>3 DEF HeldWorker
      <3> QED
        BY Zenon, <3>2, <3>3
    <2>3. ASSUME NEW m \in Migrations, Claims(m)' PROVE Annotated(m)'
      <3>1. Annotated(m) => Annotated(m)'
        BY Zenon, HomeThere DEF Annotated
      <3>2. Holding(worker'[Home][m]) => Holding(worker[Home][m])
        BY Zenon, <2>1, HomeThere DEF Holding
      <3>3. CASE lister'[Home] = lister[Home]
        <4>1. Claims(m)
          BY Zenon, <2>3, <3>2, <3>3 DEF Claims, Holding
        <4> QED
          BY Zenon, <3>1, <4>1 DEF ContentionInv
      <3>4. CASE lister'[Home] = lc[Home] /\ lc'[Home] = lc[Home]
        <4>1. Claims(m) \/ Annotated(m)
          BY Zenon, <2>3, <3>2, <3>4 DEF Claims, Holding, Annotated
        <4> QED
          BY Zenon, <3>1, <4>1 DEF ContentionInv
      <3> QED
        BY Zenon, <3>3, <3>4, HomeThere
    <2>4. \A m \in Migrations : HeldObj(mig'[m])
      BY Zenon DEF ContentionInv, HeldObj
    <2>5. \A t \in Shards \ {Home} : lc'[t] = None /\ lister'[t] = None
      BY Zenon DEF ContentionInv
    <2> QED
      BY Zenon, <2>2, <2>3, <2>4, <2>5 DEF ContentionInv, HeldObj
  <1>DeleteMigration.
      ASSUME Base, ContentionInv, NEW n \in Migrations, DeleteMigration(n)
      PROVE  ContentionInv'
    <2> USE <1>DeleteMigration
    <2>1. UNCHANGED <<worker, lister, lc>> /\ mig \in [Migrations -> MigrationObjects]
      BY Zenon DEF DeleteMigration, Base, MigrationInv, ObjectsInv
    <2>2. ASSUME NEW m \in Migrations
          PROVE  mig'[m].phase = mig[m].phase /\ mig'[m].origin = mig[m].origin
      <3>1. mig'[m] = mig[m] \/ mig'[m] = [mig[m] EXCEPT !.deleting = TRUE]
        BY Zenon, <2>1 DEF DeleteMigration
      <3>2. mig[m] \in MigrationObjects
        BY Zenon, <2>1
      <3> QED
        BY <3>1, <3>2 DEF MigrationObjects
    <2> QED
      BY Zenon, <2>1, <2>2, <1>Around
  <1>Shard.
      ASSUME Base, ContentionInv, NEW s \in Shards, SyncLister(s) \/ DeleteLC(s) \/ Restart(s)
      PROVE  ContentionInv'
    <2> USE <1>Shard
    <2>1. /\ lc \in [Shards -> LCObjects \cup {None}]
          /\ lister \in [Shards -> LCObjects \cup {None}]
          /\ worker \in [Shards -> [Migrations -> Workers]]
      BY Zenon DEF Base, ShardType, DataType, RestType, MigrationInv, WorkersInv
    <2>2. CASE SyncLister(s)
      <3>1. lister' = [lister EXCEPT ![s] = lc[s]] /\ UNCHANGED <<mig, worker, lc>>
        BY Zenon, <2>2 DEF SyncLister
      <3>2. \A t \in Shards : lister'[t] = lister[t] \/ (lister'[t] = lc[t] /\ lc'[t] = lc[t])
        BY Zenon, <2>1, <3>1
      <3> QED
        BY Zenon, <3>1, <3>2, <1>Around
    <2>3. CASE DeleteLC(s)
      <3>1. UNCHANGED <<mig, worker, lister>> /\ \E D : Wipe(s, D)
        BY Zenon, <2>3 DEF DeleteLC
      <3>2. lc'[s] \in {None, lc[s]} /\ \A t \in Shards \ {s} : lc'[t] = lc[t]
        BY Zenon, <3>1, SetLCLocal DEF Wipe
      <3>3. \A t \in Shards : lc'[t] = lc[t] \/ lc'[t] = None
        BY Zenon, <3>2
      <3> QED
        BY Zenon, <3>1, <3>3, <1>Around
    <2>4. CASE Restart(s)
      <3>1. /\ lister' = [lister EXCEPT ![s] = lc[s]] /\ UNCHANGED <<mig, lc>>
            /\ worker' = [worker EXCEPT ![s] = [n \in Migrations |-> Idle]]
        BY Zenon, <2>4 DEF Restart
      <3>2. \A t \in Shards : lister'[t] = lister[t] \/ (lister'[t] = lc[t] /\ lc'[t] = lc[t])
        BY Zenon, <2>1, <3>1
      <3>3. \A t \in Shards, m \in Migrations :
               worker'[t][m] = worker[t][m] \/ worker'[t][m] = Idle
        BY Zenon, <2>1, <3>1
      <3> QED
        BY Zenon, <3>1, <3>2, <3>3, <1>Around
    <2> QED
      BY Zenon, <2>2, <2>3, <2>4
  <1>DeleteWorkspace.
      ASSUME Base, ContentionInv, DeleteWorkspace
      PROVE  ContentionInv'
    <2> USE <1>DeleteWorkspace
    <2> DEFINE x == [lc[route] EXCEPT !.deleting = TRUE]
    <2>1. UNCHANGED <<mig, worker, lister>> /\ SetLC(route, x) /\ route # None /\ lc[route] # None
      BY Zenon DEF DeleteWorkspace
    <2>2. route \in Shards /\ lc[route] \in LCObjects
      BY Zenon, <2>1 DEF Base, ShardType, RestType, DataType
    <2>3. x.ann = lc[route].ann
      BY <2>2 DEF LCObjects
    <2> HIDE DEF x
    <2>4. lc'[route] = x /\ \A t \in Shards \ {route} : lc'[t] = lc[t]
      BY Zenon, <2>1, <2>2, SetLCLocal
    <2>5. /\ \A t \in Shards : lc[t] = None => lc'[t] = None
          /\ \A t \in Shards : lc'[t] # None => lc'[t].ann = lc[t].ann
      BY Zenon, <2>1, <2>3, <2>4
    <2> QED
      BY Zenon, <2>1, <2>5, <1>Around
  \* Every step.
  <1>Reconcile.
      ASSUME Base, ContentionInv, NEW s \in Shards, NEW n \in Migrations, Reconcile(s, n)
      PROVE  ContentionInv'
    BY Zenon, <1>Reconcile, <1>Get, <1>StartCancellation, <1>DetectLCDeletion, <1>Wait,
       <1>Start, <1>Prepare, <1>PrepareRest, <1>Never, <1>Abort, <1>RemoveFinalizer,
       <1>CancellationFinalize, <1>CancellationRest, <1>Commit DEF Reconcile
  <1>Next.
      ASSUME Base, ContentionInv, [Next]_vars
      PROVE  ContentionInv'
    <2> USE <1>Next
    <2>1. CASE \/ \E n \in Migrations : CreateMigration(n) \/ Replicate(n)
               \/ \E s \in Shards : Resync(s) \/ IndexObserve(s) \/ IndexResync(s)
               \/ \E k \in DataKeys : ClientStart(k)
               \/ ClientApply \/ ClientAck \/ ClientFail \/ UNCHANGED vars
      <3>1. UNCHANGED <<mig, worker, lc, lister>>
        BY Zenon, <2>1, Unrelated
      <3> QED
        BY Zenon, <3>1, <1>Around
    <2>2. ASSUME NEW s \in Shards, NEW n \in Migrations, Reconcile(s, n)
          PROVE  ContentionInv'
      BY Zenon, <2>2, <1>Reconcile
    <2>3. ASSUME NEW n \in Migrations, DeleteMigration(n) PROVE ContentionInv'
      BY Zenon, <2>3, <1>DeleteMigration
    <2>4. ASSUME NEW s \in Shards, SyncLister(s) \/ DeleteLC(s) \/ Restart(s)
          PROVE  ContentionInv'
      BY Zenon, <2>4, <1>Shard
    <2> QED
      BY Zenon, <2>1, <2>2, <2>3, <2>4, <1>DeleteWorkspace DEF Next
  <1>Init.
      ASSUME Init
      PROVE  ContentionInv
    <2> USE <1>Init
    <2>1. \A m \in Migrations :
             mig[m] = NewMigration /\ \A t \in Shards : worker[t][m] = Idle
      BY Zenon DEF Init
    <2>2. \A t \in Shards \ {Home} : lister[t] = None /\ lc[t] = None
      BY Zenon DEF Init
    <2>3. lister[Home] = lc[Home]
      BY Zenon DEF Init
    <2>4. Idle.pc = "idle" /\ NewMigration.phase = "" /\ NewMigration.origin = None
      BY DEF Idle, NewMigration
    <2>5. \A m \in Migrations : HeldObj(mig[m])
      BY Zenon, <2>1, <2>4 DEF HeldObj, Reached, Early
    <2>6. \A m \in Migrations : Claims(m) => Annotated(m)
      BY Zenon, <2>1, <2>3, <2>4, HomeThere DEF Claims, Annotated, Holding
    <2>7. \A t \in Shards, m \in Migrations : HeldWorker(t, m, worker[t][m])
      BY Zenon, <2>1, <2>4 DEF HeldWorker
    <2> QED
      BY Zenon, <2>2, <2>5, <2>6, <2>7 DEF ContentionInv
  <1>1. Init => ContentionInv
    BY <1>Init
  <1>2. Base /\ ContentionInv /\ [Next]_vars => ContentionInv'
    BY <1>Next
  <1> QED
    BY <1>1, <1>2, BaseInvariant, PTL DEF Spec

\* While the destinations of any number of migrations of an LC are not there, a
\* migration that is under way keeps the annotation that it won: reconcilePreparing
\* fails the others, and finalizeCancellation and the abort of another leave it.
THEOREM AnnotationSurvivesContention ==
    ASSUME NoDestination
    PROVE  Spec => []AnnotationIsKept
  <1>1. ContentionInv => AnnotationIsKept
    <2> SUFFICES ASSUME ContentionInv, NEW m \in Migrations, mig[m].phase = "Migrating",
                        lc[mig[m].origin] # None
                 PROVE  lc[mig[m].origin].ann = m
      BY Zenon DEF AnnotationIsKept
    <2>1. mig[m].origin = Home
      BY Zenon DEF ContentionInv, HeldObj
    <2> QED
      BY Zenon, <2>1 DEF ContentionInv, Claims, Annotated
  <1> QED
    BY <1>1, ContentionInvariant, PTL

=============================================================================
