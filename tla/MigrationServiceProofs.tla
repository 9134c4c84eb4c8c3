---------------------- MODULE MigrationServiceProofs ------------------------
(***************************************************************************)
(* What clients see of the only migration of an LC, for any number of      *)
(* shards, keys, requests and any bounds: which shards admit requests      *)
(* (ClientsBlockedWhileMigrating), where the front-proxy routes to         *)
(* (RouteFollows), and what the shard that serves them holds               *)
(* (ServedDataIsCurrent).                                                  *)
(*                                                                         *)
(* The first and the last are about shards that do not restart: the        *)
(* registry of migrating LCs and the request contexts are in memory, and a *)
(* shard that restarts admits requests until its worker has read the       *)
(* migration again.  The second is about informers that do not resync.     *)
(***************************************************************************)
EXTENDS MigrationDataProofs

-----------------------------------------------------------------------------
(* Who admits requests.                                                    *)

\* A client's request on shard t is under way and has not been cancelled.
Live(t) == req.live /\ req.shard = t

\* Shard t refuses requests for the LC, or does not have it, and none goes on there.
Closed(t, m) == t \in Shards => (registry[t] = m \/ lc[t] = None) /\ ~Live(t)

\* The phases in which the origin, and the destination, is closed.
HomeShut == {"Migrating", "OriginCleanup", "DestinationFinalize", "Completed",
             "CancellationPreparing", "Restoring"}
DestinationShut == {"", "Preparing", "Migrating", "OriginCleanup", "Restoring",
                    "CancellationCleanup", "CancellationFinalize", "Cancelled"}

\* A worker that is about to close its shard by a commit has closed it.
Shuts(s, m, w) ==
    /\ w.pc = "block" => registry[s] = m
    /\ w.pc = "commit" =>
          /\ s = Home /\ w.new.phase = "Migrating" => Closed(s, m)
          /\ s = Dest[m] /\ w.new.phase = "Restoring" => Closed(s, m)

\* As long as no shard restarts, the shards are closed in their phases; a third shard
\* never has the LC.
ShutInv(m) ==
    /\ mig[m].phase \in HomeShut => Closed(Home, m)
    /\ mig[m].phase \in DestinationShut => Closed(Dest[m], m)
    /\ \A t \in Shards \ {Home, Dest[m]} : lc[t] = None /\ ~Live(t)
    /\ \A s \in Shards : Shuts(s, m, worker[s][m])

\* What a step of shard s may do to the gates.
Gates(s, m) ==
    /\ UNCHANGED mig
    /\ \A t \in Shards \ {s} : /\ lc'[t] = lc[t] /\ registry'[t] = registry[t]
                               /\ Live(t)' => Live(t)
    /\ \/ Closed(s, m) => Closed(s, m)'
       \/ s = Home /\ mig[m].phase \notin HomeShut
       \/ s = Dest[m] /\ mig[m].phase \notin DestinationShut
    /\ s \notin {Home, Dest[m]} => lc'[s] = lc[s] /\ (Live(s)' => Live(s))

\* A commit moves to a phase in which the same shards are closed, but for the two
\* commits that follow the closing of a shard.
LEMMA MovesShut ==
    ASSUME NEW m, Only(m), NEW s, NEW p, NEW q, Moves(s, m, p, q)
    PROVE  /\ q \in HomeShut => p \in HomeShut \/ (s = Home /\ q = "Migrating")
           /\ q \in DestinationShut => p \in DestinationShut \/ (s = Dest[m] /\ q = "Restoring")
  BY DEF Moves, HomeShut, DestinationShut, Broken, Only

\* As long as no shard restarts, the shards are closed in their phases.
THEOREM ShutInvariant ==
    ASSUME NEW m, Only(m), Restartable = {}
    PROVE  Spec => []ShutInv(m)
  \* A step of a worker that minds the gates.
  <1>ShutStep.
      ASSUME Base, ShutInv(m), NEW s \in Shards, Gates(s, m),
             NEW x, Acts(s, m, x), Shuts(s, m, x)'
      PROVE  ShutInv(m)'
    <2> USE <1>ShutStep
    <2>1. m \in Migrations /\ Dest[m] # Home
      BY Zenon DEF Only
    <2>2. worker'[s][m] = x /\ \A t \in Shards \ {s} : worker'[t][m] = worker[t][m]
      BY Zenon, <2>1, ActsFacts
    <2>3. ASSUME NEW t, t # s, Closed(t, m) PROVE Closed(t, m)'
      BY Zenon, <2>3 DEF Gates, Closed
    <2>4. mig[m].phase \in HomeShut => Closed(Home, m)'
      BY Zenon, <2>1, <2>3 DEF Gates, ShutInv
    <2>5. mig[m].phase \in DestinationShut => Closed(Dest[m], m)'
      BY Zenon, <2>1, <2>3 DEF Gates, ShutInv
    <2>6. \A t \in Shards \ {Home, Dest[m]} : lc'[t] = None /\ ~Live(t)'
      BY Zenon DEF Gates, ShutInv
    <2>7. ASSUME NEW t \in Shards PROVE Shuts(t, m, worker[t][m])'
      <3>1. CASE t = s
        BY Zenon, <2>2, <3>1 DEF Shuts
      <3>2. CASE t # s
        <4>1. worker'[t][m] = worker[t][m] /\ registry'[t] = registry[t]
          BY Zenon, <2>2, <3>2 DEF Gates
        <4>2. Shuts(t, m, worker[t][m])
          BY Zenon DEF ShutInv
        <4> QED
          BY Zenon, <2>3, <3>2, <4>1, <4>2 DEF Shuts
      <3> QED
        BY Zenon, <3>1, <3>2
    <2>8. UNCHANGED mig
      BY Zenon DEF Gates
    <2> QED
      BY Zenon, <2>4, <2>5, <2>6, <2>7, <2>8 DEF ShutInv
  \* A handler returns with an object that closes no shard, or has closed it.
  <1>ReturnShut.
      ASSUME Base, ShutInv(m), NEW s \in Shards, ~At(s, m, "idle"), Gates(s, m),
             NEW new, NEW rq, Return(s, m, new, rq),
             \/ new = Obj(s, m)
             \/ new.phase \notin {"Migrating", "Restoring"}
             \/ s = Home /\ new.phase # "Migrating"
             \/ s = Dest[m] /\ new.phase # "Restoring"
             \/ Closed(s, m)'
      PROVE  ShutInv(m)'
    <2> USE <1>ReturnShut
    <2>1. m \in Migrations /\ Dest[m] # Home
      BY Zenon DEF Only
    <2>2. PICK x : /\ Acts(s, m, x)
                   /\ \/ x = Idle /\ new = Obj(s, m)
                      \/ x.pc = "commit" /\ x.obj = Obj(s, m) /\ x.new = new
      BY Zenon, <2>1, ReturnActs
    <2>3. Idle.pc = "idle"
      BY DEF Idle
    <2>4. CASE x = Idle
      BY Zenon, <2>2, <2>3, <2>4, <1>ShutStep DEF Shuts
    <2>5. CASE x.pc = "commit" /\ x.new = new /\ new # Obj(s, m)
      BY Zenon, <2>1, <2>2, <2>5, <1>ShutStep DEF Shuts
    <2>6. CASE new = Obj(s, m)
      <3>1. worker' = [worker EXCEPT ![s][m] = Idle]
        BY Zenon, <2>6 DEF Return
      <3>2. Acts(s, m, Idle)
        BY Zenon, <2>3, <3>1 DEF Acts
      <3> QED
        BY Zenon, <2>3, <3>2, <1>ShutStep DEF Shuts
    <2> QED
      BY Zenon, <2>2, <2>4, <2>5, <2>6
  \* A handler goes on.
  <1>GotoShut.
      ASSUME Base, ShutInv(m), NEW s \in Shards, Gates(s, m),
             NEW p, p # "commit", Goto(s, m, p), p = "block" => registry'[s] = m
      PROVE  ShutInv(m)'
    <2> USE <1>GotoShut
    <2>1. m \in Migrations
      BY Zenon DEF Only
    <2>2. PICK x : Acts(s, m, x) /\ x.pc = p /\ x.obj = Obj(s, m)
      BY Zenon, <2>1, GotoActs
    <2> QED
      BY Zenon, <2>2, <1>ShutStep DEF Shuts
  \* Nothing happens to the gates.
  <1>QuietGates.
      ASSUME NEW s, UNCHANGED <<mig, lc, registry, req>>
      PROVE  Gates(s, m)
    BY Zenon, <1>QuietGates DEF Gates, Closed, Live
  \* A cancelled context stops the requests of its shard, and of no other.
  <1>StopLocal.
      ASSUME Base, NEW s \in Shards, StopRequests(s)
      PROVE  ~Live(s)' /\ \A t \in Shards : Live(t)' => Live(t)
    <2> USE <1>StopLocal
    <2>1. req \in [st : {"none", "admitted", "applied"}, shard : Shards \cup {None},
                   k : DataKeys \cup {None}, read : Values \cup {None}, live : BOOLEAN]
      BY Zenon DEF Base, ShardType, GateType
    <2>2. req'.shard = req.shard /\ req'.live = (req.live /\ req.shard # s)
      BY <2>1 DEF StopRequests
    <2> QED
      BY Zenon, <2>2 DEF Live
  \* The handlers that touch neither the LC nor the gates.
  <1>QuietShut.
      ASSUME Base, OrderInv(m), ShutInv(m), NEW s \in Shards,
             \/ StartCancellation(s, m) \/ DetectLCDeletion(s, m) \/ Wait(s, m) \/ Start(s, m)
             \/ RemoveFinalizer(s, m) \/ CancellationCheck(s, m)
             \/ ~At(s, m, "idle") /\ Fails(s, m) /\ UNCHANGED outside
      PROVE  ShutInv(m)'
    <2> USE <1>QuietShut
    <2>1. UNCHANGED <<mig, lc, registry, req>>
      BY Zenon DEF StartCancellation, DetectLCDeletion, Wait, Start, RemoveFinalizer,
         CancellationCheck, Fails, outside
    <2>2. Gates(s, m)
      BY Zenon, <2>1, <1>QuietGates
    <2>3. ~At(s, m, "idle")
      BY Zenon DEF StartCancellation, DetectLCDeletion, Wait, Start, RemoveFinalizer,
         CancellationCheck, Handles, At
    <2>4. PICK o : o = Obj(s, m)
      OBVIOUS
    <2>5. o \in MigrationObjects
      BY Zenon, <2>3, <2>4, Reads
    <2>6. ASSUME NEW new, NEW rq, Return(s, m, new, rq),
                 new = o \/ new.phase \notin {"Migrating", "Restoring"}
          PROVE  ShutInv(m)'
      BY Zenon, <2>2, <2>3, <2>4, <2>6, <1>ReturnShut
    <2>7. CASE StartCancellation(s, m)
      <3>1. PICK new, rq : /\ Return(s, m, new, rq)
                           /\ new = [o EXCEPT !.cont = 0,
                                !.origin = IF o.phase \in {"", "Preparing"} THEN s ELSE @,
                                !.phase = CASE o.phase \in {"", "Preparing"} -> "CancellationFinalize"
                                            [] o.phase = "Migrating" -> "CancellationCleanup"
                                            [] OTHER -> "CancellationPreparing"]
        BY Zenon, <2>4, <2>7 DEF StartCancellation
      <3>2. new.phase \notin {"Migrating", "Restoring"}
        BY <2>5, <3>1 DEF MigrationObjects
      <3> QED
        BY Zenon, <2>6, <3>1, <3>2
    <2>8. CASE DetectLCDeletion(s, m)
      <3>1. PICK new, rq : Return(s, m, new, rq) /\ new = [o EXCEPT !.phase = "Aborting"]
        BY Zenon, <2>4, <2>8 DEF DetectLCDeletion
      <3>2. new.phase \notin {"Migrating", "Restoring"}
        BY <2>5, <3>1 DEF MigrationObjects
      <3> QED
        BY Zenon, <2>6, <3>1, <3>2
    <2>9. CASE Wait(s, m)
      BY Zenon, <2>4, <2>6, <2>9 DEF Wait
    <2>10. CASE Start(s, m)
      <3>1. o.phase = "" /\ \E rq : Return(s, m, IF o.fin THEN [o EXCEPT !.phase = "Preparing"]
                                                          ELSE [o EXCEPT !.fin = TRUE], rq)
        BY Zenon, <2>4, <2>10 DEF Start, Handles
      <3>2. PICK new, rq : Return(s, m, new, rq)
                           /\ (new = [o EXCEPT !.phase = "Preparing"] \/ new = [o EXCEPT !.fin = TRUE])
        BY Zenon, <3>1
      <3>3. new.phase \notin {"Migrating", "Restoring"}
        BY <2>5, <3>1, <3>2 DEF MigrationObjects
      <3> QED
        BY Zenon, <2>6, <3>2, <3>3
    <2>11. CASE RemoveFinalizer(s, m)
      <3>1. PICK new, rq : /\ Return(s, m, new, rq) /\ new = [o EXCEPT !.fin = FALSE]
                           /\ o.phase \in {"Completed", "Cancelled", "Failed"}
        BY Zenon, <2>4, <2>11 DEF RemoveFinalizer
      <3>2. new.phase \notin {"Migrating", "Restoring"}
        BY <2>5, <3>1 DEF MigrationObjects
      <3> QED
        BY Zenon, <2>6, <3>1, <3>2
    <2>12. CASE CancellationCheck(s, m)
      BY Zenon, <2>2, <2>4, <2>6, <2>12, <1>GotoShut DEF CancellationCheck
    <2>13. CASE Fails(s, m)
      BY Zenon, <2>4, <2>6, <2>13 DEF Fails
    <2> QED
      BY Zenon, <2>7, <2>8, <2>9, <2>10, <2>11, <2>12, <2>13
  \* reconcilePreparing.
  <1>PrepareShut.
      ASSUME Base, OrderInv(m), ShutInv(m), NEW s \in Shards,
             Prepare(s, m) \/ PrepareRegister(s, m) \/ PrepareBlock(s, m)
      PROVE  ShutInv(m)'
    <2> USE <1>PrepareShut
    <2>1. ~At(s, m, "idle")
      BY Zenon DEF Prepare, PrepareRegister, PrepareBlock, Handles, At
    <2>2. PICK o : o = Obj(s, m)
      OBVIOUS
    <2>3. o \in MigrationObjects /\ m \in Migrations /\ m # None
      BY Zenon, <2>1, <2>2, Reads, ConstantsAssumption
    <2>4. registry[s] \in {None, m}
      BY Zenon, OneAnnotation
    <2>5. s = Home /\ o.phase = "Preparing"
      <3>1. CASE Prepare(s, m)
        BY Zenon, <2>1, <2>2, <3>1, Reads DEF Prepare, Handles
      <3>2. CASE PrepareRegister(s, m) \/ PrepareBlock(s, m)
        BY Zenon, <2>2, <3>2 DEF PrepareRegister, PrepareBlock, OrderInv, Stage, At, Obj
      <3> QED
        BY Zenon, <3>1, <3>2
    <2>6. mig[m].phase = "Preparing"
      BY Zenon, <2>1, <2>2, <2>5, Reads DEF Owns, OriginOwns
    <2>7. mig[m].phase \notin HomeShut
      BY Zenon, <2>6 DEF HomeShut
    <2>8. CASE Prepare(s, m)
      <3>1. UNCHANGED <<mig, registry, req>>
        BY Zenon, <2>8 DEF Prepare, Fails, outside
      <3>2. \A t \in Shards \ {s} : lc'[t] = lc[t]
        BY Zenon, <2>8, SetLCLocal DEF Prepare, Fails, SetAnnotation
      <3>3. Gates(s, m)
        BY Zenon, <2>5, <2>7, <3>1, <3>2 DEF Gates, Live
      <3>4. ASSUME NEW new, NEW rq, Return(s, m, new, rq), new.phase \notin {"Migrating", "Restoring"}
            PROVE  ShutInv(m)'
        BY Zenon, <2>1, <3>3, <3>4, <1>ReturnShut
      <3>5. \/ \E rq : Return(s, m, [o EXCEPT !.origin = s], rq)
            \/ \E rq : Return(s, m, [o EXCEPT !.phase = "Failed"], rq)
            \/ \E rq : Return(s, m, o, rq)
            \/ Goto(s, m, "register")
        BY Zenon, <2>2, <2>8 DEF Prepare, Fails
      <3>6. /\ [o EXCEPT !.origin = s].phase = "Preparing"
            /\ [o EXCEPT !.phase = "Failed"].phase = "Failed"
        BY <2>3, <2>5 DEF MigrationObjects
      <3>7. CASE Goto(s, m, "register")
        BY Zenon, <3>3, <3>7, <1>GotoShut
      <3> QED
        BY Zenon, <2>5, <3>4, <3>5, <3>6, <3>7
    <2>9. CASE PrepareRegister(s, m)
      <3>1. UNCHANGED <<mig, lc, req>> /\ Goto(s, m, "block")
            /\ registry' = [registry EXCEPT ![s] = IF @ = None THEN m ELSE @]
        BY Zenon, <2>9 DEF PrepareRegister, outside
      <3>2. PICK r : r = (IF registry[s] = None THEN m ELSE registry[s])
        OBVIOUS
      <3>3. registry' = [registry EXCEPT ![s] = r] /\ r = m
        BY Zenon, <2>4, <3>1, <3>2
      <3>4. registry'[s] = m /\ \A t \in Shards \ {s} : registry'[t] = registry[t]
        BY Zenon, <3>3, GateLocal
      <3>5. Gates(s, m)
        BY Zenon, <2>5, <2>7, <3>1, <3>4 DEF Gates, Live
      <3> QED
        BY Zenon, <3>1, <3>4, <3>5, <1>GotoShut
    <2>10. CASE PrepareBlock(s, m)
      <3>1. /\ UNCHANGED <<mig, lc, registry>> /\ StopRequests(s)
            /\ \E new, rq : Return(s, m, new, rq)
        BY Zenon, <2>10 DEF PrepareBlock, CancelContext, outside
      <3>2. ~Live(s)' /\ \A t \in Shards : Live(t)' => Live(t)
        BY Zenon, <3>1, <1>StopLocal
      <3>3. Gates(s, m)
        BY Zenon, <2>5, <2>7, <3>1, <3>2 DEF Gates
      <3>4. registry[s] = m
        BY Zenon, <2>10 DEF PrepareBlock, ShutInv, Shuts, At
      <3>5. Closed(s, m)'
        BY Zenon, <3>1, <3>2, <3>4 DEF Closed
      <3> QED
        BY Zenon, <2>1, <3>1, <3>3, <3>5, <1>ReturnShut
    <2> QED
      BY Zenon, <2>8, <2>9, <2>10
  \* The registration of a shard, as the handlers make it.
  <1>Registers.
      ASSUME Base, NEW s \in Shards,
             \/ registry' = [registry EXCEPT ![s] = IF @ = None THEN m ELSE @]
             \/ registry' = [registry EXCEPT ![s] = m]
      PROVE  registry'[s] = m /\ \A t \in Shards \ {s} : registry'[t] = registry[t]
    <2> USE <1>Registers
    <2>1. registry[s] \in {None, m}
      BY Zenon, OneAnnotation
    <2>2. PICK r : r = (IF registry[s] = None THEN m ELSE registry[s])
      OBVIOUS
    <2>3. registry' = [registry EXCEPT ![s] = m]
      <3>1. CASE registry' = [registry EXCEPT ![s] = IF @ = None THEN m ELSE @]
        <4>1. registry' = [registry EXCEPT ![s] = r] /\ r = m
          BY Zenon, <2>1, <2>2, <3>1
        <4> QED
          BY Zenon, <4>1
      <3> QED
        BY Zenon, <3>1
    <2> QED
      BY Zenon, <2>3, GateLocal
  \* registerCancellation closes the shard.
  <1>RegisterCloses.
      ASSUME Base, NEW s \in Shards, RegisterCancellation(s, m), UNCHANGED mig,
             s \in {Home, Dest[m]}, \A t \in Shards \ {s} : lc'[t] = lc[t]
      PROVE  Closed(s, m)' /\ Gates(s, m)
    <2> USE <1>RegisterCloses
    <2>1. registry' = [registry EXCEPT ![s] = m] /\ StopRequests(s)
      BY Zenon DEF RegisterCancellation, CancelContext
    <2>2. registry'[s] = m /\ \A t \in Shards \ {s} : registry'[t] = registry[t]
      BY Zenon, <2>1, <1>Registers
    <2>3. ~Live(s)' /\ \A t \in Shards : Live(t)' => Live(t)
      BY Zenon, <2>1, <1>StopLocal
    <2> QED
      BY Zenon, <2>2, <2>3 DEF Closed, Gates
  \* deleteOriginData closes the shard, too: it does not have the LC any more.
  <1>DeleteCloses.
      ASSUME Base, NEW s \in Shards, DeleteData(s), UNCHANGED mig,
             s \in {Home, Dest[m]}
      PROVE  Closed(s, m)' /\ Gates(s, m)
    <2> USE <1>DeleteCloses
    <2>1. /\ SetLC(s, IF LCKey \in Keys THEN None ELSE lc[s]) /\ StopRequests(s)
          /\ registry' = [registry EXCEPT ![s] = None]
      BY Zenon DEF DeleteData, Wipe, DeleteContext, Remove
    <2>2. lc'[s] = None /\ \A t \in Shards \ {s} : lc'[t] = lc[t]
      <3>1. PICK x : x = (IF LCKey \in Keys THEN None ELSE lc[s])
        OBVIOUS
      <3>2. x = None
        BY Zenon, <3>1, ConstantsAssumption
      <3> QED
        BY Zenon, <2>1, <3>1, <3>2, SetLCLocal
    <2>3. \A t \in Shards \ {s} : registry'[t] = registry[t]
      BY Zenon, <2>1, GateLocal
    <2>4. ~Live(s)' /\ \A t \in Shards : Live(t)' => Live(t)
      BY Zenon, <2>1, <1>StopLocal
    <2> QED
      BY Zenon, <2>2, <2>3, <2>4 DEF Closed, Gates
  \* What is wiped in part is closed as before.
  <1>WipeGates.
      ASSUME Base, NEW s \in Shards, NEW D, Wipe(s, D), UNCHANGED <<mig, registry, req>>,
             s \in {Home, Dest[m]}
      PROVE  Gates(s, m)
    <2> USE <1>WipeGates
    <2>1. PICK x : x = (IF LCKey \in D THEN None ELSE lc[s])
      OBVIOUS
    <2>2. SetLC(s, x) /\ x \in {None, lc[s]}
      BY Zenon, <2>1 DEF Wipe
    <2>3. lc'[s] \in {None, lc[s]} /\ \A t \in Shards \ {s} : lc'[t] = lc[t]
      BY Zenon, <2>2, SetLCLocal
    <2> QED
      BY Zenon, <2>3 DEF Gates, Closed, Live
  \* reconcileMigrating and reconcileOriginCleanup, and reconcileAborting.
  <1>MigrateShut.
      ASSUME Base, OrderInv(m), ShutInv(m), NEW s \in Shards,
             Migrate(s, m) \/ OriginCleanup(s, m) \/ Abort(s, m)
      PROVE  ShutInv(m)'
    <2> USE <1>MigrateShut
    <2>1. ~At(s, m, "idle")
      BY Zenon DEF Migrate, OriginCleanup, Abort, Handles, At
    <2>2. PICK o : o = Obj(s, m)
      OBVIOUS
    <2>3. o \in MigrationObjects /\ m \in Migrations /\ Dest[m] # Home
      BY Zenon, <2>1, <2>2, Reads DEF Only
    <2>4. s \in {Home, Dest[m]}
      BY Zenon, <2>1, Reads DEF Migrate, OriginCleanup, Abort, IsDestination
    <2>5. CASE Migrate(s, m)
      <3>1. /\ registry' = [registry EXCEPT ![s] = IF @ = None THEN m ELSE @]
            /\ UNCHANGED <<mig, req>> /\ s = Dest[m]
        BY Zenon, <2>5 DEF Migrate, outside, IsDestination
      <3>2. registry'[s] = m /\ \A t \in Shards \ {s} : registry'[t] = registry[t]
        BY Zenon, <3>1, <1>Registers
      <3>3. (\E p : CopyPage(s, m, o.origin, p)) \/ CopyFails(s, m, o.origin)
        BY Zenon, <2>2, <2>5 DEF Migrate
      <3>4. \A t \in Shards \ {s} : lc'[t] = lc[t]
        BY Zenon, <2>3, <3>3, CopyLocal
      <3>5. Gates(s, m)
        BY Zenon, <3>1, <3>2, <3>4 DEF Gates, Closed, Live
      <3>6. PICK new, rq : /\ Return(s, m, new, rq)
                           /\ \/ new = o
                              \/ \E p : new = [o EXCEPT !.cont = p.next, !.copied = p.next = 0,
                                           !.phase = IF p.next = 0 THEN "OriginCleanup" ELSE @]
        BY Zenon, <2>2, <2>5 DEF Migrate, CopyFails
      <3>7. o.phase = "Migrating"
        BY Zenon, <2>2, <2>5 DEF Migrate, Handles
      <3>8. new.phase # "Restoring"
        BY <2>3, <3>6, <3>7 DEF MigrationObjects
      <3> QED
        BY Zenon, <2>1, <3>1, <3>5, <3>6, <3>8, <1>ReturnShut
    <2>6. ASSUME DeleteData(s), UNCHANGED mig, NEW new, NEW rq, Return(s, m, new, rq)
          PROVE  ShutInv(m)'
      BY Zenon, <2>1, <2>4, <2>6, <1>DeleteCloses, <1>ReturnShut
    <2>7. ASSUME DeleteFails(s, m), UNCHANGED <<mig, registry, req>>
          PROVE  ShutInv(m)'
      BY Zenon, <2>1, <2>4, <2>7, <1>WipeGates, <1>ReturnShut DEF DeleteFails
    <2>8. CASE OriginCleanup(s, m)
      BY Zenon, <2>6, <2>7, <2>8 DEF OriginCleanup, outside
    <2>9. CASE Abort(s, m)
      BY Zenon, <2>6, <2>7, <2>9 DEF Abort, outside
    <2> QED
      BY Zenon, <2>5, <2>8, <2>9
  \* reconcileDestinationFinalize, which opens the destination.
  <1>FinalizeShut.
      ASSUME Base, OrderInv(m), ShutInv(m), NEW s \in Shards,
             DestinationFinalize(s, m) \/ DestinationRelease(s, m)
      PROVE  ShutInv(m)'
    <2> USE <1>FinalizeShut
    <2>1. ~At(s, m, "idle")
      BY Zenon DEF DestinationFinalize, DestinationRelease, Handles, At
    <2>2. PICK o : o = Obj(s, m)
      OBVIOUS
    <2>3. o \in MigrationObjects /\ m \in Migrations /\ Dest[m] # Home
      BY Zenon, <2>1, <2>2, Reads DEF Only
    <2>4. s = Dest[m] /\ o.phase = "DestinationFinalize"
      <3>1. CASE DestinationFinalize(s, m)
        BY Zenon, <2>2, <3>1 DEF DestinationFinalize, Handles, IsDestination
      <3>2. CASE DestinationRelease(s, m)
        BY Zenon, <2>2, <3>2 DEF DestinationRelease, OrderInv, Stage, At, Obj
      <3> QED
        BY Zenon, <3>1, <3>2
    <2>5. mig[m].phase \notin DestinationShut
      <3>1. mig[m].phase = "DestinationFinalize"
        BY Zenon, <2>1, <2>2, <2>4, Reads DEF Owns, DestinationOwns
      <3> QED
        BY Zenon, <3>1 DEF DestinationShut
    <2>6. CASE Fails(s, m) /\ UNCHANGED outside
      BY Zenon, <2>1, <2>6, <1>QuietShut
    <2>7. CASE DestinationFinalize(s, m)
      <3>1. ASSUME SetAnnotation(s, None), Goto(s, m, "finalize"), UNCHANGED <<mig, registry, req>>
            PROVE  ShutInv(m)'
        <4>1. \A t \in Shards \ {s} : lc'[t] = lc[t]
          BY Zenon, <3>1, SetLCLocal DEF SetAnnotation
        <4>2. Gates(s, m)
          BY Zenon, <2>4, <2>5, <3>1, <4>1 DEF Gates, Live
        <4> QED
          BY Zenon, <3>1, <4>2, <1>GotoShut
      <3> QED
        BY Zenon, <2>6, <2>7, <3>1 DEF DestinationFinalize, outside
    <2>8. CASE DestinationRelease(s, m)
      <3>1. ASSUME Remove(s), Return(s, m, [Obj(s, m) EXCEPT !.phase = "Completed"], FALSE),
                   UNCHANGED <<mig, lc, req>>
            PROVE  ShutInv(m)'
        <4>1. \A t \in Shards \ {s} : registry'[t] = registry[t]
          BY Zenon, <3>1, GateLocal DEF Remove
        <4>2. Gates(s, m)
          BY Zenon, <2>4, <2>5, <3>1, <4>1 DEF Gates, Live
        <4>3. [o EXCEPT !.phase = "Completed"].phase = "Completed"
          BY <2>3 DEF MigrationObjects
        <4> QED
          BY Zenon, <2>1, <2>2, <3>1, <4>2, <4>3, <1>ReturnShut
      <3> QED
        BY Zenon, <2>6, <2>8, <3>1 DEF DestinationRelease, outside
    <2> QED
      BY Zenon, <2>7, <2>8
  \* The handlers of the cancellation that close a shard.
  <1>CancellationShut.
      ASSUME Base, OrderInv(m), ShutInv(m), NEW s \in Shards,
             \/ KeepBlocked(s, m) \/ BlockForCancellation(s, m) \/ Restore(s, m)
             \/ CancellationCleanup(s, m)
      PROVE  ShutInv(m)'
    <2> USE <1>CancellationShut
    <2>1. ~At(s, m, "idle")
      BY Zenon DEF KeepBlocked, BlockForCancellation, Restore, CancellationCleanup, Handles, At
    <2>2. m \in Migrations /\ UNCHANGED mig
      BY Zenon DEF Only, KeepBlocked, BlockForCancellation, Restore, CancellationCleanup, outside
    <2>3. s \in {Home, Dest[m]}
      BY Zenon, <2>1, Reads
         DEF KeepBlocked, BlockForCancellation, Restore, CancellationCleanup, IsDestination
    <2>4. CASE Fails(s, m) /\ UNCHANGED outside
      BY Zenon, <2>1, <2>4, <1>QuietShut
    <2>5. ASSUME RegisterCancellation(s, m), \A t \in Shards \ {s} : lc'[t] = lc[t],
                 NEW new, NEW rq, Return(s, m, new, rq)
          PROVE  ShutInv(m)'
      BY Zenon, <2>1, <2>2, <2>3, <2>5, <1>RegisterCloses, <1>ReturnShut
    <2>6. CASE KeepBlocked(s, m)
      BY Zenon, <2>4, <2>5, <2>6 DEF KeepBlocked
    <2>7. CASE BlockForCancellation(s, m)
      <3>1. SetAnnotation(s, m) => \A t \in Shards \ {s} : lc'[t] = lc[t]
        BY Zenon, SetLCLocal DEF SetAnnotation
      <3> QED
        BY Zenon, <2>4, <2>5, <2>7, <3>1 DEF BlockForCancellation
    <2>8. CASE Restore(s, m)
      <3>1. ASSUME NEW p, CopyPage(s, m, Dest[m], p) PROVE \A t \in Shards \ {s} : lc'[t] = lc[t]
        BY Zenon, <2>2, <3>1, CopyLocal
      <3>2. ASSUME CopyFails(s, m, Dest[m]) PROVE \A t \in Shards \ {s} : lc'[t] = lc[t]
        BY Zenon, <2>2, <3>2, CopyLocal
      <3>3. CopyFails(s, m, Dest[m]) => Return(s, m, Obj(s, m), TRUE)
        BY Zenon DEF CopyFails
      <3> QED
        BY Zenon, <2>4, <2>5, <2>8, <3>1, <3>2, <3>3 DEF Restore
    <2>9. CASE CancellationCleanup(s, m)
      <3>1. ASSUME DeleteData(s), NEW new, NEW rq, Return(s, m, new, rq)
            PROVE  ShutInv(m)'
        BY Zenon, <2>1, <2>2, <2>3, <3>1, <1>DeleteCloses, <1>ReturnShut
      <3>2. ASSUME RegisterCancellation(s, m), DeleteFails(s, m)
            PROVE  ShutInv(m)'
        <4>1. \E x : SetLC(s, x)
          BY Zenon, <3>2 DEF DeleteFails, Wipe
        <4>2. \A t \in Shards \ {s} : lc'[t] = lc[t]
          BY Zenon, <4>1, SetLCLocal
        <4> QED
          BY Zenon, <2>5, <3>2, <4>2 DEF DeleteFails
      <3> QED
        BY Zenon, <2>4, <2>9, <3>1, <3>2 DEF CancellationCleanup
    <2> QED
      BY Zenon, <2>6, <2>7, <2>8, <2>9
  \* finalizeCancellation, which opens the origin.
  <1>CancellationReleaseShut.
      ASSUME Base, OrderInv(m), ShutInv(m), NEW s \in Shards,
             CancellationFinalize(s, m) \/ CancellationRelease(s, m)
      PROVE  ShutInv(m)'
    <2> USE <1>CancellationReleaseShut
    <2>1. ~At(s, m, "idle")
      BY Zenon DEF CancellationFinalize, CancellationRelease, Handles, At
    <2>2. PICK o : o = Obj(s, m)
      OBVIOUS
    <2>3. o \in MigrationObjects /\ m \in Migrations /\ UNCHANGED mig
      BY Zenon, <2>1, <2>2, Reads DEF CancellationFinalize, CancellationRelease, outside
    <2>4. s = Home /\ o.phase = "CancellationFinalize"
      <3>1. CASE CancellationFinalize(s, m)
        BY Zenon, <2>1, <2>2, <3>1, Reads DEF CancellationFinalize, Handles
      <3>2. CASE CancellationRelease(s, m)
        BY Zenon, <2>2, <3>2 DEF CancellationRelease, OrderInv, Stage, At, Obj
      <3> QED
        BY Zenon, <3>1, <3>2
    <2>5. mig[m].phase \notin HomeShut
      <3>1. mig[m].phase = "CancellationFinalize"
        BY Zenon, <2>1, <2>2, <2>4, Reads DEF Owns, OriginOwns
      <3> QED
        BY Zenon, <3>1 DEF HomeShut
    <2>6. UNCHANGED lc \/ \E x : SetLC(s, x)
      BY Zenon DEF CancellationFinalize, CancellationRelease, SetAnnotation, Fails
    <2>7. UNCHANGED req \/ StopRequests(s)
      BY Zenon DEF CancellationFinalize, CancellationRelease, DeleteContext, Fails
    <2>8. UNCHANGED registry \/ registry' = [registry EXCEPT ![s] = None]
      BY Zenon DEF CancellationFinalize, CancellationRelease, Remove, Fails
    <2>9. \A t \in Shards \ {s} : lc'[t] = lc[t]
      BY Zenon, <2>6, SetLCLocal
    <2>10. \A t \in Shards \ {s} : Live(t)' => Live(t)
      BY Zenon, <2>7, <1>StopLocal DEF Live
    <2>11. \A t \in Shards \ {s} : registry'[t] = registry[t]
      BY Zenon, <2>8, GateLocal
    <2>12. Gates(s, m)
      BY Zenon, <2>3, <2>4, <2>5, <2>9, <2>10, <2>11 DEF Gates
    <2>13. \/ \E rq : Return(s, m, o, rq)
           \/ \E rq : Return(s, m, [o EXCEPT !.phase = "Cancelled"], rq)
           \/ Goto(s, m, "check")
      BY Zenon, <2>2 DEF CancellationFinalize, CancellationRelease, Fails
    <2>14. [o EXCEPT !.phase = "Cancelled"].phase = "Cancelled"
      BY <2>3 DEF MigrationObjects
    <2> QED
      BY Zenon, <2>1, <2>2, <2>12, <2>13, <2>14, <1>ReturnShut, <1>GotoShut
  \* Around the handlers: nobody else opens a gate, and requests start on open shards.
  <1>AroundShut.
      ASSUME ShutInv(m), mig'[m].phase = mig[m].phase,
             \A t \in Shards : \/ worker'[t][m] = worker[t][m]
                               \/ worker'[t][m].pc \in {"idle", "reconcile"},
             UNCHANGED registry, \A t \in Shards : lc[t] = None => lc'[t] = None,
             \A t \in Shards : Live(t)' => Live(t) \/ (registry[t] # m /\ lc[t] # None)
      PROVE  ShutInv(m)'
    <2> USE <1>AroundShut
    <2>1. ASSUME NEW t, Closed(t, m) PROVE Closed(t, m)'
      BY Zenon, <2>1 DEF Closed
    <2>2. \A t \in Shards \ {Home, Dest[m]} : lc'[t] = None /\ ~Live(t)'
      BY Zenon DEF ShutInv
    <2>3. ASSUME NEW t \in Shards PROVE Shuts(t, m, worker[t][m])'
      <3>1. CASE worker'[t][m] = worker[t][m]
        <4>1. Shuts(t, m, worker[t][m])
          BY Zenon DEF ShutInv
        <4> QED
          BY Zenon, <2>1, <3>1, <4>1 DEF Shuts
      <3>2. CASE worker'[t][m].pc \in {"idle", "reconcile"}
        BY Zenon, <3>2 DEF Shuts
      <3> QED
        BY Zenon, <3>1, <3>2
    <2> QED
      BY Zenon, <2>1, <2>2, <2>3 DEF ShutInv
  \* The worker reads the object, and commits it.
  <1>CommitShut.
      ASSUME Base, OrderInv(m), ShutInv(m), NEW s \in Shards,
             Get(s, m) \/ Commit(s, m)
      PROVE  ShutInv(m)'
    <2> USE <1>CommitShut
    <2>1. /\ worker \in [Shards -> [Migrations -> Workers]] /\ m \in Migrations
          /\ mig \in [Migrations -> MigrationObjects]
      BY Zenon DEF Base, MigrationInv, WorkersInv, ObjectsInv, Only
    <2>2. UNCHANGED <<registry, lc, req>>
      BY Zenon DEF Get, Commit
    <2>3. CASE Get(s, m)
      <3>1. PICK x : x = [worker[s][m] EXCEPT !.pc = "reconcile", !.obj = mig[m]]
        OBVIOUS
      <3>2. x.pc = "reconcile"
        BY <2>1, <3>1 DEF Workers
      <3>3. UNCHANGED worker \/ worker' = [worker EXCEPT ![s][m] = x]
        BY Zenon, <2>1, <2>3, <3>1 DEF Get
      <3>4. \A t \in Shards : worker'[t][m] = worker[t][m] \/ worker'[t][m].pc \in {"idle", "reconcile"}
        BY Zenon, <2>1, <3>2, <3>3
      <3>5. UNCHANGED mig
        BY Zenon, <2>3 DEF Get
      <3> QED
        BY Zenon, <2>2, <3>4, <3>5, <1>AroundShut DEF Live
    <2>4. CASE Commit(s, m)
      <3>1. worker' = [worker EXCEPT ![s][m] = Idle] /\ worker[s][m].pc = "commit"
        BY Zenon, <2>4 DEF Commit, At
      <3>2. Idle.pc = "idle"
        BY DEF Idle
      <3>3. \A t \in Shards : worker'[t][m] = worker[t][m] \/ worker'[t][m] = Idle
        BY Zenon, <2>1, <3>1
      <3>4. CASE UNCHANGED mig
        BY Zenon, <2>2, <3>2, <3>3, <3>4, <1>AroundShut DEF Live
      <3>5. CASE mig[m] = worker[s][m].obj /\ mig' = [mig EXCEPT ![m] = worker[s][m].new]
        <4>1. mig'[m] = worker[s][m].new
          BY Zenon, <2>1, <3>5
        <4>2. Moves(s, m, mig[m].phase, mig'[m].phase)
          BY Zenon, <3>1, <3>5, <4>1 DEF OrderInv, Stage
        <4>3. Shuts(s, m, worker[s][m])
          BY Zenon DEF ShutInv
        <4>4. PICK p, q : p = mig[m].phase /\ q = mig'[m].phase
          OBVIOUS
        <4>5. /\ q \in HomeShut => p \in HomeShut \/ (s = Home /\ q = "Migrating")
              /\ q \in DestinationShut => p \in DestinationShut \/ (s = Dest[m] /\ q = "Restoring")
          BY <4>2, <4>4, MovesShut
        <4>6. worker[s][m].new.phase = q
          BY Zenon, <4>1, <4>4
        <4>7. s = Home /\ q = "Migrating" => Closed(s, m)
          BY Zenon, <3>1, <4>3, <4>6 DEF Shuts
        <4>8. s = Dest[m] /\ q = "Restoring" => Closed(s, m)
          BY Zenon, <3>1, <4>3, <4>6 DEF Shuts
        <4>9. q \in HomeShut => Closed(Home, m)
          BY Zenon, <4>4, <4>5, <4>7 DEF ShutInv
        <4>10. q \in DestinationShut => Closed(Dest[m], m)
          BY Zenon, <4>4, <4>5, <4>8 DEF ShutInv
        <4>11. \A t : Closed(t, m)' = Closed(t, m)
          BY Zenon, <2>2 DEF Closed, Live
        <4>12. \A t \in Shards \ {Home, Dest[m]} : lc'[t] = None /\ ~Live(t)'
          BY Zenon, <2>2 DEF ShutInv, Live
        <4>13. ASSUME NEW t \in Shards PROVE Shuts(t, m, worker[t][m])'
          <5>1. Shuts(t, m, worker[t][m])
            BY Zenon DEF ShutInv
          <5> QED
            BY Zenon, <2>2, <3>2, <3>3, <4>11, <5>1 DEF Shuts
        <4> QED
          BY Zenon, <4>4, <4>9, <4>10, <4>11, <4>12, <4>13 DEF ShutInv
      <3> QED
        BY Zenon, <2>4, <3>4, <3>5 DEF Commit
    <2> QED
      BY Zenon, <2>3, <2>4
  \* The steps around the controller, when no shard restarts.
  <1>OtherShut.
      ASSUME Base, ShutInv(m), Restartable = {},
             \/ \E n \in Migrations : CreateMigration(n) \/ DeleteMigration(n) \/ Replicate(n)
             \/ \E s \in Shards : \/ Resync(s) \/ SyncLister(s) \/ IndexObserve(s) \/ IndexResync(s)
                                  \/ DeleteLC(s) \/ Restart(s)
             \/ DeleteWorkspace \/ \E k \in DataKeys : ClientStart(k)
             \/ ClientApply \/ ClientAck \/ ClientFail \/ UNCHANGED vars
      PROVE  ShutInv(m)'
    <2> USE <1>OtherShut
    <2>1. /\ m \in Migrations /\ m # None
          /\ mig \in [Migrations -> MigrationObjects]
          /\ lc \in [Shards -> LCObjects \cup {None}]
      BY Zenon, ConstantsAssumption DEF Base, ShardType, DataType, MigrationInv, ObjectsInv, Only
    <2>2. UNCHANGED <<registry, worker>>
      BY Zenon DEF CreateMigration, DeleteMigration, Replicate, Resync, SyncLister, IndexObserve,
         IndexResync, DeleteLC, Restart, DeleteWorkspace, ClientStart, ClientApply, ClientAck,
         ClientFail, vars
    <2>3. mig'[m].phase = mig[m].phase
      <3>1. CASE UNCHANGED mig
        BY Zenon, <3>1
      <3>2. ASSUME NEW n \in Migrations, DeleteMigration(n) PROVE mig'[m].phase = mig[m].phase
        <4>1. n = m
          BY Zenon DEF Only
        <4>2. mig[m] \in MigrationObjects /\ mig'[m] = [mig[m] EXCEPT !.deleting = TRUE]
          BY Zenon, <2>1, <3>2, <4>1 DEF DeleteMigration
        <4> QED
          BY <4>2 DEF MigrationObjects
      <3> QED
        BY Zenon, <3>1, <3>2 DEF CreateMigration, Replicate, Resync, SyncLister, IndexObserve,
           IndexResync, DeleteLC, Restart, DeleteWorkspace, ClientStart, ClientApply, ClientAck,
           ClientFail, vars
    <2>4. \A t \in Shards : lc[t] = None => lc'[t] = None
      <3>1. CASE UNCHANGED lc
        BY Zenon, <3>1
      <3>2. ASSUME NEW s \in Shards, DeleteLC(s) PROVE \A t \in Shards : lc[t] = None => lc'[t] = None
        <4>1. PICK x : SetLC(s, x) /\ x \in {None, lc[s]}
          BY Zenon, <3>2 DEF DeleteLC, Wipe
        <4> QED
          BY Zenon, <4>1, SetLCLocal
      <3>3. CASE DeleteWorkspace
        <4>1. lc' = [lc EXCEPT ![route] = [lc[route] EXCEPT !.deleting = TRUE]] /\ lc[route] # None
          BY Zenon, <3>3 DEF DeleteWorkspace, SetLC
        <4> QED
          BY Zenon, <2>1, <4>1
      <3> QED
        BY Zenon, <3>1, <3>2, <3>3
           DEF CreateMigration, DeleteMigration, Replicate, Resync, SyncLister, IndexObserve,
           IndexResync, Restart, ClientStart, ClientApply, ClientAck, ClientFail, vars
    <2>5. \A t \in Shards : Live(t)' => Live(t) \/ (registry[t] # m /\ lc[t] # None)
      <3>1. CASE UNCHANGED req
        BY Zenon, <3>1 DEF Live
      <3>2. CASE req' = NoRequest
        <4>1. ~NoRequest.live
          BY DEF NoRequest
        <4> QED
          BY Zenon, <3>2, <4>1 DEF Live
      <3>3. ASSUME NEW k \in DataKeys, ClientStart(k)
            PROVE  \A t \in Shards : Live(t)' => registry[t] # m /\ lc[t] # None
        <4>1. req'.shard = route /\ registry[route] = None /\ lc[route] # None
          BY <3>3 DEF ClientStart
        <4> QED
          BY Zenon, <2>1, <4>1 DEF Live
      <3>4. CASE ClientApply
        <4>1. req'.live = req.live /\ req'.shard = req.shard
          BY <3>4 DEF ClientApply, Base, ShardType, GateType
        <4> QED
          BY Zenon, <4>1 DEF Live
      <3> QED
        BY Zenon, <3>1, <3>2, <3>3, <3>4
           DEF CreateMigration, DeleteMigration, Replicate, Resync, SyncLister, IndexObserve,
           IndexResync, DeleteLC, Restart, DeleteWorkspace, ClientAck, ClientFail, vars
    <2> QED
      BY Zenon, <2>2, <2>3, <2>4, <2>5, <1>AroundShut
  \* Every step keeps the shards closed in their phases.
  <1>NextShut.
      ASSUME Base, OrderInv(m), ShutInv(m), Restartable = {}, [Next]_vars
      PROVE  ShutInv(m)'
    <2> USE <1>NextShut
    <2>1. ASSUME NEW s \in Shards, NEW n \in Migrations, Reconcile(s, n) PROVE ShutInv(m)'
      <3>1. Reconcile(s, m)
        BY Zenon, <2>1 DEF Only
      <3> QED
        BY Zenon, <3>1, <1>QuietShut, <1>PrepareShut, <1>MigrateShut, <1>FinalizeShut,
           <1>CancellationShut, <1>CancellationReleaseShut, <1>CommitShut DEF Reconcile
    <2>2. CASE \/ \E n \in Migrations : CreateMigration(n) \/ DeleteMigration(n) \/ Replicate(n)
               \/ \E s \in Shards : \/ Resync(s) \/ SyncLister(s) \/ IndexObserve(s) \/ IndexResync(s)
                                    \/ DeleteLC(s) \/ Restart(s)
               \/ DeleteWorkspace \/ \E k \in DataKeys : ClientStart(k)
               \/ ClientApply \/ ClientAck \/ ClientFail \/ UNCHANGED vars
      BY Zenon, <2>2, <1>OtherShut
    <2> QED
      BY Zenon, <2>1, <2>2 DEF Next
  \* At first the LC is at home only, and no request is under way.
  <1>InitShut.
      ASSUME Init
      PROVE  ShutInv(m)
    <2> USE <1>InitShut
    <2>1. /\ m \in Migrations /\ Dest[m] # Home /\ Home \in Shards
          /\ mig[m] = NewMigration /\ req = NoRequest
          /\ \A t \in Shards : worker[t][m] = Idle
          /\ \A t \in Shards \ {Home} : lc[t] = None
      BY Zenon, HomeThere DEF Init, Only
    <2>2. Idle.pc = "idle" /\ NewMigration.phase = "" /\ ~NoRequest.live
      BY DEF Idle, NewMigration, NoRequest
    <2>3. Closed(Dest[m], m)
      BY Zenon, <2>1, <2>2 DEF Closed, Live
    <2>4. mig[m].phase \notin HomeShut
      BY Zenon, <2>1, <2>2 DEF HomeShut
    <2> QED
      BY Zenon, <2>1, <2>2, <2>3, <2>4 DEF ShutInv, Shuts, Live
  <1>1. Init => ShutInv(m)
    BY <1>InitShut
  <1>2. Base /\ OrderInv(m) /\ ShutInv(m) /\ [Next]_vars => ShutInv(m)'
    BY <1>NextShut
  <1> QED
    BY <1>1, <1>2, BaseInvariant, OrderInvariant, PTL DEF Spec

\* While the only migration of an LC moves it, and as long as no shard restarts, no
\* shard admits a client's request (WithBlockMigratingLogicalClusters).
THEOREM ClientsAreBlocked ==
    ASSUME NEW m, Only(m), Restartable = {}
    PROVE  Spec => []ClientsBlockedWhileMigrating
  <1>1. ShutInv(m) => ClientsBlockedWhileMigrating
    <2> SUFFICES ASSUME ShutInv(m), NEW s \in Shards,
                        mig[m].phase \in {"Migrating", "OriginCleanup"}
                 PROVE  ~Serves(s)
      BY Zenon DEF ClientsBlockedWhileMigrating, Only
    <2>1. m # None
      BY Zenon, ConstantsAssumption DEF Only
    <2>2. Closed(Home, m) /\ Closed(Dest[m], m)
      BY Zenon DEF ShutInv, HomeShut, DestinationShut
    <2>3. registry[s] = m \/ lc[s] = None
      BY Zenon, <2>2 DEF Closed, ShutInv
    <2> QED
      BY Zenon, <2>1, <2>3 DEF Serves
  <1> QED
    BY <1>1, ShutInvariant, PTL

-----------------------------------------------------------------------------
(* Where the front-proxy routes to.                                        *)

\* The phases of a migration that has not been cancelled or aborted.
Forward == {"", "Preparing", "Migrating", "OriginCleanup", "DestinationFinalize", "Completed"}

\* A state of an LC object by which the front-proxy does not route to its shard.
Hidden(x) == x = None \/ x.ann # None

\* The front-proxy has seen, or will see, the LC object of every shard as it is.
FeedInv(m) ==
    /\ \A t \in Shards : feed[t][Len(feed[t])] = lc[t]
    /\ \A t \in Shards \ {Home, Dest[m]} : feed[t] = <<None>>

\* On the way forward no change of the origin under way brings the route back, and
\* once the destination's last change has been handled the route is there.
RouteInv(m) ==
    ~wsDeleted /\ mig[m].phase \in Forward =>
        /\ \A i \in 2..Len(feed[Home]) : Hidden(feed[Home][i])
        /\ /\ Dest[m] \in Shards /\ Len(feed[Dest[m]]) = 1
           /\ lc[Dest[m]] # None /\ lc[Dest[m]].ann = None
           => route = Dest[m]

\* What a shard may do to its LC object.
Shows(s, m, x) ==
    /\ x # lc[s] => s \in {Home, Dest[m]}
    /\ s = Home /\ mig[m].phase \in Forward /\ ~wsDeleted' => x = lc[s] \/ Hidden(x)

\* As long as the front-proxy's informer does not resync, what it has seen and will
\* see of the LC leads it to the destination.
THEOREM RouteInvariant ==
    ASSUME NEW m, Only(m), ~Resyncing
    PROVE  Spec => [](FeedInv(m) /\ RouteInv(m))
  \* A change of a shard's LC object is appended to its feed.
  <1>SetLCFeed.
      ASSUME Base, NEW s \in Shards, NEW x, SetLC(s, x)
      PROVE  /\ lc'[s] = x
             /\ \A t \in Shards \ {s} : lc'[t] = lc[t] /\ feed'[t] = feed[t]
             /\ feed'[s] = IF x # lc[s] THEN Append(feed[s], x) ELSE feed[s]
             /\ feed[s] \in Seq(LCObjects \cup {None}) /\ Len(feed[s]) >= 1
    <2> USE <1>SetLCFeed
    <2>1. /\ feed \in [Shards -> Seq(LCObjects \cup {None})] /\ feed[s] # <<>>
          /\ lc \in [Shards -> LCObjects \cup {None}]
      BY Zenon DEF Base, ShardType, DataType
    <2>2. PICK f : f = IF x # lc[s] THEN Append(feed[s], x) ELSE feed[s]
      OBVIOUS
    <2>3. feed' = [feed EXCEPT ![s] = f] /\ lc' = [lc EXCEPT ![s] = x]
      BY Zenon, <2>2 DEF SetLC
    <2>4. /\ feed'[s] = f /\ lc'[s] = x
          /\ \A t \in Shards \ {s} : lc'[t] = lc[t] /\ feed'[t] = feed[t]
      BY Zenon, <2>1, <2>3
    <2>5. feed[s] \in Seq(LCObjects \cup {None})
      BY Zenon, <2>1
    <2>6. PICK T, q : T = LCObjects \cup {None} /\ q = feed[s]
      OBVIOUS
    <2>7. q \in Seq(T) /\ q # <<>>
      BY Zenon, <2>1, <2>5, <2>6
    <2>8. Len(q) >= 1
      BY <2>7
    <2> QED
      BY Zenon, <2>2, <2>4, <2>5, <2>6, <2>8
  \* A shard changes its LC object in such a way.
  <1>ShowsRoute.
      ASSUME Base, FeedInv(m), RouteInv(m), NEW s \in Shards, NEW x, SetLC(s, x),
             Shows(s, m, x), UNCHANGED <<mig, route>>, wsDeleted => wsDeleted'
      PROVE  FeedInv(m)' /\ RouteInv(m)'
    <2> USE <1>ShowsRoute
    <2>1. /\ lc'[s] = x
          /\ \A t \in Shards \ {s} : lc'[t] = lc[t] /\ feed'[t] = feed[t]
          /\ feed'[s] = IF x # lc[s] THEN Append(feed[s], x) ELSE feed[s]
          /\ feed[s] \in Seq(LCObjects \cup {None}) /\ Len(feed[s]) >= 1
      BY Zenon, <1>SetLCFeed
    <2>2. CASE x = lc[s]
      <3>1. \A t \in Shards : lc'[t] = lc[t] /\ feed'[t] = feed[t]
        BY Zenon, <2>1, <2>2
      <3> QED
        BY Zenon, <3>1, HomeThere DEF FeedInv, RouteInv
    <2>3. CASE x # lc[s]
      <3>1. PICK q, r, T : q = feed[s] /\ r = feed'[s] /\ T = LCObjects \cup {None}
        OBVIOUS
      <3>2. r = Append(q, x) /\ q \in Seq(T) /\ Len(q) >= 1
        BY Zenon, <2>1, <2>3, <3>1
      <3>3. /\ Len(r) = Len(q) + 1 /\ Len(r) # 1 /\ r[Len(r)] = x
            /\ \A i \in 2..Len(r) : (i \in 2..Len(q) /\ r[i] = q[i]) \/ r[i] = x
        BY <3>2
      <3>4. s \in {Home, Dest[m]}
        BY Zenon, <2>3 DEF Shows
      <3>5. FeedInv(m)'
        BY Zenon, <2>1, <3>1, <3>3, <3>4 DEF FeedInv
      <3>6. ASSUME ~wsDeleted', mig'[m].phase \in Forward
            PROVE  /\ \A i \in 2..Len(feed'[Home]) : Hidden(feed'[Home][i])
                   /\ /\ Dest[m] \in Shards /\ Len(feed'[Dest[m]]) = 1
                      /\ lc'[Dest[m]] # None /\ lc'[Dest[m]].ann = None
                      => route' = Dest[m]
        <4>1. /\ \A i \in 2..Len(feed[Home]) : Hidden(feed[Home][i])
              /\ /\ Dest[m] \in Shards /\ Len(feed[Dest[m]]) = 1
                 /\ lc[Dest[m]] # None /\ lc[Dest[m]].ann = None
                 => route = Dest[m]
          BY Zenon, <3>6 DEF RouteInv
        <4>2. s = Home => Hidden(x)
          BY Zenon, <2>3, <3>6 DEF Shows
        <4>3. \A i \in 2..Len(feed'[Home]) : Hidden(feed'[Home][i])
          <5>1. CASE s = Home
            BY Zenon, <3>1, <3>3, <4>1, <4>2, <5>1
          <5>2. CASE s # Home
            BY Zenon, <2>1, <4>1, <5>2, HomeThere
          <5> QED
            BY Zenon, <5>1, <5>2
        <4>4. /\ Dest[m] \in Shards /\ Len(feed'[Dest[m]]) = 1
              /\ lc'[Dest[m]] # None /\ lc'[Dest[m]].ann = None
              => route' = Dest[m]
          BY Zenon, <2>1, <3>1, <3>3, <4>1
        <4> QED
          BY Zenon, <4>3, <4>4
      <3> QED
        BY Zenon, <3>5, <3>6 DEF RouteInv
    <2> QED
      BY Zenon, <2>2, <2>3
  \* Nothing happens to the LC objects, nor to the phase.
  <1>QuietRoute.
      ASSUME FeedInv(m), RouteInv(m), UNCHANGED <<lc, feed, route, wsDeleted>>,
             mig'[m].phase \in Forward => mig[m].phase \in Forward
      PROVE  FeedInv(m)' /\ RouteInv(m)'
    BY Zenon, <1>QuietRoute DEF FeedInv, RouteInv
  \* Every handler of the controller: the origin hides its LC object before the copy,
  \* and shows it again only when the migration is cancelled.
  <1>HandlersRoute.
      ASSUME Base, OrderInv(m), FeedInv(m), RouteInv(m), NEW s \in Shards,
             ~At(s, m, "idle"),
             \/ StartCancellation(s, m) \/ DetectLCDeletion(s, m) \/ Wait(s, m)
             \/ Start(s, m) \/ Prepare(s, m) \/ PrepareRegister(s, m) \/ PrepareBlock(s, m)
             \/ Migrate(s, m) \/ OriginCleanup(s, m)
             \/ DestinationFinalize(s, m) \/ DestinationRelease(s, m)
             \/ Abort(s, m) \/ RemoveFinalizer(s, m)
             \/ KeepBlocked(s, m) \/ BlockForCancellation(s, m) \/ Restore(s, m)
             \/ CancellationCleanup(s, m) \/ CancellationFinalize(s, m)
             \/ CancellationCheck(s, m) \/ CancellationRelease(s, m)
      PROVE  FeedInv(m)' /\ RouteInv(m)'
    <2> USE <1>HandlersRoute
    <2>1. UNCHANGED <<mig, route, wsDeleted>>
      BY Zenon DEF StartCancellation, DetectLCDeletion, Wait, Start, Prepare, PrepareRegister,
         PrepareBlock, Migrate, OriginCleanup, DestinationFinalize, DestinationRelease, Abort,
         RemoveFinalizer, KeepBlocked, BlockForCancellation, Restore, CancellationCleanup,
         CancellationFinalize, CancellationCheck, CancellationRelease, outside
    <2>2. /\ m \in Migrations /\ m # None /\ Dest[m] # Home
          /\ IsOrigin(s, Obj(s, m)) => s = Home
          /\ Owns(s, m, Obj(s, m).phase) =>
                Obj(s, m).phase = mig[m].phase \/ mig[m].phase \in Broken
      BY Zenon, Reads, ConstantsAssumption DEF Only
    <2>3. CASE UNCHANGED <<lc, feed>>
      BY Zenon, <2>1, <2>3, <1>QuietRoute
    <2>4. ASSUME NEW D, Wipe(s, D), s \in {Home, Dest[m]}
          PROVE  FeedInv(m)' /\ RouteInv(m)'
      <3>1. PICK x : x = (IF LCKey \in D THEN None ELSE lc[s])
        OBVIOUS
      <3>2. SetLC(s, x) /\ x \in {None, lc[s]}
        BY Zenon, <2>4, <3>1 DEF Wipe
      <3>3. Shows(s, m, x)
        BY Zenon, <2>4, <3>2 DEF Shows, Hidden
      <3> QED
        BY Zenon, <2>1, <3>2, <3>3, <1>ShowsRoute
    <2>5. ASSUME NEW x, SetLC(s, x), s = Dest[m] PROVE FeedInv(m)' /\ RouteInv(m)'
      <3>1. Shows(s, m, x)
        BY Zenon, <2>2, <2>5 DEF Shows
      <3> QED
        BY Zenon, <2>1, <2>5, <3>1, <1>ShowsRoute
    <2>6. ASSUME NEW x, SetLC(s, x), s = Home,
                 Obj(s, m).phase \in {"Restoring", "CancellationFinalize"}
          PROVE  FeedInv(m)' /\ RouteInv(m)'
      <3>1. Owns(s, m, Obj(s, m).phase)
        BY Zenon, <2>6 DEF Owns, OriginOwns
      <3>2. mig[m].phase \notin Forward
        BY Zenon, <2>2, <2>6, <3>1 DEF Forward, Broken
      <3>3. Shows(s, m, x)
        BY Zenon, <2>6, <3>2 DEF Shows
      <3> QED
        BY Zenon, <2>1, <2>6, <3>3, <1>ShowsRoute
    <2>7. CASE Prepare(s, m)
      <3>1. ASSUME SetAnnotation(s, m), lister[s].ann = None, lc[s] = lister[s], IsOrigin(s, Obj(s, m))
            PROVE  FeedInv(m)' /\ RouteInv(m)'
        <4>1. PICK x : x = [lc[s] EXCEPT !.ann = m]
          OBVIOUS
        <4>2. SetLC(s, x)
          BY Zenon, <3>1, <4>1 DEF SetAnnotation
        <4>3. Shows(s, m, x)
          <5>1. s = Home
            BY Zenon, <2>2, <3>1
          <5>2. lc[s] \in LCObjects \cup {None}
            BY Zenon DEF Base, ShardType, DataType
          <5>3. lc[s] # None => x.ann = m
            BY <4>1, <5>2 DEF LCObjects
          <5>4. lc[s] # None
            BY Zenon, <2>2, <2>7, <3>1, PrepareSees
          <5> QED
            BY Zenon, <2>2, <5>1, <5>3, <5>4 DEF Shows, Hidden
        <4> QED
          BY Zenon, <2>1, <4>2, <4>3, <1>ShowsRoute
      <3> QED
        BY Zenon, <2>3, <2>7, <3>1 DEF Prepare, Fails
    <2>8. CASE Migrate(s, m)
      <3>1. s = Dest[m]
        BY Zenon, <2>8 DEF Migrate, IsDestination
      <3>2. UNCHANGED <<lc, feed>> \/ \E x : SetLC(s, x)
        BY Zenon, <2>8 DEF Migrate, CopyPage, CopyFails, Write
      <3> QED
        BY Zenon, <2>3, <2>5, <3>1, <3>2
    <2>9. CASE OriginCleanup(s, m) \/ Abort(s, m) \/ CancellationCleanup(s, m)
      <3>1. s \in {Home, Dest[m]}
        BY Zenon, <2>2, <2>9 DEF OriginCleanup, Abort, CancellationCleanup, IsDestination
      <3>2. UNCHANGED <<lc, feed>> \/ \E D : Wipe(s, D)
        BY Zenon, <2>9 DEF OriginCleanup, Abort, CancellationCleanup, DeleteData, DeleteFails,
           Fails
      <3> QED
        BY Zenon, <2>3, <2>4, <3>1, <3>2
    <2>10. CASE DestinationFinalize(s, m) \/ BlockForCancellation(s, m)
      <3>1. s = Dest[m]
        BY Zenon, <2>10 DEF DestinationFinalize, BlockForCancellation, IsDestination
      <3>2. UNCHANGED <<lc, feed>> \/ \E x : SetLC(s, x)
        BY Zenon, <2>10 DEF DestinationFinalize, BlockForCancellation, SetAnnotation, Fails
      <3> QED
        BY Zenon, <2>3, <2>5, <3>1, <3>2
    <2>11. CASE Restore(s, m) \/ CancellationFinalize(s, m)
      <3>1. s = Home /\ Obj(s, m).phase \in {"Restoring", "CancellationFinalize"}
        BY Zenon, <2>2, <2>11 DEF Restore, CancellationFinalize, Handles
      <3>2. UNCHANGED <<lc, feed>> \/ \E x : SetLC(s, x)
        BY Zenon, <2>11 DEF Restore, CancellationFinalize, CopyPage, CopyFails, Write,
           SetAnnotation, Fails
      <3> QED
        BY Zenon, <2>3, <2>6, <3>1, <3>2
    <2>12. CASE \/ StartCancellation(s, m) \/ DetectLCDeletion(s, m) \/ Wait(s, m)
                \/ Start(s, m) \/ PrepareRegister(s, m) \/ PrepareBlock(s, m)
                \/ DestinationRelease(s, m) \/ RemoveFinalizer(s, m) \/ KeepBlocked(s, m)
                \/ CancellationCheck(s, m) \/ CancellationRelease(s, m)
      BY Zenon, <2>3, <2>12 DEF StartCancellation, DetectLCDeletion, Wait, Start, PrepareRegister,
         PrepareBlock, DestinationRelease, RemoveFinalizer, KeepBlocked, CancellationCheck,
         CancellationRelease, Fails
    <2> QED
      BY Zenon, <2>7, <2>8, <2>9, <2>10, <2>11, <2>12
  \* A commit moves on the way forward, or leaves it for good.
  <1>MovesForward.
      ASSUME NEW s, NEW p, NEW q, Moves(s, m, p, q), q \in Forward
      PROVE  p \in Forward
    BY <1>MovesForward DEF Moves, Forward, Broken
  \* The worker reads the object, and commits it.
  <1>CommitRoute.
      ASSUME Base, OrderInv(m), FeedInv(m), RouteInv(m), NEW s \in Shards,
             Get(s, m) \/ Commit(s, m)
      PROVE  FeedInv(m)' /\ RouteInv(m)'
    <2> USE <1>CommitRoute
    <2>1. UNCHANGED <<lc, feed, route, wsDeleted>>
      BY Zenon DEF Get, Commit
    <2>2. mig \in [Migrations -> MigrationObjects] /\ m \in Migrations
      BY Zenon DEF Base, MigrationInv, ObjectsInv, Only
    <2>3. CASE UNCHANGED mig
      BY Zenon, <2>1, <2>3, <1>QuietRoute
    <2>4. CASE /\ worker[s][m].pc = "commit" /\ mig[m] = worker[s][m].obj
               /\ mig' = [mig EXCEPT ![m] = worker[s][m].new]
      <3>1. mig'[m] = worker[s][m].new
        BY Zenon, <2>2, <2>4
      <3>2. Moves(s, m, mig[m].phase, mig'[m].phase)
        BY Zenon, <2>4, <3>1 DEF OrderInv, Stage
      <3> QED
        BY Zenon, <2>1, <3>2, <1>MovesForward, <1>QuietRoute
    <2> QED
      BY Zenon, <2>3, <2>4 DEF Get, Commit, At
  \* The front-proxy handles a change.
  <1>ObserveRoute.
      ASSUME Base, FeedInv(m), RouteInv(m), NEW s \in Shards, IndexObserve(s)
      PROVE  FeedInv(m)' /\ RouteInv(m)'
    <2> USE <1>ObserveRoute
    <2>1. PICK q, r, T : q = feed[s] /\ r = feed'[s] /\ T = LCObjects \cup {None}
      OBVIOUS
    <2>2. feed \in [Shards -> Seq(T)]
      BY Zenon, <2>1 DEF Base, ShardType, DataType
    <2>3. /\ r = Tail(q) /\ q \in Seq(T) /\ \A t \in Shards \ {s} : feed'[t] = feed[t]
      BY Zenon, <2>1, <2>2 DEF IndexObserve
    <2>4. Len(q) > 1
      BY Zenon, <2>1 DEF IndexObserve
    <2>5. /\ Len(r) = Len(q) - 1 /\ r[Len(r)] = q[Len(q)]
          /\ Len(r) = 1 => q[2] = q[Len(q)]
          /\ \A i \in 2..Len(r) : i + 1 \in 2..Len(q) /\ r[i] = q[i + 1]
          /\ 2 \in 2..Len(q) /\ q # <<None>>
      BY <2>3, <2>4
    <2>6. UNCHANGED <<mig, lc, wsDeleted>> /\ Index(s, q[2])
      BY Zenon, <2>1 DEF IndexObserve
    <2>7. FeedInv(m)'
      BY Zenon, <2>1, <2>3, <2>5, <2>6 DEF FeedInv
    <2>8. s \in {Home, Dest[m]} /\ Home # Dest[m]
      BY Zenon, <2>1, <2>5 DEF FeedInv, Only
    <2>9. ASSUME ~wsDeleted, mig[m].phase \in Forward
          PROVE  /\ \A i \in 2..Len(feed'[Home]) : Hidden(feed'[Home][i])
                 /\ /\ Dest[m] \in Shards /\ Len(feed'[Dest[m]]) = 1
                    /\ lc[Dest[m]] # None /\ lc[Dest[m]].ann = None
                    => route' = Dest[m]
      <3>1. /\ \A i \in 2..Len(feed[Home]) : Hidden(feed[Home][i])
            /\ /\ Dest[m] \in Shards /\ Len(feed[Dest[m]]) = 1
               /\ lc[Dest[m]] # None /\ lc[Dest[m]].ann = None
               => route = Dest[m]
        BY Zenon, <2>9 DEF RouteInv
      <3>2. CASE s = Home
        <4>1. Hidden(q[2])
          BY Zenon, <2>1, <2>5, <3>1, <3>2
        <4>2. route = Dest[m] => route' = Dest[m]
          BY Zenon, <2>6, <2>8, <3>2, <4>1 DEF Index, Hidden
        <4>3. \A i \in 2..Len(feed'[Home]) : Hidden(feed'[Home][i])
          BY Zenon, <2>1, <2>5, <3>1, <3>2
        <4> QED
          BY Zenon, <2>3, <2>8, <3>1, <3>2, <4>2, <4>3
      <3>3. CASE s = Dest[m]
        <4>1. feed'[Home] = feed[Home]
          BY Zenon, <2>3, <2>8, <3>3, HomeThere
        <4>2. Len(r) = 1 => q[2] = lc[s]
          BY Zenon, <2>1, <2>5 DEF FeedInv
        <4>3. Len(r) = 1 /\ lc[s] # None /\ lc[s].ann = None => route' = s
          BY Zenon, <2>6, <4>2 DEF Index
        <4> QED
          BY Zenon, <2>1, <3>1, <3>3, <4>1, <4>3
      <3> QED
        BY Zenon, <2>8, <3>2, <3>3
    <2> QED
      BY Zenon, <2>6, <2>7, <2>9 DEF RouteInv
  \* The steps around the controller, when the front-proxy's informer does not resync.
  <1>OtherRoute.
      ASSUME Base, FeedInv(m), RouteInv(m), ~Resyncing,
             \/ \E n \in Migrations : CreateMigration(n) \/ DeleteMigration(n) \/ Replicate(n)
             \/ \E s \in Shards : \/ Resync(s) \/ SyncLister(s) \/ IndexObserve(s) \/ IndexResync(s)
                                  \/ DeleteLC(s) \/ Restart(s)
             \/ DeleteWorkspace \/ \E k \in DataKeys : ClientStart(k)
             \/ ClientApply \/ ClientAck \/ ClientFail \/ UNCHANGED vars
      PROVE  FeedInv(m)' /\ RouteInv(m)'
    <2> USE <1>OtherRoute
    <2>1. m \in Migrations /\ mig \in [Migrations -> MigrationObjects]
      BY Zenon DEF Base, MigrationInv, ObjectsInv, Only
    <2>2. CASE UNCHANGED <<mig, lc, feed, route, wsDeleted>>
      BY Zenon, <2>2, <1>QuietRoute
    <2>3. ASSUME NEW n \in Migrations, DeleteMigration(n)
          PROVE  FeedInv(m)' /\ RouteInv(m)'
      <3>1. n = m /\ UNCHANGED <<lc, feed, route, wsDeleted>>
        BY Zenon, <2>3 DEF Only, DeleteMigration
      <3>2. mig[m] \in MigrationObjects /\ mig'[m] = [mig[m] EXCEPT !.deleting = TRUE]
        BY Zenon, <2>1, <2>3, <3>1 DEF DeleteMigration
      <3>3. mig'[m].phase = mig[m].phase
        BY <3>2 DEF MigrationObjects
      <3> QED
        BY Zenon, <3>1, <3>3, <1>QuietRoute
    <2>4. ASSUME NEW s \in Shards, DeleteLC(s)
          PROVE  FeedInv(m)' /\ RouteInv(m)'
      <3>1. PICK x : SetLC(s, x) /\ x \in {None, lc[s]}
        BY Zenon, <2>4 DEF DeleteLC, Wipe
      <3>2. x # lc[s] => s \in {Home, Dest[m]}
        <4>1. s \notin {Home, Dest[m]} => lc[s] = None
          <5> SUFFICES ASSUME s \notin {Home, Dest[m]} PROVE lc[s] = None
            OBVIOUS
          <5>1. feed[s] = <<None>> /\ feed[s][Len(feed[s])] = lc[s]
            BY Zenon DEF FeedInv
          <5> QED
            BY <5>1
        <4> QED
          BY Zenon, <3>1, <4>1
      <3>3. Shows(s, m, x)
        BY Zenon, <3>1, <3>2 DEF Shows, Hidden
      <3>4. UNCHANGED <<mig, route, wsDeleted>>
        BY Zenon, <2>4 DEF DeleteLC
      <3> QED
        BY Zenon, <3>1, <3>3, <3>4, <1>ShowsRoute
    <2>5. CASE DeleteWorkspace
      <3>1. PICK x : SetLC(route, x) /\ route # None /\ lc[route] # None
        BY Zenon, <2>5 DEF DeleteWorkspace
      <3>2. route \in Shards
        BY Zenon, <3>1 DEF Base, ShardType, RestType
      <3>3. route \in {Home, Dest[m]}
        <4> SUFFICES ASSUME route \notin {Home, Dest[m]} PROVE FALSE
          OBVIOUS
        <4>1. feed[route] = <<None>> /\ feed[route][Len(feed[route])] = lc[route]
          BY Zenon, <3>2 DEF FeedInv
        <4>2. lc[route] = None
          BY <4>1
        <4> QED
          BY Zenon, <3>1, <4>2
      <3>4. wsDeleted' /\ UNCHANGED <<mig, route>>
        BY Zenon, <2>5 DEF DeleteWorkspace
      <3>5. Shows(route, m, x)
        BY Zenon, <3>3, <3>4 DEF Shows
      <3> QED
        BY Zenon, <3>1, <3>2, <3>4, <3>5, <1>ShowsRoute
    <2> QED
      BY Zenon, <2>2, <2>3, <2>4, <2>5, <1>ObserveRoute
         DEF CreateMigration, Replicate, Resync, SyncLister, IndexResync, Restart, ClientStart,
         ClientApply, ClientAck, ClientFail, vars
  \* Every step.
  <1>NextRoute.
      ASSUME Base, OrderInv(m), FeedInv(m), RouteInv(m), ~Resyncing, [Next]_vars
      PROVE  FeedInv(m)' /\ RouteInv(m)'
    <2> USE <1>NextRoute
    <2>1. ASSUME NEW s \in Shards, NEW n \in Migrations, Reconcile(s, n)
          PROVE  FeedInv(m)' /\ RouteInv(m)'
      <3>1. Reconcile(s, m)
        BY Zenon, <2>1 DEF Only
      <3>2. CASE Get(s, m) \/ Commit(s, m)
        BY Zenon, <3>2, <1>CommitRoute
      <3>3. CASE ~(Get(s, m) \/ Commit(s, m))
        <4>1. ~At(s, m, "idle")
          BY Zenon, <3>1, <3>3 DEF Reconcile, StartCancellation, DetectLCDeletion, Wait, Start,
             Prepare, PrepareRegister, PrepareBlock, Migrate, OriginCleanup,
             DestinationFinalize, DestinationRelease, Abort, RemoveFinalizer, KeepBlocked,
             BlockForCancellation, Restore, CancellationCleanup, CancellationFinalize,
             CancellationCheck, CancellationRelease, Handles, At
        <4> QED
          BY Zenon, <3>1, <3>3, <4>1, <1>HandlersRoute DEF Reconcile
      <3> QED
        BY Zenon, <3>2, <3>3
    <2>2. CASE \/ \E n \in Migrations : CreateMigration(n) \/ DeleteMigration(n) \/ Replicate(n)
               \/ \E s \in Shards : \/ Resync(s) \/ SyncLister(s) \/ IndexObserve(s) \/ IndexResync(s)
                                    \/ DeleteLC(s) \/ Restart(s)
               \/ DeleteWorkspace \/ \E k \in DataKeys : ClientStart(k)
               \/ ClientApply \/ ClientAck \/ ClientFail \/ UNCHANGED vars
      BY Zenon, <2>2, <1>OtherRoute
    <2> QED
      BY Zenon, <2>1, <2>2 DEF Next
  \* At first the front-proxy has seen the LC object at home, and nothing elsewhere.
  <1>InitRoute.
      ASSUME Init
      PROVE  FeedInv(m) /\ RouteInv(m)
    <2> USE <1>InitRoute
    <2>1. /\ m \in Migrations /\ Dest[m] # Home /\ Home \in Shards
          /\ \A t \in Shards : feed[t] = <<lc[t]>>
          /\ \A t \in Shards \ {Home} : lc[t] = None
      BY Zenon, HomeThere DEF Init, Only
    <2>2. \A x : Len(<<x>>) = 1 /\ <<x>>[1] = x /\ 2..1 = {}
      OBVIOUS
    <2>3. FeedInv(m)
      BY Zenon, <2>1, <2>2 DEF FeedInv
    <2>4. \A i \in 2..Len(feed[Home]) : Hidden(feed[Home][i])
      BY Zenon, <2>1, <2>2
    <2> QED
      BY Zenon, <2>1, <2>3, <2>4 DEF RouteInv
  <1>1. Init => FeedInv(m) /\ RouteInv(m)
    BY <1>InitRoute
  <1>2. Base /\ OrderInv(m) /\ (FeedInv(m) /\ RouteInv(m)) /\ [Next]_vars => (FeedInv(m) /\ RouteInv(m))'
    BY <1>NextRoute
  <1> QED
    BY <1>1, <1>2, BaseInvariant, OrderInvariant, PTL DEF Spec

\* When the only migration of an LC has completed and the front-proxy has handled all
\* events, it routes to the destination.  The informers do not resync: a resync indexes
\* again the object that was handled last (UpsertLogicalCluster).
THEOREM RouteFollowsTheMigration ==
    ASSUME NEW m, Only(m), ~Resyncing
    PROVE  Spec => []RouteFollows
  <1>1. FeedInv(m) /\ RouteInv(m) /\ DataInv(m) => RouteFollows
    <2> SUFFICES ASSUME FeedInv(m), RouteInv(m), DataInv(m), ~wsDeleted, mig[m].phase = "Completed",
                        \A s \in Shards : Len(feed[s]) = 1
                 PROVE  route = Dest[m]
      BY Zenon DEF RouteFollows, Only
    <2>1. Full(Dest[m]) /\ Plain(Dest[m])
      BY Zenon DEF DataInv, Standing, Data, DestData
    <2>2. Dest[m] \in Shards /\ lc[Dest[m]] # None /\ lc[Dest[m]].ann = None
      BY Zenon, <2>1, FullIsComplete DEF Plain, Complete
    <2> QED
      BY Zenon, <2>2 DEF RouteInv, Forward
  <1> QED
    BY <1>1, RouteInvariant, DataInvariant, PTL

-----------------------------------------------------------------------------
(* What clients were told.                                                 *)

\* The phases in which the origin, and the destination, holds all of the LC.
HomeFull == {"", "Preparing", "Migrating", "CancellationCleanup", "CancellationFinalize",
             "Cancelled"}
DestinationFull == {"OriginCleanup", "DestinationFinalize", "Completed", "CancellationPreparing",
                    "Restoring"}

\* A key of shard s has the value that was acknowledged last, or a later one.
UpToDate(s, k) == etcd[s][k] >= acked[k]

\* All keys of a shard have, or those before the token c.
Current(s) == s \in Shards => \A k \in DataKeys : UpToDate(s, k)
CurrentTo(s, c) == s \in Shards => \A k \in DataKeys : k < c => UpToDate(s, k)

\* What the phase p with the token c says of the values.
Upholds(m, p, c) ==
    /\ p \in HomeFull => Current(Home)
    /\ p \in DestinationFull => Current(Dest[m])
    /\ p = "Migrating" => CurrentTo(Dest[m], c)
    /\ p = "Restoring" => CurrentTo(Home, c)

\* A request that is not cancelled is one for a key of a shard, and what it wrote is there.
AckInv ==
    /\ req.live => req.shard \in Shards /\ req.k \in DataKeys
    /\ \A k \in DataKeys : acked[k] <= written
    /\ ~wsDeleted /\ req.live /\ req.st = "applied" => etcd[req.shard][req.k] = written

\* The shards hold current values where the phase says so, and where it will say so
\* when a worker's commit succeeds.
CurrentInv(m) ==
    ~wsDeleted => /\ Upholds(m, mig[m].phase, mig[m].cont)
                  /\ \A s \in Shards : worker[s][m].pc = "commit" =>
                        Upholds(m, worker[s][m].new.phase, worker[s][m].new.cont)

\* The object new has not been moved on from o by a copy.
NoCopy(o, new) ==
    \/ new = o
    \/ /\ new.phase # "OriginCleanup"
       /\ ~(o.phase = "Restoring" /\ new.phase = "CancellationCleanup")
       /\ new.phase \in {"Migrating", "Restoring"} => new.cont = 0

\* As long as no shard restarts, the shard that the phase calls whole has every write
\* that was acknowledged.
THEOREM CurrentInvariant ==
    ASSUME NEW m, Only(m), Restartable = {}
    PROVE  Spec => []CurrentInv(m)
  \* What is said of the values depends on them only.
  <1>ValuesSame.
      ASSUME NEW p, NEW c, Upholds(m, p, c), UNCHANGED <<etcd, acked>>
      PROVE  Upholds(m, p, c)'
    BY Zenon, <1>ValuesSame DEF Upholds, Current, CurrentTo, UpToDate
  \* A shard that does not change keeps current values.
  <1>CurrentSame.
      ASSUME NEW t, etcd'[t] = etcd[t], UNCHANGED acked
      PROVE  /\ Current(t) => Current(t)'
             /\ \A c : CurrentTo(t, c) => CurrentTo(t, c)'
    BY Zenon, <1>CurrentSame DEF Current, CurrentTo, UpToDate
  \* A step from p to q that copies nothing.
  <1>MovesCurrent.
      ASSUME NEW s, NEW p, NEW q, NEW c, NEW d, Moves(s, m, p, q), Upholds(m, p, c),
             q # "OriginCleanup", ~(p = "Restoring" /\ q = "CancellationCleanup"),
             q \in {"Migrating", "Restoring"} => d = 0
      PROVE  Upholds(m, q, d)
    <2> USE <1>MovesCurrent
    <2>1. /\ q \in HomeFull => p \in HomeFull
          /\ q \in DestinationFull => p \in DestinationFull
      BY DEF Moves, HomeFull, DestinationFull, Broken
    <2>2. \A k \in DataKeys : ~(k < 0)
      BY ConstantsAssumption DEF DataKeys, Keys
    <2>3. \A t : CurrentTo(t, 0)
      BY Zenon, <2>2 DEF CurrentTo
    <2> QED
      BY Zenon, <2>1, <2>3 DEF Upholds
  \* A worker's step on shard s, where no request goes on or the data does not change.
  <1>AckStep.
      ASSUME Base, AckInv, NEW s \in Shards, UNCHANGED <<acked, written, wsDeleted>>,
             UNCHANGED req \/ StopRequests(s),
             wsDeleted \/ \A t \in Shards : etcd'[t] = etcd[t] \/ (t = s /\ ~Live(s))
      PROVE  AckInv'
    <2> USE <1>AckStep
    <2>1. req \in [st : {"none", "admitted", "applied"}, shard : Shards \cup {None},
                   k : DataKeys \cup {None}, read : Values \cup {None}, live : BOOLEAN]
      BY Zenon DEF Base, ShardType, GateType
    <2>2. StopRequests(s) => /\ req'.shard = req.shard /\ req'.k = req.k /\ req'.st = req.st
                             /\ req'.live => req.live /\ req.shard # s
      BY <2>1 DEF StopRequests
    <2>3. req'.shard = req.shard /\ req'.k = req.k /\ req'.st = req.st /\ (req'.live => req.live)
      BY Zenon, <2>2
    <2>4. req'.live /\ ~wsDeleted => etcd'[req.shard] = etcd[req.shard]
      BY Zenon, <2>2, <2>3 DEF AckInv, Live
    <2> QED
      BY Zenon, <2>3, <2>4 DEF AckInv
  \* A step of a worker keeps the values current where the phases say so, if the phase
  \* that holds and the one the worker leaves are right afterwards, and the data is
  \* left alone or no other worker is about to commit.
  <1>CurrentStep.
      ASSUME Base, CurrentInv(m), NEW s \in Shards,
             NEW x, Acts(s, m, x), UNCHANGED <<mig, acked, wsDeleted>>,
             Upholds(m, mig[m].phase, mig[m].cont)',
             x.pc = "commit" => Upholds(m, x.new.phase, x.new.cont)',
             UNCHANGED etcd \/ \A t \in Shards \ {s} : worker[t][m].pc # "commit"
      PROVE  CurrentInv(m)'
    <2> USE <1>CurrentStep
    <2>1. worker'[s][m] = x /\ \A t \in Shards \ {s} : worker'[t][m] = worker[t][m]
      BY Zenon, ActsFacts DEF Only
    <2>2. ASSUME NEW t \in Shards, worker'[t][m].pc = "commit", ~wsDeleted
          PROVE  Upholds(m, worker[t][m].new.phase, worker[t][m].new.cont)'
      <3>1. CASE t = s
        BY Zenon, <2>1, <2>2, <3>1
      <3>2. CASE t # s
        <4>1. worker'[t][m] = worker[t][m] /\ UNCHANGED etcd
          BY Zenon, <2>1, <2>2, <3>2
        <4>2. Upholds(m, worker[t][m].new.phase, worker[t][m].new.cont)
          BY Zenon, <2>2, <4>1 DEF CurrentInv
        <4>3. PICK p, c : p = worker[t][m].new.phase /\ c = worker[t][m].new.cont
          OBVIOUS
        <4>4. Upholds(m, p, c)'
          BY Zenon, <4>1, <4>2, <4>3, <1>ValuesSame
        <4> QED
          BY Zenon, <4>1, <4>3, <4>4
      <3> QED
        BY Zenon, <3>1, <3>2
    <2> QED
      BY Zenon, <2>2 DEF CurrentInv
  \* The data is left alone.
  <1>QuietHolds.
      ASSUME CurrentInv(m), ~wsDeleted, UNCHANGED <<mig, etcd, acked>>
      PROVE  Upholds(m, mig[m].phase, mig[m].cont)'
    <2> USE <1>QuietHolds
    <2>1. PICK p, c : p = mig[m].phase /\ c = mig[m].cont
      OBVIOUS
    <2>2. Upholds(m, p, c)
      BY Zenon, <2>1 DEF CurrentInv
    <2>3. Upholds(m, p, c)'
      BY Zenon, <2>2, <1>ValuesSame
    <2> QED
      BY Zenon, <2>1, <2>3
  \* A handler that leaves the data alone goes on.
  <1>GotoCurrent.
      ASSUME Base, CurrentInv(m), ~wsDeleted, NEW s \in Shards,
             NEW p, p # "commit", Goto(s, m, p), UNCHANGED <<mig, etcd, acked, wsDeleted>>
      PROVE  CurrentInv(m)'
    <2> USE <1>GotoCurrent
    <2>0. m \in Migrations
      BY Zenon DEF Only
    <2>1. PICK x : Acts(s, m, x) /\ x.pc = p /\ x.obj = Obj(s, m)
      BY Zenon, <2>0, GotoActs
    <2>2. Upholds(m, mig[m].phase, mig[m].cont)'
      BY Zenon, <1>QuietHolds
    <2> QED
      BY Zenon, <2>1, <2>2, <1>CurrentStep
  \* A handler that leaves the data alone returns.
  <1>ReturnCurrent.
      ASSUME Base, OrderInv(m), OrderInv(m)', DataInv(m), DataInv(m)', CurrentInv(m),
             ~wsDeleted, NEW s \in Shards, ~At(s, m, "idle"),
             NEW new, NEW rq, Return(s, m, new, rq), UNCHANGED <<mig, etcd, acked, wsDeleted>>,
             NoCopy(Obj(s, m), new)
      PROVE  CurrentInv(m)'
    <2> USE <1>ReturnCurrent
    <2>1. m \in Migrations
      BY Zenon DEF Only
    <2>2. Upholds(m, mig[m].phase, mig[m].cont)'
      BY Zenon, <1>QuietHolds
    <2>3. Idle.pc = "idle"
      BY DEF Idle
    <2>4. CASE new = Obj(s, m)
      <3>1. Acts(s, m, Idle)
        BY Zenon, <2>3, <2>4 DEF Acts, Return
      <3> QED
        BY Zenon, <2>2, <2>3, <3>1, <1>CurrentStep
    <2>5. CASE new # Obj(s, m)
      <3>1. PICK x : /\ Acts(s, m, x)
                     /\ \/ x = Idle /\ new = Obj(s, m)
                        \/ x.pc = "commit" /\ x.obj = Obj(s, m) /\ x.new = new
        BY Zenon, <2>1, ReturnActs
      <3>2. worker'[s][m] = x /\ x.pc = "commit" /\ x.obj = Obj(s, m) /\ x.new = new
        BY Zenon, <2>1, <2>5, <3>1, ActsFacts
      <3>3. Moves(s, m, Obj(s, m).phase, new.phase) /\ new.phase \notin Broken
        <4>1. Stage(s, m, worker[s][m])' /\ Does(s, m, worker[s][m])'
          BY Zenon DEF OrderInv, DataInv
        <4>2. Moves(s, m, x.obj.phase, x.new.phase)
          BY Zenon, <3>2, <4>1 DEF Stage
        <4>3. x.new.phase \notin Broken
          BY Zenon, <3>2, <4>1 DEF Does, Data
        <4> QED
          BY Zenon, <3>2, <4>2, <4>3
      <3>4. Owns(s, m, Obj(s, m).phase)
        BY Zenon, <3>3 DEF Moves, Owns, OriginOwns, DestinationOwns, Broken
      <3>5. Obj(s, m).phase = mig[m].phase
        BY Zenon, <3>4, Alone
      <3>6. Upholds(m, mig[m].phase, mig[m].cont)
        BY Zenon DEF CurrentInv
      <3>7. PICK p, q, c, d : p = mig[m].phase /\ q = new.phase /\ c = mig[m].cont /\ d = new.cont
        OBVIOUS
      <3>8. Upholds(m, q, d)
        <4>1. /\ q # "OriginCleanup" /\ ~(p = "Restoring" /\ q = "CancellationCleanup")
              /\ q \in {"Migrating", "Restoring"} => d = 0
          BY Zenon, <2>5, <3>5, <3>7 DEF NoCopy
        <4>2. Moves(s, m, p, q) /\ Upholds(m, p, c)
          BY Zenon, <3>3, <3>5, <3>6, <3>7
        <4> QED
          BY Zenon, <4>1, <4>2, <1>MovesCurrent
      <3>9. Upholds(m, q, d)'
        BY Zenon, <3>8, <1>ValuesSame
      <3> QED
        BY Zenon, <2>2, <3>1, <3>2, <3>7, <3>9, <1>CurrentStep
    <2> QED
      BY Zenon, <2>4, <2>5
  \* The handlers that leave the data alone.
  <1>QuietCurrent.
      ASSUME Base, OrderInv(m), OrderInv(m)', DataInv(m), DataInv(m)', CurrentInv(m),
             ~wsDeleted, NEW s \in Shards, ~At(s, m, "idle"),
             \/ StartCancellation(s, m) \/ DetectLCDeletion(s, m) \/ Wait(s, m)
             \/ Start(s, m) \/ Prepare(s, m) \/ PrepareRegister(s, m) \/ PrepareBlock(s, m)
             \/ DestinationFinalize(s, m) \/ DestinationRelease(s, m) \/ RemoveFinalizer(s, m)
             \/ KeepBlocked(s, m) \/ BlockForCancellation(s, m) \/ CancellationFinalize(s, m)
             \/ CancellationCheck(s, m) \/ CancellationRelease(s, m)
      PROVE  CurrentInv(m)'
    <2> USE <1>QuietCurrent
    <2>1. UNCHANGED <<mig, etcd, acked, wsDeleted>>
      BY Zenon DEF StartCancellation, DetectLCDeletion, Wait, Start, Prepare, PrepareRegister,
         PrepareBlock, DestinationFinalize, DestinationRelease, RemoveFinalizer, KeepBlocked,
         BlockForCancellation, CancellationFinalize, CancellationCheck, CancellationRelease,
         Fails, outside
    <2>2. PICK o : o = Obj(s, m)
      OBVIOUS
    <2>3. o \in MigrationObjects /\ ObjOK(o)
      BY Zenon, <2>2, Reads
    <2>4. ASSUME NEW p, p # "commit", Goto(s, m, p) PROVE CurrentInv(m)'
      BY Zenon, <2>1, <2>4, <1>GotoCurrent
    <2>5. ASSUME NEW new, NEW rq, Return(s, m, new, rq), NoCopy(o, new) PROVE CurrentInv(m)'
      BY Zenon, <2>1, <2>2, <2>5, <1>ReturnCurrent
    <2>6. ASSUME NEW rq, Return(s, m, o, rq) PROVE CurrentInv(m)'
      BY Zenon, <2>5, <2>6 DEF NoCopy
    <2>7. ASSUME NEW rq, NEW p, p \in {"Aborting", "Failed", "Completed", "Cancelled"},
                 Return(s, m, [o EXCEPT !.phase = p], rq)
          PROVE  CurrentInv(m)'
      <3>1. NoCopy(o, [o EXCEPT !.phase = p])
        BY <2>3, <2>7 DEF NoCopy, MigrationObjects
      <3> QED
        BY Zenon, <2>5, <2>7, <3>1
    <2>8. CASE StartCancellation(s, m)
      <3>1. PICK new, rq : /\ Return(s, m, new, rq)
                           /\ new = [o EXCEPT !.cont = 0,
                                !.origin = IF o.phase \in {"", "Preparing"} THEN s ELSE @,
                                !.phase = CASE o.phase \in {"", "Preparing"} -> "CancellationFinalize"
                                            [] o.phase = "Migrating" -> "CancellationCleanup"
                                            [] OTHER -> "CancellationPreparing"]
        BY Zenon, <2>2, <2>8 DEF StartCancellation
      <3>2. NoCopy(o, new)
        BY <2>3, <3>1 DEF NoCopy, MigrationObjects
      <3> QED
        BY Zenon, <2>5, <3>1, <3>2
    <2>9. CASE DetectLCDeletion(s, m)
      BY Zenon, <2>2, <2>7, <2>9 DEF DetectLCDeletion
    <2>10. CASE Start(s, m)
      <3>1. o.phase = "" /\ \E rq : Return(s, m, IF o.fin THEN [o EXCEPT !.phase = "Preparing"]
                                                          ELSE [o EXCEPT !.fin = TRUE], rq)
        BY Zenon, <2>2, <2>10 DEF Start, Handles
      <3>2. PICK new, rq : Return(s, m, new, rq)
                           /\ (new = [o EXCEPT !.phase = "Preparing"] \/ new = [o EXCEPT !.fin = TRUE])
        BY Zenon, <3>1
      <3>3. NoCopy(o, new)
        BY <2>3, <3>1, <3>2 DEF NoCopy, MigrationObjects
      <3> QED
        BY Zenon, <2>5, <3>2, <3>3
    <2>11. CASE Prepare(s, m)
      <3>1. o.phase = "Preparing"
        BY Zenon, <2>2, <2>11 DEF Prepare, Handles
      <3>2. NoCopy(o, [o EXCEPT !.origin = s]) /\ NoCopy(o, [o EXCEPT !.phase = "Failed"])
        BY <2>3, <3>1 DEF NoCopy, MigrationObjects
      <3>3. \/ \E rq : Return(s, m, [o EXCEPT !.origin = s], rq)
            \/ \E rq : Return(s, m, [o EXCEPT !.phase = "Failed"], rq)
            \/ \E rq : Return(s, m, o, rq)
            \/ Goto(s, m, "register")
        BY Zenon, <2>2, <2>11 DEF Prepare, Fails
      <3> QED
        BY Zenon, <2>4, <2>5, <2>6, <3>2, <3>3
    <2>12. CASE PrepareBlock(s, m)
      <3>1. o.phase = "Preparing" /\ \E rq : Return(s, m, [o EXCEPT !.phase = "Migrating"], rq)
        BY Zenon, <2>2, <2>12 DEF PrepareBlock, OrderInv, Stage, At, Obj
      <3>2. o.cont = 0
        BY Zenon, <2>3, <3>1 DEF ObjOK, Broken
      <3>3. NoCopy(o, [o EXCEPT !.phase = "Migrating"])
        BY <2>3, <3>2 DEF NoCopy, MigrationObjects
      <3> QED
        BY Zenon, <2>5, <3>1, <3>3
    <2>13. CASE RemoveFinalizer(s, m)
      <3>1. PICK new, rq : /\ Return(s, m, new, rq) /\ new = [o EXCEPT !.fin = FALSE]
                           /\ o.phase \in {"Completed", "Cancelled", "Failed"}
        BY Zenon, <2>2, <2>13 DEF RemoveFinalizer
      <3>2. NoCopy(o, new)
        BY <2>3, <3>1 DEF NoCopy, MigrationObjects
      <3> QED
        BY Zenon, <2>5, <3>1, <3>2
    <2>14. CASE BlockForCancellation(s, m)
      <3>1. o.phase \in {"CancellationPreparing", "Restoring"}
        BY Zenon, <2>2, <2>14 DEF BlockForCancellation
      <3>2. o.cont = 0 \/ o.phase = "Restoring"
        BY Zenon, <2>3, <3>1 DEF ObjOK, Broken
      <3>3. NoCopy(o, [o EXCEPT !.phase = "Restoring"])
        BY <2>3, <3>2 DEF NoCopy, MigrationObjects
      <3>4. \E new, rq : Return(s, m, new, rq) /\ new \in {o, [o EXCEPT !.phase = "Restoring"]}
        BY Zenon, <2>2, <2>14 DEF BlockForCancellation, Fails
      <3> QED
        BY Zenon, <2>5, <2>6, <3>3, <3>4
    <2>15. CASE Wait(s, m) \/ KeepBlocked(s, m)
      BY Zenon, <2>2, <2>6, <2>15 DEF Wait, KeepBlocked, Fails
    <2>16. CASE PrepareRegister(s, m) \/ CancellationCheck(s, m)
      BY Zenon, <2>2, <2>4, <2>6, <2>16 DEF PrepareRegister, CancellationCheck
    <2>17. CASE DestinationFinalize(s, m) \/ DestinationRelease(s, m)
      <3>1. \/ \E rq : Return(s, m, o, rq) \/ Return(s, m, [o EXCEPT !.phase = "Completed"], rq)
            \/ Goto(s, m, "finalize")
        BY Zenon, <2>2, <2>17 DEF DestinationFinalize, DestinationRelease, Fails
      <3> QED
        BY Zenon, <2>4, <2>6, <2>7, <3>1
    <2>18. CASE CancellationFinalize(s, m) \/ CancellationRelease(s, m)
      <3>1. \/ \E rq : Return(s, m, o, rq) \/ Return(s, m, [o EXCEPT !.phase = "Cancelled"], rq)
            \/ Goto(s, m, "check")
        BY Zenon, <2>2, <2>18 DEF CancellationFinalize, CancellationRelease, Fails
      <3> QED
        BY Zenon, <2>4, <2>6, <2>7, <3>1
    <2> QED
      BY Zenon, <2>8, <2>9, <2>10, <2>11, <2>12, <2>13, <2>14, <2>15, <2>16, <2>17, <2>18
  \* What is written from a shard whose values are current is current.
  <1>WriteCurrent.
      ASSUME Base, NEW s \in Shards, NEW src \in Shards, Current(src), NEW P, Write(s, src, P),
             UNCHANGED acked
      PROVE  /\ \A t \in Shards \ {s} : etcd'[t] = etcd[t]
             /\ \A k \in DataKeys : k \in P \/ UpToDate(s, k) => UpToDate(s, k)'
    <2> USE <1>WriteCurrent
    <2>1. etcd \in [Shards -> [DataKeys -> Values \cup {None}]]
      BY Zenon DEF Base, ShardType, DataType
    <2>2. /\ \A k \in DataKeys : etcd'[s][k] = IF k \in P THEN etcd[src][k] ELSE etcd[s][k]
          /\ \A t \in Shards \ {s} : etcd'[t] = etcd[t]
      BY Zenon, <2>1 DEF Write
    <2> QED
      BY Zenon, <2>2 DEF Current, UpToDate
  \* copyPageFromOrigin: the values before the next token are current.
  <1>PageCurrent.
      ASSUME Base, NEW s \in Shards, NEW src, Full(src), Current(src), UNCHANGED acked,
             NEW c \in Nat, c = Obj(s, m).cont, CurrentTo(s, c),
             NEW p, CopyPage(s, m, src, p)
      PROVE  /\ \A t \in Shards \ {s} : etcd'[t] = etcd[t]
             /\ CurrentTo(s, c)'
             /\ p.next = 0 => Current(s)'
             /\ p.next # 0 => CurrentTo(s, p.next)'
    <2> USE <1>PageCurrent
    <2>1. Write(s, src, p.keys) /\ p \in Pages(src, c) /\ src \in Shards
      BY Zenon DEF CopyPage, Full
    <2>2. /\ \A t \in Shards \ {s} : etcd'[t] = etcd[t]
          /\ \A k \in DataKeys : k \in p.keys \/ UpToDate(s, k) => UpToDate(s, k)'
      BY Zenon, <2>1, <1>WriteCurrent
    <2>3. \A k \in DataKeys : ~(k < c) /\ (p.next = 0 \/ k < p.next) => k \in p.keys
      BY Zenon, <2>1, PageCovers, Presence
    <2>4. \A k \in DataKeys : k < c => UpToDate(s, k)'
      BY Zenon, <2>2 DEF CurrentTo
    <2>5. \A k \in DataKeys : p.next = 0 \/ k < p.next => UpToDate(s, k)'
      BY Zenon, <2>2, <2>3, <2>4
    <2> QED
      BY Zenon, <2>2, <2>4, <2>5 DEF Current, CurrentTo
  \* copyPageFromOrigin fails: a part of a page is current.
  <1>CopyFailsCurrent.
      ASSUME Base, NEW s \in Shards, NEW src \in Shards, Current(src), UNCHANGED acked,
             NEW c, CurrentTo(s, c), CopyFails(s, m, src)
      PROVE  /\ \A t \in Shards \ {s} : etcd'[t] = etcd[t]
             /\ CurrentTo(s, c)'
    <2> USE <1>CopyFailsCurrent
    <2>1. CASE UNCHANGED <<etcd, lc, feed, faults>>
      BY Zenon, <2>1 DEF CurrentTo, UpToDate
    <2>2. ASSUME NEW P, Write(s, src, P)
          PROVE  (\A t \in Shards \ {s} : etcd'[t] = etcd[t]) /\ CurrentTo(s, c)'
      <3>1. /\ \A t \in Shards \ {s} : etcd'[t] = etcd[t]
            /\ \A k \in DataKeys : k \in P \/ UpToDate(s, k) => UpToDate(s, k)'
        BY Zenon, <2>2, <1>WriteCurrent
      <3> QED
        BY Zenon, <3>1 DEF CurrentTo
    <2> QED
      BY Zenon, <2>1, <2>2 DEF CopyFails
  \* A handler of the owner returns, having changed the data of its shard.
  <1>OwnerCurrent.
      ASSUME Base, OrderInv(m), DataInv(m), CurrentInv(m),
             ~wsDeleted, NEW s \in Shards, ~At(s, m, "idle"), Owns(s, m, Obj(s, m).phase),
             UNCHANGED <<mig, acked, wsDeleted>>,
             NEW new, NEW rq, Return(s, m, new, rq),
             Upholds(m, mig[m].phase, mig[m].cont)',
             new = Obj(s, m) \/ Upholds(m, new.phase, new.cont)'
      PROVE  CurrentInv(m)'
    <2> USE <1>OwnerCurrent
    <2>1. m \in Migrations
      BY Zenon DEF Only
    <2>2. PICK x : /\ Acts(s, m, x)
                   /\ \/ x = Idle /\ new = Obj(s, m)
                      \/ x.pc = "commit" /\ x.obj = Obj(s, m) /\ x.new = new
      BY Zenon, <2>1, ReturnActs
    <2>3. \A t \in Shards \ {s} : worker[t][m].pc # "commit"
      BY Zenon, Alone
    <2>4. Idle.pc = "idle"
      BY DEF Idle
    <2>5. CASE new = Obj(s, m)
      <3>1. Acts(s, m, Idle)
        BY Zenon, <2>4, <2>5 DEF Acts, Return
      <3> QED
        BY Zenon, <2>3, <2>4, <3>1, <1>CurrentStep
    <2>6. CASE new # Obj(s, m)
      BY Zenon, <2>2, <2>3, <2>6, <1>CurrentStep
    <2> QED
      BY Zenon, <2>5, <2>6
  \* reconcileMigrating.
  <1>MigrateCurrent.
      ASSUME Base, OrderInv(m), DataInv(m), CurrentInv(m), ~wsDeleted,
             NEW s \in Shards, Migrate(s, m)
      PROVE  CurrentInv(m)'
    <2> USE <1>MigrateCurrent
    <2>1. PICK o : o = Obj(s, m)
      OBVIOUS
    <2>2. /\ ~At(s, m, "idle") /\ UNCHANGED <<mig, acked, wsDeleted>>
          /\ o.phase = "Migrating" /\ s = Dest[m]
      BY Zenon, <2>1, AtReconcile DEF Migrate, Handles, outside, IsDestination
    <2>3. Owns(s, m, Obj(s, m).phase)
      BY Zenon, <2>1, <2>2 DEF Owns, DestinationOwns
    <2>4. /\ o \in MigrationObjects /\ ObjOK(o) /\ Data(m, o.phase, o.cont)
          /\ mig[m].phase = o.phase /\ mig[m].cont = o.cont
      BY Zenon, <2>1, <2>2, <2>3, OwnerReads
    <2>5. Upholds(m, o.phase, o.cont)
      BY Zenon, <2>4 DEF CurrentInv
    <2>6. /\ Full(Home) /\ Home \in Shards /\ Home # s
          /\ Current(Home) /\ CurrentTo(s, o.cont)
      BY Zenon, <2>2, <2>4, <2>5, HomeThere DEF Data, HomeData, Upholds, HomeFull, Only
    <2>7. o.cont \in Nat
      <3>1. o.cont \in 0..NumKeys
        BY Zenon, <2>4 DEF MigrationObjects
      <3> QED
        BY <3>1
    <2>8. ASSUME \A t \in Shards \ {s} : etcd'[t] = etcd[t], CurrentTo(s, o.cont)'
          PROVE  Current(Home)' /\ Upholds(m, o.phase, o.cont)'
      <3>1. Current(Home)'
        BY Zenon, <2>2, <2>6, <2>8, <1>CurrentSame
      <3> QED
        BY Zenon, <2>2, <2>8, <3>1 DEF Upholds, DestinationFull
    <2>9. ASSUME NEW new, NEW rq, Return(s, m, new, rq), Upholds(m, o.phase, o.cont)',
                 new = o \/ Upholds(m, new.phase, new.cont)'
          PROVE  CurrentInv(m)'
      <3>1. Upholds(m, mig[m].phase, mig[m].cont)'
        BY Zenon, <2>2, <2>4, <2>9
      <3> QED
        BY Zenon, <2>1, <2>2, <2>3, <2>9, <3>1, <1>OwnerCurrent
    <2>10. CASE CopyFails(s, m, Home)
      <3>1. (\A t \in Shards \ {s} : etcd'[t] = etcd[t]) /\ CurrentTo(s, o.cont)'
        BY Zenon, <2>2, <2>6, <2>10, <1>CopyFailsCurrent
      <3>2. Return(s, m, o, TRUE)
        BY Zenon, <2>1, <2>10 DEF CopyFails
      <3> QED
        BY Zenon, <2>8, <2>9, <3>1, <3>2
    <2>11. ASSUME NEW p, CopyPage(s, m, Home, p),
                  Return(s, m, [o EXCEPT !.cont = p.next, !.copied = p.next = 0,
                                         !.phase = IF p.next = 0 THEN "OriginCleanup" ELSE o.phase],
                         p.next # 0)
           PROVE  CurrentInv(m)'
      <3>1. /\ \A t \in Shards \ {s} : etcd'[t] = etcd[t]
            /\ CurrentTo(s, o.cont)'
            /\ p.next = 0 => Current(s)'
            /\ p.next # 0 => CurrentTo(s, p.next)'
        BY Zenon, <2>1, <2>2, <2>6, <2>7, <2>11, <1>PageCurrent
      <3>2. PICK new : new = [o EXCEPT !.cont = p.next, !.copied = p.next = 0,
                                !.phase = IF p.next = 0 THEN "OriginCleanup" ELSE o.phase]
        OBVIOUS
      <3>3. new.cont = p.next /\ new.phase = IF p.next = 0 THEN "OriginCleanup" ELSE "Migrating"
        BY <2>2, <2>4, <3>2 DEF MigrationObjects
      <3>4. Current(Home)' /\ Upholds(m, o.phase, o.cont)'
        BY Zenon, <2>8, <3>1
      <3>5. Upholds(m, new.phase, new.cont)'
        <4>1. CASE p.next = 0
          BY Zenon, <2>2, <3>1, <3>3, <4>1 DEF Upholds, HomeFull
        <4>2. CASE p.next # 0
          <5>1. new.phase = "Migrating" /\ CurrentTo(s, new.cont)'
            BY Zenon, <3>1, <3>3, <4>2
          <5> QED
            BY Zenon, <2>2, <3>4, <5>1 DEF Upholds, DestinationFull
        <4> QED
          BY Zenon, <4>1, <4>2
      <3>6. \E rq : Return(s, m, new, rq)
        BY Zenon, <2>11, <3>2
      <3> QED
        BY Zenon, <2>9, <3>4, <3>5, <3>6
    <2>12. o.origin = Home
      BY Zenon, <2>2, <2>4 DEF ObjOK, Broken
    <2> QED
      BY Zenon, <2>1, <2>10, <2>11, <2>12 DEF Migrate
  \* reconcileRestoring.
  <1>RestoreCurrent.
      ASSUME Base, OrderInv(m), DataInv(m), CurrentInv(m), ~wsDeleted,
             NEW s \in Shards, Restore(s, m)
      PROVE  CurrentInv(m)'
    <2> USE <1>RestoreCurrent
    <2>1. PICK o : o = Obj(s, m)
      OBVIOUS
    <2>2. ~At(s, m, "idle") /\ UNCHANGED <<mig, acked, wsDeleted>> /\ o.phase = "Restoring"
      BY Zenon, <2>1, AtReconcile DEF Restore, Handles, outside
    <2>3. s = Home
      BY Zenon, <2>1, <2>2, Reads DEF Restore
    <2>4. Owns(s, m, Obj(s, m).phase)
      BY Zenon, <2>1, <2>2, <2>3 DEF Owns, OriginOwns
    <2>5. /\ o \in MigrationObjects /\ Data(m, o.phase, o.cont)
          /\ mig[m].phase = o.phase /\ mig[m].cont = o.cont
      BY Zenon, <2>1, <2>2, <2>4, OwnerReads
    <2>6. Upholds(m, o.phase, o.cont)
      BY Zenon, <2>5 DEF CurrentInv
    <2>7. /\ Full(Dest[m]) /\ Dest[m] \in Shards /\ Dest[m] # s
          /\ Current(Dest[m]) /\ CurrentTo(s, o.cont)
      BY Zenon, <2>2, <2>3, <2>5, <2>6
         DEF Data, DestData, Upholds, DestinationFull, Only, Full
    <2>8. o.cont \in Nat
      <3>1. o.cont \in 0..NumKeys
        BY Zenon, <2>5 DEF MigrationObjects
      <3> QED
        BY <3>1
    <2>9. ASSUME \A t \in Shards \ {s} : etcd'[t] = etcd[t], CurrentTo(s, o.cont)'
          PROVE  Current(Dest[m])' /\ Upholds(m, o.phase, o.cont)'
      <3>1. Current(Dest[m])'
        BY Zenon, <2>2, <2>7, <2>9, <1>CurrentSame
      <3> QED
        BY Zenon, <2>2, <2>3, <2>9, <3>1 DEF Upholds, HomeFull
    <2>10. ASSUME NEW new, NEW rq, Return(s, m, new, rq), Upholds(m, o.phase, o.cont)',
                  new = o \/ Upholds(m, new.phase, new.cont)'
           PROVE  CurrentInv(m)'
      <3>1. Upholds(m, mig[m].phase, mig[m].cont)'
        BY Zenon, <2>2, <2>5, <2>10
      <3> QED
        BY Zenon, <2>1, <2>2, <2>4, <2>10, <3>1, <1>OwnerCurrent
    <2>11. CASE Fails(s, m)
      <3>1. (\A t \in Shards \ {s} : etcd'[t] = etcd[t]) /\ CurrentTo(s, o.cont)'
        BY Zenon, <2>2, <2>7, <2>11 DEF Fails, CurrentTo, UpToDate
      <3>2. Return(s, m, o, TRUE)
        BY Zenon, <2>1, <2>11 DEF Fails
      <3> QED
        BY Zenon, <2>9, <2>10, <3>1, <3>2
    <2>12. CASE CopyFails(s, m, Dest[m])
      <3>1. (\A t \in Shards \ {s} : etcd'[t] = etcd[t]) /\ CurrentTo(s, o.cont)'
        BY Zenon, <2>2, <2>7, <2>12, <1>CopyFailsCurrent
      <3>2. Return(s, m, o, TRUE)
        BY Zenon, <2>1, <2>12 DEF CopyFails
      <3> QED
        BY Zenon, <2>9, <2>10, <3>1, <3>2
    <2>13. ASSUME NEW p, CopyPage(s, m, Dest[m], p),
                  Return(s, m, [o EXCEPT !.cont = p.next,
                                         !.phase = IF p.next = 0 THEN "CancellationCleanup"
                                                                 ELSE o.phase], TRUE)
           PROVE  CurrentInv(m)'
      <3>1. /\ \A t \in Shards \ {s} : etcd'[t] = etcd[t]
            /\ CurrentTo(s, o.cont)'
            /\ p.next = 0 => Current(s)'
            /\ p.next # 0 => CurrentTo(s, p.next)'
        BY Zenon, <2>1, <2>2, <2>7, <2>8, <2>13, <1>PageCurrent
      <3>2. PICK new : new = [o EXCEPT !.cont = p.next,
                                !.phase = IF p.next = 0 THEN "CancellationCleanup" ELSE o.phase]
        OBVIOUS
      <3>3. new.cont = p.next /\ new.phase = IF p.next = 0 THEN "CancellationCleanup" ELSE "Restoring"
        BY <2>2, <2>5, <3>2 DEF MigrationObjects
      <3>4. Current(Dest[m])' /\ Upholds(m, o.phase, o.cont)'
        BY Zenon, <2>9, <3>1
      <3>5. Upholds(m, new.phase, new.cont)'
        <4>1. CASE p.next = 0
          BY Zenon, <2>3, <3>1, <3>3, <4>1 DEF Upholds, DestinationFull
        <4>2. CASE p.next # 0
          <5>1. new.phase = "Restoring" /\ CurrentTo(s, new.cont)'
            BY Zenon, <3>1, <3>3, <4>2
          <5> QED
            BY Zenon, <2>3, <3>4, <5>1 DEF Upholds, HomeFull
        <4> QED
          BY Zenon, <4>1, <4>2
      <3>6. \E rq : Return(s, m, new, rq)
        BY Zenon, <2>13, <3>2
      <3> QED
        BY Zenon, <2>10, <3>4, <3>5, <3>6
    <2> QED
      BY Zenon, <2>1, <2>11, <2>12, <2>13 DEF Restore
  \* What a shard deletes leaves the other shard's values alone.
  <1>WipeElsewhere.
      ASSUME Base, NEW s \in Shards, NEW D, Wipe(s, D)
      PROVE  \A t \in Shards \ {s} : etcd'[t] = etcd[t]
    <2> USE <1>WipeElsewhere
    <2>1. etcd \in [Shards -> [DataKeys -> Values \cup {None}]]
      BY Zenon DEF Base, ShardType, DataType
    <2> QED
      BY Zenon, <2>1 DEF Wipe
  \* reconcileOriginCleanup and reconcileCancellationCleanup: the other shard has the
  \* values.
  <1>CleanupCurrent.
      ASSUME Base, OrderInv(m), DataInv(m), CurrentInv(m), ~wsDeleted,
             NEW s \in Shards, OriginCleanup(s, m) \/ CancellationCleanup(s, m)
      PROVE  CurrentInv(m)'
    <2> USE <1>CleanupCurrent
    <2>1. PICK o : o = Obj(s, m)
      OBVIOUS
    <2>2. ~At(s, m, "idle") /\ UNCHANGED <<mig, acked, wsDeleted>>
      BY Zenon, AtReconcile DEF OriginCleanup, CancellationCleanup, Handles, outside
    <2>3. \/ s = Home /\ o.phase = "OriginCleanup" /\ OriginCleanup(s, m)
          \/ s = Dest[m] /\ o.phase = "CancellationCleanup" /\ CancellationCleanup(s, m)
      <3>1. OriginCleanup(s, m) => s = Home /\ o.phase = "OriginCleanup"
        BY Zenon, <2>1, <2>2, Reads DEF OriginCleanup, Handles
      <3>2. CancellationCleanup(s, m) => s = Dest[m] /\ o.phase = "CancellationCleanup"
        BY Zenon, <2>1 DEF CancellationCleanup, Handles, IsDestination
      <3> QED
        BY Zenon, <3>1, <3>2
    <2>4. Owns(s, m, Obj(s, m).phase)
      BY Zenon, <2>1, <2>3 DEF Owns, OriginOwns, DestinationOwns
    <2>5. /\ o \in MigrationObjects /\ mig[m].phase = o.phase /\ mig[m].cont = o.cont
      BY Zenon, <2>1, <2>2, <2>4, OwnerReads
    <2>6. Upholds(m, o.phase, o.cont) /\ Dest[m] # Home
      BY Zenon, <2>5 DEF CurrentInv, Only
    <2>7. UNCHANGED etcd \/ \E D : Wipe(s, D)
      BY Zenon DEF OriginCleanup, CancellationCleanup, DeleteData, DeleteFails, Fails
    <2>8. \A t \in Shards \ {s} : etcd'[t] = etcd[t]
      BY Zenon, <2>7, <1>WipeElsewhere
    <2>9. PICK new, rq : /\ Return(s, m, new, rq)
                         /\ \/ new = o
                            \/ /\ s = Home
                               /\ new = [o EXCEPT !.originCleaned = TRUE, !.phase = "DestinationFinalize"]
                            \/ s = Dest[m] /\ new = [o EXCEPT !.phase = "CancellationFinalize"]
      BY Zenon, <2>1, <2>3 DEF OriginCleanup, CancellationCleanup, DeleteFails, Fails
    <2>10. \/ new = o
           \/ s = Home /\ new.phase = "DestinationFinalize"
           \/ s = Dest[m] /\ new.phase = "CancellationFinalize"
      BY <2>5, <2>9 DEF MigrationObjects
    <2>11. CASE s = Home /\ o.phase = "OriginCleanup"
      <3>1. Current(Dest[m])'
        <4>1. Dest[m] \in Shards => etcd'[Dest[m]] = etcd[Dest[m]]
          BY Zenon, <2>6, <2>8, <2>11
        <4>2. Current(Dest[m])
          BY Zenon, <2>6, <2>11 DEF Upholds, DestinationFull
        <4> QED
          BY Zenon, <2>2, <4>1, <4>2 DEF Current, UpToDate
      <3>2. Upholds(m, mig[m].phase, mig[m].cont)'
        BY Zenon, <2>2, <2>5, <2>11, <3>1 DEF Upholds, HomeFull
      <3>3. new = o \/ Upholds(m, new.phase, new.cont)'
        BY Zenon, <2>6, <2>10, <2>11, <3>1 DEF Upholds, HomeFull
      <3> QED
        BY Zenon, <2>1, <2>2, <2>4, <2>9, <3>2, <3>3, <1>OwnerCurrent
    <2>12. CASE s = Dest[m] /\ o.phase = "CancellationCleanup"
      <3>1. Current(Home)'
        <4>1. Current(Home)
          BY Zenon, <2>6, <2>12 DEF Upholds, HomeFull
        <4> QED
          BY Zenon, <2>2, <2>6, <2>8, <2>12, <4>1 DEF Current, UpToDate
      <3>2. Upholds(m, mig[m].phase, mig[m].cont)'
        BY Zenon, <2>2, <2>5, <2>12, <3>1 DEF Upholds, DestinationFull
      <3>3. new = o \/ Upholds(m, new.phase, new.cont)'
        BY Zenon, <2>6, <2>10, <2>12, <3>1 DEF Upholds, DestinationFull
      <3> QED
        BY Zenon, <2>1, <2>2, <2>4, <2>9, <3>2, <3>3, <1>OwnerCurrent
    <2> QED
      BY Zenon, <2>3, <2>11, <2>12
  \* The values stay, the phase does, and nobody starts to commit.
  <1>AroundCurrent.
      ASSUME CurrentInv(m), wsDeleted => wsDeleted',
             mig'[m].phase = mig[m].phase, mig'[m].cont = mig[m].cont,
             \A t \in Shards : worker'[t][m] = worker[t][m] \/ worker'[t][m].pc \in {"idle", "reconcile"},
             \A p, c : \/ p # mig[m].phase
                          /\ \A t \in Shards : worker[t][m].pc # "commit" \/ p # worker[t][m].new.phase
                       \/ Upholds(m, p, c) => Upholds(m, p, c)'
      PROVE  CurrentInv(m)'
    <2> USE <1>AroundCurrent
    <2> SUFFICES ASSUME ~wsDeleted' PROVE CurrentInv(m)'
      BY Zenon DEF CurrentInv
    <2>1. ~wsDeleted
      OBVIOUS
    <2>2. Upholds(m, mig[m].phase, mig[m].cont)'
      <3>1. PICK p, c : p = mig[m].phase /\ c = mig[m].cont
        OBVIOUS
      <3>2. Upholds(m, p, c)
        BY Zenon, <2>1, <3>1 DEF CurrentInv
      <3>3. Upholds(m, p, c)'
        BY Zenon, <3>1, <3>2
      <3> QED
        BY Zenon, <3>1, <3>3
    <2>3. ASSUME NEW t \in Shards, worker'[t][m].pc = "commit"
          PROVE  Upholds(m, worker[t][m].new.phase, worker[t][m].new.cont)'
      <3>1. worker'[t][m] = worker[t][m]
        BY Zenon, <2>3
      <3>2. PICK p, c : p = worker[t][m].new.phase /\ c = worker[t][m].new.cont
        OBVIOUS
      <3>3. Upholds(m, p, c)
        BY Zenon, <2>1, <2>3, <3>1, <3>2 DEF CurrentInv
      <3>4. Upholds(m, p, c)'
        BY Zenon, <2>3, <3>1, <3>2, <3>3
      <3> QED
        BY Zenon, <3>1, <3>2, <3>4
    <2> QED
      BY Zenon, <2>2, <2>3 DEF CurrentInv
  \* The worker reads the object, and commits it.
  <1>CommitCurrent.
      ASSUME Base, CurrentInv(m), NEW s \in Shards, Get(s, m) \/ Commit(s, m)
      PROVE  CurrentInv(m)'
    <2> USE <1>CommitCurrent
    <2>1. /\ worker \in [Shards -> [Migrations -> Workers]] /\ m \in Migrations
          /\ mig \in [Migrations -> MigrationObjects]
      BY Zenon DEF Base, MigrationInv, WorkersInv, ObjectsInv, Only
    <2>2. UNCHANGED <<etcd, acked, wsDeleted>>
      BY Zenon DEF Get, Commit
    <2>3. \A p, c : Upholds(m, p, c) => Upholds(m, p, c)'
      BY Zenon, <2>2, <1>ValuesSame
    <2>4. \A t \in Shards : worker'[t][m] = worker[t][m] \/ worker'[t][m].pc \in {"idle", "reconcile"}
      <3>1. PICK x : x = [worker[s][m] EXCEPT !.pc = "reconcile", !.obj = mig[m]]
        OBVIOUS
      <3>2. x.pc = "reconcile" /\ Idle.pc = "idle"
        BY <2>1, <3>1 DEF Workers, Idle
      <3>3. UNCHANGED worker \/ \E y \in {x, Idle} : worker' = [worker EXCEPT ![s][m] = y]
        BY Zenon, <2>1, <3>1 DEF Get, Commit
      <3> QED
        BY Zenon, <2>1, <3>2, <3>3
    <2>5. CASE UNCHANGED mig
      BY Zenon, <2>2, <2>3, <2>4, <2>5, <1>AroundCurrent
    <2>6. CASE worker[s][m].pc = "commit" /\ mig' = [mig EXCEPT ![m] = worker[s][m].new]
      <3> SUFFICES ASSUME ~wsDeleted PROVE CurrentInv(m)'
        BY Zenon, <2>2 DEF CurrentInv
      <3>1. mig'[m] = worker[s][m].new
        BY Zenon, <2>1, <2>6
      <3>2. PICK p, c : p = worker[s][m].new.phase /\ c = worker[s][m].new.cont
        OBVIOUS
      <3>3. Upholds(m, p, c)'
        BY Zenon, <2>3, <2>6, <3>2 DEF CurrentInv
      <3>4. Upholds(m, mig[m].phase, mig[m].cont)'
        BY Zenon, <3>1, <3>2, <3>3
      <3>5. ASSUME NEW t \in Shards, worker'[t][m].pc = "commit"
            PROVE  Upholds(m, worker[t][m].new.phase, worker[t][m].new.cont)'
        <4>1. worker'[t][m] = worker[t][m]
          BY Zenon, <2>4, <3>5
        <4>2. PICK q, d : q = worker[t][m].new.phase /\ d = worker[t][m].new.cont
          OBVIOUS
        <4>3. Upholds(m, q, d)'
          BY Zenon, <2>3, <3>5, <4>1, <4>2 DEF CurrentInv
        <4> QED
          BY Zenon, <4>1, <4>2, <4>3
      <3> QED
        BY Zenon, <3>4, <3>5 DEF CurrentInv
    <2> QED
      BY Zenon, <2>5, <2>6 DEF Get, Commit, At
  \* Every step of a worker.
  <1>ReconcileCurrent.
      ASSUME Base, OrderInv(m), OrderInv(m)', DataInv(m), DataInv(m)', CurrentInv(m),
             ~wsDeleted, NEW s \in Shards, Reconcile(s, m)
      PROVE  CurrentInv(m)'
    <2> USE <1>ReconcileCurrent
    <2>1. CASE Get(s, m) \/ Commit(s, m)
      BY Zenon, <2>1, <1>CommitCurrent
    <2>2. CASE Migrate(s, m) \/ Restore(s, m) \/ OriginCleanup(s, m) \/ CancellationCleanup(s, m)
      BY Zenon, <2>2, <1>MigrateCurrent, <1>RestoreCurrent, <1>CleanupCurrent
    <2>3. CASE Abort(s, m)
      BY Zenon, <2>3, AbortData
    <2>4. CASE \/ StartCancellation(s, m) \/ DetectLCDeletion(s, m) \/ Wait(s, m)
               \/ Start(s, m) \/ Prepare(s, m) \/ PrepareRegister(s, m) \/ PrepareBlock(s, m)
               \/ DestinationFinalize(s, m) \/ DestinationRelease(s, m) \/ RemoveFinalizer(s, m)
               \/ KeepBlocked(s, m) \/ BlockForCancellation(s, m) \/ CancellationFinalize(s, m)
               \/ CancellationCheck(s, m) \/ CancellationRelease(s, m)
      <3>1. ~At(s, m, "idle")
        BY Zenon, <2>4 DEF StartCancellation, DetectLCDeletion, Wait, Start, Prepare,
           PrepareRegister, PrepareBlock, DestinationFinalize, DestinationRelease,
           RemoveFinalizer, KeepBlocked, BlockForCancellation, CancellationFinalize,
           CancellationCheck, CancellationRelease, Handles, At
      <3> QED
        BY Zenon, <2>4, <3>1, <1>QuietCurrent
    <2> QED
      BY Zenon, <2>1, <2>2, <2>3, <2>4 DEF Reconcile
  \* A worker's step changes the data only of a shard on which no request goes on.
  <1>ReconcileAck.
      ASSUME Base, OrderInv(m), DataInv(m), ShutInv(m), AckInv,
             NEW s \in Shards, Reconcile(s, m)
      PROVE  AckInv'
    <2> USE <1>ReconcileAck
    <2>1. UNCHANGED <<acked, written, wsDeleted>>
      BY Zenon DEF Reconcile, Get, StartCancellation, DetectLCDeletion, Wait, Start, Prepare,
         PrepareRegister, PrepareBlock, Migrate, OriginCleanup, DestinationFinalize,
         DestinationRelease, Abort, RemoveFinalizer, KeepBlocked, BlockForCancellation, Restore,
         CancellationCleanup, CancellationFinalize, CancellationCheck, CancellationRelease,
         Commit, outside
    <2>2. UNCHANGED req \/ StopRequests(s)
      BY Zenon, ReconcileRequests
    <2>3. ASSUME ~wsDeleted, ~(UNCHANGED etcd)
          PROVE  ~Live(s) /\ \A t \in Shards \ {s} : etcd'[t] = etcd[t]
      <3>1. Migrate(s, m) \/ Restore(s, m) \/ OriginCleanup(s, m) \/ CancellationCleanup(s, m)
        BY Zenon, <2>3, AbortData DEF Reconcile, Get, StartCancellation, DetectLCDeletion, Wait,
           Start, Prepare, PrepareRegister, PrepareBlock, DestinationFinalize, DestinationRelease,
           RemoveFinalizer, KeepBlocked, BlockForCancellation, CancellationFinalize,
           CancellationCheck, CancellationRelease, Commit, Fails
      <3>2. ~At(s, m, "idle")
        BY Zenon, <3>1 DEF Migrate, Restore, OriginCleanup, CancellationCleanup, Handles, At
      <3>3. PICK p : p = Obj(s, m).phase
        OBVIOUS
      <3>4. \/ s = Home /\ p \in {"OriginCleanup", "Restoring"}
            \/ s = Dest[m] /\ p \in {"Migrating", "CancellationCleanup"}
        <4>1. OriginCleanup(s, m) \/ Restore(s, m) => s = Home /\ p \in {"OriginCleanup", "Restoring"}
          BY Zenon, <3>2, <3>3, Reads DEF OriginCleanup, Restore, Handles
        <4>2. /\ Migrate(s, m) \/ CancellationCleanup(s, m)
              => s = Dest[m] /\ p \in {"Migrating", "CancellationCleanup"}
          BY Zenon, <3>3 DEF Migrate, CancellationCleanup, Handles, IsDestination
        <4> QED
          BY Zenon, <3>1, <4>1, <4>2
      <3>5. Owns(s, m, Obj(s, m).phase)
        BY Zenon, <3>3, <3>4 DEF Owns, OriginOwns, DestinationOwns
      <3>6. mig[m].phase = p
        BY Zenon, <2>3, <3>2, <3>3, <3>5, Alone
      <3>7. Closed(s, m)
        BY Zenon, <3>4, <3>6 DEF ShutInv, HomeShut, DestinationShut
      <3>8. (\E D : Wipe(s, D)) \/ (\E src, P : Write(s, src, P))
        BY Zenon, <2>3, <3>1 DEF Migrate, Restore, OriginCleanup, CancellationCleanup, DeleteData,
           DeleteFails, CopyPage, CopyFails, Fails
      <3>9. etcd \in [Shards -> [DataKeys -> Values \cup {None}]]
        BY Zenon DEF Base, ShardType, DataType
      <3>10. \A t \in Shards \ {s} : etcd'[t] = etcd[t]
        BY Zenon, <3>8, <3>9 DEF Wipe, Write
      <3> QED
        BY Zenon, <3>7, <3>10 DEF Closed
    <2> QED
      BY Zenon, <2>1, <2>2, <2>3, <1>AckStep
  \* A client's write replaces a value by one that is newer than all that were acknowledged.
  <1>ApplyCurrent.
      ASSUME Base, AckInv, RequestInv, ClientApply, NEW p, NEW c, Upholds(m, p, c)
      PROVE  Upholds(m, p, c)'
    <2> USE <1>ApplyCurrent
    <2>1. /\ etcd \in [Shards -> [DataKeys -> Values \cup {None}]]
          /\ req.shard \in Shards /\ req.k \in DataKeys
          /\ etcd' = [etcd EXCEPT ![req.shard][req.k] = written]
          /\ UNCHANGED acked
      BY Zenon DEF ClientApply, RequestInv, Base, ShardType, DataType
    <2>2. written >= acked[req.k]
      BY <2>1 DEF AckInv, Base, ShardType, RestType, Values
    <2>3. ASSUME NEW t \in Shards, NEW k \in DataKeys, UpToDate(t, k)
          PROVE  UpToDate(t, k)'
      <3>1. CASE t = req.shard /\ k = req.k
        <4>1. etcd'[t][k] = written
          BY Zenon, <2>1, <3>1
        <4> QED
          BY Zenon, <2>1, <2>2, <3>1, <4>1 DEF UpToDate
      <3>2. CASE t # req.shard \/ k # req.k
        <4>1. etcd'[t][k] = etcd[t][k]
          BY Zenon, <2>1, <3>2
        <4> QED
          BY Zenon, <2>1, <2>3, <4>1 DEF UpToDate
      <3> QED
        BY Zenon, <3>1, <3>2
    <2>4. ASSUME NEW t PROVE /\ Current(t) => Current(t)'
                             /\ CurrentTo(t, c) => CurrentTo(t, c)'
      BY Zenon, <2>3 DEF Current, CurrentTo
    <2> QED
      BY Zenon, <2>4 DEF Upholds
  \* In each phase at most one of the two shards admits requests, and it holds the
  \* current values.
  <1>OneSide.
      ASSUME NEW p
      PROVE  /\ p \in HomeFull => p \in DestinationShut
             /\ p \in DestinationFull => p \in HomeShut
             /\ p \in {"Migrating", "Restoring"} => p \in HomeShut /\ p \in DestinationShut
    BY <1>OneSide DEF HomeFull, DestinationFull, HomeShut, DestinationShut
  \* A client is told of a write: it is on the shard that must be current.
  <1>AckCurrent.
      ASSUME Base, AckInv, ~wsDeleted, ClientAck, NEW p, NEW c, Upholds(m, p, c),
             req.shard \in {Home, Dest[m]},
             p \in HomeShut => Closed(Home, m),
             p \in DestinationShut => Closed(Dest[m], m)
      PROVE  Upholds(m, p, c)'
    <2> USE <1>AckCurrent
    <2>1. /\ req.st = "applied" /\ req.live /\ req.shard \in Shards /\ req.k \in DataKeys
          /\ acked \in [DataKeys -> Values] /\ acked' = [acked EXCEPT ![req.k] = written]
          /\ etcd[req.shard][req.k] = written /\ UNCHANGED etcd
      BY Zenon DEF ClientAck, AckInv, Base, ShardType, RestType
    <2>2. written >= written
      BY DEF Base, ShardType, RestType
    <2>3. ASSUME NEW k \in DataKeys, UpToDate(req.shard, k)
          PROVE  etcd'[req.shard][k] >= acked'[k]
      <3>1. CASE k = req.k
        <4>1. acked'[k] = written /\ etcd'[req.shard][k] = written
          BY Zenon, <2>1, <3>1
        <4> QED
          BY Zenon, <2>2, <4>1
      <3>2. CASE k # req.k
        <4>1. acked'[k] = acked[k]
          BY Zenon, <2>1, <3>2
        <4> QED
          BY Zenon, <2>1, <2>3, <4>1 DEF UpToDate
      <3> QED
        BY Zenon, <3>1, <3>2
    <2>4. PICK t : t = req.shard
      OBVIOUS
    <2>5. t \in Shards /\ t \in {Home, Dest[m]} /\ Live(t)
      BY Zenon, <2>1, <2>4 DEF Live
    <2>6. Current(t) => Current(t)'
      BY Zenon, <2>3, <2>4, <2>5 DEF Current, UpToDate
    <2>7. /\ p \in HomeFull => t = Home
          /\ p \in DestinationFull => t = Dest[m]
          /\ p \notin {"Migrating", "Restoring"}
      BY Zenon, <2>5, <1>OneSide DEF Closed
    <2> QED
      BY Zenon, <2>6, <2>7 DEF Upholds
  \* The shards that a commit will have closed are closed.
  <1>CommitCloses.
      ASSUME Base, OrderInv(m), DataInv(m), ShutInv(m), ~wsDeleted,
             NEW t \in Shards, worker[t][m].pc = "commit"
      PROVE  /\ worker[t][m].new.phase \in HomeShut => Closed(Home, m)
             /\ worker[t][m].new.phase \in DestinationShut => Closed(Dest[m], m)
    <2> USE <1>CommitCloses
    <2>1. PICK p, q : p = mig[m].phase /\ q = worker[t][m].new.phase
      OBVIOUS
    <2>2. Moves(t, m, p, q)
      BY Zenon, <2>1, Committer
    <2>3. /\ q \in HomeShut => p \in HomeShut \/ (t = Home /\ q = "Migrating")
          /\ q \in DestinationShut => p \in DestinationShut \/ (t = Dest[m] /\ q = "Restoring")
      BY Zenon, <2>2, MovesShut
    <2>4. Shuts(t, m, worker[t][m])
      BY Zenon DEF ShutInv
    <2>5. /\ t = Home /\ q = "Migrating" => Closed(Home, m)
          /\ t = Dest[m] /\ q = "Restoring" => Closed(Dest[m], m)
      BY Zenon, <2>1, <2>4 DEF Shuts
    <2> QED
      BY Zenon, <2>1, <2>3, <2>5 DEF ShutInv
  \* The steps around the controller keep account of the request, when no shard restarts.
  <1>OtherAck.
      ASSUME Base, DataInv(m), AckInv, RequestInv, Restartable = {},
             \/ \E n \in Migrations : CreateMigration(n) \/ DeleteMigration(n) \/ Replicate(n)
             \/ \E s \in Shards : \/ Resync(s) \/ SyncLister(s) \/ IndexObserve(s) \/ IndexResync(s)
                                  \/ DeleteLC(s) \/ Restart(s)
             \/ DeleteWorkspace \/ \E k \in DataKeys : ClientStart(k)
             \/ ClientApply \/ ClientAck \/ ClientFail \/ UNCHANGED vars
      PROVE  AckInv'
    <2> USE <1>OtherAck
    <2>1. CASE UNCHANGED <<etcd, req, acked, written>> /\ (wsDeleted => wsDeleted')
      BY Zenon, <2>1 DEF AckInv
    <2>2. ASSUME NEW s \in Shards, DeleteLC(s) PROVE AckInv'
      <3>1. wsDeleted /\ UNCHANGED <<req, acked, written, wsDeleted>>
        BY Zenon, <2>2, DeleteLCData DEF DeleteLC
      <3> QED
        BY Zenon, <3>1 DEF AckInv
    <2>3. CASE ClientAck \/ ClientFail
      <3>1. req' = NoRequest /\ ~NoRequest.live /\ UNCHANGED written
        BY <2>3 DEF ClientAck, ClientFail, NoRequest
      <3>2. \A k \in DataKeys : acked'[k] <= written
        BY <2>3 DEF ClientAck, ClientFail, AckInv, Base, ShardType, RestType, Values
      <3> QED
        BY Zenon, <3>1, <3>2 DEF AckInv
    <2>4. ASSUME NEW k \in DataKeys, ClientStart(k) PROVE AckInv'
      <3>1. route \in Shards
        BY Zenon, <2>4 DEF ClientStart, Base, ShardType, RestType
      <3>2. req'.shard = route /\ req'.k = k /\ req'.st = "admitted"
        BY <2>4 DEF ClientStart
      <3>3. \A j \in DataKeys : acked'[j] <= written'
        BY <2>4 DEF ClientStart, AckInv, Base, ShardType, RestType, Values
      <3> QED
        BY Zenon, <2>4, <3>1, <3>2, <3>3 DEF AckInv
    <2>5. CASE ClientApply
      <3>1. /\ req'.shard = req.shard /\ req'.k = req.k
            /\ req.shard \in Shards /\ req.k \in DataKeys /\ UNCHANGED <<acked, written>>
        BY <2>5 DEF ClientApply, RequestInv, Base, ShardType, GateType
      <3>2. etcd'[req.shard][req.k] = written
        BY Zenon, <2>5, <3>1 DEF ClientApply, Base, ShardType, DataType
      <3> QED
        BY Zenon, <3>1, <3>2 DEF AckInv
    <2>6. ASSUME NEW n \in Migrations, CreateMigration(n) \/ DeleteMigration(n) \/ Replicate(n)
          PROVE  AckInv'
      BY Zenon, <2>1, <2>6 DEF CreateMigration, DeleteMigration, Replicate
    <2>7. ASSUME NEW s \in Shards, Resync(s) \/ SyncLister(s) \/ IndexObserve(s) \/ IndexResync(s)
          PROVE  AckInv'
      BY Zenon, <2>1, <2>7 DEF Resync, SyncLister, IndexObserve, IndexResync
    <2>8. CASE DeleteWorkspace
      <3>1. UNCHANGED <<etcd, req, acked, written>>
        BY Zenon, <2>8 DEF DeleteWorkspace
      <3>2. wsDeleted'
        BY <2>8 DEF DeleteWorkspace
      <3> QED
        BY Zenon, <2>1, <3>1, <3>2
    <2>9. CASE UNCHANGED vars
      BY Zenon, <2>1, <2>9 DEF vars
    <2>10. ~\E s \in Shards : Restart(s)
      BY Zenon DEF Restart
    <2> QED
      BY Zenon, <2>2, <2>3, <2>4, <2>5, <2>6, <2>7, <2>8, <2>9, <2>10
  \* And the values where they are.
  <1>OtherCurrent.
      ASSUME Base, OrderInv(m), DataInv(m), ShutInv(m), AckInv, RequestInv,
             CurrentInv(m), Restartable = {}, ~wsDeleted,
             \/ \E n \in Migrations : CreateMigration(n) \/ DeleteMigration(n) \/ Replicate(n)
             \/ \E s \in Shards : \/ Resync(s) \/ SyncLister(s) \/ IndexObserve(s) \/ IndexResync(s)
                                  \/ DeleteLC(s) \/ Restart(s)
             \/ DeleteWorkspace \/ \E k \in DataKeys : ClientStart(k)
             \/ ClientApply \/ ClientAck \/ ClientFail \/ UNCHANGED vars
      PROVE  CurrentInv(m)'
    <2> USE <1>OtherCurrent
    <2>1. m \in Migrations /\ mig \in [Migrations -> MigrationObjects]
      BY Zenon DEF Base, MigrationInv, ObjectsInv, Only
    <2>2. UNCHANGED worker
      BY Zenon DEF CreateMigration, DeleteMigration, Replicate, Resync, SyncLister, IndexObserve,
         IndexResync, DeleteLC, Restart, DeleteWorkspace, ClientStart, ClientApply, ClientAck,
         ClientFail, vars
    <2>3. mig'[m].phase = mig[m].phase /\ mig'[m].cont = mig[m].cont
      <3>1. CASE UNCHANGED mig
        BY Zenon, <3>1
      <3>2. ASSUME NEW n \in Migrations, DeleteMigration(n)
            PROVE  mig'[m].phase = mig[m].phase /\ mig'[m].cont = mig[m].cont
        <4>1. n = m
          BY Zenon DEF Only
        <4>2. mig[m] \in MigrationObjects /\ mig'[m] = [mig[m] EXCEPT !.deleting = TRUE]
          BY Zenon, <2>1, <3>2, <4>1 DEF DeleteMigration
        <4> QED
          BY <4>2 DEF MigrationObjects
      <3> QED
        BY Zenon, <3>1, <3>2 DEF CreateMigration, Replicate, Resync, SyncLister, IndexObserve,
           IndexResync, DeleteLC, Restart, DeleteWorkspace, ClientStart, ClientApply, ClientAck,
           ClientFail, vars
    <2>4. CASE UNCHANGED <<etcd, acked>>
      <3>1. \A p, c : Upholds(m, p, c) => Upholds(m, p, c)'
        BY Zenon, <2>4, <1>ValuesSame
      <3> QED
        BY Zenon, <2>2, <2>3, <3>1, <1>AroundCurrent
    <2>5. CASE ClientApply
      <3>1. \A p, c : Upholds(m, p, c) => Upholds(m, p, c)'
        BY Zenon, <2>5, <1>ApplyCurrent
      <3> QED
        BY Zenon, <2>2, <2>3, <3>1, <1>AroundCurrent
    <2>6. CASE ClientAck
      <3>1. req.shard \in {Home, Dest[m]}
        BY Zenon, <2>6 DEF ClientAck, AckInv, ShutInv, Live
      <3>2. ASSUME NEW p, NEW c, Upholds(m, p, c),
                   p = mig[m].phase \/ \E t \in Shards : worker[t][m].pc = "commit" /\ p = worker[t][m].new.phase
            PROVE  Upholds(m, p, c)'
        <4>1. /\ p \in HomeShut => Closed(Home, m)
              /\ p \in DestinationShut => Closed(Dest[m], m)
          <5>1. CASE p = mig[m].phase
            BY Zenon, <5>1 DEF ShutInv
          <5>2. ASSUME NEW t \in Shards, worker[t][m].pc = "commit", p = worker[t][m].new.phase
                PROVE  /\ p \in HomeShut => Closed(Home, m)
                       /\ p \in DestinationShut => Closed(Dest[m], m)
            BY Zenon, <5>2, <1>CommitCloses
          <5> QED
            BY Zenon, <3>2, <5>1, <5>2
        <4> QED
          BY Zenon, <2>6, <3>1, <3>2, <4>1, <1>AckCurrent
      <3> QED
        BY Zenon, <2>2, <2>3, <3>2, <1>AroundCurrent
    <2>7. ASSUME NEW s \in Shards, DeleteLC(s) PROVE CurrentInv(m)'
      BY Zenon, <2>7, DeleteLCData
    <2> QED
      BY Zenon, <2>4, <2>5, <2>6, <2>7
         DEF CreateMigration, DeleteMigration, Replicate, Resync, SyncLister, IndexObserve,
         IndexResync, Restart, DeleteWorkspace, ClientStart, ClientFail, vars
  \* Every step keeps the values current.
  <1>NextCurrent.
      ASSUME Base, OrderInv(m), OrderInv(m)', ShutInv(m), RequestInv,
             DataInv(m), DataInv(m)', AckInv, CurrentInv(m), Restartable = {}, [Next]_vars
      PROVE  AckInv' /\ CurrentInv(m)'
    <2> USE <1>NextCurrent
    <2>1. ASSUME NEW s \in Shards, NEW n \in Migrations, Reconcile(s, n)
          PROVE  AckInv' /\ (~wsDeleted => CurrentInv(m)')
      <3>1. Reconcile(s, m)
        BY Zenon, <2>1 DEF Only
      <3> QED
        BY Zenon, <3>1, <1>ReconcileAck, <1>ReconcileCurrent
    <2>2. ASSUME \/ \E n \in Migrations : CreateMigration(n) \/ DeleteMigration(n) \/ Replicate(n)
                 \/ \E s \in Shards : \/ Resync(s) \/ SyncLister(s) \/ IndexObserve(s) \/ IndexResync(s)
                                      \/ DeleteLC(s) \/ Restart(s)
                 \/ DeleteWorkspace \/ \E k \in DataKeys : ClientStart(k)
                 \/ ClientApply \/ ClientAck \/ ClientFail \/ UNCHANGED vars
          PROVE  AckInv' /\ (~wsDeleted => CurrentInv(m)')
      <3>1. AckInv'
        BY Zenon, <2>2, <1>OtherAck
      <3>2. ~wsDeleted => CurrentInv(m)'
        BY Zenon, <2>2, <1>OtherCurrent
      <3> QED
        BY Zenon, <3>1, <3>2
    <2>3. AckInv' /\ (~wsDeleted => CurrentInv(m)')
      BY Zenon, <2>1, <2>2 DEF Next
    <2>4. wsDeleted => CurrentInv(m)'
      BY Zenon, StaysDeleted DEF CurrentInv
    <2> QED
      BY Zenon, <2>3, <2>4
  \* At first nothing was acknowledged but what is at home.
  <1>InitCurrent.
      ASSUME Init
      PROVE  AckInv /\ CurrentInv(m)
    <2> USE <1>InitCurrent
    <2>1. /\ Home \in Shards /\ mig[m] = NewMigration /\ req = NoRequest /\ written = 0
          /\ \A t \in Shards : worker[t][m] = Idle
      BY Zenon, HomeThere DEF Init, Only
    <2>2. Idle.pc = "idle" /\ NewMigration.phase = "" /\ ~NoRequest.live
      BY DEF Idle, NewMigration, NoRequest
    <2>3. \A k \in DataKeys : etcd[Home][k] = 0 /\ acked[k] = 0
      BY Zenon, <2>1 DEF Init
    <2>4. 0 >= 0 /\ 0 <= 0
      OBVIOUS
    <2>5. Current(Home)
      BY Zenon, <2>3, <2>4 DEF Current, UpToDate
    <2>6. Upholds(m, mig[m].phase, mig[m].cont)
      BY Zenon, <2>1, <2>2, <2>5 DEF Upholds, DestinationFull
    <2>7. AckInv
      BY Zenon, <2>1, <2>2, <2>3, <2>4 DEF AckInv
    <2> QED
      BY Zenon, <2>1, <2>2, <2>6, <2>7 DEF CurrentInv
  <1>1. Init => AckInv /\ CurrentInv(m)
    BY <1>InitCurrent
  <1>2. /\ Base /\ OrderInv(m) /\ OrderInv(m)' /\ ShutInv(m) /\ RequestInv /\ DataInv(m) /\ DataInv(m)'
        /\ AckInv /\ CurrentInv(m) /\ [Next]_vars
        => AckInv' /\ CurrentInv(m)'
    BY <1>NextCurrent
  <1> QED
    BY <1>1, <1>2, BaseInvariant, RequestInvariant, OrderInvariant, ShutInvariant, DataInvariant,
       PTL DEF Spec

\* The shard that serves clients has every write that was acknowledged, whatever the
\* only migration of the LC does, as long as no shard restarts: none slips in behind
\* the copy between the filter's check and the cancellation of the request contexts
\* (reconcilePreparing).
THEOREM ServedIsCurrent ==
    ASSUME NEW m, Only(m), Restartable = {}
    PROVE  Spec => []ServedDataIsCurrent
  <1>1. ShutInv(m) /\ DataInv(m) /\ CurrentInv(m) /\ OrderInv(m) /\ Base => ServedDataIsCurrent
    <2> SUFFICES ASSUME ShutInv(m), DataInv(m), CurrentInv(m), Base, NEW s \in Shards, Serves(s),
                        ~wsDeleted, NEW k \in DataKeys
                 PROVE  etcd[s][k] # None /\ etcd[s][k] >= acked[k]
      BY Zenon DEF ServedDataIsCurrent
    <2>1. m # None /\ m \in Migrations
      BY Zenon, ConstantsAssumption DEF Only
    <2>2. ~Closed(s, m) /\ s \in {Home, Dest[m]}
      BY Zenon, <2>1 DEF Serves, Closed, ShutInv
    <2>3. PICK p, c : p = mig[m].phase /\ c = mig[m].cont
      OBVIOUS
    <2>4. p \in Phases
      BY <2>1, <2>3 DEF Base, MigrationInv, ObjectsInv, MigrationObjects
    <2>5. Data(m, p, c) /\ Upholds(m, p, c)
      BY Zenon, <2>3 DEF DataInv, Standing, CurrentInv
    <2>6. /\ s = Home => p \notin HomeShut
          /\ s = Dest[m] => p \notin DestinationShut
      BY Zenon, <2>2, <2>3 DEF ShutInv
    <2>7. p \notin Broken
      BY Zenon, <2>5 DEF Data
    <2>8. /\ s = Home => p \in HomeFull
          /\ s = Dest[m] => p \in DestinationFull
      BY <2>4, <2>6, <2>7 DEF Phases, HomeShut, DestinationShut, HomeFull, DestinationFull, Broken
    <2>9. Full(s)
      BY Zenon, <2>2, <2>5, <2>8 DEF Data, HomeData, DestData, HomeFull, DestinationFull
    <2>10. etcd[s][k] # None
      BY Zenon, <2>9, FullIsComplete DEF Complete
    <2>11. Current(s)
      BY Zenon, <2>2, <2>5, <2>8 DEF Upholds
    <2> QED
      BY Zenon, <2>10, <2>11 DEF Current, UpToDate
  <1> QED
    BY <1>1, BaseInvariant, OrderInvariant, ShutInvariant, DataInvariant, CurrentInvariant, PTL

=============================================================================
