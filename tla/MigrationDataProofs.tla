------------------------ MODULE MigrationDataProofs -------------------------
(***************************************************************************)
(* Where the data of an LC is while its only migration moves it, for any   *)
(* number of shards and keys and any bounds: DataInv holds until the       *)
(* workspace is deleted.  From it follow DataNeverLost, EndsSettled and    *)
(* AbortOnlyAfterDeletion.                                                 *)
(*                                                                         *)
(* The proof of DataInvariant has a step for what each building block of   *)
(* the handlers does to the data, then one for every handler, then what    *)
(* goes on around the workers.                                             *)
(***************************************************************************)
EXTENDS MigrationProofs

-----------------------------------------------------------------------------
(* Where the data is.                                                      *)

\* What a shard holds of the LC: all of it, nothing, the keys before c.
Full(s) == s \in Shards /\ \A k \in Keys : k \in Present(s)
Empty(s) == s \in Shards => Present(s) = {}
Holds(s, c) == s \in Shards => \A k \in Keys : k < c => k \in Present(s)

\* A shard admits requests for the LC; its LC object carries no annotation.
Free(s) == s \in Shards => registry[s] = None /\ ~blocked[s]
Plain(s) == s \in Shards => lc[s].ann = None

\* What the phase p with the token c says of the origin, and of the destination.
HomeData(p, c) ==
    /\ p \in {"", "Preparing", "Migrating", "CancellationCleanup", "CancellationFinalize",
              "Cancelled"} => Full(Home)
    /\ p \in {"DestinationFinalize", "Completed"} => Empty(Home) /\ Free(Home)
    /\ p = "Cancelled" => Free(Home) /\ Plain(Home)
    /\ p = "Restoring" => Holds(Home, c)

DestData(d, p, c) ==
    /\ p \in {"OriginCleanup", "DestinationFinalize", "Completed", "CancellationPreparing",
              "Restoring"} => Full(d)
    /\ p \in {"", "Preparing", "CancellationFinalize", "Cancelled"} => Empty(d) /\ Free(d)
    /\ p = "Completed" => Free(d) /\ Plain(d)
    /\ p = "Migrating" => Holds(d, c)

Data(m, p, c) == p \notin Broken /\ HomeData(p, c) /\ DestData(Dest[m], p, c)

\* The LC is not being deleted anywhere.
Calm ==
    \A s \in Shards : /\ lc[s] # None => ~lc[s].deleting
                      /\ lister[s] # None => ~lister[s].deleting

\* The shards hold what the migration's phase says.
Standing(m) ==
    /\ Data(m, mig[m].phase, mig[m].cont)
    /\ mig[m].phase \in {"", "Preparing", "Migrating"} => lister[Home] # None

\* They hold what the phase will say when a worker's commit succeeds.
Does(s, m, w) ==
    w.pc # "idle" =>
        /\ w.obj.phase \notin Broken
        /\ w.pc = "commit" => Data(m, w.new.phase, w.new.cont)
        /\ w.pc \in {"finalize", "check", "release"} => lc[s].ann = None
        /\ s = Home /\ w.obj.phase = "Migrating" => lister[s] # None /\ lc[s] # None

DataInv(m) ==
    ~wsDeleted => /\ Calm
                  /\ Standing(m)
                  /\ \A s \in Shards : Does(s, m, worker[s][m])

\* Nothing that the data predicates look at changes on shard t.
SameShard(t) ==
    /\ Present(t)' = Present(t) /\ lc'[t] = lc[t]
    /\ registry'[t] = registry[t] /\ blocked'[t] = blocked[t]

\* The keys that a shard holds.
LEMMA Presence ==
    /\ LCKey \in Keys
    /\ \A s, k : k \in Present(s) => k \in Keys
    /\ \A s : LCKey \in Present(s) <=> lc[s] # None
    /\ \A s : \A k \in Keys : k # LCKey => k \in DataKeys
    /\ \A s : \A k \in DataKeys : k \in Present(s) <=> etcd[s][k] # None
    /\ LCKey \notin DataKeys /\ \A k \in DataKeys : k \in Keys
  <1>1. LCKey \in Keys
    BY Zenon, ConstantsAssumption
  <1>2. LCKey \notin DataKeys /\ \A k \in Keys : k # LCKey => k \in DataKeys
    BY DEF DataKeys
  <1>3. \A k \in DataKeys : k \in Keys
    BY DEF DataKeys
  <1> QED
    BY Zenon, <1>1, <1>2, <1>3 DEF Present

\* A worker that owns the phase it read is the only one past reconcile.
LEMMA Alone ==
    ASSUME NEW m, Only(m), OrderInv(m), DataInv(m), ~wsDeleted,
           NEW s \in Shards, ~At(s, m, "idle"), Owns(s, m, Obj(s, m).phase)
    PROVE  /\ Obj(s, m).phase = mig[m].phase /\ Obj(s, m).cont = mig[m].cont
           /\ \A t \in Shards \ {s} :
                 /\ worker[t][m].pc # "commit"
                 /\ worker[t][m].pc \notin {"finalize", "check", "release"}
  <1>1. \A t \in Shards : Knows(t, m, worker[t][m]) /\ Stage(t, m, worker[t][m])
    BY Zenon DEF OrderInv
  <1>2. mig[m].phase \notin Broken
    BY Zenon DEF DataInv, Standing, Data
  <1>3. \A t \in Shards : worker[t][m].pc # "idle" => worker[t][m].obj.phase \notin Broken
    BY Zenon DEF DataInv, Does
  <1>4. Obj(s, m).phase = mig[m].phase /\ Obj(s, m).cont = mig[m].cont
    BY Zenon, <1>1, <1>2 DEF Knows, At, Obj
  <1>5. ASSUME NEW t \in Shards, t # s PROVE ~Owns(t, m, mig[m].phase)
    <2>1. Dest[m] # Home
      BY Zenon DEF Only
    <2>2. \A p : ~(p \in OriginOwns /\ p \in DestinationOwns)
      BY DEF OriginOwns, DestinationOwns
    <2>3. Owns(s, m, mig[m].phase)
      BY Zenon, <1>4
    <2> QED
      BY <1>5, <2>1, <2>2, <2>3 DEF Owns
  <1>6. ASSUME NEW t \in Shards, t # s, worker[t][m].pc \in {"commit", "finalize", "check", "release"}
        PROVE  FALSE
    <2> DEFINE w == worker[t][m]
    <2>1. Knows(t, m, w) /\ Stage(t, m, w) /\ w.pc # "idle" /\ w.obj.phase \notin Broken
      BY Zenon, <1>1, <1>3, <1>6
    <2>2. ~Owns(t, m, w.obj.phase)
      BY Zenon, <1>2, <1>5, <1>6, <2>1 DEF Knows
    <2>3. w.pc = "commit" => Moves(t, m, w.obj.phase, w.new.phase) /\ w.new.phase \notin Broken
      BY Zenon, <1>6, <2>1 DEF Stage, DataInv, Does, Data
    <2> QED
      BY Zenon, <1>6, <2>1, <2>2, <2>3 DEF Stage, Moves, Owns, OriginOwns, DestinationOwns, Broken
  <1> QED
    BY Zenon, <1>4, <1>6

\* A step of a worker of shard s: no other shard changes, and the LC is not being
\* deleted.
StepsOn(s) ==
    /\ UNCHANGED <<mig, lister>>
    /\ \A t \in Shards \ {s} : SameShard(t)
    /\ lc'[s] # None => ~lc'[s].deleting

\* What the owner of a phase has read, and what its phase says.
LEMMA OwnerReads ==
    ASSUME Base, NEW m, Only(m), OrderInv(m), DataInv(m), ~wsDeleted,
           NEW s \in Shards, ~At(s, m, "idle"), Owns(s, m, Obj(s, m).phase)
    PROVE  /\ Obj(s, m) \in MigrationObjects /\ ObjOK(Obj(s, m)) /\ m \in Migrations
           /\ Obj(s, m).phase = mig[m].phase /\ Obj(s, m).cont = mig[m].cont
           /\ Data(m, Obj(s, m).phase, Obj(s, m).cont)
           /\ Calm
  <1>1. Obj(s, m).phase = mig[m].phase /\ Obj(s, m).cont = mig[m].cont
    BY Zenon, Alone
  <1>2. Data(m, mig[m].phase, mig[m].cont) /\ Calm
    BY Zenon DEF DataInv, Standing
  <1> QED
    BY Zenon, <1>1, <1>2, Reads

\* Nothing of the LC disappears from shard t.
Grows(t) == \A k \in Keys : k \in Present(t) => k \in Present(t)'

\* A page of a shard that holds everything leaves nothing out.
LEMMA PageCovers ==
    ASSUME NEW src, Full(src), NEW c \in Nat, NEW p \in Pages(src, c)
    PROVE  \A k \in Keys : ~(k < c) /\ (p.next = 0 \/ k < p.next) => k \in p.keys
  <1> DEFINE rest == {k \in Present(src) : k >= c}
  <1>1. Keys \subseteq Nat \ {0} /\ \A k \in Present(src) : k \in Keys
    BY Presence, ConstantsAssumption DEF Keys
  <1>2. \A k \in Keys : ~(k < c) => k \in rest
    BY <1>1 DEF Full
  <1>3. CASE p = [keys |-> rest, next |-> 0]
    <2>1. p.keys = rest
      BY <1>3
    <2> QED
      BY <1>2, <2>1
  <1>4. CASE \E n \in rest : p = [keys |-> {k \in rest : k < n}, next |-> n]
    <2>1. PICK n \in rest : p = [keys |-> {k \in rest : k < n}, next |-> n]
      BY <1>4
    <2>2. n # 0 /\ p.next = n /\ p.keys = {k \in rest : k < n}
      BY <1>1, <2>1
    <2> QED
      BY <1>2, <2>2
  <1> QED
    BY <1>3, <1>4 DEF Pages

\* A worker about to commit owns the phase, and what it commits follows from it.
LEMMA Committer ==
    ASSUME Base, NEW m, Only(m), OrderInv(m), DataInv(m), ~wsDeleted,
           NEW t \in Shards, worker[t][m].pc = "commit"
    PROVE  /\ Owns(t, m, worker[t][m].obj.phase) /\ worker[t][m].obj.phase = mig[m].phase
           /\ Moves(t, m, mig[m].phase, worker[t][m].new.phase)
           /\ Data(m, worker[t][m].new.phase, worker[t][m].new.cont)
  <1> DEFINE w == worker[t][m]
  <1>1. Stage(t, m, w) /\ Does(t, m, w)
    BY Zenon DEF OrderInv, DataInv
  <1>2. /\ Moves(t, m, w.obj.phase, w.new.phase) /\ w.obj.phase \notin Broken
        /\ Data(m, w.new.phase, w.new.cont) /\ w.new.phase \notin Broken
    BY Zenon, <1>1 DEF Stage, Does, Data
  <1>3. Owns(t, m, w.obj.phase)
    BY Zenon, <1>2 DEF Moves, Owns, OriginOwns, DestinationOwns, Broken
  <1>4. ~At(t, m, "idle") /\ w.obj = Obj(t, m)
    BY Zenon DEF At, Obj
  <1>5. w.obj.phase = mig[m].phase
    BY Zenon, <1>3, <1>4, Alone
  <1> QED
    BY Zenon, <1>2, <1>3, <1>5

\* No shard aborts.
LEMMA AbortData ==
    ASSUME NEW m, DataInv(m), ~wsDeleted, NEW s \in Shards, Abort(s, m)
    PROVE  FALSE
  <1>1. At(s, m, "reconcile") /\ Obj(s, m).phase = "Aborting"
    BY Zenon DEF Abort, Handles
  <1> QED
    BY Zenon, <1>1 DEF DataInv, Does, Broken, At, Obj

\* A request that was admitted has read a value.
RequestInv ==
    req.st = "admitted" => req.shard \in Shards /\ req.k \in DataKeys /\ req.read # None

\* A worker's step cancels requests, or leaves them alone.
LEMMA ReconcileRequests ==
    ASSUME NEW m, NEW s, Reconcile(s, m)
    PROVE  UNCHANGED req \/ StopRequests(s)
  BY Zenon DEF Reconcile, Get, StartCancellation, DetectLCDeletion, Wait, Start, Prepare,
     PrepareRegister, PrepareBlock, Migrate, OriginCleanup, DestinationFinalize,
     DestinationRelease, Abort, RemoveFinalizer, KeepBlocked, BlockForCancellation, Restore,
     CancellationCleanup, CancellationFinalize, CancellationCheck, CancellationRelease, Commit,
     Fails, DeleteData, CancelContext, DeleteContext, RegisterCancellation

\* Until the workspace is deleted, nobody deletes the LC.
LEMMA DeleteLCData ==
    ASSUME NEW m, DataInv(m), ~wsDeleted, NEW s \in Shards, DeleteLC(s)
    PROVE  FALSE
  BY Zenon DEF DataInv, Calm, DeleteLC

\* A deleted workspace stays deleted.
LEMMA StaysDeleted ==
    ASSUME [Next]_vars, wsDeleted
    PROVE  wsDeleted'
  <1>1. ASSUME NEW s \in Shards, NEW n \in Migrations, Reconcile(s, n) PROVE UNCHANGED wsDeleted
    BY Zenon, <1>1 DEF Reconcile, Get, StartCancellation, DetectLCDeletion, Wait, Start, Prepare,
       PrepareRegister, PrepareBlock, Migrate, OriginCleanup, DestinationFinalize,
       DestinationRelease, Abort, RemoveFinalizer, KeepBlocked, BlockForCancellation, Restore,
       CancellationCleanup, CancellationFinalize, CancellationCheck, CancellationRelease,
       Commit, outside
  <1>2. ASSUME NEW n \in Migrations, CreateMigration(n) \/ DeleteMigration(n) \/ Replicate(n)
        PROVE  UNCHANGED wsDeleted
    BY Zenon, <1>2 DEF CreateMigration, DeleteMigration, Replicate
  <1>3. ASSUME NEW s \in Shards, \/ Resync(s) \/ SyncLister(s) \/ IndexObserve(s)
                                 \/ IndexResync(s) \/ DeleteLC(s) \/ Restart(s)
        PROVE  UNCHANGED wsDeleted
    BY Zenon, <1>3 DEF Resync, SyncLister, IndexObserve, IndexResync, DeleteLC, Restart
  <1>4. ASSUME (\E k \in DataKeys : ClientStart(k)) \/ ClientApply \/ ClientAck \/ ClientFail
        PROVE  UNCHANGED wsDeleted
    BY Zenon, <1>4 DEF ClientStart, ClientApply, ClientAck, ClientFail
  <1>5. DeleteWorkspace => wsDeleted'
    BY Zenon DEF DeleteWorkspace
  <1> QED
    BY Zenon, <1>1, <1>2, <1>3, <1>4, <1>5 DEF Next, vars

\* So every request that was admitted is for a key of a shard.
LEMMA RequestInvariant == Spec => []RequestInv
  \* Every step keeps it so.
  <1>NextRequest.
      ASSUME ShardType, RequestInv, [Next]_vars
      PROVE  RequestInv'
    <2> USE <1>NextRequest
    <2>1. NoRequest.st = "none"
      BY DEF NoRequest
    <2>2. CASE UNCHANGED req
      BY Zenon, <2>2 DEF RequestInv
    <2>3. ASSUME NEW s, StopRequests(s) PROVE RequestInv'
      <3>1. req'.st = req.st /\ req'.shard = req.shard /\ req'.k = req.k /\ req'.read = req.read
        BY <2>3 DEF StopRequests, ShardType, GateType
      <3> QED
        BY Zenon, <3>1 DEF RequestInv
    <2>4. CASE req' = NoRequest
      BY Zenon, <2>1, <2>4 DEF RequestInv
    <2>5. ASSUME NEW s, Restart(s) PROVE RequestInv'
      BY Zenon, <2>2, <2>4, <2>5 DEF Restart
    <2>6. ASSUME NEW k \in DataKeys, ClientStart(k) PROVE RequestInv'
      <3>1. route \in Shards
        BY Zenon, <2>6 DEF ClientStart, ShardType, RestType
      <3>2. req'.shard = route /\ req'.k = k /\ req'.read = etcd[route][k]
        BY <2>6 DEF ClientStart
      <3> QED
        BY Zenon, <2>6, <3>1, <3>2 DEF RequestInv, ClientStart
    <2>7. CASE ClientApply
      <3>1. req'.st = "applied"
        BY <2>7 DEF ClientApply, ShardType, GateType
      <3> QED
        BY Zenon, <3>1 DEF RequestInv
    <2>8. ASSUME NEW s \in Shards, NEW n \in Migrations, Reconcile(s, n) PROVE RequestInv'
      BY Zenon, <2>2, <2>3, <2>8, ReconcileRequests
    <2>9. CASE ClientAck \/ ClientFail
      BY Zenon, <2>4, <2>9 DEF ClientAck, ClientFail
    <2>10. ASSUME NEW n \in Migrations, CreateMigration(n) \/ DeleteMigration(n) \/ Replicate(n)
           PROVE  RequestInv'
      BY Zenon, <2>2, <2>10 DEF CreateMigration, DeleteMigration, Replicate
    <2>11. ASSUME NEW s \in Shards, \/ Resync(s) \/ SyncLister(s) \/ IndexObserve(s)
                                    \/ IndexResync(s) \/ DeleteLC(s)
           PROVE  RequestInv'
      BY Zenon, <2>2, <2>11 DEF Resync, SyncLister, IndexObserve, IndexResync, DeleteLC
    <2>12. CASE DeleteWorkspace \/ UNCHANGED vars
      BY Zenon, <2>2, <2>12 DEF DeleteWorkspace, vars
    <2> QED
      BY Zenon, <2>5, <2>6, <2>7, <2>8, <2>9, <2>10, <2>11, <2>12 DEF Next
  <1>1. Init => RequestInv
    <2>1. NoRequest.st = "none"
      BY DEF NoRequest
    <2> QED
      BY Zenon, <2>1 DEF Init, RequestInv
  <1>2. ShardType /\ RequestInv /\ [Next]_vars => RequestInv'
    BY <1>NextRequest
  <1> QED
    BY <1>1, <1>2, TypeInvariant, PTL DEF Spec

\* As long as the workspace is not deleted, the shards hold what the phase of the
\* only migration of the LC says.
THEOREM DataInvariant ==
    ASSUME NEW m, Only(m)
    PROVE  Spec => []DataInv(m)
  \* A shard that does not change keeps what is said of it.
  <1>HomeSame.
      ASSUME SameShard(Home), NEW p, NEW c, HomeData(p, c)
      PROVE  HomeData(p, c)'
    BY Zenon, <1>HomeSame DEF HomeData, SameShard, Full, Empty, Holds, Free, Plain
  \* The same for the destination.
  <1>DestSame.
      ASSUME NEW d, d \in Shards => SameShard(d), NEW p, NEW c, DestData(d, p, c)
      PROVE  DestData(d, p, c)'
    BY Zenon, <1>DestSame DEF DestData, SameShard, Full, Empty, Holds, Free, Plain
  \* A step of a worker keeps the data where the phases say it is, if the phase
  \* that holds, the one the worker leaves and the one any other worker is about to
  \* commit are right afterwards.
  <1>DataStep.
      ASSUME Base, OrderInv(m), DataInv(m), ~wsDeleted,
             NEW s \in Shards, ~At(s, m, "idle"),
             NEW x, Acts(s, m, x), UNCHANGED <<mig, lister>>,
             \A t \in Shards \ {s} : lc'[t] = lc[t],
             lc'[s] # None => ~lc'[s].deleting,
             \/ x.pc = "idle"
             \/ /\ x.pc = "commit" => Data(m, x.new.phase, x.new.cont)'
                /\ x.pc \in {"finalize", "check", "release"} => lc'[s].ann = None
                /\ s = Home => Obj(s, m).phase # "Migrating",
             NEW o, o = mig[m], Data(m, o.phase, o.cont)',
             \A t \in Shards \ {s} : \A n : worker[t][m].pc = "commit" /\ n = worker[t][m].new =>
                 Data(m, n.phase, n.cont)'
      PROVE  DataInv(m)'
    <2> USE <1>DataStep
    <2>1. m \in Migrations /\ Calm /\ Standing(m) /\ \A t \in Shards : Does(t, m, worker[t][m])
      BY Zenon DEF Only, DataInv
    <2>2. worker'[s][m] = x /\ \A t \in Shards \ {s} : worker'[t][m] = worker[t][m]
      BY Zenon, <2>1, ActsFacts
    <2>3. Calm'
      BY Zenon, <2>1 DEF Calm
    <2>4. Standing(m)'
      <3>1. mig'[m] = o
        BY Zenon
      <3> QED
        BY Zenon, <2>1, <3>1 DEF Standing, Data
    <2>5. Does(s, m, worker[s][m])'
      <3>1. x.pc = "idle" \/ x.obj = worker[s][m].obj
        BY Zenon DEF Acts, Obj
      <3>2. worker[s][m].obj.phase \notin Broken
        BY Zenon, <2>1 DEF Does, At
      <3> QED
        BY Zenon, <2>2, <3>1, <3>2 DEF Does, Obj, Data
    <2>6. ASSUME NEW t \in Shards, t # s PROVE Does(t, m, worker[t][m])'
      <3>1. worker'[t][m] = worker[t][m] /\ Does(t, m, worker[t][m]) /\ lc'[t] = lc[t]
        BY Zenon, <2>1, <2>2, <2>6
      <3>2. worker[t][m].pc = "commit" =>
              Data(m, worker[t][m].new.phase, worker[t][m].new.cont)'
        BY Zenon, <2>6, <3>1 DEF Data
      <3> QED
        BY Zenon, <3>1, <3>2 DEF Does, Data
    <2> QED
      BY Zenon, <2>3, <2>4, <2>5, <2>6 DEF DataInv
  \* What a step on one shard leaves alone.
  <1>Elsewhere.
      ASSUME NEW s \in Shards, StepsOn(s), NEW p, NEW c
      PROVE  /\ s # Home /\ HomeData(p, c) => HomeData(p, c)'
             /\ s # Dest[m] /\ DestData(Dest[m], p, c) => DestData(Dest[m], p, c)'
    <2> USE <1>Elsewhere
    <2>1. s # Home => SameShard(Home)
      BY Zenon, HomeThere DEF StepsOn
    <2>2. s # Dest[m] => (Dest[m] \in Shards => SameShard(Dest[m]))
      BY Zenon DEF StepsOn
    <2> QED
      BY Zenon, <2>1, <2>2, <1>HomeSame, <1>DestSame
  \* A step of the worker that owns the phase.
  <1>OwnerStep.
      ASSUME Base, OrderInv(m), DataInv(m), ~wsDeleted,
             NEW s \in Shards, ~At(s, m, "idle"), Owns(s, m, Obj(s, m).phase),
             NEW x, Acts(s, m, x), StepsOn(s),
             NEW o, o = Obj(s, m), Data(m, o.phase, o.cont)',
             \/ x.pc = "idle"
             \/ /\ x.pc = "commit" => Data(m, x.new.phase, x.new.cont)'
                /\ x.pc \in {"finalize", "check", "release"} => lc'[s].ann = None
      PROVE  DataInv(m)'
    <2> USE <1>OwnerStep
    <2>1. /\ o.phase = mig[m].phase /\ o.cont = mig[m].cont
          /\ \A t \in Shards \ {s} : worker[t][m].pc # "commit"
      BY Zenon, Alone
    <2>2. PICK q : q = mig[m]
      OBVIOUS
    <2>6. Data(m, q.phase, q.cont)'
      BY Zenon, <2>1, <2>2
    <2>3. s = Home => Obj(s, m).phase # "Migrating"
      <3>1. "Migrating" \notin OriginOwns
        BY DEF OriginOwns
      <3> QED
        BY Zenon, <3>1 DEF Owns, Only
    <2>4. UNCHANGED <<mig, lister>> /\ \A t \in Shards \ {s} : lc'[t] = lc[t]
      BY Zenon DEF StepsOn, SameShard
    <2>5. lc'[s] # None => ~lc'[s].deleting
      BY Zenon DEF StepsOn
    <2> QED
      BY Zenon, <2>1, <2>2, <2>3, <2>4, <2>5, <2>6, <1>DataStep
  \* It returns.
  <1>OwnerReturns.
      ASSUME Base, OrderInv(m), DataInv(m), ~wsDeleted,
             NEW s \in Shards, ~At(s, m, "idle"), Owns(s, m, Obj(s, m).phase),
             NEW new, NEW rq, Return(s, m, new, rq), StepsOn(s),
             NEW o, o = Obj(s, m), Data(m, o.phase, o.cont)',
             new = Obj(s, m) \/ Data(m, new.phase, new.cont)'
      PROVE  DataInv(m)'
    <2> USE <1>OwnerReturns
    <2>1. m \in Migrations
      BY Zenon DEF Only
    <2>2. PICK x : /\ Acts(s, m, x)
                   /\ \/ x = Idle /\ new = Obj(s, m)
                      \/ x.pc = "commit" /\ x.obj = Obj(s, m) /\ x.new = new
      BY Zenon, <2>1, ReturnActs
    <2>3. Idle.pc = "idle"
      BY DEF Idle
    <2>4. CASE x = Idle
      BY Zenon, <2>2, <2>3, <2>4, <1>OwnerStep
    <2>5. CASE x.pc = "commit" /\ x.obj = Obj(s, m) /\ x.new = new
      <3>3. CASE new = Obj(s, m)
        <4>1. worker' = [worker EXCEPT ![s][m] = Idle]
          BY Zenon, <3>3 DEF Return
        <4>2. Acts(s, m, Idle)
          BY Zenon, <2>3, <4>1 DEF Acts
        <4> QED
          BY Zenon, <2>3, <4>2, <1>OwnerStep
      <3>4. CASE new # Obj(s, m)
        <4>1. Data(m, x.new.phase, x.new.cont)'
          BY Zenon, <2>5, <3>4
        <4>2. x.pc \notin {"finalize", "check", "release"}
          BY Zenon, <2>5
        <4> QED
          BY Zenon, <2>2, <4>1, <4>2, <1>OwnerStep
      <3> QED
        BY Zenon, <3>3, <3>4
    <2> QED
      BY Zenon, <2>2, <2>4, <2>5
  \* It goes on within its handler.
  <1>OwnerGoesOn.
      ASSUME Base, OrderInv(m), DataInv(m), ~wsDeleted,
             NEW s \in Shards, ~At(s, m, "idle"), Owns(s, m, Obj(s, m).phase),
             NEW p \in {"register", "block", "finalize", "check", "release"},
             Goto(s, m, p), StepsOn(s),
             NEW o, o = Obj(s, m), Data(m, o.phase, o.cont)',
             p \in {"finalize", "check", "release"} => lc'[s].ann = None
      PROVE  DataInv(m)'
    <2> USE <1>OwnerGoesOn
    <2>1. m \in Migrations
      BY Zenon DEF Only
    <2>2. PICK x : Acts(s, m, x) /\ x.pc = p /\ x.obj = Obj(s, m)
      BY Zenon, <2>1, GotoActs
    <2>3. x.pc # "commit"
      BY Zenon, <2>2
    <2> QED
      BY Zenon, <2>2, <2>3, <1>OwnerStep
  \* The worker gives up or has nothing to do: what is said of the shards stays.
  <1>QuietReturns.
      ASSUME Base, OrderInv(m), DataInv(m), ~wsDeleted,
             NEW s \in Shards, ~At(s, m, "idle"), NEW rq, Return(s, m, Obj(s, m), rq),
             UNCHANGED <<mig, lister>>,
             \A t \in Shards \ {s} : lc'[t] = lc[t],
             lc'[s] # None => ~lc'[s].deleting,
             NEW o, o = mig[m], Data(m, o.phase, o.cont)',
             \A t \in Shards \ {s} : \A n : worker[t][m].pc = "commit" /\ n = worker[t][m].new =>
                 Data(m, n.phase, n.cont)'
      PROVE  DataInv(m)'
    <2> USE <1>QuietReturns
    <2>1. worker' = [worker EXCEPT ![s][m] = Idle]
      BY Zenon DEF Return
    <2>2. Idle.pc = "idle"
      BY DEF Idle
    <2>3. Acts(s, m, Idle)
      BY Zenon, <2>1, <2>2 DEF Acts
    <2> QED
      BY Zenon, <2>2, <2>3, <1>DataStep
  \* Nothing changes on any shard: every phase says what it said.
  <1>DataSame.
      ASSUME \A t \in Shards : SameShard(t), NEW p, NEW c, Data(m, p, c)
      PROVE  Data(m, p, c)'
    <2> USE <1>DataSame
    <2>1. SameShard(Home) /\ (Dest[m] \in Shards => SameShard(Dest[m]))
      BY Zenon, HomeThere
    <2>2. HomeData(p, c)' /\ DestData(Dest[m], p, c)'
      BY Zenon, <2>1, <1>HomeSame, <1>DestSame DEF Data
    <2> QED
      BY Zenon, <2>2 DEF Data
  \* A handler that touches nothing of its shard.
  <1>Untouched.
      ASSUME DataInv(m), ~wsDeleted, UNCHANGED <<mig, lister, etcd, lc, registry, blocked>>
      PROVE  /\ \A t \in Shards : SameShard(t)
             /\ \A s \in Shards : StepsOn(s)
             /\ \A p, c : Data(m, p, c) => Data(m, p, c)'
    <2> USE <1>Untouched
    <2>1. \A t \in Shards : SameShard(t)
      BY Zenon DEF SameShard, Present
    <2>2. \A s \in Shards : StepsOn(s)
      BY Zenon, <2>1 DEF StepsOn, DataInv, Calm
    <2>3. \A p, c : Data(m, p, c) => Data(m, p, c)'
      BY Zenon, <2>1, <1>DataSame
    <2> QED
      BY Zenon, <2>1, <2>2, <2>3
  \* The handlers that only wait, or fail before they changed anything.
  <1>QuietData.
      ASSUME Base, OrderInv(m), DataInv(m), ~wsDeleted,
             NEW s \in Shards, ~At(s, m, "idle"), NEW rq, Return(s, m, Obj(s, m), rq),
             UNCHANGED <<mig, lister, etcd, lc, registry, blocked>>
      PROVE  DataInv(m)'
    <2> USE <1>QuietData
    <2>1. \A p, c : Data(m, p, c) => Data(m, p, c)'
      BY Zenon, <1>Untouched
    <2>2. Calm /\ Standing(m) /\ \A t \in Shards : Does(t, m, worker[t][m])
      BY Zenon DEF DataInv
    <2>3. PICK o : o = mig[m]
      OBVIOUS
    <2>4. Data(m, o.phase, o.cont)'
      BY Zenon, <2>1, <2>2, <2>3 DEF Standing
    <2>6. ASSUME NEW t \in Shards \ {s}, NEW n, worker[t][m].pc = "commit", n = worker[t][m].new
          PROVE  Data(m, n.phase, n.cont)'
      <3>1. t \in Shards
        BY Zenon
      <3>2. Data(m, n.phase, n.cont)
        BY Zenon, <2>2, <2>6, <3>1 DEF Does
      <3> QED
        BY Zenon, <2>1, <3>2
    <2>5. lc'[s] # None => ~lc'[s].deleting
      BY Zenon, <2>2 DEF Calm
    <2> QED
      BY Zenon, <2>3, <2>4, <2>5, <2>6, <1>QuietReturns
  \* The owner moves on without touching its shard.
  <1>QuietOwner.
      ASSUME Base, OrderInv(m), DataInv(m), ~wsDeleted,
             NEW s \in Shards, ~At(s, m, "idle"), Owns(s, m, Obj(s, m).phase),
             UNCHANGED <<mig, lister, etcd, lc, registry, blocked>>,
             NEW new, NEW rq, Return(s, m, new, rq), Data(m, new.phase, new.cont)
      PROVE  DataInv(m)'
    <2> USE <1>QuietOwner
    <2>1. Data(m, Obj(s, m).phase, Obj(s, m).cont)
      BY Zenon, OwnerReads
    <2>2. PICK o : o = Obj(s, m)
      OBVIOUS
    <2>3. StepsOn(s) /\ Data(m, o.phase, o.cont)' /\ Data(m, new.phase, new.cont)'
      BY Zenon, <2>1, <2>2, <1>Untouched
    <2> QED
      BY Zenon, <2>2, <2>3, <1>OwnerReturns
  \* startCancellation, in each phase: what the rollback starts from.
  <1>StartCancellationData.
      ASSUME Base, OrderInv(m), DataInv(m), ~wsDeleted,
             NEW s \in Shards, StartCancellation(s, m)
      PROVE  DataInv(m)'
    <2> USE <1>StartCancellationData
    <2> DEFINE o == Obj(s, m)
               origin == IF o.phase \in {"", "Preparing"} THEN s ELSE o.origin
               phase == CASE o.phase \in {"", "Preparing"} -> "CancellationFinalize"
                          [] o.phase = "Migrating" -> "CancellationCleanup"
                          [] OTHER -> "CancellationPreparing"
               new == [o EXCEPT !.cont = 0, !.origin = origin, !.phase = phase]
    <2>1. ~At(s, m, "idle") /\ UNCHANGED <<mig, lister, etcd, lc, registry, blocked>>
      BY Zenon, AtReconcile DEF StartCancellation, outside
    <2>2. Return(s, m, new, TRUE) /\ StartsCancellation(s, m, o)
      BY Zenon DEF StartCancellation
    <2>3. o \in MigrationObjects /\ (IsOrigin(s, o) => s = Home)
      BY Zenon, <2>1, Reads
    <2>4. new.phase = phase
      BY <2>3 DEF MigrationObjects
    <2> HIDE DEF new
    <2>5. \/ o.phase \in {"", "Preparing"} /\ s = Home /\ phase = "CancellationFinalize"
          \/ o.phase = "OriginCleanup" /\ s = Home /\ phase = "CancellationPreparing"
          \/ o.phase = "DestinationFinalize" /\ s = Dest[m] /\ phase = "CancellationPreparing"
          \/ o.phase = "Migrating" /\ s = Dest[m] /\ phase = "CancellationCleanup"
      BY <2>2, <2>3 DEF StartsCancellation, IsDestination
    <2> HIDE DEF phase
    <2>6. Owns(s, m, o.phase)
      BY Zenon, <2>5 DEF Owns, OriginOwns, DestinationOwns
    <2>7. Data(m, o.phase, o.cont)
      BY Zenon, <2>1, <2>6, OwnerReads
    <2>8. Data(m, new.phase, new.cont)
      BY Zenon, <2>4, <2>5, <2>7 DEF Data, HomeData, DestData, Broken
    <2> QED
      BY Zenon, <2>1, <2>2, <2>6, <2>8, <1>QuietOwner
  \* The origin has no reason to abort.
  <1>DetectLCDeletionData.
      ASSUME Base, OrderInv(m), DataInv(m), ~wsDeleted,
             NEW s \in Shards, DetectLCDeletion(s, m)
      PROVE  FALSE
    <2> USE <1>DetectLCDeletionData
    <2> DEFINE o == Obj(s, m)
    <2>1. ~At(s, m, "idle") /\ SeesLCDeleted(s, o)
      BY Zenon, AtReconcile DEF DetectLCDeletion
    <2>2. s = Home /\ o.phase \in {"Preparing", "Migrating"} /\ (lister[s] # None => lister[s].deleting)
      BY Zenon, <2>1, Reads DEF SeesLCDeleted
    <2>3. Calm /\ Standing(m) /\ Does(s, m, worker[s][m])
      BY Zenon DEF DataInv
    <2>4. lister[s] # None
      <3>1. CASE o.phase = "Migrating"
        BY Zenon, <2>1, <2>2, <2>3, <3>1 DEF Does, At, Obj
      <3>2. CASE o.phase = "Preparing"
        <4>1. Owns(s, m, o.phase)
          BY Zenon, <2>2, <3>2 DEF Owns, OriginOwns
        <4>2. mig[m].phase = "Preparing"
          BY Zenon, <2>1, <3>2, <4>1, OwnerReads
        <4> QED
          BY Zenon, <2>2, <2>3, <4>2 DEF Standing
      <3> QED
        BY Zenon, <2>2, <3>1, <3>2
    <2> QED
      BY Zenon, <2>2, <2>3, <2>4 DEF Calm
  \* A shard that waits, and a handler that fails.
  <1>WaitData.
      ASSUME Base, OrderInv(m), DataInv(m), ~wsDeleted,
             NEW s \in Shards, Wait(s, m)
      PROVE  DataInv(m)'
    <2> USE <1>WaitData
    <2>1. ~At(s, m, "idle") /\ UNCHANGED <<mig, lister, etcd, lc, registry, blocked>>
      BY Zenon, AtReconcile DEF Wait, Handles, outside
    <2>2. \E rq : Return(s, m, Obj(s, m), rq)
      BY Zenon DEF Wait
    <2> QED
      BY Zenon, <2>1, <2>2, <1>QuietData
  \* A call that fails before anything is done.
  <1>FailsData.
      ASSUME Base, OrderInv(m), DataInv(m), ~wsDeleted,
             NEW s \in Shards, ~At(s, m, "idle"), Fails(s, m), UNCHANGED outside
      PROVE  DataInv(m)'
    <2> USE <1>FailsData
    <2>1. UNCHANGED <<mig, lister, etcd, lc, registry, blocked>>
      BY Zenon DEF Fails, outside
    <2> QED
      BY Zenon, <2>1, <1>QuietData DEF Fails
  \* The finalizer and the first phase.
  <1>StartData.
      ASSUME Base, OrderInv(m), DataInv(m), ~wsDeleted,
             NEW s \in Shards, Start(s, m)
      PROVE  DataInv(m)'
    <2> USE <1>StartData
    <2> DEFINE o == Obj(s, m)
               new == IF o.fin THEN [o EXCEPT !.phase = "Preparing"] ELSE [o EXCEPT !.fin = TRUE]
    <2>1. ~At(s, m, "idle") /\ UNCHANGED <<mig, lister, etcd, lc, registry, blocked>>
      BY Zenon, AtReconcile DEF Start, Handles, outside
    <2>2. Return(s, m, new, TRUE) /\ o.phase = "" /\ s = Home /\ o \in MigrationObjects
      BY Zenon, <2>1, Reads DEF Start, Handles
    <2>3. new.phase \in {"", "Preparing"} /\ new.cont = o.cont
      BY <2>2 DEF MigrationObjects
    <2> HIDE DEF new
    <2>4. Owns(s, m, o.phase)
      BY Zenon, <2>2 DEF Owns, OriginOwns
    <2>5. Data(m, o.phase, o.cont)
      BY Zenon, <2>1, <2>4, OwnerReads
    <2>6. Data(m, new.phase, new.cont)
      BY Zenon, <2>2, <2>3, <2>5 DEF Data, HomeData, DestData, Broken
    <2> QED
      BY Zenon, <2>1, <2>2, <2>4, <2>6, <1>QuietOwner
  \* The finalizer goes: the phase stays.
  <1>RemoveFinalizerData.
      ASSUME Base, OrderInv(m), DataInv(m), ~wsDeleted,
             NEW s \in Shards, RemoveFinalizer(s, m)
      PROVE  DataInv(m)'
    <2> USE <1>RemoveFinalizerData
    <2> DEFINE o == Obj(s, m)
               new == [o EXCEPT !.fin = FALSE]
    <2>1. /\ ~At(s, m, "idle") /\ UNCHANGED <<mig, lister, etcd, lc, registry, blocked>>
          /\ \/ o.phase = "Completed" /\ s = Dest[m]
             \/ o.phase = "Cancelled" /\ IsOrigin(s, o)
             \/ o.phase = "Failed"
      BY Zenon, AtReconcile DEF RemoveFinalizer, outside, Handles, IsDestination
    <2>2. Return(s, m, new, FALSE) /\ o \in MigrationObjects /\ (IsOrigin(s, o) => s = Home)
      BY Zenon, <2>1, Reads DEF RemoveFinalizer
    <2>3. new.phase = o.phase /\ new.cont = o.cont
      BY <2>2 DEF MigrationObjects
    <2> HIDE DEF new
    <2>4. o.phase # "Failed"
      BY Zenon, <2>1 DEF DataInv, Does, Broken, At, Obj
    <2>5. Owns(s, m, o.phase)
      BY Zenon, <2>1, <2>2, <2>4 DEF Owns, OriginOwns, DestinationOwns
    <2>6. Data(m, new.phase, new.cont)
      BY Zenon, <2>1, <2>3, <2>5, OwnerReads
    <2> QED
      BY Zenon, <2>1, <2>2, <2>5, <2>6, <1>QuietOwner
  \* More data, a registration and a cancelled context do not disturb the phases
  \* that ask for data only.
  <1>HomeGrows.
      ASSUME Grows(Home), NEW p, p \notin {"DestinationFinalize", "Completed", "Cancelled"}, NEW c,
             HomeData(p, c)
      PROVE  HomeData(p, c)'
    <2> USE <1>HomeGrows
    <2>1. p \notin {"DestinationFinalize", "Completed"} /\ p # "Cancelled"
      BY Zenon
    <2> QED
      BY Zenon, <2>1 DEF HomeData, Grows, Full, Holds
  \* The same for the destination.
  <1>DestGrows.
      ASSUME NEW d, d \in Shards => Grows(d), NEW c,
             NEW p, p \notin {"", "Preparing", "CancellationFinalize", "Cancelled", "Completed"},
             DestData(d, p, c)
      PROVE  DestData(d, p, c)'
    <2> USE <1>DestGrows
    <2>1. p \notin {"", "Preparing", "CancellationFinalize", "Cancelled"} /\ p # "Completed"
      BY Zenon
    <2> QED
      BY Zenon, <2>1 DEF DestData, Grows, Full, Holds
  \* A step on shard s.
  <1>OnShard.
      ASSUME NEW s \in Shards, UNCHANGED <<mig, lister>>,
             \A t \in Shards \ {s} : lc'[t] = lc[t] /\ etcd'[t] = etcd[t],
             \A t \in Shards \ {s} : registry'[t] = registry[t],
             \A t \in Shards \ {s} : blocked'[t] = blocked[t],
             lc'[s] # None => ~lc'[s].deleting
      PROVE  StepsOn(s)
    BY Zenon, <1>OnShard DEF StepsOn, SameShard, Present
  \* An annotation leaves the data in place.
  <1>AnnotationGrows.
      ASSUME Base, NEW s \in Shards, NEW a \in Migrations \cup {None}, lc[s] # None,
             SetAnnotation(s, a), UNCHANGED etcd, Calm
      PROVE  /\ Grows(s) /\ lc'[s] # None /\ lc'[s].ann = a /\ ~lc'[s].deleting
             /\ \A t \in Shards \ {s} : lc'[t] = lc[t] /\ etcd'[t] = etcd[t]
    <2> USE <1>AnnotationGrows
    <2>1. /\ lc'[s] # None /\ lc'[s].ann = a /\ lc'[s].deleting = lc[s].deleting
          /\ \A t \in Shards \ {s} : lc'[t] = lc[t]
      BY Zenon, SetAnnotationLocal
    <2>2. ~lc[s].deleting
      BY Zenon DEF Calm
    <2>3. Grows(s)
      BY Zenon, <2>1 DEF Grows, Present
    <2> QED
      BY Zenon, <2>1, <2>2, <2>3
  \* A page written from a shard that holds everything.
  <1>WriteGrows.
      ASSUME Base, Calm, NEW s \in Shards, NEW src, Full(src), NEW P, Write(s, src, P)
      PROVE  /\ Grows(s) /\ \A k \in Keys : k \in P => k \in Present(s)'
             /\ \A t \in Shards \ {s} : lc'[t] = lc[t] /\ etcd'[t] = etcd[t]
             /\ lc'[s] # None => ~lc'[s].deleting
    <2> USE <1>WriteGrows
    <2>1. /\ etcd \in [Shards -> [DataKeys -> Values \cup {None}]]
          /\ src \in Shards
      BY Zenon DEF Base, ShardType, DataType, Full
    <2>2. lc[src] # None /\ \A k \in DataKeys : etcd[src][k] # None
      BY Zenon, Presence DEF Full
    <2>3. lc'[s] = (IF LCKey \in P THEN lc[src] ELSE lc[s]) /\ \A t \in Shards \ {s} : lc'[t] = lc[t]
      BY Zenon, SetLCLocal DEF Write
    <2>4. /\ \A k \in DataKeys : etcd'[s][k] = IF k \in P THEN etcd[src][k] ELSE etcd[s][k]
          /\ \A t \in Shards \ {s} : etcd'[t] = etcd[t]
      BY Zenon, <2>1 DEF Write
    <2>5. lc'[s] # None => ~lc'[s].deleting
      BY Zenon, <2>1, <2>3 DEF Calm
    <2>6. /\ LCKey \in P => LCKey \in Present(s)'
          /\ LCKey \in Present(s) => LCKey \in Present(s)'
      <3>1. LCKey \in P \/ lc[s] # None => lc'[s] # None
        BY Zenon, <2>2, <2>3
      <3>2. LCKey \in Present(s) => lc[s] # None
        BY Zenon, Presence
      <3> QED
        BY Zenon, <3>1, <3>2 DEF Present
    <2>7. ASSUME NEW k \in DataKeys
          PROVE  /\ k \in P => k \in Present(s)'
                 /\ k \in Present(s) => k \in Present(s)'
      <3>1. etcd'[s][k] = (IF k \in P THEN etcd[src][k] ELSE etcd[s][k]) /\ etcd[src][k] # None
        BY Zenon, <2>2, <2>4
      <3>2. k \in Present(s) => etcd[s][k] # None
        BY Zenon, Presence
      <3> QED
        BY Zenon, <3>1, <3>2 DEF Present
    <2>8. \A k \in Keys : k = LCKey \/ k \in DataKeys
      BY Zenon, Presence
    <2> QED
      BY Zenon, <2>3, <2>4, <2>5, <2>6, <2>7, <2>8 DEF Grows
  \* Keys deleted from a shard.
  <1>WipeEmpties.
      ASSUME Base, Calm, NEW s \in Shards, NEW D, Wipe(s, D)
      PROVE  /\ D = Keys => Present(s)' = {}
             /\ \A t \in Shards \ {s} : lc'[t] = lc[t] /\ etcd'[t] = etcd[t]
             /\ lc'[s] # None => ~lc'[s].deleting
    <2> USE <1>WipeEmpties
    <2>1. etcd \in [Shards -> [DataKeys -> Values \cup {None}]]
      BY Zenon DEF Base, ShardType, DataType
    <2>2. lc'[s] = (IF LCKey \in D THEN None ELSE lc[s]) /\ \A t \in Shards \ {s} : lc'[t] = lc[t]
      BY Zenon, SetLCLocal DEF Wipe
    <2>3. /\ \A k \in DataKeys : etcd'[s][k] = IF k \in D THEN None ELSE etcd[s][k]
          /\ \A t \in Shards \ {s} : etcd'[t] = etcd[t]
      BY Zenon, <2>1 DEF Wipe
    <2>4. ASSUME D = Keys, NEW k, k \in Present(s)' PROVE FALSE
      <3>1. lc'[s] = None /\ \A j \in DataKeys : etcd'[s][j] = None
        BY Zenon, <2>2, <2>3, <2>4, Presence
      <3> QED
        BY Zenon, <2>4, <3>1 DEF Present
    <2>5. lc'[s] # None => ~lc'[s].deleting
      BY Zenon, <2>2 DEF Calm
    <2> QED
      BY Zenon, <2>2, <2>3, <2>4, <2>5
  \* A step on the origin, or on the destination, after which nothing is missing there.
  <1>DataGrows.
      ASSUME NEW s \in Shards, StepsOn(s), Grows(s), NEW p, NEW c, Data(m, p, c),
             \/ s = Home /\ p \notin {"DestinationFinalize", "Completed", "Cancelled"}
             \/ /\ s = Dest[m]
                /\ p \notin {"", "Preparing", "CancellationFinalize", "Cancelled", "Completed"}
      PROVE  Data(m, p, c)'
    <2> USE <1>DataGrows
    <2>1. p \notin Broken /\ HomeData(p, c) /\ DestData(Dest[m], p, c) /\ Dest[m] # Home
      BY Zenon DEF Data, Only
    <2>2. CASE s = Home /\ p \notin {"DestinationFinalize", "Completed", "Cancelled"}
      <3>1. HomeData(p, c)' /\ DestData(Dest[m], p, c)'
        BY Zenon, <2>1, <2>2, <1>HomeGrows, <1>Elsewhere
      <3> QED
        BY Zenon, <2>1, <3>1 DEF Data
    <2>3. CASE /\ s = Dest[m]
               /\ p \notin {"", "Preparing", "CancellationFinalize", "Cancelled", "Completed"}
      <3>1. HomeData(p, c)' /\ DestData(Dest[m], p, c)'
        BY Zenon, <2>1, <2>3, <1>DestGrows, <1>Elsewhere
      <3> QED
        BY Zenon, <2>1, <3>1 DEF Data
    <2> QED
      BY Zenon, <2>2, <2>3
  \* reconcilePreparing up to the annotation.
  <1>PrepareData.
      ASSUME Base, OrderInv(m), DataInv(m), ~wsDeleted,
             NEW s \in Shards, Prepare(s, m)
      PROVE  DataInv(m)'
    <2> USE <1>PrepareData
    <2>1. PICK o : o = Obj(s, m)
      OBVIOUS
    <2>2. ~At(s, m, "idle") /\ UNCHANGED <<mig, lister, outside>>
      BY Zenon, AtReconcile DEF Prepare, Handles, outside
    <2>3. /\ o \in MigrationObjects /\ ObjOK(o) /\ s = Home /\ o.phase = "Preparing"
          /\ m \in Migrations
      BY Zenon, <2>1, <2>2, Reads DEF Prepare, Handles
    <2>4. Owns(s, m, Obj(s, m).phase)
      BY Zenon, <2>1, <2>3 DEF Owns, OriginOwns
    <2>5. Data(m, o.phase, o.cont) /\ Calm
      BY Zenon, <2>1, <2>2, <2>4, OwnerReads
    <2>6. lister[s] # None /\ lister[s].ann \in {None, m}
      BY Zenon, <2>1, <2>3, PrepareSees, OneAnnotation
    <2>7. CASE /\ Return(s, m, [o EXCEPT !.origin = s], TRUE)
               /\ UNCHANGED <<etcd, lc, registry, blocked>>
      <3>1. PICK new : new = [o EXCEPT !.origin = s]
        OBVIOUS
      <3>2. new.phase = o.phase /\ new.cont = o.cont
        BY <2>3, <3>1 DEF MigrationObjects
      <3>3. Return(s, m, new, TRUE) /\ Data(m, new.phase, new.cont)
        BY Zenon, <2>5, <2>7, <3>1, <3>2
      <3> QED
        BY Zenon, <2>2, <2>4, <2>7, <3>3, <1>QuietOwner
    <2>8. CASE Goto(s, m, "register") /\ UNCHANGED <<etcd, lc, registry, blocked>>
      <3>1. StepsOn(s) /\ Data(m, o.phase, o.cont)'
        BY Zenon, <2>2, <2>5, <2>8, <1>Untouched
      <3> QED
        BY Zenon, <2>1, <2>2, <2>4, <2>8, <3>1, <1>OwnerGoesOn
    <2>9. CASE /\ lc[s] = lister[s] /\ SetAnnotation(s, m) /\ Goto(s, m, "register")
               /\ UNCHANGED <<etcd, registry, blocked>>
      <3>1. /\ Grows(s) /\ ~lc'[s].deleting
            /\ \A t \in Shards \ {s} : lc'[t] = lc[t] /\ etcd'[t] = etcd[t]
        BY Zenon, <2>3, <2>5, <2>6, <2>9, <1>AnnotationGrows
      <3>2. StepsOn(s)
        BY Zenon, <2>2, <2>9, <3>1, <1>OnShard
      <3>3. Data(m, o.phase, o.cont)'
        BY Zenon, <2>3, <2>5, <3>1, <3>2, <1>DataGrows
      <3> QED
        BY Zenon, <2>1, <2>2, <2>4, <2>9, <3>2, <3>3, <1>OwnerGoesOn
    <2>10. CASE Fails(s, m)
      BY Zenon, <2>2, <2>10, <1>FailsData
    <2> QED
      BY Zenon, <2>1, <2>6, <2>7, <2>8, <2>9, <2>10 DEF Prepare
  \* The registration and the cancelled context: the copy may begin.
  <1>PrepareRestData.
      ASSUME Base, OrderInv(m), DataInv(m), ~wsDeleted,
             NEW s \in Shards, PrepareRegister(s, m) \/ PrepareBlock(s, m)
      PROVE  DataInv(m)'
    <2> USE <1>PrepareRestData
    <2>1. PICK o : o = Obj(s, m)
      OBVIOUS
    <2>2. /\ ~At(s, m, "idle") /\ UNCHANGED <<mig, lister, etcd, lc>>
          /\ worker[s][m].pc \in {"register", "block"}
      BY Zenon DEF PrepareRegister, PrepareBlock, outside, At
    <2>3. o \in MigrationObjects /\ ObjOK(o) /\ s = Home /\ o.phase = "Preparing"
      BY Zenon, <2>1, <2>2, Reads DEF OrderInv, Stage, Obj
    <2>4. Owns(s, m, Obj(s, m).phase)
      BY Zenon, <2>1, <2>3 DEF Owns, OriginOwns
    <2>5. Data(m, o.phase, o.cont) /\ Calm
      BY Zenon, <2>1, <2>2, <2>4, OwnerReads
    <2>6. \A t \in Shards \ {s} : registry'[t] = registry[t] /\ blocked'[t] = blocked[t]
      BY Zenon, GateLocal DEF PrepareRegister, PrepareBlock, CancelContext
    <2>7. StepsOn(s) /\ Grows(s)
      <3>1. lc'[s] # None => ~lc'[s].deleting
        BY Zenon, <2>2, <2>5 DEF Calm
      <3>2. Grows(s)
        BY Zenon, <2>2 DEF Grows, Present
      <3> QED
        BY Zenon, <2>2, <2>6, <3>1, <3>2, <1>OnShard
    <2>8. Data(m, o.phase, o.cont)'
      BY Zenon, <2>3, <2>5, <2>7, <1>DataGrows
    <2>9. CASE PrepareRegister(s, m)
      BY Zenon, <2>1, <2>2, <2>4, <2>7, <2>8, <2>9, <1>OwnerGoesOn DEF PrepareRegister
    <2>10. CASE PrepareBlock(s, m)
      <3>1. PICK new : new = [o EXCEPT !.phase = "Migrating"]
        OBVIOUS
      <3>2. Return(s, m, new, FALSE)
        BY Zenon, <2>1, <2>10, <3>1 DEF PrepareBlock
      <3>3. new.phase = "Migrating" /\ new.cont = o.cont
        BY <2>3, <3>1 DEF MigrationObjects
      <3>4. new.cont = 0
        BY Zenon, <2>3, <3>3 DEF ObjOK, Broken
      <3>5. \A k \in Keys : ~(k < 0)
        BY ConstantsAssumption DEF Keys
      <3>6. HomeData(new.phase, new.cont)' /\ DestData(Dest[m], new.phase, new.cont)'
        BY Zenon, <2>3, <2>8, <3>3, <3>4, <3>5 DEF Data, HomeData, DestData, Holds
      <3>7. Data(m, new.phase, new.cont)'
        BY Zenon, <3>3, <3>6 DEF Data, Broken
      <3> QED
        BY Zenon, <2>1, <2>2, <2>4, <2>7, <2>8, <3>2, <3>7, <1>OwnerReturns
    <2> QED
      BY Zenon, <2>9, <2>10
  \* A page arrives: with the ones before it, it makes up the keys before the token.
  <1>PageArrives.
      ASSUME Base, Calm, NEW s \in Shards, NEW src, Full(src), NEW c \in Nat,
             c = Obj(s, m).cont, Holds(s, c), NEW p, CopyPage(s, m, src, p)
      PROVE  /\ Grows(s)
             /\ \A t \in Shards \ {s} : lc'[t] = lc[t] /\ etcd'[t] = etcd[t]
             /\ lc'[s] # None => ~lc'[s].deleting
             /\ p.next = 0 => Full(s)'
             /\ p.next # 0 => Holds(s, p.next)'
    <2> USE <1>PageArrives
    <2>1. Write(s, src, p.keys) /\ p \in Pages(src, c)
      BY Zenon DEF CopyPage
    <2>2. /\ Grows(s) /\ \A k \in Keys : k \in p.keys => k \in Present(s)'
          /\ \A t \in Shards \ {s} : lc'[t] = lc[t] /\ etcd'[t] = etcd[t]
          /\ lc'[s] # None => ~lc'[s].deleting
      BY Zenon, <2>1, <1>WriteGrows
    <2>3. \A k \in Keys : ~(k < c) /\ (p.next = 0 \/ k < p.next) => k \in p.keys
      BY Zenon, <2>1, PageCovers
    <2>4. \A k \in Keys : p.next = 0 \/ k < p.next => k \in Present(s)'
      BY Zenon, <2>2, <2>3 DEF Holds, Grows
    <2> QED
      BY Zenon, <2>2, <2>4 DEF Full, Holds
  \* The copy fails: what was written stays.
  <1>CopyFailsGrows.
      ASSUME Base, Calm, NEW s \in Shards, NEW src, Full(src), CopyFails(s, m, src)
      PROVE  /\ Grows(s)
             /\ \A t \in Shards \ {s} : lc'[t] = lc[t] /\ etcd'[t] = etcd[t]
             /\ lc'[s] # None => ~lc'[s].deleting
    <2> USE <1>CopyFailsGrows
    <2>1. CASE UNCHANGED <<etcd, lc, feed, faults>>
      BY Zenon, <2>1 DEF Grows, Present, Calm
    <2>2. CASE \E P : Write(s, src, P)
      BY Zenon, <2>2, <1>WriteGrows
    <2> QED
      BY Zenon, <2>1, <2>2 DEF CopyFails
  \* reconcileMigrating: the destination holds what comes before its token, and
  \* everything when the origin may clean up.
  <1>MigrateData.
      ASSUME Base, OrderInv(m), DataInv(m), ~wsDeleted,
             NEW s \in Shards, Migrate(s, m)
      PROVE  DataInv(m)'
    <2> USE <1>MigrateData
    <2>1. PICK o : o = Obj(s, m)
      OBVIOUS
    <2>2. /\ ~At(s, m, "idle") /\ UNCHANGED <<mig, lister, blocked>>
          /\ o.phase = "Migrating" /\ s = Dest[m]
          /\ registry' = [registry EXCEPT ![s] = IF registry[s] = None THEN m ELSE registry[s]]
      BY Zenon, <2>1, AtReconcile DEF Migrate, Handles, outside, IsDestination
    <2>3. Owns(s, m, Obj(s, m).phase)
      BY Zenon, <2>1, <2>2 DEF Owns, DestinationOwns
    <2>4. o \in MigrationObjects /\ ObjOK(o) /\ Data(m, o.phase, o.cont) /\ Calm
      BY Zenon, <2>1, <2>2, <2>3, OwnerReads
    <2>5. o.origin = Home
      BY Zenon, <2>2, <2>4 DEF ObjOK, Broken
    <2>6. Full(Home) /\ Holds(s, o.cont)
      BY Zenon, <2>2, <2>4 DEF Data, HomeData, DestData
    <2>7. o.cont \in Nat
      <3>1. o.cont \in 0..NumKeys
        BY Zenon, <2>4 DEF MigrationObjects
      <3> QED
        BY <3>1
    <2>8. \A t \in Shards \ {s} : registry'[t] = registry[t] /\ blocked'[t] = blocked[t]
      <3>1. \E r : registry' = [registry EXCEPT ![s] = r]
        BY Zenon, <2>2
      <3>2. PICK r : registry' = [registry EXCEPT ![s] = r]
        BY Zenon, <3>1
      <3>3. \A t \in Shards \ {s} : registry'[t] = registry[t]
        BY Zenon, <3>2, GateLocal
      <3> QED
        BY Zenon, <2>2, <3>3
    <2>9. CASE CopyFails(s, m, o.origin)
      <3>1. /\ Grows(s) /\ \A t \in Shards \ {s} : lc'[t] = lc[t] /\ etcd'[t] = etcd[t]
            /\ lc'[s] # None => ~lc'[s].deleting
        BY Zenon, <2>4, <2>5, <2>6, <2>9, <1>CopyFailsGrows
      <3>2. StepsOn(s)
        BY Zenon, <2>2, <2>8, <3>1, <1>OnShard
      <3>3. Data(m, o.phase, o.cont)'
        BY Zenon, <2>2, <2>4, <3>1, <3>2, <1>DataGrows
      <3>4. Return(s, m, Obj(s, m), TRUE)
        BY Zenon, <2>9 DEF CopyFails
      <3> QED
        BY Zenon, <2>1, <2>2, <2>3, <3>2, <3>3, <3>4, <1>OwnerReturns
    <2>10. ASSUME NEW p, CopyPage(s, m, Home, p),
                  Return(s, m, [o EXCEPT !.cont = p.next, !.copied = p.next = 0,
                                         !.phase = IF p.next = 0 THEN "OriginCleanup" ELSE o.phase],
                         p.next # 0)
           PROVE  DataInv(m)'
      <3>1. /\ Grows(s) /\ \A t \in Shards \ {s} : lc'[t] = lc[t] /\ etcd'[t] = etcd[t]
            /\ lc'[s] # None => ~lc'[s].deleting
            /\ p.next = 0 => Full(s)'
            /\ p.next # 0 => Holds(s, p.next)'
        BY Zenon, <2>1, <2>4, <2>6, <2>7, <2>10, <1>PageArrives
      <3>2. StepsOn(s)
        BY Zenon, <2>2, <2>8, <3>1, <1>OnShard
      <3>3. Data(m, o.phase, o.cont)'
        BY Zenon, <2>2, <2>4, <3>1, <3>2, <1>DataGrows
      <3>4. PICK new : new = [o EXCEPT !.cont = p.next, !.copied = p.next = 0,
                                !.phase = IF p.next = 0 THEN "OriginCleanup" ELSE o.phase]
        OBVIOUS
      <3>5. new.cont = p.next /\ new.phase = IF p.next = 0 THEN "OriginCleanup" ELSE "Migrating"
        BY <2>2, <2>4, <3>4 DEF MigrationObjects
      <3>6. \E rq : Return(s, m, new, rq)
        BY Zenon, <2>10, <3>4
      <3>7. CASE p.next = 0
        <4>1. new.phase = "OriginCleanup" /\ Full(s)'
          BY Zenon, <3>1, <3>5, <3>7
        <4>2. HomeData(new.phase, new.cont)' /\ DestData(Dest[m], new.phase, new.cont)'
          BY Zenon, <2>2, <4>1 DEF HomeData, DestData
        <4> QED
          BY Zenon, <2>1, <2>2, <2>3, <3>2, <3>3, <3>6, <4>1, <4>2, <1>OwnerReturns DEF Data,
             Broken
      <3>8. CASE p.next # 0
        <4>1. new.phase = "Migrating" /\ Holds(s, p.next)'
          BY Zenon, <3>1, <3>5, <3>8
        <4>2. HomeData(new.phase, new.cont)'
          BY Zenon, <2>2, <3>3, <4>1 DEF Data, HomeData
        <4>3. DestData(Dest[m], new.phase, new.cont)'
          BY Zenon, <2>2, <3>5, <4>1 DEF DestData
        <4>4. Data(m, new.phase, new.cont)'
          BY Zenon, <4>1, <4>2, <4>3 DEF Data, Broken
        <4> QED
          BY Zenon, <2>1, <2>2, <2>3, <3>2, <3>3, <3>6, <4>4, <1>OwnerReturns
      <3> QED
        BY Zenon, <3>7, <3>8
    <2> QED
      BY Zenon, <2>1, <2>5, <2>9, <2>10 DEF Migrate
  \* The registration and the context of one shard change, nobody else's.
  <1>GateElsewhere.
      ASSUME Base, NEW s \in Shards,
             UNCHANGED registry \/ \E r : registry' = [registry EXCEPT ![s] = r],
             UNCHANGED blocked \/ \E b : blocked' = [blocked EXCEPT ![s] = b]
      PROVE  \A t \in Shards \ {s} : registry'[t] = registry[t] /\ blocked'[t] = blocked[t]
    <2> USE <1>GateElsewhere
    <2>1. \A t \in Shards \ {s} : registry'[t] = registry[t]
      BY Zenon, GateLocal
    <2>2. \A t \in Shards \ {s} : blocked'[t] = blocked[t]
      BY Zenon, GateLocal
    <2> QED
      BY Zenon, <2>1, <2>2
  \* deleteOriginData: nothing is left, and the shard forgets the LC.
  <1>DeleteDataEmpties.
      ASSUME Base, Calm, NEW s \in Shards, UNCHANGED <<mig, lister>>, DeleteData(s)
      PROVE  StepsOn(s) /\ Empty(s)' /\ Free(s)'
    <2> USE <1>DeleteDataEmpties
    <2>1. /\ Present(s)' = {} /\ \A t \in Shards \ {s} : lc'[t] = lc[t] /\ etcd'[t] = etcd[t]
          /\ lc'[s] # None => ~lc'[s].deleting
      BY Zenon, <1>WipeEmpties DEF DeleteData
    <2>2. registry' = [registry EXCEPT ![s] = None] /\ blocked' = [blocked EXCEPT ![s] = FALSE]
      BY Zenon DEF DeleteData, DeleteContext, Remove
    <2>3. registry'[s] = None /\ ~blocked'[s]
      BY Zenon, <2>2, GateLocal
    <2>4. \A t \in Shards \ {s} : registry'[t] = registry[t] /\ blocked'[t] = blocked[t]
      BY Zenon, <2>2, <1>GateElsewhere
    <2> QED
      BY Zenon, <2>1, <2>3, <2>4, <1>OnShard DEF Empty, Free
  \* deleteOriginData fails.
  <1>DeleteFailsOn.
      ASSUME Base, Calm, NEW s \in Shards, UNCHANGED <<mig, lister>>, DeleteFails(s, m),
             UNCHANGED registry \/ \E r : registry' = [registry EXCEPT ![s] = r],
             UNCHANGED blocked \/ \E b : blocked' = [blocked EXCEPT ![s] = b]
      PROVE  StepsOn(s)
    <2> USE <1>DeleteFailsOn
    <2>1. PICK D : Wipe(s, D)
      BY Zenon DEF DeleteFails
    <2>2. /\ \A t \in Shards \ {s} : lc'[t] = lc[t] /\ etcd'[t] = etcd[t]
          /\ lc'[s] # None => ~lc'[s].deleting
      BY Zenon, <2>1, <1>WipeEmpties
    <2>3. \A t \in Shards \ {s} : registry'[t] = registry[t] /\ blocked'[t] = blocked[t]
      BY Zenon, <1>GateElsewhere
    <2> QED
      BY Zenon, <2>2, <2>3, <1>OnShard
  \* reconcileOriginCleanup: the origin deletes, the destination holds everything.
  <1>OriginCleanupData.
      ASSUME Base, OrderInv(m), DataInv(m), ~wsDeleted,
             NEW s \in Shards, OriginCleanup(s, m)
      PROVE  DataInv(m)'
    <2> USE <1>OriginCleanupData
    <2>1. PICK o : o = Obj(s, m)
      OBVIOUS
    <2>2. /\ ~At(s, m, "idle") /\ UNCHANGED <<mig, lister>>
          /\ o.phase = "OriginCleanup" /\ s = Home
      BY Zenon, <2>1, AtReconcile, Reads DEF OriginCleanup, Handles, outside
    <2>3. Owns(s, m, Obj(s, m).phase)
      BY Zenon, <2>1, <2>2 DEF Owns, OriginOwns
    <2>4. o \in MigrationObjects /\ Data(m, o.phase, o.cont) /\ Calm
      BY Zenon, <2>1, <2>2, <2>3, OwnerReads
    <2>5. ASSUME StepsOn(s)
          PROVE  Full(Dest[m])' /\ Data(m, o.phase, o.cont)'
      <3>1. DestData(Dest[m], o.phase, o.cont)'
        BY Zenon, <2>2, <2>4, <2>5, <1>Elsewhere DEF Data, Only
      <3> QED
        BY Zenon, <2>2, <3>1 DEF Data, HomeData, DestData, Broken
    <2>6. CASE DeleteFails(s, m) /\ UNCHANGED <<registry, blocked>>
      <3>1. StepsOn(s)
        BY Zenon, <2>2, <2>4, <2>6, <1>DeleteFailsOn
      <3>2. Return(s, m, Obj(s, m), TRUE)
        BY Zenon, <2>6 DEF DeleteFails
      <3> QED
        BY Zenon, <2>1, <2>2, <2>3, <2>5, <3>1, <3>2, <1>OwnerReturns
    <2>7. CASE /\ DeleteData(s)
               /\ Return(s, m, [o EXCEPT !.originCleaned = TRUE, !.phase = "DestinationFinalize"], FALSE)
      <3>1. StepsOn(s) /\ Empty(s)' /\ Free(s)'
        BY Zenon, <2>2, <2>4, <2>7, <1>DeleteDataEmpties
      <3>2. PICK new : new = [o EXCEPT !.originCleaned = TRUE, !.phase = "DestinationFinalize"]
        OBVIOUS
      <3>3. new.phase = "DestinationFinalize"
        BY <2>4, <3>2 DEF MigrationObjects
      <3>4. HomeData(new.phase, new.cont)' /\ DestData(Dest[m], new.phase, new.cont)'
        BY Zenon, <2>2, <2>5, <3>1, <3>3 DEF HomeData, DestData
      <3>5. Data(m, new.phase, new.cont)'
        BY Zenon, <3>3, <3>4 DEF Data, Broken
      <3>6. Return(s, m, new, FALSE)
        BY Zenon, <2>7, <3>2
      <3> QED
        BY Zenon, <2>1, <2>2, <2>3, <2>5, <3>1, <3>5, <3>6, <1>OwnerReturns
    <2> QED
      BY Zenon, <2>1, <2>6, <2>7 DEF OriginCleanup
  \* reconcileDestinationFinalize.
  <1>FinalizeData.
      ASSUME Base, OrderInv(m), DataInv(m), ~wsDeleted,
             NEW s \in Shards, DestinationFinalize(s, m)
      PROVE  DataInv(m)'
    <2> USE <1>FinalizeData
    <2>1. PICK o : o = Obj(s, m)
      OBVIOUS
    <2>2. /\ ~At(s, m, "idle") /\ UNCHANGED <<mig, lister, outside>>
          /\ o.phase = "DestinationFinalize" /\ s = Dest[m]
      BY Zenon, <2>1, AtReconcile DEF DestinationFinalize, Handles, outside, IsDestination
    <2>3. Owns(s, m, Obj(s, m).phase)
      BY Zenon, <2>1, <2>2 DEF Owns, DestinationOwns
    <2>4. Data(m, o.phase, o.cont) /\ Calm
      BY Zenon, <2>1, <2>2, <2>3, OwnerReads
    <2>5. CASE Fails(s, m)
      BY Zenon, <2>2, <2>5, <1>FailsData
    <2>6. CASE /\ lc[s] # None /\ SetAnnotation(s, None) /\ Goto(s, m, "finalize")
               /\ UNCHANGED <<etcd, registry, blocked>>
      <3>1. /\ Grows(s) /\ lc'[s].ann = None /\ ~lc'[s].deleting
            /\ \A t \in Shards \ {s} : lc'[t] = lc[t] /\ etcd'[t] = etcd[t]
        BY Zenon, <2>4, <2>6, <1>AnnotationGrows
      <3>2. StepsOn(s)
        BY Zenon, <2>2, <2>6, <3>1, <1>OnShard
      <3>3. Data(m, o.phase, o.cont)'
        BY Zenon, <2>2, <2>4, <3>1, <3>2, <1>DataGrows
      <3> QED
        BY Zenon, <2>1, <2>2, <2>3, <2>6, <3>1, <3>2, <3>3, <1>OwnerGoesOn
    <2> QED
      BY Zenon, <2>5, <2>6 DEF DestinationFinalize
  \* The destination is released: it serves the whole LC, the origin nothing of it.
  <1>DestinationReleaseData.
      ASSUME Base, OrderInv(m), DataInv(m), ~wsDeleted,
             NEW s \in Shards, DestinationRelease(s, m)
      PROVE  DataInv(m)'
    <2> USE <1>DestinationReleaseData
    <2>1. PICK o : o = Obj(s, m)
      OBVIOUS
    <2>2. /\ ~At(s, m, "idle") /\ UNCHANGED <<mig, lister, outside>>
          /\ worker[s][m].pc = "finalize"
      BY Zenon DEF DestinationRelease, outside, At
    <2>3. s = Dest[m] /\ o.phase = "DestinationFinalize" /\ s # Home
      BY Zenon, <2>1, <2>2 DEF OrderInv, Stage, Obj, Only
    <2>4. Owns(s, m, Obj(s, m).phase)
      BY Zenon, <2>1, <2>3 DEF Owns, DestinationOwns
    <2>5. o \in MigrationObjects /\ Data(m, o.phase, o.cont) /\ Calm
      BY Zenon, <2>1, <2>2, <2>4, OwnerReads
    <2>6. lc[s].ann = None
      BY Zenon, <2>2 DEF DataInv, Does
    <2>7. CASE Fails(s, m)
      BY Zenon, <2>2, <2>7, <1>FailsData
    <2>8. CASE /\ ~blocked[s] /\ Remove(s)
               /\ Return(s, m, [o EXCEPT !.phase = "Completed"], FALSE)
               /\ UNCHANGED <<etcd, lc, blocked>>
      <3>1. registry'[s] = None /\ \A t \in Shards \ {s} : registry'[t] = registry[t]
        BY Zenon, <2>8, GateLocal DEF Remove
      <3>2. lc'[s] # None => ~lc'[s].deleting
        BY Zenon, <2>5, <2>8 DEF Calm
      <3>3. StepsOn(s) /\ Grows(s)
        <4>1. Grows(s)
          BY Zenon, <2>8 DEF Grows, Present
        <4> QED
          BY Zenon, <2>2, <2>8, <3>1, <3>2, <4>1, <1>OnShard
      <3>4. Data(m, o.phase, o.cont)'
        BY Zenon, <2>3, <2>5, <3>3, <1>DataGrows
      <3>5. PICK new : new = [o EXCEPT !.phase = "Completed"]
        OBVIOUS
      <3>6. new.phase = "Completed"
        BY <2>5, <3>5 DEF MigrationObjects
      <3>7. Free(s)' /\ Plain(s)'
        BY Zenon, <2>6, <2>8, <3>1 DEF Free, Plain
      <3>8. HomeData(new.phase, new.cont)' /\ DestData(Dest[m], new.phase, new.cont)'
        BY Zenon, <2>3, <3>4, <3>6, <3>7 DEF Data, HomeData, DestData
      <3>9. Data(m, new.phase, new.cont)'
        BY Zenon, <3>6, <3>8 DEF Data, Broken
      <3>10. Return(s, m, new, FALSE)
        BY Zenon, <2>8, <3>5
      <3> QED
        BY Zenon, <2>1, <2>2, <2>4, <3>3, <3>4, <3>9, <3>10, <1>OwnerReturns
    <2> QED
      BY Zenon, <2>1, <2>7, <2>8 DEF DestinationRelease
  \* The registration and the cancelled context of a shard that holds its data.
  <1>RegisterGrows.
      ASSUME Base, Calm, NEW s \in Shards, RegisterCancellation(s, m),
             UNCHANGED <<mig, lister, etcd, lc>>
      PROVE  StepsOn(s) /\ Grows(s)
    <2> USE <1>RegisterGrows
    <2>1. \A t \in Shards \ {s} : registry'[t] = registry[t] /\ blocked'[t] = blocked[t]
      BY Zenon, <1>GateElsewhere DEF RegisterCancellation, CancelContext
    <2>2. lc'[s] # None => ~lc'[s].deleting
      BY Zenon DEF Calm
    <2>3. Grows(s)
      BY Zenon DEF Grows, Present
    <2> QED
      BY Zenon, <2>1, <2>2, <2>3, <1>OnShard
  \* The origin keeps its copy blocked, while the destination may be a step ahead.
  <1>KeepBlockedData.
      ASSUME Base, OrderInv(m), DataInv(m), ~wsDeleted,
             NEW s \in Shards, KeepBlocked(s, m)
      PROVE  DataInv(m)'
    <2> USE <1>KeepBlockedData
    <2> DEFINE o == Obj(s, m)
    <2>1. /\ ~At(s, m, "idle") /\ UNCHANGED <<mig, lister, outside>> /\ IsOrigin(s, o)
          /\ o.phase \in {"CancellationPreparing", "CancellationCleanup"}
      BY Zenon, AtReconcile DEF KeepBlocked, outside, Handles
    <2>2. s = Home /\ Dest[m] # Home /\ Knows(s, m, worker[s][m]) /\ Calm /\ Standing(m)
      BY Zenon, <2>1, Reads DEF OrderInv, DataInv, Only
    <2>3. mig[m].phase \in {"CancellationPreparing", "Restoring", "CancellationCleanup",
                            "CancellationFinalize"}
      BY Zenon, <2>1, <2>2 DEF Knows, At, Obj
    <2>4. CASE Fails(s, m)
      BY Zenon, <2>1, <2>4, <1>FailsData
    <2>5. CASE RegisterCancellation(s, m) /\ Return(s, m, o, FALSE) /\ UNCHANGED <<etcd, lc>>
      <3>1. StepsOn(s) /\ Grows(s)
        BY Zenon, <2>1, <2>2, <2>5, <1>RegisterGrows
      <3>2. PICK q : q = mig[m]
        OBVIOUS
      <3>3. Data(m, q.phase, q.cont)'
        <4>1. Data(m, q.phase, q.cont) /\ q.phase \notin {"DestinationFinalize", "Completed", "Cancelled"}
          BY Zenon, <2>2, <2>3, <3>2 DEF Standing
        <4> QED
          BY Zenon, <2>2, <3>1, <4>1, <1>DataGrows
      <3>4. ASSUME NEW t \in Shards \ {s}, NEW n, worker[t][m].pc = "commit", n = worker[t][m].new
            PROVE  Data(m, n.phase, n.cont)'
        <4>1. t \in Shards /\ t # Home
          BY Zenon, <2>2
        <4>2. Moves(t, m, mig[m].phase, n.phase) /\ Data(m, n.phase, n.cont)
          BY Zenon, <3>4, <4>1, Committer
        <4>3. n.phase \in {"Restoring", "CancellationFinalize"}
          BY Zenon, <2>3, <4>1, <4>2 DEF Moves, Broken
        <4> QED
          BY Zenon, <2>2, <3>1, <4>2, <4>3, <1>DataGrows
      <3>5. /\ \A t \in Shards \ {s} : lc'[t] = lc[t]
            /\ lc'[s] # None => ~lc'[s].deleting
        BY Zenon, <3>1 DEF StepsOn, SameShard
      <3> QED
        BY Zenon, <2>1, <2>5, <3>2, <3>3, <3>4, <3>5, <1>QuietReturns
    <2> QED
      BY Zenon, <2>4, <2>5 DEF KeepBlocked
  \* blockForCancellation annotates the copy it keeps.
  <1>BlockGrows.
      ASSUME Base, Calm, m \in Migrations, NEW s \in Shards, RegisterCancellation(s, m),
             lc[s] # None, SetAnnotation(s, m), UNCHANGED <<mig, lister, etcd>>
      PROVE  StepsOn(s) /\ Grows(s)
    <2> USE <1>BlockGrows
    <2>1. /\ Grows(s) /\ ~lc'[s].deleting
          /\ \A t \in Shards \ {s} : lc'[t] = lc[t] /\ etcd'[t] = etcd[t]
      BY Zenon, <1>AnnotationGrows
    <2>2. \A t \in Shards \ {s} : registry'[t] = registry[t] /\ blocked'[t] = blocked[t]
      BY Zenon, <1>GateElsewhere DEF RegisterCancellation, CancelContext
    <2> QED
      BY Zenon, <2>1, <2>2, <1>OnShard
  \* blockForCancellation: the destination, which holds everything, is blocked before
  \* the origin copies back, and again while it does.
  <1>BlockData.
      ASSUME Base, OrderInv(m), DataInv(m), ~wsDeleted,
             NEW s \in Shards, BlockForCancellation(s, m)
      PROVE  DataInv(m)'
    <2> USE <1>BlockData
    <2>1. PICK o : o = Obj(s, m)
      OBVIOUS
    <2>2. /\ ~At(s, m, "idle") /\ UNCHANGED <<mig, lister, outside>>
          /\ o.phase \in {"CancellationPreparing", "Restoring"} /\ s = Dest[m] /\ s # Home
      BY Zenon, <2>1, AtReconcile DEF BlockForCancellation, outside, Handles, IsDestination, Only
    <2>3. o \in MigrationObjects /\ ObjOK(o) /\ m \in Migrations
      BY Zenon, <2>1, <2>2, Reads
    <2>4. Calm /\ Standing(m) /\ Knows(s, m, worker[s][m])
      BY Zenon DEF DataInv, OrderInv
    <2>5. CASE Fails(s, m)
      BY Zenon, <2>2, <2>5, <1>FailsData
    <2>6. ASSUME ~Fails(s, m)
          PROVE  /\ StepsOn(s) /\ Grows(s)
                 /\ \/ Return(s, m, Obj(s, m), TRUE)
                    \/ Return(s, m, [o EXCEPT !.phase = "Restoring"], o.phase = "CancellationPreparing")
      <3>1. RegisterCancellation(s, m) /\ UNCHANGED etcd
        BY Zenon, <2>6 DEF BlockForCancellation
      <3>2. UNCHANGED lc \/ (lc[s] # None /\ SetAnnotation(s, m))
        BY Zenon, <2>6 DEF BlockForCancellation
      <3>3. StepsOn(s) /\ Grows(s)
        BY Zenon, <2>2, <2>3, <2>4, <3>1, <3>2, <1>RegisterGrows, <1>BlockGrows
      <3> QED
        BY Zenon, <2>1, <2>6, <3>3 DEF BlockForCancellation
    <2>7. CASE o.phase = "CancellationPreparing" /\ ~Fails(s, m)
      <3>1. Owns(s, m, Obj(s, m).phase)
        BY Zenon, <2>1, <2>2, <2>7 DEF Owns, DestinationOwns
      <3>2. Data(m, o.phase, o.cont)
        BY Zenon, <2>1, <2>2, <3>1, OwnerReads
      <3>3. Data(m, o.phase, o.cont)' /\ StepsOn(s)
        BY Zenon, <2>2, <2>6, <2>7, <3>2, <1>DataGrows
      <3>4. PICK new : new = [o EXCEPT !.phase = "Restoring"]
        OBVIOUS
      <3>5. new.phase = "Restoring" /\ new.cont = o.cont
        BY <2>3, <3>4 DEF MigrationObjects
      <3>6. new.cont = 0 /\ \A k \in Keys : ~(k < 0)
        <4>1. \A k \in Keys : ~(k < 0)
          BY ConstantsAssumption DEF Keys
        <4> QED
          BY Zenon, <2>3, <2>7, <3>5, <4>1 DEF ObjOK, Broken
      <3>7. HomeData(new.phase, new.cont)' /\ DestData(Dest[m], new.phase, new.cont)'
        BY Zenon, <2>7, <3>3, <3>5, <3>6 DEF Data, HomeData, DestData, Holds
      <3>8. Data(m, new.phase, new.cont)'
        BY Zenon, <3>5, <3>7 DEF Data, Broken
      <3>9. \E rq : Return(s, m, Obj(s, m), rq) \/ Return(s, m, new, rq)
        BY Zenon, <2>6, <2>7, <3>4
      <3> QED
        BY Zenon, <2>1, <2>2, <3>1, <3>3, <3>8, <3>9, <1>OwnerReturns
    <2>8. CASE o.phase = "Restoring" /\ ~Fails(s, m)
      <3>1. mig[m].phase \in {"Restoring", "CancellationCleanup"}
        BY Zenon, <2>1, <2>2, <2>4, <2>8 DEF Knows, At, Obj
      <3>2. PICK q : q = mig[m]
        OBVIOUS
      <3>3. Data(m, q.phase, q.cont)'
        <4>1. /\ Data(m, q.phase, q.cont)
              /\ q.phase \notin {"", "Preparing", "CancellationFinalize", "Cancelled", "Completed"}
          BY Zenon, <2>4, <3>1, <3>2 DEF Standing
        <4> QED
          BY Zenon, <2>2, <2>6, <2>8, <4>1, <1>DataGrows
      <3>4. ASSUME NEW t \in Shards \ {s}, NEW n, worker[t][m].pc = "commit", n = worker[t][m].new
            PROVE  Data(m, n.phase, n.cont)'
        <4>1. t \in Shards /\ t # Dest[m]
          BY Zenon, <2>2
        <4>2. Moves(t, m, mig[m].phase, n.phase) /\ Data(m, n.phase, n.cont)
          BY Zenon, <3>4, <4>1, Committer
        <4>3. n.phase \in {"Restoring", "CancellationCleanup"}
          BY Zenon, <3>1, <4>1, <4>2 DEF Moves, Broken
        <4> QED
          BY Zenon, <2>2, <2>6, <2>8, <4>2, <4>3, <1>DataGrows
      <3>5. /\ \A t \in Shards \ {s} : lc'[t] = lc[t]
            /\ lc'[s] # None => ~lc'[s].deleting
        BY Zenon, <2>6, <2>8 DEF StepsOn, SameShard
      <3>6. [o EXCEPT !.phase = "Restoring"] = o
        BY Zenon, <2>3, <2>8 DEF MigrationObjects
      <3>7. \E rq : Return(s, m, Obj(s, m), rq)
        BY Zenon, <2>1, <2>6, <2>8, <3>6
      <3> QED
        BY Zenon, <2>2, <3>2, <3>3, <3>4, <3>5, <3>7, <1>QuietReturns
    <2> QED
      BY Zenon, <2>2, <2>5, <2>7, <2>8
  \* reconcileRestoring: the origin holds what comes before its token, and everything
  \* when the destination may clean up.
  <1>RestoreData.
      ASSUME Base, OrderInv(m), DataInv(m), ~wsDeleted,
             NEW s \in Shards, Restore(s, m)
      PROVE  DataInv(m)'
    <2> USE <1>RestoreData
    <2>1. PICK o : o = Obj(s, m)
      OBVIOUS
    <2>2. /\ ~At(s, m, "idle") /\ UNCHANGED <<mig, lister, outside>>
          /\ o.phase = "Restoring" /\ s = Home
      BY Zenon, <2>1, AtReconcile, Reads DEF Restore, Handles, outside
    <2>3. Owns(s, m, Obj(s, m).phase)
      BY Zenon, <2>1, <2>2 DEF Owns, OriginOwns
    <2>4. o \in MigrationObjects /\ Data(m, o.phase, o.cont) /\ Calm
      BY Zenon, <2>1, <2>2, <2>3, OwnerReads
    <2>5. Full(Dest[m]) /\ Holds(s, o.cont) /\ o.cont \in Nat
      <3>1. o.cont \in 0..NumKeys
        BY Zenon, <2>4 DEF MigrationObjects
      <3>2. o.cont \in Nat
        BY <3>1
      <3> QED
        BY Zenon, <2>2, <2>4, <3>2 DEF Data, HomeData, DestData
    <2>6. CASE Fails(s, m)
      BY Zenon, <2>2, <2>6, <1>FailsData
    <2>7. CASE ~Fails(s, m)
      <3>1. \A t \in Shards \ {s} : registry'[t] = registry[t] /\ blocked'[t] = blocked[t]
        <4>1. RegisterCancellation(s, m)
          BY Zenon, <2>7 DEF Restore
        <4> QED
          BY Zenon, <4>1, <1>GateElsewhere DEF RegisterCancellation, CancelContext
      <3>2. CASE CopyFails(s, m, Dest[m])
        <4>1. /\ Grows(s) /\ \A t \in Shards \ {s} : lc'[t] = lc[t] /\ etcd'[t] = etcd[t]
              /\ lc'[s] # None => ~lc'[s].deleting
          BY Zenon, <2>4, <2>5, <3>2, <1>CopyFailsGrows
        <4>2. StepsOn(s)
          BY Zenon, <2>2, <3>1, <4>1, <1>OnShard
        <4>3. Data(m, o.phase, o.cont)'
          BY Zenon, <2>2, <2>4, <4>1, <4>2, <1>DataGrows
        <4>4. Return(s, m, Obj(s, m), TRUE)
          BY Zenon, <3>2 DEF CopyFails
        <4> QED
          BY Zenon, <2>1, <2>2, <2>3, <4>2, <4>3, <4>4, <1>OwnerReturns
      <3>3. ASSUME NEW p, CopyPage(s, m, Dest[m], p),
                   Return(s, m, [o EXCEPT !.cont = p.next,
                      !.phase = IF p.next = 0 THEN "CancellationCleanup" ELSE o.phase], TRUE)
            PROVE  DataInv(m)'
        <4>1. /\ Grows(s) /\ \A t \in Shards \ {s} : lc'[t] = lc[t] /\ etcd'[t] = etcd[t]
              /\ lc'[s] # None => ~lc'[s].deleting
              /\ p.next = 0 => Full(s)'
              /\ p.next # 0 => Holds(s, p.next)'
          BY Zenon, <2>1, <2>4, <2>5, <3>3, <1>PageArrives
        <4>2. StepsOn(s)
          BY Zenon, <2>2, <3>1, <4>1, <1>OnShard
        <4>3. Data(m, o.phase, o.cont)'
          BY Zenon, <2>2, <2>4, <4>1, <4>2, <1>DataGrows
        <4>4. PICK new : new = [o EXCEPT !.cont = p.next,
                           !.phase = IF p.next = 0 THEN "CancellationCleanup" ELSE o.phase]
          OBVIOUS
        <4>5. new.cont = p.next /\ new.phase = IF p.next = 0 THEN "CancellationCleanup" ELSE "Restoring"
          BY <2>2, <2>4, <4>4 DEF MigrationObjects
        <4>6. Data(m, new.phase, new.cont)'
          <5>1. CASE p.next = 0
            <6>1. new.phase = "CancellationCleanup" /\ Full(s)'
              BY Zenon, <4>1, <4>5, <5>1
            <6>2. HomeData(new.phase, new.cont)' /\ DestData(Dest[m], new.phase, new.cont)'
              BY Zenon, <2>2, <6>1 DEF HomeData, DestData
            <6> QED
              BY Zenon, <6>1, <6>2 DEF Data, Broken
          <5>2. CASE p.next # 0
            <6>1. new.phase = "Restoring" /\ Holds(s, p.next)'
              BY Zenon, <4>1, <4>5, <5>2
            <6>2. DestData(Dest[m], new.phase, new.cont)'
              BY Zenon, <2>2, <4>3, <6>1 DEF Data, DestData
            <6>3. HomeData(new.phase, new.cont)'
              BY Zenon, <2>2, <4>5, <6>1 DEF HomeData
            <6> QED
              BY Zenon, <6>1, <6>2, <6>3 DEF Data, Broken
          <5> QED
            BY Zenon, <5>1, <5>2
        <4>7. Return(s, m, new, TRUE)
          BY Zenon, <3>3, <4>4
        <4> QED
          BY Zenon, <2>1, <2>2, <2>3, <4>2, <4>3, <4>6, <4>7, <1>OwnerReturns
      <3> QED
        BY Zenon, <2>1, <2>7, <3>2, <3>3 DEF Restore
    <2> QED
      BY Zenon, <2>6, <2>7
  \* reconcileCancellationCleanup: the destination deletes, the origin holds everything.
  <1>CancellationCleanupData.
      ASSUME Base, OrderInv(m), DataInv(m), ~wsDeleted,
             NEW s \in Shards, CancellationCleanup(s, m)
      PROVE  DataInv(m)'
    <2> USE <1>CancellationCleanupData
    <2>1. PICK o : o = Obj(s, m)
      OBVIOUS
    <2>2. /\ ~At(s, m, "idle") /\ UNCHANGED <<mig, lister, outside>>
          /\ o.phase = "CancellationCleanup" /\ s = Dest[m] /\ s # Home
      BY Zenon, <2>1, AtReconcile DEF CancellationCleanup, Handles, outside, IsDestination, Only
    <2>3. Owns(s, m, Obj(s, m).phase)
      BY Zenon, <2>1, <2>2 DEF Owns, DestinationOwns
    <2>4. o \in MigrationObjects /\ Data(m, o.phase, o.cont) /\ Calm
      BY Zenon, <2>1, <2>2, <2>3, OwnerReads
    <2>5. ASSUME StepsOn(s)
          PROVE  Full(Home)' /\ Data(m, o.phase, o.cont)'
      <3>1. HomeData(o.phase, o.cont)'
        BY Zenon, <2>2, <2>4, <2>5, <1>Elsewhere DEF Data
      <3> QED
        BY Zenon, <2>2, <3>1 DEF Data, HomeData, DestData, Broken
    <2>6. CASE Fails(s, m)
      BY Zenon, <2>2, <2>6, <1>FailsData
    <2>7. CASE RegisterCancellation(s, m) /\ DeleteFails(s, m)
      <3>1. StepsOn(s)
        BY Zenon, <2>2, <2>4, <2>7, <1>DeleteFailsOn DEF RegisterCancellation, CancelContext
      <3>2. Return(s, m, Obj(s, m), TRUE)
        BY Zenon, <2>7 DEF DeleteFails
      <3> QED
        BY Zenon, <2>1, <2>2, <2>3, <2>5, <3>1, <3>2, <1>OwnerReturns
    <2>8. CASE DeleteData(s) /\ Return(s, m, [o EXCEPT !.phase = "CancellationFinalize"], TRUE)
      <3>1. StepsOn(s) /\ Empty(s)' /\ Free(s)'
        BY Zenon, <2>2, <2>4, <2>8, <1>DeleteDataEmpties
      <3>2. PICK new : new = [o EXCEPT !.phase = "CancellationFinalize"]
        OBVIOUS
      <3>3. new.phase = "CancellationFinalize"
        BY <2>4, <3>2 DEF MigrationObjects
      <3>4. HomeData(new.phase, new.cont)' /\ DestData(Dest[m], new.phase, new.cont)'
        BY Zenon, <2>2, <2>5, <3>1, <3>3 DEF HomeData, DestData
      <3>5. Data(m, new.phase, new.cont)'
        BY Zenon, <3>3, <3>4 DEF Data, Broken
      <3>6. Return(s, m, new, TRUE)
        BY Zenon, <2>8, <3>2
      <3> QED
        BY Zenon, <2>1, <2>2, <2>3, <2>5, <3>1, <3>5, <3>6, <1>OwnerReturns
    <2> QED
      BY Zenon, <2>1, <2>6, <2>7, <2>8 DEF CancellationCleanup
  \* finalizeCancellation up to the annotation.
  <1>CancellationFinalizeData.
      ASSUME Base, OrderInv(m), DataInv(m), ~wsDeleted,
             NEW s \in Shards, CancellationFinalize(s, m)
      PROVE  DataInv(m)'
    <2> USE <1>CancellationFinalizeData
    <2>1. PICK o : o = Obj(s, m)
      OBVIOUS
    <2>2. /\ ~At(s, m, "idle") /\ UNCHANGED <<mig, lister>>
          /\ o.phase = "CancellationFinalize" /\ s = Home
      BY Zenon, <2>1, AtReconcile, Reads DEF CancellationFinalize, Handles, outside
    <2>3. Owns(s, m, Obj(s, m).phase)
      BY Zenon, <2>1, <2>2 DEF Owns, OriginOwns
    <2>4. o \in MigrationObjects /\ Data(m, o.phase, o.cont) /\ Calm
      BY Zenon, <2>1, <2>2, <2>3, OwnerReads
    <2>5. lc[s] # None /\ lc[s].ann \in {None, m}
      <3>1. Full(s)
        BY Zenon, <2>2, <2>4 DEF Data, HomeData
      <3>2. lc[s] # None
        BY Zenon, <3>1, Presence DEF Full
      <3> QED
        BY Zenon, <3>2, OneAnnotation
    <2>6. /\ UNCHANGED registry /\ (UNCHANGED blocked \/ \E b : blocked' = [blocked EXCEPT ![s] = b])
          /\ UNCHANGED etcd
      <3>1. UNCHANGED blocked \/ DeleteContext(s)
        BY Zenon, <2>1, <2>5 DEF CancellationFinalize
      <3> QED
        BY Zenon, <2>5, <3>1 DEF CancellationFinalize, DeleteContext
    <2>7. \A t \in Shards \ {s} : registry'[t] = registry[t] /\ blocked'[t] = blocked[t]
      BY Zenon, <2>6, <1>GateElsewhere
    <2>8. CASE SetAnnotation(s, None) /\ Goto(s, m, "check")
      <3>1. /\ Grows(s) /\ lc'[s].ann = None /\ ~lc'[s].deleting
            /\ \A t \in Shards \ {s} : lc'[t] = lc[t] /\ etcd'[t] = etcd[t]
        BY Zenon, <2>4, <2>5, <2>6, <2>8, <1>AnnotationGrows
      <3>2. StepsOn(s)
        BY Zenon, <2>2, <2>7, <3>1, <1>OnShard
      <3>3. Data(m, o.phase, o.cont)'
        BY Zenon, <2>2, <2>4, <3>1, <3>2, <1>DataGrows
      <3> QED
        BY Zenon, <2>1, <2>2, <2>3, <2>8, <3>1, <3>2, <3>3, <1>OwnerGoesOn
    <2>9. CASE Return(s, m, Obj(s, m), TRUE) /\ UNCHANGED lc
      <3>1. lc'[s] # None => ~lc'[s].deleting
        BY Zenon, <2>4, <2>9 DEF Calm
      <3>2. StepsOn(s)
        BY Zenon, <2>2, <2>6, <2>7, <2>9, <3>1, <1>OnShard
      <3>3. Grows(s)
        BY Zenon, <2>6, <2>9 DEF Grows, Present
      <3>4. Data(m, o.phase, o.cont)'
        BY Zenon, <2>2, <2>4, <3>2, <3>3, <1>DataGrows
      <3> QED
        BY Zenon, <2>1, <2>2, <2>3, <2>9, <3>2, <3>4, <1>OwnerReturns
    <2> QED
      BY Zenon, <2>1, <2>5, <2>8, <2>9 DEF CancellationFinalize
  \* The rest of finalizeCancellation: the origin serves the whole LC again.
  <1>CancellationReleaseData.
      ASSUME Base, OrderInv(m), DataInv(m), ~wsDeleted,
             NEW s \in Shards, CancellationCheck(s, m) \/ CancellationRelease(s, m)
      PROVE  DataInv(m)'
    <2> USE <1>CancellationReleaseData
    <2>1. PICK o : o = Obj(s, m)
      OBVIOUS
    <2>2. /\ ~At(s, m, "idle") /\ UNCHANGED <<mig, lister, etcd, lc>>
          /\ worker[s][m].pc \in {"check", "release"}
      BY Zenon DEF CancellationCheck, CancellationRelease, outside, At
    <2>3. s = Home /\ o.phase = "CancellationFinalize"
      BY Zenon, <2>1, <2>2 DEF OrderInv, Stage, Obj
    <2>4. Owns(s, m, Obj(s, m).phase)
      BY Zenon, <2>1, <2>3 DEF Owns, OriginOwns
    <2>5. o \in MigrationObjects /\ Data(m, o.phase, o.cont) /\ Calm
      BY Zenon, <2>1, <2>2, <2>4, OwnerReads
    <2>6. lc[s].ann = None
      BY Zenon, <2>2 DEF DataInv, Does
    <2>7. CASE CancellationCheck(s, m)
      <3>1. UNCHANGED <<registry, blocked>> /\ (Goto(s, m, "release") \/ Return(s, m, Obj(s, m), TRUE))
        BY Zenon, <2>7 DEF CancellationCheck
      <3>2. StepsOn(s) /\ Data(m, o.phase, o.cont)'
        BY Zenon, <2>2, <2>5, <3>1, <1>Untouched
      <3>3. lc'[s].ann = None
        BY Zenon, <2>2, <2>6
      <3>4. CASE Goto(s, m, "release")
        BY Zenon, <2>1, <2>2, <2>4, <3>2, <3>3, <3>4, <1>OwnerGoesOn
      <3>5. CASE Return(s, m, Obj(s, m), TRUE)
        BY Zenon, <2>1, <2>2, <2>4, <3>2, <3>5, <1>OwnerReturns
      <3> QED
        BY Zenon, <3>1, <3>4, <3>5
    <2>8. CASE CancellationRelease(s, m)
      <3>1. registry' = [registry EXCEPT ![s] = None] /\ blocked' = [blocked EXCEPT ![s] = FALSE]
        BY Zenon, <2>8 DEF CancellationRelease, Remove, DeleteContext
      <3>2. registry'[s] = None /\ ~blocked'[s]
        BY Zenon, <3>1, GateLocal
      <3>3. \A t \in Shards \ {s} : registry'[t] = registry[t] /\ blocked'[t] = blocked[t]
        BY Zenon, <3>1, <1>GateElsewhere
      <3>4. lc'[s] # None => ~lc'[s].deleting
        BY Zenon, <2>2, <2>5 DEF Calm
      <3>5. StepsOn(s) /\ Grows(s)
        <4>1. Grows(s)
          BY Zenon, <2>2 DEF Grows, Present
        <4> QED
          BY Zenon, <2>2, <3>3, <3>4, <4>1, <1>OnShard
      <3>6. Data(m, o.phase, o.cont)'
        BY Zenon, <2>3, <2>5, <3>5, <1>DataGrows
      <3>7. PICK new : new = [o EXCEPT !.phase = "Cancelled"]
        OBVIOUS
      <3>8. new.phase = "Cancelled"
        BY <2>5, <3>7 DEF MigrationObjects
      <3>9. Free(s)' /\ Plain(s)'
        BY Zenon, <2>2, <2>6, <3>2 DEF Free, Plain
      <3>10. HomeData(new.phase, new.cont)' /\ DestData(Dest[m], new.phase, new.cont)'
        BY Zenon, <2>3, <3>6, <3>8, <3>9 DEF Data, HomeData, DestData
      <3>11. Data(m, new.phase, new.cont)'
        BY Zenon, <3>8, <3>10 DEF Data, Broken
      <3>12. Return(s, m, new, TRUE)
        BY Zenon, <2>1, <2>8, <3>7 DEF CancellationRelease
      <3> QED
        BY Zenon, <2>1, <2>2, <2>4, <3>5, <3>6, <3>11, <3>12, <1>OwnerReturns
    <2> QED
      BY Zenon, <2>7, <2>8
  \* process reads the object.
  <1>GetData.
      ASSUME Base, OrderInv(m), DataInv(m), ~wsDeleted,
             NEW s \in Shards, Get(s, m)
      PROVE  DataInv(m)'
    <2> USE <1>GetData
    <2>1. UNCHANGED <<mig, lister, etcd, lc, registry, blocked>> /\ m \in Migrations
      BY Zenon DEF Get, Only
    <2>2. Calm /\ Standing(m) /\ \A t \in Shards : Does(t, m, worker[t][m])
      BY Zenon DEF DataInv
    <2>3. \A p, c : Data(m, p, c) => Data(m, p, c)'
      BY Zenon, <2>1, <1>Untouched
    <2>4. Calm'
      BY Zenon, <2>1, <2>2 DEF Calm
    <2>5. Standing(m)'
      <3>1. PICK q : q = mig[m]
        OBVIOUS
      <3>2. Data(m, q.phase, q.cont)' /\ mig'[m] = q
        BY Zenon, <2>1, <2>2, <2>3, <3>1 DEF Standing
      <3> QED
        BY Zenon, <2>1, <2>2, <3>1, <3>2 DEF Standing, Data
    <2>6. ASSUME NEW t \in Shards, worker'[t][m] = worker[t][m] PROVE Does(t, m, worker[t][m])'
      <3>1. PICK w : w = worker[t][m]
        OBVIOUS
      <3>2. Does(t, m, w)
        BY Zenon, <2>2, <3>1
      <3>3. w.pc = "commit" => Data(m, w.new.phase, w.new.cont)'
        BY Zenon, <2>3, <3>2 DEF Does
      <3> QED
        BY Zenon, <2>1, <2>6, <3>1, <3>2, <3>3 DEF Does, Data
    <2>7. CASE UNCHANGED worker
      BY Zenon, <2>4, <2>5, <2>6, <2>7 DEF DataInv
    <2>8. CASE worker' = [worker EXCEPT ![s][m] = [@ EXCEPT !.pc = "reconcile", !.obj = mig[m]]]
      <3> DEFINE x == [worker[s][m] EXCEPT !.pc = "reconcile", !.obj = mig[m]]
      <3>1. worker \in [Shards -> [Migrations -> Workers]] /\ worker[s][m] \in Workers
        BY Zenon, <2>1 DEF Base, MigrationInv, WorkersInv
      <3>2. worker'[s][m] = x /\ \A t \in Shards \ {s} : worker'[t][m] = worker[t][m]
        BY Zenon, <2>1, <2>8, <3>1
      <3>3. x.pc = "reconcile" /\ x.obj = mig[m]
        BY <3>1 DEF Workers
      <3> HIDE DEF x
      <3>4. mig[m].phase \notin Broken
        BY Zenon, <2>2 DEF Standing, Data
      <3>5. mig[m].phase = "Migrating" => lister[Home] # None /\ lc[Home] # None
        BY Zenon, <2>2, Presence DEF Standing, Data, HomeData, Full
      <3>6. Does(s, m, worker[s][m])'
        BY Zenon, <2>1, <3>2, <3>3, <3>4, <3>5 DEF Does
      <3>7. \A t \in Shards : Does(t, m, worker[t][m])'
        BY Zenon, <2>6, <3>2, <3>6
      <3> QED
        BY Zenon, <2>4, <2>5, <3>7 DEF DataInv
    <2> QED
      BY Zenon, <2>7, <2>8 DEF Get
  \* Around the workers: informers, restarts, requests. What is said of the shards
  \* stays, workers may be gone, informers may have caught up.
  <1>AroundData.
      ASSUME DataInv(m), ~wsDeleted, UNCHANGED lc,
             mig'[m].phase = mig[m].phase, mig'[m].cont = mig[m].cont,
             \A t \in Shards : worker'[t][m] = worker[t][m] \/ worker'[t][m] = Idle,
             \A t \in Shards : lister'[t] = lister[t] \/ lister'[t] = lc[t],
             \A p, c : Data(m, p, c) => Data(m, p, c)'
      PROVE  DataInv(m)'
    <2> USE <1>AroundData
    <2>1. Calm /\ Standing(m) /\ \A t \in Shards : Does(t, m, worker[t][m])
      BY Zenon DEF DataInv
    <2>2. Calm'
      BY Zenon, <2>1 DEF Calm
    <2>3. Standing(m)'
      <3>1. PICK q : q = mig[m]
        OBVIOUS
      <3>2. Data(m, q.phase, q.cont)' /\ mig'[m].phase = q.phase /\ mig'[m].cont = q.cont
        BY Zenon, <2>1, <3>1 DEF Standing
      <3>3. mig[m].phase \in {"", "Preparing", "Migrating"} => lc[Home] # None
        BY Zenon, <2>1, Presence DEF Standing, Data, HomeData, Full
      <3>4. mig[m].phase \in {"", "Preparing", "Migrating"} => lister'[Home] # None
        BY Zenon, <2>1, <3>3, HomeThere DEF Standing
      <3> QED
        BY Zenon, <3>1, <3>2, <3>4 DEF Standing, Data
    <2>4. ASSUME NEW t \in Shards PROVE Does(t, m, worker[t][m])'
      <3>1. PICK w : w = worker[t][m]
        OBVIOUS
      <3>2. Does(t, m, w)
        BY Zenon, <2>1, <3>1
      <3>3. w.pc = "commit" /\ w.pc # "idle" => Data(m, w.new.phase, w.new.cont)'
        BY Zenon, <3>2 DEF Does
      <3>4. Idle.pc = "idle"
        BY DEF Idle
      <3>5. lister[t] # None /\ lc[t] # None => lister'[t] # None /\ lc'[t] # None
        BY Zenon
      <3>6. CASE worker'[t][m] = Idle
        BY Zenon, <3>4, <3>6 DEF Does
      <3>7. CASE worker'[t][m] = w
        BY Zenon, <3>2, <3>3, <3>5, <3>7 DEF Does, Data
      <3> QED
        BY Zenon, <3>1, <3>6, <3>7
    <2> QED
      BY Zenon, <2>2, <2>3, <2>4 DEF DataInv
  \* process commits: the phase becomes what the worker made true.
  <1>CommitData.
      ASSUME Base, OrderInv(m), DataInv(m), ~wsDeleted,
             NEW s \in Shards, Commit(s, m)
      PROVE  DataInv(m)'
    <2> USE <1>CommitData
    <2> DEFINE w == worker[s][m]
    <2>1. /\ UNCHANGED <<lister, etcd, lc, registry, blocked>> /\ m \in Migrations
          /\ w.pc = "commit" /\ worker' = [worker EXCEPT ![s][m] = Idle]
      BY Zenon DEF Commit, Only, At
    <2>2. /\ worker \in [Shards -> [Migrations -> Workers]]
          /\ mig \in [Migrations -> MigrationObjects]
      BY Zenon DEF Base, MigrationInv, WorkersInv, ObjectsInv
    <2>3. worker'[s][m] = Idle /\ \A t \in Shards \ {s} : worker'[t][m] = worker[t][m]
      BY Zenon, <2>1, <2>2
    <2>4. \A p, c : Data(m, p, c) => Data(m, p, c)'
      <3>1. \A t \in Shards : SameShard(t)
        BY Zenon, <2>1 DEF SameShard, Present
      <3> QED
        BY Zenon, <3>1, <1>DataSame
    <2>5. CASE UNCHANGED mig
      <3>1. \A t \in Shards : worker'[t][m] = worker[t][m] \/ worker'[t][m] = Idle
        BY Zenon, <2>3
      <3>2. mig'[m].phase = mig[m].phase /\ mig'[m].cont = mig[m].cont
        BY Zenon, <2>5
      <3> QED
        BY Zenon, <2>1, <2>4, <3>1, <3>2, <1>AroundData
    <2>6. CASE mig[m] = w.obj /\ mig' = [mig EXCEPT ![m] = w.new]
      <3>1. PICK new : new = w.new
        OBVIOUS
      <3>2. mig'[m] = new
        BY Zenon, <2>1, <2>2, <2>6, <3>1
      <3>3. /\ Owns(s, m, mig[m].phase) /\ Moves(s, m, mig[m].phase, new.phase)
            /\ Data(m, new.phase, new.cont)
        BY Zenon, <2>1, <2>6, <3>1, Committer
      <3>4. Calm /\ Standing(m) /\ \A t \in Shards : Does(t, m, worker[t][m])
        BY Zenon DEF DataInv
      <3>5. Calm'
        BY Zenon, <2>1, <3>4 DEF Calm
      <3>6. Standing(m)'
        <4>1. Data(m, new.phase, new.cont)'
          BY Zenon, <2>4, <3>3
        <4>2. new.phase \notin Broken
          BY Zenon, <3>3 DEF Data
        <4>3. new.phase \in {"", "Preparing", "Migrating"} => mig[m].phase \in {"", "Preparing", "Migrating"}
          BY Zenon, <3>3, <4>2 DEF Moves, Broken
        <4> QED
          BY Zenon, <2>1, <3>2, <3>4, <4>1, <4>3 DEF Standing, Data
      <3>7. ASSUME NEW t \in Shards PROVE Does(t, m, worker[t][m])'
        <4>1. CASE t = s
          <5>1. Idle.pc = "idle"
            BY DEF Idle
          <5> QED
            BY Zenon, <2>3, <4>1, <5>1 DEF Does
        <4>2. CASE t # s
          <5>1. ~At(s, m, "idle") /\ Obj(s, m) = w.obj
            BY Zenon, <2>1 DEF At, Obj
          <5>2. Owns(s, m, Obj(s, m).phase)
            BY Zenon, <2>6, <3>3, <5>1
          <5>3. worker[t][m].pc # "commit" /\ worker'[t][m] = worker[t][m]
            BY Zenon, <2>3, <4>2, <5>1, <5>2, Alone
          <5> QED
            BY Zenon, <2>1, <3>4, <5>3 DEF Does
        <4> QED
          BY Zenon, <4>1, <4>2
      <3> QED
        BY Zenon, <3>5, <3>6, <3>7 DEF DataInv
    <2> QED
      BY Zenon, <2>5, <2>6 DEF Commit
  \* A restart frees a shard, and takes no data away.
  <1>DataFreed.
      ASSUME UNCHANGED <<etcd, lc>>,
             \A t \in Shards : registry'[t] \in {registry[t], None},
             \A t \in Shards : blocked'[t] = blocked[t] \/ ~blocked'[t],
             NEW p, NEW c, Data(m, p, c)
      PROVE  Data(m, p, c)'
    <2> USE <1>DataFreed
    <2>1. \A s : Present(s)' = Present(s)
      BY Zenon DEF Present
    <2>2. \A s : /\ Full(s) => Full(s)'
                 /\ Empty(s) => Empty(s)'
                 /\ Holds(s, c) => Holds(s, c)'
                 /\ Plain(s) => Plain(s)'
      BY Zenon, <2>1 DEF Full, Empty, Holds, Plain
    <2>3. \A s : Free(s) => Free(s)'
      BY Zenon DEF Free
    <2>4. HomeData(p, c)' /\ DestData(Dest[m], p, c)'
      BY Zenon, <2>2, <2>3 DEF Data, HomeData, DestData
    <2> QED
      BY Zenon, <2>4 DEF Data
  \* A client's write replaces a value.
  <1>ApplyData.
      ASSUME Base, RequestInv, ClientApply
      PROVE  \A t \in Shards : SameShard(t)
    <2> USE <1>ApplyData
    <2>1. /\ etcd \in [Shards -> [DataKeys -> Values \cup {None}]]
          /\ req.shard \in Shards /\ req.k \in DataKeys /\ req.read # None
          /\ etcd[req.shard][req.k] = req.read
          /\ etcd' = [etcd EXCEPT ![req.shard][req.k] = written]
          /\ UNCHANGED <<lc, registry, blocked>>
      BY Zenon DEF ClientApply, RequestInv, Base, ShardType, DataType
    <2>2. written # None
      <3>1. written \in Nat
        BY DEF Base, ShardType, RestType
      <3> QED
        BY Zenon, <3>1, ConstantsAssumption
    <2>3. ASSUME NEW t \in Shards, NEW k \in DataKeys
          PROVE  etcd'[t][k] # None <=> etcd[t][k] # None
      <3>1. CASE t = req.shard /\ k = req.k
        BY Zenon, <2>1, <2>2, <3>1
      <3>2. CASE t # req.shard \/ k # req.k
        <4>1. etcd'[t][k] = etcd[t][k]
          BY Zenon, <2>1, <3>2
        <4> QED
          BY Zenon, <4>1
      <3> QED
        BY Zenon, <3>1, <3>2
    <2> TAKE t \in Shards
    <2>4. {k \in DataKeys : etcd'[t][k] # None} = {k \in DataKeys : etcd[t][k] # None}
      BY Zenon, <2>3
    <2>5. Present(t)' = Present(t)
      BY Zenon, <2>1, <2>4 DEF Present
    <2> QED
      BY Zenon, <2>1, <2>5 DEF SameShard
  \* Every step of a worker keeps the data.
  <1>ReconcileData.
      ASSUME Base, OrderInv(m), DataInv(m), ~wsDeleted,
             NEW s \in Shards, Reconcile(s, m)
      PROVE  DataInv(m)'
    BY Zenon, <1>ReconcileData, <1>GetData, <1>StartCancellationData, <1>DetectLCDeletionData,
       <1>WaitData, <1>StartData, <1>PrepareData, <1>PrepareRestData, <1>MigrateData,
       <1>OriginCleanupData, <1>FinalizeData, <1>DestinationReleaseData, AbortData,
       <1>RemoveFinalizerData, <1>KeepBlockedData, <1>BlockData, <1>RestoreData,
       <1>CancellationCleanupData, <1>CancellationFinalizeData, <1>CancellationReleaseData,
       <1>CommitData DEF Reconcile
  \* The deletion of the migration, the informers and a restart.
  <1>ShardData.
      ASSUME Base, DataInv(m), ~wsDeleted,
             DeleteMigration(m) \/ \E s \in Shards : SyncLister(s) \/ Restart(s)
      PROVE  DataInv(m)'
    <2> USE <1>ShardData
    <2>1. /\ mig \in [Migrations -> MigrationObjects] /\ m \in Migrations
          /\ worker \in [Shards -> [Migrations -> Workers]]
          /\ lister \in [Shards -> LCObjects \cup {None}]
          /\ registry \in [Shards -> Migrations \cup {None}] /\ blocked \in [Shards -> BOOLEAN]
      BY Zenon DEF Base, MigrationInv, ObjectsInv, WorkersInv, ShardType, RestType, GateType, Only
    <2>2. CASE DeleteMigration(m)
      <3>1. UNCHANGED <<worker, lister, etcd, lc, registry, blocked>>
        BY Zenon, <2>2 DEF DeleteMigration
      <3>2. mig'[m].phase = mig[m].phase /\ mig'[m].cont = mig[m].cont
        <4>1. mig[m] \in MigrationObjects /\ mig'[m] = [mig[m] EXCEPT !.deleting = TRUE]
          BY Zenon, <2>1, <2>2 DEF DeleteMigration
        <4> QED
          BY <4>1 DEF MigrationObjects
      <3>3. \A p, c : Data(m, p, c) => Data(m, p, c)'
        BY Zenon, <3>1, <1>DataFreed
      <3> QED
        BY Zenon, <3>1, <3>2, <3>3, <1>AroundData
    <2>3. ASSUME NEW s \in Shards, SyncLister(s) PROVE DataInv(m)'
      <3>1. /\ lister' = [lister EXCEPT ![s] = lc[s]]
            /\ UNCHANGED <<mig, worker, etcd, lc, registry, blocked>>
        BY Zenon, <2>3 DEF SyncLister
      <3>2. \A t \in Shards : lister'[t] = lister[t] \/ lister'[t] = lc[t]
        BY Zenon, <2>1, <3>1
      <3>3. \A p, c : Data(m, p, c) => Data(m, p, c)'
        BY Zenon, <3>1, <1>DataFreed
      <3> QED
        BY Zenon, <3>1, <3>2, <3>3, <1>AroundData
    <2>4. ASSUME NEW s \in Shards, Restart(s) PROVE DataInv(m)'
      <3>1. /\ lister' = [lister EXCEPT ![s] = lc[s]] /\ UNCHANGED <<mig, etcd, lc>>
            /\ worker' = [worker EXCEPT ![s] = [n \in Migrations |-> Idle]]
            /\ registry' = [registry EXCEPT ![s] = None]
            /\ blocked' = [blocked EXCEPT ![s] = FALSE]
        BY Zenon, <2>4 DEF Restart
      <3>2. \A t \in Shards : lister'[t] = lister[t] \/ lister'[t] = lc[t]
        BY Zenon, <2>1, <3>1
      <3>3. \A t \in Shards : worker'[t][m] = worker[t][m] \/ worker'[t][m] = Idle
        BY Zenon, <2>1, <3>1
      <3>4. /\ \A t \in Shards : registry'[t] \in {registry[t], None}
            /\ \A t \in Shards : blocked'[t] = blocked[t] \/ ~blocked'[t]
        BY Zenon, <2>1, <3>1
      <3>5. \A p, c : Data(m, p, c) => Data(m, p, c)'
        BY Zenon, <3>1, <3>4, <1>DataFreed
      <3> QED
        BY Zenon, <3>1, <3>2, <3>3, <3>5, <1>AroundData
    <2> QED
      BY Zenon, <2>2, <2>3, <2>4
  \* A step that touches nothing the data invariant is about, but for a client's write.
  <1>OtherData.
      ASSUME DataInv(m), UNCHANGED <<mig, worker, lc, lister, wsDeleted>>,
             \A t \in Shards : SameShard(t)
      PROVE  DataInv(m)'
    <2> USE <1>OtherData
    <2>1. \A p, c : Data(m, p, c) => Data(m, p, c)'
      BY Zenon, <1>DataSame
    <2>2. CASE ~wsDeleted
      BY Zenon, <2>1, <2>2, <1>AroundData
    <2>3. CASE wsDeleted
      BY Zenon, <2>3 DEF DataInv
    <2> QED
      BY Zenon, <2>2, <2>3
  \* Every step keeps the data where the phases say it is.
  <1>NextData.
      ASSUME Base, RequestInv, OrderInv(m), DataInv(m), [Next]_vars
      PROVE  DataInv(m)'
    <2> USE <1>NextData
    <2>1. \A n \in Migrations : n = m
      BY Zenon DEF Only
    <2>2. CASE wsDeleted
      BY Zenon, <2>2, StaysDeleted DEF DataInv
    <2>3. CASE ~wsDeleted
      <3>1. ASSUME NEW s \in Shards, NEW n \in Migrations, Reconcile(s, n)
            PROVE  DataInv(m)'
        BY Zenon, <2>1, <2>3, <3>1, <1>ReconcileData
      <3>2. ASSUME NEW n \in Migrations, DeleteMigration(n) PROVE DataInv(m)'
        BY Zenon, <2>1, <2>3, <3>2, <1>ShardData
      <3>3. ASSUME NEW s \in Shards, SyncLister(s) \/ Restart(s) PROVE DataInv(m)'
        BY Zenon, <2>3, <3>3, <1>ShardData
      <3>4. CASE DeleteWorkspace
        BY Zenon, <3>4 DEF DeleteWorkspace, DataInv
      <3>5. CASE ClientApply
        <4>1. UNCHANGED <<mig, worker, lc, lister, wsDeleted>>
          BY Zenon, <3>5 DEF ClientApply
        <4> QED
          BY Zenon, <3>5, <4>1, <1>ApplyData, <1>OtherData
      <3>6. CASE \/ \E n \in Migrations : CreateMigration(n) \/ Replicate(n)
                 \/ \E s \in Shards : Resync(s) \/ IndexObserve(s) \/ IndexResync(s)
                 \/ \E k \in DataKeys : ClientStart(k)
                 \/ ClientAck \/ ClientFail \/ UNCHANGED vars
        <4>1. UNCHANGED <<mig, worker, lc, lister, wsDeleted, registry, blocked>>
          BY Zenon, <3>6, Unrelated
        <4>2. UNCHANGED etcd
          BY Zenon, <3>6 DEF CreateMigration, Replicate, Resync, IndexObserve, IndexResync,
             ClientStart, ClientAck, ClientFail, vars
        <4>3. \A t \in Shards : SameShard(t)
          BY Zenon, <4>1, <4>2 DEF SameShard, Present
        <4> QED
          BY Zenon, <4>1, <4>3, <1>OtherData
      <3>7. ASSUME NEW s \in Shards, DeleteLC(s) PROVE DataInv(m)'
        BY Zenon, <2>3, <3>7, DeleteLCData
      <3> QED
        BY Zenon, <3>1, <3>2, <3>3, <3>4, <3>5, <3>6, <3>7 DEF Next
    <2> QED
      BY Zenon, <2>2, <2>3
  \* At first the LC is whole at home, and nowhere else.
  <1>InitData.
      ASSUME Init
      PROVE  DataInv(m)
    <2> USE <1>InitData
    <2>1. m \in Migrations /\ Dest[m] # Home /\ Home \in Shards
      BY Zenon, HomeThere DEF Only
    <2>2. /\ mig[m] = NewMigration /\ \A t \in Shards : worker[t][m] = Idle
          /\ lister = lc /\ req = NoRequest
      BY Zenon, <2>1 DEF Init
    <2>3. lc[Home] = [ann |-> None, deleting |-> FALSE] /\ \A t \in Shards \ {Home} : lc[t] = None
      BY Zenon, <2>1 DEF Init
    <2>4. \A k \in DataKeys : etcd[Home][k] = 0 /\ \A t \in Shards \ {Home} : etcd[t][k] = None
      BY Zenon, <2>1 DEF Init
    <2>5. \A t \in Shards : registry[t] = None /\ ~blocked[t]
      BY Zenon DEF Init
    <2>6. lc[Home] # None /\ ~lc[Home].deleting
      <3>1. [ann |-> None, deleting |-> FALSE] \in LCObjects
        BY DEF LCObjects
      <3>2. lc[Home] # None
        BY Zenon, <2>3, <3>1, NoneAssumption
      <3> QED
        BY <2>3, <3>2
    <2>7. 0 # None
      BY ConstantsAssumption
    <2>8. Idle.pc = "idle" /\ NewMigration.phase = "" /\ NoRequest.st = "none"
      BY DEF Idle, NewMigration, NoRequest
    <2>9. Calm
      BY Zenon, <2>2, <2>3, <2>6 DEF Calm
    <2>10. Full(Home)
      BY Zenon, <2>1, <2>4, <2>6, <2>7, Presence DEF Full
    <2>11. Empty(Dest[m]) /\ Free(Dest[m])
      <3>1. ASSUME Dest[m] \in Shards PROVE Present(Dest[m]) = {}
        <4>1. Dest[m] \in Shards \ {Home}
          BY Zenon, <2>1, <3>1
        <4>2. LCKey \notin Present(Dest[m])
          BY Zenon, <2>3, <4>1, Presence
        <4>3. \A k \in DataKeys : k \notin Present(Dest[m])
          BY Zenon, <2>4, <4>1, Presence
        <4>4. \A k : k \notin Present(Dest[m])
          BY Zenon, <4>2, <4>3, Presence
        <4> QED
          BY Zenon, <4>4
      <3> QED
        BY Zenon, <3>1, <2>5 DEF Empty, Free
    <2>12. HomeData("", mig[m].cont) /\ DestData(Dest[m], "", mig[m].cont)
      BY Zenon, <2>10, <2>11 DEF HomeData, DestData
    <2>13. Standing(m)
      BY Zenon, <2>2, <2>6, <2>8, <2>12 DEF Standing, Data, Broken
    <2>14. \A t \in Shards : Does(t, m, worker[t][m])
      BY Zenon, <2>2, <2>8 DEF Does
    <2> QED
      BY Zenon, <2>9, <2>13, <2>14 DEF DataInv
  <1>1. Init => DataInv(m)
    BY <1>InitData
  <1>2. Base /\ RequestInv /\ OrderInv(m) /\ DataInv(m) /\ [Next]_vars => DataInv(m)'
    BY <1>NextData
  <1> QED
    BY <1>1, <1>2, BaseInvariant, RequestInvariant, OrderInvariant, PTL DEF Spec

-----------------------------------------------------------------------------
(* What follows.                                                           *)

\* A shard that is full has the LC object and every data key.
LEMMA FullIsComplete ==
    ASSUME NEW s, Full(s)
    PROVE  s \in Shards /\ Complete(s)
  BY Zenon, Presence DEF Full, Complete

\* While the only migration of an LC moves it, cancels or fails, and whatever
\* restarts and failed calls come in between, some shard holds all of the LC until
\* its workspace is deleted (deleteOriginData).
THEOREM DataIsNeverLost ==
    ASSUME NEW m, Only(m)
    PROVE  Spec => []DataNeverLost
  <1>1. Base /\ DataInv(m) => DataNeverLost
    <2> SUFFICES ASSUME Base, DataInv(m), ~wsDeleted
                 PROVE  \E s \in Shards : Complete(s)
      BY Zenon DEF DataNeverLost
    <2>1. mig[m].phase \in Phases
      <3>1. mig[m] \in MigrationObjects
        BY Zenon DEF Base, MigrationInv, ObjectsInv, Only
      <3> QED
        BY <3>1 DEF MigrationObjects
    <2>2. Data(m, mig[m].phase, mig[m].cont)
      BY Zenon DEF DataInv, Standing
    <2>3. Full(Home) \/ Full(Dest[m])
      BY Zenon, <2>1, <2>2 DEF Data, HomeData, DestData, Phases, Broken
    <2> QED
      BY Zenon, <2>3, FullIsComplete
  <1> QED
    BY <1>1, BaseInvariant, DataInvariant, PTL

\* The only migration of an LC is aborted only after the deletion of the workspace
\* (reconcile, the check before the phases).
THEOREM AbortNeedsDeletion ==
    ASSUME NEW m, Only(m)
    PROVE  Spec => []AbortOnlyAfterDeletion
  <1>1. DataInv(m) => AbortOnlyAfterDeletion
    BY Zenon DEF DataInv, Standing, Data, Broken, AbortOnlyAfterDeletion, Only
  <1> QED
    BY <1>1, DataInvariant, PTL

\* When the only migration of an LC has completed, or was cancelled, one of its two
\* shards has all of the LC, without annotation, the other one nothing of it, and
\* both admit requests (finalizeDestination, finalizeCancellation).
THEOREM MigrationEndsSettled ==
    ASSUME NEW m, Only(m)
    PROVE  Spec => []EndsSettled
  <1>1. OrderInv(m) /\ DataInv(m) => EndsSettled
    <2> SUFFICES ASSUME OrderInv(m), DataInv(m)
                 PROVE  EndsSettled
      OBVIOUS
    <2>1. /\ m \in Migrations /\ \A n \in Migrations : n = m
          /\ Dest[m] \in Shards \cup {None} /\ Home \in Shards
      BY Zenon, ConstantsAssumption DEF Only
    <2>2. mig[m].origin \in {None, Home}
          /\ (mig[m].phase \in {"Completed", "Cancelled"} => mig[m].origin = Home)
      BY Zenon DEF OrderInv, ObjectInv, ObjOK, Broken
    <2>3. ASSUME mig[m].phase = "Completed", ~wsDeleted
          PROVE  /\ Full(Dest[m]) /\ Free(Dest[m]) /\ Plain(Dest[m])
                 /\ Empty(Home) /\ Free(Home)
      BY Zenon, <2>3 DEF DataInv, Standing, Data, HomeData, DestData
    <2>4. ASSUME mig[m].phase = "Cancelled", ~wsDeleted
          PROVE  /\ Full(Home) /\ Free(Home) /\ Plain(Home)
                 /\ Empty(Dest[m]) /\ Free(Dest[m])
      BY Zenon, <2>4 DEF DataInv, Standing, Data, HomeData, DestData
    <2> DEFINE settled(s, t) ==
                /\ Complete(s) /\ lc[s].ann = None
                /\ t # None => Present(t) = {}
                /\ \A x \in {s, t} \ {None} : registry[x] = None /\ ~blocked[x]
    <2>5. ASSUME NEW s, NEW t \in Shards \cup {None}, Full(s), Free(s), Plain(s), Empty(t), Free(t)
          PROVE  settled(s, t)
      BY Zenon, <2>5, FullIsComplete DEF Free, Plain, Empty
    <2>6. mig[m].phase = "Completed" /\ ~wsDeleted => settled(Dest[m], mig[m].origin)
      BY Zenon, <2>1, <2>2, <2>3, <2>5
    <2>7. mig[m].phase = "Cancelled" /\ ~wsDeleted => settled(mig[m].origin, Dest[m])
      BY Zenon, <2>1, <2>2, <2>4, <2>5
    <2> QED
      BY Zenon, <2>1, <2>6, <2>7 DEF EndsSettled
  <1> QED
    BY <1>1, OrderInvariant, DataInvariant, PTL

=============================================================================
