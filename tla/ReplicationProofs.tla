------------------------- MODULE ReplicationProofs -------------------------
(***************************************************************************)
(* Proofs about Replication, for every set of intents and every bound:     *)
(* type correctness, IntentIsKept and NeverGoesBack.                       *)
(*                                                                         *)
(* Both properties rest on the resource versions.  IntentInv says that an  *)
(* object the controller has read agrees with the copy in the cache-owned  *)
(* fields as long as it has the copy's resource version, which is what     *)
(* UpdateCopy compares.  VersionInv orders the contents: the copy is never *)
(* newer than what the lister shows, which is never newer than the object. *)
(***************************************************************************)
EXTENDS Replication, TLAPS

\* Nothing has a resource version that its storage has not given out.
RVInv ==
    /\ local.rv <= localRV /\ localSeen.rv <= localRV /\ work.l.rv <= localRV
    /\ copy.rv <= copyRV /\ copySeen.rv <= copyRV /\ work.g.rv <= copyRV

\* A view of the copy that is up to date has its intent, and a worker is about
\* to write the copy only with the intent it has read there.
IntentInv ==
    /\ Exists(copy) /\ copySeen.rv = copy.rv => copySeen.intent = copy.intent
    /\ Exists(copy) /\ work.g.rv = copy.rv => work.g.intent = copy.intent
    /\ work.pc = "updateCopy" => work.l.intent = work.g.intent

\* A call that writes the content of an object has one.
HasObject == {"create", "updateLocal", "updateCopy"}

\* The contents of the copy, of a worker's object, of the lister's and of the
\* object itself, each not newer than the next.
VersionInv ==
    /\ local.ver <= localRV /\ localSeen.ver <= localRV
    /\ work.l.ver <= localRV /\ copy.ver <= localRV
    /\ Exists(local) => /\ localSeen.ver <= local.ver /\ work.l.ver <= local.ver
                        /\ copy.ver <= local.ver
    /\ Exists(localSeen) => work.l.ver <= localSeen.ver /\ copy.ver <= localSeen.ver
    /\ work.pc \in HasObject => copy.ver <= work.l.ver /\ Exists(work.l)
    /\ Exists(local) /\ localSeen.rv = local.rv => localSeen.ver = local.ver
    /\ Exists(local) /\ work.l.rv = local.rv => work.l.ver = local.ver

IInv == TypeOK /\ RVInv /\ IntentInv /\ VersionInv

\* The object that does not exist is an object, with the lowest version.
LEMMA GoneType == Gone \in Object /\ Gone.rv = 0 /\ Gone.ver = 0 /\ Gone.intent \in Intents
  BY ReplicationAssumption DEF Gone, Object

\* An idle worker is well typed.
LEMMA IdleType ==
    /\ Idle \in [pc: Steps, l: Object, g: Object]
    /\ Idle.pc = "idle" /\ Idle.l = Gone /\ Idle.g = Gone
  BY GoneType DEF Idle, Steps

\* The invariant holds at first.
LEMMA InitIInv == Init => IInv
<1> SUFFICES ASSUME Init PROVE IInv
  OBVIOUS
<1>1. TypeOK
  BY Zenon, GoneType, IdleType DEF Init, TypeOK
<1>2. RVInv
  BY GoneType, IdleType DEF Init, RVInv
<1>3. IntentInv
  BY GoneType, IdleType DEF Init, IntentInv, Exists
<1>4. VersionInv
  BY GoneType, IdleType DEF Init, VersionInv, HasObject, Exists
<1> QED
  BY <1>1, <1>2, <1>3, <1>4 DEF IInv

\* A deletion keeps the content and the intent, or removes the object.
LEMMA DeletedFacts ==
    ASSUME NEW o \in Object, NEW rv \in Nat
    PROVE  /\ Deleted(o, rv) \in Object
           /\ Deleted(o, rv) # Gone => /\ Deleted(o, rv).rv = rv
                                       /\ Deleted(o, rv).ver = o.ver
                                       /\ Deleted(o, rv).intent = o.intent
<1> DEFINE d == [o EXCEPT !.deleting = TRUE, !.rv = rv]
<1>1. d \in Object /\ d.rv = rv /\ d.ver = o.ver /\ d.intent = o.intent
  BY Zenon DEF Object
<1>2. Deleted(o, rv) \in {d, Gone}
  BY DEF Deleted
<1> HIDE DEF d
<1> QED
  BY <1>1, <1>2, GoneType

\* A write of the cache-owned fields keeps the content.
LEMMA IntentFacts ==
    ASSUME NEW o \in Object, NEW i \in Intents, NEW rv \in Nat
    PROVE  /\ WithIntent(o, i, rv) \in Object
           /\ WithIntent(o, i, rv).rv = rv
           /\ WithIntent(o, i, rv).ver = o.ver
           /\ WithIntent(o, i, rv).intent = i
  BY Zenon DEF Object, WithIntent

\* Which calls the reads l and g lead to.
LEMMA DecisionFacts ==
    ASSUME NEW l, NEW g
    PROVE  /\ Decision(l, g) \in Steps
           /\ Decision(l, g) \in HasObject => Exists(l)
           /\ Decision(l, g) = "updateCopy" => l.intent = g.intent
  BY DEF Decision, HasObject, Steps

\* The copy that UpdateCopy leaves is the one that was there, is gone, or has
\* the content and the intent of the worker's object.
LEMMA UpdatedCopyFacts ==
    ASSUME TypeOK
    PROVE  /\ UpdatedCopy \in Object
           /\ \/ UpdatedCopy = copy
              \/ UpdatedCopy = Gone
              \/ /\ UpdatedCopy.rv = copyRV + 1
                 /\ UpdatedCopy.ver = work.l.ver
                 /\ UpdatedCopy.intent = work.l.intent
<1> DEFINE new == [Content(work.l, copyRV + 1) EXCEPT !.deleting = copy.deleting]
           c == Content(work.l, copyRV + 1)
<1>0. /\ c \in Object
      /\ c.rv = copyRV + 1 /\ c.ver = work.l.ver /\ c.intent = work.l.intent
  BY DEF TypeOK, Object, Content
<1>1. /\ new \in Object
      /\ new.rv = copyRV + 1 /\ new.ver = work.l.ver /\ new.intent = work.l.intent
  <2> HIDE DEF c
  <2>1. new = [c EXCEPT !.deleting = copy.deleting]
    BY DEF c
  <2> QED
    BY <1>0, <2>1 DEF TypeOK, Object
<1>2. UpdatedCopy \in {copy, Gone, new}
  BY DEF UpdatedCopy
<1> HIDE DEF new
<1> QED
  BY <1>1, <1>2, GoneType DEF TypeOK

\* The owner's steps: new content is newer than everything there is.
LEMMA OwnerStep == IInv /\ Owner => IInv'
<1> SUFFICES ASSUME IInv, Owner PROVE IInv'
  OBVIOUS
<1> USE GoneType DEF IInv, Exists
<1>1. ASSUME NEW i \in Intents, NEW f \in BOOLEAN, NEW r \in BOOLEAN,
             WriteLocal(i, f, r)
      PROVE  IInv'
  <2> USE <1>1 DEF WriteLocal, controller, listers
  <2>1. /\ local' \in Object
        /\ local'.rv = localRV + 1 /\ local'.ver = localRV + 1
    BY DEF TypeOK, Object
  <2>2. TypeOK'
    BY <2>1 DEF TypeOK
  <2>3. RVInv'
    BY <2>1 DEF TypeOK, RVInv, Object
  <2>4. IntentInv'
    BY DEF IntentInv
  <2>5. VersionInv'
    BY <2>1 DEF TypeOK, VersionInv, RVInv, Object
  <2> QED
    BY <2>2, <2>3, <2>4, <2>5
<1>2. ASSUME DeleteLocal PROVE IInv'
  <2> USE <1>2 DEF DeleteLocal, controller, listers
  <2>1. /\ local' \in Object
        /\ local' = Gone \/ (local'.rv = localRV + 1 /\ local'.ver = local.ver)
    BY DeletedFacts DEF TypeOK
  <2>2. TypeOK'
    BY <2>1 DEF TypeOK
  <2>3. RVInv'
    BY <2>1 DEF TypeOK, RVInv, Object
  <2>4. IntentInv'
    BY DEF IntentInv
  <2>5. VersionInv'
    BY <2>1 DEF TypeOK, VersionInv, RVInv, Object
  <2> QED
    BY <2>2, <2>3, <2>4, <2>5
<1>3. ASSUME FinalizeLocal PROVE IInv'
  BY <1>3 DEF FinalizeLocal, TypeOK, RVInv, IntentInv, VersionInv, controller, listers,
              bounds, Object
<1> QED
  BY <1>1, <1>2, <1>3 DEF Owner

\* An administrator's step gives the copy a new resource version.
LEMMA AdministratorStep == IInv /\ Administrator => IInv'
<1> SUFFICES ASSUME IInv, NEW i \in Intents, WriteIntent(i) PROVE IInv'
  BY DEF Administrator
<1> USE GoneType DEF IInv, Exists, WriteIntent, controller, listers
<1>1. /\ copy' \in Object
      /\ copy'.rv = copyRV + 1 /\ copy'.ver = copy.ver
  <2>1. copy \in Object /\ copyRV + 1 \in Nat
    BY DEF TypeOK
  <2> DEFINE rv == copyRV + 1
  <2>2. rv \in Nat /\ copy' = WithIntent(copy, i, rv)
    BY <2>1
  <2> HIDE DEF IInv, Exists, WriteIntent, rv
  <2>3. copy' \in Object /\ copy'.rv = rv /\ copy'.ver = copy.ver
    BY Zenon, <2>1, <2>2 DEF WithIntent, Object
  <2> QED
    BY <2>3 DEF rv
<1>2. TypeOK'
  BY <1>1 DEF TypeOK
<1>3. RVInv'
  BY <1>1 DEF TypeOK, RVInv, Object
<1>4. IntentInv'
  BY <1>1 DEF TypeOK, IntentInv, RVInv, Object
<1>5. VersionInv'
  BY <1>1 DEF TypeOK, VersionInv, Object
<1> QED
  BY <1>2, <1>3, <1>4, <1>5

\* A lister catches up.
LEMMA SyncStep == IInv /\ (SyncLocal \/ SyncCopy) => IInv'
<1> SUFFICES ASSUME IInv, SyncLocal \/ SyncCopy PROVE IInv'
  OBVIOUS
<1> USE GoneType DEF IInv, Exists, objects, bounds
<1>1. CASE SyncLocal
  BY <1>1 DEF SyncLocal, TypeOK, RVInv, IntentInv, VersionInv, Object
<1>2. CASE SyncCopy
  BY <1>2 DEF SyncCopy, TypeOK, RVInv, IntentInv, VersionInv, Object
<1> QED
  BY <1>1, <1>2

\* A worker decides on what the listers show.
LEMMA DecideStep == IInv /\ Decide => IInv'
<1> SUFFICES ASSUME IInv, Decide PROVE IInv'
  OBVIOUS
<1> USE GoneType, IdleType DEF IInv, Exists, objects, listers, bounds
<1> DEFINE l == Filtered(localSeen)
           next == Decision(l, copySeen)
<1>1. l \in {localSeen, Gone}
  BY DEF Filtered
<1>2. l \in Object
  BY <1>1 DEF TypeOK
<1>3. /\ next \in Steps
      /\ next \in HasObject => Exists(l)
      /\ next = "updateCopy" => l.intent = copySeen.intent
  BY DecisionFacts
<1>4. \/ work' = Idle
      \/ work' = [pc |-> next, l |-> l, g |-> copySeen]
  BY DEF Decide
<1>5. UNCHANGED <<local, copy, localRV, copyRV, localSeen, copySeen, writes, intents, faults>>
      /\ queued' = FALSE
  BY DEF Decide
<1> HIDE DEF l, next
<1>7. TypeOK'
  <2>1. work' \in [pc: Steps, l: Object, g: Object]
    BY <1>2, <1>3, <1>4 DEF TypeOK
  <2> QED
    BY Zenon, <1>5, <2>1 DEF TypeOK
<1>8. RVInv'
  BY <1>1, <1>4, <1>5 DEF RVInv, TypeOK
<1>9. IntentInv'
  BY <1>3, <1>4, <1>5 DEF IntentInv
<1>10. VersionInv'
  BY <1>1, <1>3, <1>4, <1>5 DEF VersionInv, TypeOK, HasObject, Object
<1> QED
  BY <1>7, <1>8, <1>9, <1>10

\* The copy is deleted.
LEMMA DeleteCopyStep == IInv /\ DeleteCopy => IInv'
<1> SUFFICES ASSUME IInv, DeleteCopy PROVE IInv'
  OBVIOUS
<1> USE GoneType, IdleType DEF IInv, Exists
<1>1. \/ UNCHANGED <<copy, copyRV>>
      \/ /\ copy' \in Object /\ copyRV' = copyRV + 1
         /\ copy' = Gone \/ (copy'.rv = copyRV + 1 /\ copy'.ver = copy.ver)
  BY DeletedFacts DEF DeleteCopy, TypeOK
<1>2. /\ UNCHANGED <<local, localRV, localSeen, copySeen, writes, intents, faults>>
      /\ work' = Idle /\ queued' \in BOOLEAN
  BY DEF DeleteCopy, Return, listers, bounds, TypeOK
<1>3. TypeOK'
  BY <1>1, <1>2 DEF TypeOK
<1>4. RVInv'
  BY <1>1, <1>2 DEF TypeOK, RVInv, Object
<1>5. IntentInv'
  BY <1>1, <1>2 DEF TypeOK, RVInv, IntentInv, Object
<1>6. VersionInv'
  BY <1>1, <1>2 DEF TypeOK, VersionInv, HasObject, Object
<1> QED
  BY <1>3, <1>4, <1>5, <1>6

\* A copy is created from what was read.
LEMMA CreateCopyStep == IInv /\ CreateCopy => IInv'
<1> SUFFICES ASSUME IInv, CreateCopy PROVE IInv'
  OBVIOUS
<1> USE GoneType, IdleType DEF IInv, Exists
<1>1. \/ UNCHANGED <<copy, copyRV>>
      \/ /\ copy' \in Object /\ copyRV' = copyRV + 1
         /\ copy'.rv = copyRV + 1 /\ copy'.ver = work.l.ver
  BY DEF CreateCopy, Content, TypeOK, Object
<1>2. /\ UNCHANGED <<local, localRV, localSeen, copySeen, writes, intents, faults>>
      /\ work' = Idle /\ queued' \in BOOLEAN
  BY DEF CreateCopy, Return, listers, bounds, TypeOK
<1>3. TypeOK'
  BY <1>1, <1>2 DEF TypeOK
<1>4. RVInv'
  BY <1>1, <1>2 DEF TypeOK, RVInv, Object
<1>5. IntentInv'
  BY <1>1, <1>2 DEF TypeOK, RVInv, IntentInv, Object
<1>6. VersionInv'
  BY <1>1, <1>2 DEF TypeOK, VersionInv, HasObject, Object
<1> QED
  BY <1>3, <1>4, <1>5, <1>6

\* The object is written only at the resource version it was read at, so that
\* its content stays the one it has.
LEMMA UpdateLocalStep == IInv /\ UpdateLocal => IInv'
<1> SUFFICES ASSUME IInv, UpdateLocal PROVE IInv'
  OBVIOUS
<1> USE GoneType, IdleType DEF IInv, Exists
<1>1. \/ UNCHANGED <<local, localRV>>
      \/ /\ local' \in Object /\ localRV' = localRV + 1
         /\ local'.rv = localRV + 1 /\ local'.ver = local.ver
         /\ Exists(local)
  <2>1. CASE local.rv = work.l.rv
    <3>1. work.l \in Object /\ work.g.intent \in Intents /\ localRV + 1 \in Nat
      BY DEF TypeOK, Object
    <3>2. /\ local' = WithIntent(work.l, work.g.intent, localRV + 1)
          /\ localRV' = localRV + 1
      BY <2>1 DEF UpdateLocal
    <3>3. local' \in Object /\ local'.rv = localRV + 1 /\ local'.ver = work.l.ver
      <4> DEFINE n == WithIntent(work.l, work.g.intent, localRV + 1)
      <4>1. n \in Object /\ n.rv = localRV + 1 /\ n.ver = work.l.ver
        <5> DEFINE rv == localRV + 1
        <5>1. rv \in Nat
          BY <3>1
        <5> HIDE DEF IInv, Exists, rv
        <5>2. WithIntent(work.l, work.g.intent, rv) \in Object
              /\ WithIntent(work.l, work.g.intent, rv).rv = rv
              /\ WithIntent(work.l, work.g.intent, rv).ver = work.l.ver
          BY Zenon, <3>1, <5>1 DEF WithIntent, Object
        <5> QED
          BY <5>2 DEF rv
      <4> HIDE DEF n
      <4> QED
        BY <3>2, <4>1 DEF n
    <3>4. Exists(local) /\ work.l.ver = local.ver
      BY <2>1 DEF UpdateLocal, VersionInv, HasObject
    <3> QED
      BY <3>2, <3>3, <3>4
  <2>2. CASE local.rv # work.l.rv
    BY <2>2 DEF UpdateLocal
  <2> QED
    BY <2>1, <2>2
<1>2. /\ UNCHANGED <<copy, copyRV, localSeen, copySeen, writes, intents, faults>>
      /\ work' = Idle /\ queued' \in BOOLEAN
  BY Zenon DEF UpdateLocal, Return, listers, bounds, TypeOK
<1>3. TypeOK'
  BY <1>1, <1>2 DEF TypeOK
<1>4. RVInv'
  BY <1>1, <1>2 DEF TypeOK, RVInv, Object
<1>5. IntentInv'
  BY <1>1, <1>2 DEF TypeOK, IntentInv, Object
<1>6. VersionInv'
  BY <1>1, <1>2 DEF TypeOK, RVInv, VersionInv, HasObject, Object
<1> QED
  BY <1>3, <1>4, <1>5, <1>6

\* What UpdateCopy does to the copy.
LEMMA UpdateCopyFacts ==
    ASSUME IInv, UpdateCopy
    PROVE  \/ UNCHANGED <<copy, copyRV>>
           \/ /\ copy' \in Object /\ copyRV' = copyRV + 1
              /\ \/ copy' = Gone
                 \/ /\ copy'.rv = copyRV + 1
                    /\ copy'.ver = work.l.ver /\ copy.ver <= work.l.ver
                    /\ Exists(copy) => copy'.intent = copy.intent
<1>1. CASE copy.rv = work.g.rv
  <2>1. /\ copy' = UpdatedCopy
        /\ copyRV' = IF UpdatedCopy = copy THEN copyRV ELSE copyRV + 1
    BY <1>1 DEF UpdateCopy
  <2>2. Exists(copy) => work.l.intent = copy.intent
    BY <1>1 DEF UpdateCopy, IInv, IntentInv
  <2>3. copy.ver <= work.l.ver
    BY DEF UpdateCopy, IInv, VersionInv, HasObject
  <2> QED
    BY <2>1, <2>2, <2>3, UpdatedCopyFacts DEF IInv
<1>2. CASE copy.rv # work.g.rv
  BY <1>2 DEF UpdateCopy
<1> QED
  BY <1>1, <1>2

\* A copy is updated, if it is still the one that was read.
LEMMA UpdateCopyStep == IInv /\ UpdateCopy => IInv'
<1> SUFFICES ASSUME IInv, UpdateCopy PROVE IInv'
  OBVIOUS
<1>1. \/ UNCHANGED <<copy, copyRV>>
      \/ /\ copy' \in Object /\ copyRV' = copyRV + 1
         /\ copy' = Gone \/ (copy'.rv = copyRV + 1 /\ copy'.ver = work.l.ver)
  BY UpdateCopyFacts
<1> USE GoneType, IdleType DEF IInv, Exists
<1>2. /\ UNCHANGED <<local, localRV, localSeen, copySeen, writes, intents, faults>>
      /\ work' = Idle /\ queued' \in BOOLEAN
  BY Zenon DEF UpdateCopy, Return, listers, bounds, TypeOK
<1>3. TypeOK'
  BY <1>1, <1>2 DEF TypeOK
<1>4. RVInv'
  BY <1>1, <1>2 DEF TypeOK, RVInv, Object
<1>5. IntentInv'
  BY <1>1, <1>2 DEF TypeOK, RVInv, IntentInv, Object
<1>6. VersionInv'
  BY <1>1, <1>2 DEF TypeOK, VersionInv, HasObject, Object
<1> QED
  BY <1>3, <1>4, <1>5, <1>6

\* A failed call or a restart loses only the worker and its key.
LEMMA FaultStep == IInv /\ (FailCall \/ Restart) => IInv'
<1> SUFFICES ASSUME IInv, FailCall \/ Restart PROVE IInv'
  OBVIOUS
<1> USE GoneType, IdleType DEF IInv, Exists, objects, listers
<1>1. CASE FailCall
  BY <1>1 DEF FailCall, TypeOK, RVInv, IntentInv, VersionInv, HasObject, Object
<1>2. CASE Restart
  BY <1>2 DEF Restart, TypeOK, RVInv, IntentInv, VersionInv, HasObject, Object
<1> QED
  BY <1>1, <1>2

\* Every step keeps the invariant.
LEMMA StepIInv == IInv /\ [Next]_vars => IInv'
<1> SUFFICES ASSUME IInv, [Next]_vars PROVE IInv'
  OBVIOUS
<1>1. CASE Owner
  BY <1>1, OwnerStep
<1>2. CASE Administrator
  BY <1>2, AdministratorStep
<1>3. CASE SyncLocal \/ SyncCopy
  BY <1>3, SyncStep
<1>4. CASE Reconcile
  BY <1>4, DecideStep, DeleteCopyStep, CreateCopyStep, UpdateLocalStep, UpdateCopyStep
  DEF Reconcile
<1>5. CASE FailCall \/ Restart
  BY <1>5, FaultStep
<1>6. CASE UNCHANGED vars
  BY <1>6 DEF vars, objects, controller, listers, bounds, IInv, TypeOK, RVInv, IntentInv,
              VersionInv, HasObject, Exists
<1> QED
  BY <1>1, <1>2, <1>3, <1>4, <1>5, <1>6 DEF Next

\* The invariant holds in every reachable state.
THEOREM Invariance == Spec => []IInv
  BY InitIInv, StepIInv, PTL DEF Spec

\* The state keeps its types.
THEOREM TypeCorrect == Spec => []TypeOK
  BY Invariance, PTL DEF IInv

\* A step that changes the copy and leaves it there is the administrator's, or
\* keeps the intent; and it never makes the content older.
LEMMA CopyStep ==
    ASSUME IInv, [Next]_vars, Exists(copy), Exists(copy')
    PROVE  /\ copy'.ver >= copy.ver
           /\ copy'.intent = copy.intent \/ intents' # intents
<1> USE GoneType DEF Exists
<1>1. ASSUME NEW i \in Intents, WriteIntent(i)
      PROVE  copy'.ver = copy.ver /\ intents' # intents
  <2>1. copy \in Object /\ copyRV + 1 \in Nat /\ intents \in Nat
    BY DEF IInv, TypeOK
  <2>2. copy' = WithIntent(copy, i, copyRV + 1) /\ intents' = intents + 1
    BY <1>1 DEF WriteIntent
  <2> QED
    BY <2>1, <2>2, IntentFacts DEF Object
<1>2. CASE DeleteCopy
  <2>1. copy \in Object /\ copyRV + 1 \in Nat
    BY DEF IInv, TypeOK
  <2>2. copy' = copy \/ copy' = Deleted(copy, copyRV + 1)
    BY <1>2 DEF DeleteCopy
  <2>3. copy' # Gone
    OBVIOUS
  <2>4. copy'.ver = copy.ver /\ copy'.intent = copy.intent
    <3> DEFINE d == Deleted(copy, copyRV + 1)
    <3>1. d # Gone => d.ver = copy.ver /\ d.intent = copy.intent
      BY <2>1, DeletedFacts
    <3> HIDE DEF d
    <3> QED
      BY <2>2, <2>3, <3>1 DEF d
  <2> QED
    BY <2>1, <2>4 DEF Object
<1>3. CASE UpdateCopy
  <2>1. copy \in Object /\ work.l \in Object
    BY DEF IInv, TypeOK
  <2> QED
    BY <1>3, <2>1, UpdateCopyFacts DEF Object
<1>4. CASE UNCHANGED copy
  BY <1>4 DEF IInv, TypeOK, Object
<1>5. \/ \E i \in Intents : WriteIntent(i)
      \/ DeleteCopy
      \/ UpdateCopy
      \/ UNCHANGED copy
  BY Zenon DEF Next, Owner, Administrator, Reconcile, WriteLocal, DeleteLocal, FinalizeLocal,
         SyncLocal, SyncCopy, Decide, CreateCopy, UpdateLocal, FailCall, Restart, vars, objects
<1>6. copy.ver \in Nat
  BY DEF IInv, TypeOK, Object
<1> QED
  BY <1>1, <1>2, <1>3, <1>4, <1>5, <1>6

\* What an administrator wrote to the copy is changed by administrators only.
THEOREM IntentKept == Spec => IntentIsKept
<1>1. IInv /\ [Next]_vars
      => [(Exists(copy) /\ Exists(copy') /\ copy'.intent # copy.intent)
          => intents' # intents]_vars
  BY CopyStep
<1> QED
  BY <1>1, Invariance, PTL DEF Spec, IntentIsKept

\* The content of the copy never becomes older.
THEOREM NoOlderContent == Spec => NeverGoesBack
<1>1. IInv /\ [Next]_vars
      => [Exists(copy) /\ Exists(copy') => copy'.ver >= copy.ver]_vars
  BY CopyStep
<1> QED
  BY <1>1, Invariance, PTL DEF Spec, NeverGoesBack

=============================================================================
