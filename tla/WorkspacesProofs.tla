-------------------------- MODULE WorkspacesProofs --------------------------
(***************************************************************************)
(* Proofs for Workspaces, for any types and budgets: a Ready workspace has *)
(* an initialized LC, the finalizer of the terminators holds, and a pass   *)
(* changes metadata and spec or the status, never both; and, as long as no *)
(* shard is lost, no LC outlives its workspace.                            *)
(***************************************************************************)
EXTENDS Workspaces, TLAPS

----------------------------------------------------------------------------
(* The inductive invariant.                                                *)

\* The lister shows the LC as it is, unless the LC was written since; an LC that
\* does not exist has nothing left of an earlier one.
ListerInv ==
    /\ lcStale \/ lcSeen = lc
    /\ ~lc.exists => lc = NoLC

\* A workspace is initialized only after its location was stored, and the
\* controller that has made it Ready has seen the location.
Located(w) == w.phase \in {"Initializing", "Ready"} \/ w.initialized # "none" => w.spec
LocationInv ==
    /\ Located(ws)
    /\ ws.phase = "Ready" \/ ws.initialized = "True" => wsSeen.spec

\* The LC of a workspace that is not being deleted stays.
Alive == ws.exists /\ ~ws.deleting
AliveInv ==
    /\ wsSeen.deleting => ~Alive
    /\ Alive => ~lc.deleting
    /\ Alive /\ ws.spec => lc.exists /\ lc.phase # "Scheduling"

\* It is initialized once the workspace says so.
InitializedInv ==
    Alive =>
        /\ ws.initialized # "Gone"
        /\ ws.phase = "Ready" \/ ws.initialized = "True" => ~lc.inits

\* A workspace that does not exist has nothing left.
NoWSInv == ~ws.exists => ws = NoWS

IInv ==
    /\ TypeOK /\ ListerInv /\ NoWSInv
    /\ LocationInv /\ AliveInv /\ InitializedInv

\* The invariant holds at first.
LEMMA InitEstablishes == Init => IInv
<1> SUFFICES ASSUME Init PROVE IInv
  OBVIOUS
<1>1. NoLC \in LC /\ NewWS \in WS /\ NoWS \in WS
  BY Zenon DEF NoLC, LC, Labels, NoLabels, Phases, Finalizers, NewWS, NoWS, WS, WSPhases
<1>2. TypeOK
  BY Zenon, <1>1, LogicalClusterAssumption DEF Init, LCInit, TypeOK, LCTypeOK
<1>3. ListerInv /\ NoWSInv /\ LocationInv /\ AliveInv /\ InitializedInv
  BY Zenon DEF Init, LCInit, ListerInv, NoWSInv, LocationInv, Located, AliveInv, Alive,
     InitializedInv, NoLC, NewWS, NoWS
<1> QED
  BY Zenon, <1>2, <1>3 DEF IInv

----------------------------------------------------------------------------
(* One pass of the workspace controller.                                   *)

Created == IF lc.exists THEN lc ELSE NewLC
Started == Stored(Created, [Created EXCEPT !.phase = "Initializing"])

Passes == [ws : WS, lc : LC, foreign : BOOLEAN, stop : BOOLEAN, again : BOOLEAN]

\* What a pass makes of the LC.
MakesLC(w, l) ==
    \/ l = lc
    \/ w.deleting /\ lc.exists /\ l = [lc EXCEPT !.deleting = TRUE]
    \/ ~w.deleting /\ ~w.spec /\ l \in {Created, Started}

\* What the reconcilers before the last leave of a workspace.
Keeps(w, v) ==
    /\ v.exists = w.exists /\ v.deleting = w.deleting
    /\ v.phase = w.phase /\ v.initialized = w.initialized
Prepares(w, p) ==
    /\ p \in Passes
    /\ Keeps(w, p.ws)
    /\ MakesLC(w, p.lc)
    /\ p.stop \/ p.lc = lc \/ w.deleting
    /\ p.ws.spec # w.spec => p.ws.spec /\ p.stop /\ ~w.deleting /\ p.lc = Started

\* What the phase reconciler, and with it a whole pass, leaves of a workspace.
Advances(w, v) ==
    /\ v.exists = w.exists /\ v.deleting = w.deleting
    /\ v.phase = "Initializing" => w.phase = "Initializing" \/ w.spec
    /\ v.phase = "Ready" => w.phase = "Ready" \/ v.initialized = "True"
    /\ v.initialized # w.initialized =>
        \/ w.initialized = "Gone"
        \/ /\ w.phase = "Initializing"
           /\ v.initialized = "True" => lc.exists /\ lc.phase # "Scheduling" /\ ~lc.inits
           /\ v.initialized = "Gone" => ~lc.exists
Outcome(w, p) ==
    /\ p \in Passes
    /\ MakesLC(w, p.lc)
    /\ Advances(w, p.ws)
    /\ p.ws.spec # w.spec => p.ws.spec /\ ~w.deleting /\ p.lc = Started /\ Keeps(w, p.ws)

\* The LC that scheduling makes.
LEMMA CreatedFacts ==
    ASSUME TypeOK
    PROVE  /\ Created \in LC /\ Started \in LC
           /\ Created.exists
           /\ ~Created.deleting => Started.exists /\ Started.phase = "Initializing"
                                   /\ ~Started.deleting
           /\ Started = NoLC \/ Started.exists
           /\ ~lc.exists => ~Created.deleting
           /\ lc.exists => Created = lc
           /\ Started = NoLC \/ Started.finalizers = Created.finalizers
<1>1. NoLC \in LC /\ NewLC \in LC /\ NewLC.exists /\ ~NewLC.deleting
  BY Zenon DEF NoLC, NewLC, LC, Labels, NoLabels, Phases, Finalizers
<1>2. Created \in LC /\ Created.exists /\ (~lc.exists => ~Created.deleting)
  BY Zenon, <1>1 DEF Created, TypeOK, LCTypeOK
<1>3. type.init \in BOOLEAN /\ type.term \in BOOLEAN
  BY Zenon, LogicalClusterAssumption DEF TypeOK, LCTypeOK
<1> DEFINE n == [Created EXCEPT !.phase = "Initializing"]
           a == Admit(Created, n)
<1>4. /\ a \in LC /\ a.exists /\ a.phase = "Initializing"
      /\ a.deleting = Created.deleting /\ a.finalizers = Created.finalizers
  BY Zenon, <1>2, <1>3 DEF Admit, LC, Phases
<1>5. Started = IF a.deleting /\ a.finalizers = {} THEN NoLC ELSE a
  BY Zenon DEF Started, Stored
<1>6. Started \in LC
  BY Zenon, <1>1, <1>4, <1>5
<1> HIDE DEF a
<1> QED
  BY Zenon, <1>2, <1>4, <1>5, <1>6 DEF Created

\* A reconciler that changes no LC.
LEMMA ContinueFacts ==
    ASSUME TypeOK, NEW w \in WS
    PROVE  /\ Continue(w) \in Passes /\ Requeue(w) \in Passes /\ Later(w) \in Passes
           /\ Continue(w).ws = w /\ Requeue(w).ws = w /\ Later(w).ws = w
           /\ Continue(w).lc = lc /\ Requeue(w).lc = lc /\ Later(w).lc = lc
           /\ Requeue(w).stop
  BY Zenon DEF Continue, Requeue, Later, Pass, Passes, TypeOK, LCTypeOK

\* The labels, the deletion and the scheduling reconciler.
LEMMA MetaDataFacts ==
    ASSUME TypeOK, NEW w \in WS
    PROVE  Prepares(w, MetaData(w))
<1>1. [w EXCEPT !.label = w.phase] \in WS
  BY Zenon DEF WS
<1> QED
  BY <1>1, ContinueFacts DEF MetaData, Prepares, Keeps, MakesLC, WS

\* Deletion may take the finalizer off, or delete the LC.
LEMMA DeletionFacts ==
    ASSUME TypeOK, NEW w \in WS, NEW guess
    PROVE  Prepares(w, Deletion(w, guess))
<1> DEFINE off == [w EXCEPT !.finalizer = FALSE]
           dying == [lc EXCEPT !.deleting = TRUE]
<1>1. off \in WS /\ Keeps(w, off) /\ off.spec = w.spec
  BY Zenon DEF WS, Keeps
<1>2. dying \in LC
  BY Zenon DEF TypeOK, LCTypeOK, LC
<1>3. Prepares(w, Continue(w)) /\ Prepares(w, Requeue(w))
  BY Zenon, ContinueFacts DEF Prepares, Keeps, MakesLC
<1>4. Prepares(w, Continue(off)) /\ Prepares(w, Requeue(off))
  BY Zenon, <1>1, ContinueFacts DEF Prepares, MakesLC
<1>5. ASSUME w.deleting PROVE Prepares(w, DeleteLC(w))
  <2>1. Prepares(w, Pass(w, lc, FALSE, FALSE, FALSE))
    BY Zenon DEF Prepares, Keeps, MakesLC, Pass, Passes, TypeOK, LCTypeOK
  <2>2. ASSUME FrontProxy = "found"
        PROVE  Prepares(w, Pass(w, dying, foreign, FALSE, FALSE))
    <3>1. lc.exists
      BY Zenon, <2>2 DEF FrontProxy
    <3> QED
      BY Zenon, <1>2, <1>5, <3>1 DEF Prepares, Keeps, MakesLC, Pass, Passes, TypeOK, LCTypeOK
  <2> QED
    BY Zenon, <1>3, <2>1, <2>2 DEF DeleteLC
<1> HIDE DEF off
<1> QED
  BY Zenon, <1>3, <1>4, <1>5 DEF Deletion, off

\* Scheduling may name the LC, or make it and store its location.
LEMMA SchedulingFacts ==
    ASSUME TypeOK, NEW w \in WS, NEW name \in {"own", "foreign"}, NEW fault
    PROVE  Prepares(w, Scheduling(w, name, fault))
<1> DEFINE no == [w EXCEPT !.scheduled = "False"]
           yes == [w EXCEPT !.scheduled = "True"]
           named == [w EXCEPT !.shard = TRUE, !.finalizer = TRUE,
                              !.cluster = IF @ = "none" THEN name ELSE @]
           unnamed == [w EXCEPT !.cluster = "none"]
           placed == [w EXCEPT !.spec = TRUE]
<1>1. \A v \in {w, no, yes, named, unnamed} : v \in WS /\ Keeps(w, v) /\ v.spec = w.spec
  <2>1. \A v \in {w, no, yes} : v \in WS /\ Keeps(w, v) /\ v.spec = w.spec
    BY Zenon DEF WS, Keeps
  <2>2. named \in WS /\ Keeps(w, named) /\ named.spec = w.spec
    BY Zenon DEF WS, Keeps
  <2>3. unnamed \in WS /\ Keeps(w, unnamed) /\ unnamed.spec = w.spec
    BY Zenon DEF WS, Keeps
  <2> QED
    BY Zenon, <2>1, <2>2, <2>3
<1>2. placed \in WS /\ Keeps(w, placed) /\ placed.spec
  BY Zenon DEF WS, Keeps
<1>3. \A v \in {w, no, yes, named, unnamed} :
        Prepares(w, Continue(v)) /\ Prepares(w, Requeue(v))
  <2> HIDE DEF no, yes, named, unnamed
  <2> TAKE v \in {w, no, yes, named, unnamed}
  <2>1. v \in WS /\ Keeps(w, v) /\ v.spec = w.spec
    BY Zenon, <1>1
  <2> QED
    BY Zenon, <2>1, ContinueFacts DEF Prepares, MakesLC
<1> HIDE DEF no, yes, named, unnamed, placed
<1>4. ASSUME ~w.deleting, ~w.spec PROVE Prepares(w, Location(w, fault))
  <2>1. Prepares(w, Pass(w, Created, foreign, TRUE, TRUE))
    BY Zenon, <1>1, <1>4, CreatedFacts DEF Prepares, MakesLC, Pass, Passes, TypeOK
  <2>2. Prepares(w, Pass(placed, Started, foreign, TRUE, TRUE))
    BY Zenon, <1>2, <1>4, CreatedFacts DEF Prepares, MakesLC, Pass, Passes, TypeOK
  <2>3. Prepares(w, Requeue(unnamed))
    BY Zenon, <1>3
  <2>4. Location(w, fault) \in {Requeue(unnamed), Pass(w, Created, foreign, TRUE, TRUE),
                                Pass(placed, Started, foreign, TRUE, TRUE)}
    BY Zenon DEF Location, unnamed, placed, Created, Started
  <2> QED
    BY Zenon, <2>1, <2>2, <2>3, <2>4
<1>5. \/ Scheduling(w, name, fault) \in {Continue(w), Continue(no), Continue(yes), Requeue(named)}
      \/ ~w.deleting /\ ~w.spec /\ Scheduling(w, name, fault) = Location(w, fault)
  BY Zenon DEF Scheduling, Unschedulable, no, yes, named
<1> QED
  BY Zenon, <1>3, <1>4, <1>5

\* The phase reconciler.
LEMMA TerminalFacts ==
    ASSUME TypeOK, NEW w \in WS
    PROVE  /\ TerminalCondition(w) \in Passes /\ TerminalCondition(w).lc = lc
           /\ \/ TerminalCondition(w).ws = w
              \/ TerminalCondition(w).ws = [w EXCEPT !.phase = "Unavailable"]
              \/ TerminalCondition(w).ws = [w EXCEPT !.phase = RecoveredPhase(w)]
<1>1. RecoveredPhase(w) \in WSPhases
  BY Zenon DEF RecoveredPhase, WSPhases
<1>2. [w EXCEPT !.phase = "Unavailable"] \in WS /\ [w EXCEPT !.phase = RecoveredPhase(w)] \in WS
  BY Zenon, <1>1 DEF WS, WSPhases
<1> QED
  BY Zenon, <1>2, ContinueFacts DEF TerminalCondition

\* What the phase reconciler leaves.
Phased(w, p) == p \in Passes /\ p.lc = lc /\ p.ws.spec = w.spec /\ Advances(w, p.ws)

\* The terminal condition makes a workspace Unavailable or lets it recover.
LEMMA UnchangedFacts ==
    ASSUME TypeOK, NEW w \in WS
    PROVE  /\ Phased(w, Continue(w)) /\ Phased(w, Requeue(w)) /\ Phased(w, Later(w))
           /\ Phased(w, TerminalCondition(w))
<1>1. Phased(w, Continue(w)) /\ Phased(w, Requeue(w)) /\ Phased(w, Later(w))
  BY Zenon, ContinueFacts DEF Phased, Advances
<1>2. \A v \in {w, [w EXCEPT !.phase = "Unavailable"], [w EXCEPT !.phase = RecoveredPhase(w)]} :
        v.spec = w.spec /\ Advances(w, v)
  BY Zenon DEF Advances, RecoveredPhase, WS
<1> QED
  BY Zenon, <1>1, <1>2, TerminalFacts DEF Phased

\* Phase Initializing is left only for an LC that has finished initializing.
LEMMA InitializingFacts ==
    ASSUME TypeOK, NEW w \in WS, NEW young, w.phase = "Initializing"
    PROVE  Phased(w, Initializing(w, young))
<1> DEFINE gone == [w EXCEPT !.initialized = "Gone"]
           waits == [w EXCEPT !.initialized = "False"]
           ready == [w EXCEPT !.phase = "Ready", !.initialized = "True"]
<1>1. ASSUME FrontProxy = "notfound" PROVE Phased(w, Continue(gone))
  <2>1. ~lc.exists
    BY Zenon, <1>1 DEF FrontProxy
  <2>2. gone \in WS /\ gone.spec = w.spec /\ Advances(w, gone)
    BY Zenon, <2>1 DEF Advances, WS
  <2> HIDE DEF gone
  <2> QED
    BY Zenon, <2>2, ContinueFacts DEF Phased
<1>2. Phased(w, Later(waits))
  <2>1. waits \in WS /\ waits.spec = w.spec /\ Advances(w, waits)
    BY Zenon DEF Advances, WS
  <2> HIDE DEF waits
  <2> QED
    BY Zenon, <2>1, ContinueFacts DEF Phased
<1>3. ASSUME FrontProxy = "found", lc.phase # "Scheduling", ~lc.inits
      PROVE  Phased(w, TerminalCondition(ready))
  <2>1. lc.exists
    BY Zenon, <1>3 DEF FrontProxy
  <2>2. ready \in WS /\ RecoveredPhase(ready) = "Ready"
    BY Zenon DEF WS, WSPhases, RecoveredPhase
  <2>3. \A v \in {ready, [ready EXCEPT !.phase = "Unavailable"], [ready EXCEPT !.phase = "Ready"]} :
          v.spec = w.spec /\ Advances(w, v)
    BY Zenon, <1>3, <2>1 DEF Advances, WS
  <2> HIDE DEF ready
  <2> QED
    BY Zenon, <2>2, <2>3, TerminalFacts DEF Phased
<1>4. FrontProxy \in {"error", "found", "notfound"}
  BY Zenon DEF FrontProxy
<1> HIDE DEF gone, waits, ready
<1> QED
  BY Zenon, <1>1, <1>2, <1>3, <1>4, UnchangedFacts DEF Initializing, gone, waits, ready

\* An Unavailable workspace recovers to where it was.
LEMMA UnavailableFacts ==
    ASSUME TypeOK, NEW w \in WS, w.phase = "Unavailable"
    PROVE  Phased(w, Unavailable(w))
<1> DEFINE found == [w EXCEPT !.initialized = "True"]
           p == TerminalCondition(found)
<1>1. ASSUME w.initialized = "Gone" PROVE Phased(w, [p EXCEPT !.again = TRUE])
  <2>1. found \in WS /\ RecoveredPhase(found) = "Ready"
    BY Zenon DEF WS, RecoveredPhase
  <2>2. \A v \in {found, [found EXCEPT !.phase = "Unavailable"], [found EXCEPT !.phase = "Ready"]} :
          v.spec = w.spec /\ Advances(w, v)
    BY Zenon, <1>1 DEF Advances, WS
  <2> HIDE DEF found
  <2>3. p \in Passes /\ p.lc = lc /\ p.ws.spec = w.spec /\ Advances(w, p.ws)
    BY Zenon, <2>1, <2>2, TerminalFacts
  <2> HIDE DEF p
  <2>4. /\ [p EXCEPT !.again = TRUE] \in Passes
        /\ [p EXCEPT !.again = TRUE].ws = p.ws /\ [p EXCEPT !.again = TRUE].lc = p.lc
    BY Zenon, <2>3 DEF Passes
  <2> QED
    BY Zenon, <2>3, <2>4 DEF Phased
<1> HIDE DEF p
<1> QED
  BY Zenon, <1>1, UnchangedFacts DEF Unavailable, p

\* The whole phase reconciler.
LEMMA PhaseFacts ==
    ASSUME TypeOK, NEW w \in WS, NEW young
    PROVE  Phased(w, Phase(w, young))
<1>1. Phased(w, Terminating(w))
  <2> DEFINE v == [w EXCEPT !.phase = IF lc.terms THEN "Terminating" ELSE "Deleting"]
  <2>1. v \in WS /\ v.spec = w.spec /\ Advances(w, v)
    BY Zenon DEF Advances, WS, WSPhases
  <2>2. Phased(w, Later(v))
    <3> HIDE DEF v
    <3> QED
      BY Zenon, <2>1, ContinueFacts DEF Phased
  <2> QED
    BY Zenon, <2>2, UnchangedFacts DEF Terminating
<1>2. ASSUME w.spec PROVE Phased(w, TerminalCondition([w EXCEPT !.phase = "Initializing"]))
  <2> DEFINE v == [w EXCEPT !.phase = "Initializing"]
  <2>1. v \in WS
    BY Zenon DEF WS, WSPhases
  <2>2. \A u \in {v, [v EXCEPT !.phase = "Unavailable"], [v EXCEPT !.phase = RecoveredPhase(v)]} :
          u.spec = w.spec /\ Advances(w, u)
    <3> DEFINE r == RecoveredPhase(v)
    <3>1. r = "Initializing" \/ (r = "Ready" /\ w.initialized = "True")
      <4>1. v.spec = w.spec /\ v.initialized = w.initialized
        BY Zenon DEF WS
      <4> HIDE DEF v
      <4> QED
        BY Zenon, <1>2, <4>1 DEF RecoveredPhase
    <3> HIDE DEF r
    <3>2. v.spec = w.spec /\ Advances(w, v)
      BY Zenon, <1>2 DEF Advances, WS
    <3>3. LET u == [v EXCEPT !.phase = "Unavailable"] IN u.spec = w.spec /\ Advances(w, u)
      BY Zenon DEF Advances, WS
    <3>4. LET u == [v EXCEPT !.phase = r] IN u.spec = w.spec /\ Advances(w, u)
      BY Zenon, <1>2, <3>1 DEF Advances, WS
    <3> HIDE DEF v
    <3> QED
      BY Zenon, <3>2, <3>3, <3>4 DEF r
  <2> HIDE DEF v
  <2>3. Phased(w, TerminalCondition(v))
    BY Zenon, <2>1, <2>2, TerminalFacts DEF Phased
  <2> QED
    BY Zenon, <2>3 DEF v
<1> QED
  BY Zenon, <1>1, <1>2, InitializingFacts, UnavailableFacts, UnchangedFacts DEF Phase

\* A whole pass.
LEMMA ThenFacts ==
    ASSUME TypeOK, NEW w \in WS, NEW p, NEW q, Prepares(w, p), Prepares(p.ws, q)
    PROVE  Prepares(w, Then(p, q))
<1>1. CASE p.stop
  BY Zenon, <1>1 DEF Then
<1>2. CASE ~p.stop
  <2>1. p.ws.spec = w.spec /\ (p.lc = lc \/ w.deleting) /\ Keeps(w, p.ws)
    BY Zenon, <1>2 DEF Prepares
  <2>2. Prepares(w, q)
    BY Zenon, <2>1 DEF Prepares, Keeps, MakesLC
  <2>3. ASSUME q.lc = lc PROVE Prepares(w, [q EXCEPT !.lc = p.lc, !.foreign = p.foreign])
    <3> DEFINE r == [q EXCEPT !.lc = p.lc, !.foreign = p.foreign]
    <3>1. r \in Passes /\ r.ws = q.ws /\ r.lc = p.lc /\ r.stop = q.stop
      BY Zenon DEF Prepares, Passes
    <3>2. q.ws.spec # w.spec => p.lc = Started
      BY Zenon, <2>1, <2>2, <2>3 DEF Prepares
    <3> HIDE DEF r
    <3>3. Prepares(w, r)
      BY Zenon, <2>1, <2>2, <3>1, <3>2 DEF Prepares
    <3> QED
      BY Zenon, <3>3 DEF r
  <2> QED
    BY Zenon, <1>2, <2>2, <2>3 DEF Then
<1> QED
  BY Zenon, <1>1, <1>2 DEF Prepares, Passes

\* The four reconcilers one after the other.
LEMMA ChainFacts ==
    ASSUME TypeOK, NEW w \in WS, NEW c \in Choices, NEW p \in Chain(w, c)
    PROVE  Outcome(w, p)
<1> DEFINE m == MetaData(w)
           d == Then(m, Deletion(m.ws, c.guess))
           s == Then(d, Scheduling(d.ws, c.name, c.fault))
           q == Phase(s.ws, c.young)
<1>1. p = Then(s, q)
  BY Zenon DEF Chain
<1>2. c.name \in {"own", "foreign"}
  BY DEF Choices, Usual
<1>3. Prepares(w, m) /\ m.ws \in WS
  BY Zenon, MetaDataFacts DEF Prepares, Passes
<1> HIDE DEF m
<1>4. Prepares(w, d) /\ d.ws \in WS
  BY <1>3, DeletionFacts, ThenFacts DEF Prepares, Passes
<1> HIDE DEF d
<1>5. Prepares(w, s) /\ s.ws \in WS
  BY <1>2, <1>4, SchedulingFacts, ThenFacts DEF Prepares, Passes
<1> HIDE DEF s
<1>6. Phased(s.ws, q)
  BY Zenon, <1>5, PhaseFacts
<1> HIDE DEF q
<1>7. CASE s.stop
  BY Zenon, <1>1, <1>5, <1>7 DEF Then, Prepares, Outcome, Advances, Keeps
<1>8. CASE ~s.stop
  <2>1. s.ws.spec = w.spec /\ Keeps(w, s.ws) /\ MakesLC(w, s.lc)
    BY Zenon, <1>5, <1>8 DEF Prepares
  <2>2. Advances(w, q.ws) /\ q.ws.spec = w.spec
    BY Zenon, <1>6, <2>1 DEF Phased, Advances, Keeps
  <2>3. p \in Passes /\ p.ws = q.ws /\ p.lc \in {lc, s.lc}
    BY Zenon, <1>1, <1>5, <1>6, <1>8 DEF Then, Phased, Prepares, Passes
  <2>4. MakesLC(w, p.lc)
    BY Zenon, <2>1, <2>3 DEF MakesLC
  <2> QED
    BY Zenon, <2>2, <2>3, <2>4 DEF Outcome
<1> QED
  BY Zenon, <1>5, <1>7, <1>8 DEF Prepares, Passes

----------------------------------------------------------------------------
(* The LC's own steps.                                                     *)

\* The budget keeps its type.
LEMMA SpendFacts ==
    ASSUME budget \in [Events -> Nat], NEW e \in Events, Spend(e)
    PROVE  budget' \in [Events -> Nat]
<1>1. budget[e] \in Nat /\ budget[e] > 0
  BY Zenon DEF Spend
<1>2. budget[e] - 1 \in Nat
  BY <1>1
<1> QED
  BY Zenon, <1>2 DEF Spend

\* Also when a call may fail.
LEMMA TryFacts ==
    ASSUME budget \in [Events -> Nat], NEW ok, Try(ok)
    PROVE  budget' \in [Events -> Nat]
<1>1. "fail" \in Events
  BY Zenon DEF Events
<1> QED
  BY Zenon, <1>1, SpendFacts DEF Try

\* What no step but a pass of the workspace controller does to an LC: it does not
\* delete it, and does not make it initialize again.
LCKeeps ==
    ~lc.deleting =>
        /\ ~lc'.deleting /\ lc'.exists = lc.exists
        /\ lc.exists /\ lc.phase # "Scheduling" =>
              lc'.phase # "Scheduling" /\ (~lc.inits => ~lc'.inits)

\* The finalizer of the terminators goes only when they are done.
HoldsFinalizer ==
    lc'.exists /\ "terminators" \in lc.finalizers /\ "terminators" \notin lc'.finalizers
      => ~lc'.terms

LCPreserved == lc' \in LC /\ (~lc'.exists => lc' = NoLC) /\ LCKeeps /\ HoldsFinalizer

\* What the logicalcluster controller makes of the LC it sees.
LEMMA ReconciledFacts ==
    ASSUME TypeOK, lc.exists
    PROVE  LET n == Stored(lc, Reconciled(lc)) IN
           /\ n \in LC /\ (n = NoLC \/ n.exists)
           /\ ~lc.deleting => ~n.deleting /\ n.exists
           /\ ~lc.deleting /\ lc.phase # "Scheduling" =>
                 n.phase # "Scheduling" /\ (~lc.inits => ~n.inits)
           /\ n.exists /\ "terminators" \in lc.finalizers /\ "terminators" \notin n.finalizers
                 => ~n.terms
<1> DEFINE l == WithLabels(lc)
           f == WithFinalizer(lc)
           h == [lc EXCEPT !.phase = NextPhase(lc)]
<1>1. lc \in LC /\ NoLC \in LC /\ type.init \in BOOLEAN /\ type.term \in BOOLEAN
  BY Zenon, LogicalClusterAssumption DEF TypeOK, LCTypeOK, NoLC, LC, Labels, NoLabels, Phases, Finalizers
<1>2. /\ l \in LC /\ l.exists /\ l.deleting = lc.deleting /\ l.phase = lc.phase
      /\ l.inits = lc.inits /\ l.finalizers = lc.finalizers
  BY Zenon, <1>1 DEF WithLabels, LC, Labels
<1>3. /\ f \in LC /\ f.exists /\ f.deleting = lc.deleting /\ f.phase = lc.phase
      /\ f.inits = lc.inits /\ f.terms = lc.terms
      /\ "terminators" \in lc.finalizers /\ "terminators" \notin f.finalizers => ~f.terms
  BY Zenon, <1>1 DEF WithFinalizer, LC, Finalizers
<1>4. /\ h \in LC /\ h.exists /\ h.deleting = lc.deleting /\ h.inits = lc.inits
      /\ h.finalizers = lc.finalizers
      /\ ~lc.deleting /\ lc.phase # "Scheduling" => h.phase # "Scheduling"
      /\ lc.phase # "Scheduling" /\ h.phase = "Initializing" => lc.phase = "Initializing"
  BY Zenon, <1>1 DEF NextPhase, LC, Phases
<1>5. Reconciled(lc) \in {l, f, h}
  BY Zenon DEF Reconciled
<1> HIDE DEF l, f, h
<1>6. PICK r \in {l, f, h} : Reconciled(lc) = r
  BY Zenon, <1>5
<1> DEFINE a == Admit(lc, r)
<1>7. /\ r \in LC /\ r.exists /\ r.deleting = lc.deleting /\ r.inits = lc.inits
      /\ ~lc.deleting /\ lc.phase # "Scheduling" => r.phase # "Scheduling"
      /\ lc.phase # "Scheduling" /\ r.phase = "Initializing" => lc.phase = "Initializing"
      /\ "terminators" \in lc.finalizers /\ "terminators" \notin r.finalizers =>
            r.phase = lc.phase /\ ~r.terms
  BY Zenon, <1>2, <1>3, <1>4
<1>8. /\ a \in LC /\ a.exists /\ a.deleting = lc.deleting /\ a.phase = r.phase
      /\ a.finalizers = r.finalizers
      /\ lc.phase # "Scheduling" \/ r.phase = lc.phase => a = r
  BY Zenon, <1>1, <1>7 DEF Admit, LC
<1>9. Stored(lc, Reconciled(lc)) = IF a.deleting /\ a.finalizers = {} THEN NoLC ELSE a
  BY Zenon, <1>6 DEF Stored
<1> HIDE DEF a
<1> QED
  BY <1>1, <1>7, <1>8, <1>9 DEF NoLC

\* Its write goes to the LC it has seen, or nowhere.
LEMMA ReconcileLCPreserves ==
    ASSUME IInv, NEW ok, ReconcileLC(ok)
    PROVE  LCPreserved
<1>1. lc \in LC /\ (~lc.exists => lc = NoLC)
  BY Zenon DEF IInv, TypeOK, LCTypeOK, ListerInv
<1>2. CASE lc' = lc
  BY Zenon, <1>1, <1>2 DEF LCPreserved, LCKeeps, HoldsFinalizer
<1>3. CASE lc' # lc
  <2>1. lcSeen = lc /\ lc.exists
    BY Zenon, <1>3 DEF ReconcileLC, Conflict, IInv, ListerInv
  <2>2. lc' = Stored(lc, Reconciled(lc))
    BY Zenon, <1>3, <2>1 DEF ReconcileLC
  <2> QED
    BY Zenon, <2>1, <2>2, ReconciledFacts DEF IInv, LCPreserved, LCKeeps, HoldsFinalizer, NoLC
<1> QED
  BY Zenon, <1>2, <1>3

\* The deletion controller takes off only its own finalizer, and only from an LC
\* that is being deleted.
LEMMA ReconcileDeletionPreserves ==
    ASSUME IInv, NEW ok, ReconcileDeletion(ok)
    PROVE  LCPreserved
<1>1. lc \in LC /\ (~lc.exists => lc = NoLC)
  BY Zenon DEF IInv, TypeOK, LCTypeOK, ListerInv
<1>2. CASE lc' = lc
  BY Zenon, <1>1, <1>2 DEF LCPreserved, LCKeeps, HoldsFinalizer
<1>3. CASE lc' # lc
  <2> DEFINE n == [lc EXCEPT !.finalizers = @ \ {"deletion"}]
  <2>1. lcSeen = lc /\ lc.exists /\ lc.deleting
    BY Zenon, <1>3 DEF ReconcileDeletion, Conflict, IInv, ListerInv
  <2>2. lc' = Stored(lc, n)
    BY Zenon, <1>3, <2>1 DEF ReconcileDeletion
  <2>3. n \in LC /\ n.exists /\ ("terminators" \in lc.finalizers => "terminators" \in n.finalizers)
    BY Zenon, <1>1, <2>1 DEF LC, Finalizers
  <2>4. Admit(lc, n) = n
    BY Zenon, <1>1 DEF Admit, LC
  <2>5. NoLC \in LC /\ ~NoLC.exists
    BY Zenon DEF NoLC, LC, Labels, NoLabels, Phases, Finalizers
  <2> HIDE DEF n
  <2>6. lc' \in {NoLC, n}
    BY Zenon, <2>2, <2>4 DEF Stored
  <2> QED
    BY Zenon, <2>1, <2>3, <2>5, <2>6 DEF LCPreserved, LCKeeps, HoldsFinalizer
<1> QED
  BY Zenon, <1>2, <1>3

\* Initializers, terminators and administrators touch neither finalizers nor phase.
LEMMA OthersPreserve ==
    ASSUME IInv, Initialize \/ Terminate \/ MarkInactive \/ Reactivate
    PROVE  LCPreserved
<1>1. lc \in LC /\ (~lc.exists => lc = NoLC)
  BY Zenon DEF IInv, TypeOK, LCTypeOK, ListerInv
<1> QED
  BY Zenon, <1>1 DEF Initialize, Terminate, MarkInactive, Reactivate, LCPreserved, LCKeeps,
     HoldsFinalizer, LC

\* The variables of the LC's shard keep their types.
LEMMA LCStepTypes ==
    ASSUME IInv, LCPreserved,
           \/ LCStep \/ Deactivate
    PROVE  LCTypeOK' /\ ListerInv' /\ UNCHANGED wsVars
<1>1. "inactive" \in Events /\ "restart" \in Events
  BY Zenon DEF Events
<1>2. budget' \in [Events -> Nat]
  BY Zenon, <1>1, SpendFacts, TryFacts DEF IInv, TypeOK, LCTypeOK, LCStep, Deactivate, ReconcileLC,
     ReconcileDeletion, ContentGoes, Initialize, Terminate, MarkInactive, Reactivate,
     RestartLCShard
<1>3. lc' \in LC /\ lc \in LC /\ lcSeen \in LC /\ (~lc'.exists => lc' = NoLC)
  BY Zenon DEF IInv, TypeOK, LCTypeOK, LCPreserved
<1>4. /\ type' = type /\ UNCHANGED wsVars
      /\ \/ lcSeen' = lcSeen /\ Touch
         \/ lcSeen' = lcSeen /\ lcStale' = lcStale /\ lc' = lc
         \/ lcSeen' = lc /\ lcStale' = FALSE /\ lc' = lc
  BY Zenon DEF LCStep, Deactivate, ReconcileLC, ReconcileDeletion, ContentGoes, Initialize,
     Terminate, MarkInactive, Reactivate, RestartLCShard, Others
<1>5. lcSeen' \in LC /\ lcStale' \in BOOLEAN /\ (lcStale' \/ lcSeen' = lc')
  BY Zenon, <1>3, <1>4 DEF Touch, IInv, TypeOK, LCTypeOK, ListerInv
<1>6. lcQueued' \in BOOLEAN /\ delQueued' \in BOOLEAN
  BY Zenon, <1>3 DEF LCStep, Deactivate, ReconcileLC, ReconcileDeletion, ContentGoes, Initialize,
     Terminate, MarkInactive, Reactivate, RestartLCShard, Others, IInv, TypeOK, LCTypeOK, LC
<1>7. content' \in {"present", "going", "gone"} /\ cancelled' \in BOOLEAN
  BY Zenon, <1>3 DEF LCStep, Deactivate, ReconcileLC, ReconcileDeletion, ContentGoes, Initialize,
     Terminate, MarkInactive, Reactivate, RestartLCShard, Others, IInv, TypeOK, LCTypeOK, LC,
     Contexts
<1> QED
  BY Zenon, <1>2, <1>3, <1>4, <1>5, <1>6, <1>7 DEF LCTypeOK, ListerInv, IInv, TypeOK

\* Every step of the LC's own shard.
LEMMA LCStepPreserves ==
    ASSUME IInv, LCStep \/ Deactivate
    PROVE  LCPreserved
<1>1. lc' = lc => LCPreserved
  BY Zenon DEF IInv, TypeOK, LCTypeOK, ListerInv, LCPreserved, LCKeeps, HoldsFinalizer
<1> QED
  BY Zenon, <1>1, ReconcileLCPreserves, ReconcileDeletionPreserves, OthersPreserve
     DEF LCStep, Deactivate, ContentGoes, RestartLCShard

\* As long as the workspace does not change, nor what the controller sees of it.
LEMMA WorkspaceKept ==
    ASSUME IInv, LCKeeps, UNCHANGED <<ws, wsSeen>>
    PROVE  NoWSInv' /\ LocationInv' /\ AliveInv' /\ InitializedInv'
<1>1. NoWSInv' /\ LocationInv'
  BY Zenon DEF IInv, NoWSInv, LocationInv, Located
<1>2. AliveInv' /\ InitializedInv'
  BY Zenon DEF IInv, LCKeeps, LocationInv, Located, AliveInv, InitializedInv, Alive
<1> QED
  BY Zenon, <1>1, <1>2

----------------------------------------------------------------------------
(* A pass of the workspace controller.                                     *)

\* The budget keeps its type in a pass.
LEMMA RareFacts ==
    ASSUME TypeOK, NEW c, Rare(c)
    PROVE  budget' \in [Events -> Nat]
<1>1. "taken" \in Events /\ "fail" \in Events
  BY Zenon DEF Events
<1> QED
  BY Zenon, <1>1, SpendFacts DEF Rare, TypeOK, LCTypeOK

\* What a pass does to the LC, whatever becomes of the commit.
LEMMA PassOnLC ==
    ASSUME IInv, NEW p, Outcome(wsSeen, p), lc' = p.lc
    PROVE  /\ lc' \in LC /\ (~lc'.exists => lc' = NoLC) /\ HoldsFinalizer
           /\ Alive => ~lc'.deleting /\ (lc.exists => lc'.exists)
           /\ Alive /\ ws.spec => lc'.phase # "Scheduling"
           /\ Alive /\ (ws.phase = "Ready" \/ ws.initialized = "True") => lc' = lc
<1>1. TypeOK /\ lc \in LC /\ (~lc.exists => lc = NoLC) /\ lc' \in LC
  BY Zenon DEF IInv, TypeOK, LCTypeOK, ListerInv, Outcome, Passes
<1>2. CASE lc' = lc
  BY Zenon, <1>1, <1>2 DEF HoldsFinalizer, IInv, AliveInv
<1>3. CASE wsSeen.deleting /\ lc.exists /\ lc' = [lc EXCEPT !.deleting = TRUE]
  <2>1. ~Alive
    BY Zenon, <1>3 DEF IInv, AliveInv
  <2>2. lc'.exists /\ lc'.finalizers = lc.finalizers
    BY Zenon, <1>1, <1>3 DEF LC
  <2> QED
    BY Zenon, <1>1, <2>1, <2>2 DEF HoldsFinalizer
<1>4. CASE ~wsSeen.deleting /\ ~wsSeen.spec /\ lc' \in {Created, Started}
  <2>1. /\ Created.exists /\ (lc.exists => Created = lc) /\ (~lc.exists => ~Created.deleting)
        /\ ~Created.deleting => Started.exists /\ Started.phase = "Initializing" /\ ~Started.deleting
        /\ Started = NoLC \/ Started.exists
        /\ Started = NoLC \/ Started.finalizers = Created.finalizers
    BY Zenon, <1>1, CreatedFacts
  <2>2. Alive => ~Created.deleting
    BY Zenon, <2>1 DEF IInv, AliveInv
  <2>3. Alive => ~(ws.phase = "Ready" \/ ws.initialized = "True")
    BY Zenon, <1>4 DEF IInv, LocationInv
  <2>4. Alive /\ ws.spec => lc.exists /\ lc.phase # "Scheduling"
    BY Zenon DEF IInv, AliveInv
  <2>5. HoldsFinalizer
    BY <1>1, <1>4, <2>1 DEF HoldsFinalizer, NoLC
  <2>6. ~lc'.exists => lc' = NoLC
    BY Zenon, <1>4, <2>1
  <2> QED
    BY Zenon, <1>1, <1>4, <2>1, <2>2, <2>3, <2>4, <2>5, <2>6
<1> QED
  BY Zenon, <1>2, <1>3, <1>4 DEF Outcome, MakesLC

\* A commit that succeeds replaces the workspace the pass has read.
LEMMA CommitFacts ==
    ASSUME IInv, NEW p, Outcome(wsSeen, p), lc' = p.lc, wsSeen = ws, ws.exists,
           wsSeen' = wsSeen, ws' = p.ws
    PROVE  NoWSInv' /\ LocationInv' /\ AliveInv' /\ InitializedInv'
<1>1. /\ lc' \in LC
      /\ Alive => ~lc'.deleting /\ (lc.exists => lc'.exists)
      /\ Alive /\ ws.spec => lc'.phase # "Scheduling"
      /\ Alive /\ (ws.phase = "Ready" \/ ws.initialized = "True") => lc' = lc
  BY Zenon, PassOnLC
<1>2. /\ ws'.exists /\ ws'.deleting = ws.deleting /\ Advances(ws, ws')
      /\ ws'.spec # ws.spec => ws'.spec /\ ~ws.deleting /\ lc' = Started /\ Keeps(ws, ws')
      /\ MakesLC(ws, lc')
  BY Zenon DEF Outcome, Advances
<1>3. Alive' <=> Alive
  BY Zenon, <1>2 DEF Alive
<1>4. Located(ws) /\ Located(ws')
  BY Zenon, <1>2 DEF IInv, LocationInv, Located, Advances, Keeps
<1>5. ws'.phase = "Ready" \/ ws'.initialized = "True" => ws.spec
  BY Zenon, <1>2, <1>4 DEF Advances, Located
<1>6. Alive /\ ws'.spec => lc'.exists /\ lc'.phase # "Scheduling"
  <2>1. CASE ws.spec
    BY Zenon, <1>1, <2>1 DEF IInv, AliveInv
  <2>2. CASE ws'.spec /\ ~ws.spec /\ Alive
    <3>1. lc' = Started
      BY Zenon, <1>2, <2>2
    <3>2. ~Created.deleting
      BY Zenon, <2>2, CreatedFacts DEF IInv, AliveInv
    <3> QED
      BY Zenon, <3>1, <3>2, CreatedFacts DEF IInv
  <2> QED
    BY Zenon, <2>1, <2>2
<1>7. ASSUME Alive, ws.spec PROVE lc' = lc /\ lc.exists
  BY Zenon, <1>2, <1>7 DEF MakesLC, IInv, AliveInv, Alive
<1>8. Alive => ws'.initialized # "Gone"
  BY Zenon, <1>2, <1>4, <1>7 DEF Advances, IInv, InitializedInv, Located
<1>9. Alive /\ (ws'.phase = "Ready" \/ ws'.initialized = "True") => ~lc'.inits
  BY Zenon, <1>2, <1>5, <1>7 DEF Advances, IInv, InitializedInv
<1> QED
  BY Zenon, <1>1, <1>2, <1>3, <1>4, <1>5, <1>6, <1>8, <1>9
     DEF NoWSInv, LocationInv, AliveInv, InitializedInv, Alive, IInv, Located

\* Nothing is asked of a workspace that is gone.
LEMMA GoneFacts ==
    ASSUME ws' = NoWS
    PROVE  NoWSInv' /\ LocationInv' /\ AliveInv' /\ InitializedInv'
  BY Zenon DEF NoWSInv, LocationInv, Located, AliveInv, InitializedInv, Alive, NoWS, NewWS

\* A pass, whether it commits, conflicts or deletes the workspace.
LEMMA ReconcileWSPreserves ==
    ASSUME IInv, NEW c \in Choices, ReconcileWS(c)
    PROVE  IInv' /\ HoldsFinalizer
<1>1. TypeOK /\ ListerInv /\ wsSeen \in WS /\ ws \in WS /\ lc \in LC
  BY Zenon DEF IInv, TypeOK, LCTypeOK
<1>2. /\ UNCHANGED <<type, lcSeen, lcQueued, delQueued, content, cancelled, wsSeen, shardKnown, index>>
      /\ budget' \in [Events -> Nat] /\ Touch
  BY Zenon, <1>1, RareFacts DEF ReconcileWS
<1>3. ASSUME lc' \in LC, ~lc'.exists => lc' = NoLC, ws' \in WS, wsQueued' \in BOOLEAN,
             foreign' \in BOOLEAN
      PROVE  TypeOK' /\ ListerInv'
  BY Zenon, <1>1, <1>2, <1>3 DEF TypeOK, LCTypeOK, ListerInv, Touch
<1>4. CASE ~wsSeen.exists
  <2>1. UNCHANGED <<ws, lc, foreign>> /\ wsQueued' = FALSE
    BY Zenon, <1>4 DEF ReconcileWS
  <2>2. LCKeeps /\ HoldsFinalizer
    BY Zenon, <2>1 DEF LCKeeps, HoldsFinalizer
  <2>3. TypeOK' /\ ListerInv'
    BY Zenon, <1>1, <1>3, <2>1 DEF TypeOK, ListerInv
  <2> QED
    BY Zenon, <1>2, <2>1, <2>2, <2>3, WorkspaceKept DEF IInv
<1>5. CASE wsSeen.exists
  <2>1. PICK p \in Chain(wsSeen, c) :
          /\ ws' = IF p.ws = wsSeen THEN ws ELSE CommitWS(wsSeen, p.ws, c.fault)
          /\ lc' = p.lc /\ foreign' = p.foreign
          /\ wsQueued' = (p.again \/ (p.ws # wsSeen /\ ws' = ws))
    BY Zenon, <1>5 DEF ReconcileWS
  <2>2. Outcome(wsSeen, p)
    BY Zenon, <1>1, ChainFacts
  <2>3. NoWS \in WS /\ p \in Passes
    BY Zenon, <2>2 DEF NoWS, NewWS, WS, WSPhases, Outcome
  <2>4. \/ ws' = ws \/ ws' = NoWS
        \/ wsSeen = ws /\ ws' = p.ws
    BY Zenon, <2>1 DEF CommitWS
  <2>5. /\ lc' \in LC /\ (~lc'.exists => lc' = NoLC) /\ HoldsFinalizer
        /\ Alive => ~lc'.deleting /\ (lc.exists => lc'.exists)
        /\ Alive /\ ws.spec => lc'.phase # "Scheduling"
        /\ Alive /\ (ws.phase = "Ready" \/ ws.initialized = "True") => lc' = lc
    BY Zenon, <2>1, <2>2, PassOnLC
  <2>6. TypeOK' /\ ListerInv'
    <3>1. ws' \in WS /\ wsQueued' \in BOOLEAN /\ foreign' \in BOOLEAN
      BY Zenon, <1>1, <2>1, <2>3, <2>4 DEF Passes
    <3> QED
      BY Zenon, <1>3, <2>5, <3>1
  <2>7. NoWSInv' /\ LocationInv' /\ AliveInv' /\ InitializedInv'
    <3>1. CASE ws' = ws
      BY Zenon, <1>2, <2>5, <3>1 DEF IInv, NoWSInv, LocationInv, Located, AliveInv, InitializedInv, Alive
    <3>2. CASE ws' = NoWS
      BY Zenon, <3>2, GoneFacts
    <3>3. CASE wsSeen = ws /\ ws' = p.ws
      BY Zenon, <1>2, <1>5, <2>1, <2>2, <3>3, CommitFacts
    <3> QED
      BY Zenon, <2>4, <3>1, <3>2, <3>3
  <2> QED
    BY Zenon, <2>5, <2>6, <2>7 DEF IInv
<1> QED
  BY Zenon, <1>4, <1>5

----------------------------------------------------------------------------
(* The other steps, and the theorems.                                      *)

\* Informers, the index, shards and users.
LEMMA OtherSteps ==
    ASSUME IInv,
           \/ SeeLC \/ SyncWS \/ ResyncWS \/ IndexLC \/ IndexWS
           \/ LoseShard \/ FindShard \/ Delete \/ RestartWSShard
    PROVE  IInv' /\ HoldsFinalizer
<1>1. lc' = lc /\ type' = type /\ HoldsFinalizer /\ LCKeeps
  BY Zenon DEF SeeLC, SyncLC, SyncWS, ResyncWS, IndexLC, IndexWS, LoseShard, FindShard, Delete,
     RestartWSShard, lcVars, HoldsFinalizer, LCKeeps
<1>2. budget' \in [Events -> Nat]
  <2>1. "shard" \in Events /\ "delete" \in Events /\ "restart" \in Events
    BY Zenon DEF Events
  <2> QED
    BY Zenon, <2>1, SpendFacts DEF SeeLC, SyncLC, SyncWS, ResyncWS, IndexLC, IndexWS, LoseShard,
       FindShard, Delete, RestartWSShard, lcVars, IInv, TypeOK, LCTypeOK
<1>3. LCTypeOK' /\ ListerInv'
  <2>1. \/ UNCHANGED lcVars
        \/ /\ lcSeen' = lc /\ lcStale' = FALSE /\ lcQueued' = TRUE
           /\ delQueued' = (delQueued \/ lc.deleting) /\ UNCHANGED <<content, cancelled>>
    BY Zenon DEF SeeLC, SyncLC, SyncWS, ResyncWS, IndexLC, IndexWS, LoseShard, FindShard, Delete,
       RestartWSShard
  <2>2. CASE UNCHANGED lcVars
    BY Zenon, <1>1, <1>2, <2>2 DEF lcVars, IInv, TypeOK, LCTypeOK, ListerInv
  <2>3. CASE /\ lcSeen' = lc /\ lcStale' = FALSE /\ lcQueued' = TRUE
             /\ delQueued' = (delQueued \/ lc.deleting) /\ UNCHANGED <<content, cancelled>>
    <3>1. delQueued' \in BOOLEAN
      BY Zenon, <2>3 DEF IInv, TypeOK, LCTypeOK, LC
    <3> QED
      BY Zenon, <1>1, <1>2, <2>3, <3>1 DEF IInv, TypeOK, LCTypeOK, ListerInv
  <2> QED
    BY Zenon, <2>1, <2>2, <2>3
<1>4. TypeOK'
  <2>0. /\ ws \in WS /\ wsSeen \in WS /\ wsQueued \in BOOLEAN
        /\ shardKnown \in BOOLEAN /\ foreign \in BOOLEAN
        /\ index \in [lc : BOOLEAN, refused : BOOLEAN]
    BY Zenon DEF IInv, TypeOK
  <2>1. [ws EXCEPT !.deleting = TRUE] \in WS /\ NoWS \in WS
    <3>1. [ws EXCEPT !.deleting = TRUE] \in WS
      BY Zenon, <2>0 DEF WS
    <3>2. NoWS \in WS
      BY Zenon DEF WS, WSPhases, NoWS, NewWS
    <3> QED
      BY Zenon, <3>1, <3>2
  <2>4. lc.exists \in BOOLEAN /\ ws.exists \in BOOLEAN
    BY Zenon, <2>0 DEF IInv, TypeOK, LCTypeOK, LC, WS
  <2>2. ws' \in WS /\ wsSeen' \in WS /\ wsQueued' \in BOOLEAN
    <3>1. CASE SeeLC \/ SyncWS \/ ResyncWS
      BY Zenon, <2>0, <3>1 DEF SeeLC, SyncWS, ResyncWS
    <3>2. CASE IndexLC \/ IndexWS \/ LoseShard \/ FindShard
      BY Zenon, <2>0, <3>2 DEF IndexLC, IndexWS, LoseShard, FindShard
    <3>3. CASE Delete
      <4>1. ws' \in {[ws EXCEPT !.deleting = TRUE], NoWS} /\ UNCHANGED <<wsSeen, wsQueued>>
        BY Zenon, <3>3 DEF Delete
      <4> QED
        BY Zenon, <2>0, <2>1, <4>1
    <3>4. CASE RestartWSShard
      BY Zenon, <2>0, <2>4, <3>4 DEF RestartWSShard
    <3> QED
      BY Zenon, <3>1, <3>2, <3>3, <3>4
  <2>3. shardKnown' \in BOOLEAN /\ foreign' \in BOOLEAN /\ index' \in [lc : BOOLEAN, refused : BOOLEAN]
    BY Zenon, <2>0, <2>4 DEF SeeLC, SyncWS, ResyncWS, IndexLC, IndexWS, LoseShard, FindShard,
       Delete, RestartWSShard
  <2> QED
    BY Zenon, <1>3, <2>2, <2>3 DEF TypeOK
<1>5. NoWSInv' /\ LocationInv' /\ AliveInv' /\ InitializedInv'
  <2>1. CASE UNCHANGED <<ws, wsSeen>>
    BY Zenon, <1>1, <2>1, WorkspaceKept
  <2>2. CASE ws' = ws /\ wsSeen' = ws
    BY Zenon, <1>1, <2>2 DEF IInv, NoWSInv, LocationInv, Located, AliveInv, InitializedInv, Alive
  <2>3. CASE ws' = NoWS
    BY Zenon, <2>3, GoneFacts
  <2>4. CASE ws.exists /\ ws' = [ws EXCEPT !.deleting = TRUE] /\ wsSeen' = wsSeen
    BY Zenon, <1>1, <2>4 DEF IInv, TypeOK, WS, NoWSInv, LocationInv, Located, AliveInv,
       InitializedInv, Alive
  <2> QED
    BY Zenon, <2>1, <2>2, <2>3, <2>4 DEF SeeLC, SyncWS, ResyncWS, IndexLC, IndexWS, LoseShard,
       FindShard, Delete, RestartWSShard
<1> QED
  BY Zenon, <1>1, <1>3, <1>4, <1>5 DEF IInv

\* Every step keeps the invariant, and the finalizer.
LEMMA NextPreserves ==
    ASSUME IInv, [Next]_vars
    PROVE  IInv' /\ HoldsFinalizer
<1>1. CASE LCStep \/ Deactivate
  <2>1. LCPreserved
    BY Zenon, <1>1, LCStepPreserves
  <2>2. LCTypeOK' /\ ListerInv' /\ UNCHANGED wsVars
    BY Zenon, <1>1, <2>1, LCStepTypes
  <2>3. TypeOK'
    BY Zenon, <2>2 DEF IInv, TypeOK, wsVars
  <2> QED
    BY Zenon, <2>1, <2>2, <2>3, WorkspaceKept DEF IInv, LCPreserved, wsVars
<1>2. CASE \E c \in Choices : ReconcileWS(c)
  BY Zenon, <1>2, ReconcileWSPreserves
<1>3. CASE UNCHANGED vars
  BY <1>3 DEF vars, HoldsFinalizer, IInv, TypeOK, LCTypeOK, ListerInv, NoWSInv, LocationInv,
     Located, AliveInv, InitializedInv, Alive
<1> QED
  BY Zenon, <1>1, <1>2, <1>3, OtherSteps DEF Next

\* The invariant holds in every reachable state.
THEOREM Invariance == Spec => []IInv
<1>1. IInv /\ [Next]_vars => IInv'
  BY Zenon, NextPreserves
<1> QED
  BY <1>1, InitEstablishes, PTL DEF Spec

\* The state of the workspace and of the LC is well typed.
THEOREM TypeCorrect == Spec => []TypeOK
<1>1. IInv => TypeOK
  BY Zenon DEF IInv
<1> QED
  BY <1>1, Invariance, PTL

\* A Ready workspace has an LC whose initializers have run (phaseReconciler of
\* the workspace controller), for every type and every sequence of deletions,
\* toggles, lost shards, taken names, restarts and failed calls.
THEOREM ReadyTheorem == Spec => []ReadyMeansInitialized
<1>1. IInv => ReadyMeansInitialized
  BY Zenon DEF IInv, NoWSInv, NoWS, NewWS, LocationInv, Located, AliveInv, InitializedInv, Alive,
     ReadyMeansInitialized
<1> QED
  BY <1>1, Invariance, PTL

\* The finalizer of the terminators leaves an LC only when the last terminator
\* is done (terminatorReconciler): a controller that has read an older LC cannot
\* take it off.
THEOREM FinalizerTheorem == Spec => FinalizerHolds
<1>1. IInv /\ [Next]_vars => [HoldsFinalizer]_vars
  BY Zenon, NextPreserves
<1>2. [HoldsFinalizer]_vars
      => [lc'.exists /\ "terminators" \in lc.finalizers /\ "terminators" \notin lc'.finalizers
            => ~lc'.terms]_vars
  BY Zenon DEF HoldsFinalizer
<1> QED
  BY <1>1, <1>2, Invariance, PTL DEF Spec, FinalizerHolds

----------------------------------------------------------------------------
(* A commit changes one half of the workspace.                             *)

\* A workspace is Scheduling only while nothing has gone wrong, and its location
\* is stored only after the LC was named.
Settled(w) ==
    /\ w.phase = "Scheduling" => ~NotReady(w)
    /\ w.spec => w.cluster # "none"
SettledInv == Settled(ws) /\ Settled(wsSeen)

SameMeta(w, v) ==
    <<v.label, v.shard, v.cluster, v.finalizer, v.spec>>
      = <<w.label, w.shard, w.cluster, w.finalizer, w.spec>>
SameStatus(w, v) ==
    <<v.phase, v.scheduled, v.initialized>> = <<w.phase, w.scheduled, w.initialized>>

\* What each kind of result leaves.
LEMMA ResultFacts ==
    ASSUME NEW w
    PROVE  /\ Continue(w).ws = w /\ ~Continue(w).stop
           /\ Requeue(w).ws = w /\ Requeue(w).stop
           /\ Later(w).ws = w /\ ~Later(w).stop
  BY Zenon DEF Continue, Requeue, Later, Pass

\* A pass that stops keeps what it has, another one takes what comes after.
LEMMA ThenWorkspace ==
    ASSUME NEW p, NEW q, q \in Passes
    PROVE  /\ p.stop => Then(p, q) = p
           /\ ~p.stop => Then(p, q).ws = q.ws /\ Then(p, q).stop = q.stop
<1>1. LET r == [q EXCEPT !.lc = p.lc, !.foreign = p.foreign]
      IN  r.ws = q.ws /\ r.stop = q.stop
  BY Zenon DEF Passes
<1> QED
  BY <1>1, Zenon DEF Then

\* The label is changed alone, and the pass stops.
LEMMA MetaDataHalf ==
    ASSUME NEW w \in WS, Settled(w)
    PROVE  LET p == MetaData(w) IN
           /\ p.stop => SameStatus(w, p.ws) /\ Settled(p.ws)
           /\ ~p.stop => p.ws = w
<1> DEFINE v == [w EXCEPT !.label = w.phase]
<1>1. SameStatus(w, v) /\ Settled(v)
  BY Zenon DEF WS, SameStatus, Settled, NotReady
<1> HIDE DEF v
<1> QED
  BY <1>1, Zenon, ResultFacts DEF MetaData, v

\* Taking the finalizer off ends the pass, unless no LC was named yet.
LEMMA DeletionHalf ==
    ASSUME NEW w \in WS, NEW guess, Settled(w)
    PROVE  LET p == Deletion(w, guess) IN
           /\ p.stop => SameStatus(w, p.ws) /\ Settled(p.ws)
           /\ ~p.stop =>
                \/ p.ws = w
                \/ /\ w.deleting /\ w.phase = "Scheduling" /\ w.cluster = "none"
                   /\ p.ws = [w EXCEPT !.finalizer = FALSE]
<1> DEFINE off == [w EXCEPT !.finalizer = FALSE]
<1>1. SameStatus(w, off) /\ Settled(off) /\ SameStatus(w, w)
  BY Zenon DEF WS, SameStatus, Settled, NotReady
<1> HIDE DEF off
<1>2. DeleteLC(w).ws = w
  BY Zenon, ResultFacts DEF DeleteLC, Pass
<1>3. CASE ~w.deleting
  BY <1>3, Zenon, ResultFacts DEF Deletion
<1>4. CASE w.deleting /\ Target(w) = "none" /\ w.phase = "Scheduling"
  <2>1. w.cluster = "none"
    BY Zenon, <1>4 DEF Target
  <2> QED
    BY <1>4, <2>1, Zenon, ResultFacts DEF Deletion, off
<1>5. CASE w.deleting /\ ~(Target(w) = "none" /\ w.phase = "Scheduling")
  <2>1. Deletion(w, guess) \in {Requeue(w), Requeue(off), Continue(w), DeleteLC(w)}
    BY <1>5, Zenon DEF Deletion, off
  <2>2. /\ Deletion(w, guess).ws \in {w, off}
        /\ Deletion(w, guess).ws = w \/ Deletion(w, guess).stop
    BY <1>2, <2>1, ResultFacts
  <2> QED
    BY <1>1, <2>2, Zenon
<1> QED
  BY <1>3, <1>4, <1>5, Zenon

\* Scheduling stops after it has changed metadata or spec, and only then.
LEMMA SchedulingHalf ==
    ASSUME NEW w \in WS, NEW name \in {"own", "foreign"}, NEW fault, Settled(w)
    PROVE  LET p == Scheduling(w, name, fault) IN
           /\ p.stop => SameStatus(w, p.ws) /\ Settled(p.ws)
           /\ ~p.stop =>
                /\ p.ws \in {w, [w EXCEPT !.scheduled = "True"], [w EXCEPT !.scheduled = "False"]}
                /\ w.deleting => p.ws = w
<1> DEFINE no == [w EXCEPT !.scheduled = "False"]
           yes == [w EXCEPT !.scheduled = "True"]
           named == [w EXCEPT !.shard = TRUE, !.finalizer = TRUE,
                              !.cluster = IF @ = "none" THEN name ELSE @]
           unnamed == [w EXCEPT !.cluster = "none"]
           placed == [w EXCEPT !.spec = TRUE]
<1>1. SameStatus(w, w) /\ SameStatus(w, named) /\ SameStatus(w, unnamed) /\ SameStatus(w, placed)
  BY Zenon DEF WS, SameStatus
<1>2. Settled(named)
  <2>1. named.cluster # "none"
    BY Zenon DEF WS
  <2>2. named.phase = w.phase /\ named.scheduled = w.scheduled /\ named.initialized = w.initialized
    BY Zenon DEF WS
  <2> HIDE DEF named
  <2> QED
    BY <2>1, <2>2, Zenon DEF Settled, NotReady
<1>3. ~w.spec => Settled(unnamed)
  BY Zenon DEF WS, Settled, NotReady
<1>4. w.cluster # "none" => Settled(placed)
  BY Zenon DEF WS, Settled, NotReady
<1> HIDE DEF no, yes, named, unnamed, placed
<1>5. CASE w.deleting
  BY <1>5, Zenon, ResultFacts DEF Scheduling
<1>6. CASE ~w.deleting /\ ~w.spec /\ w.cluster # "none" /\ Scheduling(w, name, fault) = Location(w, fault)
  <2>1. \/ Location(w, fault) = Requeue(unnamed)
        \/ Location(w, fault) = Pass(w, Created, foreign, TRUE, TRUE)
        \/ Location(w, fault) = Pass(placed, Started, foreign, TRUE, TRUE)
    BY Zenon DEF Location, unnamed, placed, Created, Started
  <2>2. Location(w, fault).stop /\ Location(w, fault).ws \in {w, unnamed, placed}
    BY <2>1, ResultFacts DEF Pass
  <2>3. \A v \in {w, unnamed, placed} : SameStatus(w, v) /\ Settled(v)
    BY <1>1, <1>3, <1>4, <1>6, Zenon
  <2> QED
    BY Zenon, <1>6, <2>2, <2>3
<1>7. CASE ~w.deleting /\ Scheduling(w, name, fault) \in {Continue(no), Continue(yes), Requeue(named)}
  <2>1. \/ Scheduling(w, name, fault).stop /\ Scheduling(w, name, fault).ws = named
        \/ ~Scheduling(w, name, fault).stop /\ Scheduling(w, name, fault).ws \in {no, yes}
    BY <1>7, ResultFacts
  <2> QED
    BY <1>1, <1>2, <1>7, <2>1, Zenon DEF no, yes
<1>8. \/ w.deleting
      \/ Scheduling(w, name, fault) \in {Continue(no), Continue(yes), Requeue(named)}
      \/ ~w.spec /\ w.cluster # "none" /\ Scheduling(w, name, fault) = Location(w, fault)
  BY Zenon DEF Scheduling, Unschedulable, no, yes, named
<1> QED
  BY <1>5, <1>6, <1>7, <1>8, Zenon

\* The phase reconciler writes the status only, leaves Scheduling as soon as
\* something is wrong, and has nothing to do as long as nothing is.
Healthy(w) == w.phase = "Scheduling" => ~NotReady(w)
Half(w, p) == SameMeta(w, p.ws) /\ p.ws.scheduled = w.scheduled /\ Healthy(p.ws)

\* The terminal condition.
LEMMA TerminalHalf ==
    ASSUME NEW w \in WS
    PROVE  /\ Half(w, TerminalCondition(w))
           /\ w.phase = "Scheduling" /\ ~NotReady(w) => TerminalCondition(w).ws = w
<1> DEFINE bad == [w EXCEPT !.phase = "Unavailable"]
           good == [w EXCEPT !.phase = RecoveredPhase(w)]
<1>1. SameMeta(w, bad) /\ bad.scheduled = w.scheduled /\ Healthy(bad)
  BY Zenon DEF WS, SameMeta, Healthy
<1>2. SameMeta(w, good) /\ good.scheduled = w.scheduled /\ (~NotReady(w) => Healthy(good))
  BY Zenon DEF WS, SameMeta, Healthy, NotReady
<1>3. SameMeta(w, w)
  BY Zenon DEF SameMeta
<1> HIDE DEF bad, good
<1>4. CASE w.phase \in {"Terminating", "Deleting"}
  BY <1>3, <1>4, Zenon, ResultFacts DEF TerminalCondition, Half, Healthy
<1>5. CASE w.phase \notin {"Terminating", "Deleting"} /\ NotReady(w)
  BY <1>1, <1>3, <1>5, Zenon, ResultFacts DEF TerminalCondition, Half, Healthy, bad
<1>6. CASE w.phase \notin {"Terminating", "Deleting"} /\ ~NotReady(w)
  BY <1>2, <1>3, <1>6, Zenon, ResultFacts DEF TerminalCondition, Half, Healthy, good
<1> QED
  BY <1>4, <1>5, <1>6, Zenon

\* Initializing.
LEMMA InitializingHalf ==
    ASSUME NEW w \in WS, NEW young, w.phase = "Initializing"
    PROVE  Half(w, Initializing(w, young))
<1> DEFINE gone == [w EXCEPT !.initialized = "Gone"]
           waits == [w EXCEPT !.initialized = "False"]
           ready == [w EXCEPT !.phase = "Ready", !.initialized = "True"]
<1>1. \A v \in {w, gone, waits} : SameMeta(w, v) /\ v.scheduled = w.scheduled /\ Healthy(v)
  BY Zenon DEF WS, SameMeta, Healthy
<1>2. ready \in WS /\ SameMeta(w, ready) /\ ready.scheduled = w.scheduled
  BY Zenon DEF WS, WSPhases, SameMeta
<1> HIDE DEF gone, waits, ready
<1>3. Half(w, TerminalCondition(ready))
  BY <1>2, Zenon, TerminalHalf DEF Half, SameMeta
<1>4. \A v \in {w, gone, waits} :
        Half(w, Requeue(v)) /\ Half(w, Later(v)) /\ Half(w, Continue(v))
  <2> TAKE v \in {w, gone, waits}
  <2>1. SameMeta(w, v) /\ v.scheduled = w.scheduled /\ Healthy(v)
    BY Zenon, <1>1
  <2> QED
    BY <2>1, Zenon, ResultFacts DEF Half
<1> QED
  BY <1>3, <1>4, Zenon DEF Initializing, gone, waits, ready

\* Unavailable.
LEMMA UnavailableHalf ==
    ASSUME NEW w \in WS, w.phase = "Unavailable", TypeOK
    PROVE  Half(w, Unavailable(w))
<1> DEFINE found == [w EXCEPT !.initialized = "True"]
           p == TerminalCondition(found)
<1>1. found \in WS /\ SameMeta(w, found) /\ found.scheduled = w.scheduled
  BY Zenon DEF WS, SameMeta
<1> HIDE DEF found
<1>2. Half(w, p) /\ p \in Passes
  BY <1>1, Zenon, TerminalHalf, TerminalFacts DEF Half, SameMeta
<1> HIDE DEF p
<1>3. [p EXCEPT !.again = TRUE].ws = p.ws
  BY <1>2, Zenon DEF Passes
<1>4. Half(w, [p EXCEPT !.again = TRUE])
  BY <1>2, <1>3, Zenon DEF Half
<1>5. Half(w, Requeue(w))
  BY Zenon, ResultFacts DEF Half, SameMeta, Healthy
<1> QED
  BY <1>4, <1>5, Zenon, TerminalHalf DEF Unavailable, p, found

\* The whole phase reconciler.
LEMMA PhaseHalf ==
    ASSUME NEW w \in WS, NEW young, TypeOK
    PROVE  /\ Half(w, Phase(w, young))
           /\ w.phase = "Scheduling" /\ ~NotReady(w) /\ ~w.spec => Phase(w, young).ws = w
<1>1. ASSUME w.phase # "Scheduling" PROVE Half(w, Terminating(w))
  <2> DEFINE v == [w EXCEPT !.phase = IF lc.terms THEN "Terminating" ELSE "Deleting"]
  <2>1. SameMeta(w, v) /\ v.scheduled = w.scheduled /\ Healthy(v)
    BY Zenon DEF WS, SameMeta, Healthy
  <2>2. SameMeta(w, w) /\ Healthy(w)
    BY <1>1, Zenon DEF SameMeta, Healthy
  <2> HIDE DEF v
  <2> QED
    BY <2>1, <2>2, Zenon, ResultFacts DEF Terminating, Half, v
<1>2. Half(w, TerminalCondition([w EXCEPT !.phase = "Initializing"]))
  <2> DEFINE v == [w EXCEPT !.phase = "Initializing"]
  <2>1. v \in WS /\ SameMeta(w, v) /\ v.scheduled = w.scheduled
    BY Zenon DEF WS, WSPhases, SameMeta
  <2> HIDE DEF v
  <2>2. Half(w, TerminalCondition(v))
    BY <2>1, Zenon, TerminalHalf DEF Half, SameMeta
  <2> QED
    BY Zenon, <2>2 DEF v
<1>3. CASE w.phase = "Initializing"
  BY <1>3, Zenon, InitializingHalf DEF Phase
<1>4. CASE w.phase = "Unavailable"
  BY <1>4, Zenon, UnavailableHalf DEF Phase
<1>5. CASE w.phase \notin {"Initializing", "Unavailable", "Scheduling"}
  BY <1>1, <1>5, Zenon, TerminalHalf DEF Phase
<1>6. CASE w.phase = "Scheduling"
  BY <1>2, <1>6, Zenon, TerminalHalf DEF Phase
<1> QED
  BY <1>3, <1>4, <1>5, <1>6, Zenon

\* A whole pass changes one half, and leaves a settled workspace.
LEMMA ChainHalf ==
    ASSUME TypeOK, NEW w \in WS, NEW c \in Choices, NEW p \in Chain(w, c), Settled(w)
    PROVE  (SameMeta(w, p.ws) \/ SameStatus(w, p.ws)) /\ Settled(p.ws)
<1> DEFINE m == MetaData(w)
           e == Deletion(m.ws, c.guess)
           d == Then(m, e)
           f == Scheduling(d.ws, c.name, c.fault)
           s == Then(d, f)
           q == Phase(s.ws, c.young)
           off == [w EXCEPT !.finalizer = FALSE]
           yes == [w EXCEPT !.scheduled = "True"]
           no == [w EXCEPT !.scheduled = "False"]
<1>1. p = Then(s, q)
  BY Zenon DEF Chain
<1>2. c.name \in {"own", "foreign"}
  BY DEF Choices, Usual
<1>3. m \in Passes /\ m.ws \in WS
  BY Zenon, MetaDataFacts DEF Prepares, Passes
<1>4. /\ m.stop => SameStatus(w, m.ws) /\ Settled(m.ws)
      /\ ~m.stop => m.ws = w
  BY Zenon, MetaDataHalf
<1> HIDE DEF m
<1>5. e \in Passes
  BY <1>3, Zenon, DeletionFacts DEF Prepares
<1>6. d \in Passes /\ d.ws \in WS
  BY <1>3, <1>5, Zenon DEF Then, Passes
<1>7. /\ d.stop => SameStatus(w, d.ws) /\ Settled(d.ws)
      /\ ~d.stop => d.ws = w \/ (w.deleting /\ w.phase = "Scheduling" /\ w.cluster = "none" /\ d.ws = off)
  <2>1. CASE m.stop
    BY <1>4, <1>5, <2>1, Zenon, ThenWorkspace
  <2>2. CASE ~m.stop
    <3>1. m.ws = w /\ d.ws = e.ws /\ d.stop = e.stop
      BY <1>4, <1>5, <2>2, Zenon, ThenWorkspace
    <3> QED
      BY <3>1, Zenon, DeletionHalf
  <2> QED
    BY Zenon, <2>1, <2>2
<1> HIDE DEF d, e
<1>8. f \in Passes
  BY <1>2, <1>6, Zenon, SchedulingFacts DEF Prepares
<1>9. s \in Passes /\ s.ws \in WS
  BY <1>6, <1>8, Zenon DEF Then, Passes
<1>10. SameStatus(w, off) /\ Settled(off) /\ off.deleting = w.deleting /\ off.spec = w.spec
  BY Zenon DEF WS, SameStatus, Settled, NotReady
<1>11. /\ s.stop => SameStatus(w, s.ws) /\ Settled(s.ws)
       /\ ~s.stop =>
            \/ s.ws \in {w, yes, no}
            \/ w.phase = "Scheduling" /\ w.cluster = "none" /\ s.ws = off
  <2> HIDE DEF off
  <2>1. CASE d.stop
    BY <1>7, <1>8, <2>1, Zenon, ThenWorkspace
  <2>2. CASE ~d.stop
    <3>1. s.ws = f.ws /\ s.stop = f.stop
      BY <1>8, <2>2, Zenon, ThenWorkspace
    <3>2. CASE d.ws = w
      <4>1. /\ f.stop => SameStatus(w, f.ws) /\ Settled(f.ws)
            /\ ~f.stop => f.ws \in {w, yes, no}
        BY <1>2, <3>2, Zenon, SchedulingHalf
      <4> HIDE DEF s, f
      <4> QED
        BY <3>1, <4>1, Zenon
    <3>3. CASE w.deleting /\ w.phase = "Scheduling" /\ w.cluster = "none" /\ d.ws = off
      <4>1. f = Continue(off)
        BY <1>10, <3>3, Zenon DEF Scheduling
      <4> HIDE DEF s, f
      <4> QED
        BY <3>1, <3>3, <4>1, Zenon, ResultFacts
    <3> QED
      BY Zenon, <1>7, <2>2, <3>2, <3>3
  <2> QED
    BY Zenon, <2>1, <2>2
<1> HIDE DEF s, f
<1>12. q \in Passes /\ Half(s.ws, q)
  BY <1>9, Zenon, PhaseFacts, PhaseHalf DEF Phased
<1>13. /\ s.stop => p = s
       /\ ~s.stop => p.ws = q.ws
  BY <1>1, <1>12, Zenon, ThenWorkspace
<1>14. CASE s.stop
  BY Zenon, <1>11, <1>13, <1>14
<1>15. CASE ~s.stop /\ s.ws \in {w, yes, no}
  <2>1. SameMeta(w, s.ws)
    BY <1>15, Zenon DEF WS, SameMeta
  <2>2. SameMeta(w, q.ws) /\ Healthy(q.ws)
    BY <1>12, <2>1, Zenon DEF Half, SameMeta
  <2> HIDE DEF q
  <2> QED
    BY <1>13, <1>15, <2>2, Zenon DEF Settled, Healthy, SameMeta
<1>16. CASE ~s.stop /\ w.phase = "Scheduling" /\ w.cluster = "none" /\ s.ws = off
  <2>1. off.phase = "Scheduling" /\ ~NotReady(off) /\ ~off.spec
    BY <1>10, <1>16, Zenon DEF Settled, SameStatus
  <2> HIDE DEF off
  <2>2. q.ws = off
    BY <1>9, <1>16, <2>1, Zenon, PhaseHalf
  <2> QED
    BY <1>10, <1>13, <1>16, <2>2, Zenon
<1> QED
  BY Zenon, <1>11, <1>14, <1>15, <1>16

\* Every step leaves settled workspaces.
LEMMA SettledPreserved ==
    ASSUME IInv, SettledInv, [Next]_vars
    PROVE  SettledInv'
<1>1. Settled(NoWS)
  BY Zenon DEF Settled, NoWS, NewWS, NotReady
<1>2. Settled([ws EXCEPT !.deleting = TRUE])
  BY Zenon DEF SettledInv, Settled, NotReady, IInv, TypeOK, WS
<1>3. CASE UNCHANGED <<ws, wsSeen>>
  BY Zenon, <1>3 DEF SettledInv
<1>4. CASE ws' = ws /\ wsSeen' = ws
  BY Zenon, <1>4 DEF SettledInv
<1>5. CASE Delete
  <2>1. ws' \in {NoWS, [ws EXCEPT !.deleting = TRUE]} /\ wsSeen' = wsSeen
    BY <1>5, Zenon DEF Delete
  <2> QED
    BY Zenon, <1>1, <1>2, <2>1 DEF SettledInv
<1>6. ASSUME NEW c \in Choices, ReconcileWS(c) PROVE SettledInv'
  <2>1. wsSeen' = wsSeen
    BY <1>6, Zenon DEF ReconcileWS
  <2>2. CASE ~wsSeen.exists
    BY Zenon, <1>6, <2>1, <2>2 DEF ReconcileWS, SettledInv
  <2>3. CASE wsSeen.exists
    <3>1. PICK p \in Chain(wsSeen, c) :
            ws' = IF p.ws = wsSeen THEN ws ELSE CommitWS(wsSeen, p.ws, c.fault)
      BY <1>6, <2>3, Zenon DEF ReconcileWS
    <3>2. ws' \in {ws, NoWS, p.ws}
      BY <3>1, Zenon DEF CommitWS
    <3>3. Settled(p.ws)
      BY Zenon, ChainHalf DEF IInv, TypeOK, SettledInv
    <3> QED
      BY <1>1, <2>1, <3>2, <3>3, Zenon DEF SettledInv
  <2> QED
    BY Zenon, <2>2, <2>3
<1>7. CASE LCStep \/ Deactivate
  BY Zenon, <1>3, <1>7 DEF LCStep, Deactivate, wsVars
<1>8. CASE SeeLC \/ ResyncWS \/ IndexLC \/ IndexWS \/ LoseShard \/ FindShard
  BY Zenon, <1>3, <1>8 DEF SeeLC, ResyncWS, IndexLC, IndexWS, LoseShard, FindShard
<1>9. CASE SyncWS \/ RestartWSShard
  BY Zenon, <1>4, <1>9 DEF SyncWS, RestartWSShard
<1>10. CASE UNCHANGED vars
  BY Zenon, <1>3, <1>10 DEF vars
<1> QED
  BY Zenon, <1>5, <1>6, <1>7, <1>8, <1>9, <1>10 DEF Next

\* No pass asks for a change of metadata or spec together with the status, which
\* the committer would answer with a panic (committer.NewCommitter): the
\* reconcilers requeue after each change of the first kind, and the one that
\* goes on, deletion before an LC was named, meets no change of the status.
THEOREM OneHalfTheorem == Spec => []CommitsOneHalf
<1>1. Init => SettledInv
  BY Zenon DEF Init, SettledInv, Settled, NotReady, NoWS, NewWS
<1>2. IInv /\ SettledInv /\ [Next]_vars => SettledInv'
  BY Zenon, SettledPreserved
<1>3. IInv /\ SettledInv => CommitsOneHalf
  <2> SUFFICES ASSUME IInv, SettledInv, NEW c \in Choices, NEW p \in Chain(wsSeen, c)
               PROVE  SameMeta(wsSeen, p.ws) \/ SameStatus(wsSeen, p.ws)
    BY Zenon DEF CommitsOneHalf, SameMeta, SameStatus
  <2> QED
    BY Zenon, ChainHalf DEF IInv, TypeOK, SettledInv
<1> QED
  BY <1>1, <1>2, <1>3, Invariance, PTL DEF Spec

----------------------------------------------------------------------------
(* As long as no shard is lost, no LC outlives its workspace.              *)

NoShardLost == \A b \in Budgets : b["shard"] = 0

\* A workspace leaves phase Scheduling only with its location.
Fine(w) ==
    /\ w.scheduled # "False"
    /\ w.phase # "Scheduling" \/ w.initialized # "none" => w.spec

\* The controller has seen nothing of a workspace that is no longer so: a name
\* it has found is still there, and so is a finalizer, until it sees the
\* workspace deleted.  An LC exists only under both.
OwnerInv ==
    /\ shardKnown /\ budget["shard"] = 0
    /\ Fine(ws) /\ Fine(wsSeen)
    /\ wsSeen.exists /\ ws.exists /\ wsSeen.cluster = "own" => ws.cluster = "own"
    /\ wsSeen.exists /\ ~wsSeen.deleting /\ wsSeen.finalizer => ws.exists /\ ws.finalizer
    /\ lc.exists => ws.exists /\ ws.finalizer /\ ws.cluster = "own"

\* What a pass may do: make an LC only for a name and under a finalizer that it
\* has read, and take the finalizer off only when there is no LC.
Safe(w, p) ==
    /\ Fine(p.ws)
    /\ w.cluster = "own" => p.ws.cluster = "own"
    /\ w.finalizer /\ (w.deleting => lc.exists /\ w.cluster = "own") => p.ws.finalizer
    /\ p.lc.exists => lc.exists \/ (~w.deleting /\ w.finalizer /\ w.cluster = "own")

\* Two reconcilers one after the other.
LEMMA SafeThen ==
    ASSUME NEW w \in WS, NEW p \in Passes, NEW q \in Passes, Safe(w, p), Safe(p.ws, q),
           p.ws.deleting = w.deleting,
           ~p.stop => p.ws = w \/ w.deleting \/ q.lc = lc
    PROVE  Safe(w, Then(p, q))
<1>1. CASE p.stop
  BY <1>1, Zenon DEF Then
<1>2. CASE ~p.stop
  <2> DEFINE r == [q EXCEPT !.lc = p.lc, !.foreign = p.foreign]
  <2>1. r.ws = q.ws /\ r.lc = p.lc
    BY Zenon DEF Passes
  <2> HIDE DEF r
  <2>2. Safe(w, r)
    BY <2>1, Zenon DEF Safe
  <2>3. q.lc # lc => Safe(w, q)
    BY <1>2, Zenon DEF Safe
  <2>4. q.lc = lc => Safe(w, q)
    BY Zenon DEF Safe
  <2> QED
    BY <1>2, <2>2, <2>3, <2>4, Zenon DEF Then, r
<1> QED
  BY Zenon, <1>1, <1>2

\* A result that changes no LC.
LEMMA SafeResult ==
    ASSUME NEW w \in WS, NEW v \in WS, Fine(v), w.cluster = "own" => v.cluster = "own",
           w.finalizer /\ (w.deleting => lc.exists /\ w.cluster = "own") => v.finalizer
    PROVE  Safe(w, Continue(v)) /\ Safe(w, Requeue(v))
  BY Zenon DEF Safe, Continue, Requeue, Pass

\* The labels.
LEMMA MetaDataSafe ==
    ASSUME NEW w \in WS, Fine(w)
    PROVE  Safe(w, MetaData(w))
<1> DEFINE v == [w EXCEPT !.label = w.phase]
<1>1. v \in WS /\ Fine(v) /\ v.cluster = w.cluster /\ v.finalizer = w.finalizer
  BY Zenon DEF WS, Fine
<1> HIDE DEF v
<1> QED
  BY <1>1, Zenon, SafeResult DEF MetaData, v

\* Deletion finds an LC that is there.
LEMMA DeletionSafe ==
    ASSUME NEW w \in WS, NEW guess, Fine(w), shardKnown, TypeOK
    PROVE  Safe(w, Deletion(w, guess))
<1> DEFINE off == [w EXCEPT !.finalizer = FALSE]
           dying == [lc EXCEPT !.deleting = TRUE]
<1>1. off \in WS /\ Fine(off) /\ off.cluster = w.cluster
  BY Zenon DEF WS, Fine
<1>2. dying.exists = lc.exists
  BY Zenon DEF TypeOK, LCTypeOK, LC
<1> HIDE DEF off, dying
<1>3. Safe(w, Continue(w)) /\ Safe(w, Requeue(w))
  BY Zenon, SafeResult
<1>4. Safe(w, DeleteLC(w))
  <2>1. Safe(w, Pass(w, lc, FALSE, FALSE, FALSE)) /\ Safe(w, Pass(w, dying, foreign, FALSE, FALSE))
    BY <1>2, Zenon DEF Safe, Pass
  <2> QED
    BY <1>3, <2>1, Zenon DEF DeleteLC, dying
<1>5. ASSUME w.deleting, ~(lc.exists /\ w.cluster = "own")
      PROVE  Safe(w, Continue(off)) /\ Safe(w, Requeue(off))
  BY <1>1, <1>5, Zenon, SafeResult
<1>6. CASE lc.exists /\ w.cluster = "own"
  <2>1. Target(w) = "own"
    BY <1>6, Zenon DEF Target, Fine
  <2>2. Get(w, guess) # "notfound"
    BY <1>6, <2>1, Zenon DEF Get, FrontProxy, Direct
  <2> QED
    BY <1>3, <1>4, <2>1, <2>2, Zenon DEF Deletion
<1>7. CASE ~(lc.exists /\ w.cluster = "own")
  BY <1>3, <1>4, <1>5, <1>7, Zenon DEF Deletion, off
<1> QED
  BY Zenon, <1>6, <1>7

\* Scheduling makes the LC only after its name and the finalizer were committed.
LEMMA SchedulingSafe ==
    ASSUME NEW w \in WS, NEW name \in {"own", "foreign"}, NEW fault, Fine(w), shardKnown
    PROVE  Safe(w, Scheduling(w, name, fault))
<1> DEFINE yes == [w EXCEPT !.scheduled = "True"]
           named == [w EXCEPT !.shard = TRUE, !.finalizer = TRUE,
                              !.cluster = IF @ = "none" THEN name ELSE @]
           unnamed == [w EXCEPT !.cluster = "none"]
           placed == [w EXCEPT !.spec = TRUE]
<1>1. yes \in WS /\ Fine(yes) /\ yes.cluster = w.cluster /\ yes.finalizer = w.finalizer
  BY Zenon DEF WS, Fine
<1>2. named \in WS /\ Fine(named) /\ (w.cluster = "own" => named.cluster = "own") /\ named.finalizer
  BY Zenon DEF WS, Fine
<1>3. unnamed \in WS /\ Fine(unnamed) /\ unnamed.finalizer = w.finalizer
  BY Zenon DEF WS, Fine
<1>4. Fine(placed) /\ placed.cluster = w.cluster /\ placed.finalizer = w.finalizer
  BY Zenon DEF WS, Fine
<1> HIDE DEF yes, named, unnamed, placed
<1>5. Safe(w, Continue(w)) /\ Safe(w, Continue(yes)) /\ Safe(w, Requeue(named))
  BY <1>1, <1>2, Zenon, SafeResult
<1>6. ASSUME ~w.deleting, w.finalizer, w.cluster # "none"
      PROVE  Safe(w, Location(w, fault))
  <2>1. CASE w.cluster = "foreign"
    BY <1>3, <2>1, Zenon, SafeResult DEF Location, unnamed
  <2>2. CASE w.cluster = "own"
    <3>1. \/ Location(w, fault) = Pass(w, Created, foreign, TRUE, TRUE)
          \/ Location(w, fault) = Pass(placed, Started, foreign, TRUE, TRUE)
      BY Zenon, <2>2 DEF Location, placed, Created, Started
    <3>2. \A l : Safe(w, Pass(w, l, foreign, TRUE, TRUE)) /\ Safe(w, Pass(placed, l, foreign, TRUE, TRUE))
      BY <1>4, <1>6, <2>2, Zenon DEF Safe, Pass
    <3> QED
      BY Zenon, <3>1, <3>2
  <2> QED
    BY <1>6, <2>1, <2>2, Zenon DEF WS
<1> QED
  BY <1>5, <1>6, Zenon DEF Scheduling, yes, named

\* The phase reconciler leaves Scheduling only for a location.
LEMMA PhaseSafe ==
    ASSUME TypeOK, NEW w \in WS, NEW young, Fine(w)
    PROVE  Safe(w, Phase(w, young))
<1> DEFINE q == Phase(w, young)
<1>1. SameMeta(w, q.ws) /\ q.ws.scheduled = w.scheduled /\ q.lc = lc
  BY Zenon, PhaseHalf, PhaseFacts DEF Half, Phased
<1>2. ASSUME ~w.spec PROVE q.ws = w
  BY <1>2, Zenon, PhaseHalf DEF Fine, NotReady
<1> HIDE DEF q
<1>3. Safe(w, q)
  BY <1>1, <1>2, Zenon DEF SameMeta, Safe, Fine
<1> QED
  BY Zenon, <1>3 DEF q

\* A whole pass.
LEMMA ChainSafe ==
    ASSUME TypeOK, NEW w \in WS, NEW c \in Choices, NEW p \in Chain(w, c),
           Fine(w), Settled(w), shardKnown
    PROVE  Safe(w, p)
<1> DEFINE m == MetaData(w)
           e == Deletion(m.ws, c.guess)
           d == Then(m, e)
           f == Scheduling(d.ws, c.name, c.fault)
           s == Then(d, f)
           q == Phase(s.ws, c.young)
<1>1. p = Then(s, q)
  BY Zenon DEF Chain
<1>2. c.name \in {"own", "foreign"}
  BY DEF Choices, Usual
<1>3. /\ m \in Passes /\ m.ws \in WS /\ m.ws.deleting = w.deleting
      /\ Safe(w, m) /\ Fine(m.ws) /\ (~m.stop => m.ws = w)
  <2>1. m \in Passes /\ m.ws \in WS /\ m.ws.deleting = w.deleting
    BY Zenon, MetaDataFacts DEF Prepares, Passes, Keeps
  <2>2. ~m.stop => m.ws = w
    BY Zenon, MetaDataHalf
  <2>3. Safe(w, m)
    BY Zenon, MetaDataSafe
  <2> QED
    BY <2>1, <2>2, <2>3, Zenon DEF Safe
<1>4. Settled(m.ws)
  <2>1. m.stop => Settled(m.ws)
    BY Zenon, MetaDataHalf
  <2> QED
    BY <1>3, <2>1, Zenon
<1> HIDE DEF m
<1>5. e \in Passes /\ Safe(m.ws, e) /\ e.ws.deleting = m.ws.deleting
  <2>1. Prepares(m.ws, e)
    BY <1>3, Zenon, DeletionFacts
  <2>2. Safe(m.ws, e)
    BY <1>3, Zenon, DeletionSafe
  <2> QED
    BY <2>1, <2>2, Zenon DEF Prepares, Keeps
<1>6. ~e.stop => e.ws = m.ws \/ m.ws.deleting
  BY <1>3, <1>4, Zenon, DeletionHalf
<1> HIDE DEF e
<1>7. d \in Passes /\ d.ws \in WS /\ Safe(w, d) /\ Fine(d.ws)
  <2>1. d \in Passes /\ d.ws \in WS
    BY <1>3, <1>5, Zenon DEF Then, Passes
  <2>2. Safe(w, d)
    BY <1>3, <1>5, Zenon, SafeThen
  <2> QED
    BY Zenon, <2>1, <2>2 DEF Safe
<1>8. d.ws.deleting = w.deleting /\ (~d.stop => d.ws = w \/ w.deleting)
  <2>1. CASE m.stop
    BY <1>3, <1>5, <2>1, Zenon, ThenWorkspace
  <2>2. CASE ~m.stop
    <3>1. d.ws = e.ws /\ d.stop = e.stop
      BY <1>5, <2>2, Zenon, ThenWorkspace
    <3> HIDE DEF d
    <3> QED
      BY <1>3, <1>5, <1>6, <2>2, <3>1, Zenon
  <2> QED
    BY Zenon, <2>1, <2>2
<1> HIDE DEF d
<1>9. f \in Passes /\ Safe(d.ws, f) /\ f.ws.deleting = d.ws.deleting
  <2>1. Prepares(d.ws, f)
    BY <1>2, <1>7, Zenon, SchedulingFacts
  <2>2. Safe(d.ws, f)
    BY <1>2, <1>7, Zenon, SchedulingSafe
  <2> HIDE DEF f
  <2> QED
    BY <2>1, <2>2, Zenon DEF Prepares, Keeps
<1> HIDE DEF f
<1>10. Safe(w, s)
  BY <1>7, <1>8, <1>9, Zenon, SafeThen
<1>11. s \in Passes /\ s.ws \in WS /\ s.ws.deleting = w.deleting /\ Fine(s.ws)
  <2>1. s \in Passes /\ s.ws \in WS
    BY <1>7, <1>9, Zenon DEF Then, Passes
  <2>2. s.ws \in {d.ws, f.ws}
    BY <1>9, Zenon, ThenWorkspace
  <2> HIDE DEF s
  <2> QED
    BY <1>8, <1>9, <1>10, <2>1, <2>2, Zenon DEF Safe
<1> HIDE DEF s
<1>12. q \in Passes /\ q.lc = lc /\ Safe(s.ws, q)
  BY <1>11, Zenon, PhaseFacts, PhaseSafe DEF Phased
<1> HIDE DEF q
<1> QED
  BY <1>1, <1>10, <1>11, <1>12, Zenon, SafeThen

\* A pass of the workspace controller.
LEMMA ReconcileOwner ==
    ASSUME IInv, SettledInv, OwnerInv, NEW c \in Choices, ReconcileWS(c)
    PROVE  OwnerInv'
<1>1. /\ TypeOK /\ ws \in WS /\ wsSeen \in WS /\ budget \in [Events -> Nat]
      /\ UNCHANGED <<wsSeen, shardKnown>>
  BY Zenon DEF IInv, TypeOK, LCTypeOK, ReconcileWS
<1>2. budget'["shard"] = 0
  <2>1. "shard" \in Events /\ "shard" # "taken" /\ "shard" # "fail"
    BY Zenon DEF Events
  <2> QED
    BY <1>1, <2>1, Zenon DEF ReconcileWS, Rare, Spend, OwnerInv
<1>3. CASE ~wsSeen.exists
  <2>1. ws' = ws /\ lc' = lc
    BY <1>3, Zenon DEF ReconcileWS
  <2> QED
    BY <1>1, <1>2, <2>1, Zenon DEF OwnerInv
<1>4. CASE wsSeen.exists
  <2>1. PICK p \in Chain(wsSeen, c) :
          /\ ws' = IF p.ws = wsSeen THEN ws ELSE CommitWS(wsSeen, p.ws, c.fault)
          /\ lc' = p.lc
    BY <1>4, Zenon DEF ReconcileWS
  <2>2. Safe(wsSeen, p)
    BY <1>1, Zenon, ChainSafe DEF OwnerInv, SettledInv
  <2>3. p.ws.exists = wsSeen.exists /\ p.ws.deleting = wsSeen.deleting
    <3>1. Outcome(wsSeen, p)
      BY <1>1, Zenon, ChainFacts
    <3> QED
      BY <3>1, Zenon DEF Outcome, Advances
  <2>4. CASE ws' = ws
    BY <1>1, <1>2, <1>4, <2>1, <2>2, <2>4, Zenon DEF OwnerInv, Safe
  <2>5. CASE wsSeen = ws /\ ws' = p.ws
    BY <1>1, <1>2, <1>4, <2>1, <2>2, <2>3, <2>5, Zenon DEF OwnerInv, Safe
  <2>6. CASE wsSeen = ws /\ ws' = NoWS /\ p.ws.deleting /\ ~p.ws.finalizer
    <3>1. ~lc'.exists
      BY <2>1, <2>2, <2>3, <2>6, Zenon DEF OwnerInv, Safe
    <3>2. Fine(NoWS) /\ ~NoWS.exists
      BY Zenon DEF Fine, NoWS, NewWS
    <3> QED
      BY <1>1, <1>2, <2>3, <2>6, <3>1, <3>2, Zenon DEF OwnerInv
  <2> QED
    BY <2>1, <2>4, <2>5, <2>6, Zenon DEF CommitWS
<1> QED
  BY Zenon, <1>3, <1>4

\* No step of the LC's shard makes an LC.
LEMMA LCStepMakesNone ==
    ASSUME IInv, LCStep \/ Deactivate
    PROVE  (lc'.exists => lc.exists) /\ budget'["shard"] = budget["shard"] /\ UNCHANGED wsVars
<1>1. ListerInv /\ lc \in LC /\ budget \in [Events -> Nat]
  BY Zenon DEF IInv, TypeOK, LCTypeOK
<1>2. "shard" \in Events /\ "shard" # "fail" /\ "shard" # "inactive" /\ "shard" # "restart"
  BY Zenon DEF Events
<1>3. ASSUME NEW ok, ReconcileLC(ok) PROVE lc'.exists => lc.exists
  BY <1>1, <1>3, Zenon DEF ReconcileLC, Conflict, ListerInv
<1>4. ASSUME NEW ok, ReconcileDeletion(ok) PROVE lc'.exists => lc.exists
  BY <1>1, <1>4, Zenon DEF ReconcileDeletion, Conflict, ListerInv
<1>5. lc'.exists => lc.exists
  BY <1>3, <1>4, Zenon DEF LCStep, Deactivate, ContentGoes, Initialize, Terminate, MarkInactive,
     Reactivate, RestartLCShard
<1>6. budget'["shard"] = budget["shard"]
  BY <1>1, <1>2, Zenon DEF LCStep, Deactivate, ContentGoes, Initialize, Terminate, MarkInactive,
     Reactivate, RestartLCShard, ReconcileLC, ReconcileDeletion, Try, Spend
<1>7. UNCHANGED wsVars
  BY Zenon DEF LCStep, Deactivate
<1> QED
  BY Zenon, <1>5, <1>6, <1>7

\* Every step keeps an LC under its workspace.
LEMMA OwnerPreserved ==
    ASSUME IInv, SettledInv, OwnerInv, [Next]_vars
    PROVE  OwnerInv'
<1>1. ws \in WS /\ budget \in [Events -> Nat] /\ "shard" \in Events
  BY Zenon DEF IInv, TypeOK, LCTypeOK, Events
<1>2. CASE LCStep \/ Deactivate
  BY <1>2, Zenon, LCStepMakesNone DEF OwnerInv, wsVars
<1>3. CASE SeeLC \/ SyncWS \/ ResyncWS \/ IndexLC \/ IndexWS
  BY <1>3, Zenon DEF OwnerInv, SeeLC, SyncLC, SyncWS, ResyncWS, IndexLC, IndexWS, lcVars
<1>4. CASE LoseShard \/ FindShard
  BY <1>4, SMT DEF OwnerInv, LoseShard, FindShard, Spend
<1>5. CASE RestartWSShard
  <2>1. budget'["shard"] = budget["shard"]
    BY <1>1, <1>5, Zenon DEF RestartWSShard, Spend
  <2> QED
    BY <1>5, <2>1, Zenon DEF OwnerInv, RestartWSShard, lcVars
<1>6. CASE Delete
  <2>1. /\ budget'["shard"] = budget["shard"]
        /\ UNCHANGED <<lc, wsSeen, shardKnown>>
    BY <1>1, <1>6, Zenon DEF Delete, Spend, lcVars
  <2>2. CASE ws.finalizer
    <3> DEFINE v == [ws EXCEPT !.deleting = TRUE]
    <3>1. ws' = v
      BY <1>6, <2>2, Zenon DEF Delete
    <3>2. Fine(ws) => Fine(v)
      BY <1>1, Zenon DEF WS, Fine
    <3>3. v.exists = ws.exists /\ v.finalizer = ws.finalizer /\ v.cluster = ws.cluster
      BY <1>1, Zenon DEF WS
    <3> HIDE DEF v
    <3> QED
      BY <2>1, <3>1, <3>2, <3>3, Zenon DEF OwnerInv
  <2>3. CASE ~ws.finalizer
    <3>1. ws' = NoWS
      BY <1>6, <2>3, Zenon DEF Delete
    <3>2. Fine(NoWS) /\ ~NoWS.exists
      BY Zenon DEF Fine, NoWS, NewWS
    <3> QED
      BY <2>1, <2>3, <3>1, <3>2, Zenon DEF OwnerInv
  <2> QED
    BY Zenon, <2>2, <2>3
<1>7. CASE UNCHANGED vars
  BY <1>7, Zenon DEF OwnerInv, vars
<1>8. CASE \E c \in Choices : ReconcileWS(c)
  BY Zenon, <1>8, ReconcileOwner
<1> QED
  BY <1>2, <1>3, <1>4, <1>5, <1>6, <1>7, <1>8, Zenon DEF Next

\* As long as no shard is lost, an LC has a workspace with the finalizer that will
\* delete it (schedulingReconciler, deletionReconciler: "We don't want to leak"),
\* whatever else is deleted, restarted, refused or taken, and however late the
\* listers and the front-proxy are.
THEOREM NoOrphanTheorem ==
    ASSUME NoShardLost
    PROVE  Spec => []NoOrphan
<1>1. Init => OwnerInv
  <2>1. Fine(NewWS) /\ Fine(NoWS) /\ ~NoWS.exists /\ ~NoLC.exists
    BY Zenon DEF Fine, NoWS, NewWS, NoLC
  <2> QED
    BY <2>1, Zenon DEF Init, LCInit, OwnerInv, NoShardLost
<1>2. Init => SettledInv
  BY Zenon DEF Init, SettledInv, Settled, NotReady, NoWS, NewWS
<1>3. IInv /\ SettledInv /\ OwnerInv /\ [Next]_vars => SettledInv' /\ OwnerInv'
  BY Zenon, SettledPreserved, OwnerPreserved
<1>4. OwnerInv => NoOrphan
  BY Zenon DEF OwnerInv, NoOrphan
<1> QED
  BY <1>1, <1>2, <1>3, <1>4, Invariance, PTL DEF Spec
====
