----------------------------- MODULE Workspaces -----------------------------
(***************************************************************************)
(* The workspace controller and the logical cluster (LC) it makes: a       *)
(* workspace is scheduled to a shard in two commits (finalizer and names   *)
(* first, the LC and its location second), follows its LC through          *)
(* initialization, becomes Unavailable with its shard, and takes its LC    *)
(* with it when it is deleted.                                             *)
(*                                                                         *)
(* The controller reads the workspace from a lister that lags behind and   *)
(* commits against the version it read.  It reaches the LC in two ways:    *)
(* directly, on the shard it knows, and through the front-proxy, whose     *)
(* index learns of LCs and of Unavailable workspaces in its own time.      *)
(***************************************************************************)
EXTENDS LogicalCluster

VARIABLES
    ws,          \* the workspace
    wsSeen,      \* the workspace in the lister
    wsQueued,    \* the key is in the queue of the workspace controller
    shardKnown,  \* the shard is in the shard lister
    index,       \* the front-proxy: LC it routes to, workspace it refuses
    foreign      \* an LC of another owner, under a name that gets generated again

wsVars == <<ws, wsSeen, wsQueued, shardKnown, index, foreign>>
vars == <<type, lc, lcSeen, lcStale, lcQueued, delQueued, content, cancelled, budget,
          ws, wsSeen, wsQueued, shardKnown, index, foreign>>

----------------------------------------------------------------------------
WSPhases == {"Scheduling", "Initializing", "Ready", "Unavailable", "Terminating", "Deleting"}

\* shard, cluster: the annotations; spec: spec.cluster and spec.URL are set;
\* scheduled, initialized: the conditions, "Gone" for WorkspaceDisappeared.
WS == [exists : BOOLEAN, deleting : BOOLEAN, phase : WSPhases,
       label : WSPhases \cup {"none"}, shard : BOOLEAN,
       cluster : {"none", "own", "foreign"}, finalizer : BOOLEAN, spec : BOOLEAN,
       scheduled : {"none", "True", "False"},
       initialized : {"none", "True", "False", "Gone"}]
NewWS == [exists |-> TRUE, deleting |-> FALSE, phase |-> "Scheduling", label |-> "none",
          shard |-> FALSE, cluster |-> "none", finalizer |-> FALSE, spec |-> FALSE,
          scheduled |-> "none", initialized |-> "none"]
NoWS == [NewWS EXCEPT !.exists = FALSE]

\* What a pass over a workspace leaves behind: the workspace to commit, its LC,
\* the other LC, whether later reconcilers are skipped, whether the key comes back.
Pass(w, l, f, stop, again) == [ws |-> w, lc |-> l, foreign |-> f, stop |-> stop, again |-> again]
Continue(w) == Pass(w, lc, foreign, FALSE, FALSE)
Requeue(w) == Pass(w, lc, foreign, TRUE, TRUE)
Later(w) == Pass(w, lc, foreign, FALSE, TRUE)

TypeOK ==
    /\ LCTypeOK
    /\ ws \in WS /\ wsSeen \in WS
    /\ wsQueued \in BOOLEAN /\ shardKnown \in BOOLEAN /\ foreign \in BOOLEAN
    /\ index \in [lc : BOOLEAN, refused : BOOLEAN]

Init ==
    /\ LCInit
    /\ ws = NewWS /\ wsSeen = NoWS /\ wsQueued = FALSE
    /\ shardKnown = TRUE /\ foreign = TRUE
    /\ index = [lc |-> FALSE, refused |-> FALSE]

----------------------------------------------------------------------------
(* The front-proxy.                                                        *)

\* What a request for the LC gets: an error when the LC is not in the index, or
\* when its workspace is Unavailable and lives on the shard of the LC.
FrontProxy ==
    IF ~index.lc \/ (type.sameShard /\ index.refused) THEN "error"
    ELSE IF lc.exists THEN "found" ELSE "notfound"

Direct == IF lc.exists THEN "found" ELSE "notfound"

----------------------------------------------------------------------------
(* The reconcilers of the workspace controller, in their order.            *)

\* Mutant: the pass goes on after the label was changed.
MetaData_Continue(w) == Continue([w EXCEPT !.label = w.phase])

MetaData(w) == IF w.label # w.phase THEN Requeue([w EXCEPT !.label = w.phase]) ELSE Continue(w)

\* The LC named by the annotation or by the spec; the name may be empty when an
\* unscheduled workspace is Unavailable, and what is found then is not told.
Target(w) ==
    IF w.phase = "Scheduling" THEN w.cluster ELSE IF w.spec THEN "own" ELSE "none"

\* Mutant: what the front-proxy does not know is taken to be gone.
Get_FrontProxyOnly(w, guess) ==
    LET target == Target(w) IN
    IF target = "foreign" THEN (IF foreign THEN "found" ELSE "notfound")
    ELSE IF FrontProxy = "found" THEN "found" ELSE "notfound"

Get(w, guess) ==
    LET target == Target(w) IN
    IF target = "foreign" THEN (IF foreign THEN "found" ELSE "notfound")
    ELSE IF target = "own" /\ FrontProxy # "error" THEN FrontProxy
    ELSE IF ~w.shard \/ ~shardKnown THEN "error"
    ELSE IF target = "own" THEN Direct ELSE guess

DeleteLC(w) ==
    IF Target(w) = "foreign" THEN Pass(w, lc, FALSE, FALSE, FALSE)
    ELSE IF FrontProxy # "found" THEN Requeue(w)
    ELSE Pass(w, [lc EXCEPT !.deleting = TRUE], foreign, FALSE, FALSE)

Deletion(w, guess) ==
    IF ~w.deleting THEN Continue(w)
    ELSE IF Target(w) = "none" /\ w.phase = "Scheduling"
    THEN Continue([w EXCEPT !.finalizer = FALSE])
    ELSE IF Get(w, guess) = "error" THEN Requeue(w)
    ELSE IF Get(w, guess) = "notfound" THEN Requeue([w EXCEPT !.finalizer = FALSE])
    ELSE IF Target(w) = "own" /\ lc.deleting THEN Continue(w)
    ELSE DeleteLC(w)

Unschedulable(w) == Continue([w EXCEPT !.scheduled = "False"])

\* The LC is created unless it is there already, and is put into Initializing,
\* whatever its phase; the second call may fail.
Location(w, fault) ==
    LET created == IF lc.exists THEN lc ELSE NewLC
        started == Stored(created, [created EXCEPT !.phase = "Initializing"])
    IN  IF w.cluster = "foreign" THEN Requeue([w EXCEPT !.cluster = "none"])
        ELSE IF fault = "call" THEN Pass(w, created, foreign, TRUE, TRUE)
        ELSE Pass([w EXCEPT !.spec = TRUE], started, foreign, TRUE, TRUE)

Scheduling(w, name, fault) ==
    IF w.deleting THEN Continue(w)
    ELSE IF w.spec
    THEN IF ~shardKnown THEN Unschedulable(w) ELSE Continue([w EXCEPT !.scheduled = "True"])
    ELSE IF ~w.shard /\ ~shardKnown THEN Unschedulable(w)
    ELSE IF ~w.shard \/ w.cluster = "none" \/ ~w.finalizer
    THEN Requeue([w EXCEPT !.shard = TRUE, !.finalizer = TRUE,
                           !.cluster = IF @ = "none" THEN name ELSE @])
    ELSE IF ~shardKnown THEN Unschedulable(w)
    ELSE Location(w, fault)

NotReady(w) == w.scheduled = "False" \/ w.initialized \in {"False", "Gone"}

\* Mutant: an Unavailable workspace recovers straight to Ready.
RecoveredPhase_Ready(w) == "Ready"

RecoveredPhase(w) ==
    IF w.initialized = "True" THEN "Ready" ELSE IF ~w.spec THEN "Scheduling" ELSE "Initializing"

TerminalCondition(w) ==
    IF w.phase \in {"Terminating", "Deleting"} THEN Continue(w)
    ELSE IF NotReady(w) /\ w.phase # "Unavailable"
    THEN Requeue([w EXCEPT !.phase = "Unavailable"])
    ELSE IF ~NotReady(w) /\ w.phase = "Unavailable"
    THEN Requeue([w EXCEPT !.phase = RecoveredPhase(w)])
    ELSE Continue(w)

\* young: the workspace is younger than logicalClusterTimeout.
Initializing(w, young) ==
    IF FrontProxy = "error" THEN Requeue(w)
    ELSE IF FrontProxy = "notfound"
    THEN IF w.shard /\ shardKnown /\ young THEN Later(w)
         ELSE Continue([w EXCEPT !.initialized = "Gone"])
    ELSE IF lc.phase = "Scheduling" \/ lc.inits
    THEN Later([w EXCEPT !.initialized = "False"])
    ELSE TerminalCondition([w EXCEPT !.phase = "Ready", !.initialized = "True"])

Unavailable(w) ==
    IF w.initialized = "Gone" /\ w.shard /\ shardKnown
    THEN IF FrontProxy # "found" THEN Requeue(w)
         ELSE LET p == TerminalCondition([w EXCEPT !.initialized = "True"])
              IN  [p EXCEPT !.again = TRUE]
    ELSE TerminalCondition(w)

\* Mutant: the workspace waits for an event of its LC.
Terminating_NoPoll(w) ==
    IF FrontProxy = "error" THEN Requeue(w)
    ELSE IF FrontProxy = "notfound" THEN Continue(w)
    ELSE Continue([w EXCEPT !.phase = IF lc.terms THEN "Terminating" ELSE "Deleting"])

\* The workspace waits for its LC to go, and asks again and again.
Terminating(w) ==
    IF FrontProxy = "error" THEN Requeue(w)
    ELSE IF FrontProxy = "notfound" THEN Continue(w)
    ELSE Later([w EXCEPT !.phase = IF lc.terms THEN "Terminating" ELSE "Deleting"])

Phase(w, young) ==
    IF w.phase = "Initializing" THEN Initializing(w, young)
    ELSE IF w.phase = "Unavailable" THEN Unavailable(w)
    ELSE IF w.phase # "Scheduling" /\ w.deleting THEN Terminating(w)
    ELSE IF w.phase = "Scheduling" /\ w.spec
    THEN TerminalCondition([w EXCEPT !.phase = "Initializing"])
    ELSE TerminalCondition(w)

\* One pass: a reconciler that requeues ends it.  Only deletion and scheduling
\* change an LC, and never both.  (A set with the one outcome.)
Then(p, q) ==
    IF p.stop THEN p
    ELSE IF q.lc # lc \/ q.foreign # foreign THEN q
    ELSE [q EXCEPT !.lc = p.lc, !.foreign = p.foreign]

Chain(w, c) ==
    LET meta == {MetaData(w)}
        deletion == {Then(p, Deletion(p.ws, c.guess)) : p \in meta}
        scheduling == {Then(p, Scheduling(p.ws, c.name, c.fault)) : p \in deletion}
    IN  {Then(p, Phase(p.ws, c.young)) : p \in scheduling}

----------------------------------------------------------------------------
(* The workspace controller.                                               *)

\* A workspace that is being deleted goes with its finalizer, and takes no new one.
CommitWS(old, new, fault) ==
    IF fault = "commit" \/ old # ws \/ (ws.deleting /\ new.finalizer /\ ~ws.finalizer)
    THEN ws
    ELSE IF new.deleting /\ ~new.finalizer THEN NoWS ELSE new

\* What a pass does not determine: the name generated for the LC, what a request
\* for an empty name finds, the age of the workspace, and a call that fails.  At
\* most one of them is out of the ordinary.
Usual == [name |-> "own", guess |-> "error", young |-> FALSE, fault |-> "none"]
Choices ==
    {Usual, [Usual EXCEPT !.name = "foreign"], [Usual EXCEPT !.guess = "notfound"],
     [Usual EXCEPT !.young = TRUE], [Usual EXCEPT !.fault = "call"],
     [Usual EXCEPT !.fault = "commit"]}

\* A foreign name and a fault are rare, and drawn from the budget.
Rare(c) ==
    IF c.name = "foreign" THEN Spend("taken")
    ELSE IF c.fault # "none" THEN Spend("fail") ELSE UNCHANGED budget

ReconcileWS(c) ==
    /\ wsQueued
    /\ Rare(c)
    /\ IF ~wsSeen.exists
       THEN wsQueued' = FALSE /\ UNCHANGED <<ws, lc, foreign>>
       ELSE \E p \in Chain(wsSeen, c) :
            /\ ws' = IF p.ws = wsSeen THEN ws ELSE CommitWS(wsSeen, p.ws, c.fault)
            /\ lc' = p.lc
            /\ foreign' = p.foreign
            /\ wsQueued' = (p.again \/ (p.ws # wsSeen /\ ws' = ws))
    /\ Touch
    /\ UNCHANGED <<type, lcSeen, lcQueued, delQueued, content, cancelled,
                   wsSeen, shardKnown, index>>

SyncWS ==
    /\ wsSeen # ws
    /\ wsSeen' = ws
    /\ wsQueued' = TRUE
    /\ UNCHANGED <<lcVars, type, budget, ws, shardKnown, index, foreign>>

\* An LC on the shard of its workspace wakes the workspace whose spec names it.
SeeLC ==
    /\ SyncLC
    /\ wsQueued' = (wsQueued \/ (type.sameShard /\ lcSeen.exists /\ wsSeen.exists /\ wsSeen.spec))
    /\ UNCHANGED <<ws, wsSeen, shardKnown, index, foreign>>

\* The informer delivers every workspace again every ten hours.  Only what
\* nothing else wakes is delivered here: a workspace deleted before its
\* location was set, or while it was Unavailable.
ResyncWS ==
    /\ wsSeen.exists /\ wsSeen.deleting /\ wsSeen.phase \in {"Scheduling", "Unavailable"}
    /\ ~wsQueued
    /\ wsQueued' = TRUE
    /\ UNCHANGED <<lcVars, type, budget, ws, wsSeen, shardKnown, index, foreign>>

----------------------------------------------------------------------------
(* Shards, the index, users.                                               *)

LoseShard ==
    /\ shardKnown
    /\ Spend("shard")
    /\ shardKnown' = FALSE
    /\ UNCHANGED <<lcVars, type, ws, wsSeen, wsQueued, index, foreign>>

\* Mutant: a shard that comes back wakes nobody.
FindShard_NoWake ==
    /\ ~shardKnown
    /\ shardKnown' = TRUE
    /\ UNCHANGED <<lcVars, type, budget, ws, wsSeen, wsQueued, index, foreign>>

\* The shard comes back, and wakes the workspaces that could not be scheduled.
FindShard ==
    /\ ~shardKnown
    /\ shardKnown' = TRUE
    /\ wsQueued' = (wsQueued \/ (wsSeen.exists /\ wsSeen.scheduled = "False"))
    /\ UNCHANGED <<lcVars, type, budget, ws, wsSeen, index, foreign>>

IndexLC ==
    /\ index.lc # lc.exists
    /\ index' = [index EXCEPT !.lc = lc.exists]
    /\ UNCHANGED <<lcVars, type, budget, ws, wsSeen, wsQueued, shardKnown, foreign>>

IndexWS ==
    LET refused == ws.exists /\ ws.phase = "Unavailable" IN
    /\ index.refused # refused
    /\ index' = [index EXCEPT !.refused = refused]
    /\ UNCHANGED <<lcVars, type, budget, ws, wsSeen, wsQueued, shardKnown, foreign>>

\* A user deletes the workspace.
Delete ==
    /\ ws.exists /\ ~ws.deleting
    /\ Spend("delete")
    /\ ws' = IF ws.finalizer THEN [ws EXCEPT !.deleting = TRUE] ELSE NoWS
    /\ UNCHANGED <<lcVars, type, wsSeen, wsQueued, shardKnown, index, foreign>>

\* The shard of the workspace restarts.
RestartWSShard ==
    /\ Spend("restart")
    /\ wsSeen' = ws
    /\ wsQueued' = ws.exists
    /\ UNCHANGED <<lcVars, type, ws, shardKnown, index, foreign>>

\* What the LC's own shard does, beside SyncLC.
LCStep ==
    /\ \/ \E ok \in BOOLEAN : ReconcileLC(ok) \/ ReconcileDeletion(ok)
       \/ ContentGoes \/ Initialize \/ Terminate
       \/ Reactivate \/ RestartLCShard
    /\ UNCHANGED wsVars

\* An LC is marked inactive once its workspace knows where it is.
Deactivate == wsSeen.spec /\ MarkInactive /\ UNCHANGED wsVars

Next ==
    \/ LCStep \/ Deactivate
    \/ SeeLC \/ SyncWS \/ ResyncWS \/ IndexLC \/ IndexWS
    \/ \E c \in Choices : ReconcileWS(c)
    \/ LoseShard \/ FindShard
    \/ Delete \/ RestartWSShard

Spec == Init /\ [][Next]_vars

\* Queues are worked off, informers deliver, a retried call succeeds at last, a
\* lost shard comes back, initializers and terminators do their work.
Fairness ==
    /\ WF_vars(ReconcileWS(Usual))
    /\ WF_vars(SeeLC) /\ WF_vars(SyncWS) /\ WF_vars(ResyncWS)
    /\ WF_vars(IndexLC \/ IndexWS \/ FindShard)
    /\ WF_vars(ReconcileLC(TRUE) /\ UNCHANGED wsVars)
    /\ WF_vars(ReconcileDeletion(TRUE) /\ UNCHANGED wsVars)
    /\ WF_vars((ContentGoes \/ Initialize \/ Terminate) /\ UNCHANGED wsVars)

FairSpec == Spec /\ Fairness

----------------------------------------------------------------------------
(* Properties.                                                             *)

\* A workspace that is Ready has an LC without initializers that has started to
\* initialize: an LC that was not given its initializers yet is never taken for
\* one that has finished them (workspace_reconcile_phase.go, Initializing; and
\* recoveredPhase, which must not lead past Initializing).
ReadyMeansInitialized ==
    ws.phase = "Ready" /\ ~ws.deleting =>
        lc.exists /\ lc.phase # "Scheduling" /\ ~lc.inits

\* No pass of the workspace controller changes metadata or spec together with
\* the status: the committer panics on such a change.
CommitsOneHalf ==
    wsSeen.exists =>
        \A c \in Choices : \A p \in Chain(wsSeen, c) :
            \/ <<p.ws.label, p.ws.shard, p.ws.cluster, p.ws.finalizer, p.ws.spec>>
                 = <<wsSeen.label, wsSeen.shard, wsSeen.cluster, wsSeen.finalizer, wsSeen.spec>>
            \/ <<p.ws.phase, p.ws.scheduled, p.ws.initialized>>
                 = <<wsSeen.phase, wsSeen.scheduled, wsSeen.initialized>>

\* As long as there is an LC its workspace is there to delete it: the first
\* commit of scheduling precedes the LC, and the finalizer outlives it
\* (workspace_reconcile_deletion.go: "We don't want to leak").
NoOrphan == lc.exists => ws.exists /\ ws.finalizer

\* Terminators that an LC has got keep their finalizer on it until the last of
\* them is done (terminatorReconciler).
FinalizerHolds ==
    [][lc'.exists /\ "terminators" \in lc.finalizers /\ "terminators" \notin lc'.finalizers
         => ~lc'.terms]_vars

\* A workspace that is not deleted becomes Ready and stays Ready, unless its LC
\* is inactive: a name that is taken, a shard that is lost for a while, a failed
\* call or a restart delay it, and no wake-up is missed.
WorkspaceBecomesReady ==
    <>[](ws.exists /\ ~ws.deleting /\ ~lc.inactive => ws.phase = "Ready" /\ lc.phase = "Ready")

\* A deleted workspace goes away, and its LC with it.
DeletedWorkspaceGoes == <>[](~ws.deleting)

\* The connections to an LC are cancelled if and only if it is inactive, once
\* all is settled: the cancelled context of an LC that is reactivated before its
\* phase is stored, or during a restart, does not stay (phaseReconciler).
InactiveSettles ==
    <>[](lc.exists /\ ~lc.deleting /\ lc.phase \in {"Ready", "Inactive"}
           => (cancelled <=> lc.inactive))

\* The comment on Cancel in the phase reconciler: the context of an inactive LC
\* is kept "cancelled until it is reactivated".
CancelledUntilReactivated == <>[](lc.exists /\ ~lc.inactive => ~cancelled)

\* The comment on terminatorReconciler: the finalizer is there "to prevent a
\* logicalcluster from being deleted while it still has terminators set".
TerminatorsRun == [][lc.exists /\ ~lc'.exists => ~lc.terms]_vars
====
