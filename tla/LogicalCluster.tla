--------------------------- MODULE LogicalCluster ---------------------------
(***************************************************************************)
(* The life of a logical cluster (LC) on its shard: the logicalcluster     *)
(* controller (labels, finalizer of the terminators, phase, connections of *)
(* an inactive LC), the admission plugin that hands out initializers and   *)
(* terminators, the logicalcluster deletion controller, and the            *)
(* initializers and terminators themselves, which are external.            *)
(*                                                                         *)
(* A controller reads the LC from a lister that lags behind, and its write *)
(* is refused when the LC has changed since (same resource version).  The  *)
(* lister shows a version of the LC that was current at some time, later   *)
(* ones after earlier ones.  One reconcile is one step.                    *)
(***************************************************************************)
EXTENDS Naturals

CONSTANTS
    Types,     \* what a workspace type asks for: an initializer, a terminator
    Budgets    \* how often users and operators may do what they do

\* What users and operators do, and calls that fail.
Events == {"delete", "inactive", "taken", "shard", "restart", "fail"}

ASSUME LogicalClusterAssumption ==
    /\ Types \subseteq [init : BOOLEAN, term : BOOLEAN, sameShard : BOOLEAN]
    /\ Budgets \subseteq [Events -> Nat]

VARIABLES
    type,       \* the type of the workspace, and whether its LC is on the same shard
    lc,         \* the LC
    lcSeen,     \* the LC in the lister
    lcStale,    \* the LC was written since
    lcQueued,   \* the key is in the queue of the logicalcluster controller
    delQueued,  \* the key is in the queue of the deletion controller
    content,    \* the objects in the LC
    cancelled,  \* the context manager has the context of the LC cancelled
    budget      \* what may still happen

lcVars == <<lc, lcSeen, lcStale, lcQueued, delQueued, content, cancelled>>

----------------------------------------------------------------------------
Phases == {"Scheduling", "Initializing", "Ready", "Inactive", "Terminating", "Deleting"}
Finalizers == {"deletion", "terminators"}
Labels == [phase : Phases \cup {"none"}, inits : BOOLEAN, terms : BOOLEAN]
NoLabels == [phase |-> "none", inits |-> FALSE, terms |-> FALSE]

\* inits, terms: status.initializers and status.terminators are not empty.
LC == [exists : BOOLEAN, deleting : BOOLEAN, phase : Phases, labels : Labels,
       inits : BOOLEAN, terms : BOOLEAN, finalizers : SUBSET Finalizers,
       inactive : BOOLEAN]
NoLC == [exists |-> FALSE, deleting |-> FALSE, phase |-> "Scheduling",
         labels |-> NoLabels, inits |-> FALSE, terms |-> FALSE, finalizers |-> {},
         inactive |-> FALSE]

\* A new LC: admission adds the finalizer of the deletion controller.
NewLC == [NoLC EXCEPT !.exists = TRUE, !.finalizers = {"deletion"}]

LCTypeOK ==
    /\ type \in Types
    /\ lc \in LC /\ lcSeen \in LC
    /\ lcStale \in BOOLEAN /\ lcQueued \in BOOLEAN /\ delQueued \in BOOLEAN
    /\ content \in {"present", "going", "gone"}
    /\ cancelled \in BOOLEAN
    /\ budget \in [Events -> Nat]

LCInit ==
    /\ type \in Types
    /\ lc = NoLC /\ lcSeen = NoLC
    /\ lcStale = FALSE /\ lcQueued = FALSE /\ delQueued = FALSE
    /\ content = "present" /\ cancelled = FALSE
    /\ budget \in Budgets

Spend(event) ==
    /\ budget[event] > 0
    /\ budget' = [budget EXCEPT ![event] = @ - 1]

\* Whether a call of the API server succeeds.
Try(ok) == IF ok THEN UNCHANGED budget ELSE Spend("fail")

----------------------------------------------------------------------------
(* The API server.                                                         *)

\* Admission hands out initializers and terminators when an LC becomes
\* Initializing.
Admit(old, new) ==
    IF old.phase # "Initializing" /\ new.phase = "Initializing"
    THEN [new EXCEPT !.inits = type.init, !.terms = type.term]
    ELSE new

\* An object that is being deleted goes with its last finalizer, and takes no
\* new ones.
Stored(old, new) ==
    LET o == Admit(old, new) IN IF o.deleting /\ o.finalizers = {} THEN NoLC ELSE o

Accepted(old, new) == old.deleting => new.finalizers \subseteq old.finalizers

\* A write of what was read from the lister fails when the LC was written since.
Conflict(new, ok) == ~ok \/ lcStale \/ ~Accepted(lc, new)

\* The rest of a step that may write the LC.
Touch == lcStale' = (lcStale \/ lc' # lc)

\* Requests for the objects in the LC fail: the filter finds the annotation in
\* the lister, or the context they get is cancelled.  The LC object itself is
\* exempt from both.
Blocked == lcSeen.inactive \/ cancelled

----------------------------------------------------------------------------
(* The logicalcluster controller.                                          *)

\* An informer delivers the LC; the deletion controller takes only LCs that are
\* being deleted.
SyncLC ==
    /\ lcStale
    /\ lcSeen' = lc /\ lcStale' = FALSE
    /\ lcQueued' = TRUE
    /\ delQueued' = (delQueued \/ lc.deleting)
    /\ UNCHANGED <<type, lc, content, cancelled, budget>>

WithLabels(o) == [o EXCEPT !.labels = [phase |-> o.phase, inits |-> o.inits, terms |-> o.terms]]

\* Mutant: the finalizer is only for LCs that are not being deleted.
WithFinalizer_WhileAlive(o) == [o EXCEPT !.finalizers =
    IF o.terms /\ ~o.deleting THEN @ \cup {"terminators"} ELSE @ \ {"terminators"}]

WithFinalizer(o) == [o EXCEPT !.finalizers =
    IF o.terms THEN @ \cup {"terminators"} ELSE @ \ {"terminators"}]

NextPhase(o) ==
    IF o.deleting THEN (IF o.terms THEN "Terminating" ELSE "Deleting")
    ELSE IF o.phase = "Scheduling" THEN "Initializing"
    ELSE IF o.phase = "Initializing" /\ ~o.inits THEN "Ready"
    ELSE IF o.phase = "Ready" /\ o.inactive THEN "Inactive"
    ELSE IF o.phase = "Inactive" /\ ~o.inactive THEN "Ready"
    ELSE o.phase

\* The reconcilers in their order: one that changes metadata ends the pass.
MetaOnly(o) == WithLabels(o) # o \/ WithFinalizer(o) # o
Reconciled(o) ==
    IF WithLabels(o) # o THEN WithLabels(o)
    ELSE IF WithFinalizer(o) # o THEN WithFinalizer(o)
    ELSE [o EXCEPT !.phase = NextPhase(o)]

\* Mutant: connections are cancelled before the Inactive phase is stored.
Contexts_Early(o) ==
    IF MetaOnly(o) THEN cancelled
    ELSE IF o.deleting
    THEN cancelled /\ ~(NextPhase(o) = "Deleting" /\ o.phase # "Deleting")
    ELSE IF o.phase = "Inactive" THEN o.inactive
    ELSE cancelled \/ (o.phase = "Ready" /\ o.inactive)

\* The phase reconciler cancels the connections of an LC that is known to be
\* Inactive, and admits them again when it is reactivated or gone.
Contexts(o) ==
    IF MetaOnly(o) THEN cancelled
    ELSE IF o.deleting
    THEN cancelled /\ ~(NextPhase(o) = "Deleting" /\ o.phase # "Deleting")
    ELSE IF o.phase = "Inactive" THEN o.inactive
    ELSE cancelled

ReconcileLC(ok) ==
    LET o == lcSeen
        n == Reconciled(o)
        failed == n # o /\ Conflict(n, ok)
    IN  /\ lcQueued
        /\ Try(ok)
        /\ IF ~o.exists
           THEN lcQueued' = FALSE /\ UNCHANGED <<lc, cancelled>>
           ELSE /\ lc' = IF n = o \/ failed THEN lc ELSE Stored(lc, n)
                /\ cancelled' = Contexts(o)
                /\ lcQueued' = (failed \/ MetaOnly(o) \/ (~o.deleting /\ o.phase = "Scheduling"))
        /\ Touch
        /\ UNCHANGED <<type, lcSeen, delQueued, content>>

----------------------------------------------------------------------------
(* The logicalcluster deletion controller.                                 *)

\* It deletes the objects, comes back until they are gone, and then deletes the
\* cluster roles and takes its finalizer off the LC it has read.
ReconcileDeletion(ok) ==
    LET o == lcSeen
        n == [o EXCEPT !.finalizers = @ \ {"deletion"}]
        failed == n # o /\ Conflict(n, ok)
    IN  /\ delQueued
        /\ Try(ok)
        /\ IF ~o.exists \/ ~o.deleting
           THEN delQueued' = FALSE /\ UNCHANGED <<lc, content>>
           ELSE IF Blocked
           THEN UNCHANGED <<lc, content, delQueued>>
           ELSE IF content # "gone"
           THEN content' = "going" /\ UNCHANGED <<lc, delQueued>>
           ELSE /\ lc' = IF n = o \/ failed THEN lc ELSE Stored(lc, n)
                /\ delQueued' = failed
                /\ UNCHANGED content
        /\ Touch
        /\ UNCHANGED <<type, lcSeen, lcQueued, cancelled>>

\* The objects that are being deleted lose their own finalizers.
ContentGoes ==
    /\ content = "going"
    /\ content' = "gone"
    /\ UNCHANGED <<type, lc, lcSeen, lcStale, lcQueued, delQueued, cancelled, budget>>

----------------------------------------------------------------------------
(* Initializers, terminators and administrators.                           *)

Others == Touch /\ UNCHANGED <<type, lcSeen, lcQueued, delQueued, content, cancelled>>

\* They see the LCs that carry their label, a terminator those being deleted,
\* work on the objects in the LC, and take their name off the status.
InitializerSees(o) == o.labels.phase = "Initializing" /\ o.labels.inits
TerminatorSees(o) == o.deleting /\ o.labels.terms

Initialize ==
    /\ lc.exists /\ lc.inits /\ lc.phase = "Initializing"
    /\ InitializerSees(lc)
    /\ ~Blocked
    /\ lc' = [lc EXCEPT !.inits = FALSE]
    /\ Others /\ UNCHANGED budget

Terminate ==
    /\ lc.exists /\ lc.terms
    /\ TerminatorSees(lc)
    /\ ~Blocked
    /\ lc' = [lc EXCEPT !.terms = FALSE]
    /\ Others /\ UNCHANGED budget

\* System identities toggle the annotation; admission exempts them from its
\* check of the phase.
MarkInactive ==
    /\ lc.exists /\ ~lc.inactive
    /\ Spend("inactive")
    /\ lc' = [lc EXCEPT !.inactive = TRUE]
    /\ Others

Reactivate ==
    /\ lc.exists /\ lc.inactive
    /\ Spend("inactive")
    /\ lc' = [lc EXCEPT !.inactive = FALSE]
    /\ Others

\* The shard of the LC restarts.
RestartLCShard ==
    /\ Spend("restart")
    /\ lcSeen' = lc /\ lcStale' = FALSE
    /\ lcQueued' = lc.exists /\ delQueued' = lc.deleting
    /\ cancelled' = FALSE
    /\ UNCHANGED <<type, lc, content>>
====
