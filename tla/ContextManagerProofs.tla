------------------------ MODULE ContextManagerProofs ------------------------
(***************************************************************************)
(* Proofs about ContextManager, for any sets of keys, goroutines and       *)
(* contexts.                                                               *)
(***************************************************************************)
EXTENDS ContextManager, TLAPS

\* The mutex: held across steps exactly by the goroutine inside Delete, whose
\* context is out of the map while its key has no entry.
LockInv ==
    \A d \in Callers :
        /\ lock = d <=> pc[d] = "deleting"
        /\ pc[d] = "deleting" =>
              /\ held[d] \in Contexts
              /\ entries[key[d]] = NoCtx
              /\ \A k \in Keys : entries[k] # held[d]

\* No two keys share a context.
EntriesInjective ==
    \A k, l \in Keys : entries[k] = entries[l] /\ entries[k] # NoCtx => k = l

\* Every context in use that can still be cancelled is where Cancel and Delete
\* find it under the right key.
CurrentInv ==
    \A c \in Callers : Using(c) =>
        /\ held[c] \in Contexts
        /\ \/ held[c] \in cancelled
           \/ entries[key[c]] = held[c]
           \/ \E d \in Callers : /\ pc[d] = "deleting"
                                 /\ held[d] = held[c]
                                 /\ key[d] = key[c]

\* The inductive invariant.
IInv == TypeOK /\ LockInv /\ EntriesInjective /\ CurrentInv

\* The initial states satisfy the inductive invariant.
LEMMA InitIInv == Init => IInv
  BY Zenon, NoneAssumption
  DEF Init, IInv, TypeOK, LockInv, EntriesInjective, CurrentInv, Using, PCs

\* Every step preserves the inductive invariant.
LEMMA StepIInv == IInv /\ [Next]_vars => IInv'
<1> SUFFICES ASSUME IInv, [Next]_vars PROVE IInv'
  OBVIOUS
<1> USE NoneAssumption DEF IInv, TypeOK, PCs
<1>1. ASSUME NEW c \in Callers, Do(c) PROVE IInv'
  BY <1>1 DEF Do, LockInv, EntriesInjective, CurrentInv, Using
<1>2. ASSUME NEW c \in Callers, Build(c) PROVE IInv'
  <2>1. TypeOK'
    BY <1>2 DEF Build, Fresh
  <2>2. LockInv'
    BY <1>2 DEF Build, Fresh, LockInv
  <2>3. EntriesInjective'
    BY <1>2 DEF Build, Fresh, EntriesInjective
  <2>4. CurrentInv'
    BY <1>2 DEF Build, Fresh, CurrentInv, LockInv, Using
  <2> QED
    BY <2>1, <2>2, <2>3, <2>4
<1>3. ASSUME NEW c \in Callers, Share(c) PROVE IInv'
  <2>1. held[c] \in Contexts
    BY <1>3 DEF Share, CurrentInv, Using
  <2>2. TypeOK' /\ EntriesInjective'
    BY <1>3, <2>1 DEF Share, EntriesInjective
  <2>3. LockInv'
    BY <1>3 DEF Share, LockInv
  <2>4. ASSUME NEW d \in Callers, pc[d] = "deleting"
        PROVE  pc'[d] = "deleting" /\ held'[d] = held[d] /\ key'[d] = key[d]
    BY <1>3, <2>4 DEF Share
  <2>5. CurrentInv'
    BY <1>3, <2>1, <2>4 DEF Share, CurrentInv, Using
  <2> QED
    BY <2>2, <2>3, <2>5
<1>4. ASSUME NEW c \in Callers, StopRequest(c) PROVE IInv'
  BY <1>4 DEF StopRequest, LockInv, EntriesInjective, CurrentInv, Using
<1>5. ASSUME NEW c \in Callers, Cleanup(c) PROVE IInv'
  BY <1>5 DEF Cleanup, LockInv, EntriesInjective, CurrentInv, Using
<1>6. ASSUME NEW c \in Callers, DeleteCancel(c) PROVE IInv'
  <2>1. TypeOK' /\ EntriesInjective'
    BY <1>6 DEF DeleteCancel, LockInv, EntriesInjective
  <2>2. LockInv'
    BY <1>6 DEF DeleteCancel, LockInv
  <2>3. CurrentInv'
    BY <1>6 DEF DeleteCancel, LockInv, CurrentInv, Using
  <2> QED
    BY <2>1, <2>2, <2>3
<1>7. ASSUME NEW c \in Callers, NEW k \in Keys, Lookup(c, k) PROVE IInv'
  BY <1>7 DEF Lookup, LockInv, EntriesInjective, CurrentInv, Using
<1>8. ASSUME NEW c \in Callers, NEW k \in Keys, Cancel(c, k) PROVE IInv'
  <2>1. TypeOK' /\ EntriesInjective'
    BY <1>8 DEF Cancel, Fresh, EntriesInjective
  <2>2. LockInv'
    BY <1>8 DEF Cancel, Fresh, LockInv
  <2>3. CurrentInv'
    BY <1>8 DEF Cancel, Fresh, LockInv, CurrentInv, Using
  <2> QED
    BY <2>1, <2>2, <2>3
<1>9. ASSUME NEW c \in Callers, NEW k \in Keys, DeleteEntry(c, k) PROVE IInv'
  <2>1. TypeOK' /\ EntriesInjective'
    BY <1>9 DEF DeleteEntry, EntriesInjective
  <2>2. LockInv'
    BY <1>9 DEF DeleteEntry, LockInv, EntriesInjective
  <2>3. CurrentInv'
    BY <1>9 DEF DeleteEntry, LockInv, CurrentInv, Using
  <2> QED
    BY <2>1, <2>2, <2>3
<1>10. CASE Shutdown
  BY <1>10 DEF Shutdown, LockInv, EntriesInjective, CurrentInv, Using
<1>11. CASE UNCHANGED vars
  BY <1>11 DEF vars, LockInv, EntriesInjective, CurrentInv, Using
<1> QED
  BY <1>1, <1>2, <1>3, <1>4, <1>5, <1>6, <1>7, <1>8, <1>9, <1>10, <1>11 DEF Next

\* The inductive invariant holds in every reachable state.
LEMMA Inductive == Spec => []IInv
  BY InitIInv, StepIInv, PTL DEF Spec

\* The inductive invariant implies the three invariants the runs check.
LEMMA IInvConsequences ==
    IInv => /\ LiveContextIsCurrent
            /\ BlockedKeyHasNoLiveRequest
            /\ LiveRequestsShareContext
<1> SUFFICES ASSUME IInv
             PROVE  /\ LiveContextIsCurrent
                    /\ BlockedKeyHasNoLiveRequest
                    /\ LiveRequestsShareContext
  OBVIOUS
<1> USE NoneAssumption DEF IInv, TypeOK
<1>1. LiveContextIsCurrent
  BY DEF LiveContextIsCurrent, CurrentInv
<1>2. BlockedKeyHasNoLiveRequest
  BY DEF BlockedKeyHasNoLiveRequest, CurrentInv, LockInv
<1>3. LiveRequestsShareContext
  BY DEF LiveRequestsShareContext, CurrentInv, LockInv
<1> QED
  BY <1>1, <1>2, <1>3

\* Type correctness of the manager's state.
THEOREM TypeCorrect == Spec => []TypeOK
  BY Inductive, PTL DEF IInv

\* No request ever runs on a context that Cancel and Delete cannot reach.
THEOREM LiveContextTheorem == Spec => []LiveContextIsCurrent
  BY Inductive, IInvConsequences, PTL

\* Between Cancel(k) and Delete(k) no request of k runs.
THEOREM BlockedKeyTheorem == Spec => []BlockedKeyHasNoLiveRequest
  BY Inductive, IInvConsequences, PTL

\* Concurrent live requests of a key share its one context.
THEOREM SharedContextTheorem == Spec => []LiveRequestsShareContext
  BY Inductive, IInvConsequences, PTL
-----------------------------------------------------------------------------
(* Refinement: the manager implements the gate.                            *)

\* The initial states map to the gate's initial state.
LEMMA InitRefines == Init => Gate!GateInit
  BY NoneAssumption
  DEF Init, Gate!GateInit, gateBar, liveBar, Done

\* Every step maps to a step of the gate or leaves it unchanged.
LEMMA StepRefines == IInv /\ [Next]_vars => [Gate!GateNext]_(Gate!gvars)
<1> SUFFICES ASSUME IInv, [Next]_vars
             PROVE  Gate!GateNext \/ UNCHANGED <<gateBar, liveBar>>
  BY DEF Gate!gvars
<1> USE NoneAssumption DEF IInv, TypeOK, PCs, Done
<1>1. ASSUME NEW c \in Callers, Do(c) PROVE UNCHANGED <<gateBar, liveBar>>
  BY <1>1 DEF Do, gateBar, liveBar
<1>2. ASSUME NEW c \in Callers, Build(c) PROVE UNCHANGED <<gateBar, liveBar>>
  <2>1. UNCHANGED gateBar
    BY <1>2 DEF Build, Fresh, gateBar
  <2>2. UNCHANGED liveBar
    BY <1>2 DEF Build, Fresh, liveBar
  <2> QED
    BY <2>1, <2>2
<1>3. ASSUME NEW c \in Callers, Share(c)
      PROVE  Gate!GateNext \/ UNCHANGED <<gateBar, liveBar>>
  <2> DEFINE S == {d \in Callers : d = c \/ (pc[d] = "waiting" /\ key[d] = key[c])}
  <2>1. UNCHANGED gateBar
    BY <1>3 DEF Share, gateBar
  <2>2. CASE Done(held[c])
    BY <1>3, <2>1, <2>2 DEF Share, liveBar
  <2>3. CASE ~Done(held[c])
    <3>1. held[c] \in Contexts
      BY <1>3 DEF Share, CurrentInv, Using
    <3>2. gateBar[key[c]] = "open"
      BY <1>3, <2>3, <3>1 DEF Share, CurrentInv, LockInv, Using, gateBar
    <3>3. \A d \in S : liveBar[d] = NoCtx
      BY <1>3 DEF Share, liveBar
    <3>4. liveBar' = [d \in Callers |-> IF d \in S THEN key[c] ELSE liveBar[d]]
      BY <1>3, <2>3 DEF Share, liveBar
    <3>5. Gate!Admit(S, key[c])
      BY <2>1, <3>2, <3>3, <3>4 DEF Gate!Admit
    <3>6. S \in SUBSET Callers /\ key[c] \in Keys
      OBVIOUS
    <3> QED
      BY <3>5, <3>6 DEF Gate!GateNext
  <2> QED
    BY <2>2, <2>3
<1>4. ASSUME NEW c \in Callers, StopRequest(c) PROVE UNCHANGED <<gateBar, liveBar>>
  BY <1>4 DEF StopRequest, gateBar, liveBar
<1>5. ASSUME NEW c \in Callers, Cleanup(c) PROVE Gate!GateNext
  <2>1. UNCHANGED gateBar
    BY <1>5 DEF Cleanup, gateBar
  <2>2. liveBar' = [liveBar EXCEPT ![c] = NoCtx]
    BY Zenon, <1>5 DEF Cleanup, liveBar
  <2> QED
    BY Zenon, <2>1, <2>2 DEF Gate!GateNext, Gate!End
<1>6. ASSUME NEW c \in Callers, DeleteCancel(c)
      PROVE  Gate!GateNext \/ UNCHANGED <<gateBar, liveBar>>
  <2>1. UNCHANGED gateBar
    BY <1>6 DEF DeleteCancel, LockInv, gateBar
  <2>2. ASSUME rootDone PROVE UNCHANGED liveBar
    BY <1>6, <2>2 DEF DeleteCancel, liveBar
  <2>3. ASSUME ~rootDone PROVE Gate!DeleteKey(key[c])
    <3>1. gateBar[key[c]] = "open"
      BY <1>6, <2>3 DEF DeleteCancel, LockInv, gateBar
    <3>2. gateBar = [gateBar EXCEPT ![key[c]] = "open"]
      BY <3>1 DEF gateBar
    <3>3. ASSUME NEW d \in Callers
          PROVE  liveBar'[d] = IF liveBar[d] \in {key[c]} THEN NoCtx ELSE liveBar[d]
      BY <1>6, <2>3 DEF DeleteCancel, LockInv, CurrentInv, Using, liveBar
    <3>4. liveBar' = Gate!Stopped({key[c]})
      BY <3>3 DEF Gate!Stopped, liveBar
    <3> QED
      BY <2>1, <3>2, <3>4 DEF Gate!DeleteKey
  <2> QED
    BY <2>1, <2>2, <2>3 DEF Gate!GateNext
<1>7. ASSUME NEW c \in Callers, NEW k \in Keys, Lookup(c, k)
      PROVE  Gate!GateNext \/ UNCHANGED <<gateBar, liveBar>>
  <2>1. UNCHANGED gateBar
    BY <1>7 DEF Lookup, gateBar
  <2>2. CASE entries[k] = NoCtx \/ Done(entries[k])
    BY <1>7, <2>1, <2>2 DEF Lookup, liveBar
  <2>3. CASE ~(entries[k] = NoCtx \/ Done(entries[k]))
    <3>1. gateBar[k] = "open"
      BY <2>3 DEF gateBar
    <3>2. liveBar[c] = NoCtx
      BY <1>7 DEF Lookup, liveBar
    <3>3. liveBar' = [d \in Callers |-> IF d \in {c} THEN k ELSE liveBar[d]]
      BY <1>7, <2>3 DEF Lookup, liveBar
    <3>4. Gate!Admit({c}, k)
      BY <2>1, <3>1, <3>2, <3>3 DEF Gate!Admit
    <3> QED
      BY <3>4 DEF Gate!GateNext
  <2> QED
    BY <2>2, <2>3
<1>8. ASSUME NEW c \in Callers, NEW k \in Keys, Cancel(c, k)
      PROVE  Gate!GateNext \/ UNCHANGED <<gateBar, liveBar>>
  <2>1. ASSUME rootDone PROVE UNCHANGED <<gateBar, liveBar>>
    BY <1>8, <2>1 DEF Cancel, gateBar, liveBar
  <2>2. ASSUME ~rootDone PROVE Gate!CancelKey(k)
    <3>1. gateBar' = [gateBar EXCEPT ![k] = "closed"]
      BY Zenon, <1>8, <2>2 DEF Cancel, Fresh, EntriesInjective, gateBar
    <3>2. ASSUME NEW d \in Callers
          PROVE  liveBar'[d] = IF liveBar[d] \in {k} THEN NoCtx ELSE liveBar[d]
      BY <1>8, <2>2
      DEF Cancel, Fresh, LockInv, CurrentInv, EntriesInjective, Using, liveBar
    <3>3. liveBar' = Gate!Stopped({k})
      BY <3>2 DEF Gate!Stopped, liveBar
    <3> QED
      BY <3>1, <3>3 DEF Gate!CancelKey
  <2> QED
    BY <2>1, <2>2 DEF Gate!GateNext
<1>9. ASSUME NEW c \in Callers, NEW k \in Keys, DeleteEntry(c, k)
      PROVE  Gate!GateNext \/ UNCHANGED <<gateBar, liveBar>>
  <2>1. UNCHANGED liveBar
    BY <1>9 DEF DeleteEntry, liveBar
  <2>2. ASSUME rootDone PROVE UNCHANGED gateBar
    BY <1>9, <2>2 DEF DeleteEntry, gateBar
  <2>3. CASE ~rootDone /\ entries[k] \notin cancelled
    BY <1>9, <2>1, <2>3 DEF DeleteEntry, gateBar
  <2>4. CASE ~rootDone /\ entries[k] \in cancelled
    <3>1. gateBar' = [gateBar EXCEPT ![k] = "open"]
      BY Zenon, <1>9, <2>4 DEF DeleteEntry, gateBar
    <3>2. ASSUME NEW d \in Callers PROVE liveBar[d] # k
      BY <1>9, <2>4 DEF DeleteEntry, LockInv, CurrentInv, Using, liveBar
    <3>3. liveBar' = Gate!Stopped({k})
      BY <2>1, <3>2 DEF Gate!Stopped, liveBar
    <3> QED
      BY Zenon, <3>1, <3>3 DEF Gate!GateNext, Gate!DeleteKey
  <2> QED
    BY <2>1, <2>2, <2>3, <2>4
<1>10. CASE Shutdown
  <2>1. gateBar' = [k \in Keys |-> "closed"]
    BY <1>10 DEF Shutdown, gateBar
  <2>2. liveBar' = Gate!Stopped(Keys)
    BY <1>10 DEF Shutdown, liveBar, Gate!Stopped
  <2> QED
    BY <2>1, <2>2 DEF Gate!GateNext, Gate!Close
<1>11. CASE UNCHANGED vars
  BY <1>11 DEF vars, gateBar, liveBar
<1> QED
  BY <1>1, <1>2, <1>3, <1>4, <1>5, <1>6, <1>7, <1>8, <1>9, <1>10, <1>11 DEF Next

\* The context manager implements the atomic gate its callers rely on.
THEOREM GateRefinement == Spec => ImplementsGate
  BY Inductive, InitRefines, StepRefines, PTL
  DEF Spec, ImplementsGate, Gate!GateSpec
=============================================================================
