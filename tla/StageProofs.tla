---------------------------- MODULE StageProofs -----------------------------
(***************************************************************************)
(* Proofs about ModelStage for every number of replicas and requests,      *)
(* every threshold and cooldown, and every choice of settings and faults.   *)
(***************************************************************************)
EXTENDS ModelStage, TLAPS

-----------------------------------------------------------------------------
(* Type correctness.                                                       *)

(* The breakers' operations keep the type of their state. *)
LEMMA BreakerOps ==
  /\ Closed \in BreakerState
  /\ \A b \in BreakerState : \A w \in BOOLEAN :
       /\ AfterAllow(b) \in BreakerState
       /\ OnSuccess(b, w) \in BreakerState
       /\ OnFailure(b, w) \in BreakerState
       /\ SharedOnFailure(b, w) \in BreakerState
       /\ Cool(b) \in BreakerState
<1>1. Closed \in BreakerState
  BY BreakerAssumption DEF Closed, BreakerState, Brk
<1>2. ASSUME NEW b \in BreakerState, NEW w \in BOOLEAN
      PROVE  /\ OneMore(b) \in 0..Threshold
             /\ b.probe \in BOOLEAN /\ b.state \in {"closed", "open"}
             /\ b.failures \in 0..Threshold /\ b.wait \in 0..Cooldown
  BY <1>2, BreakerAssumption DEF BreakerState, OneMore
<1>3. ASSUME NEW b \in BreakerState, NEW w \in BOOLEAN
      PROVE  AfterAllow(b) \in BreakerState /\ OnSuccess(b, w) \in BreakerState
  BY <1>2, BreakerAssumption DEF BreakerState, AfterAllow, OnSuccess, Brk, TakesProbe
<1>4. ASSUME NEW b \in BreakerState, NEW w \in BOOLEAN, NEW s \in BOOLEAN
      PROVE  Failed(b, w, s) \in BreakerState
  BY <1>2, BreakerAssumption DEF BreakerState, Failed, Brk
<1>5. ASSUME NEW b \in BreakerState
      PROVE  Cool(b) \in BreakerState
  <2>1. (IF b.wait > 0 THEN b.wait - 1 ELSE 0) \in 0..Cooldown
    BY BreakerAssumption DEF BreakerState
  <2>2. QED
    BY <1>2, <2>1 DEF BreakerState, Cool, Brk
<1>6. QED
  BY <1>1, <1>2, <1>3, <1>4, <1>5 DEF OnFailure, SharedOnFailure

(* Every step keeps the types. *)
LEMMA TypeStep == TypeOK /\ [Next]_vars => TypeOK'
<1> SUFFICES ASSUME TypeOK, [Next]_vars PROVE TypeOK'
  OBVIOUS
<1> USE DEF Location, Raised, Answer
<1>0. /\ \A r \in Requests : ReplicaOf[r] \in Replicas
      /\ \A r \in Requests : OpenAnswer(r) \in Answer
      /\ \A r \in Requests : \A x : FailedAnswer(r, x) \in Answer
  BY StageAssumption DEF OpenAnswer, FailedAnswer
<1>1. CASE UNCHANGED vars
  BY <1>1 DEF TypeOK, vars, breakers
<1>2. CASE Tick
  BY <1>2, BreakerOps DEF TypeOK, Tick
<1>3. CASE Expire
  BY <1>3, BreakerOps DEF TypeOK, Expire
<1>4. ASSUME NEW r \in Requests, Start(r) PROVE TypeOK'
  BY <1>4 DEF TypeOK, Start, breakers
<1>5. ASSUME NEW r \in Requests, AskShared(r) PROVE TypeOK'
  <2>1. shared' \in BreakerState
    BY <1>5, BreakerOps DEF TypeOK, AskShared, Await
  <2>2. pc' \in [Requests -> Location] /\ answer' \in [Requests -> Answer]
    BY <1>5, <1>0 DEF TypeOK, AskShared, Await, Goto, Reply
  <2>3. probing' \in [Requests -> BOOLEAN] /\ UNCHANGED <<setup, local, model, hits>>
    BY <1>5 DEF TypeOK, AskShared
  <2>4. QED
    BY <2>1, <2>2, <2>3 DEF TypeOK
<1>6. ASSUME NEW r \in Requests, RunModel(r) PROVE TypeOK'
  BY <1>6 DEF TypeOK, RunModel, Goto, Reply, breakers
<1>7. ASSUME NEW r \in Requests, ReportSuccess(r) PROVE TypeOK'
  BY <1>7, BreakerOps DEF TypeOK, ReportSuccess, Await, Reply, SharedOnSuccess
<1>8. ASSUME NEW r \in Requests, ReportFailure(r) PROVE TypeOK'
  <2>1. probing[r] \in BOOLEAN /\ shared \in BreakerState
    BY DEF TypeOK
  <2>2. /\ SharedOnFailure(shared, probing[r]) \in BreakerState
        /\ SharedOnFailure(SharedOnFailure(shared, probing[r]), probing[r]) \in BreakerState
    BY <2>1, BreakerOps
  <2>3. shared' \in BreakerState
    BY <1>8, <2>1, <2>2 DEF ReportFailure, Await
  <2>4. QED
    BY <1>8, <1>0, <2>3 DEF TypeOK, ReportFailure, Await, Reply
<1>9. ASSUME NEW r \in Requests, EnterLocal(r) PROVE TypeOK'
  <2>1. local' \in [Replicas -> BreakerState]
    BY <1>9, <1>0, BreakerOps DEF TypeOK, EnterLocal
  <2>2. probing' \in [Requests -> BOOLEAN]
    BY <1>9 DEF TypeOK, EnterLocal, TakesProbe
  <2>3. QED
    BY <1>9, <1>0, <2>1, <2>2 DEF TypeOK, EnterLocal, Goto, Reply
<1>10. ASSUME NEW r \in Requests, LeaveLocal(r) PROVE TypeOK'
  <2>1. local' \in [Replicas -> BreakerState]
    BY <1>10, <1>0, BreakerOps DEF TypeOK, LeaveLocal
  <2>2. QED
    BY <1>10, <1>0, <2>1 DEF TypeOK, LeaveLocal, Return, Reply
<1>11. ASSUME NEW r \in Requests, CancelLocal(r) PROVE TypeOK'
  BY <1>11 DEF TypeOK, CancelLocal, Goto, Reply, breakers
<1>12. QED
  BY <1>1, <1>2, <1>3, <1>4, <1>5, <1>6, <1>7, <1>8, <1>9, <1>10, <1>11 DEF Next, Proceed

(* The types hold in every behaviour of the model stage: no report, late,  *)
(* lost or repeated, takes a breaker to a state that allow does not know.  *)
THEOREM StageTypeCorrect == Spec => []TypeOK
<1>1. Init => TypeOK
  BY BreakerOps DEF Init, TypeOK, Location, Answer
<1>2. QED
  BY <1>1, TypeStep, PTL DEF Spec

-----------------------------------------------------------------------------
(* Failing closed.  FailsClosed is not inductive: where a request stands   *)
(* says what is known about its model call.                                *)

Known(r) ==
  /\ pc[r] # "idle" => answer[r] = "none"
  /\ pc[r] \in {"allow", "model", "lock", "call", "thread"} => model[r] = "unrun"
  /\ pc[r] = "success" => model[r] = "returned"
  /\ pc[r] = "failure" => model[r] \in Raised
  /\ answer[r] = "full" => model[r] = "returned"
  /\ answer[r] = "fallback" => hits[r] /\ model[r] # "returned"
KnownInv == \A r \in Requests : Known(r)

(* Every step keeps it. *)
LEMMA KnownStep == TypeOK /\ KnownInv /\ [Next]_vars => KnownInv'
<1> SUFFICES ASSUME TypeOK, KnownInv, [Next]_vars, NEW q \in Requests PROVE Known(q)'
  BY DEF KnownInv
<1>0. Known(q)
  BY DEF KnownInv
<1>1. CASE UNCHANGED vars
  BY <1>0, <1>1 DEF Known, vars
<1>2. CASE Tick \/ Expire
  BY <1>0, <1>2 DEF Known, Tick, Expire
<1>3. ASSUME NEW r \in Requests, Start(r) PROVE Known(q)'
  BY <1>0, <1>3 DEF Known, TypeOK, Start
<1>4. ASSUME NEW r \in Requests, AskShared(r) PROVE Known(q)'
  BY <1>0, <1>4 DEF Known, TypeOK, AskShared, Await, Goto, Reply, OpenAnswer
<1>5. ASSUME NEW r \in Requests, RunModel(r) PROVE Known(q)'
  BY <1>0, <1>5 DEF Known, TypeOK, RunModel, Goto, Reply, Raised
<1>6. ASSUME NEW r \in Requests, ReportSuccess(r) PROVE Known(q)'
  BY <1>0, <1>6 DEF Known, TypeOK, ReportSuccess, Await, Reply
<1>7. ASSUME NEW r \in Requests, ReportFailure(r) PROVE Known(q)'
  BY <1>0, <1>7 DEF Known, TypeOK, ReportFailure, Await, Reply, FailedAnswer, OpenAnswer, Raised
<1>8. ASSUME NEW r \in Requests, EnterLocal(r) PROVE Known(q)'
  BY <1>0, <1>8 DEF Known, TypeOK, EnterLocal, Goto, Reply, OpenAnswer
<1>9. ASSUME NEW r \in Requests, LeaveLocal(r) PROVE Known(q)'
  BY <1>0, <1>9 DEF Known, TypeOK, LeaveLocal, Return, Reply, FailedAnswer, OpenAnswer, Raised
<1>10. ASSUME NEW r \in Requests, CancelLocal(r) PROVE Known(q)'
  BY <1>0, <1>10 DEF Known, TypeOK, CancelLocal, Goto, Reply
<1>11. QED
  BY <1>1, <1>2, <1>3, <1>4, <1>5, <1>6, <1>7, <1>8, <1>9, <1>10 DEF Next, Proceed

(* It holds throughout. *)
LEMMA KnownInvariant == Spec => [](TypeOK /\ KnownInv)
<1>1. Init => KnownInv
  BY DEF Init, KnownInv, Known
<1>2. QED
  BY <1>1, StageTypeCorrect, KnownStep, PTL DEF Spec

(* No behaviour of the breakers or of Redis returns text that neither the  *)
(* model nor a regex match covers, or hides that the model did not run.    *)
THEOREM PipelineFailsClosed == Spec => []FailsClosed
<1>1. KnownInv => FailsClosed
  BY DEF KnownInv, Known, FailsClosed
<1>2. QED
  BY <1>1, KnownInvariant, PTL

-----------------------------------------------------------------------------
(* The probe slot of a replica's own breaker.  OneLocalProbe is not        *)
(* inductive: it also takes that a probe under way holds the slot.  That   *)
(* the slot is held only by a probe under way is what shedding rests on.   *)

Holds(r) == LocalProbe(r) => local[ReplicaOf[r]].probe
Owned(p) == local[p].probe => \E r \in Requests : LocalProbe(r) /\ ReplicaOf[r] = p
ProbeInv == OneLocalProbe /\ \A r \in Requests : Holds(r)
SlotInv == ProbeInv /\ \A p \in Replicas : Owned(p)

(* What each step does to the local breakers and to the local probes: it   *)
(* leaves both alone, lets a request in, or takes one out.                 *)
LocalSame ==
  /\ \A p \in Replicas : local'[p].probe = local[p].probe
  /\ \A r \in Requests : LocalProbe(r)' <=> LocalProbe(r)
LocalEnter(r) ==
  /\ ~LocalProbe(r)
  /\ \A p \in Replicas \ {ReplicaOf[r]} : local'[p].probe = local[p].probe
  /\ \A q \in Requests \ {r} : LocalProbe(q)' <=> LocalProbe(q)
  /\ \/ LocalProbe(r)' /\ ~local[ReplicaOf[r]].probe /\ local'[ReplicaOf[r]].probe
     \/ ~LocalProbe(r)' /\ local'[ReplicaOf[r]].probe = local[ReplicaOf[r]].probe
LocalLeave(r) ==
  /\ ~LocalProbe(r)'
  /\ \A p \in Replicas \ {ReplicaOf[r]} : local'[p].probe = local[p].probe
  /\ \A q \in Requests \ {r} : LocalProbe(q)' <=> LocalProbe(q)
  /\ \/ local'[ReplicaOf[r]].probe = (local[ReplicaOf[r]].probe /\ ~LocalProbe(r))
     \/ "fatal" \in Faults /\ local'[ReplicaOf[r]].probe = local[ReplicaOf[r]].probe

(* The probe flag after each operation. *)
LEMMA BreakerSlots ==
  ASSUME NEW b \in BreakerState, NEW w \in BOOLEAN
  PROVE  /\ AfterAllow(b).probe = (b.probe \/ TakesProbe(b))
         /\ OnSuccess(b, w).probe = (b.probe /\ ~w)
         /\ OnFailure(b, w).probe = (b.probe /\ ~w)
         /\ Cool(b).probe = b.probe
         /\ SharedOnFailure(b, w).probe => b.probe /\ ~w
  BY DEF BreakerState, AfterAllow, OnSuccess, OnFailure, SharedOnFailure, Failed, Trips,
     Cool, Brk

(* Every step is one of the three. *)
LEMMA LocalSteps ==
  ASSUME TypeOK, [Next]_vars
  PROVE  LocalSame \/ \E r \in Requests : LocalEnter(r) \/ LocalLeave(r)
<1>0. \A r \in Requests : ReplicaOf[r] \in Replicas
  BY StageAssumption
<1>1. CASE UNCHANGED vars
  BY <1>1 DEF vars, breakers, LocalSame, LocalProbe
<1>2. CASE Tick
  BY <1>2, BreakerSlots DEF TypeOK, Tick, LocalSame, LocalProbe
<1>3. CASE Expire
  BY <1>3 DEF Expire, LocalSame, LocalProbe
<1>4. ASSUME NEW r \in Requests, Start(r) \/ RunModel(r) \/ CancelLocal(r)
      PROVE  LocalSame
  BY <1>4 DEF TypeOK, Start, RunModel, CancelLocal, Goto, Reply, breakers, LocalSame,
     LocalProbe
<1>5. ASSUME NEW r \in Requests, AskShared(r) \/ ReportSuccess(r) \/ ReportFailure(r)
      PROVE  LocalSame
  BY <1>5 DEF TypeOK, AskShared, ReportSuccess, ReportFailure, Await, Goto, Reply,
     LocalSame, LocalProbe
<1>6. ASSUME NEW r \in Requests, EnterLocal(r) PROVE LocalEnter(r)
  <2> DEFINE p == ReplicaOf[r]
  <2>1. p \in Replicas /\ local[p] \in BreakerState /\ ~LocalProbe(r)
    BY <1>0, <1>6 DEF TypeOK, EnterLocal, LocalProbe
  <2>2. /\ local'[p].probe = (local[p].probe \/ TakesProbe(local[p]))
        /\ \A q \in Replicas \ {p} : local'[q] = local[q]
    BY <1>6, <2>1, BreakerSlots DEF TypeOK, EnterLocal
  <2>3. \A q \in Requests \ {r} : LocalProbe(q)' <=> LocalProbe(q)
    BY <1>6 DEF TypeOK, EnterLocal, Goto, Reply, LocalProbe
  <2>4. LocalProbe(r)' <=> Allows(local[p]) /\ TakesProbe(local[p])
    BY <1>6 DEF TypeOK, EnterLocal, Goto, Reply, LocalProbe
  <2>5. local[p].probe \in BOOLEAN /\ (TakesProbe(local[p]) => ~local[p].probe)
    BY <2>1 DEF BreakerState, TakesProbe
  <2>6. QED
    BY <2>1, <2>2, <2>3, <2>4, <2>5 DEF LocalEnter, Allows
<1>7. ASSUME NEW r \in Requests, LeaveLocal(r) PROVE LocalLeave(r)
  <2> DEFINE p == ReplicaOf[r]
  <2>1. /\ p \in Replicas /\ local[p] \in BreakerState /\ probing[r] \in BOOLEAN
        /\ LocalProbe(r) <=> probing[r]
    BY <1>0, <1>7 DEF TypeOK, LeaveLocal, LocalProbe
  <2>2. \/ local'[p].probe = (local[p].probe /\ ~probing[r])
        \/ "fatal" \in Faults /\ local'[p].probe = local[p].probe
    BY <1>7, <2>1, BreakerSlots DEF TypeOK, LeaveLocal
  <2>3. \A q \in Replicas \ {p} : local'[q] = local[q]
    BY <1>7 DEF TypeOK, LeaveLocal
  <2>4. /\ \A q \in Requests \ {r} : LocalProbe(q)' <=> LocalProbe(q)
        /\ ~LocalProbe(r)'
    BY <1>7 DEF TypeOK, LeaveLocal, Return, Reply, LocalProbe
  <2>5. QED
    BY <2>1, <2>2, <2>3, <2>4 DEF LocalLeave
<1>8. QED
  BY <1>1, <1>2, <1>3, <1>4, <1>5, <1>6, <1>7 DEF Next, Proceed

(* The settings and the faults to expect do not change. *)
LEMMA FaultsFixed == [Next]_vars => Faults' = Faults
  BY DEF Next, Proceed, Tick, Expire, Start, AskShared, RunModel, ReportSuccess, ReportFailure,
     EnterLocal, LeaveLocal, CancelLocal, vars, Faults

(* A probe under way holds the slot, so there is one at a time. *)
LEMMA ProbeStep == TypeOK /\ ProbeInv /\ [Next]_vars => ProbeInv'
<1> SUFFICES ASSUME TypeOK, ProbeInv, [Next]_vars PROVE ProbeInv'
  OBVIOUS
<1>0. /\ \A r \in Requests : ReplicaOf[r] \in Replicas
      /\ \A r \in Requests : LocalProbe(r) => local[ReplicaOf[r]].probe
      /\ \A r, q \in Requests :
           LocalProbe(r) /\ LocalProbe(q) /\ ReplicaOf[r] = ReplicaOf[q] => r = q
  BY StageAssumption DEF ProbeInv, Holds, OneLocalProbe
<1> SUFFICES /\ \A r \in Requests : LocalProbe(r)' => local'[ReplicaOf[r]].probe
             /\ \A r, q \in Requests :
                  LocalProbe(r)' /\ LocalProbe(q)' /\ ReplicaOf[r] = ReplicaOf[q] => r = q
  BY DEF ProbeInv, Holds, OneLocalProbe
<1>1. CASE LocalSame
  BY <1>0, <1>1 DEF LocalSame
<1>2. ASSUME NEW r \in Requests, LocalEnter(r)
      PROVE  /\ \A q \in Requests : LocalProbe(q)' => local'[ReplicaOf[q]].probe
             /\ \A s, q \in Requests :
                  LocalProbe(s)' /\ LocalProbe(q)' /\ ReplicaOf[s] = ReplicaOf[q] => s = q
  BY <1>0, <1>2 DEF LocalEnter
<1>3. ASSUME NEW r \in Requests, LocalLeave(r)
      PROVE  /\ \A q \in Requests : LocalProbe(q)' => local'[ReplicaOf[q]].probe
             /\ \A s, q \in Requests :
                  LocalProbe(s)' /\ LocalProbe(q)' /\ ReplicaOf[s] = ReplicaOf[q] => s = q
  BY <1>0, <1>3 DEF LocalLeave
<1>4. QED
  BY <1>1, <1>2, <1>3, LocalSteps

(* A taken slot belongs to a probe under way, if no call dies untold.      *)
LEMMA SlotStep ==
  ASSUME "fatal" \notin Faults, TypeOK, SlotInv, [Next]_vars
  PROVE  SlotInv'
<1>0. /\ \A r \in Requests : ReplicaOf[r] \in Replicas
      /\ \A p \in Replicas : local[p].probe \in BOOLEAN
  BY StageAssumption DEF TypeOK, BreakerState
<1>1. ProbeInv'
  BY ProbeStep DEF SlotInv
<1>2. ASSUME NEW p \in Replicas, local'[p].probe
      PROVE  \E r \in Requests : LocalProbe(r)' /\ ReplicaOf[r] = p
  <2>1. CASE LocalSame
    BY <1>2, <2>1 DEF LocalSame, SlotInv, Owned
  <2>2. ASSUME NEW r \in Requests, LocalEnter(r)
        PROVE  \E q \in Requests : LocalProbe(q)' /\ ReplicaOf[q] = p
    BY <1>2, <2>2 DEF LocalEnter, SlotInv, Owned
  <2>3. ASSUME NEW r \in Requests, LocalLeave(r)
        PROVE  \E q \in Requests : LocalProbe(q)' /\ ReplicaOf[q] = p
    <3>1. PICK q \in Requests : LocalProbe(q) /\ ReplicaOf[q] = p
      BY <1>0, <1>2, <2>3 DEF LocalLeave, SlotInv, Owned
    <3>2. q # r
      BY <1>0, <1>2, <2>3, <3>1 DEF LocalLeave
    <3>3. QED
      BY <2>3, <3>1, <3>2 DEF LocalLeave
  <2>4. QED
    BY <2>1, <2>2, <2>3, LocalSteps DEF SlotInv
<1>3. QED
  BY <1>1, <1>2 DEF SlotInv, Owned

(* Nothing is probing initially. *)
LEMMA InitSlot == Init => SlotInv
  BY StageAssumption DEF Init, SlotInv, ProbeInv, OneLocalProbe, Holds, Owned, LocalProbe,
     Closed, Brk

(* Whatever fails, is cancelled or arrives late, at most one probe of a    *)
(* replica's own breaker is under way.                                     *)
THEOREM LocalProbeIsExclusive == Spec => []OneLocalProbe
<1>1. Init => TypeOK /\ ProbeInv
  BY InitSlot, BreakerOps DEF SlotInv, Init, TypeOK, Location, Answer
<1>2. TypeOK /\ ProbeInv /\ [Next]_vars => (TypeOK /\ ProbeInv)'
  BY TypeStep, ProbeStep
<1>3. ProbeInv => OneLocalProbe
  BY DEF ProbeInv
<1>4. QED
  BY <1>1, <1>2, <1>3, PTL DEF Spec

(* The own breaker's probe slot is never lost to a cancelled request, a    *)
(* late result or a failed Redis call: a call is shed only while the       *)
(* cooldown runs or a probe is under way.                                  *)
THEOREM LocalShedding == Spec => LocalShedsWithReason
<1> DEFINE Reason(r) ==
      \/ local[ReplicaOf[r]].wait > 0
      \/ \E q \in Requests : LocalProbe(q) /\ ReplicaOf[q] = ReplicaOf[r]
<1> DEFINE Kept == "fatal" \notin Faults => SlotInv
<1>1. TypeOK /\ Kept /\ [Next]_vars => Kept'
  BY SlotStep, FaultsFixed
<1>2. ASSUME TypeOK, KnownInv, Kept, Next, NEW r \in Requests,
             "fatal" \notin Faults, pc[r] = "lock",
             answer'[r] \in {"fallback", "unavailable"}
      PROVE  Reason(r)
  <2>1. answer[r] = "none"
    BY <1>2 DEF KnownInv, Known
  <2>2. EnterLocal(r) \/ answer'[r] \in {answer[r], "none", "cancelled"}
    BY <1>2 DEF TypeOK, Next, Proceed, Tick, Expire, Start, AskShared, RunModel, ReportSuccess,
       ReportFailure, EnterLocal, LeaveLocal, CancelLocal, Return, Await, Goto, Reply
  <2>3. ReplicaOf[r] \in Replicas /\ local[ReplicaOf[r]] \in BreakerState /\ EnterLocal(r)
    BY <1>2, <2>1, <2>2, StageAssumption DEF TypeOK
  <2>4. ~Allows(local[ReplicaOf[r]])
    BY <1>2, <2>1, <2>3 DEF EnterLocal, Goto
  <2>5. local[ReplicaOf[r]].wait > 0 \/ local[ReplicaOf[r]].probe
    BY <2>3, <2>4, BreakerAssumption DEF Allows, TakesProbe, BreakerState
  <2>6. QED
    BY <1>2, <2>3, <2>5 DEF SlotInv, Owned
<1>3. ASSUME TypeOK, KnownInv, Kept, [Next]_vars
      PROVE  [\A r \in Requests :
                /\ "fatal" \notin Faults
                /\ pc[r] = "lock" /\ answer'[r] \in {"fallback", "unavailable"}
                => Reason(r)]_vars
  BY <1>2, <1>3
<1>4. QED
  BY <1>1, <1>3, InitSlot, KnownInvariant, PTL DEF Spec, LocalShedsWithReason

-----------------------------------------------------------------------------
(* The shared breaker's probe slot, when every report arrives.             *)

SharedInv == shared.probe => \E r \in Requests : SharedProbe(r)

(* A step takes the slot for a probe, clears it, or leaves it and whoever  *)
(* may hold it alone.                                                      *)
LEMMA SharedStep ==
  ASSUME Faults \subseteq {"expire"}, TypeOK, SharedInv, [Next]_vars
  PROVE  SharedInv'
<1>0. shared \in BreakerState /\ shared.probe \in BOOLEAN
  BY DEF TypeOK, BreakerState
<1>1. CASE UNCHANGED vars
  BY <1>1 DEF SharedInv, SharedProbe, vars, breakers
<1>2. CASE Tick
  BY <1>0, <1>2, BreakerSlots DEF SharedInv, SharedProbe, Tick
<1>3. CASE Expire
  BY <1>3 DEF SharedInv, Expire, Closed, Brk
<1>4. ASSUME NEW r \in Requests, Start(r) \/ RunModel(r) \/ CancelLocal(r)
      PROVE  SharedInv'
  <2>1. \A q \in Requests : SharedProbe(q) => SharedProbe(q)'
    BY <1>4 DEF TypeOK, Start, RunModel, CancelLocal, Goto, Reply, SharedProbe
  <2>2. shared' = shared
    BY <1>4 DEF Start, RunModel, CancelLocal, breakers
  <2>3. QED
    BY <2>1, <2>2 DEF SharedInv
<1>5. ASSUME NEW r \in Requests, EnterLocal(r) \/ LeaveLocal(r)
      PROVE  SharedInv'
  <2>1. \A q \in Requests : SharedProbe(q) => SharedProbe(q)'
    BY <1>5 DEF TypeOK, EnterLocal, LeaveLocal, Return, Goto, Reply, SharedProbe
  <2>2. shared' = shared
    BY <1>5 DEF EnterLocal, LeaveLocal
  <2>3. QED
    BY <2>1, <2>2 DEF SharedInv
<1>6. ASSUME NEW r \in Requests, AskShared(r) PROVE SharedInv'
  <2>1. /\ shared'.probe = (shared.probe \/ TakesProbe(shared))
        /\ pc' = [pc EXCEPT ![r] = IF Allows(shared) THEN "model" ELSE "idle"]
        /\ probing' = [probing EXCEPT ![r] = pc'[r] = "model" /\ TakesProbe(shared)]
    BY <1>0, <1>6, BreakerSlots DEF AskShared, Await, Goto, Reply
  <2>2. \A q \in Requests : SharedProbe(q) => SharedProbe(q)'
    BY <1>6, <2>1 DEF TypeOK, AskShared, SharedProbe
  <2>3. TakesProbe(shared) => SharedProbe(r)'
    BY <2>1 DEF TypeOK, SharedProbe, Allows
  <2>4. QED
    BY <2>1, <2>2, <2>3 DEF SharedInv
<1>7. ASSUME NEW r \in Requests, ReportSuccess(r) PROVE SharedInv'
  BY <1>7 DEF SharedInv, ReportSuccess, Await, SharedOnSuccess, Closed, Brk
<1>8. ASSUME NEW r \in Requests, ReportFailure(r) PROVE SharedInv'
  <2>1. /\ shared'.probe => shared.probe /\ ~probing[r]
        /\ pc' = [pc EXCEPT ![r] = "idle"] /\ probing' = probing
    BY <1>0, <1>8, BreakerSlots DEF TypeOK, ReportFailure, Await, Reply
  <2>2. \A q \in Requests \ {r} : SharedProbe(q) => SharedProbe(q)'
    BY <2>1 DEF TypeOK, SharedProbe
  <2>3. ~probing[r] => ~SharedProbe(r)
    BY DEF SharedProbe
  <2>4. QED
    BY <2>1, <2>2, <2>3 DEF SharedInv
<1>9. QED
  BY <1>1, <1>2, <1>3, <1>4, <1>5, <1>6, <1>7, <1>8 DEF Next, Proceed

(* When requests are not cancelled and reports reach Redis, late results   *)
(* do not lose the shared breaker's probe slot either: a call is shed only *)
(* while the cooldown runs or a probe is under way.                        *)
THEOREM SharedShedding == Spec => SharedShedsWithReason
<1> DEFINE Reason == shared.wait > 0 \/ \E q \in Requests : SharedProbe(q)
<1> DEFINE Kept == Faults \subseteq {"expire"} => SharedInv
<1>1. TypeOK /\ Kept /\ [Next]_vars => Kept'
  BY SharedStep, FaultsFixed
<1>2. Init => Kept
  BY DEF Init, SharedInv, Closed, Brk
<1>3. ASSUME TypeOK, KnownInv, Kept, Next, NEW r \in Requests,
             Faults \subseteq {"expire"}, pc[r] = "allow",
             answer'[r] \in {"fallback", "unavailable"}
      PROVE  Reason
  <2>1. answer[r] = "none"
    BY <1>3 DEF KnownInv, Known
  <2>2. AskShared(r) \/ answer'[r] \in {answer[r], "none", "cancelled"}
    BY <1>3 DEF TypeOK, Next, Proceed, Tick, Expire, Start, AskShared, RunModel, ReportSuccess,
       ReportFailure, EnterLocal, LeaveLocal, CancelLocal, Return, Await, Goto, Reply
  <2>3. shared \in BreakerState /\ ~Allows(shared)
    BY <1>3, <2>1, <2>2 DEF TypeOK, AskShared, Await, Goto
  <2>4. shared.wait > 0 \/ shared.probe
    BY <2>3, BreakerAssumption DEF Allows, TakesProbe, BreakerState
  <2>5. QED
    BY <1>3, <2>4 DEF SharedInv
<1>4. ASSUME TypeOK, KnownInv, Kept, [Next]_vars
      PROVE  [\A r \in Requests :
                /\ Faults \subseteq {"expire"}
                /\ pc[r] = "allow" /\ answer'[r] \in {"fallback", "unavailable"}
                => Reason]_vars
  BY <1>3, <1>4
<1>5. QED
  BY <1>1, <1>2, <1>4, KnownInvariant, PTL DEF Spec, SharedShedsWithReason

(* Neither breaker loses its probe slot. *)
THEOREM Shedding == Spec => ShedsWithReason
BY LocalShedding, SharedShedding, PTL DEF ShedsWithReason
=============================================================================
