---------------------------- MODULE ServerProofs ----------------------------
(***************************************************************************)
(* Proofs about ApiServer, for any number of requests and slots and under  *)
(* every fault, and about ApiProcess, which implements it.                 *)
(***************************************************************************)
EXTENDS ApiProcess, FiniteSetTheorems, TLAPS

(* The part of TypeOK that does not follow from the counts. *)
Types ==
  /\ faults \in FaultSets
  /\ ready \in BOOLEAN /\ drain \in BOOLEAN /\ late \in BOOLEAN
  /\ active \in Nat /\ free \in Nat
  /\ pc \in [Requests -> Location]
  /\ admitted \in [Requests -> BOOLEAN]
  /\ answer \in [Requests -> {"none", "too_large", "not_ready", "saturated", "body_timeout",
                              "response", "error"}]
  /\ life \in {"serving", "metrics", "drain", "queue", "audit", "store", "stopped"}
  /\ closed \subseteq {"queue", "audit", "store"}

(* A request that has not passed the semaphore holds no slot. *)
Before == \A r \in Requests : pc[r] \in {"new", "waiting"} => ~admitted[r]

Inv == Types /\ Before /\ SlotsExact

-----------------------------------------------------------------------------
LEMMA HoldersFinite == IsFiniteSet(Holders) /\ Cardinality(Holders) \in Nat
  BY ServerAssumption, FS_Subset, FS_CardinalityType DEF Holders

(* What Admit does to the holders and the counts. *)
LEMMA AdmitCounts ==
  ASSUME Inv, NEW r \in Requests, pc[r] \in {"new", "waiting"}, Admit(r)
  PROVE  /\ active' \in Nat /\ free' \in Nat
         /\ active' = Cardinality(Holders') /\ free' + active' = MaxConcurrent
         /\ drain' \in BOOLEAN
         /\ admitted' = [admitted EXCEPT ![r] = TRUE]
         /\ admitted' \in [Requests -> BOOLEAN]
<1>1. Holders' = Holders \cup {r} /\ r \notin Holders
  BY DEF Holders, Admit, Inv, Types, Before
<1>2. Cardinality(Holders') = Cardinality(Holders) + 1
  BY <1>1, HoldersFinite, FS_AddElement
<1> QED
  BY <1>2, HoldersFinite, ServerAssumption DEF Admit, Inv, Types, SlotsExact

(* What release_admission does to them. *)
LEMMA ReleaseCounts ==
  ASSUME Inv, NEW r \in Requests, Release(r)
  PROVE  /\ active' \in Nat /\ free' \in Nat
         /\ active' = Cardinality(Holders') /\ free' + active' = MaxConcurrent
         /\ drain' \in BOOLEAN
         /\ admitted' = [admitted EXCEPT ![r] = FALSE]
         /\ admitted' \in [Requests -> BOOLEAN]
<1>1. CASE admitted[r]
  <2>1. Holders' = Holders \ {r} /\ r \in Holders
    BY <1>1 DEF Holders, Release, Inv, Types
  <2>2. Cardinality(Holders') = Cardinality(Holders) - 1
    BY <2>1, HoldersFinite, FS_RemoveElement
  <2>3. Cardinality(Holders) > 0
    BY <2>1, HoldersFinite, FS_EmptySet
  <2>4. /\ active' = active - 1 /\ free' = free + 1 /\ drain' \in BOOLEAN
        /\ admitted' = [admitted EXCEPT ![r] = FALSE]
    BY <1>1, <2>3, HoldersFinite DEF Release, Inv, Types, SlotsExact
  <2> QED
    BY <2>2, <2>3, <2>4, HoldersFinite, ServerAssumption DEF Inv, Types, SlotsExact
<1>2. CASE ~admitted[r]
  <2>1. UNCHANGED <<admitted, active, drain, free>>
    BY <1>2 DEF Release, counts
  <2>2. admitted' = [admitted EXCEPT ![r] = FALSE]
    BY <1>2, <2>1 DEF Inv, Types
  <2> QED
    BY <2>1, <2>2 DEF Inv, Types, SlotsExact, Holders
<1> QED  BY <1>1, <1>2

(* A step that leaves the slots alone. *)
LEMMA SameSlots ==
  ASSUME Inv, UNCHANGED <<admitted, active, drain, free>>
  PROVE  /\ active' \in Nat /\ free' \in Nat
         /\ active' = Cardinality(Holders') /\ free' + active' = MaxConcurrent
         /\ drain' \in BOOLEAN
         /\ admitted' \in [Requests -> BOOLEAN]
  BY DEF Inv, Types, SlotsExact, Holders

-----------------------------------------------------------------------------
LEMMA RequestStep ==
  ASSUME Inv, NEW r \in Requests, Arrive(r) \/ Proceed(r)
  PROVE  Inv'
<1> USE DEF Inv
<1>0. /\ UNCHANGED <<faults, ready, life, late, closed>>
  BY DEF Arrive, Proceed, Acquire, ReadBody, BodyErrors, Handle, Send, server
<1>1. CASE /\ pc[r] \in {"new", "waiting"} /\ Admit(r)
  <2>1. pc' = [pc EXCEPT ![r] = "body"] /\ UNCHANGED answer
    BY <1>1 DEF Admit, Goto
  <2> QED
    BY <1>0, <1>1, <2>1, AdmitCounts DEF Types, Before, SlotsExact, Location, Deferred
<1>2. CASE /\ UNCHANGED <<admitted, active, drain, free>>
           /\ \E l \in Location : /\ pc' = [pc EXCEPT ![r] = l]
                                  /\ l \in {"new", "waiting"} => pc[r] \in {"new", "waiting"}
                                  /\ l \in {"body", "handler"} \cup Deferred
                                       => pc[r] \in {"body", "handler"} \cup Deferred
           /\ answer' \in [Requests -> {"none", "too_large", "not_ready", "saturated",
                                        "body_timeout", "response", "error"}]
  <2>1. PICK l \in Location : /\ pc' = [pc EXCEPT ![r] = l]
                              /\ l \in {"new", "waiting"} => pc[r] \in {"new", "waiting"}
                              /\ l \in {"body", "handler"} \cup Deferred
                                   => pc[r] \in {"body", "handler"} \cup Deferred
    BY <1>2
  <2> QED
    BY <1>0, <1>2, <2>1, SameSlots DEF Types, Before, SlotsExact
<1>3. CASE /\ Release(r)
           /\ \E l \in {"over", "gone"} : pc' = [pc EXCEPT ![r] = l]
           /\ answer' \in [Requests -> {"none", "too_large", "not_ready", "saturated",
                                        "body_timeout", "response", "error"}]
  <2>1. PICK l \in {"over", "gone"} : pc' = [pc EXCEPT ![r] = l]
    BY <1>3
  <2>2. /\ active' \in Nat /\ free' \in Nat /\ drain' \in BOOLEAN
        /\ active' = Cardinality(Holders') /\ free' + active' = MaxConcurrent
        /\ admitted' = [admitted EXCEPT ![r] = FALSE] /\ admitted' \in [Requests -> BOOLEAN]
    BY <1>3, ReleaseCounts
  <2>3. Types'
    BY <1>0, <1>3, <2>1, <2>2 DEF Types, Location
  <2>4. Before'
    BY <2>1, <2>2 DEF Types, Before
  <2>5. SlotsExact'
    BY <2>1, <2>2 DEF Types, SlotsExact, Deferred
  <2> QED  BY <2>3, <2>4, <2>5
<1>4. CASE Arrive(r)
  BY <1>4, <1>1, <1>2 DEF Arrive, Turned, Goto, Reply, counts, Types, Location, Deferred
<1>5. CASE Acquire(r)
  BY <1>5, <1>1, <1>2 DEF Acquire, Turned, Goto, Reply, counts, Types, Location, Deferred
<1>6. CASE ReadBody(r)
  BY <1>6, <1>2, <1>3 DEF ReadBody, BodyErrors, Goto, Reply, counts, Types, Location, Deferred
<1>7. CASE Handle(r)
  BY <1>7, <1>2, <1>3 DEF Handle, Goto, Reply, counts, Types, Location, Deferred
<1>8. CASE Send(r)
  BY <1>8, <1>2, <1>3 DEF Send, Goto, Reply, counts, Types, Location, Deferred
<1> QED
  BY <1>4, <1>5, <1>6, <1>7, <1>8 DEF Proceed

LEMMA TeardownStep ==
  ASSUME Inv, Shutdown \/ Teardown \/ Deadline \/ UNCHANGED vars
  PROVE  Inv'
<1>1. /\ UNCHANGED <<faults, admitted, active, drain, free, pc, answer>>
      /\ ready' \in BOOLEAN /\ late' \in BOOLEAN
      /\ life' \in {"serving", "metrics", "drain", "queue", "audit", "store", "stopped"}
      /\ closed' \subseteq {"queue", "audit", "store"}
  <2> USE DEF Inv, Types, counts
  <2>1. CASE Shutdown \/ MetricsEnd \/ AwaitDrain \/ Deadline
    BY <2>1 DEF Shutdown, MetricsEnd, AwaitDrain, Deadline
  <2>2. CASE CloseComponent
    <3>1. life \in {"queue", "audit", "store"} /\ life' \in {"audit", "store", "stopped"}
      BY <2>2 DEF CloseComponent, After
    <3> QED
      BY <2>2, <3>1 DEF CloseComponent
  <2>3. CASE UNCHANGED vars
    BY <2>3 DEF vars, server
  <2> QED  BY <2>1, <2>2, <2>3 DEF Teardown
<1>2. /\ active' \in Nat /\ free' \in Nat /\ drain' \in BOOLEAN
      /\ active' = Cardinality(Holders') /\ free' + active' = MaxConcurrent
      /\ admitted' \in [Requests -> BOOLEAN]
  BY <1>1, SameSlots
<1>3. Types'
  <2>1. Types
    BY DEF Inv
  <2> QED  BY <1>1, <1>2, <2>1 DEF Types
<1>4. Before' /\ SlotsExact'
  BY <1>1, <1>2 DEF Inv, Before, SlotsExact
<1> QED  BY <1>3, <1>4 DEF Inv

LEMMA InitInv == Init => Inv
<1> SUFFICES ASSUME Init PROVE Inv  OBVIOUS
<1>1. Holders = {}
  BY DEF Init, Holders
<1>2. Cardinality(Holders) = 0
  BY <1>1, FS_EmptySet
<1>3. Types
  BY ServerAssumption DEF Init, Types, Location
<1>4. Before /\ SlotsExact
  BY <1>2, ServerAssumption DEF Init, Before, SlotsExact, Deferred
<1> QED  BY <1>3, <1>4 DEF Inv

LEMMA Invariant == Spec => []Inv
<1>1. Inv /\ [Next]_vars => Inv'
  BY RequestStep, TeardownStep DEF Next
<1> QED
  BY InitInv, <1>1, PTL DEF Spec

(* The slots: the semaphore, active_requests and the requests that hold a  *)
(* slot agree whatever way each request ends (request_context and          *)
(* release_admission), so that at most MaxConcurrent hold one.             *)
THEOREM SlotsAreExact == Spec => []SlotsExact
<1>1. Inv => SlotsExact
  BY DEF Inv
<1> QED
  BY Invariant, <1>1, PTL

(* Every variable keeps its type; the semaphore stays within 0 and its     *)
(* initial value (request_context, teardown_state).                        *)
THEOREM ServerTypes == Spec => []TypeOK
<1>1. Inv => TypeOK
  BY ServerAssumption DEF Inv, Types, SlotsExact, TypeOK
<1> QED
  BY Invariant, <1>1, PTL

-----------------------------------------------------------------------------
(* Nothing is closed before readiness is dropped, and where the lifespan   *)
(* waits for its requests none is in progress from then on: those that     *)
(* arrive are turned away.                                                 *)
Quiesced ==
  /\ life = "serving" => ready /\ closed = {}
  /\ life # "serving" => ~ready
  /\ "early" \notin faults /\ ~ready => \A r \in Requests : ~InProgress(r)

LEMMA QuiescedStep == Inv /\ Quiesced /\ [Next]_vars => Quiesced'
<1> SUFFICES ASSUME Inv, Quiesced, [Next]_vars PROVE Quiesced'
  OBVIOUS
<1>1. CASE Shutdown
  BY <1>1 DEF Shutdown, Quiesced, InProgress
<1>2. CASE MetricsEnd \/ AwaitDrain \/ Deadline
  BY <1>2 DEF MetricsEnd, AwaitDrain, Drained, Deadline, Quiesced, InProgress
<1>3. CASE CloseComponent
  <2>1. life \in {"queue", "audit", "store"} /\ life' \in {"audit", "store", "stopped"}
    BY <1>3 DEF CloseComponent, After
  <2> QED
    BY <1>3, <2>1 DEF CloseComponent, Quiesced, InProgress
<1>4. CASE \E r \in Requests : Arrive(r) \/ Proceed(r)
  <2>1. PICK r \in Requests : Arrive(r) \/ Proceed(r)
    BY <1>4
  <2>2. UNCHANGED <<faults, ready, life, closed>>
    BY <2>1 DEF Arrive, Proceed, Acquire, ReadBody, BodyErrors, Handle, Send, server
  <2>3. \A q \in Requests \ {r} : pc'[q] = pc[q]
    BY <2>1 DEF Arrive, Proceed, Acquire, ReadBody, BodyErrors, Handle, Send, Turned, Admit, Goto, Inv, Types
  <2>4. CASE Proceed(r)
    <3>1. InProgress(r)
      BY <2>4 DEF Proceed, Acquire, ReadBody, BodyErrors, Handle, Send, InProgress, Deferred
    <3> QED  BY <2>2, <3>1 DEF Quiesced
  <2>5. CASE Arrive(r)
    <3>1. ~ready => pc' = [pc EXCEPT ![r] = "over"]
      BY <2>5 DEF Arrive, Turned, Goto
    <3> QED
      BY <2>2, <2>3, <3>1 DEF Quiesced, InProgress, Inv, Types
  <2> QED  BY <2>1, <2>4, <2>5
<1>5. CASE UNCHANGED vars
  BY <1>5 DEF vars, server, Quiesced, InProgress
<1> QED
  BY <1>1, <1>2, <1>3, <1>4, <1>5 DEF Next, Teardown

(* No request is in its body or handler once a dependency is closed, where *)
(* the lifespan ends after its requests (teardown_state and the readiness  *)
(* check of request_context).                                              *)
THEOREM NothingRunsAfterClose == Spec => []NothingRunsClosed
<1>1. Init => Quiesced
  BY DEF Init, Quiesced
<1>2. Quiesced => NothingRunsClosed
  BY DEF Quiesced, NothingRunsClosed, InProgress
<1> QED
  BY Invariant, <1>1, QuiescedStep, <1>2, PTL DEF Spec

-----------------------------------------------------------------------------
(* ApiProcess adds the Redis task and the probes to ApiServer.             *)

(* Each step of a process is one of the server or leaves it alone. *)
LEMMA ProcessStep == [ProcessNext]_all => [Next]_vars
<1> SUFFICES ASSUME [ProcessNext]_all PROVE [Next]_vars
  OBVIOUS
<1>1. CASE Readyz
  BY <1>1 DEF Readyz
<1>2. CASE EndProcess
  BY <1>2 DEF EndProcess, EndMetrics, EndQueue, EndStore, EndOther, Next, Teardown
<1>3. CASE Refresh
  BY <1>3 DEF Refresh
<1>4. CASE \E r \in Requests : Serve(r) \/ (Arrive(r) /\ UNCHANGED link)
  BY <1>4 DEF Serve, Next
<1>5. CASE (Shutdown \/ Deadline) /\ UNCHANGED link
  BY <1>5 DEF Next
<1>6. CASE Link!Outage /\ UNCHANGED vars
  BY <1>6
<1>7. CASE UNCHANGED all
  BY <1>7 DEF all
<1> QED
  BY <1>1, <1>2, <1>3, <1>4, <1>5, <1>6, <1>7 DEF ProcessNext, ServerNext

(* A process with its Redis task and its probes admits, releases and tears *)
(* down as ApiServer says, so what is proved of that holds of the process  *)
(* (lifespan, refresh_job_metrics, readyz).                                *)
THEOREM ProcessImplementsServer == Process => Spec
<1>1. ProcessInit => Init
  BY DEF ProcessInit
<1> QED
  BY <1>1, ProcessStep, PTL DEF Process, Spec

(* Teardown closes a component only after it has ended the task, which is  *)
(* not started again.                                                      *)
Ended ==
  /\ life \notin {"serving", "metrics"} => task = "gone"
  /\ closed # {} => life \in {"audit", "store", "stopped"}

LEMMA ClosedStep ==
  ASSUME Inv, Ended, StaysClosed, [ProcessNext]_all
  PROVE  Ended' /\ StaysClosed'
<1>1. CASE Readyz \/ UNCHANGED all
  BY <1>1 DEF Readyz, all, vars, server, link, Ended, StaysClosed
<1>2. CASE EndMetrics
  BY <1>2 DEF EndMetrics, MetricsEnd, Link!CancelTask, Ended, StaysClosed
<1>3. CASE CloseComponent /\ (EndQueue \/ EndStore \/ EndOther)
  <2>1. /\ life \in {"queue", "audit", "store"} /\ life' \in {"audit", "store", "stopped"}
        /\ closed' = closed \/ closed' = closed \cup {life}
    BY <1>3 DEF CloseComponent, After
  <2>2. task = "gone"
    BY <2>1 DEF Ended
  <2>3. CASE EndQueue
    BY <2>1, <2>2, <2>3 DEF EndQueue, Link!CloseQueue, Ended, StaysClosed
  <2>4. CASE EndStore
    BY <2>1, <2>2, <2>4 DEF EndStore, Link!StopStore, Ended, StaysClosed
  <2>5. CASE closed' \ closed \subseteq {"audit"} /\ UNCHANGED link
    BY <2>1, <2>2, <2>5 DEF link, Ended, StaysClosed
  <2>6. ~AwaitDrain
    BY <2>1 DEF AwaitDrain, Drained
  <2> QED
    BY <1>3, <2>3, <2>4, <2>5, <2>6 DEF EndOther
<1>4. CASE AwaitDrain /\ UNCHANGED link
  BY <1>4 DEF AwaitDrain, Drained, link, Ended, StaysClosed
<1>5. CASE Refresh
  <2>1. task # "gone"
    BY <1>5 DEF Refresh, Link!Refresh, Link!Wake, Link!Ping, Link!Stop, Link!Unqueue, Link!CreateQueue
  <2>2. UNCHANGED <<life, closed>> /\ life \in {"serving", "metrics"} /\ closed = {}
    BY <1>5, <2>1 DEF Refresh, vars, server, Ended
  <2> QED  BY <2>2 DEF Ended, StaysClosed
<1>6. CASE \E r \in Requests : Serve(r) \/ (Arrive(r) /\ UNCHANGED link)
  <2>1. UNCHANGED <<life, closed, task, queue, client>>
    BY <1>6 DEF Serve, link, Arrive, Proceed, Acquire, ReadBody, Handle, Send, server
  <2> QED  BY <2>1 DEF Ended, StaysClosed
<1>7. CASE (Shutdown \/ Deadline) /\ UNCHANGED link
  BY <1>7 DEF Shutdown, Deadline, link, Ended, StaysClosed
<1>8. CASE Link!Outage /\ UNCHANGED vars
  BY <1>8 DEF Link!Outage, vars, server, Ended, StaysClosed
<1> QED
  BY <1>1, <1>2, <1>3, <1>4, <1>5, <1>6, <1>7, <1>8
     DEF ProcessNext, ServerNext, EndProcess, EndQueue, EndStore, EndOther

(* A pool or client that teardown has closed is never opened again: the    *)
(* task that would is gone first (teardown_state, refresh_job_metrics).    *)
THEOREM ClosedStaysClosed == Process => []StaysClosed
<1>1. ProcessInit => Ended /\ StaysClosed
  BY DEF ProcessInit, Init, Ended, StaysClosed
<1>2. Inv /\ Ended /\ StaysClosed /\ [ProcessNext]_all => Ended' /\ StaysClosed'
  BY ClosedStep
<1> QED
  BY <1>1, <1>2, Invariant, ProcessImplementsServer, PTL DEF Process

(* A probe never says ready of a process that teardown has reached, also   *)
(* when teardown overtakes its ping: ready is read after it (readyz).      *)
THEOREM ProbesAreHonest == Process => ReadyIsHonest
<1>1. Quiesced /\ [ProcessNext]_all
        => [probe # "ready" /\ probe' = "ready" => life = "serving" /\ closed = {}]_all
  <2> SUFFICES ASSUME Quiesced, ProcessNext, probe # "ready", probe' = "ready"
               PROVE  life = "serving" /\ closed = {}
    OBVIOUS
  <2>1. Readyz
    BY DEF ProcessNext, probing
  <2>2. ready
    BY <2>1 DEF Readyz, Probe, Pinged, Readiness
  <2> QED  BY <2>2 DEF Quiesced
<1>2. Init => Quiesced
  BY DEF Init, Quiesced
<1>3. Spec => []Quiesced
  BY <1>2, Invariant, QuiescedStep, PTL DEF Spec
<1> QED
  BY <1>1, <1>3, ProcessImplementsServer, PTL DEF Process, ReadyIsHonest
=============================================================================
