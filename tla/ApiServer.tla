----------------------------- MODULE ApiServer ------------------------------
(***************************************************************************)
(* One API process: admission of requests in request_context               *)
(* (app/middleware.py) and teardown_state (app/main.py), which share       *)
(* ready, active_requests, drain_event and the admission semaphore.        *)
(*                                                                         *)
(* A request is cut at every await.  Health probes, which pass admission   *)
(* by, are left out, and what a handler does is in the other modules.  The *)
(* ASGI server is external: it ends the lifespan once the requests in      *)
(* progress have ended, as uvicorn does, unless "early" lets it do so      *)
(* before.  Waiters of the semaphore are served in any order.              *)
(***************************************************************************)
EXTENDS Naturals, FiniteSets

CONSTANTS
  Requests,
  MaxConcurrent,   \* settings.max_concurrent_requests
  FaultSets        \* what may go wrong in a behaviour: one of these

FaultKinds ==
  {"early",    \* the lifespan ends with requests in progress
   "abort",    \* sending a response fails, or the task is cancelled in it
   "hang"}     \* teardown runs out of shutdown_timeout_seconds

ASSUME ServerAssumption ==
  /\ IsFiniteSet(Requests)
  /\ MaxConcurrent \in Nat \ {0}
  /\ FaultSets \subseteq SUBSET FaultKinds

VARIABLES
  ready,     \* State.ready
  active,    \* State.active_requests
  drain,     \* State.drain_event is set
  free,      \* value of State.request_admission
  pc,        \* where each request is
  admitted,  \* its admitted flag
  answer,
  life,      \* how far teardown_state is
  late,      \* its deadline has passed
  closed,    \* the components it has closed
  faults     \* the member of FaultSets chosen at the start

server == <<life, late, closed>>
counts == <<active, drain, free>>
vars == <<faults, ready, counts, pc, admitted, answer, server>>

(* "iterator" and "background" are the two ways release_admission is       *)
(* deferred to the end of the response; "gone" is a response whose sending *)
(* was aborted.                                                            *)
Deferred == {"iterator", "background"}
Location == {"new", "waiting", "body", "handler", "gone", "over"} \cup Deferred
InProgress(r) == pc[r] \notin {"new", "gone", "over"}

Init ==
  /\ faults \in FaultSets
  /\ ready = TRUE
  /\ active = 0 /\ drain = FALSE /\ free = MaxConcurrent
  /\ pc = [r \in Requests |-> "new"]
  /\ admitted = [r \in Requests |-> FALSE]
  /\ answer = [r \in Requests |-> "none"]
  /\ life = "serving" /\ late = FALSE /\ closed = {}

Goto(r, l) == pc' = [pc EXCEPT ![r] = l]
Reply(r, a) == answer' = [answer EXCEPT ![r] = a]

(* release_admission, which runs at most once per request. *)
Release(r) ==
  IF admitted[r]
  THEN /\ admitted' = [admitted EXCEPT ![r] = FALSE]
       /\ active' = IF active > 0 THEN active - 1 ELSE 0
       /\ drain' = (drain \/ active' = 0)
       /\ free' = free + 1
  ELSE UNCHANGED <<admitted, counts>>

-----------------------------------------------------------------------------
(* The semaphore is taken, active_requests counted. *)
Admit(r) ==
  /\ free > 0
  /\ free' = free - 1 /\ active' = active + 1 /\ UNCHANGED drain
  /\ admitted' = [admitted EXCEPT ![r] = TRUE]
  /\ Goto(r, "body") /\ UNCHANGED answer

(* The checks before the first await: declared size, readiness, and a free *)
(* slot, else the request waits for one.                                   *)
Contended == free = 0 \/ \E q \in Requests : pc[q] = "waiting"
Turned(r, a) == Goto(r, "over") /\ Reply(r, a) /\ UNCHANGED <<admitted, counts>>
BugArrive(r) ==
  /\ pc[r] = "new"
  /\ \/ Turned(r, "too_large")
     \/ ~Contended /\ Admit(r)
     \/ Contended /\ Goto(r, "waiting") /\ UNCHANGED <<admitted, counts, answer>>
  /\ UNCHANGED <<faults, ready, server>>
Arrive(r) ==
  /\ pc[r] = "new"
  /\ \/ Turned(r, "too_large")
     \/ ~ready /\ Turned(r, "not_ready")
     \/ ready /\ ~Contended /\ Admit(r)
     \/ ready /\ Contended /\ Goto(r, "waiting") /\ UNCHANGED <<admitted, counts, answer>>
  /\ UNCHANGED <<faults, ready, server>>

(* The end of the wait; readiness is not looked at again. *)
Acquire(r) ==
  /\ pc[r] = "waiting"
  /\ Admit(r) \/ Turned(r, "saturated")
  /\ UNCHANGED <<faults, ready, server>>

(* What read_bounded_body raises: the body is too large or too slow.       *)
BodyErrors == {"too_large", "body_timeout"}
ReadBody(r) ==
  /\ pc[r] = "body"
  /\ \/ Goto(r, "handler") /\ UNCHANGED <<admitted, counts, answer>>
     \/ \E a \in BodyErrors : Goto(r, "over") /\ Reply(r, a) /\ Release(r)
  /\ UNCHANGED <<faults, ready, server>>

(* call_next: a response, whose end will release the slot, or an exception *)
(* that passes the finally clause.                                         *)
BugHandleReleasesTwice(r) ==
  /\ pc[r] = "handler"
  /\ \/ \E l \in Deferred : Goto(r, l) /\ Reply(r, "response") /\ Release(r)
     \/ Goto(r, "over") /\ Reply(r, "error") /\ Release(r)
  /\ UNCHANGED <<faults, ready, server>>
BugHandle(r) ==
  /\ pc[r] = "handler"
  /\ \/ \E l \in Deferred : Goto(r, l) /\ Reply(r, "response") /\ UNCHANGED <<admitted, counts>>
     \/ Goto(r, "over") /\ Reply(r, "error") /\ UNCHANGED <<admitted, counts>>
  /\ UNCHANGED <<faults, ready, server>>
Handle(r) ==
  /\ pc[r] = "handler"
  /\ \/ \E l \in Deferred : Goto(r, l) /\ Reply(r, "response") /\ UNCHANGED <<admitted, counts>>
     \/ Goto(r, "over") /\ Reply(r, "error") /\ Release(r)
  /\ UNCHANGED <<faults, ready, server>>

(* The body is sent.  An aborted iterator is closed, a background task     *)
(* that was not reached is not run.                                        *)
Send(r) ==
  /\ pc[r] \in Deferred
  /\ \/ Goto(r, "over") /\ Release(r)
     \/ "abort" \in faults /\ pc[r] = "iterator" /\ Goto(r, "gone") /\ Release(r)
     \/ "abort" \in faults /\ pc[r] = "background" /\ Goto(r, "gone") /\ UNCHANGED <<admitted, counts>>
  /\ UNCHANGED <<faults, ready, answer, server>>

-----------------------------------------------------------------------------
(* teardown_state. *)
Shutdown ==
  /\ life = "serving"
  /\ "early" \in faults \/ \A r \in Requests : ~InProgress(r)
  /\ ready' = FALSE
  /\ life' = "metrics"
  /\ UNCHANGED <<faults, counts, pc, admitted, answer, late, closed>>

(* The metrics task is cancelled and awaited, then active_requests read.   *)
MetricsEnd ==
  /\ life = "metrics"
  /\ life' = IF active > 0 THEN "drain" ELSE "queue"
  /\ UNCHANGED <<faults, ready, counts, pc, admitted, answer, late, closed>>

BugDrained == life = "drain" /\ drain
Drained == life = "drain" /\ (drain \/ late)
AwaitDrain ==
  /\ Drained
  /\ life' = "queue"
  /\ UNCHANGED <<faults, ready, counts, pc, admitted, answer, late, closed>>

(* close_component for the queue, the audit backend and the job store: out *)
(* of time it is skipped, and a close that hangs or fails is given up.     *)
After == [queue |-> "audit", audit |-> "store", store |-> "stopped"]
CloseComponent ==
  /\ life \in DOMAIN After
  /\ life' = After[life]
  /\ \/ ~late /\ closed' = closed \cup {life}
     \/ UNCHANGED closed
  /\ UNCHANGED <<faults, ready, counts, pc, admitted, answer, late>>

Deadline ==
  /\ "hang" \in faults /\ life \notin {"serving", "stopped"} /\ ~late
  /\ late' = TRUE
  /\ UNCHANGED <<faults, ready, counts, pc, admitted, answer, life, closed>>

Proceed(r) == Acquire(r) \/ ReadBody(r) \/ Handle(r) \/ Send(r)
Teardown == MetricsEnd \/ AwaitDrain \/ CloseComponent
Next == Shutdown \/ Teardown \/ Deadline \/ \E r \in Requests : Arrive(r) \/ Proceed(r)

Spec == Init /\ [][Next]_vars

-----------------------------------------------------------------------------
TypeOK ==
  /\ faults \in FaultSets
  /\ ready \in BOOLEAN /\ drain \in BOOLEAN /\ late \in BOOLEAN
  /\ active \in Nat /\ free \in 0..MaxConcurrent
  /\ pc \in [Requests -> Location]
  /\ admitted \in [Requests -> BOOLEAN]
  /\ answer \in [Requests -> {"none", "too_large", "not_ready", "saturated", "body_timeout",
                              "response", "error"}]
  /\ life \in {"serving", "metrics", "drain", "queue", "audit", "store", "stopped"}
  /\ closed \subseteq {"queue", "audit", "store"}

-----------------------------------------------------------------------------
(* Properties.                                                             *)

(* The semaphore and active_requests agree with the requests that hold a   *)
(* slot, through every way a request can end, so that no more than         *)
(* MaxConcurrent are ever between admission and the end of their response  *)
(* (release_admission).                                                    *)
Holders == {r \in Requests : admitted[r]}
SlotsExact ==
  /\ active = Cardinality(Holders)
  /\ free + active = MaxConcurrent
  /\ \A r \in Requests : pc[r] \in {"body", "handler"} \cup Deferred => admitted[r]

(* No request is in its handler once a dependency has been closed          *)
(* (teardown_state, and the readiness check before admission), as long as  *)
(* the server ends the lifespan after its requests: drain_event is set by  *)
(* any idle moment and never cleared, so teardown alone does not wait.     *)
NothingRunsClosed ==
  "early" \in faults \/ closed = {} \/ \A r \in Requests : pc[r] \notin {"body", "handler"}

(* A slot that was taken is given back (request_context), unless the       *)
(* response is aborted before the background task that releases it.        *)
SlotIsReleased == ("abort" \notin faults) => \A r \in Requests : admitted[r] ~> ~admitted[r]

(* Teardown ends, by its deadline if need be, whatever requests and closes *)
(* do (teardown_state).                                                    *)
TeardownEnds == (life # "serving") ~> (life = "stopped")

=============================================================================
