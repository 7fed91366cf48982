----------------------------- MODULE ModelStage -----------------------------
(***************************************************************************)
(* Pipeline.__call__ of app/redaction/pipeline.py: requests on several API *)
(* replicas run the model behind the Redis-coordinated breaker, with the   *)
(* replica's own breaker as fallback, or behind that one alone when no     *)
(* shared breaker is configured.                                           *)
(*                                                                         *)
(* A request is cut at every await.  A Redis call can raise one of the     *)
(* exceptions that model_stage_stage catches ("os") or a RedisError, which *)
(* it does not ("redis"), before or after it took effect, or be repeated   *)
(* by the client after a timeout ("resend", retry_on_timeout).  "cancel"   *)
(* is the request deadline, or a client that disconnects: asyncio cancels  *)
(* the coroutine, but not a thread that already runs.  "fatal" is an       *)
(* exception outside the breaker's transient_predicate, and "expire" lets  *)
(* the hash reach its TTL.  The regex gate is reduced to whether it found  *)
(* a span; a request slot is used again and again.  The settings, and what *)
(* may go wrong, are chosen when a behaviour starts.                       *)
(***************************************************************************)
EXTENDS CircuitBreaker, FiniteSets

CONSTANTS
  Replicas,      \* API processes
  Requests,      \* concurrent request slots
  ReplicaOf,     \* the replica a slot is on
  Setups         \* settings, and the faults to expect under them

FaultKinds == {"os", "redis", "resend", "cancel", "fatal", "expire"}

ASSUME StageAssumption ==
  /\ ReplicaOf \in [Requests -> Replicas]
  /\ \A s \in Setups : s.shared \in BOOLEAN /\ s.faults \subseteq FaultKinds

VARIABLES
  setup,     \* the member of Setups in force
  local,     \* each replica's Breaker
  shared,    \* the SharedBreaker hash
  pc,        \* where each request is
  probing,   \* its is_probe / was_probe
  model,     \* what came of its model call
  hits,      \* whether the regex gate found a span
  answer     \* how the last request of the slot was answered

breakers == <<local, shared>>
vars == <<setup, breakers, pc, probing, model, hits, answer>>

UseShared == setup.shared    \* shared_model_breaker is not None
Faults == setup.faults

(* "thread": a model call whose request was cancelled. *)
Location == {"idle", "allow", "model", "success", "failure", "lock", "call", "thread"}
(* The model raised a transient error, a ValueError, or an error that no    *)
(* except clause of model_stage_stage names.                                *)
Raised == {"transient", "value", "other"}
Answer == {"none", "full", "fallback", "unavailable", "error", "cancelled"}

Init ==
  /\ setup \in Setups
  /\ local = [p \in Replicas |-> Closed]
  /\ shared = Closed
  /\ pc = [r \in Requests |-> "idle"]
  /\ probing = [r \in Requests |-> FALSE]
  /\ model = [r \in Requests |-> "unrun"]
  /\ hits = [r \in Requests |-> FALSE]
  /\ answer = [r \in Requests |-> "none"]

Goto(r, l) == pc' = [pc EXCEPT ![r] = l] /\ UNCHANGED answer

Reply(r, a) ==
  /\ pc' = [pc EXCEPT ![r] = "idle"]
  /\ answer' = [answer EXCEPT ![r] = a]

(* circuit_open is set: regex spans alone, or PipelineUnavailableError.     *)
BugOpenAnswer(r) == "fallback"
OpenAnswer(r) == IF hits[r] THEN "fallback" ELSE "unavailable"

(* The except clauses of model_stage_stage on what the model raised.        *)
FailedAnswer(r, x) == IF x \in {"transient", "value"} THEN OpenAnswer(r) ELSE "error"

(* One await of a Redis script. *)
Await(Effect, Done, Caught, r) ==
  \/ Effect /\ Done
  \/ "os" \in Faults /\ (Effect \/ UNCHANGED shared) /\ Caught
  \/ "redis" \in Faults /\ (Effect \/ UNCHANGED shared) /\ Reply(r, "error")
  \/ "cancel" \in Faults /\ (Effect \/ UNCHANGED shared) /\ Reply(r, "cancelled")

-----------------------------------------------------------------------------
(* The regex gate, then the choice of breaker. *)
Start(r) ==
  /\ pc[r] = "idle"
  /\ \E h \in BOOLEAN : hits' = [hits EXCEPT ![r] = h]
  /\ probing' = [probing EXCEPT ![r] = FALSE]
  /\ model' = [model EXCEPT ![r] = "unrun"]
  /\ pc' = [pc EXCEPT ![r] = IF UseShared THEN "allow" ELSE "lock"]
  /\ answer' = [answer EXCEPT ![r] = "none"]
  /\ UNCHANGED <<setup, breakers>>

(* shared_model_breaker.allow. *)
AskShared(r) ==
  /\ pc[r] = "allow"
  /\ \/ Await(shared' = AfterAllow(shared),
              IF Allows(shared) THEN Goto(r, "model") ELSE Reply(r, OpenAnswer(r)),
              Goto(r, "lock"), r)
     \/ /\ "resend" \in Faults
        /\ shared' = AfterAllow(shared)
        /\ IF Allows(AfterAllow(shared)) THEN Goto(r, "model") ELSE Reply(r, OpenAnswer(r))
  /\ probing' = [probing EXCEPT ![r] = pc'[r] = "model" /\ TakesProbe(shared)]
  /\ UNCHANGED <<setup, local, model, hits>>

(* The model on a thread, the outcome still to be reported to the shared   *)
(* breaker.  A cancelled request reports nothing.                          *)
RunModel(r) ==
  /\ pc[r] = "model"
  /\ \/ Goto(r, "success") /\ model' = [model EXCEPT ![r] = "returned"]
     \/ Goto(r, "failure") /\ \E x \in Raised : model' = [model EXCEPT ![r] = x]
     \/ "fatal" \in Faults /\ Reply(r, "error") /\ model' = [model EXCEPT ![r] = "other"]
     \/ "cancel" \in Faults /\ Reply(r, "cancelled") /\ UNCHANGED model
  /\ UNCHANGED <<setup, breakers, probing, hits>>

(* shared_model_breaker.success. *)
ReportSuccess(r) ==
  /\ pc[r] = "success"
  /\ Await(shared' = SharedOnSuccess, Reply(r, "full"), Reply(r, "full"), r)
  /\ UNCHANGED <<setup, local, probing, model, hits>>

(* shared_model_breaker.failure, then the model's exception again. *)
ReportFailure(r) ==
  /\ pc[r] = "failure"
  /\ \/ Await(shared' = SharedOnFailure(shared, probing[r]),
              Reply(r, FailedAnswer(r, model[r])), Reply(r, FailedAnswer(r, model[r])), r)
     \/ /\ "resend" \in Faults
        /\ shared' = SharedOnFailure(SharedOnFailure(shared, probing[r]), probing[r])
        /\ Reply(r, FailedAnswer(r, model[r]))
  /\ UNCHANGED <<setup, local, probing, model, hits>>

(* Breaker.call up to the release of its lock. *)
EnterLocal(r) ==
  LET p == ReplicaOf[r] IN
  /\ pc[r] = "lock"
  /\ local' = [local EXCEPT ![p] = AfterAllow(@)]
  /\ IF Allows(local[p])
     THEN probing' = [probing EXCEPT ![r] = TakesProbe(local[p])] /\ Goto(r, "call")
     ELSE UNCHANGED probing /\ Reply(r, OpenAnswer(r))
  /\ UNCHANGED <<setup, shared, model, hits>>

(* The rest of Breaker.call, and its caller unless that was cancelled.     *)
Return(r, a) == IF pc[r] = "thread" THEN Reply(r, "cancelled") ELSE Reply(r, a)
LeaveLocal(r) ==
  LET p == ReplicaOf[r] IN
  /\ pc[r] \in {"call", "thread"}
  /\ \/ /\ local' = [local EXCEPT ![p] = OnSuccess(@, probing[r])]
        /\ Return(r, "full") /\ model' = [model EXCEPT ![r] = "returned"]
     \/ \E x \in Raised :
          /\ local' = [local EXCEPT ![p] = OnFailure(@, probing[r])]
          /\ model' = [model EXCEPT ![r] = x]
          /\ Return(r, FailedAnswer(r, x))
     \/ /\ "fatal" \in Faults
        /\ model' = [model EXCEPT ![r] = "other"]
        /\ Return(r, "error") /\ UNCHANGED local
  /\ probing' = [probing EXCEPT ![r] = FALSE]
  /\ UNCHANGED <<setup, shared, hits>>

(* The request is cancelled before its thread starts, or while it runs.    *)
CancelLocal(r) ==
  /\ "cancel" \in Faults
  /\ \/ pc[r] = "lock" /\ Reply(r, "cancelled")
     \/ pc[r] = "call" /\ Goto(r, "thread")
  /\ UNCHANGED <<setup, breakers, probing, model, hits>>

(* Cooldowns run. *)
Tick ==
  /\ shared.wait > 0 \/ \E p \in Replicas : local[p].wait > 0
  /\ local' = [p \in Replicas |-> Cool(local[p])]
  /\ shared' = Cool(shared)
  /\ UNCHANGED <<setup, pc, probing, model, hits, answer>>

(* The hash expires ttl_seconds, a day, after the last report: long after  *)
(* the cooldown is over.                                                   *)
Expire ==
  /\ "expire" \in Faults
  /\ shared.wait = 0
  /\ shared' = Closed
  /\ UNCHANGED <<setup, local, pc, probing, model, hits, answer>>

Proceed(r) == \/ AskShared(r) \/ RunModel(r) \/ ReportSuccess(r) \/ ReportFailure(r)
              \/ EnterLocal(r) \/ LeaveLocal(r)

Next == Tick \/ Expire \/ \E r \in Requests : Start(r) \/ Proceed(r) \/ CancelLocal(r)

Spec == Init /\ [][Next]_vars

(* Requests run to completion, the model call included, time passes, and   *)
(* clients keep sending requests: without traffic nothing would probe.     *)
(* Strong fairness says that not every request is cancelled while its      *)
(* thread waits to start.                                                  *)
FairSpec == /\ Spec /\ WF_vars(Tick)
            /\ \A r \in Requests : WF_vars(Start(r)) /\ WF_vars(Proceed(r))
            /\ SF_vars(\E r \in Requests : EnterLocal(r))

-----------------------------------------------------------------------------
TypeOK ==
  /\ setup \in Setups
  /\ local \in [Replicas -> BreakerState]
  /\ shared \in BreakerState
  /\ pc \in [Requests -> Location]
  /\ probing \in [Requests -> BOOLEAN]
  /\ model \in [Requests -> {"unrun", "returned"} \cup Raised]
  /\ hits \in [Requests -> BOOLEAN]
  /\ answer \in [Requests -> Answer]

-----------------------------------------------------------------------------
(* Properties.                                                             *)

LocalProbe(r) == pc[r] \in {"call", "thread"} /\ probing[r]
SharedProbe(r) == pc[r] \in {"model", "success", "failure"} /\ probing[r]

(* A replica's own breaker lets one probe through at a time, whatever late *)
(* results of calls from before it opened arrive, and however many         *)
(* requests were cancelled under it (Breaker.allow, on_success, on_failure).*)
OneLocalProbe ==
  \A r, q \in Requests :
    LocalProbe(r) /\ LocalProbe(q) /\ ReplicaOf[r] = ReplicaOf[q] => r = q

(* It turns a call away only during the cooldown or while a probe really   *)
(* is under way: the probe slot is never lost (Breaker.call), except to an *)
(* exception outside the transient_predicate.                              *)
LocalShedsWithReason ==
  [][\A r \in Requests :
       /\ "fatal" \notin Faults
       /\ pc[r] = "lock" /\ answer'[r] \in {"fallback", "unavailable"}
       => \/ local[ReplicaOf[r]].wait > 0
          \/ \E q \in Requests : LocalProbe(q) /\ ReplicaOf[q] = ReplicaOf[r]]_vars

(* The same for the shared breaker (SharedBreaker.allow), which loses the  *)
(* slot to a cancelled probe and to a report that does not arrive: while   *)
(* none of that happens, late reports and an expired hash do not lose it.  *)
SharedShedsWithReason ==
  [][\A r \in Requests :
       /\ Faults \subseteq {"expire"}
       /\ pc[r] = "allow" /\ answer'[r] \in {"fallback", "unavailable"}
       => shared.wait > 0 \/ \E q \in Requests : SharedProbe(q)]_vars

(* Nobody is shed by a breaker that has nothing to wait for: no outcome,   *)
(* late, lost or cancelled, costs either breaker its probe slot.           *)
ShedsWithReason == LocalShedsWithReason /\ SharedShedsWithReason

(* Text is returned only if the model processed it or the regex gate found *)
(* something to redact, and it is marked as a fallback unless the model    *)
(* did (Pipeline.__call__ and PipelineUnavailableError), however the       *)
(* breakers' calls end.                                                    *)
FailsClosed ==
  \A r \in Requests :
    /\ answer[r] = "full" => model[r] = "returned"
    /\ answer[r] = "fallback" => hits[r] /\ model[r] # "returned"

(* An open breaker is tried again: as long as requests come it closes or   *)
(* lets a probe through.  The shared one after every cooldown, unless the  *)
(* probe slot was lost (ALLOW_SCRIPT); a replica's own one, where it is    *)
(* the only one, whatever is cancelled under it (Breaker.allow).           *)
OutageIsProbed ==
  /\ (Faults \subseteq {"expire"} /\ shared.state = "open")
       ~> (shared.state = "closed" \/ \E r \in Requests : SharedProbe(r))
  /\ \A p \in Replicas :
       (~UseShared /\ "fatal" \notin Faults /\ local[p].state = "open")
         ~> \/ local[p].state = "closed"
            \/ \E r \in Requests : LocalProbe(r) /\ ReplicaOf[r] = p
=============================================================================
