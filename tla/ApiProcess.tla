---------------------------- MODULE ApiProcess ------------------------------
(***************************************************************************)
(* One API process: its requests and its teardown (ApiServer) next to the  *)
(* task that keeps its connection to Redis (RedisLink), which teardown     *)
(* cancels before it closes what the task rebuilds, and the readiness      *)
(* probe (readyz of app/api/health.py), which reads the state of both.     *)
(*                                                                         *)
(* Redis answers a ping within its timeout or not at all.  That a required *)
(* audit backend has failed, which also makes a probe answer 503, is left  *)
(* out: it is failed in FileAudit.                                         *)
(***************************************************************************)
EXTENDS ApiServer

VARIABLES
  up, client, queue, task,   \* RedisLink
  redis_required,            \* settings.redis_required
  probe                      \* "ping", or the last answer of readyz
Link == INSTANCE RedisLink
link == <<up, client, queue, task>>
probing == <<redis_required, probe>>
all == <<vars, link, probing>>

ProcessInit == Init /\ Link!Init /\ redis_required \in BOOLEAN /\ probe = "unready"

(* teardown_state, with what each of its steps does to the link. *)
EndMetrics == MetricsEnd /\ Link!CancelTask
EndQueue == CloseComponent /\ "queue" \in closed' \ closed /\ Link!CloseQueue
EndStore == CloseComponent /\ "store" \in closed' \ closed /\ Link!StopStore
EndOther == /\ AwaitDrain \/ (CloseComponent /\ closed' \ closed \subseteq {"audit"})
            /\ UNCHANGED link
EndProcess == EndMetrics \/ EndQueue \/ EndStore \/ EndOther

(* readyz looks for a client and a pool and pings; after that it looks at  *)
(* ready.                                                                  *)
Readiness(redis_ready) == probe' = IF ready /\ redis_ready THEN "ready" ELSE "unready"
BugPinged == probe = "ping" /\ probe' = IF up THEN "ready" ELSE "unready"
Probe ==
  /\ probe # "ping"
  /\ IF ~redis_required THEN Readiness(TRUE)
     ELSE IF queue = "none" \/ client = "none" THEN Readiness(FALSE)
     ELSE probe' = "ping"
Pinged == probe = "ping" /\ Readiness(up)
Readyz == (Probe \/ Pinged) /\ UNCHANGED <<vars, link, redis_required>>

Serve(r) == Proceed(r) /\ UNCHANGED link
Refresh == Link!Refresh /\ UNCHANGED vars

ServerNext ==
  \/ EndProcess \/ Refresh
  \/ \E r \in Requests : Serve(r) \/ (Arrive(r) /\ UNCHANGED link)
  \/ (Shutdown \/ Deadline) /\ UNCHANGED link
  \/ Link!Outage /\ UNCHANGED vars
ProcessNext == Readyz \/ (ServerNext /\ UNCHANGED probing)

(* Requests, teardown and the task go on; a deadline passes; probes are    *)
(* sent periodically, as the deployment manifests set them up.  Nothing is *)
(* assumed of clients, of Redis, nor that the process is ever shut down.   *)
Process ==
  /\ ProcessInit /\ [][ProcessNext]_all
  /\ WF_all(EndProcess /\ UNCHANGED probing) /\ WF_all(Refresh /\ UNCHANGED probing)
  /\ WF_all(Deadline /\ UNCHANGED <<link, probing>>)
  /\ WF_all(Readyz)
  /\ \A r \in Requests : WF_all(Serve(r) /\ UNCHANGED probing)

-----------------------------------------------------------------------------
(* Properties.                                                             *)

(* While the process serves and Redis answers, the client and the pool are *)
(* there for good in the end, however outages, failed closes and failed    *)
(* reconnections have left them (refresh_job_metrics), and probes say so   *)
(* (readyz).                                                               *)
LinkRecovers ==
  <>[](up /\ life = "serving") => <>[](Link!Linked /\ probe # "unready")

(* A probe that answers ready does so while the process admits requests    *)
(* and has closed nothing, however teardown overtook its ping (readyz,     *)
(* teardown_state).                                                        *)
ReadyIsHonest ==
  [][probe # "ready" /\ probe' = "ready" => life = "serving" /\ closed = {}]_all

(* What teardown has closed stays closed: the task that would open it      *)
(* again is gone before (teardown_state).                                  *)
StaysClosed ==
  /\ "queue" \in closed => queue # "open"
  /\ "store" \in closed => client = "none"
=============================================================================
