----------------------------- MODULE RedisLink ------------------------------
(***************************************************************************)
(* What an API process keeps of Redis: the job store's client, the ARQ     *)
(* pool in state.job_queue, and refresh_job_metrics (app/main.py), the     *)
(* background task that pings, drops and rebuilds both.                    *)
(*                                                                         *)
(* The task is cut at every await.  Redis answers or does not; every       *)
(* exception the task meets is one that it catches.  The gauges it sets    *)
(* are left out, and the sweep of the job index it makes for one of them   *)
(* is in JobStore.  The redis audit backend, which refuses to start        *)
(* without Redis, is left out too.                                         *)
(***************************************************************************)

VARIABLES
  up,      \* Redis answers
  client,  \* JobStore.client: "none", "open"
  queue,   \* state.job_queue: "none", "open", or a pool that was "closed"
  task     \* the await refresh_job_metrics is at

link == <<up, client, queue, task>>

(* build_state keeps the client of a failed ping, lifespan goes on without *)
(* a pool; then the task is created.                                       *)
Init ==
  /\ up \in BOOLEAN
  /\ client = "open"
  /\ queue \in {"none", "open"}
  /\ task = "sleep"

Goto(l) == task' = l /\ UNCHANGED up

(* The next round: JobStore.start sets the client before it pings. *)
Wake ==
  /\ task = "sleep"
  /\ client' = "open"
  /\ Goto("ping")
  /\ UNCHANGED queue

Ping ==
  /\ task = "ping"
  /\ Goto(IF up THEN "queue" ELSE "stop")
  /\ UNCHANGED <<client, queue>>

(* JobStore.stop, whose aclose may raise and leave the client; then a pool *)
(* is closed.                                                              *)
Stop ==
  /\ task = "stop"
  /\ client' \in {"none", client}
  /\ queue' = IF queue = "none" THEN "none" ELSE "closed"
  /\ Goto(IF queue = "none" THEN "queue" ELSE "close")

BugUnqueue ==
  /\ task = "close"
  /\ Goto("queue")
  /\ UNCHANGED <<client, queue>>
Unqueue ==
  /\ task = "close"
  /\ queue' = "none"
  /\ Goto("queue")
  /\ UNCHANGED client

(* create_job_queue, if there is a client and no pool. *)
CreateQueue ==
  /\ task = "queue"
  /\ queue' = IF queue = "none" /\ client # "none" /\ up THEN "open" ELSE queue
  /\ Goto("sleep")
  /\ UNCHANGED client

Refresh == Wake \/ Ping \/ Stop \/ Unqueue \/ CreateQueue

-----------------------------------------------------------------------------
(* What teardown_state does to it. *)
BugCancelTask == UNCHANGED link
CancelTask == task' = "gone" /\ UNCHANGED <<up, client, queue>>
CloseQueue == queue' = (IF queue = "none" THEN "none" ELSE "closed") /\ UNCHANGED <<up, client, task>>
StopStore == client' = "none" /\ UNCHANGED <<up, queue, task>>

(* Redis goes away and comes back. *)
Outage == up' = ~up /\ UNCHANGED <<client, queue, task>>

Linked == client = "open" /\ queue = "open"
=============================================================================
