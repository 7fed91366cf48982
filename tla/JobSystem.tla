----------------------------- MODULE JobSystem ------------------------------
(***************************************************************************)
(* Everyone who works on the job store: the API handlers that submit and   *)
(* cancel jobs (app/api/jobs.py), the ARQ queue (a library, modelled from  *)
(* the way app/jobs/queue.py uses it), the workers that run process_job,   *)
(* and the reconciliation every process runs when it starts.               *)
(*                                                                         *)
(* A handler is cut at each remote call.  A call can fail before it takes  *)
(* effect ("store"), take effect and lose its reply ("lost"), or take      *)
(* effect and be sent once more, because the client is built with          *)
(* retry_on_timeout ("resend"); the other faults are transient redaction   *)
(* errors, payloads that do not decode, processes that die, ARQ            *)
(* in-progress keys that expire under a live worker, and ARQ's own job     *)
(* timeout.  Faults is the set a run allows.                               *)
(***************************************************************************)
EXTENDS JobStore

CONSTANTS
  Workers,      \* execution slots: worker processes times worker_concurrency
  Cancellers,   \* concurrent DELETE requests
  MaxTries,     \* MAX_TRIES
  AuditRequired, \* settings.audit_required, with a backend there
  Faults

FaultKinds == {"store", "lost", "resend", "transient", "decode", "crash", "lease", "timeout"}

ASSUME SystemAssumption ==
  /\ MaxTries \in Nat \ {0}
  /\ AuditRequired \in BOOLEAN
  /\ Faults \subseteq FaultKinds

VARIABLES
  sub,       \* the submit handler of each job
  arq,       \* the job's entry in the ARQ queue
  tries,     \* ARQ's delivery count of the job
  wpc,       \* where each worker slot is in process_job
  wjob,      \* the job it was delivered
  wtry,      \* ctx["job_try"] of that delivery
  cpc,       \* where each cancel handler is
  cjob,      \* the job it is about
  reaping,   \* the stale job a starting process has read and is about to fail
  audits,    \* history: audit events recorded for each job
  told       \* history: jobs whose cancellation was answered 200

apiVars == <<sub, cpc, cjob, told>>
workVars == <<arq, tries, wpc, wjob, wtry, audits>>
vars == <<storeVars, apiVars, workVars, reaping>>

SubState == {"new", "admitted", "failing", "push", "trim",
             "accepted", "full", "unavailable", "error", "dead"}
ArqState == {"none", "ready", "leased", "finished"}
WorkerState == {"idle", "decode", "claim", "inspect", "redact", "audit", "result",
                "retry", "failing", "push", "trim"}
CancelState == {"idle", "seen", "beaten"}

Init ==
  /\ StoreInit
  /\ sub = [j \in Jobs |-> "new"]
  /\ arq = [j \in Jobs |-> "none"]
  /\ tries = [j \in Jobs |-> 0]
  /\ wpc = [w \in Workers |-> "idle"]
  /\ wjob = [w \in Workers |-> NoJob]
  /\ wtry = [w \in Workers |-> 0]
  /\ cpc = [c \in Cancellers |-> "idle"]
  /\ cjob = [c \in Cancellers |-> NoJob]
  /\ reaping = NoJob
  /\ audits = [j \in Jobs |-> 0]
  /\ told = {}

(* A Redis call: its effect with a reply, an error without the effect, or  *)
(* the effect with the reply lost.  Where a second run of a command that   *)
(* took effect differs from that, the caller has a disjunct for "resend".  *)
Call(Effect, Same, Reply, Error) ==
  \/ Effect /\ Reply
  \/ "store" \in Faults /\ Same /\ Error
  \/ "lost" \in Faults /\ Effect /\ Error

-----------------------------------------------------------------------------
(* submit_job.                                                             *)

SubGoto(j, s) == sub' = [sub EXCEPT ![j] = s]

(* create_admitted; a failed call is answered 500. *)
SubmitAdmit(j) ==
  /\ sub[j] = "new"
  /\ HasRoom(OwnerOf[j])
  /\ \/ Call(Admit(j, 1), UNCHANGED store, SubGoto(j, "admitted"), SubGoto(j, "error"))
     \/ /\ "resend" \in Faults
        /\ IF HasRoomTwice(OwnerOf[j]) THEN Admit(j, 2) /\ SubGoto(j, "admitted")
                                       ELSE Admit(j, 1) /\ SubGoto(j, "full")
  /\ UNCHANGED <<deadLetters, now, cpc, cjob, told, workVars, reaping>>

(* The admission script returned 0: 429. *)
SubmitRefuse(j) ==
  /\ sub[j] = "new"
  /\ ~HasRoom(OwnerOf[j])
  /\ SubGoto(j, "full")
  /\ UNCHANGED <<storeVars, cpc, cjob, told, workVars, reaping>>

(* queue.enqueue_job with the job's own id, answered 202. *)
SubmitEnqueue(j) ==
  /\ sub[j] = "admitted"
  /\ Call(arq' = [arq EXCEPT ![j] = "ready"], UNCHANGED arq,
          SubGoto(j, "accepted"), SubGoto(j, "failing"))
  /\ UNCHANGED <<storeVars, cpc, cjob, told, tries, wpc, wjob, wtry, audits, reaping>>

(* record_failure in the handler of a failed enqueue, which ends in 503: set_error, *)
(* then RPUSH, then LTRIM; an error skips the rest.                       *)
SubmitFail(j) ==
  /\ sub[j] = "failing"
  /\ Call(SetTerminal(j, "failed"), UNCHANGED store,
          SubGoto(j, "push"), SubGoto(j, "unavailable"))
  /\ UNCHANGED <<deadLetters, now, cpc, cjob, told, workVars, reaping>>

SubmitPush(j) ==
  /\ sub[j] = "push"
  /\ \/ Call(PushDeadLetter(j), UNCHANGED deadLetters,
             SubGoto(j, "trim"), SubGoto(j, "unavailable"))
     \/ "resend" \in Faults /\ PushTwice(j) /\ SubGoto(j, "trim")
  /\ UNCHANGED <<store, now, cpc, cjob, told, workVars, reaping>>

SubmitTrim(j) ==
  /\ sub[j] = "trim"
  /\ Call(TrimDeadLetters, UNCHANGED deadLetters,
          SubGoto(j, "unavailable"), SubGoto(j, "unavailable"))
  /\ UNCHANGED <<store, now, cpc, cjob, told, workVars, reaping>>

(* The API process dies between two calls. *)
ApiCrash(j) ==
  /\ "crash" \in Faults
  /\ sub[j] \in {"admitted", "failing", "push", "trim"}
  /\ SubGoto(j, "dead")
  /\ UNCHANGED <<storeVars, cpc, cjob, told, workVars, reaping>>

-----------------------------------------------------------------------------
(* cancel_job.  An unknown job or another key's job is answered 404 and a  *)
(* store error 503; neither changes anything.                              *)

CancelGoto(c, s, j) ==
  /\ cpc' = [cpc EXCEPT ![c] = s]
  /\ cjob' = [cjob EXCEPT ![c] = j]

Answer200(j) == told' = told \cup {j}

(* The first read: cancelled is 200, queued goes on, the rest is 409.  A   *)
(* client has the id from its 202.                                         *)
CancelRead(c, j) ==
  /\ cpc[c] = "idle"
  /\ sub[j] = "accepted"
  /\ \/ /\ status[j] = "cancelled"
        /\ Answer200(j)
        /\ UNCHANGED <<cpc, cjob>>
     \/ /\ status[j] = "queued"
        /\ CancelGoto(c, "seen", j)
        /\ UNCHANGED told
  /\ UNCHANGED <<storeVars, sub, workVars, reaping>>

(* store.cancel. *)
CancelCall(c) ==
  LET j == cjob[c] IN
  /\ cpc[c] = "seen"
  /\ \/ Call(Cancel(j), UNCHANGED store,
             IF CanCancel(j) THEN CancelGoto(c, "idle", NoJob) /\ Answer200(j)
                             ELSE CancelGoto(c, "beaten", j) /\ UNCHANGED told,
             CancelGoto(c, "idle", NoJob) /\ UNCHANGED told)
     \/ "resend" \in Faults /\ Cancel(j) /\ CancelGoto(c, "beaten", j) /\ UNCHANGED told
  /\ UNCHANGED <<deadLetters, now, sub, workVars, reaping>>

(* The second read, after the script refused. *)
CancelReread(c) ==
  /\ cpc[c] = "beaten"
  /\ IF status[cjob[c]] = "cancelled" THEN Answer200(cjob[c]) ELSE UNCHANGED told
  /\ CancelGoto(c, "idle", NoJob)
  /\ UNCHANGED <<storeVars, sub, workVars, reaping>>

-----------------------------------------------------------------------------
(* ARQ and the workers.                                                    *)

WorkGoto(w, s) ==
  /\ wpc' = [wpc EXCEPT ![w] = s]
  /\ UNCHANGED <<wjob, wtry>>

Leave(w) ==
  /\ wpc' = [wpc EXCEPT ![w] = "idle"]
  /\ wjob' = [wjob EXCEPT ![w] = NoJob]
  /\ wtry' = [wtry EXCEPT ![w] = 0]

(* process_job returned: ARQ removes the entry. *)
Finish(w) ==
  /\ Leave(w)
  /\ arq' = [arq EXCEPT ![wjob[w]] = "finished"]

(* ARQ takes the in-progress key, counts the delivery and runs process_job. *)
Deliver(w, j) ==
  /\ wpc[w] = "idle"
  /\ arq[j] = "ready"
  /\ tries[j] < MaxTries
  /\ arq' = [arq EXCEPT ![j] = "leased"]
  /\ tries' = [tries EXCEPT ![j] = @ + 1]
  /\ wpc' = [wpc EXCEPT ![w] = "decode"]
  /\ wjob' = [wjob EXCEPT ![w] = j]
  /\ wtry' = [wtry EXCEPT ![w] = tries[j] + 1]
  /\ UNCHANGED <<storeVars, apiVars, audits, reaping>>

(* A delivery past max_tries is dropped by ARQ without running anything. *)
GiveUp(j) ==
  /\ arq[j] = "ready"
  /\ tries[j] >= MaxTries
  /\ arq' = [arq EXCEPT ![j] = "finished"]
  /\ UNCHANGED <<storeVars, apiVars, tries, wpc, wjob, wtry, audits, reaping>>

(* JobPayloadCipher.decode rejects what another key encrypted and what is  *)
(* no envelope of a job; that goes to record_failure.                      *)
MayReject == "decode" \in Faults
Decode(w) ==
  /\ wpc[w] = "decode"
  /\ \/ WorkGoto(w, "claim")
     \/ MayReject /\ WorkGoto(w, "failing")
  /\ UNCHANGED <<storeVars, apiVars, arq, tries, audits, reaping>>

(* run_job: store.claim. *)
RunClaim(w) ==
  LET j == wjob[w] IN
  /\ wpc[w] = "claim"
  /\ \/ Call(Claim(j), UNCHANGED store,
             WorkGoto(w, IF CanClaim(j) THEN "redact" ELSE "inspect"),
             WorkGoto(w, "retry"))
     \/ "resend" \in Faults /\ Claim(j) /\ WorkGoto(w, "inspect")
  /\ UNCHANGED <<deadLetters, now, apiVars, arq, tries, audits, reaping>>

(* run_job after a refused claim: any of the four later statuses counts as *)
(* success.                                                                *)
Settled(j) == status[j] \in {"running", "done", "failed", "cancelled"}
RunInspect(w) ==
  /\ wpc[w] = "inspect"
  /\ \/ Settled(wjob[w]) /\ Finish(w)
     \/ /\ ~Settled(wjob[w]) \/ "store" \in Faults
        /\ WorkGoto(w, "retry") /\ UNCHANGED arq
  /\ UNCHANGED <<storeVars, apiVars, tries, audits, reaping>>

(* run_job: the redaction under asyncio.timeout. *)
BugRunRedactSkipsAudit(w) ==
  /\ wpc[w] = "redact"
  /\ WorkGoto(w, "result")
  /\ UNCHANGED <<storeVars, apiVars, arq, tries, audits, reaping>>
RunRedact(w) ==
  /\ wpc[w] = "redact"
  /\ \/ WorkGoto(w, "audit")
     \/ "transient" \in Faults /\ WorkGoto(w, "retry")
  /\ UNCHANGED <<storeVars, apiVars, arq, tries, audits, reaping>>

(* run_job: audit.record, before the result is stored.  Where the audit is *)
(* optional, record returns whether or not it wrote the event, and without *)
(* a backend run_job goes on without one.                                  *)
RunAudit(w) ==
  LET recorded == [audits EXCEPT ![wjob[w]] = @ + 1] IN
  /\ wpc[w] = "audit"
  /\ \/ /\ AuditRequired
        /\ Call(audits' = recorded, UNCHANGED audits,
                WorkGoto(w, "result"), WorkGoto(w, "retry"))
     \/ /\ ~AuditRequired
        /\ audits' \in {audits, recorded}
        /\ WorkGoto(w, "result")
  /\ UNCHANGED <<storeVars, apiVars, arq, tries, reaping>>

(* run_job: store.set_result; a job that is no longer live is not an error. *)
RunResult(w) ==
  /\ wpc[w] = "result"
  /\ Call(SetTerminal(wjob[w], "done"), UNCHANGED store,
          Finish(w), WorkGoto(w, "retry") /\ UNCHANGED arq)
  /\ UNCHANGED <<deadLetters, now, apiVars, tries, audits, reaping>>

(* process_job after run_job returned False: Retry puts the entry back     *)
(* unless another delivery has removed it; the last try goes to            *)
(* record_failure.                                                         *)
Requeue(w) == /\ Leave(w)
              /\ arq' = [arq EXCEPT ![wjob[w]] = IF @ = "leased" THEN "ready" ELSE @]
RetryOrFail(w) ==
  /\ wpc[w] = "retry"
  /\ IF wtry[w] < MaxTries THEN Requeue(w) ELSE WorkGoto(w, "failing") /\ UNCHANGED arq
  /\ UNCHANGED <<storeVars, apiVars, tries, audits, reaping>>

(* record_failure in the worker. *)
BugWorkFail(w) ==
  /\ wpc[w] = "failing"
  /\ Call(SetTerminal(wjob[w], "failed"), UNCHANGED store, WorkGoto(w, "push"), WorkGoto(w, "push"))
  /\ UNCHANGED <<deadLetters, now, apiVars, arq, tries, audits, reaping>>
WorkFail(w) ==
  /\ wpc[w] = "failing"
  /\ Call(SetTerminal(wjob[w], "failed"), UNCHANGED store,
          WorkGoto(w, "push") /\ UNCHANGED arq, Finish(w))
  /\ UNCHANGED <<deadLetters, now, apiVars, tries, audits, reaping>>

WorkPush(w) ==
  /\ wpc[w] = "push"
  /\ \/ Call(PushDeadLetter(wjob[w]), UNCHANGED deadLetters,
             WorkGoto(w, "trim") /\ UNCHANGED arq, Finish(w))
     \/ "resend" \in Faults /\ PushTwice(wjob[w]) /\ WorkGoto(w, "trim") /\ UNCHANGED arq
  /\ UNCHANGED <<store, now, apiVars, tries, audits, reaping>>

WorkTrim(w) ==
  /\ wpc[w] = "trim"
  /\ Call(TrimDeadLetters, UNCHANGED deadLetters, Finish(w), Finish(w))
  /\ UNCHANGED <<store, now, apiVars, tries, audits, reaping>>

(* The worker process dies, or SIGTERM cancels the job after the grace     *)
(* period: the in-progress key stays.                                      *)
WorkCrash(w) ==
  /\ "crash" \in Faults
  /\ wpc[w] # "idle"
  /\ Leave(w)
  /\ UNCHANGED <<storeVars, apiVars, arq, tries, audits, reaping>>

(* The in-progress key expires.  It outlives a worker that keeps to its    *)
(* timeout; under "lease" it may also expire under one that does not.      *)
LeaseExpire(j) ==
  /\ arq[j] = "leased"
  /\ "lease" \in Faults \/ \A w \in Workers : wjob[w] # j
  /\ arq' = [arq EXCEPT ![j] = "ready"]
  /\ UNCHANGED <<storeVars, apiVars, tries, wpc, wjob, wtry, audits, reaping>>

(* ARQ's job_timeout, as long as the redaction's own and started earlier:  *)
(* process_job is cancelled and the entry removed as failed.               *)
WorkTimeout(w) ==
  /\ "timeout" \in Faults
  /\ wpc[w] # "idle"
  /\ Finish(w)
  /\ UNCHANGED <<storeVars, apiVars, tries, audits, reaping>>

-----------------------------------------------------------------------------
(* reap_stale_jobs, at the start of a process: read one hash, then fail it.*)

ReapRead(j) ==
  /\ reaping = NoJob
  /\ Stale(j)
  /\ reaping' = j
  /\ UNCHANGED <<storeVars, apiVars, workVars>>

ReapFail ==
  /\ reaping # NoJob
  /\ Call(SetTerminal(reaping, "failed"), UNCHANGED store,
          reaping' = NoJob, reaping' = NoJob)
  /\ UNCHANGED <<deadLetters, now, apiVars, workVars>>

-----------------------------------------------------------------------------
Submit(j) == \/ SubmitAdmit(j) \/ SubmitRefuse(j) \/ SubmitEnqueue(j)
             \/ SubmitFail(j) \/ SubmitPush(j) \/ SubmitTrim(j)

RunJob(w) == \/ RunClaim(w) \/ RunInspect(w) \/ RunRedact(w)
             \/ RunAudit(w) \/ RunResult(w)

ProcessJob(w) == \/ Decode(w) \/ RunJob(w) \/ RetryOrFail(w)
                 \/ WorkFail(w) \/ WorkPush(w) \/ WorkTrim(w)

CancelJob(c) == (\E j \in Jobs : CancelRead(c, j)) \/ CancelCall(c) \/ CancelReread(c)

Next ==
  \/ \E j \in Jobs : Submit(j) \/ ApiCrash(j) \/ GiveUp(j) \/ LeaseExpire(j) \/ ReapRead(j)
  \/ \E w \in Workers : \/ ProcessJob(w) \/ WorkCrash(w) \/ WorkTimeout(w)
                        \/ \E j \in Jobs : Deliver(w, j)
  \/ \E c \in Cancellers : CancelJob(c)
  \/ ReapFail
  \/ SweepIndex /\ UNCHANGED <<apiVars, workVars, reaping>>
  \/ Tick /\ UNCHANGED <<apiVars, workVars, reaping>>

Spec == Init /\ [][Next]_vars

(* The handlers and the worker loop run to completion once started, ARQ    *)
(* polls for ready entries, and Redis expires in-progress keys.  Nothing   *)
(* makes a client submit or cancel, a process start, or a fault happen.    *)
Fairness ==
  /\ \A j \in Jobs : /\ WF_vars(sub[j] # "new" /\ Submit(j))
                     /\ WF_vars(LeaseExpire(j))
                     /\ WF_vars(\E w \in Workers : Deliver(w, j))
  /\ \A w \in Workers : WF_vars(ProcessJob(w))

FairSpec == Spec /\ Fairness

(* Also, processes are restarted again and again and reach reap_stale_jobs, *)
(* and Redis does not fail all of their calls.                              *)
RestartSpec ==
  /\ FairSpec
  /\ WF_vars(ReapFail)
  /\ \A j \in Jobs : /\ SF_vars(ReapRead(j))
                     /\ SF_vars(ReapFail /\ reaping = j /\ SetTerminal(j, "failed"))

-----------------------------------------------------------------------------
TypeOK ==
  /\ StoreTypeOK
  /\ sub \in [Jobs -> SubState]
  /\ arq \in [Jobs -> ArqState]
  /\ tries \in [Jobs -> 0..MaxTries]
  /\ wpc \in [Workers -> WorkerState]
  /\ wjob \in [Workers -> Jobs \cup {NoJob}]
  /\ wtry \in [Workers -> 0..MaxTries]
  /\ cpc \in [Cancellers -> CancelState]
  /\ cjob \in [Cancellers -> Jobs \cup {NoJob}]
  /\ reaping \in Jobs \cup {NoJob}
  /\ audits \in [Jobs -> Nat]
  /\ told \in SUBSET Jobs

-----------------------------------------------------------------------------
(* Properties.                                                             *)

Executing(w) == wpc[w] \in {"audit", "result", "redact"}

(* Until a key in use expires or an admission is sent twice, the two       *)
(* admission counters and the creation index agree with the set of         *)
(* unfinished jobs, whatever scripts ran, in whichever order, with lost or *)
(* repeated calls: a slot is released once per job (TERMINAL_SCRIPT,       *)
(* CANCEL_SCRIPT and ADMIT_SCRIPT of JobStore).                            *)
CountersExact ==
  ~drifted =>
    /\ inflight = Cardinality(LiveJobs)
    /\ \A o \in Owners : perKey[o] = Cardinality(LiveJobsOf(o))
    /\ created = LiveJobs

(* The caps max_inflight and max_jobs_per_key bound the jobs really        *)
(* unfinished, not just the counters that ADMIT_SCRIPT compares with them. *)
CapsRespected ==
  ~drifted =>
    /\ Cardinality(LiveJobs) <= MaxInflight
    /\ \A o \in Owners : Cardinality(LiveJobsOf(o)) <= MaxJobsPerKey

(* A submission is refused only when the total or the key's share of       *)
(* unfinished jobs is at its cap (submit_job's 429), unless a key expired. *)
Full(o) == \/ Cardinality(LiveJobs) >= MaxInflight
           \/ Cardinality(LiveJobsOf(o)) >= MaxJobsPerKey
RefusedOnlyWhenFull ==
  [][\A j \in Jobs : sub[j] = "new" /\ sub'[j] = "full" /\ ~drifted => Full(OwnerOf[j])]_vars

(* The claim admits one delivery: two workers never execute the same job,  *)
(* no worker executes a job that is queued, done or cancelled, and a job   *)
(* gets at most one audit event (run_job, duplicate deliveries included).  *)
ExecutedOnce ==
  /\ \A v, w \in Workers : Executing(v) /\ Executing(w) /\ wjob[v] = wjob[w] => v = w
  /\ \A w \in Workers : Executing(w) => status[wjob[w]] \in {"running", "failed", "absent"}
  /\ \A j \in Jobs : audits[j] <= 1

(* A job whose cancellation was answered 200 is never redacted, before or  *)
(* after the answer, and stays cancelled until its record expires          *)
(* (cancel_job racing run_job and record_failure).                         *)
CancelledNeverRuns ==
  \A j \in told :
    /\ status[j] \in {"cancelled", "absent"}
    /\ audits[j] = 0
    /\ \A w \in Workers : wjob[w] = j => ~Executing(w)

(* The claim of run_job respects every other decision about the job: one   *)
(* execution however often it is delivered, none after a cancellation.     *)
ClaimRespected == ExecutedOnce /\ CancelledNeverRuns

(* A dead letter is about a job that has ended: an operator who submits it *)
(* again never has two of it under way.  record_failure is set_error, then *)
(* RPUSH, then LTRIM, any of which may fail, be lost or be sent twice      *)
(* while another worker, a canceller or a starting process acts on the job.*)
DeadLettersHaveEnded ==
  \A i \in DOMAIN deadLetters : status[deadLetters[i]] \notin LiveStatus

(* Where the audit is required, a job that is done has its audit event,    *)
(* exactly one, whatever calls failed, were lost or repeated on the way    *)
(* (run_job records the event before set_result).                          *)
DoneIsAudited ==
  AuditRequired => \A j \in Jobs : status[j] = "done" => audits[j] = 1

(* A finished job keeps its status until the record expires, and an        *)
(* expired or unknown job never comes back except by its own admission.    *)
TerminalIsFinal ==
  [][\A j \in Jobs :
       /\ status[j] \in TerminalStatus => status'[j] \in {status[j], "absent"}
       /\ status[j] = "absent" /\ status'[j] # "absent" => sub[j] = "new"]_vars

(* The counters implement the caps of the abstract life cycle until a key  *)
(* in use expires or an admission is counted twice, and claims, results,   *)
(* failures and cancellations implement its moves throughout               *)
(* (ADMIT_SCRIPT, CLAIM_SCRIPT, CANCEL_SCRIPT, TERMINAL_SCRIPT).           *)
Lifecycle == INSTANCE JobLifecycle WITH phase <- status, lost <- drifted
ImplementsLifecycle == Lifecycle!Spec

(* Every admitted job ends, whatever attempts and calls fail, crash, time  *)
(* out or are repeated, as long as processes keep being restarted and not  *)
(* all reaping fails (submit_job, process_job with its bounded retries,    *)
(* record_failure, reap_stale_jobs).                                       *)
Unsettled(j) == status[j] \in LiveStatus
EveryJobSettles == \A j \in Jobs : Unsettled(j) ~> ~Unsettled(j)

-----------------------------------------------------------------------------
(* What a doc says that the code does not do.                              *)

Worked(j) == \E w \in Workers : wjob[w] = j /\ Executing(w)

(* A failed attempt with tries left is followed by another one, unless the *)
(* job ends some other way (process_job and Retry; docs/architecture.md).  *)
FailedAttemptIsRetried ==
  \A j \in Jobs :
    (\E w \in Workers : /\ wjob[w] = j /\ wpc[w] = "retry" /\ wtry[w] < MaxTries
                        /\ status[j] = "running")
      ~> (~Unsettled(j) \/ Worked(j))
=============================================================================
