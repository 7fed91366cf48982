----------------------------- MODULE JobProofs ------------------------------
(***************************************************************************)
(* Proofs about JobSystem for every number of jobs, keys, workers and      *)
(* cancel requests, every cap, TTL and lease, and every set of faults.     *)
(***************************************************************************)
EXTENDS JobSystem, FiniteSetTheorems, SequenceTheorems, TLAPS

(* A handler that is under way knows its job. *)
Busy ==
  /\ \A w \in Workers : wpc[w] # "idle" => wjob[w] \in Jobs
  /\ \A c \in Cancellers : cpc[c] # "idle" => cjob[c] \in Jobs

-----------------------------------------------------------------------------
(* Type correctness.                                                       *)

(* The scripts keep the store's types. *)
LEMMA ScriptType ==
  ASSUME StoreTypeOK, UNCHANGED <<deadLetters, now>>,
         \/ UNCHANGED store
         \/ \E j \in Jobs : \/ \E n \in {1, 2} : Admit(j, n)
                            \/ Claim(j) \/ Cancel(j)
                            \/ \E s \in {"done", "failed"} : SetTerminal(j, s)
  PROVE  StoreTypeOK'
<1>1. CASE UNCHANGED store
  BY <1>1 DEF StoreTypeOK, store, counters
<1>0. ASSUME NEW j \in Jobs PROVE OwnerOf[j] \in Owners
  BY StoreAssumption
<1>2. ASSUME NEW j \in Jobs, NEW n \in {1, 2}, Admit(j, n) PROVE StoreTypeOK'
  BY <1>0, <1>2 DEF StoreTypeOK, Admit, Write, Status, LiveStatus
<1>3. ASSUME NEW j \in Jobs, NEW s \in Status, Write(j, s), UNCHANGED <<counters, drifted>>
      PROVE  StoreTypeOK'
  BY <1>3 DEF StoreTypeOK, Write, counters
<1>4. ASSUME NEW j \in Jobs, NEW s \in Status, Write(j, s), ReleaseSlots(j)
      PROVE  StoreTypeOK'
  <2>1. Decr(inflight) \in Nat /\ Decr(perKey[OwnerOf[j]]) \in Nat
    BY <1>0 DEF StoreTypeOK, Decr
  <2>2. QED
    BY <1>0, <1>4, <2>1 DEF StoreTypeOK, Write, ReleaseSlots
<1>5. ASSUME NEW j \in Jobs, Claim(j) PROVE StoreTypeOK'
  BY <1>1, <1>3, <1>5 DEF Claim, Status, LiveStatus
<1>6. ASSUME NEW j \in Jobs, Cancel(j) PROVE StoreTypeOK'
  BY <1>1, <1>4, <1>6 DEF Cancel, Status, TerminalStatus
<1>7. ASSUME NEW j \in Jobs, NEW s \in {"done", "failed"}, SetTerminal(j, s) PROVE StoreTypeOK'
  <2>1. s \in Status
    BY DEF Status, TerminalStatus
  <2>2. QED
    BY <1>1, <1>4, <1>7, <2>1 DEF SetTerminal
<1>8. QED
  BY <1>1, <1>2, <1>5, <1>6, <1>7

(* So do the two commands on the dead-letter list. *)
LEMMA DeadLetterType ==
  ASSUME StoreTypeOK, UNCHANGED <<store, now>>,
         \/ UNCHANGED deadLetters
         \/ \E j \in Jobs : PushDeadLetter(j) \/ PushTwice(j)
         \/ TrimDeadLetters
  PROVE  StoreTypeOK'
<1>1. deadLetters' \in Seq(Jobs)
  <2>1. CASE TrimDeadLetters
    <3>1. DeadLetterMax \in Nat \ {0} /\ deadLetters \in Seq(Jobs)
      BY StoreAssumption DEF StoreTypeOK
    <3>2. CASE Len(deadLetters) <= DeadLetterMax
      BY <2>1, <3>1, <3>2 DEF TrimDeadLetters, Newest
    <3>3. CASE Len(deadLetters) > DeadLetterMax
      <4>1. deadLetters' = SubSeq(deadLetters, Len(deadLetters) - DeadLetterMax + 1, Len(deadLetters))
        BY <2>1, <3>1, <3>3, LenProperties DEF TrimDeadLetters, Newest
      <4>2. QED
        BY <3>1, <3>3, <4>1, SubSeqProperties, LenProperties
    <3>4. QED
      BY <3>1, <3>2, <3>3, LenProperties
  <2>2. ASSUME NEW j \in Jobs, PushDeadLetter(j) \/ PushTwice(j) PROVE deadLetters' \in Seq(Jobs)
    <3>1. Append(deadLetters, j) \in Seq(Jobs)
      BY AppendProperties DEF StoreTypeOK
    <3>2. QED
      BY <2>2, <3>1, AppendProperties DEF PushDeadLetter, PushTwice
  <2>3. CASE UNCHANGED deadLetters
    BY <2>3 DEF StoreTypeOK
  <2>4. QED
    BY <2>1, <2>2, <2>3
<1>2. QED
  BY <1>1 DEF StoreTypeOK, store, counters

(* Redis expiring keys does too. *)
LEMMA TickType ==
  ASSUME StoreTypeOK, Tick
  PROVE  StoreTypeOK'
BY StoreAssumption DEF StoreTypeOK, Tick, Status

(* Dropping a dangling index member keeps the types. *)
LEMMA SweepType ==
  ASSUME StoreTypeOK, SweepIndex
  PROVE  StoreTypeOK'
BY DEF StoreTypeOK, SweepIndex

(* What every submit, cancel, worker and reap step does to the store. *)
ScriptStep ==
  /\ UNCHANGED <<deadLetters, now>>
  /\ \/ UNCHANGED store
     \/ \E j \in Jobs :
          \/ /\ sub[j] = "new" /\ HasRoom(OwnerOf[j])
             /\ Admit(j, 1) \/ ("resend" \in Faults /\ Admit(j, 2))
          \/ Claim(j) \/ Cancel(j) \/ SetTerminal(j, "failed")
          \/ SetTerminal(j, "done") /\ \E w \in Workers : Executing(w) /\ wjob[w] = j
DeadLetterStep ==
  /\ UNCHANGED <<store, now>>
  /\ \/ UNCHANGED deadLetters
     \/ \E j \in Jobs : PushDeadLetter(j) \/ PushTwice(j)
     \/ TrimDeadLetters
StoreStep == ScriptStep \/ DeadLetterStep \/ Tick \/ SweepIndex

(* Every step of the system is one of these on the store. *)
LEMMA NextIsStoreStep ==
  ASSUME Busy, reaping \in Jobs \cup {NoJob}, [Next]_vars
  PROVE  StoreStep
<1>1. CASE UNCHANGED vars
  BY <1>1 DEF vars, storeVars, StoreStep, ScriptStep
<1>2. ASSUME NEW j \in Jobs,
             Submit(j) \/ ApiCrash(j) \/ GiveUp(j) \/ LeaseExpire(j) \/ ReapRead(j)
      PROVE  StoreStep
  BY <1>2 DEF StoreStep, ScriptStep, DeadLetterStep, storeVars, Call, Submit, SubmitAdmit,
     SubmitRefuse, SubmitEnqueue, SubmitFail, SubmitPush, SubmitTrim, ApiCrash, GiveUp,
     LeaseExpire, ReapRead
<1>3. ASSUME NEW w \in Workers, ProcessJob(w)
      PROVE  StoreStep
  <2>1. wpc[w] # "idle" => wjob[w] \in Jobs
    BY DEF Busy
  <2>2. CASE Decode(w) \/ RunInspect(w) \/ RunRedact(w) \/ RunAudit(w) \/ RetryOrFail(w)
    BY <2>2 DEF StoreStep, ScriptStep, storeVars, Decode, RunInspect, RunRedact, RunAudit, RetryOrFail
  <2>3. CASE RunClaim(w) \/ RunResult(w) \/ WorkFail(w)
    BY <2>1, <2>3 DEF StoreStep, ScriptStep, Call, RunClaim, RunResult, WorkFail, Executing
  <2>4. CASE WorkPush(w) \/ WorkTrim(w)
    BY <2>1, <2>4 DEF StoreStep, DeadLetterStep, Call, WorkPush, WorkTrim
  <2>5. QED
    BY <1>3, <2>2, <2>3, <2>4 DEF ProcessJob, RunJob
<1>4. ASSUME NEW w \in Workers,
             WorkCrash(w) \/ WorkTimeout(w) \/ \E j \in Jobs : Deliver(w, j)
      PROVE  StoreStep
  BY <1>4 DEF StoreStep, ScriptStep, storeVars, WorkCrash, WorkTimeout, Deliver
<1>5. ASSUME NEW c \in Cancellers, CancelJob(c)
      PROVE  StoreStep
  <2>1. cpc[c] # "idle" => cjob[c] \in Jobs
    BY DEF Busy
  <2>2. QED
    BY <1>5, <2>1 DEF StoreStep, ScriptStep, storeVars, Call, CancelJob, CancelRead, CancelCall,
       CancelReread
<1>6. CASE ReapFail
  BY <1>6 DEF StoreStep, ScriptStep, Call, ReapFail
<1>7. QED
  BY <1>1, <1>2, <1>3, <1>4, <1>5, <1>6 DEF Next, StoreStep

ControlTypeOK ==
  /\ sub \in [Jobs -> SubState]
  /\ arq \in [Jobs -> ArqState]
  /\ tries \in [Jobs -> 0..MaxTries]
  /\ wpc \in [Workers -> WorkerState]
  /\ wjob \in [Workers -> Jobs \cup {NoJob}]
  /\ wtry \in [Workers -> 0..MaxTries]
  /\ cpc \in [Cancellers -> CancelState]
  /\ cjob \in [Cancellers -> Jobs \cup {NoJob}]
  /\ reaping \in Jobs \cup {NoJob}
  /\ audits \in [Jobs -> Nat]
  /\ told \in SUBSET Jobs

TypeInv == StoreTypeOK /\ ControlTypeOK /\ Busy

(* A step keeps the types of the handlers' own state and Busy. *)
LEMMA ControlStep ==
  ASSUME ControlTypeOK, Busy, [Next]_vars
  PROVE  ControlTypeOK' /\ Busy'
<1> USE DEF ControlTypeOK, Busy
<1>1. CASE UNCHANGED vars
  BY <1>1 DEF vars, apiVars, workVars
<1>2. ASSUME NEW j \in Jobs, Submit(j) PROVE ControlTypeOK' /\ Busy'
  <2>1. CASE SubmitEnqueue(j)
    BY <2>1 DEF SubmitEnqueue, Call, SubGoto, SubState, ArqState
  <2>2. CASE \/ SubmitAdmit(j) \/ SubmitRefuse(j) \/ SubmitFail(j)
             \/ SubmitPush(j) \/ SubmitTrim(j)
    BY <2>2 DEF workVars, Call, SubGoto, SubState, SubmitAdmit, SubmitRefuse,
       SubmitFail, SubmitPush, SubmitTrim
  <2>3. QED
    BY <1>2, <2>1, <2>2 DEF Submit
<1>3. ASSUME NEW j \in Jobs, ApiCrash(j) \/ GiveUp(j) \/ LeaseExpire(j) \/ ReapRead(j)
      PROVE  ControlTypeOK' /\ Busy'
  BY <1>3 DEF apiVars, workVars, SubGoto, SubState, ArqState, ApiCrash, GiveUp, LeaseExpire,
     ReapRead
<1>4. ASSUME NEW w \in Workers, ProcessJob(w) PROVE ControlTypeOK' /\ Busy'
  <2>1. CASE Decode(w) \/ RunClaim(w) \/ RunRedact(w)
    BY <2>1 DEF apiVars, Call, WorkGoto, WorkerState, Decode, RunClaim, RunRedact
  <2>2. CASE RunAudit(w)
    BY <2>2 DEF apiVars, Call, WorkGoto, WorkerState, RunAudit
  <2>3. ASSUME Finish(w), UNCHANGED <<apiVars, tries, audits, reaping>>
        PROVE  ControlTypeOK' /\ Busy'
    <3>1. 0 \in 0..MaxTries
      BY SystemAssumption
    <3>2. arq' \in [Jobs -> ArqState]
      BY <2>3 DEF Finish, ArqState
    <3>3. wpc' \in [Workers -> WorkerState] /\ wjob' \in [Workers -> Jobs \cup {NoJob}]
      BY <2>3 DEF Finish, Leave, WorkerState
    <3>4. wtry' \in [Workers -> 0..MaxTries]
      BY <2>3, <3>1 DEF Finish, Leave
    <3>5. Busy'
      BY <2>3 DEF apiVars, Finish, Leave
    <3>6. QED
      BY <2>3, <3>2, <3>3, <3>4, <3>5 DEF apiVars
  <2>4. ASSUME NEW s \in WorkerState, wpc[w] # "idle", WorkGoto(w, s),
               UNCHANGED <<apiVars, arq, tries, audits, reaping>>
        PROVE  ControlTypeOK' /\ Busy'
    BY <2>4 DEF apiVars, WorkGoto
  <2>5. CASE RunInspect(w) \/ RunResult(w)
    BY <2>3, <2>4, <2>5 DEF RunInspect, RunResult, Call, WorkerState
  <2>6. CASE RetryOrFail(w)
    <3>1. CASE Requeue(w)
      BY <2>6, <3>1, SystemAssumption
         DEF apiVars, RetryOrFail, Requeue, Leave, WorkerState, ArqState
    <3>2. QED
      BY <2>4, <2>6, <3>1 DEF RetryOrFail, WorkerState
  <2>7. CASE WorkFail(w) \/ WorkPush(w) \/ WorkTrim(w)
    BY <2>3, <2>4, <2>7 DEF WorkFail, WorkPush, WorkTrim, Call, WorkerState
  <2>8. QED
    BY <1>4, <2>1, <2>2, <2>5, <2>6, <2>7 DEF ProcessJob, RunJob
<1>5. ASSUME NEW w \in Workers, WorkCrash(w) \/ WorkTimeout(w) PROVE ControlTypeOK' /\ Busy'
  BY <1>5, SystemAssumption
     DEF apiVars, WorkCrash, WorkTimeout, Finish, Leave, WorkerState, ArqState
<1>6. ASSUME NEW w \in Workers, NEW j \in Jobs, Deliver(w, j) PROVE ControlTypeOK' /\ Busy'
  <2>1. tries[j] + 1 \in 0..MaxTries
    BY <1>6, SystemAssumption DEF Deliver
  <2>2. QED
    BY <1>6, <2>1 DEF apiVars, Deliver, WorkerState, ArqState
<1>7. ASSUME NEW c \in Cancellers, CancelJob(c) PROVE ControlTypeOK' /\ Busy'
  BY <1>7 DEF workVars, CancelJob, CancelRead, CancelCall, CancelReread, CancelGoto, Answer200,
     Call, CancelState
<1>8. CASE ReapFail
  BY <1>8 DEF apiVars, workVars, ReapFail, Call
<1>9. CASE (SweepIndex \/ Tick) /\ UNCHANGED <<apiVars, workVars, reaping>>
  BY <1>9 DEF apiVars, workVars
<1>10. QED
  BY <1>1, <1>2, <1>3, <1>4, <1>5, <1>6, <1>7, <1>8, <1>9 DEF Next

(* Every step keeps the types. *)
LEMMA TypeStep ==
  ASSUME TypeInv, [Next]_vars
  PROVE  TypeInv'
<1>1. ControlTypeOK' /\ Busy'
  BY ControlStep DEF TypeInv
<1>2. StoreStep
  BY NextIsStoreStep DEF TypeInv, ControlTypeOK
<1>3. StoreTypeOK'
  BY <1>2, ScriptType, DeadLetterType, TickType, SweepType
     DEF TypeInv, StoreStep, ScriptStep, DeadLetterStep
<1>4. QED
  BY <1>1, <1>3 DEF TypeInv

(* The initial state has the types. *)
LEMMA InitType == Init => TypeInv
<1> SUFFICES ASSUME Init PROVE TypeInv
  OBVIOUS
<1>1. StoreTypeOK
  <2>1. deadLetters \in Seq(Jobs)
    BY EmptySeq DEF Init, StoreInit
  <2>2. QED
    BY <2>1, StoreAssumption DEF Init, StoreInit, StoreTypeOK, Status
<1>2. ControlTypeOK /\ Busy
  BY SystemAssumption
     DEF Init, ControlTypeOK, Busy, SubState, ArqState, WorkerState, CancelState
<1>3. QED
  BY <1>1, <1>2 DEF TypeInv

(* Types hold throughout, and a handler under way knows its job. *)
LEMMA TypeInvariant == Spec => []TypeInv
<1>1. TypeInv /\ [Next]_vars => TypeInv'
  BY TypeStep
<1>2. QED
  BY <1>1, InitType, PTL DEF Spec

(* Every variable keeps its type in every behaviour of the job system: in  *)
(* particular no counter goes below zero, although a counter key can       *)
(* expire while jobs it counted are still to be released.                  *)
THEOREM TypeCorrect == Spec => []TypeOK
<1>1. TypeInv => TypeOK
  BY DEF TypeInv, ControlTypeOK, TypeOK
<1>2. QED
  BY <1>1, TypeInvariant, PTL

-----------------------------------------------------------------------------
(* Exclusive execution.  The properties are not inductive by themselves:   *)
(* that an admission cannot revive a job a worker still executes rests on  *)
(* job ids being minted once (Fresh), and that a second audit event cannot *)
(* happen rests on where in run_job the only executor stands (AuditInv).   *)

Fresh ==
  \A j \in Jobs : sub[j] = "new" =>
    /\ status[j] = "absent" /\ arq[j] = "none" /\ audits[j] = 0 /\ j \notin told
    /\ \A w \in Workers : wjob[w] # j

ExecInv ==
  /\ \A w \in Workers : Executing(w) => status[wjob[w]] \in {"running", "failed", "absent"}
  /\ \A v, w \in Workers : Executing(v) /\ Executing(w) /\ wjob[v] = wjob[w] => v = w

AuditInv ==
  /\ \A j \in Jobs : audits[j] \in {0, 1}
  /\ \A j \in Jobs : audits[j] = 1 => status[j] \notin {"queued", "cancelled"}
  /\ \A w \in Workers : Executing(w) =>
       /\ audits[wjob[w]] = 1 => wpc[w] = "result"
       /\ AuditRequired /\ wpc[w] = "result" => audits[wjob[w]] = 1
  /\ AuditRequired => \A j \in Jobs : status[j] = "done" => audits[j] = 1

SafeInv == Fresh /\ ExecInv /\ AuditInv /\ CancelledNeverRuns
(* What the scripts can do to a status. *)
LEMMA StatusChange ==
  ASSUME StoreTypeOK, NEW j \in Jobs, NEW s \in {"done", "failed"}
  PROVE  /\ \A n : Admit(j, n) => status' = [status EXCEPT ![j] = "queued"]
         /\ Claim(j) => status' = IF status[j] = "queued"
                                  THEN [status EXCEPT ![j] = "running"] ELSE status
         /\ Cancel(j) => status' = IF status[j] = "queued"
                                   THEN [status EXCEPT ![j] = "cancelled"] ELSE status
         /\ SetTerminal(j, s) => status' = IF status[j] \in {"queued", "running"}
                                           THEN [status EXCEPT ![j] = s] ELSE status
BY DEF Admit, Claim, CanClaim, Cancel, CanCancel, SetTerminal, CanTerminate, Write, LiveStatus, store

(* Every action keeps the claim, audit and cancellation invariants. *)
LEMMA SafeStep ==
  ASSUME TypeInv, SafeInv, [Next]_vars
  PROVE  SafeInv'
<1> USE DEF TypeInv, ControlTypeOK, SafeInv, Fresh, ExecInv, AuditInv, CancelledNeverRuns, Executing
<1>0. /\ status \in [Jobs -> Status]
      /\ \A w \in Workers : wpc[w] # "idle" => wjob[w] \in Jobs
      /\ NoJob \notin Jobs
  BY StoreAssumption DEF StoreTypeOK, Busy
<1>1. CASE UNCHANGED vars
  BY <1>1 DEF vars, storeVars, store, apiVars, workVars
<1>2. ASSUME NEW j \in Jobs, SubmitAdmit(j) PROVE SafeInv'
  <2>1. status' = [status EXCEPT ![j] = "queued"] \/ status' = status
    BY <1>2, StatusChange DEF SubmitAdmit, Call, store
  <2>2. sub' \in [Jobs -> SubState] /\ sub'[j] # "new" /\ \A k \in Jobs \ {j} : sub'[k] = sub[k]
    BY <1>2 DEF SubmitAdmit, Call, SubGoto, SubState
  <2>3. UNCHANGED <<arq, wpc, wjob, audits, told>>
    BY <1>2 DEF SubmitAdmit, workVars
  <2>4. sub[j] = "new"
    BY <1>2 DEF SubmitAdmit
  <2>5. QED
    <3>1. Fresh'
      BY <1>0, <2>1, <2>2, <2>3, <2>4
    <3>2. ExecInv'
      BY <1>0, <2>1, <2>2, <2>3, <2>4
    <3>3. AuditInv'
      BY <1>0, <2>1, <2>2, <2>3, <2>4
    <3>4. CancelledNeverRuns'
      BY <1>0, <2>1, <2>2, <2>3, <2>4
    <3>5. QED
      BY <3>1, <3>2, <3>3, <3>4
<1>3. ASSUME NEW j \in Jobs,
             SubmitRefuse(j) \/ SubmitEnqueue(j) \/ SubmitPush(j) \/ SubmitTrim(j) \/ ApiCrash(j)
      PROVE SafeInv'
  <2>1. UNCHANGED <<status, wpc, wjob, audits, told>>
    BY <1>3 DEF SubmitRefuse, SubmitEnqueue, SubmitPush, SubmitTrim, ApiCrash, storeVars, store, workVars
  <2>2. sub'[j] # "new" /\ \A k \in Jobs \ {j} : sub'[k] = sub[k] /\ arq'[k] = arq[k]
    BY <1>3 DEF SubmitRefuse, SubmitEnqueue, SubmitPush, SubmitTrim, ApiCrash, Call, SubGoto, workVars
  <2>3. QED
    <3>1. Fresh'
      BY <1>0, <2>1, <2>2
    <3>2. ExecInv'
      BY <1>0, <2>1, <2>2
    <3>3. AuditInv'
      BY <1>0, <2>1, <2>2
    <3>4. CancelledNeverRuns'
      BY <1>0, <2>1, <2>2
    <3>5. QED
      BY <3>1, <3>2, <3>3, <3>4
<1>4. ASSUME NEW j \in Jobs, SubmitFail(j) PROVE SafeInv'
  <2>1. \/ status' = status
        \/ status' = [status EXCEPT ![j] = "failed"] /\ status[j] \in {"queued", "running"}
    BY <1>4, StatusChange DEF SubmitFail, Call, store
  <2>2. sub'[j] # "new" /\ sub[j] # "new" /\ \A k \in Jobs \ {j} : sub'[k] = sub[k]
    BY <1>4 DEF SubmitFail, Call, SubGoto
  <2>3. UNCHANGED <<arq, wpc, wjob, audits, told>>
    BY <1>4 DEF SubmitFail, workVars
  <2>4. QED
    <3>1. Fresh'
      BY <1>0, <2>1, <2>2, <2>3
    <3>2. ExecInv'
      BY <1>0, <2>1, <2>2, <2>3
    <3>3. AuditInv'
      BY <1>0, <2>1, <2>2, <2>3
    <3>4. CancelledNeverRuns'
      BY <1>0, <2>1, <2>2, <2>3
    <3>5. QED
      BY <3>1, <3>2, <3>3, <3>4
<1>5. ASSUME NEW j \in Jobs, GiveUp(j) \/ LeaseExpire(j) \/ ReapRead(j) PROVE SafeInv'
  BY <1>5 DEF GiveUp, LeaseExpire, ReapRead, storeVars, store, apiVars, workVars
<1>6. ASSUME NEW w \in Workers, RunClaim(w) PROVE SafeInv'
  <2> DEFINE j == wjob[w]
  <2>1. j \in Jobs /\ wpc[w] = "claim"
    BY <1>6 DEF RunClaim, Busy
  <2>2. \/ /\ status[j] # "queued" /\ status' = status
           /\ wpc' \in {[wpc EXCEPT ![w] = "inspect"], [wpc EXCEPT ![w] = "retry"]}
        \/ /\ status[j] = "queued" /\ status' = [status EXCEPT ![j] = "running"]
           /\ wpc' \in {[wpc EXCEPT ![w] = l] : l \in {"redact", "inspect", "retry"}}
        \/ status' = status /\ wpc' = [wpc EXCEPT ![w] = "retry"]
    BY <1>6, <2>1, StatusChange DEF RunClaim, Call, WorkGoto, CanClaim, store
  <2>3. UNCHANGED <<wjob, sub, arq, audits, told>>
    BY <1>6 DEF RunClaim, Call, WorkGoto, apiVars
  <2>4. QED
    <3>1. Fresh'
      BY <1>0, <2>1, <2>2, <2>3
    <3>2. ExecInv'
      BY <1>0, <2>1, <2>2, <2>3
    <3>3. AuditInv'
      BY <1>0, <2>1, <2>2, <2>3
    <3>4. CancelledNeverRuns'
      BY <1>0, <2>1, <2>2, <2>3
    <3>5. QED
      BY <3>1, <3>2, <3>3, <3>4
<1>7. ASSUME NEW w \in Workers, RunAudit(w) PROVE SafeInv'
  <2> DEFINE j == wjob[w]
  <2>1. j \in Jobs /\ wpc[w] = "audit"
    BY <1>7 DEF RunAudit, Busy
  <2>2. audits[j] = 0
    BY <2>1
  <2>3. \/ audits' = audits /\ wpc' = [wpc EXCEPT ![w] = "retry"]
        \/ audits' = [audits EXCEPT ![j] = 1] /\ wpc' \in {[wpc EXCEPT ![w] = "result"], [wpc EXCEPT ![w] = "retry"]}
        \/ ~AuditRequired /\ audits' = audits /\ wpc' = [wpc EXCEPT ![w] = "result"]
    BY <1>7, <2>1, <2>2 DEF RunAudit, Call, WorkGoto
  <2>4. UNCHANGED <<status, wjob, sub, arq, told>>
    BY <1>7 DEF RunAudit, Call, WorkGoto, apiVars, storeVars, store
  <2>5. status[j] \in {"running", "failed", "absent"} /\ j \notin told
    BY <2>1
  <2>6. QED
    <3>1. Fresh'
      BY <1>0, <2>1, <2>2, <2>3, <2>4, <2>5
    <3>2. ExecInv'
      BY <1>0, <2>1, <2>2, <2>3, <2>4, <2>5
    <3>3. AuditInv'
      BY <1>0, <2>1, <2>2, <2>3, <2>4, <2>5
    <3>4. CancelledNeverRuns'
      BY <1>0, <2>1, <2>2, <2>3, <2>4, <2>5
    <3>5. QED
      BY <3>1, <3>2, <3>3, <3>4
<1>8. ASSUME NEW w \in Workers, RunResult(w) PROVE SafeInv'
  <2> DEFINE j == wjob[w]
  <2>1. j \in Jobs /\ wpc[w] = "result"
    BY <1>8 DEF RunResult, Busy
  <2>2. (AuditRequired => audits[j] = 1) /\ status[j] \in {"running", "failed", "absent"} /\ j \notin told /\ sub[j] # "new"
    BY <2>1
  <2>3. status' = status \/ status' = [status EXCEPT ![j] = "done"]
    BY <1>8, <2>1, StatusChange DEF RunResult, Call, store
  <2>4. /\ \/ wpc' = [wpc EXCEPT ![w] = "retry"] /\ wjob' = wjob
           \/ wpc' = [wpc EXCEPT ![w] = "idle"] /\ wjob' = [wjob EXCEPT ![w] = NoJob]
        /\ \A k \in Jobs \ {j} : arq'[k] = arq[k]
        /\ UNCHANGED <<sub, told, audits>>
    BY <1>8 DEF RunResult, Call, WorkGoto, Finish, Leave, apiVars
  <2>5. QED
    <3>1. Fresh'
      BY <1>0, <2>1, <2>2, <2>3, <2>4
    <3>2. ExecInv'
      BY <1>0, <2>1, <2>2, <2>3, <2>4
    <3>3. AuditInv'
      BY <1>0, <2>1, <2>2, <2>3, <2>4
    <3>4. CancelledNeverRuns'
      BY <1>0, <2>1, <2>2, <2>3, <2>4
    <3>5. QED
      BY <3>1, <3>2, <3>3, <3>4
<1>9. ASSUME NEW w \in Workers, WorkFail(w) PROVE SafeInv'
  <2> DEFINE j == wjob[w]
  <2>1. j \in Jobs /\ wpc[w] = "failing" /\ sub[j] # "new"
    BY <1>9 DEF WorkFail, Busy
  <2>2. \/ status' = status
        \/ status' = [status EXCEPT ![j] = "failed"] /\ status[j] \in {"queued", "running"}
    BY <1>9, <2>1, StatusChange DEF WorkFail, Call, store
  <2>3. /\ \/ wpc' = [wpc EXCEPT ![w] = "push"] /\ wjob' = wjob
           \/ wpc' = [wpc EXCEPT ![w] = "idle"] /\ wjob' = [wjob EXCEPT ![w] = NoJob]
        /\ \A k \in Jobs \ {j} : arq'[k] = arq[k]
        /\ UNCHANGED <<sub, told, audits>>
    BY <1>9 DEF WorkFail, Call, WorkGoto, Finish, Leave, apiVars
  <2>4. QED
    <3>1. Fresh'
      BY <1>0, <2>1, <2>2, <2>3
    <3>2. ExecInv'
      BY <1>0, <2>1, <2>2, <2>3
    <3>3. AuditInv'
      BY <1>0, <2>1, <2>2, <2>3
    <3>4. CancelledNeverRuns'
      BY <1>0, <2>1, <2>2, <2>3
    <3>5. QED
      BY <3>1, <3>2, <3>3, <3>4
<1>10. ASSUME NEW w \in Workers,
              \/ Decode(w) \/ RunInspect(w) \/ RunRedact(w) \/ RetryOrFail(w)
              \/ WorkPush(w) \/ WorkTrim(w) \/ WorkCrash(w) \/ WorkTimeout(w)
       PROVE  SafeInv'
  <2> DEFINE j == wjob[w]
  <2>1. j \in Jobs /\ wpc[w] # "idle" /\ sub[j] # "new"
    BY <1>10 DEF Busy, Decode, RunInspect, RunRedact, RetryOrFail, WorkPush, WorkTrim, WorkCrash, WorkTimeout
  <2>2. UNCHANGED <<status, sub, told, audits>>
    BY <1>10 DEF Decode, RunInspect, RunRedact, RetryOrFail, WorkPush, WorkTrim, WorkCrash, WorkTimeout,
       storeVars, store, apiVars
  <2>3. \A k \in Jobs \ {j} : arq'[k] = arq[k]
    BY <1>10 DEF Decode, RunInspect, RunRedact, RetryOrFail, WorkPush, WorkTrim, WorkCrash, WorkTimeout,
       Call, Finish, Requeue
  <2>4. \/ wpc' = [wpc EXCEPT ![w] = "idle"] /\ wjob' = [wjob EXCEPT ![w] = NoJob]
        \/ /\ wpc' \in {[wpc EXCEPT ![w] = s] : s \in {"claim", "failing", "retry", "push", "trim"}}
           /\ wjob' = wjob
        \/ wpc[w] = "redact" /\ wpc' = [wpc EXCEPT ![w] = "audit"] /\ wjob' = wjob
    BY <1>10 DEF Decode, RunInspect, RunRedact, RetryOrFail, WorkPush, WorkTrim, WorkCrash, WorkTimeout,
       Call, Finish, Requeue, Leave, WorkGoto
  <2>5. QED
    <3>1. Fresh'
      BY <1>0, <2>1, <2>2, <2>3, <2>4
    <3>2. ExecInv'
      BY <1>0, <2>1, <2>2, <2>3, <2>4
    <3>3. AuditInv'
      BY <1>0, <2>1, <2>2, <2>3, <2>4
    <3>4. CancelledNeverRuns'
      BY <1>0, <2>1, <2>2, <2>3, <2>4
    <3>5. QED
      BY <3>1, <3>2, <3>3, <3>4
<1>11. ASSUME NEW w \in Workers, NEW j \in Jobs, Deliver(w, j) PROVE SafeInv'
  <2>1. sub[j] # "new" /\ ~Executing(w)
    BY <1>11 DEF Deliver
  <2>2. /\ wpc' = [wpc EXCEPT ![w] = "decode"] /\ wjob' = [wjob EXCEPT ![w] = j]
        /\ \A k \in Jobs \ {j} : arq'[k] = arq[k]
        /\ UNCHANGED <<status, sub, told, audits>>
    BY <1>11 DEF Deliver, storeVars, store, apiVars
  <2>3. QED
    <3>1. Fresh'
      BY <1>0, <2>1, <2>2
    <3>2. ExecInv'
      BY <1>0, <2>1, <2>2
    <3>3. AuditInv'
      BY <1>0, <2>1, <2>2
    <3>4. CancelledNeverRuns'
      BY <1>0, <2>1, <2>2
    <3>5. QED
      BY <3>1, <3>2, <3>3, <3>4
<1>12. ASSUME NEW c \in Cancellers, CancelJob(c) PROVE SafeInv'
  <2>1. UNCHANGED <<sub, arq, wpc, wjob, audits>>
    BY <1>12 DEF CancelJob, CancelRead, CancelCall, CancelReread, workVars
  <2>2. \E j \in Jobs :
          \/ status' = status /\ told' = told
          \/ status' = status /\ told' = told \cup {j} /\ status[j] = "cancelled"
          \/ /\ status' = [status EXCEPT ![j] = "cancelled"] /\ status[j] = "queued"
             /\ told' \in {told, told \cup {j}}
    <3>1. ASSUME NEW j \in Jobs, CancelRead(c, j) PROVE <2>2!(j)
      BY <3>1 DEF CancelRead, Answer200, storeVars, store
    <3>2. CASE CancelCall(c)
      BY <3>2, StatusChange DEF CancelCall, Busy, Call, CanCancel, Answer200, store
    <3>3. CASE CancelReread(c)
      BY <3>3 DEF CancelReread, Busy, Answer200, storeVars, store
    <3>4. QED
      BY <1>12, <3>1, <3>2, <3>3 DEF CancelJob
  <2>3. QED
    <3>1. Fresh'
      BY <1>0, <2>1, <2>2
    <3>2. ExecInv'
      BY <1>0, <2>1, <2>2
    <3>3. AuditInv'
      BY <1>0, <2>1, <2>2
    <3>4. CancelledNeverRuns'
      BY <1>0, <2>1, <2>2
    <3>5. QED
      BY <3>1, <3>2, <3>3, <3>4
<1>13. CASE ReapFail
  <2>1. \E j \in Jobs : \/ status' = status
                        \/ status' = [status EXCEPT ![j] = "failed"] /\ status[j] \in {"queued", "running"}
    BY <1>13, StatusChange DEF ReapFail, Call, store
  <2>2. UNCHANGED <<sub, arq, wpc, wjob, audits, told>>
    BY <1>13 DEF ReapFail, apiVars, workVars
  <2>3. QED
    <3>1. Fresh'
      BY <1>0, <2>1, <2>2
    <3>2. ExecInv'
      BY <1>0, <2>1, <2>2
    <3>3. AuditInv'
      BY <1>0, <2>1, <2>2
    <3>4. CancelledNeverRuns'
      BY <1>0, <2>1, <2>2
    <3>5. QED
      BY <3>1, <3>2, <3>3, <3>4
<1>14. CASE (SweepIndex \/ Tick) /\ UNCHANGED <<apiVars, workVars, reaping>>
  <2>1. \A j \in Jobs : status'[j] \in {status[j], "absent"}
    <3>1. CASE SweepIndex
      BY <3>1 DEF SweepIndex
    <3>2. CASE Tick
      BY <1>0, <3>2 DEF Tick
    <3>3. QED
      BY <1>14, <3>1, <3>2
  <2>2. UNCHANGED <<sub, arq, wpc, wjob, audits, told>>
    BY <1>14 DEF apiVars, workVars
  <2>3. QED
    <3>1. Fresh'
      BY <1>0, <2>1, <2>2
    <3>2. ExecInv'
      BY <1>0, <2>1, <2>2
    <3>3. AuditInv'
      BY <1>0, <2>1, <2>2
    <3>4. CancelledNeverRuns'
      BY <1>0, <2>1, <2>2
    <3>5. QED
      BY <3>1, <3>2, <3>3, <3>4
<1>15. QED
  BY <1>1, <1>2, <1>3, <1>4, <1>5, <1>6, <1>7, <1>8, <1>9, <1>10, <1>11, <1>12, <1>13, <1>14
     DEF Next, Submit, ProcessJob, RunJob
(* They hold initially. *)
LEMMA InitSafe == Init => SafeInv
<1> SUFFICES ASSUME Init PROVE SafeInv
  OBVIOUS
<1>1. Fresh
  BY StoreAssumption DEF Init, StoreInit, Fresh
<1>2. ExecInv /\ AuditInv /\ CancelledNeverRuns
  BY DEF Init, StoreInit, ExecInv, AuditInv, CancelledNeverRuns, Executing
<1>3. QED
  BY <1>1, <1>2 DEF SafeInv

(* They hold throughout. *)
LEMMA SafeInvariant == Spec => [](TypeInv /\ SafeInv)
<1>1. Init => TypeInv /\ SafeInv
  BY InitType, InitSafe
<1>2. (TypeInv /\ SafeInv) /\ [Next]_vars => (TypeInv /\ SafeInv)'
  BY TypeStep, SafeStep
<1>3. QED
  BY <1>1, <1>2, PTL DEF Spec

(* However often a job is delivered, one worker executes it at most once:  *)
(* the claim script is the only way into run_job's redaction.              *)
THEOREM ClaimIsExclusive == Spec => []ExecutedOnce
<1>1. TypeInv /\ SafeInv => ExecutedOnce
  BY DEF TypeInv, ControlTypeOK, SafeInv, ExecInv, AuditInv, ExecutedOnce
<1>2. QED
  BY <1>1, SafeInvariant, PTL

(* A cancellation answered 200 is final: the job is never redacted.        *)
THEOREM CancellationIsFinal == Spec => []CancelledNeverRuns
<1>1. TypeInv /\ SafeInv => CancelledNeverRuns
  BY DEF SafeInv
<1>2. QED
  BY <1>1, SafeInvariant, PTL

(* The claim decides once and for all, whatever is delivered again, lost,  *)
(* sent twice or cancelled.                                                *)
THEOREM ClaimIsRespected == Spec => []ClaimRespected
BY ClaimIsExclusive, CancellationIsFinal, PTL DEF ClaimRespected

(* Where the audit is required, no job is done without its audit event,    *)
(* however its calls fail, are lost or are repeated.                       *)
THEOREM AuditBeforeDone == Spec => []DoneIsAudited
<1>1. TypeInv /\ SafeInv => DoneIsAudited
  BY DEF SafeInv, AuditInv, DoneIsAudited
<1>2. QED
  BY <1>1, SafeInvariant, PTL

-----------------------------------------------------------------------------
(* Admission counters.                                                     *)

(* The sets of live jobs are finite. *)
LEMMA LiveFinite ==
  /\ IsFiniteSet(LiveJobs) /\ Cardinality(LiveJobs) \in Nat
  /\ \A o \in Owners : IsFiniteSet(LiveJobsOf(o)) /\ Cardinality(LiveJobsOf(o)) \in Nat
<1>1. IsFiniteSet(LiveJobs)
  BY StoreAssumption, FS_Subset DEF LiveJobs
<1>2. ASSUME NEW o \in Owners PROVE IsFiniteSet(LiveJobsOf(o))
  BY <1>1, FS_Subset DEF LiveJobsOf
<1>3. QED
  BY <1>1, <1>2, FS_CardinalityType

(* A job that becomes live, and one that stops being live. *)
LEMMA LiveAdd ==
  ASSUME NEW j \in Jobs, j \notin LiveJobs, LiveJobs' = LiveJobs \cup {j}
  PROVE  /\ Cardinality(LiveJobs') = Cardinality(LiveJobs) + 1
         /\ \A o \in Owners : Cardinality(LiveJobsOf(o)') =
              IF o = OwnerOf[j] THEN Cardinality(LiveJobsOf(o)) + 1 ELSE Cardinality(LiveJobsOf(o))
<1>1. Cardinality(LiveJobs') = Cardinality(LiveJobs) + 1
  BY LiveFinite, FS_AddElement
<1>2. ASSUME NEW o \in Owners, o = OwnerOf[j]
      PROVE  Cardinality(LiveJobsOf(o)') = Cardinality(LiveJobsOf(o)) + 1
  <2>1. LiveJobsOf(o)' = LiveJobsOf(o) \cup {j} /\ j \notin LiveJobsOf(o)
    BY <1>2 DEF LiveJobsOf
  <2>2. QED
    BY <2>1, LiveFinite, FS_AddElement
<1>3. ASSUME NEW o \in Owners, o # OwnerOf[j] PROVE LiveJobsOf(o)' = LiveJobsOf(o)
  BY <1>3 DEF LiveJobsOf
<1>4. QED
  BY <1>1, <1>2, <1>3

(* A job that stops being live leaves exactly its own sets, by one. *)
LEMMA LiveRemove ==
  ASSUME NEW j \in Jobs, j \in LiveJobs, LiveJobs' = LiveJobs \ {j}
  PROVE  /\ Cardinality(LiveJobs') = Cardinality(LiveJobs) - 1
         /\ Cardinality(LiveJobs) >= 1 /\ Cardinality(LiveJobsOf(OwnerOf[j])) >= 1
         /\ \A o \in Owners : Cardinality(LiveJobsOf(o)') =
              IF o = OwnerOf[j] THEN Cardinality(LiveJobsOf(o)) - 1 ELSE Cardinality(LiveJobsOf(o))
<1>1. Cardinality(LiveJobs') = Cardinality(LiveJobs) - 1
  BY LiveFinite, FS_RemoveElement
<1>2. ASSUME NEW o \in Owners, o = OwnerOf[j]
      PROVE  /\ Cardinality(LiveJobsOf(o)') = Cardinality(LiveJobsOf(o)) - 1
             /\ Cardinality(LiveJobsOf(o)) >= 1
  <2>1. LiveJobsOf(o)' = LiveJobsOf(o) \ {j} /\ j \in LiveJobsOf(o)
    BY <1>2 DEF LiveJobsOf
  <2>2. Cardinality(LiveJobsOf(o)) # 0
    BY <2>1, LiveFinite, FS_EmptySet
  <2>3. Cardinality(LiveJobsOf(o)) >= 1
    BY <2>2, LiveFinite
  <2>4. Cardinality(LiveJobsOf(o) \ {j}) = Cardinality(LiveJobsOf(o)) - 1
    BY <2>1, LiveFinite, FS_RemoveElement
  <2>5. QED
    BY <2>1, <2>3, <2>4
<1>3. ASSUME NEW o \in Owners, o # OwnerOf[j] PROVE LiveJobsOf(o)' = LiveJobsOf(o)
  BY <1>3 DEF LiveJobsOf
<1>4. Cardinality(LiveJobs) # 0
  BY LiveFinite, FS_EmptySet
<1>5. OwnerOf[j] \in Owners
  BY StoreAssumption
<1>6. QED
  BY <1>1, <1>2, <1>3, <1>4, <1>5, LiveFinite

(* Releasing the slots of a live job keeps the counters exact. *)
LEMMA ReleaseCounts ==
  ASSUME StoreTypeOK, CountersExact, NEW j \in Jobs, NEW s \in TerminalStatus,
         status[j] \in LiveStatus, Write(j, s), ReleaseSlots(j)
  PROVE  CountersExact'
<1>1. LiveJobs' = LiveJobs \ {j} /\ j \in LiveJobs
  BY DEF StoreTypeOK, Write, LiveJobs, LiveStatus, TerminalStatus
<1>2. SUFFICES ASSUME ~drifted
               PROVE  /\ inflight' = Cardinality(LiveJobs')
                      /\ \A o \in Owners : perKey'[o] = Cardinality(LiveJobsOf(o)')
                      /\ created' = LiveJobs'
  BY DEF CountersExact, ReleaseSlots
<1>3. /\ inflight = Cardinality(LiveJobs)
      /\ \A o \in Owners : perKey[o] = Cardinality(LiveJobsOf(o))
      /\ created = LiveJobs
  BY <1>2 DEF CountersExact
<1>4. OwnerOf[j] \in Owners
  BY StoreAssumption
<1>5. Decr(inflight) = inflight - 1 /\ Decr(perKey[OwnerOf[j]]) = perKey[OwnerOf[j]] - 1
  BY <1>1, <1>3, <1>4, LiveRemove, LiveFinite DEF Decr
<1>6. inflight' = Cardinality(LiveJobs')
  BY <1>1, <1>3, <1>5, LiveRemove DEF ReleaseSlots
<1>7. ASSUME NEW o \in Owners PROVE perKey'[o] = Cardinality(LiveJobsOf(o)')
  BY <1>1, <1>3, <1>4, <1>5, LiveRemove DEF ReleaseSlots, StoreTypeOK
<1>8. created' = LiveJobs'
  BY <1>1, <1>3 DEF ReleaseSlots
<1>9. QED
  BY <1>6, <1>7, <1>8

(* A store step that leaves the set of live jobs and the counters alone. *)
LEMMA SameCounts ==
  ASSUME CountersExact, LiveJobs' = LiveJobs, UNCHANGED <<inflight, perKey, created, drifted>>
  PROVE  CountersExact'
BY DEF CountersExact, LiveJobsOf

(* Each script keeps the counters exact. *)
LEMMA ScriptCounts ==
  ASSUME StoreTypeOK, CountersExact, NEW j \in Jobs,
         \/ status[j] = "absent" /\ \E n \in {1, 2} : Admit(j, n)
         \/ Claim(j) \/ Cancel(j) \/ \E s \in {"done", "failed"} : SetTerminal(j, s)
  PROVE  CountersExact'
<1>1. CASE UNCHANGED store
  <2>1. LiveJobs' = LiveJobs
    BY <1>1 DEF LiveJobs, store
  <2>2. QED
    BY <1>1, <2>1, SameCounts DEF store, counters
<1>2. ASSUME NEW n \in {1, 2}, Admit(j, n), status[j] = "absent" PROVE CountersExact'
  <2>1. LiveJobs' = LiveJobs \cup {j} /\ j \notin LiveJobs
    BY <1>2 DEF StoreTypeOK, Admit, Write, LiveJobs, LiveStatus
  <2>2. drifted' = (drifted \/ n > 1)
    BY <1>2 DEF Admit
  <2>3. CASE n = 2
    <3>1. n > 1
      BY <2>3
    <3>2. QED
      BY <2>2, <3>1 DEF CountersExact
  <2>4. CASE drifted
    BY <2>4, <2>2 DEF CountersExact
  <2>5. SUFFICES ASSUME ~drifted, n = 1
                 PROVE  /\ inflight' = Cardinality(LiveJobs')
                        /\ \A o \in Owners : perKey'[o] = Cardinality(LiveJobsOf(o)')
                        /\ created' = LiveJobs'
    BY <2>3, <2>4 DEF CountersExact
  <2>6. /\ inflight = Cardinality(LiveJobs)
        /\ \A o \in Owners : perKey[o] = Cardinality(LiveJobsOf(o))
        /\ created = LiveJobs
    BY <2>5 DEF CountersExact
  <2>7. inflight' = Cardinality(LiveJobs') /\ created' = LiveJobs'
    BY <1>2, <2>1, <2>5, <2>6, LiveAdd DEF Admit
  <2>8. ASSUME NEW o \in Owners PROVE perKey'[o] = Cardinality(LiveJobsOf(o)')
    <3>1. perKey'[o] = IF o = OwnerOf[j] THEN perKey[o] + 1 ELSE perKey[o]
      BY <1>2, <2>5 DEF Admit, StoreTypeOK
    <3>2. QED
      BY <2>1, <2>6, <3>1, LiveAdd
  <2>9. QED
    BY <2>7, <2>8
<1>3. CASE Claim(j) /\ CanClaim(j)
  <2>1. LiveJobs' = LiveJobs
    BY <1>3 DEF StoreTypeOK, Claim, CanClaim, Write, LiveJobs, LiveStatus
  <2>2. QED
    BY <1>3, <2>1, SameCounts DEF Claim, counters
<1>4. CASE Cancel(j) /\ CanCancel(j)
  BY <1>4, ReleaseCounts DEF Cancel, CanCancel, LiveStatus, TerminalStatus
<1>5. ASSUME NEW s \in {"done", "failed"}, SetTerminal(j, s), CanTerminate(j) PROVE CountersExact'
  <2>1. s \in TerminalStatus
    BY DEF TerminalStatus
  <2>2. QED
    BY <1>5, <2>1, ReleaseCounts DEF SetTerminal, CanTerminate
<1>6. QED
  BY <1>1, <1>2, <1>3, <1>4, <1>5 DEF Claim, Cancel, SetTerminal

(* Expiry keeps the counters exact, or is recorded as drift. *)
LEMMA TickCounts ==
  ASSUME StoreTypeOK, CountersExact, Tick
  PROVE  CountersExact'
<1> DEFINE t == now + 1
           gone == {j \in Jobs : status[j] # "absent" /\ updated[j] + TTL <= t}
           totalGone == admitted + TTL <= t
           keysGone == {o \in Owners : admittedBy[o] + TTL <= t}
<1>1. /\ status' = [j \in Jobs |-> IF j \in gone THEN "absent" ELSE status[j]]
      /\ inflight' = IF totalGone THEN 0 ELSE inflight
      /\ created' = IF totalGone THEN {} ELSE created
      /\ perKey' = [o \in Owners |-> IF o \in keysGone THEN 0 ELSE perKey[o]]
      /\ drifted' = \/ drifted
                    \/ gone \cap LiveJobs # {}
                    \/ totalGone /\ LiveJobs # {}
                    \/ \E o \in keysGone : LiveJobsOf(o) # {}
  BY DEF Tick
<1> HIDE DEF t, gone, totalGone, keysGone
<1>2. SUFFICES ASSUME ~drifted'
               PROVE  /\ inflight' = Cardinality(LiveJobs')
                      /\ \A o \in Owners : perKey'[o] = Cardinality(LiveJobsOf(o)')
                      /\ created' = LiveJobs'
  BY DEF CountersExact
<1>3. /\ ~drifted
      /\ gone \cap LiveJobs = {}
      /\ totalGone => LiveJobs = {}
      /\ \A o \in keysGone : LiveJobsOf(o) = {}
  BY <1>1, <1>2
<1>4. /\ inflight = Cardinality(LiveJobs)
      /\ \A o \in Owners : perKey[o] = Cardinality(LiveJobsOf(o))
      /\ created = LiveJobs
  BY <1>3 DEF CountersExact
<1>5. LiveJobs' = LiveJobs
  BY <1>1, <1>3 DEF LiveJobs, LiveStatus
<1>6. \A o : LiveJobsOf(o)' = LiveJobsOf(o)
  BY <1>5 DEF LiveJobsOf
<1>7. inflight' = Cardinality(LiveJobs') /\ created' = LiveJobs'
  BY <1>1, <1>3, <1>4, <1>5, FS_EmptySet
<1>8. ASSUME NEW o \in Owners PROVE perKey'[o] = Cardinality(LiveJobsOf(o)')
  BY <1>1, <1>3, <1>4, <1>6, FS_EmptySet
<1>9. QED
  BY <1>7, <1>8

(* While the counters are exact no index member dangles, so a sweep changes nothing. *)
LEMMA SweepCounts ==
  ASSUME StoreTypeOK, CountersExact, SweepIndex
  PROVE  CountersExact'
<1>1. LiveJobs' = LiveJobs
  BY DEF SweepIndex, LiveJobs
<1>2. ~drifted => FALSE
  BY DEF CountersExact, SweepIndex, LiveJobs, LiveStatus
<1>3. QED
  BY <1>2 DEF CountersExact, SweepIndex

(* The counters stay exact, and the caps bound the live jobs. *)
LEMMA CountStep ==
  ASSUME TypeInv, SafeInv, CountersExact, CapsRespected, [Next]_vars
  PROVE  CountersExact' /\ CapsRespected'
<1>1. StoreStep /\ StoreTypeOK /\ StoreTypeOK'
  BY NextIsStoreStep, TypeStep DEF TypeInv, ControlTypeOK
<1>2. ASSUME NEW j \in Jobs, NEW n \in {1, 2}, Admit(j, n), sub[j] = "new", HasRoom(OwnerOf[j])
      PROVE  CountersExact' /\ CapsRespected'
  <2>1. status[j] = "absent"
    BY <1>2 DEF SafeInv, Fresh
  <2>2. CountersExact'
    BY <1>1, <1>2, <2>1, ScriptCounts
  <2>3. LiveJobs' = LiveJobs \cup {j} /\ j \notin LiveJobs
    BY <1>1, <1>2, <2>1 DEF StoreTypeOK, Admit, Write, LiveJobs, LiveStatus
  <2>4. SUFFICES ASSUME ~drifted
                 PROVE  /\ Cardinality(LiveJobs') <= MaxInflight
                        /\ \A o \in Owners : Cardinality(LiveJobsOf(o)') <= MaxJobsPerKey
    BY <1>2, <2>2 DEF CapsRespected, Admit
  <2>5. /\ Cardinality(LiveJobs) < MaxInflight
        /\ Cardinality(LiveJobsOf(OwnerOf[j])) < MaxJobsPerKey
        /\ \A o \in Owners : Cardinality(LiveJobsOf(o)) <= MaxJobsPerKey
    BY <1>2, <2>4, StoreAssumption DEF CountersExact, CapsRespected, HasRoom
  <2>6. Cardinality(LiveJobs') <= MaxInflight
    BY <2>3, <2>5, LiveAdd, LiveFinite, StoreAssumption
  <2>7. ASSUME NEW o \in Owners PROVE Cardinality(LiveJobsOf(o)') <= MaxJobsPerKey
    BY <2>3, <2>5, LiveAdd, LiveFinite, StoreAssumption
  <2>8. QED
    BY <2>6, <2>7
<1>3. ASSUME CountersExact', LiveJobs' \subseteq LiveJobs, ~drifted' => ~drifted
      PROVE  CapsRespected'
  <2>1. SUFFICES ASSUME ~drifted
                 PROVE  /\ Cardinality(LiveJobs') <= MaxInflight
                        /\ \A o \in Owners : Cardinality(LiveJobsOf(o)') <= MaxJobsPerKey
    BY <1>3 DEF CapsRespected
  <2>2. /\ Cardinality(LiveJobs) <= MaxInflight
        /\ \A o \in Owners : Cardinality(LiveJobsOf(o)) <= MaxJobsPerKey
    BY <2>1 DEF CapsRespected
  <2>3. Cardinality(LiveJobs') <= Cardinality(LiveJobs) /\ IsFiniteSet(LiveJobs')
    BY <1>3, LiveFinite, FS_Subset
  <2>4. Cardinality(LiveJobs') \in Nat
    BY <2>3, FS_CardinalityType
  <2>5. ASSUME NEW o \in Owners PROVE Cardinality(LiveJobsOf(o)') <= MaxJobsPerKey
    <3>1. LiveJobsOf(o)' \subseteq LiveJobsOf(o)
      BY <1>3 DEF LiveJobsOf
    <3>2. Cardinality(LiveJobsOf(o)') <= Cardinality(LiveJobsOf(o)) /\ IsFiniteSet(LiveJobsOf(o)')
      BY <3>1, LiveFinite, FS_Subset
    <3>3. Cardinality(LiveJobsOf(o)') \in Nat
      BY <3>2, FS_CardinalityType
    <3>4. QED
      BY <2>2, <3>2, <3>3, LiveFinite, StoreAssumption
  <2>6. QED
    BY <2>2, <2>3, <2>4, <2>5, LiveFinite, StoreAssumption
<1>4. ASSUME NEW j \in Jobs, Claim(j) \/ Cancel(j) \/ \E s \in {"done", "failed"} : SetTerminal(j, s)
      PROVE  CountersExact' /\ CapsRespected'
  <2>1. CountersExact'
    BY <1>1, <1>4, ScriptCounts
  <2>2. LiveJobs' \subseteq LiveJobs
    BY <1>1, <1>4, StatusChange DEF StoreTypeOK, LiveJobs, LiveStatus
  <2>3. drifted' = drifted
    BY <1>4 DEF Claim, Cancel, SetTerminal, ReleaseSlots, store
  <2>4. QED
    BY <1>3, <2>1, <2>2, <2>3
<1>5. CASE UNCHANGED store
  <2>1. LiveJobs' = LiveJobs
    BY <1>5 DEF LiveJobs, store
  <2>2. QED
    BY <1>3, <1>5, <2>1, SameCounts DEF store, counters
<1>6. CASE Tick
  <2>1. LiveJobs' \subseteq LiveJobs
    BY <1>6 DEF Tick, LiveJobs, LiveStatus
  <2>2. ~drifted' => ~drifted
    BY <1>6 DEF Tick
  <2>3. QED
    BY <1>1, <1>3, <1>6, <2>1, <2>2, TickCounts
<1>7. CASE SweepIndex
  <2>1. LiveJobs' = LiveJobs /\ drifted' = drifted
    BY <1>7 DEF SweepIndex, LiveJobs
  <2>2. QED
    BY <1>1, <1>3, <1>7, <2>1, SweepCounts
<1>8. QED
  BY <1>1, <1>2, <1>4, <1>5, <1>6, <1>7 DEF StoreStep, ScriptStep, DeadLetterStep

(* No job is live and no slot taken initially. *)
LEMMA InitCounts == Init => CountersExact /\ CapsRespected
<1> SUFFICES ASSUME Init PROVE CountersExact /\ CapsRespected
  OBVIOUS
<1>1. LiveJobs = {} /\ \A o : LiveJobsOf(o) = {}
  BY DEF Init, StoreInit, LiveJobs, LiveJobsOf, LiveStatus
<1>2. CountersExact
  BY <1>1, FS_EmptySet DEF Init, StoreInit, CountersExact
<1>3. CapsRespected
  BY <1>1, FS_EmptySet, StoreAssumption DEF CapsRespected
<1>4. QED
  BY <1>2, <1>3

(* The counters are exact and the caps bound the live jobs throughout. *)
LEMMA CountInvariant == Spec => [](TypeInv /\ SafeInv /\ CountersExact /\ CapsRespected)
<1>1. Init => TypeInv /\ SafeInv /\ CountersExact /\ CapsRespected
  BY InitType, InitSafe, InitCounts
<1>2. (TypeInv /\ SafeInv /\ CountersExact /\ CapsRespected) /\ [Next]_vars
        => (TypeInv /\ SafeInv /\ CountersExact /\ CapsRespected)'
  BY TypeStep, SafeStep, CountStep
<1>3. QED
  BY <1>1, <1>2, PTL DEF Spec

(* Whatever fails and whoever races, every job's slots are taken once and  *)
(* given back once: until a key in use expires or an admission is sent     *)
(* twice, the counters and the index are the set of unfinished jobs.       *)
THEOREM CountersAreExact == Spec => []CountersExact
BY CountInvariant, PTL

(* Until a key in use expires or an admission is sent twice, the           *)
(* unfinished jobs never exceed the caps.                                  *)
THEOREM CapsAreRespected == Spec => []CapsRespected
BY CountInvariant, PTL

(* Until a key in use expires, a 429 is given only at a cap, as long as no *)
(* admission is sent twice.                                                *)
THEOREM RefusalsAreJustified ==
  ASSUME "resend" \notin Faults
  PROVE  Spec => RefusedOnlyWhenFull
<1> DEFINE Justified == \A j \in Jobs : sub[j] = "new" /\ sub'[j] = "full" /\ ~drifted
                                          => Full(OwnerOf[j])
<1>1. ASSUME TypeInv, CountersExact, [Next]_vars PROVE [Justified]_vars
  <2>1. SUFFICES ASSUME Next, NEW j \in Jobs, sub[j] = "new", sub'[j] = "full", ~drifted
                 PROVE  Full(OwnerOf[j])
    BY <1>1
  <2>2. SubmitRefuse(j)
    BY <1>1, <2>1 DEF Next, Submit, SubmitAdmit, SubmitRefuse, SubmitEnqueue, SubmitFail, SubmitPush,
       SubmitTrim, SubGoto, Call, ApiCrash, GiveUp, LeaseExpire, ReapRead, ReapFail, ProcessJob, RunJob,
       Decode, RunClaim, RunInspect, RunRedact, RunAudit, RunResult, RetryOrFail, WorkFail, WorkPush,
       WorkTrim, WorkCrash, WorkTimeout, Deliver, CancelJob, CancelRead, CancelCall, CancelReread,
       apiVars, TypeInv, ControlTypeOK
  <2>3. ~HasRoom(OwnerOf[j]) /\ OwnerOf[j] \in Owners
    BY <2>2, StoreAssumption DEF SubmitRefuse
  <2>4. QED
    BY <1>1, <2>1, <2>3, LiveFinite, StoreAssumption DEF CountersExact, HasRoom, Full
<1>2. QED
  BY <1>1, CountInvariant, PTL DEF Spec, RefusedOnlyWhenFull

-----------------------------------------------------------------------------
(* How statuses change.                                                    *)

(* No script moves a job out of a final status or creates an old record. *)
LEMMA FinalStep ==
  ASSUME TypeInv, SafeInv, [Next]_vars
  PROVE  \A j \in Jobs :
           /\ status[j] \in TerminalStatus => status'[j] \in {status[j], "absent"}
           /\ status[j] = "absent" /\ status'[j] # "absent" => sub[j] = "new"
<1> DEFINE Final == \A j \in Jobs :
              /\ status[j] \in TerminalStatus => status'[j] \in {status[j], "absent"}
              /\ status[j] = "absent" /\ status'[j] # "absent" => sub[j] = "new"
<1>1. StoreStep /\ StoreTypeOK
  BY NextIsStoreStep DEF TypeInv, ControlTypeOK
<1>2. ASSUME NEW j \in Jobs, NEW n \in {1, 2}, Admit(j, n), sub[j] = "new" PROVE Final
  <2>1. status' = [status EXCEPT ![j] = "queued"] /\ status[j] = "absent"
    BY <1>1, <1>2, StatusChange DEF SafeInv, Fresh
  <2>2. QED
    BY <1>1, <1>2, <2>1 DEF StoreTypeOK, TerminalStatus
<1>3. ASSUME NEW j \in Jobs, Claim(j) \/ Cancel(j) \/ \E s \in {"done", "failed"} : SetTerminal(j, s)
      PROVE  Final
  BY <1>1, <1>3, StatusChange DEF StoreTypeOK, TerminalStatus
<1>4. CASE UNCHANGED store \/ SweepIndex
  BY <1>4 DEF store, SweepIndex
<1>5. CASE Tick
  BY <1>1, <1>5 DEF Tick, StoreTypeOK
<1>6. QED
  BY <1>1, <1>2, <1>3, <1>4, <1>5 DEF StoreStep, ScriptStep, DeadLetterStep

(* A finished job's status is final until the record expires, and only an  *)
(* admission of a never-minted id makes an absent record appear.           *)
THEOREM TerminalStatusIsFinal == Spec => TerminalIsFinal
BY FinalStep, SafeInvariant, PTL DEF Spec, TerminalIsFinal

-----------------------------------------------------------------------------
(* Dead letters.  A job that has ended, and whose id was minted, cannot    *)
(* become live again; whoever is about to push or trim has seen set_error  *)
(* answer, and after that answer the job has ended.                        *)

Ended == {j \in Jobs : status[j] \notin LiveStatus /\ sub[j] # "new"}

DeadInv ==
  /\ deadLetters \in Seq(Ended)
  /\ \A w \in Workers : wpc[w] \in {"push", "trim"} => wjob[w] \in Ended
  /\ \A j \in Jobs : sub[j] \in {"push", "trim"} => j \in Ended

(* What has ended stays ended. *)
LEMMA EndedStays ==
  ASSUME TypeInv, SafeInv, [Next]_vars
  PROVE  Ended \subseteq Ended'
<1>1. \A j \in Jobs : sub'[j] = "new" => sub[j] = "new"
  BY DEF Next, Submit, SubmitAdmit, SubmitRefuse, SubmitEnqueue, SubmitFail, SubmitPush,
     SubmitTrim, SubGoto, Call, ApiCrash, GiveUp, LeaseExpire, ReapRead, ReapFail, ProcessJob, RunJob,
     Decode, RunClaim, RunInspect, RunRedact, RunAudit, RunResult, RetryOrFail, WorkFail, WorkPush,
     WorkTrim, WorkCrash, WorkTimeout, Deliver, CancelJob, CancelRead, CancelCall, CancelReread,
     apiVars, vars, TypeInv, ControlTypeOK
<1>2. status \in [Jobs -> Status]
  BY DEF TypeInv, StoreTypeOK
<1>3. QED
  BY <1>1, <1>2, FinalStep DEF Ended, Status, TerminalStatus, LiveStatus

(* After set_error has answered, the job has ended. *)
LEMMA FailingEnds ==
  ASSUME TypeInv, SafeInv, NEW j \in Jobs, sub[j] # "new", sub'[j] # "new",
         SetTerminal(j, "failed")
  PROVE  j \in Ended'
<1>1. StoreTypeOK
  BY DEF TypeInv
<1>2. status' = IF status[j] \in {"queued", "running"} THEN [status EXCEPT ![j] = "failed"] ELSE status
  BY <1>1, StatusChange
<1>3. QED
  BY <1>1, <1>2 DEF Ended, StoreTypeOK, LiveStatus

(* Every step keeps the invariant. *)
LEMMA DeadStep ==
  ASSUME TypeInv, SafeInv, DeadInv, [Next]_vars
  PROVE  DeadInv'
<1>1. Ended \subseteq Ended'
  BY EndedStays
<1>2. deadLetters \in Seq(Ended')
  BY <1>1 DEF DeadInv
<1>3. TypeInv'
  BY TypeStep
<1>4. /\ \A w \in Workers : wpc[w] # "idle" => wjob[w] \in Jobs /\ sub[wjob[w]] # "new"
      /\ sub \in [Jobs -> SubState] /\ wpc \in [Workers -> WorkerState]
      /\ wjob \in [Workers -> Jobs \cup {NoJob}] /\ NoJob \notin Jobs
  BY StoreAssumption DEF TypeInv, ControlTypeOK, Busy, SafeInv, Fresh
<1>5. deadLetters' \in Seq(Ended')
  <2>1. ASSUME NEW j \in Ended', PushDeadLetter(j) \/ PushTwice(j) PROVE deadLetters' \in Seq(Ended')
    <3>1. Append(deadLetters, j) \in Seq(Ended')
      BY <1>2, AppendProperties
    <3>2. QED
      BY <2>1, <3>1, AppendProperties DEF PushDeadLetter, PushTwice
  <2>2. CASE TrimDeadLetters
    <3>1. DeadLetterMax \in Nat \ {0}
      BY StoreAssumption
    <3>2. CASE Len(deadLetters) <= DeadLetterMax
      BY <1>2, <2>2, <3>2 DEF TrimDeadLetters, Newest
    <3>3. CASE Len(deadLetters) > DeadLetterMax
      <4>1. deadLetters' = SubSeq(deadLetters, Len(deadLetters) - DeadLetterMax + 1, Len(deadLetters))
        BY <1>2, <2>2, <3>1, <3>3, LenProperties DEF TrimDeadLetters, Newest
      <4>2. QED
        BY <1>2, <3>1, <3>3, <4>1, SubSeqProperties, LenProperties
    <3>4. QED
      BY <1>2, <3>1, <3>2, <3>3, LenProperties
  <2>3. CASE UNCHANGED deadLetters
    BY <1>2, <2>3
  <2>4. ASSUME NEW j \in Jobs, SubmitPush(j) PROVE deadLetters' \in Seq(Ended')
    BY <1>1, <2>1, <2>3, <2>4 DEF SubmitPush, Call, DeadInv
  <2>5. ASSUME NEW w \in Workers, WorkPush(w) PROVE deadLetters' \in Seq(Ended')
    BY <1>1, <2>1, <2>3, <2>5 DEF WorkPush, Call, DeadInv
  <2>6. QED
    <3>1. \/ UNCHANGED deadLetters \/ TrimDeadLetters
          \/ (\E j \in Jobs : SubmitPush(j)) \/ \E w \in Workers : WorkPush(w)
      BY DEF Next, Submit, SubmitAdmit, SubmitRefuse, SubmitEnqueue, SubmitFail, SubmitTrim, Call,
         ApiCrash, GiveUp, LeaseExpire, ReapRead, ReapFail, ProcessJob, RunJob, Decode, RunClaim,
         RunInspect, RunRedact, RunAudit, RunResult, RetryOrFail, WorkFail, WorkTrim, WorkCrash,
         WorkTimeout, Deliver, CancelJob, CancelRead, CancelCall, CancelReread, SweepIndex, Tick,
         vars, storeVars
    <3>2. QED
      BY <2>2, <2>3, <2>4, <2>5, <3>1
<1>6. ASSUME NEW w \in Workers, wpc'[w] \in {"push", "trim"} PROVE wjob'[w] \in Ended'
  <2>1. CASE wpc[w] \in {"push", "trim"} /\ wjob'[w] = wjob[w]
    BY <1>1, <2>1 DEF DeadInv
  <2>2. CASE WorkFail(w)
    <3>1. SetTerminal(wjob[w], "failed") /\ wjob' = wjob /\ sub' = sub /\ wpc[w] = "failing"
      BY <1>4, <1>6, <2>2 DEF WorkFail, Call, WorkGoto, Finish, Leave, apiVars
    <3>2. QED
      BY <1>4, <3>1, FailingEnds
  <2>3. \/ wpc[w] \in {"push", "trim"} /\ wjob'[w] = wjob[w]
        \/ WorkFail(w)
    <3>1. CASE UNCHANGED <<wpc, wjob>>
      BY <1>6, <3>1
    <3>2. ASSUME NEW v \in Workers, v # w, ProcessJob(v) \/ WorkCrash(v) \/ WorkTimeout(v)
                                             \/ \E j \in Jobs : Deliver(v, j)
          PROVE  wpc'[w] = wpc[w] /\ wjob'[w] = wjob[w]
      BY <1>4, <3>2 DEF ProcessJob, RunJob, Decode, RunClaim, RunInspect, RunRedact, RunAudit,
         RunResult, RetryOrFail, WorkFail, WorkPush, WorkTrim, WorkCrash, WorkTimeout, Deliver, Call,
         WorkGoto, Finish, Leave, Requeue
    <3>3. CASE ProcessJob(w) \/ WorkCrash(w) \/ WorkTimeout(w) \/ \E j \in Jobs : Deliver(w, j)
      BY <1>4, <1>6, <3>3 DEF ProcessJob, RunJob, Decode, RunClaim, RunInspect, RunRedact, RunAudit,
         RunResult, RetryOrFail, WorkPush, WorkTrim, WorkCrash, WorkTimeout, Deliver, Call,
         WorkGoto, Finish, Leave, Requeue
    <3>4. \/ UNCHANGED <<wpc, wjob>>
          \/ \E v \in Workers : \/ ProcessJob(v) \/ WorkCrash(v) \/ WorkTimeout(v)
                                 \/ \E j \in Jobs : Deliver(v, j)
      BY DEF Next, Submit, SubmitAdmit, SubmitRefuse, SubmitEnqueue, SubmitFail, SubmitPush,
         SubmitTrim, ApiCrash, GiveUp, LeaseExpire, ReapRead, ReapFail, CancelJob, CancelRead,
         CancelCall, CancelReread, workVars, vars
    <3>5. QED
      BY <1>6, <3>1, <3>2, <3>3, <3>4
  <2>4. QED
    BY <2>1, <2>2, <2>3
<1>7. ASSUME NEW j \in Jobs, sub'[j] \in {"push", "trim"} PROVE j \in Ended'
  <2>1. CASE sub[j] \in {"push", "trim"}
    BY <1>1, <2>1 DEF DeadInv
  <2>2. CASE SubmitFail(j)
    <3>1. SetTerminal(j, "failed") /\ sub[j] # "new" /\ sub'[j] # "new"
      BY <1>4, <1>7, <2>2 DEF SubmitFail, Call, SubGoto
    <3>2. QED
      BY <3>1, FailingEnds
  <2>3. sub[j] \in {"push", "trim"} \/ SubmitFail(j)
    BY <1>4, <1>7 DEF Next, Submit, SubmitAdmit, SubmitRefuse, SubmitEnqueue, SubmitFail, SubmitPush,
       SubmitTrim, SubGoto, Call, ApiCrash, GiveUp, LeaseExpire, ReapRead, ReapFail, ProcessJob, RunJob,
       Decode, RunClaim, RunInspect, RunRedact, RunAudit, RunResult, RetryOrFail, WorkFail, WorkPush,
       WorkTrim, WorkCrash, WorkTimeout, Deliver, CancelJob, CancelRead, CancelCall, CancelReread,
       apiVars, vars
  <2>4. QED
    BY <2>1, <2>2, <2>3
<1>8. QED
  BY <1>5, <1>6, <1>7 DEF DeadInv

(* Nobody resubmits a dead letter while its job is under way: whatever     *)
(* call of record_failure fails, is lost or is sent twice, a listed job    *)
(* has ended.                                                              *)
THEOREM DeadLettersAreOver == Spec => []DeadLettersHaveEnded
<1>1. Init => TypeInv /\ SafeInv /\ DeadInv
  <2>1. Init => DeadInv
    BY EmptySeq DEF Init, StoreInit, DeadInv
  <2>2. QED
    BY <2>1, InitType, InitSafe
<1>2. (TypeInv /\ SafeInv /\ DeadInv) /\ [Next]_vars => (TypeInv /\ SafeInv /\ DeadInv)'
  BY TypeStep, SafeStep, DeadStep
<1>3. DeadInv => DeadLettersHaveEnded
  BY LenProperties, ElementOfSeq DEF DeadInv, Ended, DeadLettersHaveEnded
<1>4. QED
  BY <1>1, <1>2, <1>3, PTL DEF Spec

(* Under every fault the job system implements the abstract life cycle:    *)
(* its two integer counters enforce caps on the set of unfinished jobs     *)
(* until they drift, claims, results, failures and cancellations are its   *)
(* moves, and keys that expire are jobs that it forgets.                   *)
THEOREM SystemImplementsLifecycle == Spec => ImplementsLifecycle
<1>1. Init => Lifecycle!Init
  BY DEF Init, StoreInit, Lifecycle!Init
<1>2. ASSUME TypeInv, SafeInv, CountersExact, [Next]_vars
      PROVE  [Lifecycle!Next]_<<status, drifted>>
  <2>1. StoreStep /\ StoreTypeOK
    BY <1>2, NextIsStoreStep DEF TypeInv, ControlTypeOK
  <2>2. ASSUME NEW j \in Jobs, NEW n \in {1, 2}, Admit(j, n), sub[j] = "new", HasRoom(OwnerOf[j])
        PROVE  Lifecycle!Admit(j)
    <3>1. status[j] = "absent" /\ status' = [status EXCEPT ![j] = "queued"] /\ OwnerOf[j] \in Owners
      BY <1>2, <2>1, <2>2, StatusChange, StoreAssumption DEF SafeInv, Fresh
    <3>2. Lifecycle!Unfinished = LiveJobs /\ Lifecycle!UnfinishedOf(j) = LiveJobsOf(OwnerOf[j])
      BY DEF Lifecycle!Unfinished, Lifecycle!UnfinishedOf, LiveJobs, LiveJobsOf, LiveStatus
    <3>3. ~drifted => /\ Cardinality(LiveJobs) < MaxInflight
                      /\ Cardinality(LiveJobsOf(OwnerOf[j])) < MaxJobsPerKey
      BY <1>2, <2>2, <3>1 DEF CountersExact, HasRoom
    <3>4. drifted' \in {drifted, TRUE}
      <4>1. drifted \in BOOLEAN
        BY <2>1 DEF StoreTypeOK
      <4>2. drifted' = (drifted \/ n > 1)
        BY <2>2 DEF Admit
      <4>3. QED
        BY <4>1, <4>2
    <3>5. Lifecycle!Move(j, {"absent"}, "queued")
      BY <3>1 DEF Lifecycle!Move
    <3> \A S : Lifecycle!Cardinality(S) = Cardinality(S)
      BY DEF Lifecycle!Cardinality, Cardinality
    <3>6. drifted \/ Lifecycle!HasRoom(j)
      BY <3>2, <3>3 DEF Lifecycle!HasRoom
    <3>7. QED
      BY <3>4, <3>5, <3>6 DEF Lifecycle!Admit
  <2>3. ASSUME NEW j \in Jobs,
               \/ Claim(j) \/ Cancel(j) \/ SetTerminal(j, "failed")
               \/ SetTerminal(j, "done") /\ status[j] # "queued"
        PROVE  \/ UNCHANGED <<status, drifted>>
               \/ Lifecycle!Start(j) \/ Lifecycle!Complete(j) \/ Lifecycle!Fail(j)
               \/ Lifecycle!Withdraw(j)
    <3>1. drifted' = drifted
      BY <2>3 DEF Claim, Cancel, SetTerminal, ReleaseSlots, store
    <3>2. QED
      BY <2>1, <2>3, <3>1, StatusChange
         DEF Lifecycle!Start, Lifecycle!Complete, Lifecycle!Fail, Lifecycle!Withdraw, Lifecycle!Move
  <2>4. ASSUME NEW j \in Jobs, NEW w \in Workers, Executing(w), wjob[w] = j PROVE status[j] # "queued"
    BY <1>2, <2>4 DEF SafeInv, ExecInv
  <2>5. CASE UNCHANGED store \/ SweepIndex
    BY <2>5 DEF store, SweepIndex
  <2>6. CASE Tick
    <3> DEFINE gone == {j \in Jobs : status[j] # "absent" /\ updated[j] + TTL <= now + 1}
    <3>1. status' = [j \in Jobs |-> IF j \in gone THEN "absent" ELSE status[j]]
      BY <2>6 DEF Tick
    <3>2. drifted => drifted'
      BY <2>6 DEF Tick
    <3>3. gone \cap LiveJobs # {} => drifted'
      BY <2>6 DEF Tick
    <3>4. drifted \in BOOLEAN /\ drifted' \in BOOLEAN
      BY <2>1, <2>6 DEF StoreTypeOK, Tick
    <3>5. Lifecycle!Unfinished = LiveJobs
      BY DEF Lifecycle!Unfinished, LiveJobs, LiveStatus
    <3>6. IF gone \cap LiveJobs = {} THEN drifted' \in {drifted, TRUE} ELSE drifted' = TRUE
      BY <3>2, <3>3, <3>4
    <3> HIDE DEF gone
    <3>7. Lifecycle!Forget(gone)
      BY <3>1, <3>5, <3>6 DEF Lifecycle!Forget
    <3>8. gone \in SUBSET Jobs
      BY DEF gone
    <3>9. QED
      BY <3>7, <3>8 DEF Lifecycle!Next
  <2>7. QED
    BY <2>1, <2>2, <2>3, <2>4, <2>5, <2>6
       DEF StoreStep, ScriptStep, DeadLetterStep, Lifecycle!Next
<1>3. Spec => [](TypeInv /\ SafeInv /\ CountersExact)
  BY CountInvariant, PTL
<1>4. QED
  BY <1>1, <1>2, <1>3, PTL DEF Spec, ImplementsLifecycle, Lifecycle!Spec
=============================================================================
