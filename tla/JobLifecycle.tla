---------------------------- MODULE JobLifecycle ----------------------------
(***************************************************************************)
(* What the job API promises a client, without counters, queues or retries *)
(* (docs/api.md, "POST /v1/jobs"): a job is admitted only when the total   *)
(* and the submitting key's number of unfinished jobs are below their      *)
(* caps, it is cancelled only while queued, it ends once, and a job that   *)
(* ended done was running before.  phase[j] is the job's visible status.   *)
(* A finished job may be forgotten.  An unfinished job may be too, but     *)
(* the caps hold no longer then: lost says that a job was forgotten, or    *)
(* counted twice, while it was unfinished.                                 *)
(***************************************************************************)
EXTENDS Naturals, FiniteSets

CONSTANTS Jobs, OwnerOf, MaxInflight, MaxJobsPerKey

VARIABLES phase, lost

Unfinished == {j \in Jobs : phase[j] \in {"queued", "running"}}
UnfinishedOf(j) == {k \in Unfinished : OwnerOf[k] = OwnerOf[j]}

Init == phase = [j \in Jobs |-> "absent"] /\ lost = FALSE

Move(j, from, to) ==
  /\ phase[j] \in from
  /\ phase' = [phase EXCEPT ![j] = to]

HasRoom(j) ==
  /\ Cardinality(Unfinished) < MaxInflight
  /\ Cardinality(UnfinishedOf(j)) < MaxJobsPerKey
Admit(j) ==
  /\ lost \/ HasRoom(j)
  /\ Move(j, {"absent"}, "queued")
  /\ lost' \in {lost, TRUE}

Start(j) == Move(j, {"queued"}, "running") /\ UNCHANGED lost
Complete(j) == Move(j, {"running"}, "done") /\ UNCHANGED lost
Fail(j) == Move(j, {"queued", "running"}, "failed") /\ UNCHANGED lost
Withdraw(j) == Move(j, {"queued"}, "cancelled") /\ UNCHANGED lost

Forget(S) ==
  /\ phase' = [j \in Jobs |-> IF j \in S THEN "absent" ELSE phase[j]]
  /\ IF S \cap Unfinished = {} THEN lost' \in {lost, TRUE} ELSE lost' = TRUE

Next ==
  \/ \E j \in Jobs : Admit(j) \/ Start(j) \/ Complete(j) \/ Fail(j) \/ Withdraw(j)
  \/ \E S \in SUBSET Jobs : Forget(S)

Spec == Init /\ [][Next]_<<phase, lost>>
=============================================================================
