------------------------------ MODULE JobStore ------------------------------
(***************************************************************************)
(* The Redis state that app/jobs/store.py keeps for asynchronous jobs, and *)
(* the four Lua scripts that change it.  A script runs atomically in Redis *)
(* and is one action here; who calls it, and what happens when the call    *)
(* fails, is in JobSystem.                                                 *)
(*                                                                         *)
(* Abstractions.  A job id is a fresh uuid4, so it is an element of Jobs   *)
(* that is minted at most once, and OwnerOf fixes which API key would mint *)
(* it.  Every writer sets `updated_at` and the hash's EXPIRE together, so  *)
(* one time stamp, updated, stands for both.  A counter key that does not  *)
(* exist reads as 0 and is deleted instead of reaching 0, so absence and 0 *)
(* are one value.  Result and error texts, and the schema version (one per *)
(* deployment), are left out, as is the dead-letter list's own TTL, which  *)
(* can only empty it.                                                      *)
(***************************************************************************)
EXTENDS Integers, Sequences, FiniteSets

CONSTANTS
  Jobs,            \* job ids that may be minted
  NoJob,           \* stands for "no job"
  Owners,          \* API keys
  OwnerOf,         \* the key that submits each job
  MaxInflight,     \* settings.max_inflight
  MaxJobsPerKey,   \* settings.max_jobs_per_key
  DeadLetterMax,   \* settings.job_dead_letter_max
  TTL,             \* settings.job_ttl_seconds, in ticks
  Lease,           \* settings.job_stale_seconds, in ticks
  Horizon          \* bound on the clock

ASSUME StoreAssumption ==
  /\ IsFiniteSet(Jobs)
  /\ NoJob \notin Jobs
  /\ OwnerOf \in [Jobs -> Owners]
  /\ MaxInflight \in Nat \ {0}
  /\ MaxJobsPerKey \in Nat \ {0}
  /\ DeadLetterMax \in Nat \ {0}
  /\ TTL \in Nat \ {0}
  /\ Lease \in Nat
  /\ Horizon \in Nat

VARIABLES
  status,       \* the hash's status field, "absent" when there is no hash
  updated,      \* time of the last write to the hash
  inflight,     \* {ns}:jobs:inflight
  perKey,       \* {ns}:jobs:{owner}
  created,      \* members of the sorted set {ns}:jobs:created
  born,         \* their scores: the time of admission
  admitted,     \* time of the last admission (EXPIRE of inflight and created)
  admittedBy,   \* the same per key (EXPIRE of perKey)
  deadLetters,  \* {ns}:jobs:dead-letter
  now,          \* Redis time
  drifted       \* history: a live job or a counter in use has expired, or one
                \* admission was counted twice

counters == <<inflight, perKey, created, born, admitted, admittedBy>>
store == <<status, updated, counters, drifted>>
storeVars == <<store, deadLetters, now>>

LiveStatus == {"queued", "running"}
TerminalStatus == {"done", "failed", "cancelled"}
Status == {"absent"} \cup LiveStatus \cup TerminalStatus

LiveJobs == {j \in Jobs : status[j] \in LiveStatus}
LiveJobsOf(o) == {j \in LiveJobs : OwnerOf[j] = o}

StoreInit ==
  /\ status = [j \in Jobs |-> "absent"]
  /\ updated = [j \in Jobs |-> 0]
  /\ inflight = 0
  /\ perKey = [o \in Owners |-> 0]
  /\ created = {}
  /\ born = [j \in Jobs |-> 0]
  /\ admitted = 0
  /\ admittedBy = [o \in Owners |-> 0]
  /\ deadLetters = <<>>
  /\ now = 0
  /\ drifted = FALSE

-----------------------------------------------------------------------------
(* The scripts.                                                            *)

(* Definitions named Bug... are what a plausible slip in the code would     *)
(* make of the definition that follows; nothing uses them.                 *)
BugDecrKeepsLast(n) == IF n <= 1 THEN n ELSE n - 1

(* A counter at 1 or below is deleted, any other is decremented. *)
Decr(n) == IF n <= 1 THEN 0 ELSE n - 1

(* HSET status and updated_at, EXPIRE the hash. *)
Write(j, s) ==
  /\ status' = [status EXCEPT ![j] = s]
  /\ updated' = [updated EXCEPT ![j] = now]

ReleaseSlots(j) ==
  /\ inflight' = Decr(inflight)
  /\ perKey' = [perKey EXCEPT ![OwnerOf[j]] = Decr(@)]
  /\ created' = created \ {j}
  /\ UNCHANGED <<born, admitted, admittedBy, drifted>>

BugHasRoomOffByOne(o) == inflight < MaxInflight /\ perKey[o] <= MaxJobsPerKey
HasRoom(o) == inflight < MaxInflight /\ perKey[o] < MaxJobsPerKey

(* ADMIT_SCRIPT past its two capacity tests, run n times for the same job. *)
Admit(j, n) ==
  /\ Write(j, "queued")
  /\ created' = created \cup {j}
  /\ born' = [born EXCEPT ![j] = now]
  /\ inflight' = inflight + n
  /\ perKey' = [perKey EXCEPT ![OwnerOf[j]] = @ + n]
  /\ admitted' = now
  /\ admittedBy' = [admittedBy EXCEPT ![OwnerOf[j]] = now]
  /\ drifted' = (drifted \/ n > 1)

(* There is room for the same job once more. *)
HasRoomTwice(o) == inflight + 1 < MaxInflight /\ perKey[o] + 1 < MaxJobsPerKey

(* CLAIM_SCRIPT. *)
BugCanClaimRunning(j) == status[j] \in LiveStatus
CanClaim(j) == status[j] = "queued"
Claim(j) == IF CanClaim(j) THEN Write(j, "running") /\ UNCHANGED <<counters, drifted>>
                           ELSE UNCHANGED store

(* CANCEL_SCRIPT. *)
CanCancel(j) == status[j] = "queued"
Cancel(j) == IF CanCancel(j) THEN Write(j, "cancelled") /\ ReleaseSlots(j)
                             ELSE UNCHANGED store

(* TERMINAL_SCRIPT, called by set_result with "done" and by set_error with  *)
(* "failed".  set_terminal first reads the owner field; a job's owner never *)
(* changes, so reading it in the same step is the same.                     *)
BugCanTerminateTwice(j) == status[j] \notin {"absent", "cancelled"}
CanTerminate(j) == status[j] \in LiveStatus
SetTerminal(j, s) == IF CanTerminate(j) THEN Write(j, s) /\ ReleaseSlots(j)
                                        ELSE UNCHANGED store

(* record_dead_letter: RPUSH, then in a second command LTRIM to the newest *)
(* DeadLetterMax entries.                                                  *)
PushDeadLetter(j) == deadLetters' = Append(deadLetters, j)
PushTwice(j) == deadLetters' = Append(Append(deadLetters, j), j)
Newest(s, n) == IF Len(s) <= n THEN s ELSE SubSeq(s, Len(s) - n + 1, Len(s))
TrimDeadLetters == deadLetters' = Newest(deadLetters, DeadLetterMax)

(* reap_stale_jobs's test on the hash it has read. *)
BugStaleQueuedOnly(j) == status[j] = "queued" /\ updated[j] <= now - Lease
Stale(j) == status[j] \in LiveStatus /\ updated[j] <= now - Lease

(* oldest_job_age_seconds drops the oldest index member when its hash is   *)
(* gone, and stops at the first member that still has one.                 *)
SweepIndex ==
  /\ \E j \in created :
       /\ status[j] = "absent"
       /\ \A k \in created : status[k] # "absent" => born[j] <= born[k]
       /\ created' = created \ {j}
  /\ UNCHANGED <<status, updated, inflight, perKey, born, admitted, admittedBy,
                 drifted, deadLetters, now>>

(* Redis expires the keys whose TTL runs out at the next instant.           *)
Tick ==
  LET t == now + 1
      gone == {j \in Jobs : status[j] # "absent" /\ updated[j] + TTL <= t}
      totalGone == admitted + TTL <= t
      keysGone == {o \in Owners : admittedBy[o] + TTL <= t}
  IN
  /\ now < Horizon
  /\ now' = t
  /\ status' = [j \in Jobs |-> IF j \in gone THEN "absent" ELSE status[j]]
  /\ inflight' = IF totalGone THEN 0 ELSE inflight
  /\ created' = IF totalGone THEN {} ELSE created
  /\ perKey' = [o \in Owners |-> IF o \in keysGone THEN 0 ELSE perKey[o]]
  /\ drifted' = \/ drifted
                \/ gone \cap LiveJobs # {}
                \/ totalGone /\ LiveJobs # {}
                \/ \E o \in keysGone : LiveJobsOf(o) # {}
  /\ UNCHANGED <<updated, born, admitted, admittedBy, deadLetters>>

-----------------------------------------------------------------------------
StoreTypeOK ==
  /\ status \in [Jobs -> Status]
  /\ updated \in [Jobs -> Nat]
  /\ inflight \in Nat
  /\ perKey \in [Owners -> Nat]
  /\ created \in SUBSET Jobs
  /\ born \in [Jobs -> Nat]
  /\ admitted \in Nat
  /\ admittedBy \in [Owners -> Nat]
  /\ deadLetters \in Seq(Jobs)
  /\ now \in Nat
  /\ drifted \in BOOLEAN
=============================================================================
