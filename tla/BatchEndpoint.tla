--------------------------- MODULE BatchEndpoint ----------------------------
(***************************************************************************)
(* POST /v1/redact/batch (app/api/batch.py) and POST /v1/detect            *)
(* (app/api/detect.py) on the way to the model, next to the calls of the   *)
(* pipeline.  A request is cut at its awaits.  A detection is a request    *)
(* with one item; the items of a batch are tasks under asyncio.gather, of  *)
(* which Concurrency at a time hold the batch's own semaphore.  That one   *)
(* is used on one loop only and reduced to a count.  An item makes one     *)
(* call; what it does to the text is in Redaction.                         *)
(***************************************************************************)
EXTENDS Inference

CONSTANTS
  Requests,
  ItemsOf     \* the calls of each request

ASSUME RequestAssumption ==
  /\ ItemsOf \in [Requests -> SUBSET (Callers \ Piped)]
  /\ \A r, q \in Requests : r # q => ItemsOf[r] \cap ItemsOf[q] = {}

VARIABLES
  required,   \* settings.audit_required
  phase,      \* "new", "run", "expire", "audit", "over"
  reply,      \* status code of the response
  line,       \* the audit event is in the log
  late        \* history: the calls under way when their request was answered

requests == <<required, phase, reply, line, late>>
vars == <<inference, requests>>

InCall(c) == at[c] \in {"wait", "infer"} \cup Midway
Settled(c) == at[c] \in {"done", "failed", "orphan", "cancelled"}

Init ==
  /\ InferenceInit
  /\ required \in BOOLEAN
  /\ phase = [r \in Requests |-> "new"]
  /\ reply = [r \in Requests |-> "none"]
  /\ line = [r \in Requests |-> FALSE]
  /\ late = {}

Goto(r, p) == phase' = [phase EXCEPT ![r] = p] /\ UNCHANGED <<required, reply, late>>
Answer(r, code) ==
  /\ phase' = [phase EXCEPT ![r] = "over"]
  /\ reply' = [reply EXCEPT ![r] = code]
  /\ late' = late \cup {c \in ItemsOf[r] : phase[r] # "new" /\ ~Settled(c)}
  /\ UNCHANGED required

-----------------------------------------------------------------------------
(* Not set up, too large, or its policy is not available; else the tasks   *)
(* of the items are made.                                                  *)
Accept(r) ==
  /\ phase[r] = "new"
  /\ \/ Goto(r, "run")
     \/ \E code \in {"413", "503"} : Answer(r, code)
  /\ UNCHANGED <<inference, line>>

(* run_one: an item gets into the batch's semaphore and calls detect. *)
RunOne(r, c) ==
  /\ c \in ItemsOf[r]
  /\ phase[r] = "run" \/ c \in late
  /\ Cardinality({d \in ItemsOf[r] : InCall(d)}) < Concurrency
  /\ Detect(c)
  /\ UNCHANGED requests

(* gather raises what the first item raised; the others go on, unless the  *)
(* deadline has cancelled them all.                                        *)
Failed(r) ==
  /\ \/ phase[r] = "run"
     \/ phase[r] = "expire" /\ \A c \in ItemsOf[r] : Settled(c)
  /\ \E c \in ItemsOf[r] : at[c] = "failed"
  /\ Answer(r, "500")
  /\ UNCHANGED <<inference, line>>

(* asyncio.timeout cancels gather, and gather its items; all of them have  *)
(* ended when gather raises.                                               *)
Timeout(r) ==
  /\ phase[r] = "run"
  /\ \A c \in Callers \ threaded : at[c] \notin Midway
  /\ Goto(r, "expire")
  /\ UNCHANGED <<inference, line>>

CancelItem(r, c) ==
  /\ phase[r] = "expire" /\ c \in ItemsOf[r]
  /\ \/ Cancel(c)
     \/ at[c] = "idle" /\ Move(c, "cancelled") /\ UNCHANGED <<threaded, semaphore>>
  /\ UNCHANGED requests

BugTimedOut(r) ==
  /\ phase[r] = "expire"
  /\ Answer(r, "504")
  /\ UNCHANGED <<inference, line>>
TimedOut(r) ==
  /\ phase[r] = "expire"
  /\ \A c \in ItemsOf[r] : Settled(c)
  /\ Answer(r, "504")
  /\ UNCHANGED <<inference, line>>

BugGathered(r) ==
  /\ phase[r] = "run"
  /\ \A c \in ItemsOf[r] : Settled(c)
  /\ Goto(r, "audit")
  /\ UNCHANGED <<inference, line>>
Gathered(r) ==
  /\ phase[r] = "run"
  /\ \A c \in ItemsOf[r] : at[c] = "done"
  /\ Goto(r, "audit")
  /\ UNCHANGED <<inference, line>>

(* audit.record, as in Stream. *)
Audit(r) ==
  /\ phase[r] = "audit"
  /\ \/ line' = [line EXCEPT ![r] = TRUE] /\ Answer(r, "200")
     \/ required /\ Answer(r, "500") /\ \E b \in BOOLEAN : line' = [line EXCEPT ![r] = b]
     \/ ~required /\ Answer(r, "200") /\ UNCHANGED line
  /\ UNCHANGED inference

(* A call of the pipeline or, where there is none, of another request on   *)
(* the main loop, which may be cancelled.                                  *)
Other(c) == c \in Piped /\ (Detect(c) \/ Cancel(c)) /\ UNCHANGED requests

Step(c) == Advance(c) /\ UNCHANGED requests

Progress(r) ==
  \/ Failed(r) \/ TimedOut(r) \/ Gathered(r) \/ Audit(r)
  \/ \E c \in ItemsOf[r] : RunOne(r, c) \/ CancelItem(r, c)

Next ==
  \/ \E c \in Callers : Other(c) \/ Step(c)
  \/ \E r \in Requests : Accept(r) \/ Timeout(r) \/ Progress(r)

(* The loop and the threads run, and the model returns. *)
Spec ==
  /\ Init /\ [][Next]_vars
  /\ \A c \in Callers : WF_vars(Step(c))
  /\ \A r \in Requests : WF_vars(Progress(r))

-----------------------------------------------------------------------------
(* Properties.                                                             *)

(* The calls that have a slot: in the model, or on the way there.          *)
Inside == {c \in Callers : at[c] = "infer" \/ (at[c] \in Waking /\ goal[c] = "infer")}

(* The semaphore never gives a slot twice, whatever threads race for it,   *)
(* how calls fail or are cancelled while they wait, when they have just    *)
(* been granted it or while they run (detect).  On one loop it also loses  *)
(* none, and so keeps its bound; the threads of the pipeline can lose      *)
(* slots, when two calls wake one waiter, and race past the bound.         *)
SemaphoreExact ==
  /\ value + Cardinality(Inside) + Cardinality(granted) <= Concurrency
  /\ threaded = {} =>
       /\ value = Concurrency - Cardinality(Inside) - Cardinality(granted)
       /\ Cardinality(Inside) <= Concurrency

(* No call runs on after its request was answered, except for those of a   *)
(* batch that failed: a deadline waits for what it cancels                 *)
(* (redact_batch).                                                         *)
NothingRunsLate ==
  \A r \in Requests : late \cap ItemsOf[r] # {} => \E c \in ItemsOf[r] : at[c] = "failed"

(* A success has every item's result and its audit event (redact_batch,    *)
(* detect).                                                                *)
BatchIsWhole ==
  \A r \in Requests :
    reply[r] = "200" => (\A c \in ItemsOf[r] : at[c] = "done") /\ (required => line[r])

(* Where all calls are on one loop, every accepted request is answered and *)
(* every call ends: the two semaphores never wait for each other           *)
(* (redact_batch, detect).                                                 *)
CallsEnd ==
  threaded = {} =>
    /\ \A r \in Requests : (phase[r] = "run") ~> (phase[r] = "over")
    /\ \A c \in Callers : (at[c] = "wait") ~> Settled(c)

=============================================================================
