-------------------------- MODULE InferenceProofs ---------------------------
(***************************************************************************)
(* What holds of batches and detections, and of the semaphore they share,  *)
(* for every number of requests, items and calls, and every limit.  For    *)
(* requests the invariant adds to the two properties that one which goes   *)
(* to its audit event has all of its results, and that calls are late only *)
(* after the answer; for the semaphore, that who waits is in its queue.    *)
(***************************************************************************)
EXTENDS BatchEndpoint, FiniteSetTheorems, TLAPS

Phase == {"new", "run", "expire", "audit", "over"}
Code == {"none", "200", "413", "500", "503", "504"}

(* Where requests and calls may be. *)
RequestsTyped ==
  /\ at \in [Callers -> Location]
  /\ required \in BOOLEAN
  /\ phase \in [Requests -> Phase]
  /\ reply \in [Requests -> Code]
  /\ line \in [Requests -> BOOLEAN]
  /\ late \subseteq Callers
  /\ goal \in [Callers -> Location]

(* The results of a request are there from its audit on. *)
AuditedIsDone ==
  \A r \in Requests : phase[r] = "audit" => \A c \in ItemsOf[r] : at[c] = "done"

AnsweredIsOver == \A r \in Requests : reply[r] # "none" => phase[r] = "over"

RequestInv ==
  RequestsTyped /\ AuditedIsDone /\ AnsweredIsOver /\ NothingRunsLate /\ BatchIsWhole

(* A call that has its result keeps it, and so does one that failed: no    *)
(* step of detect or of a cancellation moves it again.                     *)
Keeps == \A c \in Callers : at[c] \in {"done", "failed"} => at'[c] = at[c]

(* Every step of a call, with or without its request, keeps the results.   *)
Kept ==
  /\ at' \in [Callers -> Location] /\ goal' \in [Callers -> Location]
  /\ Keeps

LEMMA DetectKeeps ==
  ASSUME RequestsTyped, NEW c \in Callers, Detect(c)
  PROVE  Kept
  BY DEF RequestsTyped, Detect, Move, Kept, Keeps, Location, semaphore, wakeups

(* A call at a place it can leave moves to l, or wakes others first. *)
LEMMA WakeKeeps ==
  ASSUME RequestsTyped, NEW c \in Callers, at[c] \notin {"done", "failed"},
         NEW l \in Location, NEW v, NEW q, NEW g, NEW n, WakeWaiters(c, v, q, g, n, l)
  PROVE  Kept
<1>1. \/ Move(c, l) /\ UNCHANGED goal
      \/ (Move(c, "wake") \/ Move(c, "pick")) /\ goal' = [goal EXCEPT ![c] = l]
  BY DEF WakeWaiters
<1>2. QED BY <1>1 DEF RequestsTyped, Move, Kept, Keeps, Location

LEMMA CancelKeeps ==
  ASSUME RequestsTyped, NEW c \in Callers, Cancel(c)
  PROVE  Kept
<1>1. CASE at[c] = "wait"
  BY <1>1, WakeKeeps DEF Cancel, Cancelled, Acquired, Location
<1>2. CASE at[c] = "infer"
  BY <1>2, WakeKeeps DEF Cancel, Cancelled, Release, Location
<1>3. QED BY <1>1, <1>2 DEF Cancel, Cancelled

LEMMA AdvanceKeeps ==
  ASSUME RequestsTyped, NEW c \in Callers, Advance(c)
  PROVE  Kept
<1>1. CASE Take(c) \/ Join(c) \/ ThreadEnds(c)
  BY <1>1 DEF RequestsTyped, Take, Join, ThreadEnds, Move, Kept, Keeps, Location, semaphore, wakeups
<1>2. CASE Resume(c)
  BY <1>2, WakeKeeps DEF Resume, Acquired, Location
<1>3. CASE Return(c)
  BY <1>3, WakeKeeps DEF Return, Release, Location
<1>4. CASE TestValue(c) \/ PickNext(c) \/ Grant(c)
  <2>1. at[c] \notin {"done", "failed"}
    BY <1>4 DEF TestValue, PickNext, Grant
  <2>2. \E l \in Location : (Move(c, l) /\ UNCHANGED goal) \/ Proceed(c, l)
    BY <1>4 DEF TestValue, PickNext, Grant, RequestsTyped, Location, wakeups
  <2>3. QED BY <2>1, <2>2 DEF RequestsTyped, Move, Proceed, Kept, Keeps, Location
<1>5. QED BY <1>1, <1>2, <1>3, <1>4 DEF Advance

(* A step that leaves the requests alone and keeps the results preserves   *)
(* the invariant.                                                          *)
LEMMA CallStep ==
  ASSUME RequestInv, Kept, UNCHANGED requests
  PROVE  RequestInv'
<1> USE DEF Kept
<1>1. \A r \in Requests : ItemsOf[r] \subseteq Callers
  BY RequestAssumption
<1>2. RequestsTyped'
  BY DEF RequestInv, RequestsTyped, requests
<1>3. AuditedIsDone' /\ AnsweredIsOver'
  BY <1>1 DEF RequestInv, AuditedIsDone, AnsweredIsOver, Keeps, requests
<1>4. NothingRunsLate'
  BY <1>1 DEF RequestInv, NothingRunsLate, Keeps, requests
<1>5. BatchIsWhole'
  BY <1>1 DEF RequestInv, BatchIsWhole, Keeps, requests
<1>6. QED BY <1>2, <1>3, <1>4, <1>5 DEF RequestInv

(* An answer to r, with code and with the audit event or without: late     *)
(* calls are there only if an item failed, and a success has the results.  *)
LEMMA AnswerStep ==
  ASSUME RequestInv, NEW r \in Requests, NEW code \in Code,
         Answer(r, code), UNCHANGED <<at, goal>>,
         line' \in [Requests -> BOOLEAN],
         \A q \in Requests : q # r => line'[q] = line[q],
         \/ phase[r] = "new"
         \/ \A c \in ItemsOf[r] : Settled(c)
         \/ \E c \in ItemsOf[r] : at[c] = "failed",
         code = "200" => (\A c \in ItemsOf[r] : at[c] = "done") /\ (required => line'[r])
  PROVE  RequestInv'
<1>1. \A q \in Requests : ItemsOf[q] \subseteq Callers
  BY RequestAssumption
<1>2. \A q \in Requests : q # r => ItemsOf[q] \cap ItemsOf[r] = {}
  BY RequestAssumption
<1>3. /\ \A q \in Requests : q # r => phase'[q] = phase[q] /\ reply'[q] = reply[q]
      /\ phase'[r] = "over" /\ reply'[r] = code /\ required' = required
  BY DEF Answer, RequestInv, RequestsTyped
<1>4. RequestsTyped'
  BY <1>1 DEF RequestInv, RequestsTyped, Answer, Phase
<1>5. AuditedIsDone'
  BY <1>3 DEF RequestInv, AuditedIsDone
<1>6. AnsweredIsOver'
  BY <1>3 DEF RequestInv, AnsweredIsOver
<1>7. NothingRunsLate'
  <2> SUFFICES ASSUME NEW q \in Requests, late' \cap ItemsOf[q] # {}
               PROVE  \E c \in ItemsOf[q] : at[c] = "failed"
    BY DEF NothingRunsLate
  <2>1. CASE late \cap ItemsOf[q] # {}
    BY <2>1 DEF RequestInv, NothingRunsLate
  <2>2. CASE late \cap ItemsOf[q] = {}
    <3>1. PICK c \in ItemsOf[q] : c \in ItemsOf[r] /\ phase[r] # "new" /\ ~Settled(c)
      BY <2>2 DEF Answer
    <3>2. QED BY <3>1, <1>2
  <2>3. QED BY <2>1, <2>2
<1>8. BatchIsWhole'
  BY <1>3 DEF RequestInv, BatchIsWhole
<1>9. QED BY <1>4, <1>5, <1>6, <1>7, <1>8 DEF RequestInv

(* A request that goes on, to its audit event only with its results.       *)
LEMMA GotoStep ==
  ASSUME RequestInv, NEW r \in Requests, NEW p \in Phase, Goto(r, p),
         UNCHANGED <<at, goal, line>>, phase[r] # "over",
         p = "audit" => \A c \in ItemsOf[r] : at[c] = "done"
  PROVE  RequestInv'
<1>1. /\ \A q \in Requests : q # r => phase'[q] = phase[q]
      /\ phase'[r] = p
  BY DEF Goto, RequestInv, RequestsTyped
<1>2. RequestsTyped'
  BY DEF RequestInv, RequestsTyped, Goto
<1>3. AuditedIsDone'
  BY <1>1 DEF RequestInv, AuditedIsDone
<1>4. AnsweredIsOver'
  BY <1>1 DEF RequestInv, AnsweredIsOver, Goto
<1>5. NothingRunsLate' /\ BatchIsWhole'
  BY DEF RequestInv, NothingRunsLate, BatchIsWhole, Goto
<1>6. QED BY <1>2, <1>3, <1>4, <1>5 DEF RequestInv

LEMMA RequestInvInit == Init => RequestInv
  BY DEF Init, InferenceInit, RequestInv, RequestsTyped, AuditedIsDone, AnsweredIsOver,
         NothingRunsLate, BatchIsWhole, Location, Phase, Code

LEMMA RequestInvStep == RequestInv /\ [Next]_vars => RequestInv'
<1> SUFFICES ASSUME RequestInv, [Next]_vars PROVE RequestInv'
  OBVIOUS
<1>0. RequestsTyped BY DEF RequestInv
<1>1. ASSUME NEW c \in Callers, Other(c) PROVE RequestInv'
  BY <1>0, <1>1, DetectKeeps, CancelKeeps, CallStep DEF Other
<1>2. ASSUME NEW c \in Callers, Step(c) PROVE RequestInv'
  BY <1>0, <1>2, AdvanceKeeps, CallStep DEF Step
<1>3. ASSUME NEW r \in Requests, Accept(r) PROVE RequestInv'
  <2>1. UNCHANGED <<at, goal, line>> /\ phase[r] = "new"
    BY <1>3 DEF Accept, inference, semaphore, wakeups
  <2>2. CASE Goto(r, "run")
    BY <2>1, <2>2, GotoStep DEF Phase
  <2>3. CASE \E code \in {"413", "503"} : Answer(r, code)
    <3>1. PICK code \in {"413", "503"} : Answer(r, code)
      BY <2>3
    <3>2. code \in Code /\ code # "200" /\ line' \in [Requests -> BOOLEAN]
      BY <2>1, <1>0 DEF Code, RequestsTyped
    <3>3. QED BY <2>1, <3>1, <3>2, AnswerStep
  <2>4. QED BY <1>3, <2>2, <2>3 DEF Accept
<1>4. ASSUME NEW r \in Requests, Timeout(r) PROVE RequestInv'
  BY <1>4, GotoStep DEF Timeout, Phase, inference, semaphore, wakeups
<1>5. ASSUME NEW r \in Requests, Failed(r) PROVE RequestInv'
  <2>1. UNCHANGED <<at, goal, line>> /\ Answer(r, "500") /\ \E c \in ItemsOf[r] : at[c] = "failed"
    BY <1>5 DEF Failed, inference, semaphore, wakeups
  <2>2. "500" \in Code /\ line' \in [Requests -> BOOLEAN]
    BY <2>1, <1>0 DEF Code, RequestsTyped
  <2>3. QED BY <2>1, <2>2, AnswerStep
<1>6. ASSUME NEW r \in Requests, TimedOut(r) PROVE RequestInv'
  <2>1. UNCHANGED <<at, goal, line>> /\ Answer(r, "504") /\ \A c \in ItemsOf[r] : Settled(c)
    BY <1>6 DEF TimedOut, inference, semaphore, wakeups
  <2>2. "504" \in Code /\ line' \in [Requests -> BOOLEAN]
    BY <2>1, <1>0 DEF Code, RequestsTyped
  <2>3. QED BY <2>1, <2>2, AnswerStep
<1>7. ASSUME NEW r \in Requests, Gathered(r) PROVE RequestInv'
  BY <1>7, GotoStep DEF Gathered, Phase, inference, semaphore, wakeups
<1>8. ASSUME NEW r \in Requests, Audit(r) PROVE RequestInv'
  <2>1. UNCHANGED <<at, goal>> /\ phase[r] = "audit"
    BY <1>8 DEF Audit, inference, semaphore, wakeups
  <2>2. \A c \in ItemsOf[r] : at[c] = "done" /\ Settled(c)
    BY <2>1 DEF RequestInv, AuditedIsDone, Settled
  <2>3. line' \in [Requests -> BOOLEAN] /\ \A q \in Requests : q # r => line'[q] = line[q]
    BY <1>8, <1>0 DEF Audit, RequestsTyped
  <2>4. PICK code \in Code : Answer(r, code) /\ (code = "200" => (required => line'[r]))
    BY <1>8, <1>0 DEF Audit, RequestsTyped, Code
  <2>5. QED BY <2>1, <2>2, <2>3, <2>4, AnswerStep
<1>9. ASSUME NEW r \in Requests, NEW c \in ItemsOf[r], RunOne(r, c) \/ CancelItem(r, c)
      PROVE  RequestInv'
  <2>1. c \in Callers BY RequestAssumption
  <2>2. UNCHANGED requests BY <1>9 DEF RunOne, CancelItem
  <2>3. Kept
    <3>1. CASE Detect(c)
      BY <1>0, <2>1, <3>1, DetectKeeps
    <3>2. CASE Cancel(c)
      BY <1>0, <2>1, <3>2, CancelKeeps
    <3>3. CASE at[c] = "idle" /\ Move(c, "cancelled") /\ UNCHANGED semaphore
      BY <1>0, <2>1, <3>3 DEF RequestsTyped, Move, Kept, Keeps, Location, semaphore, wakeups
    <3>4. QED BY <1>9, <3>1, <3>2, <3>3 DEF RunOne, CancelItem
  <2>4. QED BY <2>2, <2>3, CallStep
<1>10. CASE UNCHANGED vars
  <2>1. Kept /\ UNCHANGED requests
    BY <1>0, <1>10 DEF RequestsTyped, Kept, Keeps, vars, inference, semaphore, wakeups
  <2>2. QED BY <2>1, CallStep
<1>11. QED
  BY <1>1, <1>2, <1>3, <1>4, <1>5, <1>6, <1>7, <1>8, <1>9, <1>10 DEF Next, Progress

(* The invariant of requests holds throughout (redact_batch, detect).      *)
THEOREM RequestsAreSound == Spec => []RequestInv
  BY RequestInvInit, RequestInvStep, PTL DEF Spec

(* However many requests and items share the detector, no call runs on     *)
(* after the answer unless an item of its batch has failed (redact_batch). *)
THEOREM NothingIsLate == Spec => []NothingRunsLate
<1>1. RequestInv => NothingRunsLate BY DEF RequestInv
<1>2. QED BY <1>1, RequestsAreSound, PTL

(* A success never lacks a result or, where it is required, its event      *)
(* (redact_batch, detect).                                                 *)
THEOREM BatchesAreWhole == Spec => []BatchIsWhole
<1>1. RequestInv => BatchIsWhole BY DEF RequestInv
<1>2. QED BY <1>1, RequestsAreSound, PTL

-----------------------------------------------------------------------------
(* The semaphore.  Its invariant adds that a call which waits is in the    *)
(* queue and, on one loop, that a call between its test of the semaphore   *)
(* and what follows is alone there and finds the slot it saw.              *)
Goals == {"idle", "infer", "cancelled", "done", "failed", "orphan"}
SemaphoreTyped ==
  /\ at \in [Callers -> Location]
  /\ goal \in [Callers -> Goals] /\ pick \in [Callers -> Callers]
  /\ value \in Int
  /\ queue \in Seq(Callers)
  /\ granted \subseteq Callers /\ IsFiniteSet(granted)
  /\ IsFiniteSet(Inside)

WaitersQueued == \A c \in Callers : at[c] = "wait" => \E i \in DOMAIN queue : queue[i] = c

AtSemaphore(c) == at[c] \in Midway
OneLoop ==
  threaded = {} =>
    /\ value >= 0
    /\ \A c \in Callers : at[c] \notin Waking
    /\ \A c \in Callers : at[c] = "take" => value > 0
    /\ \A c, d \in Callers : AtSemaphore(c) /\ AtSemaphore(d) => c = d

Exact ==
  /\ value + Cardinality(Inside) + Cardinality(granted) <= Concurrency
  /\ threaded = {} => value + Cardinality(Inside) + Cardinality(granted) = Concurrency

SemaphoreInv == SemaphoreTyped /\ WaitersQueued /\ OneLoop /\ Exact

(* Who is woken was not granted before, so each adds one. *)
LEMMA FirstAdds ==
  ASSUME NEW q \in Seq(Callers), NEW g \in SUBSET Callers, IsFiniteSet(g), NEW n \in Nat,
         NEW W \in First(q, g, n)
  PROVE  /\ Cardinality(W) \in Nat /\ Cardinality(W) <= n
         /\ g \cup W \subseteq Callers /\ IsFiniteSet(g \cup W)
         /\ Cardinality(g \cup W) = Cardinality(g) + Cardinality(W)
<1>1. IsFiniteSet(DOMAIN q)
  BY FS_Interval
<1>2. IsFiniteSet(ToSet(q)) /\ ToSet(q) \subseteq Callers
  <2>1. q \in Surjection(DOMAIN q, ToSet(q))
    BY DEF Surjection, ToSet
  <2>2. QED BY <1>1, <2>1, FS_Surjection DEF ExistsSurjection, ToSet
<1>3. W \subseteq ToSet(q) /\ g \cap W = {} /\ Cardinality(W) <= n
  BY DEF First, Pending
<1>4. IsFiniteSet(W) /\ Cardinality(W) \in Nat
  BY <1>2, <1>3, FS_Subset, FS_CardinalityType
<1>5. IsFiniteSet(g \cup W) /\ Cardinality(g \cup W) = Cardinality(g) + Cardinality(W) - Cardinality(g \cap W)
  BY <1>4, FS_Union
<1>6. Cardinality(g \cap W) = 0 /\ Cardinality(g) \in Nat
  BY <1>3, FS_EmptySet, FS_CardinalityType
<1>7. QED BY <1>2, <1>3, <1>4, <1>5, <1>6

(* A step of one call adds one to the calls that have a slot, takes one    *)
(* away or leaves them.                                                    *)
Has(c) == at[c] = "infer" \/ (at[c] \in Waking /\ goal[c] = "infer")
LEMMA Counts ==
  ASSUME SemaphoreTyped, NEW c \in Callers,
         \A d \in Callers \ {c} : at'[d] = at[d] /\ goal'[d] = goal[d]
  PROVE  /\ IsFiniteSet(Inside') /\ Cardinality(Inside) \in Nat /\ Cardinality(granted) \in Nat
         /\ Has(c)' /\ ~Has(c) => Cardinality(Inside') = Cardinality(Inside) + 1
         /\ Has(c) /\ ~Has(c)' => Cardinality(Inside') = Cardinality(Inside) - 1
         /\ (Has(c)' <=> Has(c)) => Inside' = Inside
<1>1. /\ Has(c)' => Inside' = Inside \cup {c}
      /\ ~Has(c)' => Inside' = Inside \ {c}
      /\ c \in Inside <=> Has(c)
  BY DEF Inside, Has
<1>2. IsFiniteSet(Inside) /\ IsFiniteSet(granted)
  BY DEF SemaphoreTyped
<1>3. /\ IsFiniteSet(Inside \cup {c}) /\ IsFiniteSet(Inside \ {c})
      /\ c \notin Inside => Cardinality(Inside \cup {c}) = Cardinality(Inside) + 1
      /\ c \in Inside => Cardinality(Inside \ {c}) = Cardinality(Inside) - 1
      /\ c \in Inside => Inside \cup {c} = Inside
      /\ c \notin Inside => Inside \ {c} = Inside
  BY <1>2, FS_AddElement, FS_RemoveElement
<1>4. Cardinality(Inside) \in Nat /\ Cardinality(granted) \in Nat
  BY <1>2, FS_CardinalityType
<1>5. CASE Has(c)'
  BY <1>1, <1>3, <1>4, <1>5
<1>6. CASE ~Has(c)'
  BY <1>1, <1>3, <1>4, <1>6
<1>7. QED BY <1>5, <1>6

(* A waiter that leaves the queue takes no other with it. *)
LEMMA LeaveKeeps ==
  ASSUME SemaphoreTyped, NEW c \in Callers, \E i \in DOMAIN queue : queue[i] = c
  PROVE  /\ Leave(c) \in Seq(Callers)
         /\ \A d \in Callers \ {c} : (\E i \in DOMAIN queue : queue[i] = d)
                                     => \E i \in DOMAIN Leave(c) : Leave(c)[i] = d
<1> DEFINE k == CHOOSE i \in DOMAIN queue : queue[i] = c
           s == SubSeq(queue, 1, k - 1)
           t == SubSeq(queue, k + 1, Len(queue))
           q == s \o t
<1>1. k \in 1..Len(queue) /\ queue[k] = c /\ Leave(c) = q
  BY DEF Leave, RemoveAt, SemaphoreTyped
<1>2. queue \in Seq(Callers)
  BY DEF SemaphoreTyped
<1> HIDE DEF k
<1>3. /\ s \in Seq(Callers) /\ Len(s) = k - 1
      /\ t \in Seq(Callers) /\ Len(t) = Len(queue) - k
      /\ \A i \in 1..(k - 1) : s[i] = queue[i]
      /\ \A i \in 1..(Len(queue) - k) : t[i] = queue[k + i]
  BY <1>1, <1>2
<1> HIDE DEF s, t
<1>4. q \in Seq(Callers) /\ Len(q) = Len(queue) - 1
  BY <1>1, <1>2, <1>3
<1>5. \A i \in 1..(k - 1) : q[i] = queue[i]
  BY <1>1, <1>2, <1>3
<1>6. ASSUME NEW i \in k..(Len(queue) - 1) PROVE q[i] = queue[i + 1]
  <2>1. i \in (Len(s) + 1)..(Len(s) + Len(t)) /\ i - Len(s) \in 1..(Len(queue) - k)
    BY <1>1, <1>2, <1>3
  <2>2. q[i] = t[i - Len(s)]
    BY <1>3, <2>1
  <2>3. k + (i - Len(s)) = i + 1
    BY <1>1, <1>2, <1>3
  <2>4. QED BY <1>3, <2>1, <2>2, <2>3
<1> HIDE DEF q
<1>7. ASSUME NEW d \in Callers \ {c}, NEW i \in DOMAIN queue, queue[i] = d
      PROVE  \E j \in DOMAIN q : q[j] = d
  <2>1. i # k /\ i \in 1..Len(queue) /\ DOMAIN q = 1..Len(q)
    BY <1>1, <1>2, <1>4, <1>7
  <2>2. CASE i < k
    BY <1>1, <1>4, <1>5, <1>7, <2>1, <2>2
  <2>3. CASE i > k
    <3>1. i - 1 \in k..(Len(queue) - 1) /\ (i - 1) + 1 = i
      BY <1>1, <2>1, <2>3
    <3>2. q[i - 1] = d /\ i - 1 \in DOMAIN q
      BY <1>1, <1>4, <1>6, <1>7, <2>1, <3>1
    <3>3. QED BY <3>2
  <2>4. QED BY <1>1, <2>1, <2>2, <2>3
<1>8. QED BY <1>1, <1>4, <1>7

LEMMA SemaphoreInvInit == Init => SemaphoreInv
<1> SUFFICES ASSUME Init PROVE SemaphoreInv
  OBVIOUS
<1>1. Inside = {} /\ granted = {}
  BY DEF Init, InferenceInit, Inside
<1>2. IsFiniteSet({}) /\ Cardinality({}) = 0
  BY FS_EmptySet
<1>3. SemaphoreTyped
  BY <1>1, <1>2, InferenceAssumption DEF Init, InferenceInit, SemaphoreTyped, Location, Goals
<1>4. WaitersQueued /\ OneLoop
  BY InferenceAssumption DEF Init, InferenceInit, WaitersQueued, OneLoop, AtSemaphore, Midway, Waking
<1>5. Exact
  BY <1>1, <1>2, InferenceAssumption DEF Init, InferenceInit, Exact
<1>6. QED BY <1>3, <1>4, <1>5 DEF SemaphoreInv

(* On one loop, a step that waits for the loop finds nobody else between   *)
(* the semaphore's test and its use.                                       *)
LEMMA LoopFree ==
  ASSUME SemaphoreInv, threaded = {}, NEW c \in Callers, LoopIsFree(c), ~AtSemaphore(c)
  PROVE  \A d \in Callers : ~AtSemaphore(d)
  BY DEF LoopIsFree, AtSemaphore

(* A call that only moves, and neither holds nor waits for the model then. *)
LEMMA MoveStep ==
  ASSUME SemaphoreInv, NEW c \in Callers, NEW l \in Location \ ({"infer", "wait", "take"} \cup Waking),
         ~Has(c), Move(c, l), UNCHANGED <<threaded, value, queue, granted, wakeups>>,
         l = "join" => AtSemaphore(c) \/ LoopIsFree(c)
  PROVE  SemaphoreInv'
<1>0. (\A d \in Callers \ {c} : at'[d] = at[d] /\ goal'[d] = goal[d]) /\ at'[c] = l
  BY DEF SemaphoreInv, SemaphoreTyped, Move, wakeups
<1>1. Inside' = Inside
  BY <1>0, Counts DEF SemaphoreInv, Has
<1>2. SemaphoreTyped'
  BY <1>1 DEF SemaphoreInv, SemaphoreTyped, Move, wakeups
<1>3. WaitersQueued'
  BY DEF SemaphoreInv, SemaphoreTyped, WaitersQueued, Move
<1>4. OneLoop'
  BY LoopFree DEF SemaphoreInv, SemaphoreTyped, OneLoop, Move, AtSemaphore, Midway
<1>5. Exact'
  BY <1>1 DEF SemaphoreInv, Exact
<1>6. QED BY <1>2, <1>3, <1>4, <1>5 DEF SemaphoreInv

LEMMA DetectStep ==
  ASSUME SemaphoreInv, NEW c \in Callers, Detect(c)
  PROVE  SemaphoreInv'
<1>0. ~Has(c) /\ UNCHANGED <<threaded, value, queue, granted, wakeups>>
  BY DEF Detect, Has, Waking, semaphore
<1>1. CASE Locked
  BY <1>0, <1>1, MoveStep DEF Detect, Location, Waking
<1>2. CASE ~Locked
  <2>1. Move(c, "take") /\ at[c] = "idle"
    BY <1>2 DEF Detect
  <2>2. (\A d \in Callers \ {c} : at'[d] = at[d] /\ goal'[d] = goal[d]) /\ at'[c] = "take"
    BY <1>0, <2>1 DEF Move, SemaphoreInv, SemaphoreTyped, wakeups
  <2>3. Inside' = Inside
    BY <1>0, <2>2, Counts DEF SemaphoreInv, Has, Waking
  <2>4. SemaphoreTyped'
    BY <1>0, <2>1, <2>3 DEF SemaphoreInv, SemaphoreTyped, Move, Location, wakeups
  <2>5. WaitersQueued'
    BY <1>0, <2>1 DEF SemaphoreInv, SemaphoreTyped, WaitersQueued, Move
  <2>6. OneLoop'
    <3> SUFFICES ASSUME threaded = {} PROVE OneLoop'
      BY <1>0 DEF OneLoop
    <3>1. \A d \in Callers : ~AtSemaphore(d)
      BY <2>1, LoopFree DEF Detect, AtSemaphore, Midway, Waking
    <3>2. value > 0
      BY <1>2 DEF SemaphoreInv, SemaphoreTyped, OneLoop, Locked
    <3>3. \A d \in Callers : AtSemaphore(d)' => d = c
      BY <2>2, <3>1 DEF AtSemaphore
    <3>4. \A d \in Callers : at'[d] \notin Waking
      BY <2>2, <3>1 DEF AtSemaphore, Midway, Waking
    <3>5. value' > 0 /\ value' >= 0
      BY <1>0, <3>2 DEF SemaphoreInv, SemaphoreTyped
    <3>6. QED BY <3>3, <3>4, <3>5 DEF OneLoop
  <2>7. Exact'
    BY <1>0, <2>3 DEF SemaphoreInv, Exact
  <2>8. QED BY <2>4, <2>5, <2>6, <2>7 DEF SemaphoreInv
<1>3. QED BY <1>1, <1>2

LEMMA TakeStep ==
  ASSUME SemaphoreInv, NEW c \in Callers, Take(c)
  PROVE  SemaphoreInv'
<1>0. /\ \A d \in Callers \ {c} : at'[d] = at[d] /\ goal'[d] = goal[d]
      /\ at[c] = "take" /\ at'[c] = "infer"
      /\ value' = value - 1 /\ UNCHANGED <<threaded, queue, granted, wakeups>>
  BY DEF SemaphoreInv, SemaphoreTyped, Take, Move, wakeups
<1>1. /\ IsFiniteSet(Inside') /\ Cardinality(Inside') = Cardinality(Inside) + 1
      /\ Cardinality(Inside) \in Nat /\ Cardinality(granted) \in Nat
  BY <1>0, Counts DEF SemaphoreInv, Has, Waking
<1>3. SemaphoreTyped'
  BY <1>0, <1>1 DEF SemaphoreInv, SemaphoreTyped, Take, Move, Location, wakeups
<1>4. WaitersQueued'
  BY <1>0 DEF SemaphoreInv, WaitersQueued
<1>5. OneLoop'
  BY <1>0 DEF SemaphoreInv, SemaphoreTyped, OneLoop, AtSemaphore, Midway, Waking
<1>6. Exact'
  BY <1>0, <1>1, InferenceAssumption DEF SemaphoreInv, SemaphoreTyped, Exact
<1>7. QED BY <1>3, <1>4, <1>5, <1>6 DEF SemaphoreInv

LEMMA JoinStep ==
  ASSUME SemaphoreInv, NEW c \in Callers, Join(c)
  PROVE  SemaphoreInv'
<1>0. UNCHANGED <<threaded, value, granted, wakeups>> /\ at[c] = "join" /\ ~Has(c)
  BY DEF Join, Has, Waking
<1>1. CASE Move(c, "wait") /\ queue' = Append(queue, c)
  <2>1. (\A d \in Callers \ {c} : at'[d] = at[d] /\ goal'[d] = goal[d]) /\ at'[c] = "wait"
    BY <1>0, <1>1 DEF Move, SemaphoreInv, SemaphoreTyped, wakeups
  <2>2. Inside' = Inside
    BY <1>0, <2>1, Counts DEF SemaphoreInv, Has, Waking
  <2>3. SemaphoreTyped'
    BY <1>0, <1>1, <2>2 DEF SemaphoreInv, SemaphoreTyped, Move, Location, wakeups
  <2>4. WaitersQueued'
    <3>1. /\ queue \in Seq(Callers) /\ Len(queue') = Len(queue) + 1
          /\ DOMAIN queue' = 1..(Len(queue) + 1) /\ DOMAIN queue = 1..Len(queue)
          /\ queue'[Len(queue) + 1] = c /\ \A i \in DOMAIN queue : queue'[i] = queue[i]
      BY <1>1 DEF SemaphoreInv, SemaphoreTyped
    <3>3. Len(queue) + 1 \in DOMAIN queue' /\ DOMAIN queue \subseteq DOMAIN queue'
      BY <3>1
    <3>4. QED BY <2>1, <3>1, <3>3 DEF SemaphoreInv, WaitersQueued
  <2>5. OneLoop'
    BY <1>0, <2>1 DEF SemaphoreInv, OneLoop, AtSemaphore, Midway, Waking
  <2>6. Exact'
    BY <1>0, <2>2 DEF SemaphoreInv, Exact
  <2>7. QED BY <2>3, <2>4, <2>5, <2>6 DEF SemaphoreInv
<1>2. CASE Move(c, "failed") /\ UNCHANGED queue
  BY <1>0, <1>2, MoveStep DEF Location, Waking
<1>3. QED BY <1>1, <1>2 DEF Join

(* A call that leaves the model or its wait, with the value v, the queue q *)
(* and the grants g that this leaves, and wakes up to n others: no slot is *)
(* counted twice in v, g and the call itself, and on one loop v allows n.  *)
LEMMA WakeStep ==
  ASSUME SemaphoreInv, NEW c \in Callers, NEW l \in Goals \ {"idle"}, NEW v \in Int,
         NEW q \in Seq(Callers), NEW g \in SUBSET Callers, IsFiniteSet(g), NEW n \in Nat,
         at[c] \in {"wait", "infer"}, LoopIsFree(c), UNCHANGED threaded, queue' = q,
         WakeWaiters(c, v, q, g, n, l),
         \A d \in Callers \ {c} : (\E i \in DOMAIN queue : queue[i] = d)
                                  => \E i \in DOMAIN q : q[i] = d,
         v + Cardinality(g) + (IF l = "infer" THEN 1 ELSE 0)
           = value + Cardinality(granted) + (IF at[c] = "infer" THEN 1 ELSE 0),
         threaded = {} => n <= v
  PROVE  SemaphoreInv'
<1>1. /\ \A d \in Callers \ {c} : at'[d] = at[d] /\ goal'[d] = goal[d]
      /\ at'[c] \in Goals \cup Waking /\ at' \in [Callers -> Location]
      /\ goal' \in [Callers -> Goals] /\ pick' = pick
      /\ Has(c)' <=> l = "infer"
      /\ Has(c) <=> at[c] = "infer"
      /\ threaded = {} => at'[c] \notin Midway
  <2>1. /\ pick' = pick
        /\ \/ threaded = {} /\ Move(c, l) /\ UNCHANGED goal
           \/ /\ threaded # {} /\ (Move(c, "wake") \/ Move(c, "pick"))
              /\ goal' = [goal EXCEPT ![c] = l]
    BY DEF WakeWaiters
  <2>2. /\ at \in [Callers -> Location] /\ goal \in [Callers -> Goals]
        /\ Goals \subseteq Location /\ Waking \subseteq Location
        /\ Goals \cap Midway = {} /\ {"wake", "pick"} \subseteq Waking /\ "infer" \notin Waking
    BY DEF SemaphoreInv, SemaphoreTyped, Goals, Location, Midway, Waking
  <2>3. Has(c) <=> at[c] = "infer"
    BY DEF Has, Waking
  <2>4. CASE threaded = {} /\ Move(c, l) /\ UNCHANGED goal
    BY <2>1, <2>2, <2>3, <2>4 DEF Move, Has, Midway
  <2>5. CASE /\ threaded # {} /\ (Move(c, "wake") \/ Move(c, "pick"))
             /\ goal' = [goal EXCEPT ![c] = l]
    BY <2>1, <2>2, <2>3, <2>5 DEF Move, Has
  <2>6. QED BY <2>1, <2>4, <2>5
<1>2. /\ IsFiniteSet(Inside') /\ Cardinality(Inside) \in Nat /\ Cardinality(granted) \in Nat
      /\ Cardinality(Inside') = Cardinality(Inside) + (IF l = "infer" THEN 1 ELSE 0)
                                 - (IF at[c] = "infer" THEN 1 ELSE 0)
  <2>1. SemaphoreTyped BY DEF SemaphoreInv
  <2>2. QED BY <1>1, <2>1, Counts
<1>3. PICK W \in SUBSET Callers :
        /\ value' = v - Cardinality(W) /\ Cardinality(W) \in Nat /\ Cardinality(W) <= n
        /\ granted' \subseteq Callers /\ IsFiniteSet(granted')
        /\ Cardinality(granted') = Cardinality(g) + Cardinality(W)
        /\ Cardinality(g) \in Nat
  <2>1. CASE threaded = {}
    <3>1. PICK W \in First(q, g, n) : value' = v - Cardinality(W) /\ granted' = g \cup W
      BY <2>1 DEF WakeWaiters
    <3>2. /\ Cardinality(W) \in Nat /\ Cardinality(W) <= n
          /\ g \cup W \subseteq Callers /\ IsFiniteSet(g \cup W)
          /\ Cardinality(g \cup W) = Cardinality(g) + Cardinality(W)
      <4>1. \A X \in First(q, g, n) :
              /\ Cardinality(X) \in Nat /\ Cardinality(X) <= n
              /\ g \cup X \subseteq Callers /\ IsFiniteSet(g \cup X)
              /\ Cardinality(g \cup X) = Cardinality(g) + Cardinality(X)
        BY FirstAdds
      <4>2. W \in First(q, g, n)
        BY <3>1
      <4>3. QED BY <4>1, <4>2
    <3>3. W \in SUBSET Callers /\ Cardinality(g) \in Nat
      BY <3>2, FS_CardinalityType
    <3>4. QED BY <3>1, <3>2, <3>3
  <2>2. CASE threaded # {}
    <3>1. value' = v /\ granted' = g
      BY <2>2 DEF WakeWaiters
    <3>2. Cardinality({}) = 0 /\ Cardinality(g) \in Nat
      BY FS_EmptySet, FS_CardinalityType
    <3>3. WITNESS {} \in SUBSET Callers
    <3>4. QED BY <3>1, <3>2
  <2>3. QED BY <2>1, <2>2
<1>4. SemaphoreTyped'
  BY <1>1, <1>2, <1>3 DEF SemaphoreInv, SemaphoreTyped
<1>5. WaitersQueued'
  <2>1. at'[c] # "wait"
    BY <1>1 DEF Goals, Waking
  <2>2. QED BY <1>1, <2>1 DEF SemaphoreInv, WaitersQueued
<1>6. OneLoop'
  <2> SUFFICES ASSUME threaded = {} PROVE OneLoop'
    BY DEF OneLoop
  <2>1. \A d \in Callers : ~AtSemaphore(d)
    BY LoopFree DEF AtSemaphore, Midway, Waking
  <2>2. \A d \in Callers : ~AtSemaphore(d)'
    BY <1>1, <2>1 DEF AtSemaphore
  <2>3. value' >= 0
    BY <1>3
  <2>4. \A d \in Callers : at'[d] \notin Waking /\ at'[d] # "take"
    BY <2>2 DEF AtSemaphore, Midway
  <2>5. QED BY <2>2, <2>3, <2>4 DEF OneLoop
<1>7. Exact'
  <2>1. value \in Int /\ value' \in Int /\ Concurrency \in Nat
    BY <1>3, InferenceAssumption DEF SemaphoreInv, SemaphoreTyped
  <2>2. value' + Cardinality(Inside') + Cardinality(granted')
          = value + Cardinality(Inside) + Cardinality(granted)
    <3> DEFINE a == IF l = "infer" THEN 1 ELSE 0
               b == IF at[c] = "infer" THEN 1 ELSE 0
    <3>1. a \in Int /\ b \in Int
      OBVIOUS
    <3>2. v + Cardinality(g) + a = value + Cardinality(granted) + b
      OBVIOUS
    <3>3. Cardinality(Inside') = Cardinality(Inside) + a - b
      BY <1>2
    <3> DEFINE i == Cardinality(Inside)
               j == Cardinality(granted)
               k == Cardinality(g)
               m == Cardinality(W)
    <3>4. i \in Nat /\ j \in Nat /\ k \in Nat /\ m \in Nat /\ value \in Int /\ v \in Int
      BY <1>2, <1>3, <2>1
    <3>5. value' = v - m /\ Cardinality(Inside') = i + a - b /\ Cardinality(granted') = k + m
      BY <1>3, <3>3
    <3>6. v + k + a = value + j + b
      BY <3>2
    <3> HIDE DEF a, b, i, j, k, m
    <3>7. (v - m) + (i + a - b) + (k + m) = value + i + j
      BY <3>1, <3>4, <3>6
    <3>8. value' + Cardinality(Inside') + Cardinality(granted') = value + i + j
      BY <3>5, <3>7
    <3>9. QED BY <3>8 DEF i, j
  <2>3. QED BY <2>2 DEF SemaphoreInv, Exact
<1>8. QED BY <1>4, <1>5, <1>6, <1>7 DEF SemaphoreInv

(* A call that held a slot. *)
LEMMA ReleaseStep ==
  ASSUME SemaphoreInv, NEW c \in Callers, NEW l \in {"done", "failed", "orphan"},
         at[c] = "infer", LoopIsFree(c), Release(c, l), UNCHANGED threaded
  PROVE  SemaphoreInv'
<1>1. /\ value + 1 \in Int /\ queue \in Seq(Callers) /\ granted \in SUBSET Callers
      /\ IsFiniteSet(granted) /\ Cardinality(granted) \in Nat /\ value \in Int
      /\ threaded = {} => 1 <= value + 1
  BY FS_CardinalityType DEF SemaphoreInv, SemaphoreTyped, OneLoop
<1>2. WakeWaiters(c, value + 1, queue, granted, 1, l) /\ queue' = queue
  BY DEF Release
<1>3. (value + 1) + Cardinality(granted) + 0 = value + Cardinality(granted) + 1
  BY <1>1
<1>4. l \in Goals \ {"idle"} /\ l # "infer"
  BY DEF Goals
<1>5. QED BY <1>1, <1>2, <1>3, <1>4, WakeStep

(* A waiter that goes on or gives up, with the value it leaves. *)
LEMMA WaiterStep ==
  ASSUME SemaphoreInv, NEW c \in Callers, NEW l \in {"infer", "cancelled"}, NEW v \in Int,
         at[c] = "wait", LoopIsFree(c), UNCHANGED threaded,
         queue' = Leave(c), Acquired(c, v, Leave(c), granted \ {c}, l),
         \/ l = "infer" /\ c \in granted /\ v = value
         \/ l = "cancelled" /\ v = IF c \in granted THEN value + 1 ELSE value
  PROVE  SemaphoreInv'
<1> DEFINE n == IF v > 0 THEN v ELSE 0
           q == Leave(c)
           g == granted \ {c}
<1>1. /\ q \in Seq(Callers)
      /\ \A d \in Callers \ {c} : (\E i \in DOMAIN queue : queue[i] = d)
                                  => \E i \in DOMAIN q : q[i] = d
  BY LeaveKeeps DEF SemaphoreInv, WaitersQueued
<1>2. /\ IsFiniteSet(g) /\ g \in SUBSET Callers
      /\ Cardinality(g) = IF c \in granted THEN Cardinality(granted) - 1
                                            ELSE Cardinality(granted)
      /\ Cardinality(granted) \in Nat /\ value \in Int
  BY FS_RemoveElement, FS_CardinalityType DEF SemaphoreInv, SemaphoreTyped
<1>3. n \in Nat /\ (threaded = {} => n <= v)
  BY DEF SemaphoreInv, SemaphoreTyped, OneLoop
<1>4. WakeWaiters(c, v, q, g, n, l) /\ queue' = q
  BY DEF Acquired
<1> HIDE DEF n, q, g
<1>5. v + Cardinality(g) + (IF l = "infer" THEN 1 ELSE 0) = value + Cardinality(granted) + 0
  BY <1>2
<1>6. l \in Goals \ {"idle"}
  BY DEF Goals
<1>7. QED BY <1>1, <1>2, <1>3, <1>4, <1>5, <1>6, WakeStep

(* A call on a thread that wakes others: it counts no slot twice, and may  *)
(* lose one.                                                               *)
LEMMA ThreadStep ==
  ASSUME SemaphoreInv, NEW c \in Callers, TestValue(c) \/ PickNext(c) \/ Grant(c)
  PROVE  SemaphoreInv'
<1>1. /\ threaded # {} /\ UNCHANGED <<threaded, queue>> /\ at[c] \in Waking
      /\ SemaphoreTyped
  BY DEF SemaphoreInv, OneLoop, TestValue, PickNext, Grant, Waking
<1>2. \/ /\ \E l \in Waking : Move(c, l)
         /\ goal' = goal
      \/ Proceed(c, goal[c])
      \/ Proceed(c, "failed")
  BY DEF TestValue, PickNext, Grant, Waking, wakeups
<1>3. /\ \A d \in Callers \ {c} : at'[d] = at[d] /\ goal'[d] = goal[d]
      /\ at'[c] \in Goals \cup Waking /\ at' \in [Callers -> Location]
      /\ goal' \in [Callers -> Goals]
      /\ Has(c)' => Has(c)
  <2>1. Goals \subseteq Location /\ Waking \subseteq Location /\ Goals \cap Waking = {}
    BY DEF Goals, Location, Waking
  <2>2. CASE (\E l \in Waking : Move(c, l)) /\ goal' = goal
    BY <1>1, <2>1, <2>2 DEF SemaphoreTyped, Move, Has, Waking
  <2>3. CASE Proceed(c, goal[c]) \/ Proceed(c, "failed")
    BY <1>1, <2>1, <2>3 DEF SemaphoreTyped, Proceed, Move, Has, Goals
  <2>4. QED BY <1>2, <2>2, <2>3
<1>4. pick' \in [Callers -> Callers]
  <2>1. pick \in [Callers -> Callers] /\ ToSet(queue) \subseteq Callers
    BY <1>1 DEF SemaphoreTyped, ToSet
  <2>2. \/ pick' = pick
        \/ \E w \in Callers : pick' = [pick EXCEPT ![c] = w]
    BY <2>1 DEF TestValue, PickNext, Grant, Proceed, Pending, wakeups
  <2>3. QED BY <2>1, <2>2
<1>5. /\ IsFiniteSet(Inside') /\ Cardinality(Inside') \in Nat
      /\ Cardinality(Inside) \in Nat /\ Cardinality(granted) \in Nat
      /\ Cardinality(Inside') <= Cardinality(Inside)
  BY <1>1, <1>3, Counts, FS_CardinalityType
<1>6. /\ value' \in Int /\ granted' \subseteq Callers /\ IsFiniteSet(granted')
      /\ value' + Cardinality(granted') <= value + Cardinality(granted)
  <2>0. value \in Int /\ granted \subseteq Callers /\ IsFiniteSet(granted)
    BY <1>1 DEF SemaphoreTyped
  <2>1. CASE value' = value /\ granted' = granted
    BY <1>5, <2>0, <2>1
  <2>2. CASE value' = value - 1 /\ granted' = granted
    BY <1>5, <2>0, <2>2
  <2>3. CASE value' = value - 1 /\ pick[c] \notin granted /\ granted' = granted \cup {pick[c]}
    <3>1. pick[c] \in Callers
      BY <1>1 DEF SemaphoreTyped
    <3>2. IsFiniteSet(granted') /\ Cardinality(granted') = Cardinality(granted) + 1
      BY <2>0, <2>3, FS_AddElement
    <3>3. QED BY <1>5, <2>0, <2>3, <3>1, <3>2
  <2>4. QED BY <2>1, <2>2, <2>3 DEF TestValue, PickNext, Grant
<1>7. SemaphoreTyped'
  BY <1>1, <1>3, <1>4, <1>5, <1>6 DEF SemaphoreTyped
<1>8. WaitersQueued'
  <2>1. at'[c] # "wait"
    BY <1>3 DEF Goals, Waking
  <2>2. QED BY <1>1, <1>3, <2>1 DEF SemaphoreInv, WaitersQueued
<1>9. OneLoop'
  BY <1>1 DEF OneLoop
<1>10. Exact'
  <2>1. value \in Int /\ Concurrency \in Nat /\ Cardinality(granted') \in Nat
    BY <1>1, <1>6, InferenceAssumption, FS_CardinalityType DEF SemaphoreTyped
  <2>2. value + Cardinality(Inside) + Cardinality(granted) <= Concurrency
    BY DEF SemaphoreInv, Exact
  <2>3. value' + Cardinality(Inside') + Cardinality(granted') <= Concurrency
    BY <1>5, <1>6, <2>1, <2>2
  <2>4. QED BY <1>1, <2>3 DEF Exact
<1>11. QED BY <1>7, <1>8, <1>9, <1>10 DEF SemaphoreInv

LEMMA CancelStep ==
  ASSUME SemaphoreInv, NEW c \in Callers, Cancel(c)
  PROVE  SemaphoreInv'
<1>1. CASE at[c] = "wait"
  <2>1. (IF c \in granted THEN value + 1 ELSE value) \in Int
    BY DEF SemaphoreInv, SemaphoreTyped
  <2>2. QED BY <1>1, <2>1, WaiterStep DEF Cancel, Cancelled
<1>2. CASE at[c] = "infer"
  BY <1>2, ReleaseStep DEF Cancel, Cancelled
<1>3. QED BY <1>1, <1>2 DEF Cancel, Cancelled

LEMMA AdvanceStep ==
  ASSUME SemaphoreInv, NEW c \in Callers, Advance(c)
  PROVE  SemaphoreInv'
<1>1. CASE Take(c)
  BY <1>1, TakeStep
<1>2. CASE Join(c)
  BY <1>2, JoinStep
<1>3. CASE Resume(c)
  <2>1. value \in Int
    BY DEF SemaphoreInv, SemaphoreTyped
  <2>2. QED BY <1>3, <2>1, WaiterStep DEF Resume
<1>4. CASE Return(c)
  BY <1>4, ReleaseStep DEF Return
<1>5. CASE ThreadEnds(c)
  BY <1>5, MoveStep DEF ThreadEnds, semaphore, Location, Has, Waking
<1>6. CASE TestValue(c) \/ PickNext(c) \/ Grant(c)
  BY <1>6, ThreadStep
<1>7. QED BY <1>1, <1>2, <1>3, <1>4, <1>5, <1>6 DEF Advance

LEMMA SemaphoreInvStep == SemaphoreInv /\ [Next]_vars => SemaphoreInv'
<1> SUFFICES ASSUME SemaphoreInv, [Next]_vars PROVE SemaphoreInv'
  OBVIOUS
<1>1. ASSUME UNCHANGED inference PROVE SemaphoreInv'
  BY <1>1 DEF SemaphoreInv, SemaphoreTyped, WaitersQueued, OneLoop, AtSemaphore, Exact, Inside,
              inference, semaphore, wakeups
<1>2. ASSUME NEW c \in Callers, Other(c) \/ Step(c) PROVE SemaphoreInv'
  BY <1>2, DetectStep, CancelStep, AdvanceStep DEF Other, Step
<1>3. ASSUME NEW r \in Requests, NEW c \in ItemsOf[r], RunOne(r, c) \/ CancelItem(r, c)
      PROVE  SemaphoreInv'
  <2>1. c \in Callers
    BY RequestAssumption
  <2>2. CASE Detect(c)
    BY <2>1, <2>2, DetectStep
  <2>3. CASE Cancel(c)
    BY <2>1, <2>3, CancelStep
  <2>4. CASE at[c] = "idle" /\ Move(c, "cancelled") /\ UNCHANGED <<threaded, semaphore>>
    BY <2>1, <2>4, MoveStep DEF semaphore, Location, Has, Waking
  <2>5. QED BY <1>3, <2>2, <2>3, <2>4 DEF RunOne, CancelItem
<1>4. ASSUME NEW r \in Requests,
             Accept(r) \/ Timeout(r) \/ Failed(r) \/ TimedOut(r) \/ Gathered(r) \/ Audit(r)
      PROVE  UNCHANGED inference
  BY <1>4 DEF Accept, Timeout, Failed, TimedOut, Gathered, Audit
<1>5. QED
  BY <1>1, <1>2, <1>3, <1>4 DEF Next, Progress, vars

(* However many calls, items and limits there are, and whenever calls are  *)
(* cancelled or preempted, the semaphore gives no slot twice; on one loop  *)
(* it accounts for every slot and keeps its bound (detect, and             *)
(* asyncio.Semaphore as it is used there).                                 *)
THEOREM SemaphoreIsExact == Spec => []SemaphoreExact
<1>1. SemaphoreInv => SemaphoreExact
  <2> SUFFICES ASSUME SemaphoreInv PROVE SemaphoreExact
    OBVIOUS
  <2>1. Cardinality(Inside) \in Nat /\ Cardinality(granted) \in Nat
    BY FS_CardinalityType DEF SemaphoreInv, SemaphoreTyped
  <2>2. QED
    BY <2>1, InferenceAssumption
       DEF SemaphoreInv, SemaphoreTyped, OneLoop, Exact, SemaphoreExact
<1>2. QED BY <1>1, SemaphoreInvInit, SemaphoreInvStep, PTL DEF Spec
=============================================================================
