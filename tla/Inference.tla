----------------------------- MODULE Inference ------------------------------
(***************************************************************************)
(* How calls reach the model: GLiNER2Detector.detect of                    *)
(* app/inference/gliner2.py, called on the event loop by the redactor and  *)
(* the endpoints, and through detector_sync of                             *)
(* app/redaction/stages/model.py by the pipeline, on a thread whose        *)
(* asyncio.run makes a loop of its own.                                    *)
(*                                                                         *)
(* All of them share one asyncio.Semaphore (external), which is not made   *)
(* for threads.  It belongs to the loop of the first call that waits on    *)
(* it, for good: a waiter of another loop gets a RuntimeError.  A thread   *)
(* may be preempted between the test of the semaphore, or of a waiter's    *)
(* future, and what follows from it; an update of _value is one step.  A   *)
(* waiter on a thread's loop that is granted the semaphore from elsewhere  *)
(* may sleep on, as nothing wakes its selector.                            *)
(***************************************************************************)
EXTENDS Integers, FiniteSets, Sequences, SequencesExt

CONSTANTS
  Callers,       \* calls of detect, each made once
  Piped,         \* those that the pipeline may make
  Concurrency    \* settings.inference_concurrency

ASSUME InferenceAssumption ==
  /\ Piped \subseteq Callers
  /\ Concurrency \in Nat \ {0}

VARIABLES
  threaded,   \* the calls that run on a thread with its own loop
  at,         \* where each call is
  value,      \* Semaphore._value
  queue,      \* Semaphore._waiters
  granted,    \* waiters whose future has its result
  asleep,     \* granted waiters whose loop was not woken
  bound,      \* the loop of the semaphore
  goal,       \* where a call that wakes others goes then
  pick        \* the waiter it found, before that itself

wakeups == <<goal, pick>>
semaphore == <<value, queue, granted, asleep, bound, wakeups>>
inference == <<threaded, at, semaphore>>

(* "orphan": the thread of a call that was cancelled. *)
Location == {"idle", "take", "join", "wait", "infer", "wake", "pick", "grant",
             "orphan", "done", "failed", "cancelled"}
Waking == {"wake", "pick", "grant"}
Midway == {"take", "join"} \cup Waking

Main == "main"
Loop(c) == IF c \in threaded THEN c ELSE Main

InferenceInit ==
  /\ threaded \in {{}, Piped}
  /\ at = [c \in Callers |-> "idle"]
  /\ value = Concurrency
  /\ queue = <<>> /\ granted = {} /\ asleep = {} /\ bound = "none"
  /\ goal = [c \in Callers |-> "idle"] /\ pick = [c \in Callers |-> c]

Move(c, l) == at' = [at EXCEPT ![c] = l]

(* Nothing else runs on the main loop while a call is between two awaits.  *)
LoopIsFree(c) ==
  c \notin threaded => \A d \in Callers \ (threaded \cup {c}) : at[d] \notin Midway

-----------------------------------------------------------------------------
(* The semaphore. *)
Locked == value = 0 \/ queue # <<>>

(* The first n of the waiters in q whose future has no result, the others  *)
(* being in g.                                                             *)
Pending(q, g) == ToSet(q) \ g
Ahead(q, c, d) == \E i, j \in DOMAIN q : i < j /\ q[i] = c /\ q[j] = d
First(q, g, n) ==
  {W \in SUBSET Pending(q, g) :
     /\ Cardinality(W) <= n
     /\ Cardinality(W) < n => W = Pending(q, g)
     /\ \A c \in W, d \in Pending(q, g) \ W : Ahead(q, c, d)}

(* The value becomes v and g have their result; then up to n waiters of q  *)
(* are woken, and c goes to l.  On one loop nothing comes between; else c  *)
(* wakes them step by step.                                                *)
AfterWait == {"infer", "cancelled"}
WakeWaiters(c, v, q, g, n, l) ==
  /\ \/ /\ threaded = {}
        /\ \E W \in First(q, g, n) : value' = v - Cardinality(W) /\ granted' = g \cup W
        /\ Move(c, l)
        /\ UNCHANGED goal
     \/ /\ threaded # {}
        /\ value' = v /\ granted' = g
        /\ Move(c, IF l \in AfterWait THEN "wake" ELSE "pick")
        /\ goal' = [goal EXCEPT ![c] = l]
  /\ UNCHANGED <<asleep, bound, pick>>

(* release wakes one. *)
Release(c, l) == WakeWaiters(c, value + 1, queue, granted, 1, l) /\ UNCHANGED queue

(* The end of acquire wakes as many as the value allows.                   *)
Acquired(c, v, q, g, l) == WakeWaiters(c, v, q, g, IF v > 0 THEN v ELSE 0, l)

-----------------------------------------------------------------------------
(* detect up to the semaphore, and locked(). *)
Detect(c) ==
  /\ at[c] = "idle" /\ LoopIsFree(c)
  /\ Move(c, IF Locked THEN "join" ELSE "take")
  /\ UNCHANGED <<threaded, semaphore>>

Take(c) ==
  /\ at[c] = "take"
  /\ Move(c, "infer")
  /\ value' = value - 1
  /\ UNCHANGED <<threaded, queue, granted, asleep, bound, wakeups>>

(* _get_loop, then the future is queued. *)
Join(c) ==
  /\ at[c] = "join"
  /\ IF bound \in {"none", Loop(c)}
     THEN Move(c, "wait") /\ queue' = Append(queue, c) /\ bound' = Loop(c)
     ELSE Move(c, "failed") /\ UNCHANGED <<queue, bound>>
  /\ UNCHANGED <<threaded, value, granted, asleep, wakeups>>

Leave(c) == RemoveAt(queue, CHOOSE i \in DOMAIN queue : queue[i] = c)

(* The waiter's loop runs it. *)
Resume(c) ==
  /\ at[c] = "wait" /\ c \in granted \ asleep /\ LoopIsFree(c)
  /\ queue' = Leave(c)
  /\ Acquired(c, value, Leave(c), granted \ {c}, "infer")
  /\ UNCHANGED threaded

(* The thread of the call returns or raises, and the semaphore is left.    *)
BugReturn(c) ==
  /\ at[c] = "infer" /\ LoopIsFree(c)
  /\ Release(c, "done") \/ (Move(c, "failed") /\ UNCHANGED semaphore)
  /\ UNCHANGED threaded
Return(c) ==
  /\ at[c] = "infer" /\ LoopIsFree(c)
  /\ \E l \in {"done", "failed"} : Release(c, l)
  /\ UNCHANGED threaded

(* CancelledError in a call on the main loop: at the deadline, or because  *)
(* its client is gone.  The thread is not stopped.                         *)
Cancelled(c) ==
  \/ /\ at[c] = "wait"
     /\ queue' = Leave(c)
     /\ Acquired(c, IF c \in granted THEN value + 1 ELSE value, Leave(c), granted \ {c},
                 "cancelled")
  \/ at[c] = "infer" /\ Release(c, "orphan")
Cancel(c) ==
  /\ c \notin threaded /\ LoopIsFree(c)
  /\ Cancelled(c)
  /\ UNCHANGED threaded

(* Nobody waits for the thread any more. *)
ThreadEnds(c) ==
  /\ at[c] = "orphan"
  /\ Move(c, "cancelled")
  /\ UNCHANGED <<threaded, semaphore>>

-----------------------------------------------------------------------------
(* Waking others while calls run on several threads. *)

Proceed(c, l) ==
  /\ Move(c, l)
  /\ goal' = [goal EXCEPT ![c] = "idle"]
  /\ pick' = [pick EXCEPT ![c] = c]

(* acquire's loop: is there a slot left? *)
TestValue(c) ==
  /\ at[c] = "wake"
  /\ IF value > 0 THEN Move(c, "pick") /\ UNCHANGED wakeups ELSE Proceed(c, goal[c])
  /\ UNCHANGED <<threaded, value, queue, granted, asleep, bound>>

(* _wake_up_next up to fut.done() being false.  Past a future that is done *)
(* the next one is an error if the queue has changed meanwhile, which only *)
(* the loop of the waiters does.                                           *)
PickNext(c) ==
  /\ at[c] = "pick"
  /\ \/ \E w \in Pending(queue, granted) :
          /\ {w} \in First(queue, granted, 1)
          /\ Move(c, "grant")
          /\ pick' = [pick EXCEPT ![c] = w]
          /\ UNCHANGED goal
     \/ Pending(queue, granted) = {} /\ Proceed(c, goal[c])
     \/ queue # <<>> /\ Head(queue) \in granted /\ bound # Loop(c) /\ Proceed(c, "failed")
  /\ UNCHANGED <<threaded, value, queue, granted, asleep, bound>>

(* The rest of it: the value, then the result, which is an error if the    *)
(* waiter has been woken or cancelled since.                               *)
Grant(c) ==
  LET w == pick[c] IN
  /\ at[c] = "grant"
  /\ value' = value - 1
  /\ \/ /\ at[w] = "wait" /\ w \notin granted
        /\ granted' = granted \cup {w}
        /\ \/ UNCHANGED asleep
           \/ w \in threaded /\ Loop(c) # Loop(w) /\ asleep' = asleep \cup {w}
        /\ \/ /\ goal[c] \in AfterWait
              /\ Move(c, "wake") /\ pick' = [pick EXCEPT ![c] = c] /\ UNCHANGED goal
           \/ goal[c] \notin AfterWait /\ Proceed(c, goal[c])
     \/ /\ at[w] # "wait" \/ w \in granted
        /\ Proceed(c, "failed")
        /\ UNCHANGED <<granted, asleep>>
  /\ UNCHANGED <<threaded, queue, bound>>

Advance(c) == \/ Take(c) \/ Join(c) \/ Resume(c) \/ Return(c) \/ ThreadEnds(c)
              \/ TestValue(c) \/ PickNext(c) \/ Grant(c)
=============================================================================
