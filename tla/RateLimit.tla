----------------------------- MODULE RateLimit ------------------------------
(***************************************************************************)
(* The fixed-window limit of one API key (app/ratelimit.py): rate_limit    *)
(* names the bucket of the current minute, then RATE_LIMIT_SCRIPT counts   *)
(* in it and sets its TTL with the first count.                            *)
(*                                                                         *)
(* A call reaches Redis up to MaxDelay ticks after its bucket was named.   *)
(* A key's buckets are independent of other keys'.  The calls that take no *)
(* part (anonymous, no limit, no client) are left out, and so are the      *)
(* headers of a 429.                                                       *)
(***************************************************************************)
EXTENDS Naturals, FiniteSets

CONSTANTS
  Requests,
  Limit,       \* settings.rate_limit_per_minute
  Window,      \* a minute, and the TTL of a bucket, in ticks
  MaxDelay,    \* the longest a call is under way
  Horizon,     \* the clock stops here
  FailOpen,    \* settings.rate_limit_fail_open
  FaultSets    \* what may go wrong together

FaultKinds ==
  {"store",    \* the call fails without effect
   "lost",     \* it takes effect and its reply is lost
   "resend"}   \* the client repeats it after a timeout (retry_on_timeout)

RateAssumption ==
  /\ Limit \in Nat \ {0} /\ Window \in Nat \ {0}
  /\ MaxDelay \in 0..(Window - 1) /\ Horizon \in Nat
  /\ FailOpen \in BOOLEAN /\ FaultSets \subseteq SUBSET FaultKinds

VARIABLES
  faults,    \* the member of FaultSets in force
  now,
  count,     \* the counter of each bucket
  expires,   \* when its key expires
  pc,        \* "new", "sent", and what rate_limit answered
  bucket,    \* the bucket a request named, and when
  since

redis == <<count, expires>>
vars == <<faults, now, redis, pc, bucket, since>>

minute_bucket(t) == t \div Window
Buckets == 0..minute_bucket(Horizon)
Answers == {"allowed", "refused", "unavailable", "bypass"}

Init ==
  /\ faults \in FaultSets
  /\ now = 0
  /\ count = [b \in Buckets |-> 0]
  /\ expires = [b \in Buckets |-> 0]
  /\ pc = [r \in Requests |-> "new"]
  /\ bucket = [r \in Requests |-> 0]
  /\ since = [r \in Requests |-> 0]

(* INCR and, for the first count, EXPIRE. *)
Counted(b) == IF now < expires[b] THEN count[b] + 1 ELSE 1
Incr(b, n) ==
  /\ count' = [count EXCEPT ![b] = Counted(b) + n - 1]
  /\ expires' = [expires EXCEPT ![b] = IF Counted(b) = 1 THEN now + Window ELSE @]

Name(r) ==
  /\ pc[r] = "new"
  /\ pc' = [pc EXCEPT ![r] = "sent"]
  /\ bucket' = [bucket EXCEPT ![r] = minute_bucket(now)]
  /\ since' = [since EXCEPT ![r] = now]
  /\ UNCHANGED <<faults, now, redis>>

Reply(r, a) == pc' = [pc EXCEPT ![r] = a] /\ UNCHANGED <<faults, now, bucket, since>>
BugVerdict(n) == IF n > Limit + 1 THEN "refused" ELSE "allowed"
Verdict(n) == IF n > Limit THEN "refused" ELSE "allowed"
Failed == IF FailOpen THEN "bypass" ELSE "unavailable"
Eval(r) ==
  LET b == bucket[r] IN
  /\ pc[r] = "sent"
  /\ \/ Incr(b, 1) /\ Reply(r, Verdict(count'[b]))
     \/ "store" \in faults /\ UNCHANGED redis /\ Reply(r, Failed)
     \/ "lost" \in faults /\ Incr(b, 1) /\ Reply(r, Failed)
     \/ "resend" \in faults /\ Incr(b, 2) /\ Reply(r, Verdict(count'[b]))

Tick ==
  /\ now < Horizon
  /\ \A r \in Requests : pc[r] = "sent" => now < since[r] + MaxDelay
  /\ now' = now + 1
  /\ UNCHANGED <<faults, redis, pc, bucket, since>>

Next == Tick \/ \E r \in Requests : Name(r) \/ Eval(r)

Spec == Init /\ [][Next]_vars

-----------------------------------------------------------------------------
(* Properties.                                                             *)

In(b) == {r \in Requests : bucket[r] = b}
Allowed(b) == {r \in In(b) : pc[r] = "allowed"}

(* However late calls are, the requests of a minute are allowed at most    *)
(* twice the limit: a bucket that expired under late calls starts over     *)
(* once (RATE_LIMIT_SCRIPT's TTL).                                         *)
TwiceAtMost == \A b \in Buckets : Cardinality(Allowed(b)) <= 2 * Limit

(* A request is refused only if the minute's limit was used up by others,  *)
(* whatever replies were lost (rate_limit), unless a call was repeated.    *)
Asked(b) == {r \in In(b) : pc[r] \in Answers}
RefusedOverLimit ==
  \A r \in Requests :
    pc[r] = "refused" /\ "resend" \notin faults => Cardinality(Asked(bucket[r]) \ {r}) >= Limit

=============================================================================
