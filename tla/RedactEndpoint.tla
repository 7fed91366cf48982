--------------------------- MODULE RedactEndpoint ---------------------------
(***************************************************************************)
(* POST /v1/redact (app/api/redact.py) with its idempotency lease and      *)
(* record (app/api/idempotency.py) and its response cache                  *)
(* (app/api/cache.py), all three kept in Redis and shared by the replicas. *)
(*                                                                         *)
(* A handler is cut at every await.  Requests are one-shot; a client's     *)
(* retry is another request with the same key.  A body stands for the      *)
(* whole effective request: its fingerprint and its cache key are          *)
(* injective in it.  A lease token is fresh per request, so it is the      *)
(* request; a stored response is named by the request that computed it.    *)
(* Values of another schema version read as missing.  How the redaction    *)
(* is computed, and the pipeline, are in ModelStage.                       *)
(***************************************************************************)
EXTENDS Naturals, FiniteSets

CONSTANTS
  Requests, Nobody,
  Keys, NoKey,        \* Idempotency-Key values, and a request without one
  Bodies,
  KeyOf, BodyOf,      \* what each request sends
  FaultSets           \* what may go wrong together

FaultKinds ==
  {"store",     \* a Redis call fails without effect
   "lost",      \* it takes effect and its reply is lost
   "resend",    \* the client repeats it after a timeout (retry_on_timeout)
   "redact",    \* the redaction fails
   "audit",     \* the audit backend fails
   "optional",  \* settings.audit_required is off, or there is no backend
   "drop",      \* the Redis link drops the replica's client (refresh_job_metrics)
   "deadline",  \* request_timeout_seconds runs out
   "crash",     \* the process dies
   "lease",     \* a lease expires under a live holder
   "evict",     \* a cache entry expires
   "expire"}    \* an idempotency record expires

ASSUME EndpointAssumption ==
  /\ Nobody \notin Requests
  /\ NoKey \notin Keys
  /\ KeyOf \in [Requests -> Keys \cup {NoKey}]
  /\ BodyOf \in [Requests -> Bodies]
  /\ FaultSets \subseteq SUBSET FaultKinds

VARIABLES
  faults,    \* the member of FaultSets in force
  record,    \* {ns}:idem:{key}: whose response completed the key
  lock,      \* {ns}:idem:{key}:lock: who holds the lease
  cache,     \* {ns}:cache:{body}: whose response is cached
  pc,        \* where each handler is
  held,      \* idempotency_token is set and idempotency_completed is not
  answer,    \* what the client is told; "unkept" is a 200 that was not recorded
  source,    \* who computed the response it is given
  audited,   \* history: requests whose audit event was recorded
  published  \* history: requests whose completion took effect

stores == <<record, lock, cache, audited, published>>
vars == <<faults, stores, pc, held, answer, source>>

Location == {"get", "lock", "cache", "redact", "audit", "complete", "store", "release",
             "done", "dead"}
Success == {"computed", "unkept", "replayed", "cached"}
Answer == Success \cup {"none", "reused", "busy", "unavailable", "error", "timeout"}

Init ==
  /\ faults \in FaultSets
  /\ record = [k \in Keys |-> Nobody]
  /\ lock = [k \in Keys |-> Nobody]
  /\ cache = [b \in Bodies |-> Nobody]
  /\ pc = [r \in Requests |-> IF KeyOf[r] = NoKey THEN "cache" ELSE "get"]
  /\ held = [r \in Requests |-> FALSE]
  /\ answer = [r \in Requests |-> "none"]
  /\ source = [r \in Requests |-> Nobody]
  /\ audited = {}
  /\ published = {}

Goto(r, l) == pc' = [pc EXCEPT ![r] = l] /\ UNCHANGED <<faults, held, answer, source>>

(* A return or an exception: the finally clause releases a lease that was  *)
(* not turned into a record.                                               *)
BugFinish(r, a, s) ==
  /\ pc' = [pc EXCEPT ![r] = IF held[r] /\ a \notin Success THEN "release" ELSE "done"]
  /\ answer' = [answer EXCEPT ![r] = a]
  /\ source' = [source EXCEPT ![r] = s]
  /\ UNCHANGED <<faults, held>>
Finish(r, a, s) ==
  /\ pc' = [pc EXCEPT ![r] = IF held[r] THEN "release" ELSE "done"]
  /\ answer' = [answer EXCEPT ![r] = a]
  /\ source' = [source EXCEPT ![r] = s]
  /\ UNCHANGED <<faults, held>>

(* An await under asyncio.timeout: its effect and reply, an exception with *)
(* or without the effect, or the deadline.  A caller whose command is told   *)
(* something else when repeated has a disjunct for "resend".               *)
Await(r, Effect, Same, Reply, Error) ==
  \/ Effect /\ Reply
  \/ "store" \in faults /\ Same /\ Error
  \/ "lost" \in faults /\ Effect /\ Error
  \/ "deadline" \in faults /\ (Effect \/ Same) /\ Finish(r, "timeout", Nobody)

Failed(r) == Finish(r, "error", Nobody)

-----------------------------------------------------------------------------
(* reserve: GET of the record, then SET NX of the lock.  Without a client  *)
(* the request is answered 503.  Its commands go to the client it was      *)
(* given, whatever becomes of the link meanwhile.                          *)
Reserve(r) ==
  LET w == record[KeyOf[r]] IN
  /\ pc[r] = "get"
  /\ \/ Await(r, UNCHANGED stores, UNCHANGED stores,
              \/ w = Nobody /\ Goto(r, "lock")
              \/ w # Nobody /\ BodyOf[w] # BodyOf[r] /\ Finish(r, "reused", Nobody)
              \/ w # Nobody /\ BodyOf[w] = BodyOf[r] /\ Finish(r, "replayed", w),
              Failed(r))
     \/ "drop" \in faults /\ Finish(r, "unavailable", Nobody) /\ UNCHANGED stores

BugCanLock(r) == TRUE
CanLock(r) == lock[KeyOf[r]] = Nobody
TakeLock(r) ==
  /\ lock' = IF CanLock(r) THEN [lock EXCEPT ![KeyOf[r]] = r] ELSE lock
  /\ UNCHANGED <<record, cache, audited, published>>
ReserveLock(r) ==
  /\ pc[r] = "lock"
  /\ \/ Await(r, TakeLock(r), UNCHANGED stores,
              IF CanLock(r)
              THEN /\ pc' = [pc EXCEPT ![r] = "cache"]
                   /\ held' = [held EXCEPT ![r] = TRUE]
                   /\ UNCHANGED <<faults, answer, source>>
              ELSE Finish(r, "busy", Nobody),
              Failed(r))
     \/ "resend" \in faults /\ TakeLock(r) /\ Finish(r, "busy", Nobody)

(* The response cache; a failed read is a miss, and no client skips it. *)
ReadCache(r) ==
  LET w == cache[BodyOf[r]] IN
  /\ pc[r] = "cache"
  /\ \/ Await(r, UNCHANGED stores, UNCHANGED stores,
              IF w = Nobody THEN Goto(r, "redact") ELSE Finish(r, "cached", w),
              Goto(r, "redact"))
     \/ "drop" \in faults /\ Goto(r, "redact") /\ UNCHANGED stores

Redact(r) ==
  /\ pc[r] = "redact"
  /\ \/ Goto(r, "audit")
     \/ "redact" \in faults /\ Failed(r)
     \/ "deadline" \in faults /\ Finish(r, "timeout", Nobody)
  /\ UNCHANGED stores

(* What follows the audit.  A keyed request completes its record if the    *)
(* client is there at that moment; if it is not, completion, cache write   *)
(* and release are skipped alike, with no await between their tests, and   *)
(* the 200 leaves a lease that only its TTL ends.                          *)
Publish(r) ==
  \/ KeyOf[r] = NoKey /\ Goto(r, "store")
  \/ KeyOf[r] # NoKey /\ Goto(r, "complete")
  \/ /\ KeyOf[r] # NoKey /\ "drop" \in faults
     /\ pc' = [pc EXCEPT ![r] = "done"]
     /\ held' = [held EXCEPT ![r] = FALSE]
     /\ answer' = [answer EXCEPT ![r] = "unkept"]
     /\ source' = [source EXCEPT ![r] = r]
     /\ UNCHANGED faults

(* audit.record, before anything replayable is published.  Where the audit *)
(* is optional a failed write is swallowed, and without a backend there is *)
(* none.                                                                   *)
BugAudit(r) ==
  /\ pc[r] = "audit"
  /\ audited' \in {audited, audited \cup {r}}
  /\ Publish(r)
  /\ UNCHANGED <<record, lock, cache, published>>
Audit(r) ==
  /\ pc[r] = "audit"
  /\ \/ audited' = audited \cup {r} /\ Publish(r)
     \/ "optional" \in faults /\ UNCHANGED audited /\ Publish(r)
     \/ /\ "audit" \in faults /\ "optional" \notin faults
        /\ audited' \in {audited, audited \cup {r}}
        /\ Failed(r)
     \/ /\ "deadline" \in faults /\ audited' \in {audited, audited \cup {r}}
        /\ Finish(r, "timeout", Nobody)
  /\ UNCHANGED <<record, lock, cache, published>>

(* COMPLETE_SCRIPT; a lease that is gone is an error. *)
Owns(r) == lock[KeyOf[r]] = r
CompleteScript(r) ==
  IF Owns(r)
  THEN /\ record' = [record EXCEPT ![KeyOf[r]] = r]
       /\ lock' = [lock EXCEPT ![KeyOf[r]] = Nobody]
       /\ published' = published \cup {r}
       /\ UNCHANGED <<cache, audited>>
  ELSE UNCHANGED stores
BugComplete(r) ==
  /\ pc[r] = "complete"
  /\ CompleteScript(r)
  /\ pc' = [pc EXCEPT ![r] = "store"]
  /\ held' = [held EXCEPT ![r] = FALSE]
  /\ UNCHANGED <<faults, answer, source>>
Complete(r) ==
  /\ pc[r] = "complete"
  /\ \/ Await(r, CompleteScript(r), UNCHANGED stores,
              IF Owns(r)
              THEN /\ pc' = [pc EXCEPT ![r] = "store"]
                   /\ held' = [held EXCEPT ![r] = FALSE]
                   /\ UNCHANGED <<faults, answer, source>>
              ELSE Failed(r),
              Failed(r))
     \/ "resend" \in faults /\ CompleteScript(r) /\ Failed(r)

(* The response cache again; a failed write is ignored, and no client      *)
(* skips it.                                                               *)
WriteCache(r) ==
  /\ pc[r] = "store"
  /\ \/ Await(r, /\ cache' = [cache EXCEPT ![BodyOf[r]] = r]
                 /\ UNCHANGED <<record, lock, audited, published>>,
              UNCHANGED stores,
              Finish(r, "computed", r), Finish(r, "computed", r))
     \/ "drop" \in faults /\ Finish(r, "computed", r) /\ UNCHANGED stores

(* RELEASE_SCRIPT in the finally clause, outside the deadline. *)
BugReleaseScript(r) ==
  /\ lock' = [lock EXCEPT ![KeyOf[r]] = Nobody]
  /\ UNCHANGED <<record, cache, audited, published>>
ReleaseScript(r) ==
  /\ lock' = IF Owns(r) THEN [lock EXCEPT ![KeyOf[r]] = Nobody] ELSE lock
  /\ UNCHANGED <<record, cache, audited, published>>
Release(r) ==
  /\ pc[r] = "release"
  /\ \/ ReleaseScript(r)
     \/ {"store", "drop"} \cap faults # {} /\ UNCHANGED stores
  /\ pc' = [pc EXCEPT ![r] = "done"]
  /\ held' = [held EXCEPT ![r] = FALSE]
  /\ UNCHANGED <<faults, answer, source>>

Crash(r) ==
  /\ "crash" \in faults
  /\ pc[r] \notin {"done", "dead"}
  /\ pc' = [pc EXCEPT ![r] = "dead"]
  /\ answer' = [answer EXCEPT ![r] = "none"]
  /\ UNCHANGED <<faults, stores, held, source>>

-----------------------------------------------------------------------------
(* Redis TTLs.  A lease outlives the request deadline unless               *)
(* idempotency_ttl_seconds is set below it.                                *)
LockExpire(k) ==
  /\ lock[k] # Nobody
  /\ "lease" \in faults \/ pc[lock[k]] \in {"done", "dead"}
  /\ lock' = [lock EXCEPT ![k] = Nobody]
  /\ UNCHANGED <<record, cache, audited, published, faults, pc, held, answer, source>>

RecordExpire(k) ==
  /\ "expire" \in faults /\ record[k] # Nobody
  /\ record' = [record EXCEPT ![k] = Nobody]
  /\ UNCHANGED <<lock, cache, audited, published, faults, pc, held, answer, source>>

CacheExpire(b) ==
  /\ "evict" \in faults /\ cache[b] # Nobody
  /\ cache' = [cache EXCEPT ![b] = Nobody]
  /\ UNCHANGED <<record, lock, audited, published, faults, pc, held, answer, source>>

Handle(r) == \/ Reserve(r) \/ ReserveLock(r) \/ ReadCache(r) \/ Redact(r) \/ Audit(r)
             \/ Complete(r) \/ WriteCache(r) \/ Release(r)

Next ==
  \/ \E r \in Requests : Handle(r) \/ Crash(r)
  \/ \E k \in Keys : LockExpire(k) \/ RecordExpire(k)
  \/ \E b \in Bodies : CacheExpire(b)

Spec == Init /\ [][Next]_vars

-----------------------------------------------------------------------------
TypeOK ==
  /\ faults \in FaultSets
  /\ record \in [Keys -> Requests \cup {Nobody}]
  /\ lock \in [Keys -> Requests \cup {Nobody}]
  /\ cache \in [Bodies -> Requests \cup {Nobody}]
  /\ pc \in [Requests -> Location]
  /\ held \in [Requests -> BOOLEAN]
  /\ answer \in [Requests -> Answer]
  /\ source \in [Requests -> Requests \cup {Nobody}]
  /\ audited \in SUBSET Requests
  /\ published \in SUBSET Requests

-----------------------------------------------------------------------------
(* Properties.                                                             *)

(* A response given as a success, computed here, replayed or read from the *)
(* cache, answers this body and, where the audit is required, comes from   *)
(* an execution whose event was recorded, so that no retry turns an audit  *)
(* failure into an unaudited success (the order of audit.record, complete  *)
(* and the cache write).                                                   *)
SuccessIsAudited ==
  \A r \in Requests :
    answer[r] \in Success =>
      /\ BodyOf[source[r]] = BodyOf[r]
      /\ "optional" \notin faults => source[r] \in audited

(* A keyed request's response is cached, or returned by the path that      *)
(* completes the key, only after the request, still holding its lease, has *)
(* left a record to replay: a lease that expired under it makes it fail    *)
(* instead (complete, then the cache).  The path that finds no client      *)
(* returns a response that was never kept, in the record or in the cache.  *)
KeyedResultIsPublished ==
  \A r \in Requests :
    KeyOf[r] # NoKey =>
      /\ answer[r] = "computed" => r \in published
      /\ \A b \in Bodies : cache[b] = r => r \in published
      /\ answer[r] = "unkept" =>
           "drop" \in faults /\ r \notin published /\ \A b \in Bodies : cache[b] # r

(* Between reservation and completion, a lease keeps every other request   *)
(* with the key out, unless it expires under its holder (reserve).         *)
Working(r) == held[r] /\ pc[r] \in {"cache", "redact", "audit", "complete"}
OneHolder ==
  "lease" \notin faults =>
    \A r, q \in Requests : Working(r) /\ Working(q) /\ KeyOf[r] = KeyOf[q] => r = q

(* A lease ends by its TTL or by its own holder's step, never by a request *)
(* that lost it earlier (COMPLETE_SCRIPT and RELEASE_SCRIPT).              *)
LeaseIsHonoured ==
  [][\A k \in Keys :
       lock[k] # Nobody /\ lock'[k] # lock[k] => LockExpire(k) \/ pc'[lock[k]] # pc[lock[k]]]_vars

(* While Redis answers, the link stands and no process dies, a request     *)
(* that is answered has given its lease back without waiting for the TTL,  *)
(* however it ended (the finally clause of redact).                        *)
Answers == {"redact", "audit", "lease", "evict", "expire"}
LeaseIsGivenBack ==
  faults \subseteq Answers =>
    \A r \in Requests : pc[r] = "done" => \A k \in Keys : lock[k] # r
=============================================================================
