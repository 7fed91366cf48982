---------------------------- MODULE RedactProofs ----------------------------
(***************************************************************************)
(* Proofs about RedactEndpoint for every set of requests, keys and bodies  *)
(* and every assignment of keys and bodies to requests.                    *)
(***************************************************************************)
EXTENDS RedactEndpoint, TLAPS

-----------------------------------------------------------------------------
(* Type correctness.  A request without a key never reaches the lines that *)
(* index a record or a lease by it, which the types rest on.               *)

UsesKey == {"get", "lock", "complete", "release"}
Keyed == \A r \in Requests : pc[r] \in UsesKey \/ held[r] => KeyOf[r] \in Keys

(* What a handler's last step does to its own state. *)
LEMMA FinishTypes ==
  ASSUME TypeOK, Keyed, NEW r \in Requests, NEW a \in Answer,
         NEW s \in Requests \cup {Nobody}, Finish(r, a, s)
  PROVE  /\ pc' \in [Requests -> Location] /\ held' \in [Requests -> BOOLEAN]
         /\ answer' \in [Requests -> Answer]
         /\ source' \in [Requests -> Requests \cup {Nobody}]
         /\ Keyed'
<1>1. pc' \in [Requests -> Location] /\ held' = held
  BY DEF Finish, TypeOK, Location
<1>2. answer' \in [Requests -> Answer] /\ source' \in [Requests -> Requests \cup {Nobody}]
  BY DEF Finish, TypeOK
<1>3. Keyed'
  BY <1>1 DEF Finish, TypeOK, Keyed, UsesKey
<1>4. QED
  BY <1>1, <1>2, <1>3 DEF TypeOK

(* The types of what a handler keeps to itself. *)
OwnTypes ==
  /\ pc \in [Requests -> Location] /\ held \in [Requests -> BOOLEAN]
  /\ answer \in [Requests -> Answer] /\ source \in [Requests -> Requests \cup {Nobody}]
  /\ Keyed

(* The types of what Redis and the audit log keep. *)
StoreTypes ==
  /\ record \in [Keys -> Requests \cup {Nobody}]
  /\ lock \in [Keys -> Requests \cup {Nobody}]
  /\ cache \in [Bodies -> Requests \cup {Nobody}]
  /\ audited \in SUBSET Requests /\ published \in SUBSET Requests

(* Every step keeps the stores' types. *)
LEMMA StoreStep == TypeOK /\ [Next]_vars => StoreTypes'
<1> SUFFICES ASSUME TypeOK, [Next]_vars PROVE StoreTypes'
  OBVIOUS
<1> USE DEF StoreTypes
<1>1. ASSUME UNCHANGED stores PROVE StoreTypes'
  BY <1>1 DEF TypeOK, stores
<1>2. ASSUME NEW r \in Requests, Reserve(r) \/ ReadCache(r) \/ Redact(r) \/ Crash(r)
      PROVE  StoreTypes'
  BY <1>1, <1>2 DEF Reserve, ReadCache, Redact, Crash, Await
<1>3. ASSUME NEW r \in Requests, ReserveLock(r) PROVE StoreTypes'
  BY <1>1, <1>3 DEF TypeOK, ReserveLock, Await, TakeLock
<1>4. ASSUME NEW r \in Requests, Audit(r) PROVE StoreTypes'
  BY <1>4 DEF TypeOK, Audit
<1>5. ASSUME NEW r \in Requests, Complete(r) PROVE StoreTypes'
  BY <1>1, <1>5 DEF TypeOK, Complete, Await, CompleteScript
<1>6. ASSUME NEW r \in Requests, WriteCache(r) PROVE StoreTypes'
  BY <1>1, <1>6 DEF TypeOK, WriteCache, Await
<1>7. ASSUME NEW r \in Requests, Release(r) PROVE StoreTypes'
  BY <1>1, <1>7 DEF TypeOK, Release, ReleaseScript
<1>8. ASSUME NEW k \in Keys, LockExpire(k) \/ RecordExpire(k) PROVE StoreTypes'
  BY <1>8 DEF TypeOK, LockExpire, RecordExpire
<1>9. ASSUME NEW b \in Bodies, CacheExpire(b) PROVE StoreTypes'
  BY <1>9 DEF TypeOK, CacheExpire
<1>10. CASE UNCHANGED vars
  BY <1>1, <1>10 DEF vars
<1>11. QED
  BY <1>2, <1>3, <1>4, <1>5, <1>6, <1>7, <1>8, <1>9, <1>10 DEF Next, Handle

(* Every step keeps the handlers' types. *)
LEMMA OwnStep == TypeOK /\ Keyed /\ [Next]_vars => OwnTypes'
<1> SUFFICES ASSUME TypeOK, Keyed, [Next]_vars PROVE OwnTypes'
  OBVIOUS
<1>1. ASSUME NEW r \in Requests, NEW a \in Answer, NEW s \in Requests \cup {Nobody},
             Finish(r, a, s)
      PROVE  OwnTypes'
  BY <1>1, FinishTypes DEF OwnTypes
<1>2. ASSUME NEW r \in Requests, NEW l \in Location, Goto(r, l),
             l \in UsesKey => KeyOf[r] \in Keys
      PROVE  OwnTypes'
  BY <1>2 DEF OwnTypes, Goto, TypeOK, Keyed
<1>3. ASSUME UNCHANGED <<pc, held, answer, source>> PROVE OwnTypes'
  BY <1>3 DEF OwnTypes, TypeOK, Keyed
<1>4. /\ Success \subseteq Answer
      /\ {"reused", "busy", "unavailable", "error", "timeout", "none"} \subseteq Answer
  BY DEF Success, Answer
<1>5. ASSUME NEW r \in Requests, Reserve(r) PROVE OwnTypes'
  <2>1. KeyOf[r] \in Keys /\ record[KeyOf[r]] \in Requests \cup {Nobody}
    BY <1>5 DEF Reserve, Keyed, UsesKey, TypeOK
  <2>2. \/ Goto(r, "lock")
        \/ \E a \in Answer, s \in Requests \cup {Nobody} : Finish(r, a, s)
    BY <1>4, <1>5, <2>1 DEF Reserve, Await, Failed, Success
  <2>3. QED
    BY <1>1, <1>2, <2>1, <2>2 DEF Location
<1>6. ASSUME NEW r \in Requests, ReserveLock(r) PROVE OwnTypes'
  <2>1. \/ /\ pc' = [pc EXCEPT ![r] = "cache"]
           /\ held' = [held EXCEPT ![r] = TRUE]
           /\ UNCHANGED <<answer, source>>
        \/ \E a \in Answer : Finish(r, a, Nobody)
    BY <1>4, <1>6 DEF ReserveLock, Await, Failed
  <2>2. KeyOf[r] \in Keys
    BY <1>6 DEF ReserveLock, Keyed, UsesKey
  <2>3. CASE /\ pc' = [pc EXCEPT ![r] = "cache"]
             /\ held' = [held EXCEPT ![r] = TRUE]
             /\ UNCHANGED <<answer, source>>
    BY <2>2, <2>3 DEF OwnTypes, TypeOK, Keyed, Location, UsesKey
  <2>4. QED
    BY <1>1, <2>1, <2>3
<1>7. ASSUME NEW r \in Requests, ReadCache(r) PROVE OwnTypes'
  <2>1. cache[BodyOf[r]] \in Requests \cup {Nobody}
    BY EndpointAssumption DEF TypeOK
  <2>2. \/ Goto(r, "redact")
        \/ \E a \in Answer, s \in Requests \cup {Nobody} : Finish(r, a, s)
    BY <1>4, <1>7, <2>1 DEF ReadCache, Await, Success
  <2>3. QED
    BY <1>1, <1>2, <2>2 DEF Location, UsesKey
<1>8. ASSUME NEW r \in Requests, Redact(r) PROVE OwnTypes'
  <2>1. Goto(r, "audit") \/ \E a \in Answer : Finish(r, a, Nobody)
    BY <1>4, <1>8 DEF Redact, Failed
  <2>2. QED
    BY <1>1, <1>2, <2>1 DEF Location, UsesKey
<1>9. ASSUME NEW r \in Requests, Audit(r) PROVE OwnTypes'
  <2>1. Publish(r) \/ \E a \in Answer : Finish(r, a, Nobody)
    BY <1>4, <1>9 DEF Audit, Failed
  <2>2. CASE Goto(r, "store")
    BY <1>2, <2>2 DEF Location, UsesKey
  <2>3. CASE KeyOf[r] # NoKey /\ Goto(r, "complete")
    BY <1>2, <2>3, EndpointAssumption DEF Location, UsesKey
  <2>4. CASE /\ pc' = [pc EXCEPT ![r] = "done"]
             /\ held' = [held EXCEPT ![r] = FALSE]
             /\ answer' = [answer EXCEPT ![r] = "unkept"]
             /\ source' = [source EXCEPT ![r] = r]
    BY <2>4 DEF OwnTypes, TypeOK, Keyed, Location, UsesKey, Answer, Success
  <2>5. QED
    BY <1>1, <2>1, <2>2, <2>3, <2>4 DEF Publish
<1>10. ASSUME NEW r \in Requests, Complete(r) PROVE OwnTypes'
  <2>1. \/ /\ pc' = [pc EXCEPT ![r] = "store"]
           /\ held' = [held EXCEPT ![r] = FALSE]
           /\ UNCHANGED <<answer, source>>
        \/ \E a \in Answer : Finish(r, a, Nobody)
    BY <1>4, <1>10 DEF Complete, Await, Failed
  <2>2. CASE /\ pc' = [pc EXCEPT ![r] = "store"]
             /\ held' = [held EXCEPT ![r] = FALSE]
             /\ UNCHANGED <<answer, source>>
    BY <2>2 DEF OwnTypes, TypeOK, Keyed, Location, UsesKey
  <2>3. QED
    BY <1>1, <2>1, <2>2
<1>11. ASSUME NEW r \in Requests, WriteCache(r) PROVE OwnTypes'
  <2>1. \E a \in Answer, s \in Requests \cup {Nobody} : Finish(r, a, s)
    BY <1>4, <1>11 DEF WriteCache, Await, Success
  <2>2. QED
    BY <1>1, <2>1
<1>12. ASSUME NEW r \in Requests, Release(r) PROVE OwnTypes'
  BY <1>12 DEF Release, OwnTypes, TypeOK, Keyed, Location, UsesKey
<1>13. ASSUME NEW r \in Requests, Crash(r) PROVE OwnTypes'
  BY <1>4, <1>13 DEF Crash, OwnTypes, TypeOK, Keyed, Location, UsesKey
<1>14. QED
  BY <1>3, <1>5, <1>6, <1>7, <1>8, <1>9, <1>10, <1>11, <1>12, <1>13
  DEF Next, Handle, vars, LockExpire, RecordExpire, CacheExpire

(* What may go wrong is settled from the start. *)
LEMMA FaultsFixed == [Next]_vars => faults' = faults
  BY DEF Next, Handle, vars, Reserve, ReserveLock, ReadCache, Redact, Audit, Complete, WriteCache,
     Release, Crash, LockExpire, RecordExpire, CacheExpire, Await, Goto, Publish, Finish, Failed

(* The types hold in every behaviour of the endpoint; no request without a *)
(* key touches a lease or a record (the "is not None" tests of redact).    *)
THEOREM EndpointTypeCorrect == Spec => [](TypeOK /\ Keyed)
<1>1. Init => TypeOK /\ Keyed
  BY EndpointAssumption DEF Init, TypeOK, Keyed, UsesKey, Location, Answer
<1>2. TypeOK /\ Keyed /\ [Next]_vars => (TypeOK /\ Keyed)'
  BY StoreStep, OwnStep, FaultsFixed DEF TypeOK, StoreTypes, OwnTypes
<1>3. QED
  BY <1>1, <1>2, PTL DEF Spec

(* TypeOK alone. *)
THEOREM EndpointTypes == Spec => []TypeOK
BY EndpointTypeCorrect, PTL

-----------------------------------------------------------------------------
(* Audited results.  SuccessIsAudited is not inductive: it needs to know   *)
(* that what can be replayed, or read from the cache, was acknowledged by  *)
(* the audit, and that a handler past the audit was.                       *)

Acknowledged(r) == "optional" \notin faults => r \in audited
Sound ==
  /\ \A k \in Keys : record[k] # Nobody => Acknowledged(record[k])
  /\ \A b \in Bodies : cache[b] # Nobody => Acknowledged(cache[b]) /\ BodyOf[cache[b]] = b
  /\ \A r \in Requests : pc[r] \in {"complete", "store"} => Acknowledged(r)
  /\ SuccessIsAudited

(* Every step keeps it. *)
LEMMA SoundStep == TypeOK /\ Keyed /\ Sound /\ [Next]_vars => Sound'
<1> SUFFICES ASSUME TypeOK, Keyed, Sound, [Next]_vars PROVE Sound'
  OBVIOUS
<1> USE FaultsFixed DEF Acknowledged
<1>1. CASE UNCHANGED vars
  BY <1>1 DEF Sound, SuccessIsAudited, vars, stores
<1>2. ASSUME NEW r \in Requests, Reserve(r) PROVE Sound'
  <2>1. KeyOf[r] \in Keys
    BY <1>2 DEF Reserve, Keyed, UsesKey
  <2>2. QED
    BY <1>2, <2>1 DEF Sound, SuccessIsAudited, TypeOK, Reserve, Await, Goto, Finish, Failed,
                      stores, Success
<1>3. ASSUME NEW r \in Requests, ReserveLock(r) PROVE Sound'
  BY <1>3 DEF Sound, SuccessIsAudited, TypeOK, ReserveLock, TakeLock, Await, Finish, Failed,
              stores, Success
<1>4. ASSUME NEW r \in Requests, ReadCache(r) PROVE Sound'
  <2>1. BodyOf[r] \in Bodies
    BY EndpointAssumption
  <2>2. QED
    BY <1>4, <2>1 DEF Sound, SuccessIsAudited, TypeOK, ReadCache, Await, Goto, Finish,
                      stores, Success
<1>5. ASSUME NEW r \in Requests, Redact(r) PROVE Sound'
  BY <1>5 DEF Sound, SuccessIsAudited, TypeOK, Redact, Goto, Finish, Failed, stores, Success
<1>6. ASSUME NEW r \in Requests, Audit(r) PROVE Sound'
  BY <1>6 DEF Sound, SuccessIsAudited, TypeOK, Audit, Publish, Goto, Finish, Failed, Success
<1>7. ASSUME NEW r \in Requests, Complete(r) PROVE Sound'
  BY <1>7 DEF Sound, SuccessIsAudited, TypeOK, Complete, CompleteScript, Await, Finish,
              Failed, stores, Success
<1>8. ASSUME NEW r \in Requests, WriteCache(r) PROVE Sound'
  <2>1. BodyOf[r] \in Bodies
    BY EndpointAssumption
  <2>2. QED
    BY <1>8, <2>1 DEF Sound, SuccessIsAudited, TypeOK, WriteCache, Await, Finish, stores, Success
<1>9. ASSUME NEW r \in Requests, Release(r) PROVE Sound'
  BY <1>9 DEF Sound, SuccessIsAudited, TypeOK, Release, ReleaseScript, stores
<1>10. ASSUME NEW r \in Requests, Crash(r) PROVE Sound'
  BY <1>10 DEF Sound, SuccessIsAudited, TypeOK, Crash, stores, Success
<1>11. ASSUME NEW k \in Keys, LockExpire(k) \/ RecordExpire(k) PROVE Sound'
  BY <1>11 DEF Sound, SuccessIsAudited, TypeOK, LockExpire, RecordExpire
<1>12. ASSUME NEW b \in Bodies, CacheExpire(b) PROVE Sound'
  BY <1>12 DEF Sound, SuccessIsAudited, TypeOK, CacheExpire
<1>13. QED
  BY <1>1, <1>2, <1>3, <1>4, <1>5, <1>6, <1>7, <1>8, <1>9, <1>10, <1>11, <1>12
  DEF Next, Handle

(* Whatever fails, expires, crashes or loses its client, a success the     *)
(* client sees answers its own body and, where the audit is required, was  *)
(* audited by the execution that computed it.                              *)
THEOREM SuccessesAreAudited == Spec => []SuccessIsAudited
<1>1. Init => Sound
  BY DEF Init, Sound, SuccessIsAudited, Success
<1>2. Sound => SuccessIsAudited
  BY DEF Sound
<1>3. QED
  BY <1>1, <1>2, SoundStep, EndpointTypeCorrect, PTL DEF Spec

-----------------------------------------------------------------------------
(* Publication.  A keyed handler is past completion only once its own      *)
(* record was written under its lease.                                     *)

Recorded ==
  \A r \in Requests :
    KeyOf[r] # NoKey =>
      /\ pc[r] = "store" \/ answer[r] = "computed" => r \in published
      /\ \A b \in Bodies : cache[b] = r => r \in published

(* Every step keeps it. *)
LEMMA RecordedStep == TypeOK /\ Recorded /\ [Next]_vars => Recorded'
<1> SUFFICES ASSUME TypeOK, Recorded, [Next]_vars PROVE Recorded'
  OBVIOUS
<1>1. CASE UNCHANGED vars
  BY <1>1 DEF Recorded, vars, stores
<1>2. ASSUME NEW r \in Requests, Reserve(r) PROVE Recorded'
  BY <1>2 DEF Recorded, TypeOK, Reserve, Await, Goto, Finish, Failed, stores
<1>3. ASSUME NEW r \in Requests, ReserveLock(r) PROVE Recorded'
  BY <1>3 DEF Recorded, TypeOK, ReserveLock, TakeLock, Await, Finish,
              Failed, stores
<1>4. ASSUME NEW r \in Requests, ReadCache(r) PROVE Recorded'
  BY <1>4 DEF Recorded, TypeOK, ReadCache, Await, Goto, Finish, stores
<1>5. ASSUME NEW r \in Requests, Redact(r) PROVE Recorded'
  BY <1>5 DEF Recorded, TypeOK, Redact, Goto, Finish, Failed, stores
<1>6. ASSUME NEW r \in Requests, Audit(r) PROVE Recorded'
  BY <1>6 DEF Recorded, TypeOK, Audit, Publish, Goto, Finish, Failed
<1>7. ASSUME NEW r \in Requests, Complete(r) PROVE Recorded'
  BY <1>7 DEF Recorded, TypeOK, Complete, CompleteScript, Await, Finish,
              Failed, stores
<1>8. ASSUME NEW r \in Requests, WriteCache(r) PROVE Recorded'
  BY <1>8 DEF Recorded, TypeOK, WriteCache, Await, Finish, stores
<1>9. ASSUME NEW r \in Requests, Release(r) \/ Crash(r) PROVE Recorded'
  BY <1>9 DEF Recorded, TypeOK, Release, ReleaseScript, Crash, stores
<1>10. ASSUME NEW k \in Keys, LockExpire(k) \/ RecordExpire(k) PROVE Recorded'
  BY <1>10 DEF Recorded, TypeOK, LockExpire, RecordExpire
<1>11. ASSUME NEW b \in Bodies, CacheExpire(b) PROVE Recorded'
  <2>1. \A c \in Bodies : cache'[c] \in {cache[c], Nobody}
    BY <1>11 DEF TypeOK, CacheExpire
  <2>2. QED
    BY <1>11, <2>1, EndpointAssumption DEF Recorded, CacheExpire
<1>12. QED
  BY <1>1, <1>2, <1>3, <1>4, <1>5, <1>6, <1>7, <1>8, <1>9, <1>10, <1>11 DEF Next, Handle

(* A request that found no client at the completion is over, and one that  *)
(* has not completed yet has left nothing.                                 *)
Unfinished == {"get", "lock", "cache", "redact", "audit", "complete"}
Unkept ==
  \A r \in Requests :
    /\ pc[r] \in Unfinished \/ answer[r] = "unkept" => r \notin published
    /\ answer[r] = "unkept" => pc[r] = "done" /\ "drop" \in faults

(* Every step keeps it. *)
LEMMA UnkeptStep == TypeOK /\ Unkept /\ [Next]_vars => Unkept'
<1> SUFFICES ASSUME TypeOK, Unkept, [Next]_vars PROVE Unkept'
  OBVIOUS
<1> USE FaultsFixed DEF Unkept, Unfinished
<1>1. CASE UNCHANGED vars
  BY <1>1 DEF vars, stores
<1>2. ASSUME NEW r \in Requests, Reserve(r) PROVE Unkept'
  BY <1>2 DEF TypeOK, Reserve, Await, Goto, Finish, Failed, stores
<1>3. ASSUME NEW r \in Requests, ReserveLock(r) PROVE Unkept'
  BY <1>3 DEF TypeOK, ReserveLock, TakeLock, Await, Finish, Failed, stores
<1>4. ASSUME NEW r \in Requests, ReadCache(r) \/ Redact(r) PROVE Unkept'
  BY <1>4 DEF TypeOK, ReadCache, Redact, Await, Goto, Finish, Failed, stores
<1>5. ASSUME NEW r \in Requests, Audit(r) PROVE Unkept'
  BY <1>5 DEF TypeOK, Audit, Publish, Goto, Finish, Failed
<1>6. ASSUME NEW r \in Requests, Complete(r) PROVE Unkept'
  BY <1>6 DEF TypeOK, Complete, CompleteScript, Await, Finish, Failed, stores
<1>7. ASSUME NEW r \in Requests, WriteCache(r) PROVE Unkept'
  BY <1>7 DEF TypeOK, WriteCache, Await, Finish, stores
<1>8. ASSUME NEW r \in Requests, Release(r) \/ Crash(r) PROVE Unkept'
  BY <1>8 DEF TypeOK, Release, ReleaseScript, Crash, stores
<1>9. CASE \/ \E k \in Keys : LockExpire(k) \/ RecordExpire(k)
           \/ \E b \in Bodies : CacheExpire(b)
  BY <1>9 DEF TypeOK, LockExpire, RecordExpire, CacheExpire
<1>10. QED
  BY <1>1, <1>2, <1>3, <1>4, <1>5, <1>6, <1>7, <1>8, <1>9 DEF Next, Handle

(* A keyed response reaches the cache, or its client by the path that      *)
(* completes the key, only after its own replayable record, even when      *)
(* leases expire under their holders; a response returned because the      *)
(* link had dropped the client was kept nowhere.                           *)
THEOREM KeyedResultsArePublished == Spec => []KeyedResultIsPublished
<1>1. Init => Recorded /\ Unkept
  BY EndpointAssumption DEF Init, Recorded, Unkept
<1>2. Recorded /\ Unkept => KeyedResultIsPublished
  BY DEF Recorded, Unkept, KeyedResultIsPublished
<1>3. QED
  BY <1>1, <1>2, RecordedStep, UnkeptStep, EndpointTypes, PTL DEF Spec

-----------------------------------------------------------------------------
(* The lease.  Mutual exclusion rests on a worker being the one the lock   *)
(* names, as long as a lease outlives its live holder.                     *)

HoldsLock == \A r \in Requests : Working(r) => lock[KeyOf[r]] = r

(* Every step keeps it, unless leases expire early. *)
LEMMA HoldsLockStep ==
  "lease" \notin faults /\ TypeOK /\ Keyed /\ HoldsLock /\ [Next]_vars => HoldsLock'
<1> SUFFICES ASSUME "lease" \notin faults, TypeOK, Keyed, HoldsLock, [Next]_vars, NEW q \in Requests, Working(q)'
             PROVE  lock'[KeyOf[q]] = q
  BY DEF HoldsLock
<1> USE EndpointAssumption
<1>1. CASE UNCHANGED vars
  BY <1>1 DEF HoldsLock, Working, vars, stores
<1>2. ASSUME NEW r \in Requests, Reserve(r) \/ ReadCache(r) \/ Redact(r)
      PROVE  lock'[KeyOf[q]] = q
  <2>1. UNCHANGED <<lock, held>>
    BY <1>2 DEF Reserve, ReadCache, Redact, Await, Goto, Finish, Failed, stores
  <2>2. Working(q)
    BY <1>2, <2>1 DEF Working, TypeOK, Reserve, ReadCache, Redact, Await, Goto, Finish, Failed
  <2>3. QED
    BY <2>1, <2>2 DEF HoldsLock
<1>3. ASSUME NEW r \in Requests, ReserveLock(r) PROVE lock'[KeyOf[q]] = q
  <2>1. KeyOf[r] \in Keys /\ KeyOf[q] \in Keys
    BY <1>3 DEF ReserveLock, Keyed, UsesKey, Working, Await, Finish, Failed, TypeOK
  <2>2. CASE q = r
    BY <1>3, <2>1, <2>2 DEF Working, TypeOK, ReserveLock, TakeLock, CanLock, Await, Finish, Failed
  <2>3. CASE q # r
    <3>1. Working(q)
      BY <1>3, <2>3 DEF Working, TypeOK, ReserveLock, Await, Finish, Failed
    <3>2. lock' = lock \/ (lock[KeyOf[r]] = Nobody /\ lock' = [lock EXCEPT ![KeyOf[r]] = r])
      BY <1>3 DEF ReserveLock, TakeLock, CanLock, Await, stores
    <3>3. QED
      BY <2>1, <2>3, <3>1, <3>2 DEF HoldsLock, TypeOK
  <2>4. QED
    BY <2>2, <2>3
<1>4. ASSUME NEW r \in Requests, Audit(r) PROVE lock'[KeyOf[q]] = q
  BY <1>4 DEF HoldsLock, Working, TypeOK, Audit, Publish, Goto, Finish, Failed
<1>5. ASSUME NEW r \in Requests, Complete(r) \/ Release(r) PROVE lock'[KeyOf[q]] = q
  <2>1. q # r /\ Working(q)
    BY <1>5 DEF Working, TypeOK, Complete, Release, Await, Finish, Failed
  <2>2. lock' = lock \/ (lock[KeyOf[r]] = r /\ lock' = [lock EXCEPT ![KeyOf[r]] = Nobody])
    BY <1>5 DEF Complete, CompleteScript, Release, ReleaseScript, Owns, Await, stores
  <2>3. KeyOf[r] \in Keys
    BY <1>5 DEF Complete, Release, Keyed, UsesKey
  <2>4. KeyOf[q] \in Keys
    BY <2>1 DEF Working, Keyed
  <2>5. QED
    BY <2>1, <2>2, <2>3, <2>4 DEF HoldsLock, TypeOK
<1>6. ASSUME NEW r \in Requests, WriteCache(r) \/ Crash(r) PROVE lock'[KeyOf[q]] = q
  BY <1>6 DEF HoldsLock, Working, TypeOK, WriteCache, Crash, Await, Finish, stores
<1>7. ASSUME NEW k \in Keys, LockExpire(k) PROVE lock'[KeyOf[q]] = q
  <2>1. Working(q) /\ lock[KeyOf[q]] = q /\ KeyOf[q] \in Keys
    BY <1>7 DEF LockExpire, Working, HoldsLock, Keyed
  <2>2. k # KeyOf[q]
    BY <1>7, <2>1 DEF LockExpire, Working
  <2>3. QED
    BY <1>7, <2>1, <2>2 DEF LockExpire, TypeOK
<1>8. CASE \E k \in Keys : RecordExpire(k)
  BY <1>8 DEF HoldsLock, Working, RecordExpire
<1>9. CASE \E b \in Bodies : CacheExpire(b)
  BY <1>9 DEF HoldsLock, Working, CacheExpire
<1>10. QED
  BY <1>1, <1>2, <1>3, <1>4, <1>5, <1>6, <1>7, <1>8, <1>9 DEF Next, Handle

(* As long as leases outlive the request deadline, no two requests with    *)
(* one key work at the same time, whatever else fails.                     *)
THEOREM LeaseIsExclusive == Spec => []OneHolder
<1> DEFINE Kept == "lease" \notin faults => HoldsLock
<1>1. Init => Kept
  BY DEF Init, HoldsLock, Working
<1>2. Kept => OneHolder
  BY DEF HoldsLock, OneHolder
<1>3. TypeOK /\ Keyed /\ Kept /\ [Next]_vars => Kept'
  BY FaultsFixed, HoldsLockStep
<1>4. QED
  BY <1>1, <1>2, <1>3, EndpointTypeCorrect, PTL DEF Spec

(* A request takes away no lease but its own, even one that lost its lease *)
(* earlier and completes or releases late.                                 *)
THEOREM LeasesAreHonoured == Spec => LeaseIsHonoured
<1> DEFINE Honoured(k) ==
      lock[k] # Nobody /\ lock'[k] # lock[k] => LockExpire(k) \/ pc'[lock[k]] # pc[lock[k]]
<1>1. TypeOK /\ Keyed /\ [Next]_vars => [\A k \in Keys : Honoured(k)]_vars
  <2> SUFFICES ASSUME TypeOK, Keyed, [Next]_vars, NEW k \in Keys,
                      lock[k] # Nobody, lock'[k] # lock[k]
               PROVE  LockExpire(k) \/ pc'[lock[k]] # pc[lock[k]]
    OBVIOUS
  <2>1. ~ UNCHANGED lock
    OBVIOUS
  <2>2. ASSUME NEW r \in Requests, ReserveLock(r) PROVE FALSE
    BY <2>1, <2>2 DEF ReserveLock, TakeLock, CanLock, Await, TypeOK, Keyed, UsesKey, stores
  <2>3. ASSUME NEW r \in Requests, Complete(r) \/ Release(r)
        PROVE  pc'[lock[k]] # pc[lock[k]]
    <3>1. lock[KeyOf[r]] = r /\ lock' = [lock EXCEPT ![KeyOf[r]] = Nobody]
      BY <2>1, <2>3 DEF Complete, CompleteScript, Release, ReleaseScript, Owns, Await, stores
    <3>2. k = KeyOf[r]
      BY <3>1 DEF TypeOK
    <3>3. pc'[r] # pc[r]
      BY <2>3 DEF Complete, Release, Await, Finish, Failed, TypeOK
    <3>4. QED
      BY <3>1, <3>2, <3>3
  <2>4. ASSUME NEW i \in Keys, LockExpire(i) PROVE LockExpire(k)
    <3>1. i = k
      BY <2>4 DEF LockExpire, TypeOK
    <3>2. QED
      BY <2>4, <3>1
  <2>5. QED
    BY <2>1, <2>2, <2>3, <2>4 DEF Next, Handle, vars, stores, Reserve, ReadCache, Redact, Audit,
       WriteCache, Crash, RecordExpire, CacheExpire, Await
<1>2. QED
  BY <1>1, EndpointTypeCorrect, PTL DEF Spec, LeaseIsHonoured

-----------------------------------------------------------------------------
(* The way back of a lease.  While every Redis call is answered, the lock  *)
(* names only requests that know it and whose way leads through release or *)
(* the completion.                                                         *)

Leased(k, r) ==
  lock[k] = r =>
    /\ k = KeyOf[r] /\ held[r]
    /\ pc[r] \in {"cache", "redact", "audit", "complete", "release"}
LeaseInv == \A k \in Keys, r \in Requests : Leased(k, r)

(* Every step keeps it. *)
LEMMA LeaseStep ==
  ASSUME faults \subseteq Answers, TypeOK, Keyed, LeaseInv, [Next]_vars
  PROVE  LeaseInv'
<1> SUFFICES ASSUME NEW k \in Keys, NEW q \in Requests PROVE Leased(k, q)'
  BY DEF LeaseInv
<1>0. /\ Leased(k, q) /\ Nobody \notin Requests
      /\ {"store", "lost", "resend", "deadline", "crash", "drop"} \cap faults = {}
  BY EndpointAssumption DEF LeaseInv, Answers
<1>1. CASE UNCHANGED vars
  BY <1>0, <1>1 DEF Leased, vars, stores
<1>2. ASSUME NEW r \in Requests, Reserve(r) PROVE Leased(k, q)'
  BY <1>0, <1>2 DEF Leased, TypeOK, Reserve, Await, Goto, Finish, Failed, stores
<1>3. ASSUME NEW r \in Requests, ReserveLock(r) PROVE Leased(k, q)'
  <2>1. KeyOf[r] \in Keys
    BY <1>3 DEF ReserveLock, Keyed, UsesKey
  <2>2. CASE CanLock(r)
    BY <1>0, <1>3, <2>1, <2>2 DEF Leased, TypeOK, ReserveLock, TakeLock, CanLock, Await, stores
  <2>3. CASE ~CanLock(r)
    BY <1>0, <1>3, <2>3 DEF Leased, TypeOK, ReserveLock, TakeLock, Await, Finish, stores
  <2>4. QED
    BY <2>2, <2>3
<1>4. ASSUME NEW r \in Requests, ReadCache(r) \/ Redact(r) \/ Audit(r) PROVE Leased(k, q)'
  <2>1. KeyOf[r] = NoKey => q # r \/ lock[k] # q
    BY <1>0, EndpointAssumption DEF Leased
  <2>2. QED
    BY <1>0, <1>4, <2>1 DEF Leased, TypeOK, ReadCache, Redact, Audit, Publish, Await, Goto,
       Finish, Failed, stores
<1>5. ASSUME NEW r \in Requests, Complete(r) PROVE Leased(k, q)'
  <2>1. KeyOf[r] \in Keys
    BY <1>5 DEF Complete, Keyed, UsesKey
  <2>2. CASE Owns(r)
    BY <1>0, <1>5, <2>1, <2>2 DEF Leased, TypeOK, Complete, CompleteScript, Owns, Await
  <2>3. CASE ~Owns(r)
    BY <1>0, <1>5, <2>1, <2>3 DEF Leased, TypeOK, Complete, CompleteScript, Owns, Await, Finish,
       Failed, stores
  <2>4. QED
    BY <2>2, <2>3
<1>6. ASSUME NEW r \in Requests, WriteCache(r) PROVE Leased(k, q)'
  BY <1>0, <1>6 DEF Leased, TypeOK, WriteCache, Await, Finish, stores
<1>7. ASSUME NEW r \in Requests, Release(r) PROVE Leased(k, q)'
  <2>1. KeyOf[r] \in Keys
    BY <1>7 DEF Release, Keyed, UsesKey
  <2>2. QED
    BY <1>0, <1>7, <2>1 DEF Leased, TypeOK, Release, ReleaseScript, Owns
<1>8. ASSUME NEW r \in Requests, Crash(r) PROVE FALSE
  BY <1>0, <1>8 DEF Crash
<1>9. CASE \/ \E j \in Keys : LockExpire(j) \/ RecordExpire(j)
           \/ \E b \in Bodies : CacheExpire(b)
  BY <1>0, <1>9 DEF Leased, TypeOK, LockExpire, RecordExpire, CacheExpire
<1>10. QED
  BY <1>1, <1>2, <1>3, <1>4, <1>5, <1>6, <1>7, <1>8, <1>9 DEF Next, Handle

(* However a redaction or its audit fails, and even if the lease expires   *)
(* under it, a request that was answered has left no lease behind, as long *)
(* as Redis answers, the link stands and the process lives.                *)
THEOREM LeasesAreGivenBack == Spec => []LeaseIsGivenBack
<1> DEFINE Kept == faults \subseteq Answers => LeaseInv
<1>1. Init => Kept
  BY EndpointAssumption DEF Init, LeaseInv, Leased
<1>2. TypeOK /\ Keyed /\ Kept /\ [Next]_vars => Kept'
  BY FaultsFixed, LeaseStep
<1>3. Kept => LeaseIsGivenBack
  BY DEF LeaseInv, Leased, LeaseIsGivenBack
<1>4. QED
  BY <1>1, <1>2, <1>3, EndpointTypeCorrect, PTL DEF Spec
=============================================================================
