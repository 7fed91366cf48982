---------------------------- MODULE PartsProofs -----------------------------
(***************************************************************************)
(* What holds of the rate limit, the stream and the shared audit list for  *)
(* every number of calls, every text, limit, window and delay.             *)
(***************************************************************************)
EXTENDS MCParts, Integers, SequenceTheorems, WellFoundedInduction, FiniteSetTheorems, TLAPS

-----------------------------------------------------------------------------
(* The rate limit.  A bucket lives through at most two counts: one that    *)
(* ends after its minute, and one that outlives every call which named it. *)
RateTyped ==
  /\ rNow \in 0..LastTick
  /\ rCount \in [Rate!Buckets -> Nat]
  /\ rExpires \in [Rate!Buckets -> Nat]
  /\ rPc \in [Calls -> {"new", "sent"} \cup Rate!Answers]
  /\ rBucket \in [Calls -> Rate!Buckets]
  /\ rSince \in [Calls -> Nat]

(* A call under way named its bucket in that minute, not long ago. *)
SentInTime ==
  \A c \in Calls : rPc[c] = "sent" =>
    /\ rBucket[c] * CallWindow <= rSince[c] /\ rSince[c] < rBucket[c] * CallWindow + CallWindow
    /\ rSince[c] <= rNow /\ rNow <= rSince[c] + Delay

AskedFinite == \A b \in Rate!Buckets : IsFiniteSet(Rate!Asked(b))

(* A count outlasts its bucket's minute. *)
CountLasts ==
  \A b \in Rate!Buckets :
    IF rExpires[b] = 0 THEN rCount[b] = 0
    ELSE rExpires[b] >= b * CallWindow + CallWindow /\ rCount[b] >= 1

Capped(n) == IF n <= CallLimit THEN n ELSE CallLimit
FirstCount(b) == Cardinality(Rate!Allowed(b)) <= Capped(rCount[b])
SecondCount(b) ==
  /\ rExpires[b] >= b * CallWindow + CallWindow + CallWindow
  /\ Cardinality(Rate!Allowed(b)) <= CallLimit + Capped(rCount[b])
CountsTwice == \A b \in Rate!Buckets : FirstCount(b) \/ SecondCount(b)

(* A count is never ahead of the calls that were answered. *)
CountedWereAsked ==
  "resend" \notin rFaults => \A b \in Rate!Buckets : rCount[b] <= Cardinality(Rate!Asked(b))

RateInv ==
  /\ RateTyped /\ SentInTime /\ AskedFinite /\ CountLasts /\ CountsTwice
  /\ CountedWereAsked /\ Rate!RefusedOverLimit

LEMMA RateConstants ==
  /\ CallLimit \in Nat \ {0} /\ CallWindow \in Nat \ {0} /\ Delay \in 0..(CallWindow - 1)
  /\ LastTick \in Nat
  BY PartsAssumption DEF Rate!RateAssumption

(* minute_bucket rounds down. *)
LEMMA MinuteBucket ==
  ASSUME NEW t \in Nat
  PROVE  /\ Rate!minute_bucket(t) \in Nat
         /\ Rate!minute_bucket(t) * CallWindow <= t
         /\ t < Rate!minute_bucket(t) * CallWindow + CallWindow
  BY RateConstants DEF Rate!minute_bucket

LEMMA MinuteBucketGrows ==
  ASSUME NEW t \in Nat, NEW u \in Nat, t <= u
  PROVE  Rate!minute_bucket(t) <= Rate!minute_bucket(u)
  BY RateConstants DEF Rate!minute_bucket

(* RateLimit counts with its own instance of Cardinality. *)
LEMMA RateCardinality == \A S : Rate!Cardinality(S) = Cardinality(S)
  BY DEF Rate!Cardinality, Cardinality

LEMMA AllowedWereAsked ==
  ASSUME RateInv, NEW b \in Rate!Buckets
  PROVE  /\ Rate!Allowed(b) \subseteq Rate!Asked(b) /\ IsFiniteSet(Rate!Allowed(b))
         /\ Cardinality(Rate!Allowed(b)) \in Nat /\ Cardinality(Rate!Asked(b)) \in Nat
<1>1. Rate!Allowed(b) \subseteq Rate!Asked(b)
  BY DEF Rate!Allowed, Rate!Asked, Rate!Answers
<1>2. QED BY <1>1, FS_Subset, FS_CardinalityType DEF RateInv, AskedFinite

LEMMA RateStarts == Rate!Init => RateInv
<1> SUFFICES ASSUME Rate!Init PROVE RateInv
  OBVIOUS
<1>1. 0 \in Rate!Buckets /\ Rate!Buckets \subseteq Nat
  BY RateConstants, MinuteBucket DEF Rate!Buckets
<1>2. \A b \in Rate!Buckets : Rate!Asked(b) = {} /\ Rate!Allowed(b) = {}
  BY DEF Rate!Init, Rate!Asked, Rate!Allowed, Rate!Answers, Rate!In
<1>3. RateTyped
  BY <1>1, RateConstants DEF Rate!Init, RateTyped
<1>4. SentInTime /\ CountLasts /\ Rate!RefusedOverLimit
  BY DEF Rate!Init, SentInTime, CountLasts, Rate!RefusedOverLimit
<1>5. AskedFinite
  BY <1>2, FS_EmptySet DEF AskedFinite
<1>6. CountedWereAsked /\ CountsTwice
  BY <1>2, FS_EmptySet, RateConstants
  DEF Rate!Init, CountedWereAsked, CountsTwice, FirstCount, Capped
<1>7. QED BY <1>3, <1>4, <1>5, <1>6 DEF RateInv

(* Naming a bucket, and the passing of time, touch no answer. *)
LEMMA NameKeepsRate ==
  ASSUME RateInv, NEW c \in Calls, Rate!Name(c)
  PROVE  RateInv'
<1> USE DEF Rate!Name, RateInv
<1>1. Rate!minute_bucket(rNow) \in Rate!Buckets
  BY RateConstants, MinuteBucket, MinuteBucketGrows DEF RateTyped, Rate!Buckets
<1>2. RateTyped'
  BY <1>1, RateConstants DEF RateTyped, Rate!redis
<1>3. SentInTime'
  BY MinuteBucket, RateConstants DEF RateTyped, SentInTime
<1>4. \A b \in Rate!Buckets : Rate!Asked(b)' = Rate!Asked(b) /\ Rate!Allowed(b)' = Rate!Allowed(b)
  BY DEF RateTyped, Rate!Asked, Rate!Allowed, Rate!Answers, Rate!In
<1>5. AskedFinite' /\ CountLasts' /\ CountsTwice' /\ CountedWereAsked'
  BY <1>4 DEF AskedFinite, CountLasts, CountsTwice, CountedWereAsked, FirstCount, SecondCount, Rate!redis
<1>6. Rate!RefusedOverLimit'
  BY <1>4 DEF Rate!RefusedOverLimit, RateTyped
<1>7. QED BY <1>2, <1>3, <1>5, <1>6

LEMMA TickKeepsRate ==
  ASSUME RateInv, Rate!Tick
  PROVE  RateInv'
<1> USE DEF Rate!Tick, RateInv
<1>2. RateTyped'
  BY RateConstants DEF RateTyped, Rate!redis
<1>3. SentInTime'
  BY RateConstants DEF RateTyped, SentInTime
<1>4. \A b \in Rate!Buckets : Rate!Asked(b)' = Rate!Asked(b) /\ Rate!Allowed(b)' = Rate!Allowed(b)
  BY DEF Rate!Asked, Rate!Allowed, Rate!In
<1>5. AskedFinite' /\ CountLasts' /\ CountsTwice' /\ CountedWereAsked'
  BY <1>4 DEF AskedFinite, CountLasts, CountsTwice, CountedWereAsked, FirstCount, SecondCount, Rate!redis
<1>6. Rate!RefusedOverLimit'
  BY <1>4 DEF Rate!RefusedOverLimit, RateTyped
<1>7. QED BY <1>2, <1>3, <1>5, <1>6

(* An answer adds its call to those asked, and to those allowed if it is.  *)
LEMMA ReplyCounts ==
  ASSUME RateInv, NEW c \in Calls, rPc[c] = "sent", NEW a \in Rate!Answers, Rate!Reply(c, a)
  PROVE  /\ rBucket[c] \in Rate!Buckets
         /\ RateTyped /\ rPc' \in [Calls -> {"new", "sent"} \cup Rate!Answers]
         /\ SentInTime' /\ AskedFinite'
         /\ \A b \in Rate!Buckets :
              b # rBucket[c] => Rate!Asked(b)' = Rate!Asked(b) /\ Rate!Allowed(b)' = Rate!Allowed(b)
         /\ c \in Rate!Asked(rBucket[c])'
         /\ Cardinality(Rate!Asked(rBucket[c])') = Cardinality(Rate!Asked(rBucket[c])) + 1
         /\ Cardinality(Rate!Allowed(rBucket[c])') =
              Cardinality(Rate!Allowed(rBucket[c])) + (IF a = "allowed" THEN 1 ELSE 0)
<1> DEFINE b == rBucket[c]
<1> USE DEF Rate!Reply, RateInv
<1>1. b \in Rate!Buckets /\ rPc' \in [Calls -> {"new", "sent"} \cup Rate!Answers]
  BY DEF RateTyped
<1>2. SentInTime'
  BY DEF SentInTime, RateTyped, Rate!Answers
<1>3. \A d \in Rate!Buckets :
        d # b => Rate!Asked(d)' = Rate!Asked(d) /\ Rate!Allowed(d)' = Rate!Allowed(d)
  BY DEF Rate!Asked, Rate!Allowed, Rate!In, RateTyped
<1>4. Rate!Asked(b)' = Rate!Asked(b) \cup {c} /\ c \notin Rate!Asked(b)
  BY DEF Rate!Asked, Rate!In, RateTyped, Rate!Answers
<1>5. Rate!Allowed(b)' = IF a = "allowed" THEN Rate!Allowed(b) \cup {c} ELSE Rate!Allowed(b)
  BY DEF Rate!Allowed, Rate!In, RateTyped
<1>6. c \notin Rate!Allowed(b)
  BY DEF Rate!Allowed
<1>7. IsFiniteSet(Rate!Asked(b)) /\ IsFiniteSet(Rate!Allowed(b))
      /\ Cardinality(Rate!Allowed(b)) \in Nat
  BY <1>1, AllowedWereAsked DEF AskedFinite
<1>8. Cardinality(Rate!Asked(b)') = Cardinality(Rate!Asked(b)) + 1 /\ IsFiniteSet(Rate!Asked(b)')
  BY <1>4, <1>7, FS_AddElement
<1>9. Cardinality(Rate!Allowed(b)') = Cardinality(Rate!Allowed(b)) + (IF a = "allowed" THEN 1 ELSE 0)
  <2> HIDE DEF b
  <2>1. Cardinality(Rate!Allowed(b) \cup {c}) = Cardinality(Rate!Allowed(b)) + 1
    BY <1>6, <1>7, FS_AddElement
  <2>2. QED BY <2>1, <1>5, <1>7
<1>10. AskedFinite'
  <2> SUFFICES ASSUME NEW d \in Rate!Buckets PROVE IsFiniteSet(Rate!Asked(d))'
    BY DEF AskedFinite, Rate!Buckets
  <2>1. CASE d = b BY <2>1, <1>8, <1>1
  <2>2. CASE d # b BY <2>2, <1>3 DEF AskedFinite
  <2>3. QED BY <2>1, <2>2
<1>11. QED BY <1>1, <1>2, <1>3, <1>4, <1>8, <1>9, <1>10

(* The count of a bucket after a call that named it.                       *)
LEMMA IncrCounts ==
  ASSUME RateInv, NEW c \in Calls, rPc[c] = "sent", NEW n \in {1, 2}, Rate!Incr(rBucket[c], n)
  PROVE  LET b == rBucket[c] IN
         /\ rCount' \in [Rate!Buckets -> Nat] /\ rExpires' \in [Rate!Buckets -> Nat]
         /\ \A d \in Rate!Buckets : d # b => rCount'[d] = rCount[d] /\ rExpires'[d] = rExpires[d]
         /\ rCount'[b] \in Nat /\ rCount'[b] >= n /\ rCount'[b] <= rCount[b] + n
         /\ rExpires'[b] >= b * CallWindow + CallWindow
         /\ \/ rNow < rExpires[b] /\ rCount'[b] = rCount[b] + n /\ rExpires'[b] = rExpires[b]
            \/ rExpires[b] = 0 /\ rCount[b] = 0
            \/ /\ rExpires[b] < b * CallWindow + CallWindow + CallWindow
               /\ rExpires'[b] >= b * CallWindow + CallWindow + CallWindow
<1> DEFINE b == rBucket[c]
<1> USE DEF RateInv
<1>1. b \in Rate!Buckets /\ rNow \in Nat /\ rCount[b] \in Nat /\ rExpires[b] \in Nat
      /\ b * CallWindow \in Nat /\ b \in Nat /\ rSince[c] \in Nat
  <2>1. b \in Rate!Buckets /\ rNow \in Nat /\ rSince[c] \in Nat
    BY RateConstants DEF RateTyped
  <2>2. rCount[b] \in Nat /\ rExpires[b] \in Nat
    BY <2>1 DEF RateTyped
  <2>3. b \in Nat
    BY <2>1, RateConstants, MinuteBucket DEF Rate!Buckets
  <2>4. QED BY <2>1, <2>2, <2>3, RateConstants
<1>2. b * CallWindow <= rNow /\ rNow < b * CallWindow + CallWindow + CallWindow
  BY <1>1, RateConstants DEF SentInTime
<1>3. IF rExpires[b] = 0 THEN rCount[b] = 0
      ELSE rExpires[b] >= b * CallWindow + CallWindow /\ rCount[b] >= 1
  BY <1>1 DEF CountLasts
<1>4. /\ rCount' = [rCount EXCEPT ![b] = Rate!Counted(b) + n - 1]
      /\ rExpires' = [rExpires EXCEPT ![b] = IF Rate!Counted(b) = 1 THEN rNow + CallWindow ELSE @]
      /\ Rate!Counted(b) = IF rNow < rExpires[b] THEN rCount[b] + 1 ELSE 1
  BY Zenon DEF Rate!Incr, Rate!Counted
<1> DEFINE k == Rate!Counted(b)
           base == b * CallWindow
           e == IF k = 1 THEN rNow + CallWindow ELSE rExpires[b]
<1>5. k \in Nat \ {0} /\ e \in Nat /\ base \in Nat
  BY <1>1, <1>4, RateConstants
<1>6. rCount'[b] = k + n - 1 /\ rExpires'[b] = e
      /\ rCount' \in [Rate!Buckets -> Nat] /\ rExpires' \in [Rate!Buckets -> Nat]
      /\ \A d \in Rate!Buckets : d # b => rCount'[d] = rCount[d] /\ rExpires'[d] = rExpires[d]
  <2> HIDE DEF k
  <2> QED BY <1>1, <1>4, <1>5 DEF RateTyped, k
<1>7. CASE rNow < rExpires[b]
  <2>1. k = rCount[b] + 1 /\ e = rExpires[b] /\ rExpires[b] >= base + CallWindow
    BY <1>1, <1>3, <1>4, <1>7
  <2> HIDE DEF k, e, base
  <2>2. QED BY <2>1, <1>1, <1>6, <1>7 DEF base
<1>8. CASE ~(rNow < rExpires[b])
  <2>1. k = 1 /\ e = rNow + CallWindow
    BY <1>4, <1>8
  <2> HIDE DEF k, e, base
  <2>2. base <= rNow /\ rNow < base + CallWindow + CallWindow /\ rExpires[b] <= rNow
        /\ ((rExpires[b] = 0 /\ rCount[b] = 0) \/ rExpires[b] >= base + CallWindow)
    BY <1>1, <1>2, <1>3, <1>8 DEF base
  <2>3. QED BY <2>1, <2>2, <1>1, <1>5, <1>6, RateConstants DEF base
<1>9. QED BY <1>7, <1>8

(* A call that was counted, whatever its caller came to know.              *)
LEMMA CountKeepsRate ==
  ASSUME RateInv, NEW c \in Calls, rPc[c] = "sent", NEW n \in {1, 2}, Rate!Incr(rBucket[c], n),
         NEW a \in Rate!Answers, Rate!Reply(c, a), n = 2 => "resend" \in rFaults,
         a = "allowed" => rCount'[rBucket[c]] <= CallLimit,
         a = "refused" => rCount'[rBucket[c]] > CallLimit
  PROVE  RateInv'
<1> DEFINE b == rBucket[c]
           base == b * CallWindow
           old == Cardinality(Rate!Allowed(b))
           new == Cardinality(Rate!Allowed(b)')
<1>0. UNCHANGED <<rFaults, rNow, rBucket, rSince>> /\ b \in Rate!Buckets /\ b \in Nat
  <2>1. UNCHANGED <<rFaults, rNow, rBucket, rSince>> /\ b \in Rate!Buckets
    BY ReplyCounts DEF Rate!Reply
  <2>2. QED BY <2>1, MinuteBucket, RateConstants DEF Rate!Buckets
<1>1. RateTyped'
  BY ReplyCounts, IncrCounts, <1>0 DEF RateTyped, Rate!Buckets
<1>2. CountLasts'
  <2> SUFFICES ASSUME NEW d \in Rate!Buckets
               PROVE  IF rExpires'[d] = 0 THEN rCount'[d] = 0
                      ELSE rExpires'[d] >= d * CallWindow + CallWindow /\ rCount'[d] >= 1
    BY DEF CountLasts, Rate!Buckets
  <2>1. CASE d = b
    <3>1. rExpires'[b] >= base + CallWindow /\ rCount'[b] >= n /\ rCount'[b] \in Nat
      BY IncrCounts
    <3>2. base \in Nat
      BY <1>0, RateConstants
    <3>3. QED BY <2>1, <3>1, <3>2, RateConstants
  <2>2. CASE d # b
    BY <2>2, IncrCounts DEF RateInv, CountLasts
  <2>3. QED BY <2>1, <2>2
<1>3. CountedWereAsked'
  <2> SUFFICES ASSUME "resend" \notin rFaults, NEW d \in Rate!Buckets
               PROVE  rCount'[d] <= Cardinality(Rate!Asked(d)')
    BY <1>0 DEF CountedWereAsked, Rate!Buckets
  <2>1. CASE d = b
    <3>1. rCount'[b] \in Nat /\ rCount'[b] <= rCount[b] + 1
      BY IncrCounts
    <3>2. Cardinality(Rate!Asked(b)') = Cardinality(Rate!Asked(b)) + 1
      BY ReplyCounts
    <3>3. rCount[b] <= Cardinality(Rate!Asked(b)) /\ Cardinality(Rate!Asked(b)) \in Nat
          /\ rCount[b] \in Nat
      BY <1>0, AllowedWereAsked DEF RateInv, RateTyped, CountedWereAsked
    <3>4. rCount'[b] <= Cardinality(Rate!Asked(b)')
      <4> HIDE DEF b
      <4> QED BY <3>1, <3>2, <3>3
    <3>5. QED BY <3>4, <2>1, <1>0
  <2>2. CASE d # b
    <3>1. rCount'[d] = rCount[d] /\ Rate!Asked(d)' = Rate!Asked(d)
      BY <2>2, IncrCounts, ReplyCounts
    <3>2. QED BY <3>1 DEF RateInv, CountedWereAsked
  <2>3. QED BY <2>1, <2>2
<1>4. CountsTwice'
  <2> SUFFICES ASSUME NEW d \in Rate!Buckets PROVE FirstCount(d)' \/ SecondCount(d)'
    BY DEF CountsTwice, Rate!Buckets
  <2>1. CASE d = b
    <3>1. /\ old \in Nat /\ rCount[b] \in Nat /\ rExpires[b] \in Nat /\ base \in Nat
          /\ \/ old <= Capped(rCount[b])
             \/ /\ rExpires[b] >= base + CallWindow + CallWindow
                /\ old <= CallLimit + Capped(rCount[b])
      BY <1>0, AllowedWereAsked, RateConstants
      DEF RateInv, RateTyped, CountsTwice, FirstCount, SecondCount
    <3>2. new = old + (IF a = "allowed" THEN 1 ELSE 0)
      BY ReplyCounts
    <3>3. /\ rCount'[b] \in Nat /\ rCount'[b] >= n /\ rExpires'[b] \in Nat
          /\ \/ rCount'[b] = rCount[b] + n /\ rExpires'[b] = rExpires[b]
             \/ rExpires[b] = 0 /\ rCount[b] = 0
             \/ /\ rExpires[b] < base + CallWindow + CallWindow
                /\ rExpires'[b] >= base + CallWindow + CallWindow
      BY IncrCounts, <1>0
    <3>4. a = "allowed" => rCount'[b] <= CallLimit
      OBVIOUS
    <3>5. \/ new <= Capped(rCount'[b])
          \/ /\ rExpires'[b] >= base + CallWindow + CallWindow
             /\ new <= CallLimit + Capped(rCount'[b])
      <4> HIDE DEF b, base, old, new
      <4> QED BY <3>1, <3>2, <3>3, <3>4, RateConstants DEF Capped
    <3>6. QED BY <3>5, <2>1, <1>0 DEF FirstCount, SecondCount, Capped
  <2>2. CASE d # b
    <3>1. rCount'[d] = rCount[d] /\ rExpires'[d] = rExpires[d] /\ Rate!Allowed(d)' = Rate!Allowed(d)
      BY <2>2, IncrCounts, ReplyCounts
    <3>2. QED BY <3>1 DEF RateInv, CountsTwice, FirstCount, SecondCount, Capped
  <2>3. QED BY <2>1, <2>2
<1>5. ASSUME NEW d \in Calls, rPc'[d] = "refused", "resend" \notin rFaults,
             NEW e \in Rate!Buckets, e = rBucket[d]
      PROVE  Cardinality(Rate!Asked(e)' \ {d}) >= CallLimit
  <2>0. d \in Rate!Asked(e)'
    BY <1>0, <1>5 DEF Rate!Asked, Rate!In, Rate!Answers
  <2>1. IsFiniteSet(Rate!Asked(e)')
    BY ReplyCounts DEF AskedFinite, Rate!Buckets
  <2>2. Cardinality(Rate!Asked(e)' \ {d}) = Cardinality(Rate!Asked(e)') - 1
        /\ Cardinality(Rate!Asked(e)') \in Nat
    BY <2>0, <2>1, FS_RemoveElement, FS_CardinalityType
  <2>3. CASE d = c
    <3>1. a = "refused"
      BY <2>3, <1>5 DEF Rate!Reply, RateInv, RateTyped
    <3>2. rCount'[e] > CallLimit /\ rCount'[e] \in Nat
      BY <3>1, <2>3, <1>5, IncrCounts
    <3>3. rCount'[e] <= Cardinality(Rate!Asked(e)')
      BY <1>0, <1>3, <1>5 DEF CountedWereAsked, Rate!Buckets
    <3>4. QED BY <3>2, <3>3, <2>2, RateConstants
  <2>4. CASE d # c
    <3>1. rPc[d] = "refused"
      BY <2>4, <1>5 DEF Rate!Reply, RateInv, RateTyped
    <3>2. Cardinality(Rate!Asked(e) \ {d}) >= CallLimit
      BY <3>1, <1>5, RateCardinality DEF RateInv, Rate!RefusedOverLimit
    <3>3. d \in Rate!Asked(e) /\ IsFiniteSet(Rate!Asked(e))
      BY <3>1, <1>5 DEF Rate!Asked, Rate!In, Rate!Answers, RateInv, AskedFinite
    <3>4. Cardinality(Rate!Asked(e) \ {d}) = Cardinality(Rate!Asked(e)) - 1
          /\ Cardinality(Rate!Asked(e)) \in Nat
      BY <3>3, FS_RemoveElement, FS_CardinalityType
    <3>5. Cardinality(Rate!Asked(e)') >= Cardinality(Rate!Asked(e))
      <4>1. CASE e = b
        BY <4>1, <1>0, <2>2, <3>4, ReplyCounts
      <4>2. CASE e # b
        BY <4>2, <3>4, ReplyCounts
      <4>3. QED BY <4>1, <4>2
    <3>6. QED BY <3>2, <3>4, <3>5, <2>2, RateConstants
  <2>5. QED BY <2>3, <2>4
<1>6. Rate!RefusedOverLimit'
  <2> SUFFICES ASSUME NEW d \in Calls, rPc'[d] = "refused", "resend" \notin rFaults
               PROVE  Cardinality(Rate!Asked(rBucket[d])' \ {d}) >= CallLimit
    BY <1>0, RateCardinality DEF Rate!RefusedOverLimit
  <2>1. rBucket[d] \in Rate!Buckets /\ rBucket' = rBucket
    BY <1>0 DEF RateInv, RateTyped
  <2>2. PICK e \in Rate!Buckets : e = rBucket[d]
    BY <2>1
  <2>3. Cardinality(Rate!Asked(e)' \ {d}) >= CallLimit
    BY <2>2, <1>5
  <2>4. Rate!Asked(rBucket[d])' = Rate!Asked(e)'
    BY <2>1, <2>2 DEF Rate!Asked, Rate!In
  <2>5. QED BY <2>3, <2>4
<1>7. QED BY <1>1, <1>2, <1>3, <1>4, <1>6, ReplyCounts DEF RateInv

LEMMA EvalKeepsRate ==
  ASSUME RateInv, NEW c \in Calls, Rate!Eval(c)
  PROVE  RateInv'
<1> DEFINE b == rBucket[c]
<1>1. rPc[c] = "sent" /\ Rate!Failed \in Rate!Answers /\ Rate!Failed \notin {"allowed", "refused"}
  BY DEF Rate!Eval, Rate!Failed, Rate!Answers
<1>2. \A k \in Nat : /\ Rate!Verdict(k) \in Rate!Answers
                     /\ Rate!Verdict(k) = "allowed" => k <= CallLimit
                     /\ Rate!Verdict(k) = "refused" => k > CallLimit
  BY RateConstants DEF Rate!Verdict, Rate!Answers
<1>3. CASE Rate!Incr(b, 1) /\ Rate!Reply(c, Rate!Verdict(rCount'[b]))
  <2>1. rCount'[b] \in Nat
    BY <1>1, <1>3, IncrCounts
  <2>2. QED BY <1>1, <1>2, <1>3, <2>1, CountKeepsRate
<1>4. CASE "store" \in rFaults /\ UNCHANGED Rate!redis /\ Rate!Reply(c, Rate!Failed)
  <2>1. UNCHANGED <<rFaults, rNow, rBucket, rSince, rCount, rExpires>>
    BY <1>4 DEF Rate!Reply, Rate!redis
  <2>2. RateTyped' /\ SentInTime' /\ AskedFinite'
    BY <2>1, <1>1, <1>4, ReplyCounts DEF RateTyped, Rate!Buckets
  <2>3. b \in Rate!Buckets
    BY <1>1, <1>4, ReplyCounts
  <2>4. ASSUME NEW d \in Rate!Buckets
        PROVE  /\ Cardinality(Rate!Allowed(d)') = Cardinality(Rate!Allowed(d))
               /\ Cardinality(Rate!Asked(d)') >= Cardinality(Rate!Asked(d))
    <3>1. CASE d = b
      <4>1. Cardinality(Rate!Asked(b)') = Cardinality(Rate!Asked(b)) + 1
            /\ Cardinality(Rate!Allowed(b)') = Cardinality(Rate!Allowed(b)) + 0
        BY <1>1, <1>4, ReplyCounts
      <4>2. QED BY <3>1, <4>1, <2>1, AllowedWereAsked
    <3>2. CASE d # b
      BY <3>2, <1>1, <1>4, ReplyCounts, AllowedWereAsked
    <3>3. QED BY <3>1, <3>2
  <2>5. \A d \in Rate!Buckets : Cardinality(Rate!Asked(d)) \in Nat /\ Cardinality(Rate!Asked(d)') \in Nat
    BY <2>2, FS_CardinalityType DEF RateInv, AskedFinite, Rate!Buckets
  <2>6. CountLasts' /\ CountsTwice'
    BY <2>1, <2>4 DEF RateInv, CountLasts, CountsTwice, FirstCount, SecondCount, Capped, Rate!Buckets
  <2>7. CountedWereAsked'
    <3> SUFFICES ASSUME "resend" \notin rFaults, NEW d \in Rate!Buckets
                 PROVE  rCount[d] <= Cardinality(Rate!Asked(d)')
      BY <2>1 DEF CountedWereAsked, Rate!Buckets
    <3>1. rCount[d] \in Nat /\ rCount[d] <= Cardinality(Rate!Asked(d))
      BY DEF RateInv, RateTyped, CountedWereAsked
    <3>2. QED BY <3>1, <2>4, <2>5
  <2>8. Rate!RefusedOverLimit'
    <3> SUFFICES ASSUME NEW d \in Calls, rPc'[d] = "refused", "resend" \notin rFaults
                 PROVE  Cardinality(Rate!Asked(rBucket[d])' \ {d}) >= CallLimit
      BY <2>1, RateCardinality DEF Rate!RefusedOverLimit
    <3>1. PICK e \in Rate!Buckets : e = rBucket[d]
      BY DEF RateInv, RateTyped
    <3>2. rPc[d] = "refused"
      BY <1>1, <1>4 DEF Rate!Reply, RateInv, RateTyped
    <3>3. Cardinality(Rate!Asked(e) \ {d}) >= CallLimit
      BY <3>1, <3>2, RateCardinality DEF RateInv, Rate!RefusedOverLimit
    <3>4. d \in Rate!Asked(e) /\ d \in Rate!Asked(e)' /\ IsFiniteSet(Rate!Asked(e))
          /\ IsFiniteSet(Rate!Asked(e)')
      BY <3>1, <3>2, <2>1, <2>2 DEF Rate!Asked, Rate!In, Rate!Answers, RateInv, AskedFinite, Rate!Buckets
    <3>5. Cardinality(Rate!Asked(e) \ {d}) = Cardinality(Rate!Asked(e)) - 1
          /\ Cardinality(Rate!Asked(e)' \ {d}) = Cardinality(Rate!Asked(e)') - 1
      BY <3>4, FS_RemoveElement
    <3>6. Cardinality(Rate!Asked(e)' \ {d}) >= CallLimit
      BY <3>3, <3>5, <2>4, <2>5, RateConstants
    <3>7. Rate!Asked(rBucket[d])' = Rate!Asked(e)'
      BY <2>1, <3>1 DEF Rate!Asked, Rate!In
    <3>8. QED BY <3>6, <3>7
  <2>9. QED BY <2>2, <2>6, <2>7, <2>8 DEF RateInv
<1>5. CASE "lost" \in rFaults /\ Rate!Incr(b, 1) /\ Rate!Reply(c, Rate!Failed)
  BY <1>1, <1>5, CountKeepsRate
<1>6. CASE "resend" \in rFaults /\ Rate!Incr(b, 2) /\ Rate!Reply(c, Rate!Verdict(rCount'[b]))
  <2>1. rCount'[b] \in Nat
    BY <1>1, <1>6, IncrCounts
  <2>2. QED BY <1>1, <1>2, <1>6, <2>1, CountKeepsRate
<1>7. QED BY <1>3, <1>4, <1>5, <1>6 DEF Rate!Eval

(* The calls of a minute's bucket are allowed at most twice the limit, and *)
(* none is refused before others used it up (rate_limit,                   *)
(* RATE_LIMIT_SCRIPT), for every number of calls, limit and window.        *)
THEOREM RateBounded == Spec => []RateIsBounded
<1>1. Init => RateInv
  BY RateStarts DEF Init
<1>2. RateInv /\ [Next]_vars => RateInv'
  <2> SUFFICES ASSUME RateInv, [Next]_vars PROVE RateInv'
    OBVIOUS
  <2>1. CASE RateNext
    BY <2>1, NameKeepsRate, TickKeepsRate, EvalKeepsRate DEF RateNext, Rate!Next
  <2>2. CASE UNCHANGED rate
    <3>1. UNCHANGED <<rFaults, rNow, rCount, rExpires, rPc, rBucket, rSince>>
      BY <2>2 DEF rate
    <3>2. RateTyped' /\ SentInTime' /\ CountLasts'
      BY <3>1 DEF RateInv, RateTyped, SentInTime, CountLasts
    <3>3. \A b : Rate!Asked(b)' = Rate!Asked(b) /\ Rate!Allowed(b)' = Rate!Allowed(b)
      BY <3>1 DEF Rate!Asked, Rate!Allowed, Rate!In
    <3>4. AskedFinite' /\ CountsTwice' /\ CountedWereAsked' /\ Rate!RefusedOverLimit'
      BY <3>1, <3>3 DEF RateInv, AskedFinite, CountsTwice, FirstCount, SecondCount, CountedWereAsked,
         Rate!RefusedOverLimit
    <3>5. QED BY <3>2, <3>4 DEF RateInv
  <2>3. QED BY <2>1, <2>2 DEF Next, StreamStep, Disconnect, AuditNext, vars
<1>3. RateInv => RateIsBounded
  <2> SUFFICES ASSUME RateInv, NEW b \in Rate!Buckets
               PROVE  Cardinality(Rate!Allowed(b)) <= 2 * CallLimit
    BY RateCardinality DEF RateIsBounded, RateInv, Rate!TwiceAtMost
  <2>1. Cardinality(Rate!Allowed(b)) <= Capped(rCount[b])
        \/ Cardinality(Rate!Allowed(b)) <= CallLimit + Capped(rCount[b])
    BY DEF RateInv, CountsTwice, FirstCount, SecondCount
  <2>2. rCount[b] \in Nat /\ Cardinality(Rate!Allowed(b)) \in Nat
    BY AllowedWereAsked DEF RateInv, RateTyped
  <2>3. QED BY <2>1, <2>2, RateConstants DEF Capped
<1>4. QED BY <1>1, <1>2, <1>3, PTL DEF Spec

-----------------------------------------------------------------------------
(* Least and greatest elements, which the splits of a text and of a list   *)
(* choose.  A family of subsets of a finite set has a minimal one.         *)
LEMMA MinimalSet ==
  \A S, F : IsFiniteSet(S) /\ F \in SUBSET SUBSET S /\ F # {} =>
    \E A \in F : \A B \in F : B \subseteq A => B = A
<1> SUFFICES ASSUME NEW S, NEW F, F \subseteq SUBSET S, IsFiniteSet(S), F # {}
             PROVE  \E A \in F : \A B \in F : B \subseteq A => B = A
  OBVIOUS
<1>1. IsWellFoundedOn(StrictSubsetOrdering(S), SUBSET S)
  BY FS_StrictSubsetOrderingWellFounded, FS_FiniteSubsetsOfFinite
<1>2. PICK A \in F : \A B \in F : ~(<<B, A>> \in StrictSubsetOrdering(S))
  BY <1>1, WFMin
<1>3. ASSUME NEW B \in F, B \subseteq A PROVE B = A
  <2>1. B \in SUBSET S /\ A \in SUBSET S OBVIOUS
  <2>2. B # A => <<B, A>> \in StrictSubsetOrdering(S)
    BY <2>1, <1>3 DEF StrictSubsetOrdering
  <2>3. QED BY <1>2, <2>2
<1>4. QED BY <1>3

(* A set of naturals has a least element. *)
LEMMA Least ==
  ASSUME NEW T, T \subseteq Nat, T # {}
  PROVE \E x \in T : \A y \in T : x <= y
<1>1. PICK n \in T : n \in Nat OBVIOUS
<1> DEFINE F == {A \in SUBSET (0..n) : \E k \in T : A = 0..k}
<1>2. F \subseteq SUBSET (0..n) /\ IsFiniteSet(0..n)
  BY <1>1, FS_Interval
<1>3. 0..n \in F
  BY <1>1
<1> HIDE DEF F
<1> DEFINE S == 0..n
<1>4. IsFiniteSet(S) /\ F \in SUBSET SUBSET S /\ F # {}
  BY <1>2, <1>3
<1> HIDE DEF S
<1>5. PICK A \in F : \A B \in F : B \subseteq A => B = A
  BY <1>4, MinimalSet
<1>6. PICK x \in T : A = 0..x /\ A \subseteq 0..n
  BY <1>5 DEF F
<1>7. ASSUME NEW y \in T PROVE x <= y
  <2> SUFFICES ASSUME y < x PROVE FALSE
    OBVIOUS
  <2>1. 0..y \subseteq 0..x
    OBVIOUS
  <2>2. 0..y \in F
    BY <2>1, <1>6 DEF F
  <2>3. 0..y = 0..x BY <2>1, <2>2, <1>5, <1>6
  <2>4. x \in 0..x /\ x \notin 0..y OBVIOUS
  <2>5. QED BY <2>3, <2>4
<1>8. QED BY <1>7

(* A bounded one has a greatest. *)
LEMMA Greatest ==
  ASSUME NEW T, NEW n \in Nat, T \subseteq 0..n, T # {}
  PROVE  \E x \in T : \A y \in T : x >= y
<1> DEFINE U == {m \in 0..n : n - m \in T}
<1>0. PICK z \in T : z \in 0..n OBVIOUS
<1>1. U \subseteq Nat /\ n - z \in U
  BY <1>0
<1>2. PICK u \in U : \A y \in U : u <= y
  <2> HIDE DEF U
  <2>1. U # {} BY <1>1
  <2>2. QED BY <1>1, <2>1, Least
<1>4. ASSUME NEW y \in T PROVE n - u >= y
  <2>1. n - y \in U OBVIOUS
  <2>2. QED BY <2>1, <1>2
<1>5. QED BY <1>2, <1>4

-----------------------------------------------------------------------------
(* The stream.                                                             *)
StreamTyped ==
  /\ sRequired \in BOOLEAN /\ sLine \in BOOLEAN
  /\ sText \in Seq(Nat) /\ Len(sText) >= 1
  /\ sChars \in Nat \ {0}
  /\ sPc \in {"chunk", "send", "audit", "mark", "over"}
  /\ sStart \in 0..Len(sText)
  /\ sSent \in Seq(Nat \X Nat)
  /\ sClosing \in {"none", "timeout", "error", "cancelled", "[DONE]"}

(* The next chunk starts where the last one ended. *)
Contiguous == sStart = IF sSent = <<>> THEN 0 ELSE sSent[Len(sSent)][2]

(* What each place of the generator has behind it. *)
BehindIt ==
  /\ sPc = "send" => sStart < Len(sText)
  /\ sPc \in {"audit", "mark"} => sStart = Len(sText)
  /\ sPc = "mark" /\ sRequired => sLine
  /\ sPc # "over" => sClosing = "none"

StreamInv == StreamTyped /\ Contiguous /\ BehindIt /\ Stream!Tiled /\ Stream!DoneIsComplete

(* A chunk makes progress and keeps to its budgets. *)
LEMMA ChunkEnds ==
  ASSUME StreamTyped, NEW i \in 0..(Len(sText) - 1)
  PROVE  /\ Stream!End(i) \in (i + 1)..Len(sText) /\ Stream!End(i) - i <= sChars
         /\ Stream!Bytes(sText, i, Stream!End(i)) <= TextChunk \/ Stream!End(i) = i + 1
<1> DEFINE last == Stream!Min({i + sChars, Len(sText)})
           F == Stream!Fits(i)
<1>1. Len(sText) \in Nat /\ sChars \in Nat \ {0} /\ i \in Nat /\ i < Len(sText)
  BY DEF StreamTyped
<1>2. last \in Nat /\ last <= i + sChars /\ last <= Len(sText)
  BY <1>1 DEF Stream!Min
<1>3. F = {j \in (i + 1)..last : Stream!Bytes(sText, i, j) <= TextChunk}
  BY DEF Stream!Fits
<1> HIDE DEF last, F
<1>4. CASE F = {}
  BY <1>4, <1>1 DEF Stream!End, F
<1>5. CASE F # {}
  <2>1. F \subseteq 0..last
    BY <1>1, <1>2, <1>3
  <2>2. \E x \in F : \A y \in F : x >= y
    BY <1>2, <1>5, <2>1, Greatest
  <2>3. Stream!Max(F) \in F
    BY <2>2 DEF Stream!Max
  <2>4. Stream!End(i) = Stream!Max(F)
    BY <1>5 DEF Stream!End, F
  <2>5. QED BY <2>3, <2>4, <1>1, <1>2, <1>3
<1>6. QED BY <1>4, <1>5

LEMMA StreamStarts == Stream!Init => StreamInv
<1> SUFFICES ASSUME Stream!Init PROVE StreamInv
  OBVIOUS
<1>1. PICK n \in 1..TextLength : sText \in [1..n -> TextWidths]
  BY DEF Stream!Init
<1>2. TextWidths \subseteq Nat /\ n \in Nat /\ n >= 1
  BY PartsAssumption DEF Stream!StreamAssumption
<1>3. sText \in Seq(Nat) /\ Len(sText) = n
  <2>1. sText \in [1..n -> Nat] /\ n \in Nat
    BY <1>1, <1>2
  <2>2. QED BY <2>1
<1>4. StreamTyped
  <2>1. TextLength \in Nat
    BY PartsAssumption DEF Stream!StreamAssumption
  <2>2. sChars \in Nat \ {0} /\ sStart \in 0..Len(sText)
    BY <1>2, <1>3, <2>1 DEF Stream!Init
  <2>3. sSent \in Seq(Nat \X Nat)
    BY DEF Stream!Init
  <2>4. QED BY <1>2, <1>3, <2>2, <2>3 DEF Stream!Init, StreamTyped
<1>5. QED BY <1>4 DEF Stream!Init, StreamInv, Contiguous, BehindIt, Stream!Tiled, Stream!DoneIsComplete

LEMMA SendKeepsStream ==
  ASSUME StreamInv, Stream!Send
  PROVE  StreamInv'
<1> USE DEF StreamInv
<1> DEFINE i == sStart
           j == Stream!End(i)
           n == Len(sSent) + 1
<1>1. i \in 0..(Len(sText) - 1) /\ i \in Nat
  BY DEF Stream!Send, BehindIt, StreamTyped
<1>2. /\ j \in (i + 1)..Len(sText) /\ j - i <= sChars
      /\ Stream!Bytes(sText, i, j) <= TextChunk \/ j = i + 1
  BY <1>1, ChunkEnds
<1>3. /\ sSent' = Append(sSent, <<i, j>>) /\ sStart' = j /\ sPc = "send" /\ sPc' = "chunk"
      /\ UNCHANGED <<sRequired, sText, sChars, sClosing, sLine>>
  BY DEF Stream!Send, Stream!Goto, Stream!request
<1> HIDE DEF j
<1>4. Len(sText) \in Nat /\ j \in Nat /\ n \in Nat \ {0}
  BY <1>1, <1>2 DEF StreamTyped
<1>5. /\ sSent' \in Seq(Nat \X Nat) /\ Len(sSent') = n /\ sSent'[n] = <<i, j>>
      /\ \A m \in DOMAIN sSent : m \in 1..(n - 1) /\ sSent'[m] = sSent[m]
      /\ DOMAIN sSent' = 1..n /\ DOMAIN sSent = 1..(n - 1)
  <2>1. sSent \in Seq(Nat \X Nat) /\ <<i, j>> \in Nat \X Nat
    BY <1>1, <1>4 DEF StreamTyped
  <2>2. QED BY <2>1, <1>3
<1>6. StreamTyped' /\ Contiguous' /\ BehindIt' /\ Stream!DoneIsComplete'
  <2>1. StreamTyped'
    BY <1>2, <1>3, <1>4, <1>5 DEF StreamTyped
  <2>2. Contiguous'
    BY <1>3, <1>4, <1>5 DEF Contiguous
  <2>3. BehindIt' /\ Stream!DoneIsComplete'
    BY <1>3 DEF BehindIt, Stream!DoneIsComplete
  <2>4. QED BY <2>1, <2>2, <2>3
<1>7. Stream!Tiled'
  <2> SUFFICES ASSUME NEW m \in 1..n
               PROVE  LET x == sSent'[m][1]
                          y == sSent'[m][2]
                      IN  /\ x = (IF m = 1 THEN 0 ELSE sSent'[m - 1][2])
                          /\ x < y /\ y - x <= sChars
                          /\ Stream!Bytes(sText, x, y) <= TextChunk \/ y = x + 1
    BY <1>3, <1>5 DEF Stream!Tiled
  <2>1. CASE m = n
    <3>1. i = (IF m = 1 THEN 0 ELSE sSent'[m - 1][2])
      <4>1. CASE sSent = <<>>
        BY <4>1, <2>1 DEF Contiguous
      <4>2. CASE sSent # <<>>
        <5>1. n # 1 /\ n - 1 \in DOMAIN sSent /\ i = sSent[n - 1][2]
          BY <4>2, <1>4, <1>5 DEF Contiguous, StreamTyped
        <5>2. QED BY <5>1, <2>1, <1>5
      <4>3. QED BY <4>1, <4>2
    <3>2. QED BY <2>1, <3>1, <1>1, <1>2, <1>4, <1>5
  <2>2. CASE m # n
    <3>1. m \in DOMAIN sSent /\ (m # 1 => m - 1 \in DOMAIN sSent)
      BY <2>2, <1>4
    <3>2. sSent'[m] = sSent[m] /\ (m # 1 => sSent'[m - 1] = sSent[m - 1])
      BY <3>1, <1>5
    <3>3. QED BY <3>1, <3>2 DEF Stream!Tiled
  <2>3. QED BY <2>1, <2>2
<1>8. QED BY <1>6, <1>7

(* The chunks of a stream tile its text within their budgets, and [DONE]   *)
(* follows the whole text and its audit event (split_chunks,               *)
(* event_source), for every text and every budget.                         *)
THEOREM StreamsAreWhole == Spec => []StreamIsWhole
<1>1. Init => StreamInv
  BY StreamStarts DEF Init
<1>2. StreamInv /\ [Next]_vars => StreamInv'
  <2> SUFFICES ASSUME StreamInv, [Next]_vars PROVE StreamInv'
    OBVIOUS
  <2> USE DEF StreamInv
  <2>1. CASE Stream!Send
    BY <2>1, SendKeepsStream
  <2>2. ASSUME UNCHANGED <<sRequired, sText, sChars, sStart, sSent>> PROVE Contiguous' /\ Stream!Tiled'
    BY <2>2 DEF Contiguous, Stream!Tiled
  <2>3. CASE Stream!Chunk
    <3> USE <2>3 DEF Stream!Chunk, Stream!Goto, Stream!Close, Stream!request
    <3>1. StreamTyped' BY DEF StreamTyped
    <3>2. BehindIt' /\ Stream!DoneIsComplete' BY DEF StreamTyped, BehindIt, Stream!DoneIsComplete
    <3>3. QED BY <3>1, <3>2, <2>2
  <2>4. CASE Stream!Chunked
    <3> USE <2>4 DEF Stream!Chunked, Stream!Goto, Stream!request
    <3>1. StreamTyped' BY DEF StreamTyped
    <3>2. BehindIt' /\ Stream!DoneIsComplete' BY DEF StreamTyped, BehindIt, Stream!DoneIsComplete
    <3>3. QED BY <3>1, <3>2, <2>2
  <2>5. CASE Stream!Audit
    <3> USE <2>5 DEF Stream!Audit, Stream!Goto, Stream!Close, Stream!request
    <3>1. StreamTyped' BY DEF StreamTyped
    <3>2. BehindIt' /\ Stream!DoneIsComplete' BY DEF StreamTyped, BehindIt, Stream!DoneIsComplete
    <3>3. QED BY <3>1, <3>2, <2>2
  <2>6. CASE Stream!Mark
    <3> USE <2>6 DEF Stream!Mark, Stream!Close, Stream!request
    <3>1. StreamTyped' BY DEF StreamTyped
    <3>2. BehindIt' BY DEF BehindIt
    <3>3. sSent # <<>> /\ sSent[Len(sSent)][2] = Len(sText) /\ (sRequired => sLine)
      BY DEF BehindIt, Contiguous, StreamTyped
    <3>4. QED BY <3>1, <3>2, <3>3, <2>2 DEF Stream!DoneIsComplete
  <2>7. CASE Stream!Disconnect
    <3> USE <2>7 DEF Stream!Disconnect, Stream!Close, Stream!request
    <3>1. StreamTyped' BY DEF StreamTyped
    <3>2. BehindIt' /\ Stream!DoneIsComplete' BY DEF BehindIt, Stream!DoneIsComplete
    <3>3. QED BY <3>1, <3>2, <2>2
  <2>8. CASE UNCHANGED stream
    BY <2>8 DEF stream, StreamTyped, Contiguous, BehindIt, Stream!Tiled, Stream!DoneIsComplete
  <2>9. QED BY <2>1, <2>3, <2>4, <2>5, <2>6, <2>7, <2>8
        DEF Next, RateNext, StreamStep, Stream!Step, Disconnect, AuditNext, vars
<1>3. StreamInv => StreamIsWhole
  BY DEF StreamInv, StreamIsWhole
<1>4. QED BY <1>1, <1>2, <1>3, PTL DEF Spec

-----------------------------------------------------------------------------
(* The shared audit list.                                                  *)

LEMMA ListConstants ==
  /\ ListLength \in Nat \ {0} /\ ListRetention \in Nat \ {0} /\ Delay \in Nat /\ LastTick \in Nat
  /\ <<e1>> \in Seq(Records) /\ Len(<<e1>>) <= ListLength
  BY PartsAssumption DEF Audit!ListAssumption

(* What is left of a list without its first d elements. *)
LEMMA Dropped ==
  ASSUME NEW S, NEW s \in Seq(S), NEW d \in 0..Len(s)
  PROVE  LET r == SubSeq(s, d + 1, Len(s))
         IN  /\ r \in Seq(S) /\ Len(r) = Len(s) - d
             /\ \A k \in 1..(Len(s) - d) : r[k] = s[k + d]
<1>1. \A i \in (d + 1)..Len(s) : s[i] \in S
  OBVIOUS
<1>2. QED BY <1>1, SubSeqProperties

(* The timestamps at the head that are due: there is such a number, and it *)
(* stops before a timestamp that is not.                                   *)
LEMMA DueStops ==
  ASSUME NEW ts \in Seq(Nat), NEW t \in Nat, ts # <<>>, ts[Len(ts)] = t
  PROVE  /\ Audit!Due(ts, t) \in 0..(Len(ts) - 1)
         /\ \A i \in 1..Audit!Due(ts, t) : ts[i] + ListRetention < t
<1> DEFINE T == {n \in 0..Len(ts) : n < Len(ts) => ~Audit!IsDue(ts[n + 1], t)}
           Q(n) == /\ \A i \in 1..n : Audit!IsDue(ts[i], t)
                   /\ n < Len(ts) => ~Audit!IsDue(ts[n + 1], t)
<1>1. Len(ts) \in Nat \ {0} /\ T \subseteq Nat /\ Len(ts) \in T
  OBVIOUS
<1>2. PICK n \in T : \A m \in T : n <= m
  <2> HIDE DEF T
  <2>1. T # {} BY <1>1
  <2>2. QED BY <1>1, <2>1, Least
<1>3. ASSUME NEW i \in 1..n PROVE Audit!IsDue(ts[i], t)
  <2>1. i - 1 \in 0..Len(ts) /\ i - 1 < Len(ts) /\ i - 1 < n /\ (i - 1) + 1 = i
    BY <1>1
  <2>2. i - 1 \notin T
    BY <1>2, <2>1
  <2>3. QED BY <2>1, <2>2
<1>4. n \in 0..Len(ts) /\ Q(n)
  BY <1>3
<1>5. Audit!Due(ts, t) = CHOOSE m \in 0..Len(ts) : Q(m)
  BY DEF Audit!Due
<1>6. Audit!Due(ts, t) \in 0..Len(ts) /\ Q(Audit!Due(ts, t))
  <2> HIDE DEF Q
  <2> QED BY <1>4, <1>5
<1>7. ~Audit!IsDue(ts[Len(ts)], t)
  BY ListConstants DEF Audit!IsDue
<1>8. QED BY <1>1, <1>6, <1>7 DEF Audit!IsDue

(* A push onto a list within its bound drops the head of a full one.       *)
LEMMA PushedIs ==
  ASSUME NEW S, NEW s \in Seq(S), NEW x \in S, Len(s) <= ListLength
  PROVE  LET d == IF Len(s) = ListLength THEN 1 ELSE 0
             r == Audit!Pushed(s, x)
         IN  /\ r \in Seq(S) /\ Len(r) = Len(s) + 1 - d
             /\ \A k \in 1..(Len(s) + 1 - d) : r[k] = Append(s, x)[k + d]
<1> DEFINE p == Append(s, x)
           d == IF Len(s) = ListLength THEN 1 ELSE 0
<1>1. p \in Seq(S) /\ Len(p) = Len(s) + 1 /\ Len(s) \in Nat
  BY AppendProperties
<1>2. Audit!Pushed(s, x) = IF Len(p) <= ListLength THEN p ELSE SubSeq(p, Len(p) - ListLength + 1, Len(p))
  BY DEF Audit!Pushed, Audit!LastOf, Audit!Limit
<1> HIDE DEF p
<1>3. CASE d = 0
  <2>1. Len(s) # ListLength /\ Len(p) <= ListLength
    BY <1>1, <1>3, ListConstants
  <2>2. Audit!Pushed(s, x) = p
    BY <1>2, <2>1
  <2>3. \A k \in 1..(Len(s) + 1 - d) : k + d = k
    BY <1>1, <1>3
  <2>4. Len(p) = Len(s) + 1 - d
    BY <1>1, <1>3
  <2>5. QED BY <1>1, <2>2, <2>3, <2>4 DEF p
<1>4. CASE d = 1
  <2>1. Len(s) = ListLength /\ Len(p) - ListLength + 1 = 1 + 1 /\ 1 \in 0..Len(p)
        /\ ~(Len(p) <= ListLength)
    BY <1>1, <1>4, ListConstants
  <2>2. Audit!Pushed(s, x) = SubSeq(p, 1 + 1, Len(p))
    BY <2>1, <1>2
  <2>3. LET q == SubSeq(p, 1 + 1, Len(p))
        IN  /\ q \in Seq(S) /\ Len(q) = Len(p) - 1
            /\ \A k \in 1..(Len(p) - 1) : q[k] = p[k + 1]
    BY <2>1, <1>1, Dropped
  <2>4. /\ Audit!Pushed(s, x) \in Seq(S) /\ Len(Audit!Pushed(s, x)) = Len(s) + 1 - d
        /\ \A k \in 1..(Len(s) + 1 - d) : Audit!Pushed(s, x)[k] = p[k + d]
    <3>1. Len(p) - 1 = Len(s) + 1 - d /\ d = 1
      BY <1>1, <1>4
    <3> HIDE DEF d
    <3>2. QED BY <2>2, <2>3, <3>1
  <2>5. QED BY <2>4 DEF p
<1>5. QED BY <1>3, <1>4

LEMMA RepairedIs ==
  ASSUME NEW es \in Seq(Records), NEW ts \in Seq(Nat), NEW t \in Nat, Len(ts) <= Len(es)
  PROVE  LET r == Audit!Repaired(es, ts, t)
         IN  /\ r \in Seq(Nat) /\ Len(r) = Len(es)
             /\ \A i \in 1..Len(es) : r[i] = IF i <= Len(ts) THEN ts[i] ELSE t
<1> DEFINE m == Len(es) - Len(ts)
           f == [i \in 1..m |-> t]
<1>1. Len(es) \in Nat /\ Len(ts) \in Nat /\ m \in Nat
  OBVIOUS
<1>2. f \in [1..m -> Nat]
  OBVIOUS
<1>3. f \in Seq(Nat) /\ Len(f) = m /\ \A i \in 1..m : f[i] = t
  <2> HIDE DEF m
  <2>1. f \in Seq(Nat) /\ Len(f) = m
    BY <1>1, <1>2
  <2>2. QED BY <2>1
<1>4. Audit!Repaired(es, ts, t) = ts \o f
  BY DEF Audit!Repaired
<1> HIDE DEF f
<1>5. /\ ts \o f \in Seq(Nat) /\ Len(ts \o f) = Len(ts) + m
      /\ \A i \in 1..(Len(ts) + m) : (ts \o f)[i] = IF i <= Len(ts) THEN ts[i] ELSE f[i - Len(ts)]
  BY <1>3, ConcatProperties
<1>6. QED BY <1>1, <1>3, <1>4, <1>5

(* Lists that the script may meet: paired, or without timestamps.  F[x] is *)
(* when x was recorded.                                                    *)
Paired(es, ts, F) ==
  /\ es \in Seq(Records) /\ ts \in Seq(Nat) /\ Len(es) <= ListLength
  /\ Len(ts) = Len(es) /\ \A i \in 1..Len(ts) : ts[i] >= F[es[i]]
Unstamped(es, ts, F, t) ==
  /\ es \in Seq(Records) /\ ts = <<>> /\ Len(es) <= ListLength
  /\ \A i \in 1..Len(es) : F[es[i]] <= t

LEMMA ScriptPairs ==
  ASSUME NEW es, NEW ts, NEW F \in [Records -> Nat], NEW e \in Records, NEW t \in Nat, F[e] <= t,
         Paired(es, ts, F) \/ Unstamped(es, ts, F, t)
  PROVE  LET r == Audit!Script(es, ts, e, t)
         IN  /\ Paired(r.events, r.stamps, F) /\ r.stamps # <<>>
             /\ \A k \in 1..Len(r.events) :
                  r.events[k] = e \/ \E i \in 1..Len(es) : r.events[k] = es[i]
             /\ \A i \in 1..Len(es) : ~Audit!IsIn(es[i], r.events) =>
                  F[es[i]] + ListRetention < t \/ Len(es) - i >= ListLength - 1
<1> DEFINE L == Len(es)
           d == IF L = ListLength THEN 1 ELSE 0
           R == Audit!Repaired(es, ts, t)
           P == Audit!Pushed(es, e)
           Q == Audit!Pushed(R, t)
           n == Audit!Due(Q, t)
           E == SubSeq(P, n + 1, Len(P))
           T == SubSeq(Q, n + 1, Len(Q))
<1>1. es \in Seq(Records) /\ ts \in Seq(Nat) /\ L \in Nat /\ L <= ListLength /\ Len(ts) <= L
  <2>1. CASE Paired(es, ts, F)
    BY <2>1 DEF Paired
  <2>2. CASE Unstamped(es, ts, F, t)
    <3>1. ts \in Seq(Nat) /\ Len(ts) = 0
      BY <2>2, EmptySeq DEF Unstamped
    <3>2. QED BY <2>2, <3>1 DEF Unstamped
  <2>3. QED BY <2>1, <2>2
<1>2. /\ R \in Seq(Nat) /\ Len(R) = L
      /\ \A i \in 1..L : R[i] = IF i <= Len(ts) THEN ts[i] ELSE t
  BY <1>1, RepairedIs
<1>3. \A i \in 1..L : es[i] \in Records /\ F[es[i]] \in Nat /\ R[i] \in Nat /\ R[i] >= F[es[i]]
                      /\ (R[i] # t => R[i] = ts[i])
  <2> SUFFICES ASSUME NEW i \in 1..L
               PROVE  es[i] \in Records /\ F[es[i]] \in Nat /\ R[i] \in Nat /\ R[i] >= F[es[i]]
                      /\ (R[i] # t => R[i] = ts[i])
    OBVIOUS
  <2>1. es[i] \in Records /\ F[es[i]] \in Nat
    BY <1>1
  <2>2. CASE Paired(es, ts, F)
    <3>1. Len(ts) = L /\ R[i] = ts[i] /\ ts[i] >= F[es[i]] /\ ts[i] \in Nat
      BY <1>1, <1>2, <2>2 DEF Paired
    <3>2. QED BY <2>1, <3>1
  <2>3. CASE Unstamped(es, ts, F, t)
    <3>1. Len(ts) = 0 /\ R[i] = t /\ F[es[i]] <= t
      BY <1>1, <1>2, <2>3 DEF Unstamped
    <3>2. QED BY <2>1, <3>1
  <2>4. QED BY <2>2, <2>3
<1> HIDE DEF R
<1>4. /\ P \in Seq(Records) /\ Len(P) = L + 1 - d
      /\ \A k \in 1..(L + 1 - d) : P[k] = Append(es, e)[k + d]
  BY <1>1, PushedIs
<1>5. /\ Q \in Seq(Nat) /\ Len(Q) = L + 1 - d
      /\ \A k \in 1..(L + 1 - d) : Q[k] = Append(R, t)[k + d]
  <2>1. d = IF Len(R) = ListLength THEN 1 ELSE 0
    BY <1>2
  <2>2. LET c == IF Len(R) = ListLength THEN 1 ELSE 0
        IN  /\ Q \in Seq(Nat) /\ Len(Q) = Len(R) + 1 - c
            /\ \A k \in 1..(Len(R) + 1 - c) : Q[k] = Append(R, t)[k + c]
    <3>1. R \in Seq(Nat) /\ Len(R) <= ListLength /\ t \in Nat
      BY <1>1, <1>2
    <3>2. QED BY <3>1, PushedIs, Zenon
  <2> HIDE DEF d, Q
  <2>3. QED BY <1>2, <2>1, <2>2
<1>6. /\ \A i \in 1..L : Append(es, e)[i] = es[i] /\ Append(R, t)[i] = R[i]
      /\ Append(es, e)[L + 1] = e /\ Append(R, t)[L + 1] = t
  BY <1>1, <1>2, AppendProperties
<1> DEFINE W == L + 1 - d
<1>7. d \in {0, 1} /\ W \in Nat \ {0} /\ W + d = L + 1 /\ W <= ListLength /\ (d = 1 => L = ListLength)
  BY <1>1, ListConstants
<1> HIDE DEF P, Q, d, W
<1>8. Q # <<>> /\ Q[Len(Q)] = t
  <2>1. Len(Q) = W /\ W \in 1..W
    BY <1>5, <1>7 DEF W
  <2>2. Q[W] = Append(R, t)[W + d]
    BY <2>1, <1>5 DEF W
  <2>3. QED BY <2>1, <2>2, <1>5, <1>6, <1>7
<1>9. n \in 0..(W - 1) /\ \A i \in 1..n : Q[i] + ListRetention < t
  BY <1>5, <1>8, DueStops DEF W
<1> HIDE DEF n
<1>10. /\ E \in Seq(Records) /\ Len(E) = W - n /\ \A k \in 1..(W - n) : E[k] = P[k + n]
  <2>1. n \in 0..Len(P) /\ Len(P) = W
    BY <1>4, <1>7, <1>9 DEF W
  <2>2. QED BY <2>1, <1>4, Dropped
<1>11. /\ T \in Seq(Nat) /\ Len(T) = W - n /\ \A k \in 1..(W - n) : T[k] = Q[k + n]
  <2>1. n \in 0..Len(Q) /\ Len(Q) = W
    BY <1>5, <1>7, <1>9 DEF W
  <2>2. QED BY <2>1, <1>5, Dropped
<1>12. Audit!Script(es, ts, e, t) = [events |-> E, stamps |-> T]
  BY DEF Audit!Script, Audit!Stamps, Audit!Without, E, T, n, P, Q, R
<1> HIDE DEF E, T
<1>13. ASSUME NEW k \in 1..W
       PROVE  \/ k = W /\ P[k] = e /\ Q[k] = t
              \/ k < W /\ k + d \in 1..L /\ P[k] = es[k + d] /\ Q[k] = R[k + d]
  <2>1. P[k] = Append(es, e)[k + d] /\ Q[k] = Append(R, t)[k + d]
    BY <1>4, <1>5 DEF W
  <2>2. CASE k = W
    BY <2>1, <2>2, <1>6, <1>7
  <2>3. CASE k < W
    <3>1. k + d \in 1..L
      BY <2>3, <1>1, <1>7
    <3>2. QED BY <2>1, <2>3, <3>1, <1>6
  <2>4. QED BY <2>2, <2>3, <1>7
<1>14. Paired(E, T, F)
  <2>1. ASSUME NEW k \in 1..(W - n) PROVE T[k] >= F[E[k]]
    <3>1. k + n \in 1..W
      BY <1>7, <1>9
    <3>2. Q[k + n] >= F[P[k + n]]
      BY <3>1, <1>3, <1>7, <1>13
    <3>3. QED BY <3>2, <1>10, <1>11
  <2>2. W - n <= ListLength
    BY <1>7, <1>9, ListConstants
  <2>3. QED BY <2>1, <2>2, <1>10, <1>11 DEF Paired
<1>15. T # <<>>
  BY <1>7, <1>9, <1>11
<1>16. ASSUME NEW k \in 1..Len(E) PROVE E[k] = e \/ \E i \in 1..L : E[k] = es[i]
  <2>1. k + n \in 1..W /\ E[k] = P[k + n]
    BY <1>7, <1>9, <1>10
  <2>2. QED BY <2>1, <1>13
<1>17. ASSUME NEW i \in 1..L, ~Audit!IsIn(es[i], E)
       PROVE  F[es[i]] + ListRetention < t \/ L - i >= ListLength - 1
  <2>1. CASE i <= d
    BY <2>1, <1>7, <1>1, ListConstants
  <2>2. CASE i > d
    <3>1. i - d \in 1..W /\ i - d < W /\ (i - d) + d = i
      BY <2>2, <1>1, <1>7
    <3>2. P[i - d] = es[i] /\ Q[i - d] = R[i]
      BY <3>1, <1>13
    <3>3. CASE i - d > n
      <4>1. (i - d) - n \in 1..(W - n) /\ ((i - d) - n) + n = i - d
        BY <3>1, <3>3, <1>7, <1>9
      <4>2. E[(i - d) - n] = es[i]
        BY <4>1, <3>2, <1>10
      <4>3. QED BY <4>1, <4>2, <1>10, <1>17 DEF Audit!IsIn
    <3>4. CASE i - d <= n
      <4>1. i - d \in 1..n
        BY <3>1, <3>4, <1>7, <1>9
      <4>2. R[i] + ListRetention < t
        BY <4>1, <3>2, <1>9
      <4>3. QED BY <4>2, <1>3, ListConstants
    <3>5. QED BY <3>1, <3>3, <3>4, <1>7, <1>9
  <2>3. QED BY <2>1, <2>2, <1>7
<1>18. QED BY <1>12, <1>14, <1>15, <1>16, <1>17

ListTyped ==
  /\ aEvents \in Seq(Records) /\ aStamps \in Seq(Nat) /\ aTouched \in Nat /\ aNow \in Nat
  /\ aPc \in [Records -> {"new", "sent", "ok", "error"}]
  /\ aStamp \in [Records -> Nat]

(* What is in the list was recorded before the keys were last touched, and *)
(* timestamps are missing only where there never were any.                 *)
ListOrder ==
  /\ \A e \in Records : aStamp[e] <= aNow
  /\ aTouched <= aNow
  /\ \A i \in 1..Len(aEvents) : aPc[aEvents[i]] # "new" /\ aStamp[aEvents[i]] <= aTouched
  /\ aStamps = <<>> => \A i \in 1..Len(aEvents) : aStamp[aEvents[i]] = 0

ListInv == ListTyped /\ ListOrder /\ Audit!Stamped

LEMMA ListStarts == Audit!Init => ListInv
<1> SUFFICES ASSUME Audit!Init PROVE ListInv
  OBVIOUS
<1>1. aEvents = <<e1>> /\ Len(aEvents) = 1 /\ aEvents[1] = e1 /\ aEvents \in Seq(Records)
      /\ Len(aEvents) <= ListLength
  BY ListConstants DEF Audit!Init
<1>2. e1 \in Records
  BY <1>1
<1>3. Audit!InLegacy(e1)
  BY DEF Audit!InLegacy
<1>4. ListTyped
  BY <1>1, EmptySeq DEF Audit!Init, ListTyped
<1>5. ListOrder
  BY <1>1, <1>2, <1>3 DEF Audit!Init, ListOrder
<1>6. Audit!Stamped
  BY <1>1 DEF Audit!Init, Audit!Stamped
<1>7. QED BY <1>4, <1>5, <1>6 DEF ListInv

(* Lists after the script has run for e are paired again. *)
LEMMA ScriptKeepsList ==
  ASSUME ListInv, NEW e \in Records, aPc[e] = "sent", NEW a \in {"ok", "error"}, Audit!Reply(e, a),
         Paired(aEvents', aStamps', aStamp), aStamps' # <<>>, aTouched' = aNow,
         \A k \in 1..Len(aEvents') :
           aEvents'[k] = e \/ \E i \in 1..Len(aEvents) : aEvents'[k] = aEvents[i]
  PROVE  ListInv'
<1> USE DEF ListInv, Audit!Reply
<1>1. ListTyped'
  BY DEF ListTyped, Paired
<1>2. ListOrder'
  <2>1. ASSUME NEW k \in 1..Len(aEvents') PROVE aPc'[aEvents'[k]] # "new" /\ aStamp'[aEvents'[k]] <= aTouched'
    <3>1. CASE aEvents'[k] = e
      BY <3>1 DEF ListTyped, ListOrder
    <3>2. CASE aEvents'[k] # e
      <4>1. PICK i \in 1..Len(aEvents) : aEvents'[k] = aEvents[i]
        BY <3>2
      <4>2. aEvents[i] \in Records /\ aPc[aEvents[i]] # "new"
        BY <4>1 DEF ListTyped, ListOrder
      <4>3. QED BY <4>1, <4>2, <3>2 DEF ListTyped, ListOrder
    <3>3. QED BY <3>1, <3>2
  <2>2. QED BY <2>1 DEF ListTyped, ListOrder
<1>3. Audit!Stamped'
  BY DEF Audit!Stamped, Paired
<1>4. QED BY <1>1, <1>2, <1>3

LEMMA ListIsMet ==
  ASSUME ListInv, NEW e \in Records
  PROVE  /\ Paired(aEvents, aStamps, aStamp) \/ Unstamped(aEvents, aStamps, aStamp, aStamp[e])
         /\ aStamp \in [Records -> Nat] /\ aStamp[e] \in Nat /\ aStamp[e] <= aNow
<1> USE DEF ListInv
<1>1. aStamp[e] \in Nat /\ aStamp[e] <= aNow /\ aStamp \in [Records -> Nat]
  BY DEF ListTyped, ListOrder
<1>2. CASE aStamps = <<>>
  BY <1>1, <1>2 DEF ListTyped, ListOrder, Audit!Stamped, Unstamped
<1>3. CASE aStamps # <<>>
  <2>1. Len(aEvents) <= ListLength /\ Len(aStamps) = Len(aEvents)
        /\ \A i \in 1..Len(aStamps) : aStamps[i] >= aStamp[aEvents[i]]
    BY <1>3, Zenon DEF Audit!Stamped
  <2>2. aEvents \in Seq(Records) /\ aStamps \in Seq(Nat)
    BY DEF ListTyped
  <2>3. QED BY <2>1, <2>2, <1>1, Zenon DEF Paired
<1>4. QED BY <1>1, <1>2, <1>3

(* Leaving is due in every step, as the property says. *)
LeavesDuly ==
  \A i \in 1..Len(aEvents) :
    ~Audit!IsIn(aEvents[i], aEvents') /\ "resend" \notin aFaults =>
      \/ aNow' >= aStamp[aEvents[i]] + ListRetention
      \/ Len(aEvents) - i >= ListLength - 1

LEMMA EvalKeepsList ==
  ASSUME ListInv, NEW e \in Records, Audit!Eval(e)
  PROVE  ListInv' /\ LeavesDuly
<1> DEFINE r == Audit!Script(aEvents, aStamps, e, aStamp[e])
           q == Audit!Script(r.events, r.stamps, e, aStamp[e])
<1>1. aPc[e] = "sent"
  BY DEF Audit!Eval
<1>2. /\ Paired(r.events, r.stamps, aStamp) /\ r.stamps # <<>>
      /\ \A k \in 1..Len(r.events) :
           r.events[k] = e \/ \E i \in 1..Len(aEvents) : r.events[k] = aEvents[i]
      /\ \A i \in 1..Len(aEvents) : ~Audit!IsIn(aEvents[i], r.events) =>
           aStamp[aEvents[i]] + ListRetention < aStamp[e] \/ Len(aEvents) - i >= ListLength - 1
  <2>1. /\ Paired(aEvents, aStamps, aStamp) \/ Unstamped(aEvents, aStamps, aStamp, aStamp[e])
        /\ aStamp \in [Records -> Nat] /\ aStamp[e] \in Nat /\ aStamp[e] <= aStamp[e]
    BY ListIsMet
  <2>2. QED BY <2>1, ScriptPairs, Zenon
<1>3. /\ Paired(q.events, q.stamps, aStamp) /\ q.stamps # <<>>
      /\ \A k \in 1..Len(q.events) :
           q.events[k] = e \/ \E i \in 1..Len(r.events) : q.events[k] = r.events[i]
  <2> HIDE DEF r
  <2> QED BY <1>2, ListIsMet, ScriptPairs
<1> HIDE DEF r, q
<1>4. ASSUME Audit!Apply(e), NEW a \in {"ok", "error"}, Audit!Reply(e, a) PROVE ListInv' /\ LeavesDuly
  <2>1. aEvents' = r.events /\ aStamps' = r.stamps /\ aTouched' = aNow /\ aNow' = aNow
    BY <1>4 DEF Audit!Apply, Audit!Reply, r
  <2>2. ListInv'
    BY <2>1, <1>1, <1>2, <1>4, ScriptKeepsList
  <2>3. ASSUME NEW i \in 1..Len(aEvents), ~Audit!IsIn(aEvents[i], aEvents')
        PROVE  aNow' >= aStamp[aEvents[i]] + ListRetention \/ Len(aEvents) - i >= ListLength - 1
    <3>1. ~Audit!IsIn(aEvents[i], r.events)
      BY <2>1, <2>3 DEF Audit!IsIn
    <3>2. aStamp[aEvents[i]] \in Nat /\ aStamp[e] \in Nat /\ aNow \in Nat /\ aStamp[e] <= aNow
      BY DEF ListInv, ListTyped, ListOrder
    <3>3. QED BY <3>1, <3>2, <2>1, <1>2, ListConstants
  <2>4. QED BY <2>2, <2>3 DEF LeavesDuly
<1>5. CASE Audit!Apply(e) /\ Audit!Reply(e, "ok")
  BY <1>4, <1>5
<1>6. CASE "store" \in aFaults /\ UNCHANGED Audit!lists /\ Audit!Reply(e, "error")
  <2>1. UNCHANGED <<aEvents, aStamps, aTouched, aNow, aStamp>>
        /\ aPc' = [aPc EXCEPT ![e] = "error"]
    BY <1>6 DEF Audit!lists, Audit!Reply
  <2>2. ListInv'
    BY <2>1 DEF ListInv, ListTyped, ListOrder, Audit!Stamped
  <2>3. LeavesDuly
    BY <2>1 DEF LeavesDuly, Audit!IsIn
  <2>4. QED BY <2>2, <2>3
<1>7. CASE "lost" \in aFaults /\ Audit!Apply(e) /\ Audit!Reply(e, "error")
  BY <1>4, <1>7
<1>8. CASE "resend" \in aFaults /\ Audit!ApplyTwice(e) /\ Audit!Reply(e, "ok")
  <2>1. aEvents' = q.events /\ aStamps' = q.stamps /\ aTouched' = aNow
    BY <1>8 DEF Audit!ApplyTwice, r, q
  <2>2. \A k \in 1..Len(q.events) :
          q.events[k] = e \/ \E i \in 1..Len(aEvents) : q.events[k] = aEvents[i]
    BY <1>2, <1>3
  <2>3. ListInv'
    BY <2>1, <2>2, <1>1, <1>3, <1>8, ScriptKeepsList
  <2>4. QED BY <2>3, <1>8 DEF LeavesDuly
<1>9. QED BY <1>5, <1>6, <1>7, <1>8 DEF Audit!Eval

LEMMA RecordKeepsList ==
  ASSUME ListInv, NEW e \in Records, Audit!Record(e)
  PROVE  ListInv' /\ LeavesDuly
<1>1. UNCHANGED <<aEvents, aStamps, aTouched, aNow>> /\ aPc[e] = "new"
      /\ aPc' = [aPc EXCEPT ![e] = "sent"] /\ aStamp' = [aStamp EXCEPT ![e] = aNow]
  BY DEF Audit!Record, Audit!lists
<1>2. \A i \in 1..Len(aEvents) : aEvents[i] \in Records /\ aEvents[i] # e
        /\ aStamp'[aEvents[i]] = aStamp[aEvents[i]] /\ aPc'[aEvents[i]] = aPc[aEvents[i]]
  BY <1>1 DEF ListInv, ListTyped, ListOrder
<1>3. ListTyped' /\ ListOrder'
  BY <1>1, <1>2 DEF ListInv, ListTyped, ListOrder
<1>4. Audit!Stamped'
  BY <1>1, <1>2 DEF ListInv, ListTyped, Audit!Stamped
<1>5. LeavesDuly
  BY <1>1 DEF LeavesDuly, Audit!IsIn
<1>6. QED BY <1>3, <1>4, <1>5 DEF ListInv

LEMMA TickKeepsList ==
  ASSUME ListInv, Audit!Tick
  PROVE  ListInv' /\ LeavesDuly
<1>1. aNow' = aNow + 1 /\ UNCHANGED <<aPc, aStamp, aTouched>>
  BY DEF Audit!Tick, Audit!lists
<1>2. CASE aStamps # <<>> /\ aNow' >= aTouched + ListRetention
  <2>1. aEvents' = <<>> /\ aStamps' = <<>>
    BY <1>2 DEF Audit!Tick
  <2>2. ListInv'
    BY <1>1, <2>1, ListConstants, EmptySeq DEF ListInv, ListTyped, ListOrder, Audit!Stamped
  <2>3. LeavesDuly
    <3>1. ASSUME NEW i \in 1..Len(aEvents) PROVE aNow' >= aStamp[aEvents[i]] + ListRetention
      <4>1. aStamp[aEvents[i]] \in Nat /\ aTouched \in Nat /\ aNow' \in Nat
            /\ aStamp[aEvents[i]] <= aTouched
        BY <1>1 DEF ListInv, ListTyped, ListOrder
      <4>2. QED BY <4>1, <1>2, ListConstants
    <3>2. QED BY <3>1 DEF LeavesDuly
  <2>4. QED BY <2>2, <2>3
<1>3. CASE ~(aStamps # <<>> /\ aNow' >= aTouched + ListRetention)
  <2>1. UNCHANGED <<aEvents, aStamps>>
    BY <1>3 DEF Audit!Tick, Audit!lists
  <2>2. ListInv'
    BY <1>1, <2>1 DEF ListInv, ListTyped, ListOrder, Audit!Stamped
  <2>3. LeavesDuly
    BY <2>1 DEF LeavesDuly, Audit!IsIn
  <2>4. QED BY <2>2, <2>3
<1>4. QED BY <1>2, <1>3

(* An event leaves the shared list only for its age or for newer ones, and *)
(* timestamps stay paired with their events (APPEND_AUDIT_SCRIPT), for     *)
(* every list length, retention, number of calls and delay.                *)
THEOREM LeavingIsDue == Spec => AuditLeavesOnlyWhenDue
<1>1. Init => ListInv
  BY ListStarts DEF Init
<1>2. ListInv /\ [Next]_vars => ListInv' /\ (LeavesDuly \/ UNCHANGED Audit!vars)
  <2> SUFFICES ASSUME ListInv, [Next]_vars PROVE ListInv' /\ (LeavesDuly \/ UNCHANGED Audit!vars)
    OBVIOUS
  <2>1. CASE AuditNext
    BY <2>1, EvalKeepsList, RecordKeepsList, TickKeepsList DEF AuditNext, Audit!Next
  <2>2. CASE UNCHANGED audit
    <3>1. UNCHANGED Audit!vars
      BY <2>2 DEF audit, Audit!vars, Audit!lists
    <3>2. ListInv'
      BY <2>2 DEF audit, ListInv, ListTyped, ListOrder, Audit!Stamped
    <3>3. QED BY <3>1, <3>2
  <2>3. QED BY <2>1, <2>2 DEF Next, RateNext, StreamStep, Disconnect, vars
<1>3. ListInv /\ ListInv' /\ (LeavesDuly \/ UNCHANGED Audit!vars) =>
      [/\ Audit!Stamped'
       /\ \A i \in 1..Len(aEvents) :
            ~Audit!IsIn(aEvents[i], aEvents') /\ "resend" \notin aFaults =>
              \/ aNow' >= aStamp[aEvents[i]] + ListRetention
              \/ Len(aEvents) - i >= ListLength - 1]_(Audit!vars)
  BY DEF ListInv, LeavesDuly
<1>4. QED BY <1>1, <1>2, <1>3, PTL DEF Spec, AuditLeavesOnlyWhenDue, Audit!LeavesOnlyWhenDue
=============================================================================
