----------------------------- MODULE SpanProofs -----------------------------
(***************************************************************************)
(* What the span operations compute for every text, every set of spans and *)
(* all replacements.  An induction over a sequence is written with the     *)
(* least place where a claim fails, since a set of naturals can be named   *)
(* where a predicate cannot; a fold is taken apart into its turns.         *)
(***************************************************************************)
EXTENDS MCSpans, Integers, SequenceTheorems, WellFoundedInduction, FiniteSetTheorems, TLAPS

-----------------------------------------------------------------------------
(* Induction, sorting and folds.                                           *)

(* A set of naturals has a least element. *)
LEMMA LeastIs ==
  ASSUME NEW T, T \subseteq Nat, T # {}
  PROVE  \E x \in T : \A y \in T : x <= y
<1>1. PICK x \in T : \A y \in T : ~(<<y, x>> \in OpToRel(<, Nat))
  BY NatLessThanWellFounded, WFMin
<1>2. \A y \in T : ~(y < x)
  BY <1>1 DEF OpToRel
<1>3. QED BY <1>2

(* A set that holds 0, and with each number the next, holds all up to n.   *)
LEMMA Reaches ==
  ASSUME NEW n \in Nat, NEW T, 0 \in T, \A i \in 1..n : i - 1 \in T => i \in T
  PROVE  \A i \in 0..n : i \in T
<1> DEFINE B == {i \in 0..n : i \notin T}
<1> SUFFICES ASSUME B # {} PROVE FALSE
  OBVIOUS
<1>1. B \subseteq Nat
  OBVIOUS
<1> HIDE DEF B
<1>2. PICK x \in B : \A y \in B : x <= y
  BY <1>1, LeastIs
<1>3. x \in 1..n /\ x - 1 \in 0..n /\ x - 1 < x
  BY <1>2 DEF B
<1>4. x - 1 \notin B
  BY <1>2, <1>3
<1>5. QED BY <1>2, <1>3, <1>4 DEF B

(* A strict total order of a finite set lists it: the place of a member is *)
(* the number of those before it.                                          *)
LEMMA Lists ==
  ASSUME NEW S, IsFiniteSet(S), NEW L,
         \A a \in S : <<a, a>> \notin L,
         \A a, b, c \in S : <<a, b>> \in L /\ <<b, c>> \in L => <<a, c>> \in L,
         \A a, b \in S : a = b \/ <<a, b>> \in L \/ <<b, a>> \in L
  PROVE  \E q \in [1..Cardinality(S) -> S] :
           \A i, j \in 1..Cardinality(S) : i < j => <<q[i], q[j]>> \in L
<1> DEFINE n == Cardinality(S)
           Below(a) == {b \in S : <<b, a>> \in L}
           place == [a \in S |-> Cardinality(Below(a)) + 1]
<1>1. n \in Nat
  BY FS_CardinalityType
<1>2. \A a \in S : IsFiniteSet(Below(a)) /\ Cardinality(Below(a)) \in Nat /\ Cardinality(Below(a)) < n
  <2> TAKE a \in S
  <2>1. Below(a) \in SUBSET S /\ a \notin Below(a)
    OBVIOUS
  <2> DEFINE D == Below(a)
  <2> HIDE DEF D
  <2>2. D \in SUBSET S /\ D # S
    BY <2>1 DEF D
  <2>3. IsFiniteSet(D) /\ Cardinality(D) <= n /\ Cardinality(D) # n
    BY <2>2, FS_Subset
  <2>4. Cardinality(D) \in Nat
    BY <2>3, FS_CardinalityType
  <2>5. QED BY <1>1, <2>3, <2>4 DEF D
<1>3. \A a, b \in S : <<a, b>> \in L => Cardinality(Below(a)) < Cardinality(Below(b))
  <2> SUFFICES ASSUME NEW a \in S, NEW b \in S, <<a, b>> \in L
               PROVE  Cardinality(Below(a)) < Cardinality(Below(b))
    OBVIOUS
  <2> DEFINE C == Below(a)
             D == Below(b)
  <2>1. C \in SUBSET D /\ a \in D /\ a \notin C
    OBVIOUS
  <2>2. IsFiniteSet(D) /\ Cardinality(D) \in Nat /\ Cardinality(C) \in Nat
    BY <1>2
  <2> HIDE DEF C, D
  <2>3. Cardinality(C) <= Cardinality(D) /\ Cardinality(C) # Cardinality(D)
    BY <2>1, <2>2, FS_Subset
  <2>4. QED BY <2>2, <2>3 DEF C, D
<1>4. place \in [S -> 1..n]
  BY <1>1, <1>2
<1>5. \A a, b \in S : (place[a] < place[b] => <<a, b>> \in L) /\ (place[a] = place[b] => a = b)
  <2> SUFFICES ASSUME NEW a \in S, NEW b \in S
               PROVE  (place[a] < place[b] => <<a, b>> \in L) /\ (place[a] = place[b] => a = b)
    OBVIOUS
  <2> DEFINE x == Cardinality(Below(a))
             y == Cardinality(Below(b))
  <2>1. x \in Nat /\ y \in Nat /\ place[a] = x + 1 /\ place[b] = y + 1
    BY <1>2
  <2>2. (<<a, b>> \in L => x < y) /\ (<<b, a>> \in L => y < x)
    BY <1>3
  <2> HIDE DEF x, y, place
  <2>3. QED BY <2>1, <2>2
<1>6. \A a, b \in S : place[a] = place[b] => a = b
  BY <1>5
<1> HIDE DEF place
<1>7. place \in Injection(S, 1..n)
  BY <1>4, <1>6 DEF Injection, IsInjective
<1>8. IsFiniteSet(1..n) /\ Cardinality(1..n) = n
  BY <1>1, FS_Interval
<1>9. place \in Surjection(S, 1..n)
  BY <1>7, <1>8, FS_Injection
<1>10. \A i \in 1..n : \E a \in S : place[a] = i
  BY <1>9 DEF Surjection
<1> DEFINE q == [i \in 1..n |-> CHOOSE a \in S : place[a] = i]
<1>11. \A i \in 1..n : q[i] \in S /\ place[q[i]] = i
  BY <1>10
<1> HIDE DEF q
<1>12. q \in [1..n -> S]
  BY <1>11 DEF q
<1>13. \A i, j \in 1..n : i < j => <<q[i], q[j]>> \in L
  BY <1>5, <1>11
<1>14. QED BY <1>12, <1>13

(* Such a list has every member once. *)
LEMMA ListsOnce ==
  ASSUME NEW S, IsFiniteSet(S), NEW q \in [1..Cardinality(S) -> S],
         \A i, j \in 1..Cardinality(S) : i < j => q[i] # q[j]
  PROVE  \A a \in S : \E i \in 1..Cardinality(S) : q[i] = a
<1> DEFINE n == Cardinality(S)
<1>1. n \in Nat
  BY FS_CardinalityType
<1> HIDE DEF n
<1>2. \A i, j \in 1..n : q[i] = q[j] => i = j
  BY <1>1 DEF n
<1>3. q \in Injection(1..n, S)
  BY <1>2 DEF Injection, IsInjective, n
<1>4. IsFiniteSet(1..n) /\ Cardinality(1..n) = n
  BY <1>1, FS_Interval
<1>5. q \in Surjection(1..n, S)
  BY <1>3, <1>4, FS_Injection DEF n
<1>6. QED BY <1>5 DEF Surjection, n

LEMMA MaxIs ==
  ASSUME NEW n \in Nat, NEW s, s \subseteq 0..n, s # {}
  PROVE  Max(s) \in s /\ \A y \in s : Max(s) >= y
<1> DEFINE U == {m \in 0..n : n - m \in s}
<1>1. PICK z \in s : z \in 0..n
  OBVIOUS
<1>2. U \subseteq Nat /\ n - z \in U
  BY <1>1
<1>3. PICK u \in U : \A y \in U : u <= y
  <2> HIDE DEF U
  <2>1. U # {} BY <1>2
  <2>2. QED BY <1>2, <2>1, LeastIs
<1>4. ASSUME NEW y \in s PROVE n - u >= y
  <2>1. n - y \in U
    OBVIOUS
  <2>2. QED BY <2>1, <1>3
<1>5. \E x \in s : \A y \in s : x >= y
  BY <1>3, <1>4
<1>6. QED BY <1>5 DEF Max

(* What FoldLeft computes for the places up to n, of which F gives each    *)
(* turn.                                                                   *)
IsFold(h, n, V, b, F) ==
  /\ h \in [SUBSET (1..n) -> V]
  /\ h[{}] = b
  /\ \A s \in SUBSET (1..n) : s # {} => h[s] = F[Max(s)][h[s \ {Max(s)}]]

LEMMA FoldExists ==
  ASSUME NEW n \in Nat, NEW V, NEW b \in V, NEW F \in [1..n -> [V -> V]]
  PROVE  \E h : IsFold(h, n, V, b, F)
<1> DEFINE Folds(m, h) ==
             /\ h \in [SUBSET (1..m) -> V]
             /\ h[{}] = b
             /\ \A s \in SUBSET (1..m) : s # {} => h[s] = F[Max(s)][h[s \ {Max(s)}]]
           T == {m \in 0..n : \E h : Folds(m, h)}
<1>1. 0 \in T
  <2>1. SUBSET (1..0) = {{}}
    OBVIOUS
  <2> DEFINE z == [s \in SUBSET (1..0) |-> b]
  <2>2. Folds(0, z)
    BY <2>1
  <2>3. 0 \in 0..n
    OBVIOUS
  <2> HIDE DEF z, Folds
  <2>4. QED BY <2>2, <2>3
<1>2. ASSUME NEW m \in 1..n, m - 1 \in T PROVE m \in T
  <2>1. PICK h : Folds(m - 1, h)
    BY <1>2
  <2> DEFINE g == [s \in SUBSET (1..m) |-> IF m \in s THEN F[m][h[s \ {m}]] ELSE h[s]]
  <2>2. m \in Nat /\ m \in 1..n /\ {} \in SUBSET (1..m) /\ F[m] \in [V -> V]
    OBVIOUS
  <2>3. \A s \in SUBSET (1..m) : /\ m \in s => s \ {m} \in SUBSET (1..(m - 1)) /\ Max(s) = m
                                 /\ m \notin s => s \in SUBSET (1..(m - 1))
    <3> SUFFICES ASSUME NEW s \in SUBSET (1..m)
                 PROVE  /\ m \in s => s \ {m} \in SUBSET (1..(m - 1)) /\ Max(s) = m
                        /\ m \notin s => s \in SUBSET (1..(m - 1))
      OBVIOUS
    <3>1. \A x \in s : x # m => x \in 1..(m - 1)
      BY <2>2
    <3>2. ASSUME m \in s PROVE Max(s) = m
      <4>1. s \subseteq 0..m /\ s # {}
        BY <3>2
      <4>2. Max(s) \in s /\ Max(s) >= m
        BY <4>1, <3>2, <2>2, MaxIs
      <4>3. Max(s) \in 1..m
        BY <4>2
      <4>4. QED BY <4>2, <4>3, <2>2
    <3>3. QED BY <3>1, <3>2
  <2>4. g \in [SUBSET (1..m) -> V]
    BY <2>1, <2>2, <2>3
  <2>5. g[{}] = b
    BY <2>1, <2>2
  <2>6. ASSUME NEW s \in SUBSET (1..m), s # {} PROVE g[s] = F[Max(s)][g[s \ {Max(s)}]]
    <3>1. CASE m \in s
      <4>1. Max(s) = m /\ s \ {m} \in SUBSET (1..m) /\ m \notin s \ {m}
        BY <2>3, <3>1
      <4>2. g[s \ {m}] = h[s \ {m}] /\ g[s] = F[m][h[s \ {m}]]
        BY <4>1, <3>1
      <4>3. QED BY <4>1, <4>2
    <3>2. CASE m \notin s
      <4>1. s \in SUBSET (1..(m - 1)) /\ m - 1 \in Nat
        BY <2>2, <2>3, <3>2
      <4>2. h[s] = F[Max(s)][h[s \ {Max(s)}]]
        BY <4>1, <2>1, <2>6
      <4>3. g[s] = h[s] /\ g[s \ {Max(s)}] = h[s \ {Max(s)}]
        BY <3>2
      <4>4. QED BY <4>2, <4>3
    <3>3. QED BY <3>1, <3>2
  <2> HIDE DEF g
  <2>7. Folds(m, g) /\ m \in 0..n
    BY <2>2, <2>4, <2>5, <2>6, SMTT(30)
  <2> HIDE DEF Folds
  <2>8. QED BY <2>7
<1> HIDE DEF T
<1>3. n \in T
  <2>1. \A i \in 0..n : i \in T
    BY <1>1, <1>2, Reaches
  <2>2. QED BY <2>1
<1>4. QED BY <1>3 DEF T, IsFold

LEMMA IntervalMax ==
  ASSUME NEW k \in Nat \ {0}
  PROVE  Max(1..k) = k /\ (1..k) \ {k} = 1..(k - 1) /\ 1..k # {}
<1> DEFINE s == 1..k
<1>1. s \subseteq 0..k /\ s # {} /\ k \in s /\ \A x \in s : x \in Nat /\ x <= k
  OBVIOUS
<1> HIDE DEF s
<1>2. Max(s) \in s /\ Max(s) >= k
  BY <1>1, MaxIs
<1>3. Max(s) \in Nat /\ Max(s) <= k
  BY <1>1, <1>2
<1>4. Max(s) = k
  BY <1>2, <1>3
<1>5. (1..k) \ {k} = 1..(k - 1)
  OBVIOUS
<1>6. QED BY <1>1, <1>4, <1>5 DEF s

-----------------------------------------------------------------------------
(* dedupe_overlaps.                                                        *)
AllSpans == [start : Nat, end : Nat, confidence : Nat]

(* q lists S. *)
IsListOf(q, S) ==
  /\ Cardinality(S) \in Nat /\ q \in [1..Cardinality(S) -> S]
  /\ \A a \in S : \E i \in 1..Cardinality(S) : q[i] = a

LEMMA LongestIsOrder ==
  \A a, b, c \in AllSpans :
    /\ ~LongestFirst(a, a)
    /\ LongestFirst(a, b) /\ LongestFirst(b, c) => LongestFirst(a, c)
    /\ a = b \/ LongestFirst(a, b) \/ LongestFirst(b, a)
  BY DEF AllSpans, LongestFirst

LEMMA LongestSorts ==
  ASSUME NEW S \in SUBSET AllSpans, IsFiniteSet(S)
  PROVE  LET q == Sorted(S, LongestFirst)
         IN  /\ IsListOf(q, S)
             /\ \A i, j \in 1..Cardinality(S) : i < j => LongestFirst(q[i], q[j])
<1> DEFINE n == Cardinality(S)
           q == Sorted(S, LongestFirst)
           L == {l \in S \X S : LongestFirst(l[1], l[2])}
<1>1. n \in Nat
  BY FS_CardinalityType
<1>2. \A a, b \in S : <<a, b>> \in L <=> LongestFirst(a, b)
  OBVIOUS
<1> HIDE DEF L
<1>3. /\ \A a \in S : <<a, a>> \notin L
      /\ \A a, b, c \in S : <<a, b>> \in L /\ <<b, c>> \in L => <<a, c>> \in L
      /\ \A a, b \in S : a = b \/ <<a, b>> \in L \/ <<b, a>> \in L
  BY <1>2, LongestIsOrder
<1>4. \E r \in [1..n -> S] : \A i, j \in 1..n : i < j => <<r[i], r[j]>> \in L
  BY <1>3, Lists
<1>5. \E r \in [1..n -> S] : \A i, j \in 1..n : i < j => LongestFirst(r[i], r[j])
  BY <1>2, <1>4
<1>6. q = CHOOSE r \in [1..n -> S] : \A i, j \in 1..n : i < j => LongestFirst(r[i], r[j])
  BY DEF Sorted
<1> HIDE DEF q
<1>7. q \in [1..n -> S] /\ \A i, j \in 1..n : i < j => LongestFirst(q[i], q[j])
  BY <1>5, <1>6
<1>8. \A i, j \in 1..n : i < j => q[i] # q[j]
  BY <1>7, LongestIsOrder
<1>9. \A a \in S : \E i \in 1..n : q[i] = a
  BY <1>7, <1>8, ListsOnce
<1>10. QED BY <1>1, <1>7, <1>9 DEF IsListOf, q

(* The turns of dedupe_overlaps(S): q is the order of the loop and g[k]    *)
(* what is kept after k turns.                                             *)
Turns(S, q, g) ==
  /\ IsListOf(q, S)
  /\ \A i, j \in 1..Cardinality(S) : i < j => LongestFirst(q[i], q[j])
  /\ g \in [0..Cardinality(S) -> SUBSET S]
  /\ g[0] = {} /\ g[Cardinality(S)] = dedupe_overlaps(S)
  /\ \A k \in 1..Cardinality(S) : g[k] = Keep(g[k - 1], q[k])

LEMMA DedupeTurns ==
  ASSUME NEW S \in SUBSET AllSpans, IsFiniteSet(S)
  PROVE  \E q, g : Turns(S, q, g)
<1> DEFINE n == Cardinality(S)
           q == Sorted(S, LongestFirst)
           V == SUBSET S
           F == [i \in 1..n |-> [v \in V |-> Keep(v, q[i])]]
           Folds(h) == h = [s \in SUBSET (DOMAIN q) |->
                              IF s = {} THEN {} ELSE Keep(h[s \ {Max(s)}], q[Max(s)])]
           it == CHOOSE h : Folds(h)
<1>1. /\ n \in Nat /\ q \in [1..n -> S] /\ IsListOf(q, S)
      /\ \A i, j \in 1..n : i < j => LongestFirst(q[i], q[j])
  BY LongestSorts DEF IsListOf
<1>2. dedupe_overlaps(S) = it[DOMAIN q]
  BY DEF dedupe_overlaps, FoldLeft, MapThenFoldSet
<1> HIDE DEF q
<1>3. \A v \in V, a \in S : Keep(v, a) \in V
  BY DEF Keep
<1>4. F \in [1..n -> [V -> V]] /\ \A i \in 1..n, v \in V : F[i][v] = Keep(v, q[i])
  BY <1>1, <1>3
<1>5. DOMAIN q = 1..n /\ {} \in V
  BY <1>1
<1> HIDE DEF F, V
<1>6. \A s \in SUBSET (1..n) : s # {} => Max(s) \in 1..n /\ s \ {Max(s)} \in SUBSET (1..n)
  <2> SUFFICES ASSUME NEW s \in SUBSET (1..n), s # {} PROVE Max(s) \in s
    OBVIOUS
  <2>1. s \subseteq 0..n
    BY <1>1
  <2>2. QED BY <1>1, <2>1, MaxIs
<1>7. PICK h : IsFold(h, n, V, {}, F)
  BY <1>1, <1>4, <1>5, FoldExists
<1>8. Folds(h)
  <2>1. \A s \in SUBSET (1..n) : h[s] = IF s = {} THEN {} ELSE Keep(h[s \ {Max(s)}], q[Max(s)])
    BY <1>4, <1>6, <1>7 DEF IsFold
  <2>2. QED BY <1>5, <1>7, <2>1 DEF IsFold
<1>9. Folds(it)
  <2> HIDE DEF Folds
  <2>1. QED BY <1>8
<1> HIDE DEF it
<1>10. it[{}] = {} /\ \A k \in 1..n : it[1..k] = Keep(it[1..(k - 1)], q[k])
  <2>1. \A s \in SUBSET (1..n) : it[s] = IF s = {} THEN {} ELSE Keep(it[s \ {Max(s)}], q[Max(s)])
    BY <1>5, <1>9
  <2>2. ASSUME NEW k \in 1..n PROVE it[1..k] = Keep(it[1..(k - 1)], q[k])
    <3>1. k \in Nat \ {0} /\ 1..k \in SUBSET (1..n)
      BY <1>1
    <3>2. Max(1..k) = k /\ (1..k) \ {k} = 1..(k - 1) /\ 1..k # {}
      BY <3>1, IntervalMax
    <3> DEFINE s == 1..k
               t == 1..(k - 1)
    <3>3. s \in SUBSET (1..n) /\ Max(s) = k /\ s \ {k} = t /\ s # {}
      BY <3>1, <3>2
    <3> HIDE DEF s, t
    <3>4. it[s] = Keep(it[t], q[k])
      BY <2>1, <3>3
    <3>5. QED BY <3>4 DEF s, t
  <2>3. QED BY <2>1, <2>2
<1> DEFINE g == [k \in 0..n |-> it[1..k]]
<1>11. g[0] = {} /\ g[n] = dedupe_overlaps(S) /\ \A k \in 1..n : g[k] = Keep(g[k - 1], q[k])
  <2>1. 1..0 = {} /\ 0 \in 0..n /\ n \in 0..n /\ \A k \in 1..n : k \in 0..n /\ k - 1 \in 0..n
    BY <1>1
  <2>2. \A k \in 0..n : g[k] = it[1..k]
    BY Zenon
  <2> HIDE DEF g
  <2>3. QED BY <2>1, <2>2, <1>2, <1>5, <1>10
<1>12. \A k \in 0..n : g[k] \in SUBSET S
  <2> HIDE DEF g
  <2> DEFINE T == {k \in 0..n : g[k] \in SUBSET S}
  <2>1. 0 \in T
    BY <1>1, <1>11
  <2>2. \A k \in 1..n : k - 1 \in T => k \in T
    BY <1>1, <1>3, <1>11 DEF V
  <2> HIDE DEF T
  <2>3. \A k \in 0..n : k \in T
    BY <1>1, <2>1, <2>2, Reaches
  <2>4. QED BY <2>3 DEF T
<1>13. g \in [0..n -> SUBSET S]
  BY <1>12
<1> HIDE DEF g
<1>14. Turns(S, q, g)
  BY <1>1, <1>11, <1>13 DEF Turns
<1>15. QED BY <1>14

(* What is kept came in at its own turn. *)
LEMMA CameAtItsTurn ==
  ASSUME NEW S \in SUBSET AllSpans, NEW q, NEW g, Turns(S, q, g)
  PROVE  \A i \in 0..Cardinality(S), j \in 1..Cardinality(S) :
           q[j] \in g[i] => j <= i /\ q[j] \in g[j]
<1> DEFINE n == Cardinality(S)
           T == {i \in 0..n : \A j \in 1..n : q[j] \in g[i] => j <= i /\ q[j] \in g[j]}
<1>1. n \in Nat /\ q \in [1..n -> S] /\ g[0] = {} /\ g \in [0..n -> SUBSET S]
  BY DEF Turns, IsListOf
<1>2. \A i, j \in 1..n : q[i] = q[j] => i = j
  <2>1. \A i, j \in 1..n : i < j => q[i] # q[j]
    BY <1>1, LongestIsOrder DEF Turns
  <2>2. QED BY <2>1, <1>1
<1>3. 0 \in T
  BY <1>1
<1>4. ASSUME NEW i \in 1..n, i - 1 \in T PROVE i \in T
  <2> SUFFICES ASSUME NEW j \in 1..n, q[j] \in g[i] PROVE j <= i /\ q[j] \in g[j]
    BY <1>1
  <2>1. q[j] \in g[i - 1] \/ q[j] = q[i]
    BY DEF Turns, Keep
  <2>2. CASE q[j] = q[i]
    BY <1>1, <1>2, <2>2
  <2>3. CASE q[j] \in g[i - 1]
    <3>1. j <= i - 1 /\ q[j] \in g[j]
      BY <1>4, <2>3
    <3>2. QED BY <3>1
  <2>4. QED BY <2>1, <2>2, <2>3
<1> HIDE DEF T
<1>5. \A i \in 0..n : i \in T
  BY <1>1, <1>3, <1>4, Reaches
<1>6. QED BY <1>5 DEF T

(* What overlaps nothing more confident is not given up once it is kept. *)
LEMMA BestStays ==
  ASSUME NEW S \in SUBSET AllSpans, NEW q, NEW g, Turns(S, q, g), NEW s \in S,
         \A d \in S : overlaps(s, d) => d.confidence <= s.confidence,
         NEW j \in 1..Cardinality(S), s \in g[j]
  PROVE  /\ s \in dedupe_overlaps(S)
         /\ \A i \in 0..Cardinality(S) : i < j \/ s \in g[i]
<1> DEFINE n == Cardinality(S)
           T == {i \in 0..n : i < j \/ s \in g[i]}
<1>1. n \in Nat /\ q \in [1..n -> S] /\ g[n] = dedupe_overlaps(S) /\ g \in [0..n -> SUBSET S]
  BY DEF Turns, IsListOf
<1>2. 0 \in T
  BY <1>1
<1>3. ASSUME NEW i \in 1..n, i - 1 \in T PROVE i \in T
  <2>1. CASE s \in g[i - 1]
    <3>1. g[i] = Keep(g[i - 1], q[i]) /\ q[i] \in S
      BY <1>1 DEF Turns
    <3>2. overlaps(q[i], s) => overlaps(s, q[i])
      BY DEF overlaps
    <3>3. s \in g[i]
      BY <2>1, <3>1, <3>2 DEF Keep
    <3>4. QED BY <3>3
  <2>2. CASE i - 1 < j
    <3>1. i < j \/ i = j
      BY <2>2
    <3>2. QED BY <3>1
  <2>3. QED BY <1>3, <2>1, <2>2
<1> HIDE DEF T
<1>4. \A i \in 0..n : i \in T
  BY <1>1, <1>2, <1>3, Reaches
<1>5. n \in 0..n /\ ~(n < j)
  BY <1>1
<1>6. QED BY <1>1, <1>4, <1>5 DEF T

(* dedupe_overlaps keeps a span that is more confident than all it         *)
(* overlaps.                                                               *)
LEMMA DedupeKeepsMaxima ==
  ASSUME NEW S \in SUBSET AllSpans, IsFiniteSet(S), NEW s \in S,
         \A d \in S \ {s} : overlaps(s, d) => d.confidence < s.confidence
  PROVE  s \in dedupe_overlaps(S)
<1> DEFINE n == Cardinality(S)
<1>1. PICK q, g : Turns(S, q, g)
  BY DedupeTurns
<1>2. PICK j \in 1..n : q[j] = s
  BY <1>1 DEF Turns, IsListOf
<1>3. n \in Nat /\ g \in [0..n -> SUBSET S] /\ j - 1 \in 0..n /\ ~(j <= j - 1)
  BY <1>1 DEF Turns, IsListOf
<1>4. s \notin g[j - 1]
  BY <1>1, <1>2, <1>3, CameAtItsTurn
<1>5. \A k \in g[j - 1] : overlaps(s, k) => ~(s.confidence <= k.confidence)
  <2> SUFFICES ASSUME NEW k \in g[j - 1], overlaps(s, k) PROVE ~(s.confidence <= k.confidence)
    OBVIOUS
  <2>1. k \in S \ {s}
    BY <1>3, <1>4
  <2>2. k.confidence < s.confidence /\ k.confidence \in Nat /\ s.confidence \in Nat
    BY <2>1 DEF AllSpans
  <2>3. QED BY <2>2
<1>6. s \in g[j]
  BY <1>1, <1>2, <1>5 DEF Turns, Keep
<1>7. \A d \in S : overlaps(s, d) => d.confidence <= s.confidence
  BY DEF AllSpans
<1>8. QED BY <1>1, <1>6, <1>7, BestStays

(* It keeps some of the spans and none that overlap. *)
LEMMA DedupeIsDisjoint ==
  ASSUME NEW S \in SUBSET AllSpans, IsFiniteSet(S)
  PROVE  dedupe_overlaps(S) \subseteq S /\ Disjoint(dedupe_overlaps(S))
<1> DEFINE n == Cardinality(S)
<1>1. PICK q, g : Turns(S, q, g)
  BY DedupeTurns
<1>2. /\ n \in Nat /\ q \in [1..n -> S] /\ g \in [0..n -> SUBSET S]
      /\ g[0] = {} /\ g[n] = dedupe_overlaps(S)
  BY <1>1 DEF Turns, IsListOf
<1> DEFINE T == {i \in 0..n : Disjoint(g[i])}
<1>3. 0 \in T
  BY <1>2 DEF Disjoint
<1>4. ASSUME NEW i \in 1..n, i - 1 \in T PROVE i \in T
  <2>1. g[i] = Keep(g[i - 1], q[i])
    BY <1>1 DEF Turns
  <2>2. g[i] = g[i - 1] \/ g[i] = {k \in g[i - 1] : ~overlaps(q[i], k)} \cup {q[i]}
    BY <2>1 DEF Keep
  <2>3. \A a, b : overlaps(a, b) => overlaps(b, a)
    BY DEF overlaps
  <2>4. Disjoint(g[i])
    BY <1>4, <2>2, <2>3 DEF Disjoint
  <2>5. QED BY <2>4
<1> HIDE DEF T
<1>5. n \in T
  <2>1. \A i \in 0..n : i \in T
    BY <1>2, <1>3, <1>4, Reaches
  <2>2. QED BY <1>2, <2>1
<1>6. n \in 0..n
  BY <1>2
<1>7. QED BY <1>2, <1>5, <1>6 DEF T

(* Spans of one confidence that overlap no others are kept in the order of *)
(* the loop: each unless it overlaps one kept before it.                   *)
LEMMA EqualsAreGreedy ==
  ASSUME NEW S \in SUBSET AllSpans, IsFiniteSet(S), NEW R \in SUBSET S,
         \A r \in R, d \in S : overlaps(r, d) => d \in R /\ d.confidence = r.confidence
  PROVE  \A s \in R : s \in dedupe_overlaps(S) <=>
           ~\E k \in R \cap dedupe_overlaps(S) : LongestFirst(k, s) /\ overlaps(s, k)
<1> DEFINE n == Cardinality(S)
<1>1. PICK q, g : Turns(S, q, g)
  BY DedupeTurns
<1>2. /\ n \in Nat /\ q \in [1..n -> S] /\ g \in [0..n -> SUBSET S]
      /\ g[n] = dedupe_overlaps(S) /\ n \in 0..n
  BY <1>1 DEF Turns, IsListOf
<1>3. \A s \in R : \A d \in S : overlaps(s, d) => d.confidence <= s.confidence
  BY DEF AllSpans
<1>4. \A s \in R, i \in 1..n : s \in g[i] => s \in dedupe_overlaps(S)
  BY <1>1, <1>3, BestStays
<1> SUFFICES ASSUME NEW s \in R
             PROVE  s \in dedupe_overlaps(S) <=>
                    ~\E k \in R \cap dedupe_overlaps(S) : LongestFirst(k, s) /\ overlaps(s, k)
  OBVIOUS
<1>5. PICK j \in 1..n : q[j] = s
  BY <1>1 DEF Turns, IsListOf
<1>6. j \in 0..n /\ j - 1 \in 0..n
  BY <1>2
<1>7. s \in dedupe_overlaps(S) <=> s \in g[j]
  <2>1. s \in g[n] => s \in g[j]
    BY <1>1, <1>2, <1>5, CameAtItsTurn
  <2>2. QED BY <1>2, <1>4, <2>1
<1>8. s \notin g[j - 1]
  <2>1. ~(j <= j - 1)
    OBVIOUS
  <2>2. QED BY <1>1, <1>5, <1>6, <2>1, CameAtItsTurn
<1>9. s \in g[j] <=> ~\E k \in g[j - 1] : overlaps(s, k)
  <2>1. g[j] = Keep(g[j - 1], s)
    BY <1>1, <1>5 DEF Turns
  <2>2. \A k \in g[j - 1] : overlaps(s, k) => s.confidence <= k.confidence
    BY <1>2, <1>6 DEF AllSpans
  <2>3. QED BY <1>8, <2>1, <2>2 DEF Keep
<1>10. ASSUME NEW k \in g[j - 1], overlaps(s, k)
       PROVE  k \in R \cap dedupe_overlaps(S) /\ LongestFirst(k, s)
  <2>1. k \in S /\ k \in R
    BY <1>2, <1>6, <1>10
  <2>2. PICK i \in 1..n : q[i] = k
    BY <1>1, <2>1 DEF Turns, IsListOf
  <2>3. i <= j - 1 /\ k \in g[i]
    BY <1>1, <1>6, <1>10, <2>2, CameAtItsTurn
  <2>4. i < j
    BY <2>3
  <2>5. LongestFirst(k, s)
    BY <1>1, <1>5, <2>2, <2>4 DEF Turns
  <2>6. QED BY <1>4, <2>1, <2>3, <2>5
<1>11. ASSUME NEW k \in R \cap dedupe_overlaps(S), LongestFirst(k, s), overlaps(s, k)
       PROVE  k \in g[j - 1]
  <2>1. PICK i \in 1..n : q[i] = k
    BY <1>1 DEF Turns, IsListOf
  <2>2. k \in g[i]
    BY <1>1, <1>2, <2>1, CameAtItsTurn
  <2>3. i < j
    <3>1. i = j \/ j < i \/ i < j
      OBVIOUS
    <3>2. i # j
      BY <1>5, <1>11, <2>1, LongestIsOrder
    <3>3. ~(j < i)
      <4>1. j < i => LongestFirst(s, k)
        BY <1>1, <1>5, <2>1 DEF Turns
      <4>2. s \in AllSpans /\ k \in AllSpans
        OBVIOUS
      <4>3. QED BY <1>11, <4>1, <4>2, LongestIsOrder
    <3>4. QED BY <3>1, <3>2, <3>3
  <2>4. j - 1 < i \/ k \in g[j - 1]
    BY <1>1, <1>3, <1>6, <2>2, BestStays
  <2>5. ~(j - 1 < i)
    BY <2>3
  <2>6. QED BY <2>4, <2>5
<1>12. QED BY <1>7, <1>9, <1>10, <1>11

(* Spans that overlap none of R, whose confidences are equal, change       *)
(* nothing of what is kept of R.                                           *)
LEMMA OthersDoNotMatter ==
  ASSUME NEW R \in SUBSET AllSpans, NEW M \in SUBSET AllSpans,
         IsFiniteSet(R), IsFiniteSet(R \cup M),
         \A r, d \in R : r.confidence = d.confidence,
         \A r \in R, d \in M : ~overlaps(r, d)
  PROVE  dedupe_overlaps(R) \subseteq dedupe_overlaps(R \cup M)
<1> DEFINE K == dedupe_overlaps(R)
           L == R \cap dedupe_overlaps(R \cup M)
           n == Cardinality(R)
<1>1. K \subseteq R /\ R \cap K = K
  BY DedupeIsDisjoint
<1>2. \A s \in R : s \in K <=> ~\E k \in K : LongestFirst(k, s) /\ overlaps(s, k)
  <2>1. \A s \in R : s \in K <=> ~\E k \in R \cap K : LongestFirst(k, s) /\ overlaps(s, k)
    BY EqualsAreGreedy
  <2>2. QED BY <1>1, <2>1
<1>3. \A s \in R : s \in L <=> ~\E k \in L : LongestFirst(k, s) /\ overlaps(s, k)
  <2>1. R \in SUBSET (R \cup M) /\ R \cup M \in SUBSET AllSpans
    OBVIOUS
  <2>2. \A r \in R, d \in R \cup M : overlaps(r, d) => d \in R /\ d.confidence = r.confidence
    OBVIOUS
  <2> DEFINE U == R \cup M
  <2> HIDE DEF U
  <2>3. \A s \in R : s \in dedupe_overlaps(U) <=>
          ~\E k \in R \cap dedupe_overlaps(U) : LongestFirst(k, s) /\ overlaps(s, k)
    BY <2>1, <2>2, EqualsAreGreedy DEF U
  <2>4. QED BY <2>3 DEF U
<1>4. L \subseteq R
  OBVIOUS
<1> HIDE DEF K, L
<1>5. PICK q, g : Turns(R, q, g)
  BY DedupeTurns
<1>6. n \in Nat /\ q \in [1..n -> R] /\ \A a \in R : \E i \in 1..n : q[i] = a
  BY <1>5 DEF Turns, IsListOf
<1> DEFINE T == {i \in 0..n : \A j \in 1..i : q[j] \in K <=> q[j] \in L}
<1>7. 0 \in T
  BY <1>6
<1>8. ASSUME NEW i \in 1..n, i - 1 \in T PROVE i \in T
  <2> DEFINE s == q[i]
  <2>1. \A k \in R : LongestFirst(k, s) => (k \in K <=> k \in L)
    <3> SUFFICES ASSUME NEW k \in R, LongestFirst(k, s) PROVE k \in K <=> k \in L
      OBVIOUS
    <3>1. PICK j \in 1..n : q[j] = k
      BY <1>6
    <3>2. i # j
      BY <1>6, <3>1, LongestIsOrder
    <3>3. i < j => LongestFirst(s, k)
      BY <1>5, <3>1 DEF Turns
    <3>4. s \in AllSpans /\ k \in AllSpans
      BY <1>6
    <3>5. ~(i < j)
      BY <3>3, <3>4, LongestIsOrder
    <3>6. j \in 1..(i - 1)
      BY <3>2, <3>5
    <3>7. QED BY <1>8, <3>1, <3>6
  <2>2. s \in R
    BY <1>6
  <2> HIDE DEF s
  <2>3. s \in K <=> s \in L
    BY <1>1, <1>2, <1>3, <1>4, <2>1, <2>2
  <2>4. \A j \in 1..i : j \in 1..(i - 1) \/ j = i
    OBVIOUS
  <2>5. \A j \in 1..i : q[j] \in K <=> q[j] \in L
    BY <1>8, <2>3, <2>4 DEF s
  <2>6. QED BY <2>5
<1> HIDE DEF T
<1>9. n \in T
  <2>1. \A i \in 0..n : i \in T
    BY <1>6, <1>7, <1>8, Reaches
  <2>2. QED BY <1>6, <2>1
<1>10. \A a \in R : a \in K <=> a \in L
  BY <1>6, <1>9 DEF T
<1>11. QED BY <1>1, <1>10 DEF K, L

-----------------------------------------------------------------------------
(* The steps of a redaction.                                               *)

LEMMA EmptyStays == dedupe_overlaps({}) = {}
<1>1. {} \in SUBSET AllSpans /\ IsFiniteSet({})
  BY FS_EmptySet
<1>2. QED BY <1>1, DedupeIsDisjoint

(* What detectors return is finite. *)
LEMMA DetectionsAreFinite ==
  ASSUME NEW U, NEW S \in Detections(U)
  PROVE  S \subseteq U /\ IsFiniteSet(S)
<1>1. CASE S = {}
  BY <1>1, FS_EmptySet
<1>2. CASE S # {}
  <2>1. PICK f \in [1..MaxSpans -> U] : S = {f[i] : i \in 1..MaxSpans}
    BY <1>2 DEF Detections
  <2>2. f \in Surjection(1..MaxSpans, S)
    BY <2>1 DEF Surjection
  <2>3. IsFiniteSet(1..MaxSpans)
    BY TextAssumption, FS_Interval
  <2>4. IsFiniteSet(S)
    BY <2>2, <2>3, FS_Surjection
  <2>5. QED BY <2>1, <2>4
<1>3. QED BY <1>1, <1>2

LEMMA CandidatesAreSpans ==
  ASSUME NEW n \in Nat
  PROVE  /\ Candidates(n) \subseteq AllSpans
         /\ \A s \in Candidates(n) : s.confidence \in Confidences
         /\ \A C \in SUBSET Nat :
              SpansIn(n, C) \subseteq AllSpans /\ \A s \in SpansIn(n, C) : s.confidence \in C
<1>1. Confidences \in SUBSET Nat
  BY TextAssumption DEF Confidences
<1>2. \A C \in SUBSET Nat :
        SpansIn(n, C) \subseteq AllSpans /\ \A s \in SpansIn(n, C) : s.confidence \in C
  <2> SUFFICES ASSUME NEW C \in SUBSET Nat, NEW s \in SpansIn(n, C)
               PROVE  s \in AllSpans /\ s.confidence \in C
    OBVIOUS
  <2>1. s \in [start : 0..n, end : 0..n, confidence : C]
    BY Zenon DEF SpansIn
  <2>2. 0..n \subseteq Nat
    OBVIOUS
  <2>3. s \in AllSpans
    BY <2>1, <2>2, Zenon DEF AllSpans
  <2>4. s.confidence \in C
    BY <2>1
  <2>5. QED BY <2>3, <2>4
<1>3. Strays \subseteq AllSpans /\ \A s \in Strays : s.confidence \in Confidences
  BY TextAssumption DEF AllSpans, Confidences
<1>4. QED BY <1>1, <1>2, <1>3 DEF Candidates

(* What BestAreKept rests on: only Plain and Consensus record what was     *)
(* detected, and they end the redaction.                                   *)
BestInvariant ==
  /\ pc \in {"new", "policy"} => detected = {} /\ regex = {}
  /\ pc = "new" => applied = {} /\ text = [i \in 1..N |-> i]
  /\ BestAreKept

LEMMA PlainKeepsBest ==
  ASSUME BestInvariant, Plain PROVE BestInvariant'
<1>1. PICK raw \in Detections(Candidates(N)) :
        /\ applied' = dedupe_overlaps(validate_offsets(N, raw)) /\ detected' = raw
  BY DEF Plain, Substitute
<1>2. regex' = {} /\ pc' = "done"
  BY DEF Plain, BestInvariant
<1> DEFINE S == validate_offsets(N, raw)
<1>3. S \in SUBSET AllSpans /\ IsFiniteSet(S)
  <2>1. Confidences \in SUBSET Nat /\ N \in Nat
    BY TextAssumption DEF Confidences
  <2>2. raw \subseteq AllSpans /\ IsFiniteSet(raw)
    BY <2>1, DetectionsAreFinite, CandidatesAreSpans
  <2>3. S \subseteq raw
    BY DEF validate_offsets
  <2>4. QED BY <2>2, <2>3, FS_Subset
<1>4. ASSUME NEW s \in raw, IsSpan(N, s),
             \A d \in raw \ {s} :
               overlaps(s, d) /\ (clean' => IsSpan(N, d)) => d.confidence < s.confidence
      PROVE  s \in applied'
  <2>1. s \in S /\ \A d \in S \ {s} : overlaps(s, d) => d.confidence < s.confidence
    BY <1>4 DEF validate_offsets
  <2>2. QED BY <1>1, <1>3, <2>1, DedupeKeepsMaxima
<1>5. MaximaKept'
  BY <1>1, <1>4 DEF MaximaKept
<1>6. SafetyNet'
  <2>1. dedupe_overlaps(regex') = {}
    BY <1>2, EmptyStays
  <2>2. QED BY <2>1 DEF SafetyNet, Positions
<1>7. QED BY <1>2, <1>5, <1>6 DEF BestInvariant, BestAreKept

LEMMA ConsensusKeepsBest ==
  ASSUME BestInvariant, Consensus PROVE BestInvariant'
<1>1. PICK R \in RegexHits, M \in Detections(Candidates(N)), open \in BOOLEAN :
        LET X == IF open THEN {} ELSE M IN
        /\ \/ pc' = "error" /\ applied' = applied
           \/ pc' = "done" /\ applied' = fuse(R, X)
        /\ detected' = R \cup X /\ regex' = R
        /\ clean' = (clean /\ (open \/ M \subseteq SpansIn(N, Confidences)))
  BY DEF Consensus, Substitute
<1> DEFINE X == IF open THEN {} ELSE M
           U == R \cup Trusted(R, X)
<1>2. applied = {}
  BY DEF Consensus, BestInvariant
<1>3. Confidences \in SUBSET Nat /\ N \in Nat /\ MaxConfidence \in Nat
      /\ {MaxConfidence} \in SUBSET Nat
  BY TextAssumption DEF Confidences
<1>4. Len(text) = N
  <2>1. text = [i \in 1..N |-> i]
    BY DEF Consensus, BestInvariant
  <2>2. QED BY <1>3, <2>1
<1>5. R \subseteq SpansIn(N, {MaxConfidence}) /\ IsFiniteSet(R)
  BY <1>4, DetectionsAreFinite DEF RegexHits
<1>6. X \subseteq Candidates(N) /\ IsFiniteSet(X)
  <2>1. M \subseteq Candidates(N) /\ IsFiniteSet(M)
    BY DetectionsAreFinite
  <2>2. QED BY <2>1, FS_EmptySet
<1>7. R \in SUBSET AllSpans /\ X \in SUBSET AllSpans
  BY <1>3, <1>5, <1>6, CandidatesAreSpans
<1>8. /\ \A r \in R : r.confidence = MaxConfidence /\ IsSpan(N, r)
      /\ \A s \in X : s.confidence \in Nat /\ s.confidence <= MaxConfidence
      /\ clean' => \A s \in X : IsSpan(N, s)
  <2>1. \A r \in R : r.confidence \in {MaxConfidence} /\ IsSpan(N, r)
    BY <1>3, <1>5, CandidatesAreSpans DEF SpansIn
  <2>2. \A s \in X : s.confidence \in Confidences
    BY <1>3, <1>6, CandidatesAreSpans
  <2>3. clean' => X \subseteq SpansIn(N, Confidences)
    BY <1>1
  <2>4. clean' => \A s \in X : IsSpan(N, s)
    BY <2>3 DEF SpansIn
  <2>5. QED BY <1>3, <2>1, <2>2, <2>4 DEF Confidences
<1> HIDE DEF X
<1>9. Trusted(R, X) \subseteq X
  BY DEF Trusted
<1>10. U \in SUBSET AllSpans /\ IsFiniteSet(U) /\ Trusted(R, X) \in SUBSET AllSpans
  <2>1. IsFiniteSet(Trusted(R, X))
    BY <1>6, <1>9, FS_Subset
  <2>2. IsFiniteSet(U)
    BY <1>5, <2>1, FS_Union
  <2>3. QED BY <1>7, <1>9, <2>2
<1>11. ASSUME NEW s \in R \cup X, s.confidence >= MinConfidence,
              \A d \in (R \cup X) \ {s} :
                overlaps(s, d) /\ (clean' => IsSpan(N, d)) => d.confidence < s.confidence
       PROVE  s \in dedupe_overlaps(U)
  <2>1. s \in U
    <3> SUFFICES ASSUME s \in X, s \notin R PROVE s \in Trusted(R, X)
      OBVIOUS
    <3>1. ASSUME NEW r \in R, overlaps(s, r) PROVE FALSE
      <4>1. r \in (R \cup X) \ {s} /\ IsSpan(N, r) /\ r.confidence = MaxConfidence
        BY <1>8
      <4>2. MaxConfidence < s.confidence
        BY <1>11, <3>1, <4>1
      <4>3. QED BY <1>3, <1>8, <4>2
    <3>2. QED BY <1>11, <3>1 DEF Trusted
  <2>2. \A d \in U \ {s} : overlaps(s, d) => d.confidence < s.confidence
    BY <1>8, <1>9, <1>11
  <2> HIDE DEF U
  <2>3. QED BY <1>10, <2>1, <2>2, DedupeKeepsMaxima
<1>12. MaximaKept'
  BY <1>1, <1>11 DEF MaximaKept, fuse, X
<1>13. dedupe_overlaps(R) \subseteq dedupe_overlaps(U)
  <2>1. \A r, d \in R : r.confidence = d.confidence
    BY <1>8
  <2>2. \A r \in R, d \in Trusted(R, X) : ~overlaps(r, d)
    BY DEF Trusted, overlaps
  <2>3. QED BY <1>5, <1>7, <1>10, <2>1, <2>2, OthersDoNotMatter
<1>14. SafetyNet'
  <2>1. applied' # {} => applied' = dedupe_overlaps(U) /\ regex' = R
    BY <1>1, <1>2 DEF fuse, X
  <2>2. QED BY <1>13, <2>1 DEF SafetyNet, Positions
<1>15. pc' \in {"done", "error"}
  BY <1>1
<1>16. QED BY <1>12, <1>14, <1>15 DEF BestInvariant, BestAreKept

(* Of the spans that were detected, those more confident than all they     *)
(* overlap are substituted, and all that the regex gate alone would have   *)
(* substituted is, whatever the model adds, spans of the text or not       *)
(* (dedupe_overlaps, validate_offsets, fuse): for every text, number of    *)
(* spans and confidence.  A detection that is no span of the text is no    *)
(* rival where offsets are validated, and one like any other where not.    *)
THEOREM BestStayKept == Spec => []BestAreKept
<1>1. Init => BestInvariant
  <2>1. ASSUME Init PROVE BestInvariant
    <3>1. pc = "new" /\ detected = {} /\ regex = {} /\ applied = {} /\ text = [i \in 1..N |-> i]
      BY <2>1 DEF Init
    <3>2. QED BY <3>1 DEF BestInvariant, BestAreKept, MaximaKept, SafetyNet
  <2>2. QED BY <2>1
<1>2. BestInvariant /\ [Next]_vars => BestInvariant'
  <2> SUFFICES ASSUME BestInvariant, [Next]_vars PROVE BestInvariant'
    OBVIOUS
  <2>1. CASE Plain
    BY <2>1, PlainKeepsBest
  <2>2. CASE Consensus
    BY <2>2, ConsensusKeepsBest
  <2>3. CASE Regex \/ Deid \/ Untouched
    <3>1. pc' = "policy" /\ detected' = {} /\ regex' = {}
      BY <2>3 DEF BestInvariant, Regex, Deid, Untouched, Field
    <3>2. Positions(dedupe_overlaps(regex')) = {}
      BY <3>1, EmptyStays DEF Positions
    <3>3. QED BY <3>1, <3>2 DEF BestInvariant, BestAreKept, MaximaKept, SafetyNet
  <2>4. CASE Fail \/ Return
    <3>1. /\ pc' \in {"error", "done"} /\ pc \in {"new", "policy"}
          /\ detected' = detected /\ regex' = regex /\ applied' = applied
      BY <2>4 DEF Fail, Return, history
    <3>2. QED BY <3>1 DEF BestInvariant, BestAreKept, MaximaKept, SafetyNet
  <2>5. CASE UNCHANGED vars
    BY <2>5 DEF vars, result, history, BestInvariant, BestAreKept, MaximaKept, SafetyNet
  <2>6. QED BY <2>1, <2>2, <2>3, <2>4, <2>5 DEF Next
<1>3. BestInvariant => BestAreKept
  BY DEF BestInvariant
<1>4. QED BY <1>1, <1>2, <1>3, PTL DEF Spec

-----------------------------------------------------------------------------
(* apply_spans.                                                            *)

(* Spans of a text of n characters that do not overlap. *)
IsLayout(n, S) ==
  /\ S \in SUBSET AllSpans /\ IsFiniteSet(S)
  /\ \A s \in S : IsSpan(n, s)
  /\ Disjoint(S)

(* From right to left each ends where the one before begins, or sooner. *)
LEMMA RightToLeftSorts ==
  ASSUME NEW m \in Nat, NEW S, IsLayout(m, S)
  PROVE  LET q == Sorted(S, RightToLeft)
         IN  /\ IsListOf(q, S)
             /\ \A i, j \in 1..Cardinality(S) : i < j => q[j].end <= q[i].start
<1> DEFINE n == Cardinality(S)
           q == Sorted(S, RightToLeft)
           L == {l \in S \X S : RightToLeft(l[1], l[2])}
<1>1. n \in Nat
  BY FS_CardinalityType DEF IsLayout
<1>2. \A a, b \in S : <<a, b>> \in L <=> RightToLeft(a, b)
  OBVIOUS
<1> HIDE DEF L
<1>3. \A a, b, c \in S :
        /\ ~RightToLeft(a, a)
        /\ RightToLeft(a, b) /\ RightToLeft(b, c) => RightToLeft(a, c)
        /\ a = b \/ RightToLeft(a, b) \/ RightToLeft(b, a)
        /\ RightToLeft(a, b) => b.end <= a.start
  BY DEF IsLayout, AllSpans, RightToLeft, Earlier, Disjoint, overlaps, IsSpan
<1>4. /\ \A a \in S : <<a, a>> \notin L
      /\ \A a, b, c \in S : <<a, b>> \in L /\ <<b, c>> \in L => <<a, c>> \in L
      /\ \A a, b \in S : a = b \/ <<a, b>> \in L \/ <<b, a>> \in L
  BY <1>2, <1>3
<1>5. \E r \in [1..n -> S] : \A i, j \in 1..n : i < j => <<r[i], r[j]>> \in L
  BY <1>4, Lists DEF IsLayout
<1>6. \E r \in [1..n -> S] : \A i, j \in 1..n : i < j => RightToLeft(r[i], r[j])
  BY <1>2, <1>5
<1>7. q = CHOOSE r \in [1..n -> S] : \A i, j \in 1..n : i < j => RightToLeft(r[i], r[j])
  BY DEF Sorted
<1> HIDE DEF q
<1>8. q \in [1..n -> S] /\ \A i, j \in 1..n : i < j => RightToLeft(q[i], q[j])
  BY <1>6, <1>7
<1>9. \A i, j \in 1..n : i < j => q[i] # q[j] /\ q[j].end <= q[i].start
  BY <1>3, <1>8
<1>10. \A a \in S : \E i \in 1..n : q[i] = a
  <2>1. \A i, j \in 1..n : i < j => q[i] # q[j]
    BY <1>9
  <2>2. IsFiniteSet(S)
    BY DEF IsLayout
  <2>3. QED BY <1>8, <2>1, <2>2, ListsOnce
<1>11. QED BY <1>1, <1>8, <1>9, <1>10 DEF IsListOf, q

(* The text after a replacement. *)
LEMMA ReplaceIs ==
  ASSUME NEW V, 0 \in V, NEW t \in Seq(V), NEW s \in AllSpans, NEW n \in Nat
  PROVE  /\ Replace(t, s, n) \in Seq(V)
         /\ s.start <= s.end /\ s.end <= Len(t) =>
              /\ Len(Replace(t, s, n)) = s.start + n + (Len(t) - s.end)
              /\ \A p \in 1..Len(Replace(t, s, n)) :
                   Replace(t, s, n)[p] = IF p <= s.start THEN t[p]
                                         ELSE IF p <= s.start + n THEN 0
                                         ELSE t[(p - s.start - n) + s.end]
<1> DEFINE a == s.start
           e == s.end
           A == Slice(t, 0, a)
           F == Filler(n)
           E == Slice(t, e, Len(t))
<1>1. a \in Nat /\ e \in Nat /\ Len(t) \in Nat
  BY DEF AllSpans
<1> HIDE DEF a, e
<1>2. A \in Seq(V) /\ (a <= Len(t) => Len(A) = a /\ \A p \in 1..a : A[p] = t[p])
  BY <1>1 DEF Slice
<1>3. F \in Seq(V) /\ Len(F) = n /\ \A p \in 1..n : F[p] = 0
  BY DEF Filler
<1>4. E \in Seq(V) /\ (e <= Len(t) => Len(E) = Len(t) - e /\ \A p \in 1..(Len(t) - e) : E[p] = t[p + e])
  BY <1>1 DEF Slice
<1>5. Replace(t, s, n) = (A \o F) \o E
  BY DEF Replace, a, e
<1> HIDE DEF A, F, E
<1>6. A \o F \in Seq(V) /\ Len(A \o F) = Len(A) + n
  BY <1>2, <1>3
<1>7. (A \o F) \o E \in Seq(V) /\ Len((A \o F) \o E) = Len(A) + n + Len(E)
  <2> DEFINE G == A \o F
  <2> HIDE DEF G
  <2>1. G \in Seq(V) /\ Len(G) = Len(A) + n
    BY <1>6 DEF G
  <2>2. G \o E \in Seq(V) /\ Len(G \o E) = Len(G) + Len(E)
    BY <1>4, <2>1
  <2>3. QED BY <2>1, <2>2 DEF G
<1>8. ASSUME a <= e, e <= Len(t),
             NEW p \in 1..(a + n + (Len(t) - e))
      PROVE  ((A \o F) \o E)[p] = IF p <= a THEN t[p]
                                  ELSE IF p <= a + n THEN 0 ELSE t[(p - a - n) + e]
  <2>1. Len(A) = a /\ Len(E) = Len(t) - e /\ a <= Len(t)
    BY <1>1, <1>2, <1>4, <1>8
  <2>2. ((A \o F) \o E)[p] = IF p <= a + n THEN (A \o F)[p] ELSE E[p - (a + n)]
    <3> DEFINE G == A \o F
    <3>1. G \in Seq(V) /\ Len(G) = a + n
      BY <1>6, <2>1
    <3> HIDE DEF G
    <3>2. p \in 1..(Len(G) + Len(E))
      BY <1>8, <2>1, <3>1
    <3>3. (G \o E)[p] = IF p <= Len(G) THEN G[p] ELSE E[p - Len(G)]
      BY <1>4, <3>1, <3>2
    <3>4. QED BY <3>1, <3>3 DEF G
  <2>3. p <= a + n => (A \o F)[p] = IF p <= a THEN A[p] ELSE F[p - a]
    BY <1>1, <1>2, <1>3, <2>1
  <2>4. p <= a => A[p] = t[p]
    BY <1>1, <1>2, <2>1
  <2>5. p > a /\ p <= a + n => F[p - a] = 0
    BY <1>1, <1>3
  <2>6. p > a + n => p - (a + n) \in 1..(Len(t) - e)
    BY <1>1
  <2>7. p > a + n => E[p - (a + n)] = t[(p - (a + n)) + e]
    BY <1>4, <1>8, <2>6
  <2>8. p \in Nat /\ p - (a + n) = p - a - n
    <3>1. p \in Nat
      BY <1>1
    <3>2. QED BY <1>1, <3>1
  <2> DEFINE u == ((A \o F) \o E)[p]
             w == (A \o F)[p]
  <2> HIDE DEF u, w
  <2>9. CASE p <= a
    <3>1. p <= a + n
      BY <1>1, <2>8, <2>9
    <3>2. u = w /\ w = t[p]
      BY <2>2, <2>3, <2>4, <2>9, <3>1 DEF u, w
    <3>3. QED BY <2>9, <3>2 DEF u
  <2>10. CASE p > a /\ p <= a + n
    <3>1. ~(p <= a)
      BY <1>1, <2>8, <2>10
    <3>2. u = w
      BY <2>2, <2>10 DEF u, w
    <3>3. w = F[p - a]
      BY <2>3, <2>10, <3>1 DEF w
    <3>4. F[p - a] = 0
      BY <2>5, <2>10
    <3>5. QED BY <2>10, <3>1, <3>2, <3>3, <3>4 DEF u
  <2>11. CASE p > a + n
    <3>1. ~(p <= a + n) /\ ~(p <= a)
      BY <1>1, <2>8, <2>11
    <3>2. u = t[(p - a - n) + e]
      BY <2>2, <2>7, <2>8, <2>11, <3>1 DEF u
    <3>3. QED BY <3>1, <3>2 DEF u
  <2>12. p <= a \/ (p > a /\ p <= a + n) \/ p > a + n
    BY <1>1, <2>8
  <2>13. QED BY <2>9, <2>10, <2>11, <2>12
<1>9. ASSUME a <= e, e <= Len(t) PROVE Len(A) = a /\ Len(E) = Len(t) - e
  <2>1. a <= Len(t)
    BY <1>1, <1>9
  <2>2. QED BY <1>2, <1>4, <1>9, <2>1
<1> DEFINE u == (A \o F) \o E
<1>10. /\ u \in Seq(V)
       /\ a <= e /\ e <= Len(t) =>
            /\ Len(u) = a + n + (Len(t) - e)
            /\ \A p \in 1..(a + n + (Len(t) - e)) :
                 u[p] = IF p <= a THEN t[p] ELSE IF p <= a + n THEN 0 ELSE t[(p - a - n) + e]
  BY <1>7, <1>8, <1>9
<1>11. Replace(t, s, n) = u
  BY <1>5
<1> HIDE DEF u
<1>12. QED BY <1>10, <1>11 DEF a, e

(* The characters of the original in a text are in their order. *)
Rising(t) == \A p, q \in 1..Len(t) : p < q /\ t[p] # 0 /\ t[q] # 0 => t[p] < t[q]
Shows(t, v) == \E p \in 1..Len(t) : t[p] = v
(* The character at place p, counted from 1, is not of span s. *)
Outside(p, s) == p <= s.start \/ s.end < p

(* A replacement takes the characters of its span, and no others. *)
LEMMA ReplaceTakes ==
  ASSUME NEW t \in Seq(0..N), Rising(t), NEW s \in AllSpans, NEW n \in Nat,
         s.start <= s.end, s.end <= Len(t)
  PROVE  /\ Rising(Replace(t, s, n))
         /\ \A v \in 1..N : Shows(Replace(t, s, n), v) <=>
              \E p \in 1..Len(t) : t[p] = v /\ Outside(p, s)
<1> DEFINE a == s.start
           e == s.end
           l == Len(t)
           u == Replace(t, s, n)
           From(p) == IF p <= a THEN p ELSE (p - a - n) + e
<1>1. a \in Nat /\ e \in Nat /\ l \in Nat /\ a <= e /\ e <= l
  BY DEF AllSpans
<1>2. 0 \in 0..N
  BY TextAssumption
<1>3. /\ Len(u) = a + n + (l - e)
      /\ \A p \in 1..Len(u) : u[p] = IF p <= a THEN t[p]
                                     ELSE IF p <= a + n THEN 0 ELSE t[(p - a - n) + e]
  BY <1>2, ReplaceIs
<1> HIDE DEF a, e, l, u
<1>4. ASSUME NEW p \in 1..Len(u), u[p] # 0
      PROVE  From(p) \in 1..l /\ u[p] = t[From(p)] /\ (From(p) <= a \/ From(p) > e)
             /\ (p <= a \/ p > a + n)
  <2>1. p <= a \/ p > a + n
    BY <1>1, <1>3, <1>4
  <2>2. CASE p <= a
    BY <1>1, <1>3, <2>2
  <2>3. CASE p > a + n
    <3>1. ~(p <= a) /\ ~(p <= a + n) /\ From(p) \in 1..l /\ From(p) > e
      BY <1>1, <1>3, <2>3
    <3>2. u[p] = t[From(p)]
      BY <1>3, <3>1
    <3>3. QED BY <2>3, <3>1, <3>2
  <2>4. QED BY <2>1, <2>2, <2>3
<1>5. Rising(u)
  <2> SUFFICES ASSUME NEW p \in 1..Len(u), NEW q \in 1..Len(u), p < q, u[p] # 0, u[q] # 0
               PROVE  u[p] < u[q]
    BY DEF Rising
  <2>1. /\ From(p) \in 1..l /\ u[p] = t[From(p)] /\ From(q) \in 1..l /\ u[q] = t[From(q)]
        /\ (p <= a \/ p > a + n) /\ (q <= a \/ q > a + n)
    BY <1>4
  <2>2. From(p) < From(q)
    BY <1>1, <1>3, <2>1
  <2> HIDE DEF From
  <2>3. QED BY <2>1, <2>2 DEF Rising, l
<1>6. ASSUME NEW v \in 1..N, Shows(u, v)
      PROVE  \E p \in 1..l : t[p] = v /\ Outside(p, s)
  <2>1. PICK p \in 1..Len(u) : u[p] = v
    BY <1>6 DEF Shows
  <2>2. v # 0
    OBVIOUS
  <2>3. From(p) \in 1..l /\ t[From(p)] = v /\ (From(p) <= a \/ From(p) > e)
    BY <1>4, <2>1, <2>2
  <2> HIDE DEF From
  <2>4. Outside(From(p), s)
    BY <1>1, <2>3 DEF Outside, a, e
  <2>5. QED BY <2>3, <2>4
<1>7. ASSUME NEW v \in 1..N, NEW p \in 1..l, t[p] = v, Outside(p, s)
      PROVE  Shows(u, v)
  <2>1. p <= a \/ e < p
    BY <1>7 DEF Outside, a, e
  <2>2. CASE p <= a
    <3>1. p \in 1..Len(u) /\ u[p] = t[p]
      BY <1>1, <1>3, <2>2
    <3>2. QED BY <1>7, <3>1 DEF Shows
  <2>3. CASE e < p
    <3> DEFINE r == (p - e) + a + n
    <3>1. r \in 1..Len(u) /\ ~(r <= a) /\ ~(r <= a + n) /\ (r - a - n) + e = p
      BY <1>1, <1>3, <2>3
    <3>2. u[r] = t[(r - a - n) + e]
      <4> HIDE DEF r
      <4>1. QED BY <1>3, <3>1
    <3>3. u[r] = v
      BY <1>7, <3>1, <3>2
    <3> HIDE DEF r
    <3>4. QED BY <3>1, <3>3 DEF Shows
  <2>4. QED BY <2>1, <2>2, <2>3
<1>8. QED BY <1>5, <1>6, <1>7 DEF u, l

(* The turns of apply_spans. *)
ApplyTurns(t, S, length, q, g) ==
  /\ IsListOf(q, S)
  /\ \A i, j \in 1..Cardinality(S) : i < j => q[j].end <= q[i].start
  /\ g \in [0..Cardinality(S) -> Seq(0..N)]
  /\ g[0] = t /\ g[Cardinality(S)] = apply_spans(t, S, length)
  /\ \A k \in 1..Cardinality(S) : g[k] = Replace(g[k - 1], q[k], length[q[k]])

LEMMA ApplyHasTurns ==
  ASSUME NEW t \in Seq(0..N), NEW S, IsLayout(Len(t), S), NEW length \in [S -> Nat]
  PROVE  \E q, g : ApplyTurns(t, S, length, q, g)
<1> DEFINE n == Cardinality(S)
           q == Sorted(S, RightToLeft)
           V == Seq(0..N)
           Turn(v, s) == Replace(v, s, length[s])
           F == [i \in 1..n |-> [v \in V |-> Turn(v, q[i])]]
           Folds(h) == h = [s \in SUBSET (DOMAIN q) |->
                              IF s = {} THEN t ELSE Turn(h[s \ {Max(s)}], q[Max(s)])]
           it == CHOOSE h : Folds(h)
<1>1. /\ n \in Nat /\ q \in [1..n -> S] /\ IsListOf(q, S)
      /\ \A i, j \in 1..n : i < j => q[j].end <= q[i].start
  <2>1. Len(t) \in Nat
    OBVIOUS
  <2>2. QED BY <2>1, RightToLeftSorts DEF IsListOf
<1>2. apply_spans(t, S, length) = it[DOMAIN q]
  BY DEF apply_spans, FoldLeft, MapThenFoldSet
<1> HIDE DEF q
<1>3. \A v \in V, a \in S : Turn(v, a) \in V
  <2>1. S \subseteq AllSpans /\ 0 \in 0..N
    BY TextAssumption DEF IsLayout
  <2>2. QED BY <2>1, ReplaceIs
<1> HIDE DEF Turn, V
<1>4. F \in [1..n -> [V -> V]] /\ \A i \in 1..n, v \in V : F[i][v] = Turn(v, q[i])
  BY <1>1, <1>3
<1>5. DOMAIN q = 1..n /\ t \in V
  BY <1>1 DEF V
<1> HIDE DEF F
<1>6. \A s \in SUBSET (1..n) : s # {} => Max(s) \in 1..n /\ s \ {Max(s)} \in SUBSET (1..n)
  <2> SUFFICES ASSUME NEW s \in SUBSET (1..n), s # {} PROVE Max(s) \in s
    OBVIOUS
  <2>1. s \subseteq 0..n
    BY <1>1
  <2>2. QED BY <1>1, <2>1, MaxIs
<1>7. PICK h : IsFold(h, n, V, t, F)
  BY <1>1, <1>4, <1>5, FoldExists
<1>8. Folds(h)
  <2>1. \A s \in SUBSET (1..n) : h[s] = IF s = {} THEN t ELSE Turn(h[s \ {Max(s)}], q[Max(s)])
    BY <1>4, <1>6, <1>7 DEF IsFold
  <2>2. QED BY <1>5, <1>7, <2>1 DEF IsFold
<1>9. Folds(it)
  <2> HIDE DEF Folds
  <2>1. QED BY <1>8
<1> HIDE DEF it
<1>10. it[{}] = t /\ \A k \in 1..n : it[1..k] = Turn(it[1..(k - 1)], q[k])
  <2>1. \A s \in SUBSET (1..n) : it[s] = IF s = {} THEN t ELSE Turn(it[s \ {Max(s)}], q[Max(s)])
    BY <1>5, <1>9
  <2>2. ASSUME NEW k \in 1..n PROVE it[1..k] = Turn(it[1..(k - 1)], q[k])
    <3>1. k \in Nat \ {0} /\ 1..k \in SUBSET (1..n)
      BY <1>1
    <3>2. Max(1..k) = k /\ (1..k) \ {k} = 1..(k - 1) /\ 1..k # {}
      BY <3>1, IntervalMax
    <3> DEFINE s == 1..k
               r == 1..(k - 1)
    <3>3. s \in SUBSET (1..n) /\ Max(s) = k /\ s \ {k} = r /\ s # {}
      BY <3>1, <3>2
    <3> HIDE DEF s, r
    <3>4. it[s] = Turn(it[r], q[k])
      BY <2>1, <3>3
    <3>5. QED BY <3>4 DEF s, r
  <2>3. QED BY <2>1, <2>2
<1> DEFINE g == [k \in 0..n |-> it[1..k]]
<1>11. /\ g[0] = t /\ g[n] = apply_spans(t, S, length)
       /\ \A k \in 1..n : g[k] = Turn(g[k - 1], q[k])
  <2>1. 1..0 = {} /\ 0 \in 0..n /\ n \in 0..n /\ \A k \in 1..n : k \in 0..n /\ k - 1 \in 0..n
    BY <1>1
  <2>2. \A k \in 0..n : g[k] = it[1..k]
    BY Zenon
  <2> HIDE DEF g
  <2>3. QED BY <2>1, <2>2, <1>2, <1>5, <1>10
<1>12. \A k \in 0..n : g[k] \in V
  <2> HIDE DEF g
  <2> DEFINE T == {k \in 0..n : g[k] \in V}
  <2>1. 0 \in T
    BY <1>1, <1>5, <1>11
  <2>2. \A k \in 1..n : k - 1 \in T => k \in T
    BY <1>1, <1>3, <1>11
  <2> HIDE DEF T
  <2>3. \A k \in 0..n : k \in T
    BY <1>1, <2>1, <2>2, Reaches
  <2>4. QED BY <2>3 DEF T
<1>13. g \in [0..n -> V]
  BY <1>12
<1> HIDE DEF g
<1>14. ApplyTurns(t, S, length, q, g)
  BY <1>1, <1>11, <1>13 DEF ApplyTurns, Turn, V
<1>15. QED BY <1>14

(* u is t after the first i turns: what lies before the last span is still *)
(* in its place, and what was taken is what those spans cover.             *)
AfterTurns(t, q, i, u) ==
  /\ u \in Seq(0..N) /\ Rising(u)
  /\ \A b \in Nat : (IF i = 0 THEN b = Len(t) ELSE b = q[i].start) =>
       b <= Len(u) /\ b <= Len(t) /\ \A p \in 1..b : u[p] = t[p]
  /\ \A v \in 1..N : Shows(u, v) <=>
       \E p \in 1..Len(t) : t[p] = v /\ \A j \in 1..i : Outside(p, q[j])

LEMMA TurnTakes ==
  ASSUME NEW t \in Seq(0..N), Rising(t), NEW S, IsLayout(Len(t), S),
         NEW length \in [S -> Nat], NEW q, NEW g, ApplyTurns(t, S, length, q, g),
         NEW i \in 1..Cardinality(S), AfterTurns(t, q, i - 1, g[i - 1])
  PROVE  AfterTurns(t, q, i, g[i])
<1> DEFINE n == Cardinality(S)
           w == g[i - 1]
           u == g[i]
           s == q[i]
           a == s.start
           e == s.end
           b == IF i = 1 THEN Len(t) ELSE q[i - 1].start
<1>1. /\ n \in Nat /\ q \in [1..n -> S] /\ i \in Nat /\ i - 1 \in Nat
      /\ \A j, k \in 1..n : j < k => q[k].end <= q[j].start
  BY DEF ApplyTurns, IsListOf
<1>2. S \subseteq AllSpans /\ Len(t) \in Nat /\ \A c \in S : c.start < c.end /\ c.end <= Len(t)
  BY DEF IsLayout, IsSpan
<1>3. s \in S /\ s \in AllSpans /\ a \in Nat /\ e \in Nat /\ a < e /\ e <= Len(t)
  <2>1. s \in S
    BY <1>1
  <2>2. s \in AllSpans /\ a < e /\ e <= Len(t)
    BY <1>2, <2>1
  <2>3. a \in Nat /\ e \in Nat
    BY <2>2 DEF AllSpans
  <2>4. QED BY <2>1, <2>2, <2>3
<1>4. b \in Nat /\ e <= b
  <2>1. CASE i = 1
    BY <1>2, <1>3, <2>1
  <2>2. CASE i # 1
    <3>1. i - 1 \in 1..n /\ i - 1 < i
      BY <1>1, <2>2
    <3>2. q[i - 1] \in AllSpans /\ e <= q[i - 1].start
      BY <1>1, <1>2, <3>1
    <3>3. QED BY <2>2, <3>2 DEF AllSpans
  <2>3. QED BY <2>1, <2>2
<1>5. /\ w \in Seq(0..N) /\ Rising(w) /\ Len(w) \in Nat
      /\ b <= Len(w) /\ b <= Len(t) /\ \A p \in 1..b : w[p] = t[p]
  <2>1. IF i - 1 = 0 THEN b = Len(t) ELSE b = q[i - 1].start
    BY <1>1
  <2> HIDE DEF b
  <2>2. w \in Seq(0..N) /\ Len(w) \in Nat
    BY DEF AfterTurns
  <2>3. QED BY <1>4, <2>1, <2>2 DEF AfterTurns
<1>6. \A v \in 1..N : Shows(w, v) <=>
        \E p \in 1..Len(t) : t[p] = v /\ \A j \in 1..(i - 1) : Outside(p, q[j])
  BY DEF AfterTurns
<1>7. u = Replace(w, s, length[s]) /\ length[s] \in Nat
  BY <1>3 DEF ApplyTurns
<1> HIDE DEF b, w, u, s, a, e
<1>8. a <= e /\ e <= Len(w) /\ a <= Len(w) /\ a <= Len(t)
  BY <1>2, <1>3, <1>4, <1>5
<1>9. /\ Rising(u)
      /\ \A v \in 1..N : Shows(u, v) <=> \E p \in 1..Len(w) : w[p] = v /\ Outside(p, s)
  BY <1>3, <1>5, <1>7, <1>8, ReplaceTakes DEF a, e
<1>10. u \in Seq(0..N) /\ a <= Len(u) /\ \A p \in 1..a : u[p] = t[p]
  <2>1. 0 \in 0..N
    BY TextAssumption
  <2> DEFINE m == length[s]
  <2>2. m \in Nat /\ u = Replace(w, s, m)
    BY <1>7
  <2> HIDE DEF m
  <2>3. /\ u \in Seq(0..N)
        /\ Len(u) = a + m + (Len(w) - e)
        /\ \A p \in 1..Len(u) : u[p] = IF p <= a THEN w[p]
                                       ELSE IF p <= a + m THEN 0 ELSE w[(p - a - m) + e]
    <3> DEFINE r == Replace(w, s, m)
               V == 0..N
    <3>1. w \in Seq(V) /\ 0 \in V /\ s \in AllSpans
      BY <1>3, <1>5, <2>1 DEF a, e
    <3>2. s.start <= s.end /\ s.end <= Len(w) /\ m \in Nat
      BY <1>3, <1>5, <1>8, <2>2 DEF a, e
    <3> HIDE DEF V
    <3>3. /\ r \in Seq(V)
          /\ Len(r) = s.start + m + (Len(w) - s.end)
          /\ \A p \in 1..Len(r) : r[p] = IF p <= s.start THEN w[p]
                                         ELSE IF p <= s.start + m THEN 0
                                         ELSE w[(p - s.start - m) + s.end]
      BY <3>1, <3>2, ReplaceIs
    <3>4. u = r
      BY <2>2
    <3> HIDE DEF r
    <3>5. QED BY <3>3, <3>4 DEF a, e, V
  <2>4. a <= Len(u)
    BY <1>3, <1>5, <1>8, <2>2, <2>3
  <2>5. Len(u) \in Nat
    BY <2>3
  <2>6. ASSUME NEW p \in 1..a PROVE u[p] = t[p]
    <3>1. p \in 1..Len(u) /\ p <= a /\ p \in 1..b
      BY <1>3, <1>4, <2>4, <2>5
    <3>2. u[p] = w[p]
      BY <2>3, <3>1
    <3>3. QED BY <1>5, <3>1, <3>2
  <2>7. QED BY <2>3, <2>4, <2>6
<1>11. \A p : (\A j \in 1..i : Outside(p, q[j])) <=>
              (\A j \in 1..(i - 1) : Outside(p, q[j])) /\ Outside(p, s)
  <2>1. \A j \in 1..i : j \in 1..(i - 1) \/ j = i
    BY <1>1
  <2>2. \A j \in 1..(i - 1) : j \in 1..i
    BY <1>1
  <2>3. QED BY <1>1, <2>1, <2>2 DEF s
<1>12. ASSUME NEW v \in 1..N, Shows(u, v)
       PROVE  \E p \in 1..Len(t) : t[p] = v /\ \A j \in 1..i : Outside(p, q[j])
  <2>1. PICK p \in 1..Len(w) : w[p] = v /\ Outside(p, s)
    BY <1>9, <1>12
  <2>2. p <= a \/ e < p
    BY <2>1 DEF Outside, a, e
  <2>3. CASE p <= a
    <3>1. p \in 1..b /\ p \in 1..Len(t) /\ p \in Nat
      BY <1>2, <1>3, <1>4, <1>5, <1>8, <2>3
    <3>2. t[p] = v
      BY <1>5, <2>1, <3>1
    <3>3. ASSUME NEW j \in 1..(i - 1) PROVE Outside(p, q[j])
      <4>1. j \in 1..n /\ i \in 1..n /\ j < i
        BY <1>1
      <4>2. e <= q[j].start /\ q[j] \in AllSpans
        BY <1>1, <1>2, <4>1 DEF s, e
      <4>3. q[j].start \in Nat
        BY <4>2 DEF AllSpans
      <4>4. p <= q[j].start
        BY <1>3, <2>3, <3>1, <4>2, <4>3
      <4>5. QED BY <4>4 DEF Outside
    <3>4. QED BY <1>11, <2>1, <3>1, <3>2, <3>3
  <2>4. CASE e < p
    <3>1. PICK r \in 1..Len(t) : t[r] = v /\ \A j \in 1..(i - 1) : Outside(r, q[j])
      BY <1>6, <2>1 DEF Shows
    <3>2. ASSUME ~Outside(r, s) PROVE FALSE
      <4>1. a < r /\ r <= e /\ r \in Nat /\ p \in Nat
        BY <1>2, <1>3, <1>5, <3>2 DEF Outside, a, e
      <4>2. r \in 1..b /\ r \in 1..Len(w) /\ r < p
        BY <1>3, <1>4, <1>5, <2>4, <4>1
      <4>3. w[r] = v /\ v # 0
        BY <1>5, <3>1, <4>2
      <4>4. v < v
        BY <1>5, <2>1, <4>2, <4>3 DEF Rising
      <4>5. v \in Nat
        OBVIOUS
      <4>6. QED BY <4>4, <4>5
    <3>3. QED BY <1>11, <3>1, <3>2
  <2>5. QED BY <2>2, <2>3, <2>4
<1>13. ASSUME NEW v \in 1..N, NEW r \in 1..Len(t), t[r] = v, \A j \in 1..i : Outside(r, q[j])
       PROVE  Shows(u, v)
  <2>1. Outside(r, s) /\ \A j \in 1..(i - 1) : Outside(r, q[j])
    BY <1>11, <1>13
  <2>2. PICK p \in 1..Len(w) : w[p] = v
    BY <1>6, <1>13, <2>1 DEF Shows
  <2>3. ASSUME ~Outside(p, s) PROVE FALSE
    <3>1. a < p /\ p <= e /\ r \in Nat /\ p \in Nat
      BY <1>2, <1>3, <1>5, <2>3 DEF Outside, a, e
    <3>2. p \in 1..b /\ p \in 1..Len(t)
      BY <1>2, <1>3, <1>4, <1>5, <3>1
    <3>3. t[p] = v /\ v # 0 /\ v \in Nat
      BY <1>5, <2>2, <3>2
    <3>4. ~(p < r) /\ ~(r < p)
      <4>1. p < r => v < v
        BY <1>13, <3>2, <3>3 DEF Rising
      <4>2. r < p => v < v
        BY <1>13, <3>2, <3>3 DEF Rising
      <4>3. ~(v < v)
        BY <3>3
      <4>4. QED BY <4>1, <4>2, <4>3
    <3>5. p = r
      BY <3>1, <3>4
    <3>6. QED BY <2>1, <2>3, <3>5
  <2>4. QED BY <1>9, <2>2, <2>3
<1>14. \A c \in Nat : (IF i = 0 THEN c = Len(t) ELSE c = q[i].start) => c = a
  <2>1. i # 0
    OBVIOUS
  <2>2. QED BY <2>1 DEF a, s
<1>15. AfterTurns(t, q, i, u)
  BY <1>8, <1>9, <1>10, <1>12, <1>13, <1>14 DEF AfterTurns
<1>16. QED BY <1>15 DEF u

LEMMA EachTurnTakes ==
  ASSUME NEW t \in Seq(0..N), Rising(t), NEW S, IsLayout(Len(t), S),
         NEW length \in [S -> Nat], NEW q, NEW g, ApplyTurns(t, S, length, q, g)
  PROVE  \A i \in 0..Cardinality(S) : AfterTurns(t, q, i, g[i])
<1> DEFINE n == Cardinality(S)
           T == {i \in 0..n : AfterTurns(t, q, i, g[i])}
<1>1. n \in Nat /\ g[0] = t
  BY DEF ApplyTurns, IsListOf
<1>2. 0 \in T
  <2>1. \A v \in 1..N : Shows(t, v) <=>
          \E p \in 1..Len(t) : t[p] = v /\ \A j \in 1..0 : Outside(p, q[j])
    BY DEF Shows
  <2>2. Len(t) \in Nat
    OBVIOUS
  <2>3. AfterTurns(t, q, 0, t)
    BY <2>1, <2>2 DEF AfterTurns
  <2>4. QED BY <1>1, <2>3
<1>3. ASSUME NEW i \in 1..n, i - 1 \in T PROVE i \in T
  BY <1>3, TurnTakes
<1> HIDE DEF T
<1>4. \A i \in 0..n : i \in T
  BY <1>1, <1>2, <1>3, Reaches
<1>5. QED BY <1>4 DEF T

(* apply_spans takes the characters of the spans, and no others. *)
LEMMA ApplyTakes ==
  ASSUME NEW t \in Seq(0..N), Rising(t), NEW S, IsLayout(Len(t), S), NEW length \in [S -> Nat]
  PROVE  /\ apply_spans(t, S, length) \in Seq(0..N)
         /\ Rising(apply_spans(t, S, length))
         /\ \A v \in 1..N : Shows(apply_spans(t, S, length), v) <=>
              \E p \in 1..Len(t) : t[p] = v /\ \A s \in S : Outside(p, s)
<1> DEFINE n == Cardinality(S)
           u == apply_spans(t, S, length)
<1>1. PICK q, g : ApplyTurns(t, S, length, q, g)
  BY ApplyHasTurns
<1>2. /\ n \in Nat /\ q \in [1..n -> S] /\ \A c \in S : \E j \in 1..n : q[j] = c
      /\ g[n] = u
  BY <1>1 DEF ApplyTurns, IsListOf
<1> HIDE DEF u
<1>3. AfterTurns(t, q, n, u)
  BY <1>1, <1>2, EachTurnTakes
<1>4. \A p : (\A j \in 1..n : Outside(p, q[j])) <=> \A s \in S : Outside(p, s)
  BY <1>2
<1>5. QED BY <1>3, <1>4 DEF AfterTurns, u

-----------------------------------------------------------------------------
(* What RedactsExactly rests on, as long as no hits of the regex strategy  *)
(* overlapped and what was not validated were spans of the text.           *)
IsText == text \in Seq(0..N) /\ found \in SUBSET (1..N)
ExactInvariant ==
  /\ pc = "new" => text = [i \in 1..N |-> i]
  /\ clean => IsText /\ Exact

LEMMA SurvivingIs ==
  ASSUME text \in Seq(0..N)
  PROVE  Exact <=> /\ Rising(text)
                   /\ \A v \in 1..N : Shows(text, v) <=> v \notin found
<1>1. DOMAIN text = 1..Len(text) /\ \A p \in 1..Len(text) : text[p] \in 0..N
  <2>1. DOMAIN text = 1..Len(text)
    OBVIOUS
  <2>2. \A p \in 1..Len(text) : text[p] \in 0..N
    BY ElementOfSeq
  <2>3. QED BY <2>1, <2>2
<1>2. \A v : v \in 0..N /\ v # 0 <=> v \in 1..N
  BY TextAssumption
<1>3. Surviving = {p \in 1..Len(text) : text[p] # 0}
  BY <1>1 DEF Surviving
<1>4. (\A p, q \in Surviving : p < q => text[p] < text[q]) <=> Rising(text)
  BY <1>3 DEF Rising
<1>5. \A v : v \in {text[p] : p \in Surviving} <=> v \in 1..N /\ Shows(text, v)
  BY <1>1, <1>2, <1>3 DEF Shows
<1>6. {text[p] : p \in Surviving} = (1..N) \ found <=>
        \A v \in 1..N : Shows(text, v) <=> v \notin found
  <2> DEFINE W == {text[p] : p \in Surviving}
  <2>1. \A v : v \in W <=> v \in 1..N /\ Shows(text, v)
    BY <1>5
  <2> HIDE DEF W
  <2>2. W = (1..N) \ found <=> \A v \in 1..N : Shows(text, v) <=> v \notin found
    BY <2>1
  <2>3. QED BY <2>2 DEF W
<1>7. QED BY <1>4, <1>6 DEF Exact

LEMMA LayoutInText ==
  ASSUME NEW n \in Nat, NEW S, IsLayout(n, S)
  PROVE  Positions(S) \cap 0..(n - 1) = Positions(S)
<1>1. \A s \in S : s.start \in Nat /\ s.end \in Nat /\ s.end <= n
  BY DEF IsLayout, AllSpans, IsSpan
<1>2. \A s \in S : s.start..(s.end - 1) \subseteq 0..(n - 1)
  BY <1>1
<1>3. QED BY <1>2 DEF Positions

(* Substituting spans that do not overlap. *)
LEMMA SubstituteIsExact ==
  ASSUME IsText, Exact, NEW S, IsLayout(Len(text), S),
         NEW length \in [S -> Lengths], Substitute(S, length)
  PROVE  IsText' /\ Exact'
<1> DEFINE P == Positions(S)
           n == Len(text)
<1>0. P \cap 0..(n - 1) = P
  BY LayoutInText DEF IsText
<1>1. /\ text' = apply_spans(text, S, length)
      /\ found' = found \cup ({text[p + 1] : p \in P} \ {0})
  BY <1>0 DEF Substitute
<1>2. length \in [S -> Nat]
  BY TextAssumption
<1>3. /\ text \in Seq(0..N) /\ Rising(text) /\ found \subseteq 1..N
      /\ \A v \in 1..N : Shows(text, v) <=> v \notin found
  BY SurvivingIs DEF IsText
<1>4. /\ text' \in Seq(0..N) /\ Rising(text')
      /\ \A v \in 1..N : Shows(text', v) <=>
           \E p \in 1..n : text[p] = v /\ \A s \in S : Outside(p, s)
  BY <1>1, <1>2, <1>3, ApplyTakes
<1>5. /\ n \in Nat
      /\ \A s \in S : s.start \in Nat /\ s.end \in Nat /\ s.start < s.end /\ s.end <= n
  BY <1>3 DEF IsLayout, AllSpans, IsSpan
<1>6. \A p \in P : p + 1 \in 1..n /\ text[p + 1] \in 0..N
  <2>1. \A p \in P : p + 1 \in 1..n
    BY <1>5 DEF Positions
  <2>2. \A p \in 1..n : text[p] \in 0..N
    BY <1>3, ElementOfSeq
  <2>3. QED BY <2>1, <2>2
<1>7. \A p \in 1..n : (\A s \in S : Outside(p, s)) <=> p - 1 \notin P
  <2> SUFFICES ASSUME NEW p \in 1..n
               PROVE  (\E s \in S : ~Outside(p, s)) <=> p - 1 \in P
    OBVIOUS
  <2>1. \A s \in S : ~Outside(p, s) <=> p - 1 \in s.start..(s.end - 1)
    BY <1>5 DEF Outside
  <2>2. QED BY <2>1 DEF Positions
<1> HIDE DEF P
<1>8. found' \subseteq 1..N
  <2>1. \A p \in P : text[p + 1] # 0 => text[p + 1] \in 1..N
    BY <1>6
  <2>2. QED BY <1>1, <1>3, <2>1
<1>9. ASSUME NEW v \in 1..N PROVE Shows(text', v) <=> v \notin found'
  <2>1. v \in Nat /\ v # 0
    OBVIOUS
  <2>2. v \in found' <=> v \in found \/ \E p \in P : text[p + 1] = v
    BY <1>1, <2>1
  <2>3. Shows(text', v) <=> \E p \in 1..n : text[p] = v /\ p - 1 \notin P
    BY <1>4, <1>7
  <2>4. ASSUME NEW p \in 1..n, text[p] = v, NEW r \in 1..n, text[r] = v PROVE p = r
    <3>1. p < r => v < v
      BY <1>3, <2>1, <2>4 DEF Rising
    <3>2. r < p => v < v
      BY <1>3, <2>1, <2>4 DEF Rising
    <3>3. QED BY <1>5, <2>1, <3>1, <3>2
  <2>5. ASSUME Shows(text', v) PROVE v \notin found'
    <3>1. PICK p \in 1..n : text[p] = v /\ p - 1 \notin P
      BY <2>3, <2>5
    <3>2. v \notin found
      BY <1>3, <3>1 DEF Shows
    <3>3. ASSUME NEW r \in P, text[r + 1] = v PROVE FALSE
      <4>1. r + 1 \in 1..n
        BY <1>6
      <4>2. p = r + 1
        BY <2>4, <3>1, <3>3, <4>1
      <4>3. r \in Int
        BY <1>5 DEF P, Positions
      <4>4. p - 1 = r
        BY <4>2, <4>3
      <4>5. QED BY <3>1, <4>4
    <3>4. QED BY <2>2, <3>2, <3>3
  <2>6. ASSUME v \notin found' PROVE Shows(text', v)
    <3>1. PICK p \in 1..n : text[p] = v
      BY <1>3, <2>2, <2>6 DEF Shows
    <3>2. ASSUME p - 1 \in P PROVE FALSE
      <4>1. (p - 1) + 1 = p
        BY <1>5
      <4>2. QED BY <2>2, <2>6, <3>1, <3>2, <4>1
    <3>3. QED BY <2>3, <3>1, <3>2
  <2>7. QED BY <2>5, <2>6
<1>10. Exact'
  <2>1. (text \in Seq(0..N))'
    BY <1>4
  <2>2. (/\ Rising(text) /\ \A v \in 1..N : Shows(text, v) <=> v \notin found)'
    BY <1>4, <1>9
  <2>3. Exact' <=> (/\ Rising(text) /\ \A v \in 1..N : Shows(text, v) <=> v \notin found)'
    BY <2>1, SurvivingIs, PTL
  <2>4. QED BY <2>2, <2>3
<1>11. QED BY <1>4, <1>8, <1>10 DEF IsText

LEMMA DedupeIsLayout ==
  ASSUME NEW n \in Nat, NEW S \in SUBSET AllSpans, IsFiniteSet(S), \A s \in S : IsSpan(n, s)
  PROVE  IsLayout(n, dedupe_overlaps(S))
<1>1. dedupe_overlaps(S) \subseteq S /\ Disjoint(dedupe_overlaps(S))
  BY DedupeIsDisjoint
<1>2. IsFiniteSet(dedupe_overlaps(S))
  BY <1>1, FS_Subset
<1>3. QED BY <1>1, <1>2 DEF IsLayout

(* What the regex detector may return for a text of n characters, and a    *)
(* model for one it was right about.                                       *)
LEMMA SpansInAre ==
  ASSUME NEW n \in Nat, NEW C \in SUBSET Nat, NEW S \in Detections(SpansIn(n, C))
  PROVE  S \in SUBSET AllSpans /\ IsFiniteSet(S) /\ \A s \in S : IsSpan(n, s)
<1>1. S \subseteq SpansIn(n, C) /\ IsFiniteSet(S)
  BY DetectionsAreFinite
<1>2. S \subseteq AllSpans
  BY <1>1, CandidatesAreSpans
<1>3. \A s \in S : IsSpan(n, s)
  BY <1>1 DEF SpansIn
<1>4. QED BY <1>1, <1>2, <1>3

LEMMA CandidatesAre ==
  ASSUME NEW n \in Nat, NEW S \in Detections(Candidates(n)), S \subseteq SpansIn(n, Confidences)
  PROVE  S \in SUBSET AllSpans /\ IsFiniteSet(S) /\ \A s \in S : IsSpan(n, s)
<1>1. S \subseteq Candidates(n) /\ IsFiniteSet(S)
  BY DetectionsAreFinite
<1>2. S \subseteq AllSpans
  BY <1>1, CandidatesAreSpans
<1>3. \A s \in S : IsSpan(n, s)
  BY DEF SpansIn
<1>4. QED BY <1>1, <1>2, <1>3

LEMMA ConfidencesAre ==
  /\ Confidences \in SUBSET Nat /\ {MaxConfidence} \in SUBSET Nat
  /\ N \in Nat /\ (IsText => Len(text) \in Nat)
<1>1. Confidences \in SUBSET Nat /\ {MaxConfidence} \in SUBSET Nat /\ N \in Nat
  BY TextAssumption DEF Confidences
<1>2. IsText => Len(text) \in Nat
  BY DEF IsText
<1>3. QED BY <1>1, <1>2

(* Plain and Consensus substitute and report the same spans. *)
Takes(S) ==
  /\ IsLayout(N, S) /\ spans' = S
  /\ \E length \in [S -> Lengths] : Substitute(S, length)

LEMMA PlainTakes ==
  ASSUME Plain PROVE \E S : Takes(S)
<1>1. PICK raw \in Detections(Candidates(N)) :
        LET S == dedupe_overlaps(validate_offsets(N, raw))
        IN  (\E length \in [S -> Lengths] : Substitute(S, length)) /\ spans' = S
  BY DEF Plain
<1> DEFINE V == validate_offsets(N, raw)
           S == dedupe_overlaps(V)
<1>2. (\E length \in [S -> Lengths] : Substitute(S, length)) /\ spans' = S
  BY <1>1
<1>3. IsLayout(N, S)
  <2>1. raw \subseteq AllSpans /\ IsFiniteSet(raw)
    BY DetectionsAreFinite, CandidatesAreSpans, ConfidencesAre
  <2>2. V \subseteq raw /\ \A s \in V : IsSpan(N, s)
    BY DEF validate_offsets
  <2>3. V \in SUBSET AllSpans /\ IsFiniteSet(V)
    BY <2>1, <2>2, FS_Subset
  <2> HIDE DEF V
  <2>4. QED BY <2>2, <2>3, DedupeIsLayout, ConfidencesAre
<1> HIDE DEF S
<1>4. Takes(S)
  BY <1>2, <1>3 DEF Takes
<1>5. QED BY <1>4

LEMMA ConsensusTakes ==
  ASSUME Len(text) = N, clean', Consensus
  PROVE  \/ text' = text /\ found' = found
         \/ \E S : Takes(S)
<1>1. PICK R \in RegexHits, M \in Detections(Candidates(N)), open \in BOOLEAN :
        LET S == fuse(R, IF open THEN {} ELSE M)
        IN  /\ \/ text' = text /\ found' = found
               \/ (\E length \in [S -> Lengths] : Substitute(S, length)) /\ spans' = S
            /\ open \/ M \subseteq SpansIn(N, Confidences)
  BY DEF Consensus
<1> DEFINE X == IF open THEN {} ELSE M
           U == R \cup Trusted(R, X)
           S == fuse(R, X)
<1>2. ASSUME (\E length \in [S -> Lengths] : Substitute(S, length)) /\ spans' = S
      PROVE  Takes(S)
  <2>1. R \in SUBSET AllSpans /\ IsFiniteSet(R) /\ \A s \in R : IsSpan(N, s)
    BY SpansInAre, ConfidencesAre DEF RegexHits
  <2>2. X \in SUBSET AllSpans /\ IsFiniteSet(X) /\ \A s \in X : IsSpan(N, s)
    <3>1. CASE open
      BY <3>1, FS_EmptySet
    <3>2. CASE ~open
      BY <1>1, <3>2, CandidatesAre, ConfidencesAre
    <3>3. QED BY <3>1, <3>2
  <2>3. Trusted(R, X) \subseteq X
    BY DEF Trusted
  <2>4. IsFiniteSet(Trusted(R, X))
    BY <2>2, <2>3, FS_Subset
  <2>5. U \in SUBSET AllSpans /\ IsFiniteSet(U) /\ \A s \in U : IsSpan(N, s)
    BY <2>1, <2>2, <2>3, <2>4, FS_Union
  <2>6. S = dedupe_overlaps(U)
    BY DEF fuse
  <2> HIDE DEF U
  <2>7. IsLayout(N, S)
    BY <2>5, <2>6, DedupeIsLayout, ConfidencesAre
  <2> HIDE DEF S
  <2>8. QED BY <1>2, <2>7 DEF Takes
<1> HIDE DEF S
<1>3. QED BY <1>1, <1>2 DEF S

LEMMA FirstText ==
  ASSUME ExactInvariant, pc = "new"
  PROVE  text = [i \in 1..N |-> i] /\ Len(text) = N
<1>1. text = [i \in 1..N |-> i]
  BY DEF ExactInvariant
<1>2. QED BY <1>1, ConfidencesAre

LEMMA PlainIsExact ==
  ASSUME ExactInvariant, clean, Plain PROVE IsText' /\ Exact'
<1>1. IsText /\ Exact /\ Len(text) = N
  BY FirstText DEF Plain, ExactInvariant
<1>2. PICK S : Takes(S)
  BY PlainTakes
<1>3. QED BY <1>1, <1>2, SubstituteIsExact DEF Takes

LEMMA ConsensusIsExact ==
  ASSUME ExactInvariant, clean, clean', Consensus PROVE IsText' /\ Exact'
<1>1. IsText /\ Exact /\ Len(text) = N
  BY FirstText DEF Consensus, ExactInvariant
<1>2. CASE text' = text /\ found' = found
  BY <1>1, <1>2 DEF IsText, Exact, Surviving
<1>3. ASSUME NEW S, Takes(S) PROVE IsText' /\ Exact'
  BY <1>1, <1>3, SubstituteIsExact DEF Takes
<1>4. QED BY <1>1, <1>2, <1>3, ConsensusTakes

(* The fields of a policy. *)
LEMMA FieldRuns ==
  ASSUME IsText, clean', Regex \/ Deid \/ Untouched
  PROVE  \E S : IsLayout(Len(text), S) /\ Run(S)
<1>1. Len(text) \in Nat
  BY ConfidencesAre
<1>2. CASE Regex
  <2>1. PICK R \in RegexHits : Run(R) /\ Disjoint(R)
    BY <1>2 DEF Regex
  <2>2. R \in SUBSET AllSpans /\ IsFiniteSet(R) /\ \A s \in R : IsSpan(Len(text), s)
    BY <1>1, SpansInAre, ConfidencesAre DEF RegexHits
  <2>3. QED BY <2>1, <2>2 DEF IsLayout
<1>3. CASE Deid
  <2>1. PICK raw \in Detections(Candidates(Len(text))) :
          Run(dedupe_overlaps(raw)) /\ raw \subseteq SpansIn(Len(text), Confidences)
    BY <1>3 DEF Deid
  <2>2. raw \in SUBSET AllSpans /\ IsFiniteSet(raw) /\ \A s \in raw : IsSpan(Len(text), s)
    BY <1>1, <2>1, CandidatesAre
  <2>3. IsLayout(Len(text), dedupe_overlaps(raw))
    BY <1>1, <2>2, DedupeIsLayout
  <2>4. QED BY <2>1, <2>3
<1>4. CASE Untouched
  <2>1. Run({})
    BY <1>4 DEF Untouched
  <2>2. IsLayout(Len(text), {})
    BY FS_EmptySet DEF IsLayout, Disjoint
  <2>3. QED BY <2>1, <2>2
<1>5. QED BY <1>2, <1>3, <1>4

LEMMA FieldIsExact ==
  ASSUME ExactInvariant, clean, clean', Regex \/ Deid \/ Untouched
  PROVE  IsText' /\ Exact'
<1>1. IsText /\ Exact
  BY DEF ExactInvariant
<1>2. PICK S : IsLayout(Len(text), S) /\ Run(S)
  BY <1>1, FieldRuns
<1>3. PICK length \in [S -> Lengths] : Substitute(S, length)
  BY <1>2 DEF Run
<1>4. QED BY <1>1, <1>2, <1>3, SubstituteIsExact

LEMMA FieldIsClean ==
  ASSUME Regex \/ Deid \/ Untouched
  PROVE  /\ pc \in {"new", "policy"} /\ pc' = "policy"
         /\ clean' => clean
<1>1. pc \in {"new", "policy"} /\ pc' = "policy"
  BY DEF Regex, Deid, Untouched, Field
<1>2. CASE Regex
  <2>1. PICK R : clean' = (clean /\ Disjoint(R))
    BY <1>2 DEF Regex
  <2>2. clean' => clean
    BY <2>1, Zenon
  <2>3. QED BY <1>1, <2>2
<1>3. CASE Deid
  <2>1. PICK raw : clean' = (clean /\ raw \subseteq SpansIn(Len(text), Confidences))
    BY <1>3 DEF Deid
  <2>2. clean' => clean
    BY <2>1, Zenon
  <2>3. QED BY <1>1, <2>2
<1>4. CASE Untouched
  BY <1>1, <1>4 DEF Untouched
<1>5. QED BY <1>2, <1>3, <1>4

LEMMA ConsensusIsClean ==
  ASSUME Consensus PROVE clean' => clean
<1>1. PICK M, open : clean' = (clean /\ (open \/ M \subseteq SpansIn(N, Confidences)))
  BY DEF Consensus
<1>2. QED BY <1>1, Zenon

LEMMA ExactInit ==
  ASSUME Init PROVE ExactInvariant
<1>1. text = [i \in 1..N |-> i] /\ found = {}
  BY DEF Init
<1>2. N \in Nat /\ text \in Seq(0..N) /\ Len(text) = N /\ \A p \in 1..N : text[p] = p
  BY <1>1, TextAssumption
<1>3. Rising(text) /\ \A v \in 1..N : Shows(text, v)
  BY <1>2 DEF Rising, Shows
<1>4. IsText /\ Exact
  BY <1>1, <1>2, <1>3, SurvivingIs DEF IsText
<1>5. QED BY <1>1, <1>4 DEF ExactInvariant

LEMMA ExactStep ==
  ASSUME ExactInvariant, [Next]_vars PROVE ExactInvariant'
<1>1. CASE Plain
  <2>1. pc' = "done" /\ clean' = clean
    BY <1>1 DEF Plain
  <2>2. clean => IsText' /\ Exact'
    BY <1>1, PlainIsExact
  <2>3. QED BY <2>1, <2>2 DEF ExactInvariant
<1>2. CASE Consensus
  <2>1. pc' \in {"done", "error"} /\ (clean' => clean)
    BY <1>2, ConsensusIsClean DEF Consensus
  <2>2. clean' => IsText' /\ Exact'
    BY <1>2, <2>1, ConsensusIsExact
  <2>3. QED BY <2>1, <2>2 DEF ExactInvariant
<1>3. CASE Regex \/ Deid \/ Untouched
  <2>1. pc' = "policy" /\ (clean' => clean)
    BY <1>3, FieldIsClean
  <2>2. clean' => IsText' /\ Exact'
    BY <1>3, <2>1, FieldIsExact
  <2>3. QED BY <2>1, <2>2 DEF ExactInvariant
<1>4. CASE Fail \/ Return \/ UNCHANGED vars
  <2>1. /\ pc' = pc \/ pc' \in {"error", "done"}
        /\ text' = text /\ found' = found /\ clean' = clean
    BY <1>4 DEF Fail, Return, vars, result, history
  <2>2. QED BY <2>1 DEF ExactInvariant, IsText, Exact, Surviving
<1>5. QED BY <1>1, <1>2, <1>3, <1>4 DEF Next

(* The text is the original, in order, without the characters of the       *)
(* substituted spans and with all others, over all the fields of a policy  *)
(* (dedupe_overlaps, validate_offsets, apply_spans), unless hits of the    *)
(* regex strategy overlapped, or the pipeline or Deid, which validate      *)
(* nothing, detected what is no span of the text: for every text, set of   *)
(* detections and length of replacement.                                   *)
THEOREM RedactionIsExact == Spec => []RedactsExactly
<1>1. Init => ExactInvariant
  BY ExactInit
<1>2. ExactInvariant /\ [Next]_vars => ExactInvariant'
  BY ExactStep
<1>3. ExactInvariant => RedactsExactly
  BY DEF ExactInvariant, RedactsExactly
<1>4. QED BY <1>1, <1>2, <1>3, PTL DEF Spec

-----------------------------------------------------------------------------
(* compose_remaps.                                                         *)

(* What FoldLeft computes for the places in D. *)
IsOriginFold(h, D, L, b) ==
  h = [s \in SUBSET D |-> IF s = {} THEN b ELSE Remap(h[s \ {Max(s)}], L[Max(s)])]

LEMMA OriginFolds ==
  ASSUME NEW n \in Nat, NEW L, NEW b
  PROVE  \E h : IsOriginFold(h, 1..n, L, b)
<1> DEFINE Folds(m, h) ==
             h = [s \in SUBSET (1..m) |->
                    IF s = {} THEN b ELSE Remap(h[s \ {Max(s)}], L[Max(s)])]
           T == {m \in 0..n : \E h : Folds(m, h)}
<1>1. 0 \in T
  <2>1. SUBSET (1..0) = {{}} /\ 0 \in 0..n
    OBVIOUS
  <2> DEFINE z == [s \in SUBSET (1..0) |-> b]
  <2>2. Folds(0, z)
    BY <2>1
  <2> HIDE DEF z, Folds
  <2>3. QED BY <2>1, <2>2
<1>2. ASSUME NEW m \in 1..n, m - 1 \in T PROVE m \in T
  <2>1. PICK h : Folds(m - 1, h)
    BY <1>2
  <2>2. \A s \in SUBSET (1..(m - 1)) :
          h[s] = IF s = {} THEN b ELSE Remap(h[s \ {Max(s)}], L[Max(s)])
    BY <2>1
  <2> DEFINE g == [s \in SUBSET (1..m) |-> IF m \in s THEN Remap(h[s \ {m}], L[m]) ELSE h[s]]
  <2>3. \A s \in SUBSET (1..m) : /\ m \in s => s \ {m} \in SUBSET (1..(m - 1)) /\ Max(s) = m
                                 /\ m \notin s => s \in SUBSET (1..(m - 1))
    <3> SUFFICES ASSUME NEW s \in SUBSET (1..m)
                 PROVE  /\ m \in s => s \ {m} \in SUBSET (1..(m - 1)) /\ Max(s) = m
                        /\ m \notin s => s \in SUBSET (1..(m - 1))
      OBVIOUS
    <3>1. \A x \in s : x # m => x \in 1..(m - 1)
      OBVIOUS
    <3>2. ASSUME m \in s PROVE Max(s) = m
      <4>1. s \subseteq 0..m /\ s # {} /\ m \in Nat
        BY <3>2
      <4>2. Max(s) \in s /\ Max(s) >= m
        BY <4>1, <3>2, MaxIs
      <4>3. Max(s) \in 1..m
        BY <4>2
      <4>4. QED BY <4>1, <4>2, <4>3
    <3>3. QED BY <3>1, <3>2
  <2>4. ASSUME NEW s \in SUBSET (1..m)
        PROVE  g[s] = IF s = {} THEN b ELSE Remap(g[s \ {Max(s)}], L[Max(s)])
    <3>1. CASE m \in s
      <4>1. Max(s) = m /\ s \ {m} \in SUBSET (1..m) /\ m \notin s \ {m} /\ s # {}
        BY <2>3, <3>1
      <4>2. g[s \ {m}] = h[s \ {m}] /\ g[s] = Remap(h[s \ {m}], L[m])
        BY <4>1, <3>1
      <4>3. QED BY <4>1, <4>2
    <3>2. CASE m \notin s
      <4>1. s \in SUBSET (1..(m - 1))
        BY <2>3, <3>2
      <4>2. h[s] = IF s = {} THEN b ELSE Remap(h[s \ {Max(s)}], L[Max(s)])
        BY <2>2, <4>1
      <4>3. g[s] = h[s] /\ g[s \ {Max(s)}] = h[s \ {Max(s)}]
        BY <3>2
      <4>4. QED BY <4>2, <4>3
    <3>3. QED BY <3>1, <3>2
  <2>5. Folds(m, g) /\ m \in 0..n
    <3> DEFINE k == [s \in SUBSET (1..m) |->
                       IF s = {} THEN b ELSE Remap(g[s \ {Max(s)}], L[Max(s)])]
    <3>1. \A s \in SUBSET (1..m) : g[s] = k[s]
      BY <2>4
    <3>2. g = [s \in SUBSET (1..m) |-> g[s]] /\ k = [s \in SUBSET (1..m) |-> k[s]]
      OBVIOUS
    <3> HIDE DEF g, k
    <3>3. g = k
      BY <3>1, <3>2
    <3>4. m \in 0..n
      OBVIOUS
    <3>5. Folds(m, g)
      BY <3>3, Zenon DEF k
    <3>6. QED BY <3>4, <3>5
  <2> HIDE DEF g, Folds
  <2>6. QED BY <2>5
<1> HIDE DEF T
<1>3. n \in T
  <2>1. \A i \in 0..n : i \in T
    BY <1>1, <1>2, Reaches
  <2>2. QED BY <2>1
<1>4. PICK h : Folds(n, h)
  BY <1>3 DEF T
<1>5. IsOriginFold(h, 1..n, L, b)
  BY <1>4 DEF IsOriginFold
<1>6. QED BY <1>5

(* The turns of Origin. *)
OriginTurns(L, n, p, g) ==
  /\ g[0] = p /\ g[n] = Origin(L, p)
  /\ \A k \in 1..n : g[k] = Remap(g[k - 1], L[k])

LEMMA OriginHasTurns ==
  ASSUME NEW n \in Nat, NEW L, DOMAIN L = 1..n, NEW p
  PROVE  \E g : OriginTurns(L, n, p, g)
<1> DEFINE Folds(h) == h = [s \in SUBSET (DOMAIN L) |->
                              IF s = {} THEN p ELSE Remap(h[s \ {Max(s)}], L[Max(s)])]
           it == CHOOSE h : Folds(h)
<1>1. Origin(L, p) = it[DOMAIN L]
  BY DEF Origin, FoldLeft, MapThenFoldSet
<1>2. \E h : Folds(h)
  <2>1. PICK h : IsOriginFold(h, DOMAIN L, L, p)
    BY OriginFolds
  <2>2. Folds(h)
    BY <2>1 DEF IsOriginFold
  <2> HIDE DEF Folds
  <2>3. QED BY <2>2
<1>3. Folds(it)
  <2> HIDE DEF Folds
  <2>1. QED BY <1>2
<1> HIDE DEF it
<1>4. \A s \in SUBSET (1..n) : it[s] = IF s = {} THEN p ELSE Remap(it[s \ {Max(s)}], L[Max(s)])
  BY <1>3
<1>5. ASSUME NEW k \in 1..n PROVE it[1..k] = Remap(it[1..(k - 1)], L[k])
  <2>1. k \in Nat \ {0} /\ 1..k \in SUBSET (1..n)
    OBVIOUS
  <2>2. Max(1..k) = k /\ (1..k) \ {k} = 1..(k - 1) /\ 1..k # {}
    BY <2>1, IntervalMax
  <2> DEFINE s == 1..k
             r == 1..(k - 1)
  <2>3. s \in SUBSET (1..n) /\ Max(s) = k /\ s \ {k} = r /\ s # {}
    BY <2>1, <2>2
  <2> HIDE DEF s, r
  <2>4. it[s] = Remap(it[r], L[k])
    BY <1>4, <2>3
  <2>5. QED BY <2>4 DEF s, r
<1> DEFINE g == [k \in 0..n |-> it[1..k]]
<1>6. g[0] = p /\ g[n] = Origin(L, p) /\ \A k \in 1..n : g[k] = Remap(g[k - 1], L[k])
  <2>1. 1..0 = {} /\ 0 \in 0..n /\ n \in 0..n /\ \A k \in 1..n : k \in 0..n /\ k - 1 \in 0..n
    OBVIOUS
  <2>2. \A k \in 0..n : g[k] = it[1..k]
    BY Zenon
  <2>3. it[{}] = p
    BY <1>4
  <2> HIDE DEF g
  <2>4. QED BY <2>1, <2>2, <2>3, <1>1, <1>5
<1> HIDE DEF g
<1>7. OriginTurns(L, n, p, g)
  BY <1>6 DEF OriginTurns
<1>8. QED BY <1>7

LEMMA OriginOfNone == \A p : Origin(<<>>, p) = p
<1> SUFFICES ASSUME NEW p PROVE Origin(<<>>, p) = p
  OBVIOUS
<1> DEFINE L == <<>>
<1>1. 0 \in Nat /\ DOMAIN L = 1..0
  OBVIOUS
<1> HIDE DEF L
<1>2. PICK g : OriginTurns(L, 0, p, g)
  BY <1>1, OriginHasTurns
<1>3. QED BY <1>2 DEF OriginTurns, L

(* A newer map is applied first. *)
LEMMA OriginComposes ==
  ASSUME NEW U, NEW L \in Seq(U), NEW m \in U, NEW p
  PROVE  Origin(<<m>> \o L, p) = Origin(L, Remap(p, m))
<1> DEFINE n == Len(L)
           M == <<m>> \o L
<1>1. n \in Nat /\ DOMAIN L = 1..n /\ n + 1 \in Nat
  OBVIOUS
<1>2. M \in Seq(U) /\ DOMAIN M = 1..(n + 1) /\ M[1] = m /\ \A k \in 1..n : M[k + 1] = L[k]
  OBVIOUS
<1> HIDE DEF M, n
<1>3. PICK g : OriginTurns(M, n + 1, p, g)
  BY <1>1, <1>2, OriginHasTurns
<1>4. PICK h : OriginTurns(L, n, Remap(p, m), h)
  BY <1>1, OriginHasTurns
<1> DEFINE T == {k \in 0..n : g[k + 1] = h[k]}
<1>5. 0 \in T
  <2>1. g[1] = Remap(g[0], M[1]) /\ g[0] = p
    <3>1. 1 \in 1..(n + 1) /\ 1 - 1 = 0
      BY <1>1
    <3>2. g[1] = Remap(g[1 - 1], M[1])
      BY <1>3, <3>1 DEF OriginTurns
    <3>3. QED BY <1>3, <3>1, <3>2 DEF OriginTurns
  <2>2. g[0 + 1] = h[0]
    BY <1>2, <1>4, <2>1 DEF OriginTurns
  <2>3. QED BY <1>1, <2>2
<1>6. ASSUME NEW k \in 1..n, k - 1 \in T PROVE k \in T
  <2>1. k + 1 \in 1..(n + 1) /\ (k + 1) - 1 = k /\ (k - 1) + 1 = k /\ k \in 0..n
    BY <1>1
  <2>2. g[k + 1] = Remap(g[(k + 1) - 1], M[k + 1])
    BY <1>3, <2>1 DEF OriginTurns
  <2>3. g[k + 1] = Remap(g[k], L[k])
    BY <1>2, <2>1, <2>2
  <2>4. g[k] = h[k - 1]
    BY <1>6, <2>1
  <2>5. h[k] = Remap(h[k - 1], L[k])
    BY <1>4 DEF OriginTurns
  <2>6. QED BY <2>1, <2>3, <2>4, <2>5
<1> HIDE DEF T
<1>7. n \in T
  <2>1. \A i \in 0..n : i \in T
    BY <1>1, <1>5, <1>6, Reaches
  <2>2. QED BY <1>1, <2>1
<1>8. g[n + 1] = h[n]
  BY <1>7 DEF T
<1>9. QED BY <1>3, <1>4, <1>8 DEF OriginTurns, M

-----------------------------------------------------------------------------
(* inverse_position_remap.                                                 *)
Segments == [new : Nat, old : Nat, replaced : BOOLEAN]

(* The segments of list take the places below w to places below z, in      *)
(* their order.                                                            *)
IsMap(list, w, z) ==
  /\ list \in Seq(Segments) /\ w \in Nat /\ z \in Nat
  /\ \A k \in 1..Len(list) : list[k].new <= w
  /\ \A x \in 0..(w - 1) :
       /\ \E k \in 1..Len(list) : list[k].new <= x
       /\ Remap(x, list) \in 0..(z - 1)
       /\ \A y \in 0..(w - 1) : x <= y => Remap(x, list) <= Remap(y, list)

(* Where a segment takes place x. *)
Taken(s, x) == IF s.replaced THEN s.old ELSE s.old + (x - s.new)

(* A segment at the end takes over from its start on. *)
LEMMA AppendedTakes ==
  ASSUME NEW list, NEW w, NEW z, IsMap(list, w, z), NEW s \in Segments, s.new = w
  PROVE  /\ list \o <<s>> \in Seq(Segments)
         /\ \A x \in 0..(w - 1) : Remap(x, list \o <<s>>) = Remap(x, list)
         /\ \A x \in Nat : x >= w => Remap(x, list \o <<s>>) = Taken(s, x)
<1> DEFINE m == list \o <<s>>
           n == Len(list)
<1>1. list \in Seq(Segments) /\ n \in Nat /\ w \in Nat
  BY DEF IsMap
<1>2. m \in Seq(Segments) /\ Len(m) = n + 1 /\ m[n + 1] = s /\ \A k \in 1..n : m[k] = list[k]
  BY <1>1
<1> HIDE DEF m, n
<1>3. ASSUME NEW x \in 0..(w - 1) PROVE Remap(x, m) = Remap(x, list)
  <2> DEFINE A == {k \in 1..n : list[k].new <= x}
             B == {k \in 1..(n + 1) : m[k].new <= x}
  <2>1. ~(m[n + 1].new <= x)
    BY <1>1, <1>2
  <2>2. \A k \in 1..(n + 1) : k \in 1..n \/ k = n + 1
    BY <1>1
  <2>3. \A k \in 1..n : k \in 1..(n + 1)
    BY <1>1
  <2>4. A = B
    BY <1>2, <2>1, <2>2, <2>3
  <2>5. A \subseteq 0..n /\ A # {}
    BY <1>1 DEF IsMap, n
  <2> HIDE DEF A, B
  <2>6. Max(A) \in A
    BY <1>1, <2>5, MaxIs
  <2>7. Max(A) \in 1..n
    BY <2>6 DEF A
  <2>8. m[Max(A)] = list[Max(A)]
    BY <1>2, <2>7
  <2> DEFINE j == Max(A)
  <2>9. Max(B) = j /\ m[j] = list[j]
    BY <2>4, <2>8
  <2>10. Remap(x, list) = IF list[j].replaced THEN list[j].old ELSE list[j].old + (x - list[j].new)
    BY DEF Remap, A, n
  <2>11. Remap(x, m) = IF m[Max(B)].replaced THEN m[Max(B)].old ELSE m[Max(B)].old + (x - m[Max(B)].new)
    BY <1>2 DEF Remap, B
  <2> HIDE DEF j
  <2>12. QED BY <2>9, <2>10, <2>11
<1>4. ASSUME NEW x \in Nat, x >= w PROVE Remap(x, m) = Taken(s, x)
  <2> DEFINE B == {k \in 1..(n + 1) : m[k].new <= x}
  <2>1. B \subseteq 0..(n + 1) /\ n + 1 \in B /\ n + 1 \in Nat
    BY <1>1, <1>2, <1>4
  <2> HIDE DEF B
  <2>2. Max(B) \in B /\ Max(B) >= n + 1
    BY <2>1, MaxIs
  <2>3. Max(B) \in 0..(n + 1)
    BY <2>1, <2>2
  <2>4. Max(B) = n + 1
    BY <1>1, <2>2, <2>3
  <2>5. Remap(x, m) = IF m[Max(B)].replaced THEN m[Max(B)].old ELSE m[Max(B)].old + (x - m[Max(B)].new)
    BY <1>2 DEF Remap, B
  <2>6. QED BY <1>2, <2>4, <2>5 DEF Taken
<1>5. QED BY <1>2, <1>3, <1>4 DEF m

(* So it continues a map for n places. *)
LEMMA AppendedMaps ==
  ASSUME NEW list, NEW w, NEW z, IsMap(list, w, z), NEW s \in Segments, s.new = w, z <= s.old,
         NEW n \in Nat, NEW y \in Nat, z <= y, IF s.replaced THEN s.old < y ELSE s.old + n <= y
  PROVE  IsMap(list \o <<s>>, w + n, y)
<1> DEFINE m == list \o <<s>>
           l == Len(list)
           R(x) == Remap(x, m)
<1>1. /\ list \in Seq(Segments) /\ l \in Nat /\ w \in Nat /\ z \in Nat
      /\ s.old \in Nat /\ s.new \in Nat /\ s.replaced \in BOOLEAN
  BY DEF IsMap, Segments
<1>2. m \in Seq(Segments) /\ Len(m) = l + 1 /\ m[l + 1] = s /\ \A k \in 1..l : m[k] = list[k]
  BY <1>1
<1>3. /\ \A x \in 0..(w - 1) : R(x) = Remap(x, list)
      /\ \A x \in Nat : x >= w => R(x) = Taken(s, x)
  BY AppendedTakes
<1> HIDE DEF m, l
<1>4. \A k \in 1..Len(m) : m[k].new <= w + n
  <2> SUFFICES ASSUME NEW k \in 1..(l + 1) PROVE m[k].new <= w + n
    BY <1>2
  <2>1. CASE k = l + 1
    BY <1>1, <1>2, <2>1
  <2>2. CASE k # l + 1
    <3>1. k \in 1..l /\ list[k] \in Segments
      BY <1>1, <2>2 DEF l
    <3>2. m[k].new <= w /\ m[k].new \in Nat
      BY <1>2, <3>1 DEF IsMap, l, Segments
    <3>3. QED BY <1>1, <3>2
  <2>3. QED BY <2>1, <2>2
<1>5. \A x \in 0..(w + n - 1) : \E k \in 1..Len(m) : m[k].new <= x
  <2> SUFFICES ASSUME NEW x \in 0..(w + n - 1) PROVE \E k \in 1..(l + 1) : m[k].new <= x
    BY <1>2
  <2>1. CASE x >= w
    <3>1. l + 1 \in 1..(l + 1) /\ m[l + 1].new <= x
      BY <1>1, <1>2, <2>1
    <3>2. QED BY <3>1
  <2>2. CASE x < w
    <3>1. x \in 0..(w - 1)
      BY <1>1, <2>2
    <3>2. PICK k \in 1..l : list[k].new <= x
      BY <3>1 DEF IsMap, l
    <3>3. k \in 1..(l + 1) /\ m[k].new <= x
      BY <1>1, <1>2, <3>2
    <3>4. QED BY <3>3
  <2>3. QED BY <1>1, <2>1, <2>2
<1>6. ASSUME NEW x \in 0..(w + n - 1)
      PROVE  \/ x \in 0..(w - 1) /\ R(x) = Remap(x, list) /\ R(x) \in 0..(z - 1)
             \/ x \in Nat /\ x >= w /\ R(x) = Taken(s, x) /\ R(x) \in s.old..(y - 1)
  <2>1. CASE x < w
    <3>1. x \in 0..(w - 1)
      BY <1>1, <2>1
    <3>2. Remap(x, list) \in 0..(z - 1)
      BY <3>1 DEF IsMap
    <3>3. QED BY <1>3, <3>1, <3>2
  <2>2. CASE x >= w
    <3>1. x \in Nat /\ R(x) = Taken(s, x)
      BY <1>3, <2>2
    <3>2. Taken(s, x) \in s.old..(y - 1)
      <4>1. CASE s.replaced
        BY <1>1, <4>1 DEF Taken
      <4>2. CASE ~s.replaced
        <5>1. Taken(s, x) = s.old + (x - w) /\ s.old + n <= y
          BY <4>2 DEF Taken
        <5>2. QED BY <1>1, <2>2, <5>1
      <4>3. QED BY <4>1, <4>2
    <3>3. QED BY <2>2, <3>1, <3>2
  <2>3. QED BY <1>1, <2>1, <2>2
<1> HIDE DEF R
<1>7. \A x \in 0..(w + n - 1) : R(x) \in 0..(y - 1)
  BY <1>1, <1>6
<1>8. ASSUME NEW x \in 0..(w + n - 1), NEW v \in 0..(w + n - 1), x <= v PROVE R(x) <= R(v)
  <2>1. CASE v \in 0..(w - 1) /\ R(v) = Remap(v, list)
    <3>1. x \in 0..(w - 1) /\ R(x) = Remap(x, list)
      BY <1>1, <1>6, <1>8, <2>1
    <3>2. QED BY <1>8, <2>1, <3>1 DEF IsMap
  <2>2. CASE v >= w /\ R(v) = Taken(s, v) /\ R(v) \in s.old..(y - 1)
    <3>1. CASE x \in 0..(w - 1) /\ R(x) \in 0..(z - 1)
      BY <1>1, <2>2, <3>1
    <3>2. CASE x >= w /\ R(x) = Taken(s, x)
      <4>1. CASE s.replaced
        BY <1>1, <2>2, <3>2, <4>1 DEF Taken
      <4>2. CASE ~s.replaced
        <5>1. R(x) = s.old + (x - w) /\ R(v) = s.old + (v - w)
          BY <2>2, <3>2, <4>2 DEF Taken
        <5>2. QED BY <1>1, <1>8, <5>1
      <4>3. QED BY <4>1, <4>2
    <3>3. QED BY <1>6, <3>1, <3>2
  <2>3. QED BY <1>6, <2>1, <2>2
<1>9. w + n \in Nat
  BY <1>1
<1>10. \A x \in 0..(w + n - 1) :
         /\ Remap(x, m) \in 0..(y - 1)
         /\ \A v \in 0..(w + n - 1) : x <= v => Remap(x, m) <= Remap(v, m)
  BY <1>7, <1>8 DEF R
<1>11. IsMap(m, w + n, y)
  BY <1>2, <1>4, <1>5, <1>9, <1>10 DEF IsMap
<1>12. QED BY <1>11 DEF m

Cuts == [list : Seq(Segments), new : Nat, prev : Nat]

LEMMA CutIsCut ==
  ASSUME NEW acc \in Cuts, NEW s \in AllSpans, NEW n \in Nat
  PROVE  Cut(acc, s, n) \in Cuts
<1> DEFINE gap == IF s.start > acc.prev THEN s.start - acc.prev ELSE 0
           before == IF gap > 0 THEN <<Segment(acc.new, acc.prev, FALSE)>> ELSE <<>>
           last == <<Segment(acc.new + gap, s.start, TRUE)>>
<1>1. /\ acc.list \in Seq(Segments) /\ acc.new \in Nat /\ acc.prev \in Nat
      /\ s.start \in Nat /\ s.end \in Nat
  BY DEF Cuts, AllSpans
<1>2. gap \in Nat
  BY <1>1
<1> HIDE DEF gap
<1>3. before \in Seq(Segments)
  <2> DEFINE f == Segment(acc.new, acc.prev, FALSE)
  <2>1. f \in Segments
    BY <1>1 DEF Segment, Segments
  <2> HIDE DEF f
  <2>2. <<f>> \in Seq(Segments) /\ <<>> \in Seq(Segments)
    BY <2>1
  <2>3. QED BY <2>2 DEF f
<1>4. last \in Seq(Segments)
  BY <1>1, <1>2 DEF Segment, Segments
<1> HIDE DEF before, last
<1>5. (acc.list \o before) \o last \in Seq(Segments)
  BY <1>1, <1>3, <1>4
<1>6. Cut(acc, s, n) = [list |-> (acc.list \o before) \o last, new |-> acc.new + gap + n, prev |-> s.end]
  BY DEF Cut, gap, before, last
<1>7. QED BY <1>1, <1>2, <1>5, <1>6 DEF Cuts

(* A cut continues the map over the gap before its span and over its       *)
(* replacement.                                                            *)
LEMMA CutMaps ==
  ASSUME NEW acc \in Cuts, IsMap(acc.list, acc.new, acc.prev),
         NEW s \in AllSpans, acc.prev <= s.start, s.start < s.end, NEW n \in Nat
  PROVE  LET c == Cut(acc, s, n)
         IN  /\ c.new = acc.new + (s.start - acc.prev) + n /\ c.prev = s.end
             /\ IsMap(c.list, c.new, c.prev)
             /\ \A x \in 0..(acc.new - 1) : Remap(x, c.list) = Remap(x, acc.list)
             /\ \A x \in Nat : acc.new <= x /\ x < acc.new + (s.start - acc.prev) =>
                  Remap(x, c.list) = acc.prev + (x - acc.new)
<1> DEFINE gap == s.start - acc.prev
           w == acc.new
           z == acc.prev
           first == Segment(w, z, FALSE)
           last == Segment(w + gap, s.start, TRUE)
           mid == IF gap > 0 THEN acc.list \o <<first>> ELSE acc.list
           list == mid \o <<last>>
<1>1. /\ acc.list \in Seq(Segments) /\ w \in Nat /\ z \in Nat /\ gap \in Nat
      /\ s.start \in Nat /\ s.end \in Nat /\ s.start = z + gap
  BY DEF Cuts, AllSpans
<1>2. Cut(acc, s, n) = [list |-> list, new |-> w + gap + n, prev |-> s.end]
  <2>1. (IF s.start > z THEN s.start - z ELSE 0) = gap
    BY <1>1
  <2>2. (acc.list \o <<>>) = acc.list
    BY <1>1
  <2>3. (acc.list \o (IF gap > 0 THEN <<first>> ELSE <<>>)) = mid
    BY <2>2
  <2>4. QED BY <2>1, <2>3 DEF Cut
<1>3. /\ first \in Segments /\ first.new = w /\ first.old = z /\ ~first.replaced
      /\ last \in Segments /\ last.new = w + gap /\ last.old = s.start /\ last.replaced
  BY <1>1 DEF Segment, Segments
<1> HIDE DEF gap, w, z, first, last
<1>4. /\ IsMap(mid, w + gap, s.start)
      /\ \A x \in 0..(w - 1) : Remap(x, mid) = Remap(x, acc.list)
      /\ \A x \in Nat : w <= x /\ x < w + gap => Remap(x, mid) = z + (x - w)
  <2>1. CASE gap > 0
    <3> DEFINE m == acc.list \o <<first>>
    <3>1. IsMap(acc.list, w, z)
      BY DEF w, z
    <3>2. IsMap(m, w + gap, s.start)
      <4>1. z <= first.old /\ z <= s.start /\ first.old + gap <= s.start
        BY <1>1, <1>3
      <4>2. QED BY <1>1, <1>3, <3>1, <4>1, AppendedMaps
    <3>3. /\ \A x \in 0..(w - 1) : Remap(x, m) = Remap(x, acc.list)
          /\ \A x \in Nat : x >= w => Remap(x, m) = Taken(first, x)
      BY <1>3, <3>1, AppendedTakes
    <3>4. \A x \in Nat : w <= x => Remap(x, m) = z + (x - w)
      BY <1>1, <1>3, <3>3 DEF Taken
    <3>5. mid = m
      BY <2>1
    <3> HIDE DEF m, mid
    <3>6. QED BY <3>2, <3>3, <3>4, <3>5
  <2>2. CASE ~(gap > 0)
    <3>1. gap = 0 /\ mid = acc.list /\ s.start = z /\ w + gap = w
      BY <1>1, <2>2
    <3>2. IsMap(acc.list, w, z)
      BY DEF w, z
    <3>3. \A x \in Nat : ~(w <= x /\ x < w + gap)
      BY <1>1, <3>1
    <3> HIDE DEF mid
    <3>4. QED BY <3>1, <3>2, <3>3
  <2>3. QED BY <2>1, <2>2
<1> HIDE DEF mid
<1>5. w + gap \in Nat /\ s.start <= last.old /\ s.start <= s.end /\ last.old < s.end
  BY <1>1, <1>3
<1>6. IsMap(list, (w + gap) + n, s.end)
  BY <1>1, <1>3, <1>4, <1>5, AppendedMaps
<1>7. \A x \in 0..((w + gap) - 1) : Remap(x, list) = Remap(x, mid)
  BY <1>3, <1>4, AppendedTakes
<1> HIDE DEF list
<1>8. \A x \in 0..(w - 1) : Remap(x, list) = Remap(x, acc.list)
  <2>1. \A x \in 0..(w - 1) : x \in 0..((w + gap) - 1)
    BY <1>1
  <2>2. QED BY <1>4, <1>7, <2>1
<1>9. \A x \in Nat : w <= x /\ x < w + gap => Remap(x, list) = z + (x - w)
  <2>1. \A x \in Nat : w <= x /\ x < w + gap => x \in 0..((w + gap) - 1)
    BY <1>1
  <2>2. QED BY <1>4, <1>7, <2>1
<1> DEFINE c == Cut(acc, s, n)
<1>10. c.list = list /\ c.new = w + gap + n /\ c.prev = s.end
  BY <1>2
<1> HIDE DEF c
<1>11. /\ c.new = w + gap + n /\ c.prev = s.end /\ IsMap(c.list, c.new, c.prev)
       /\ \A x \in 0..(w - 1) : Remap(x, c.list) = Remap(x, acc.list)
       /\ \A x \in Nat : w <= x /\ x < w + gap => Remap(x, c.list) = z + (x - w)
  BY <1>6, <1>8, <1>9, <1>10
<1>12. QED BY <1>11 DEF c, w, z, gap

LEMMA LeftToRightSorts ==
  ASSUME NEW m \in Nat, NEW S, IsLayout(m, S)
  PROVE  LET q == Sorted(S, LeftToRight)
         IN  /\ IsListOf(q, S)
             /\ \A i, j \in 1..Cardinality(S) : i < j => q[i].end <= q[j].start
<1> DEFINE n == Cardinality(S)
           q == Sorted(S, LeftToRight)
           L == {l \in S \X S : LeftToRight(l[1], l[2])}
<1>1. n \in Nat
  BY FS_CardinalityType DEF IsLayout
<1>2. \A a, b \in S : <<a, b>> \in L <=> LeftToRight(a, b)
  OBVIOUS
<1> HIDE DEF L
<1>3. \A a, b, c \in S :
        /\ ~LeftToRight(a, a)
        /\ LeftToRight(a, b) /\ LeftToRight(b, c) => LeftToRight(a, c)
        /\ a = b \/ LeftToRight(a, b) \/ LeftToRight(b, a)
        /\ LeftToRight(a, b) => a.end <= b.start
  BY DEF IsLayout, AllSpans, LeftToRight, Earlier, Disjoint, overlaps, IsSpan
<1>4. /\ \A a \in S : <<a, a>> \notin L
      /\ \A a, b, c \in S : <<a, b>> \in L /\ <<b, c>> \in L => <<a, c>> \in L
      /\ \A a, b \in S : a = b \/ <<a, b>> \in L \/ <<b, a>> \in L
  BY <1>2, <1>3
<1>5. \E r \in [1..n -> S] : \A i, j \in 1..n : i < j => <<r[i], r[j]>> \in L
  BY <1>4, Lists DEF IsLayout
<1>6. \E r \in [1..n -> S] : \A i, j \in 1..n : i < j => LeftToRight(r[i], r[j])
  BY <1>2, <1>5
<1>7. q = CHOOSE r \in [1..n -> S] : \A i, j \in 1..n : i < j => LeftToRight(r[i], r[j])
  BY DEF Sorted
<1> HIDE DEF q
<1>8. q \in [1..n -> S] /\ \A i, j \in 1..n : i < j => LeftToRight(q[i], q[j])
  BY <1>6, <1>7
<1>9. \A i, j \in 1..n : i < j => q[i] # q[j] /\ q[i].end <= q[j].start
  BY <1>3, <1>8
<1>10. \A a \in S : \E i \in 1..n : q[i] = a
  <2>1. \A i, j \in 1..n : i < j => q[i] # q[j]
    BY <1>9
  <2>2. IsFiniteSet(S)
    BY DEF IsLayout
  <2>3. QED BY <1>8, <2>1, <2>2, ListsOnce
<1>11. QED BY <1>1, <1>8, <1>9, <1>10 DEF IsListOf, q

(* The turns of inverse_position_remap. *)
NoCut == [list |-> <<>>, new |-> 0, prev |-> 0]
CutTurns(S, length, q, h) ==
  /\ IsListOf(q, S)
  /\ \A i, j \in 1..Cardinality(S) : i < j => q[i].end <= q[j].start
  /\ h \in [0..Cardinality(S) -> Cuts]
  /\ h[0] = NoCut
  /\ \A k \in 1..Cardinality(S) : h[k] = Cut(h[k - 1], q[k], length[q[k]])
  /\ \A m : inverse_position_remap(m, S, length) =
       LET c == h[Cardinality(S)]
       IN  IF c.prev < m THEN c.list \o <<Segment(c.new, c.prev, FALSE)>> ELSE c.list

LEMMA CutHasTurns ==
  ASSUME NEW m \in Nat, NEW S, IsLayout(m, S), NEW length \in [S -> Nat]
  PROVE  \E q, h : CutTurns(S, length, q, h)
<1> DEFINE n == Cardinality(S)
           q == Sorted(S, LeftToRight)
           V == Cuts
           Turn(v, s) == Cut(v, s, length[s])
           F == [i \in 1..n |-> [v \in V |-> Turn(v, q[i])]]
           Folds(h) == h = [s \in SUBSET (DOMAIN q) |->
                              IF s = {} THEN NoCut ELSE Turn(h[s \ {Max(s)}], q[Max(s)])]
           it == CHOOSE h : Folds(h)
           c == it[DOMAIN q]
<1>1. /\ n \in Nat /\ q \in [1..n -> S] /\ IsListOf(q, S)
      /\ \A i, j \in 1..n : i < j => q[i].end <= q[j].start
  BY LeftToRightSorts DEF IsListOf
<1>2. \A k : inverse_position_remap(k, S, length) =
               IF c.prev < k THEN c.list \o <<Segment(c.new, c.prev, FALSE)>> ELSE c.list
  BY DEF inverse_position_remap, FoldLeft, MapThenFoldSet, NoCut
<1> HIDE DEF q
<1>3. \A v \in V, a \in S : Turn(v, a) \in V
  <2>1. S \subseteq AllSpans
    BY DEF IsLayout
  <2>2. QED BY <2>1, CutIsCut
<1>4. NoCut \in V
  BY DEF NoCut, Cuts
<1> HIDE DEF Turn, V
<1>5. F \in [1..n -> [V -> V]] /\ \A i \in 1..n, v \in V : F[i][v] = Turn(v, q[i])
  BY <1>1, <1>3
<1>6. DOMAIN q = 1..n
  BY <1>1
<1> HIDE DEF F
<1>7. \A s \in SUBSET (1..n) : s # {} => Max(s) \in 1..n /\ s \ {Max(s)} \in SUBSET (1..n)
  <2> SUFFICES ASSUME NEW s \in SUBSET (1..n), s # {} PROVE Max(s) \in s
    OBVIOUS
  <2>1. s \subseteq 0..n
    BY <1>1
  <2>2. QED BY <1>1, <2>1, MaxIs
<1>8. PICK f : IsFold(f, n, V, NoCut, F)
  BY <1>1, <1>4, <1>5, FoldExists
<1>9. Folds(f)
  <2>1. \A s \in SUBSET (1..n) : f[s] = IF s = {} THEN NoCut ELSE Turn(f[s \ {Max(s)}], q[Max(s)])
    BY <1>5, <1>7, <1>8 DEF IsFold
  <2>2. QED BY <1>6, <1>8, <2>1 DEF IsFold
<1>10. Folds(it)
  <2> HIDE DEF Folds
  <2>1. QED BY <1>9
<1> HIDE DEF it
<1>11. it[{}] = NoCut /\ \A k \in 1..n : it[1..k] = Turn(it[1..(k - 1)], q[k])
  <2>1. \A s \in SUBSET (1..n) : it[s] = IF s = {} THEN NoCut ELSE Turn(it[s \ {Max(s)}], q[Max(s)])
    BY <1>6, <1>10
  <2>2. ASSUME NEW k \in 1..n PROVE it[1..k] = Turn(it[1..(k - 1)], q[k])
    <3>1. k \in Nat \ {0} /\ 1..k \in SUBSET (1..n)
      BY <1>1
    <3>2. Max(1..k) = k /\ (1..k) \ {k} = 1..(k - 1) /\ 1..k # {}
      BY <3>1, IntervalMax
    <3> DEFINE s == 1..k
               r == 1..(k - 1)
    <3>3. s \in SUBSET (1..n) /\ Max(s) = k /\ s \ {k} = r /\ s # {}
      BY <3>1, <3>2
    <3> HIDE DEF s, r
    <3>4. it[s] = Turn(it[r], q[k])
      BY <2>1, <3>3
    <3>5. QED BY <3>4 DEF s, r
  <2>3. QED BY <2>1, <2>2
<1> DEFINE h == [k \in 0..n |-> it[1..k]]
<1>12. h[0] = NoCut /\ h[n] = c /\ \A k \in 1..n : h[k] = Turn(h[k - 1], q[k])
  <2>1. 1..0 = {} /\ 0 \in 0..n /\ n \in 0..n /\ \A k \in 1..n : k \in 0..n /\ k - 1 \in 0..n
    BY <1>1
  <2>2. \A k \in 0..n : h[k] = it[1..k]
    BY Zenon
  <2> HIDE DEF h
  <2>3. QED BY <2>1, <2>2, <1>6, <1>11
<1> HIDE DEF c
<1>13. \A k \in 0..n : h[k] \in V
  <2> HIDE DEF h
  <2> DEFINE T == {k \in 0..n : h[k] \in V}
  <2>1. 0 \in T
    BY <1>1, <1>4, <1>12
  <2>2. \A k \in 1..n : k - 1 \in T => k \in T
    BY <1>1, <1>3, <1>12
  <2> HIDE DEF T
  <2>3. \A k \in 0..n : k \in T
    BY <1>1, <2>1, <2>2, Reaches
  <2>4. QED BY <2>3 DEF T
<1>14. h \in [0..n -> V]
  BY <1>13
<1> HIDE DEF h
<1>15. CutTurns(S, length, q, h)
  BY <1>1, <1>2, <1>12, <1>14 DEF CutTurns, Turn, V
<1>16. QED BY <1>15

(* list takes the places of the gap before span j back to it. *)
MapsGap(list, q, h, j) ==
  \A x \in Nat : h[j - 1].new <= x /\ x < h[j - 1].new + (q[j].start - h[j - 1].prev) =>
    Remap(x, list) = h[j - 1].prev + (x - h[j - 1].new)

(* What holds after i turns: the i spans and the gaps before them are      *)
(* mapped.                                                                 *)
AfterCuts(length, q, h, i) ==
  /\ IsMap(h[i].list, h[i].new, h[i].prev)
  /\ h[i].prev = IF i = 0 THEN 0 ELSE q[i].end
  /\ \A j \in 0..i : h[j].new <= h[i].new
  /\ \A j \in 1..i : /\ MapsGap(h[i].list, q, h, j)
                     /\ h[j - 1].prev <= q[j].start
                     /\ h[j].prev = q[j].end
                     /\ h[j].new = h[j - 1].new + (q[j].start - h[j - 1].prev) + length[q[j]]

LEMMA CutsMap ==
  ASSUME NEW m \in Nat, NEW S, IsLayout(m, S), NEW length \in [S -> Nat],
         NEW q, NEW h, CutTurns(S, length, q, h)
  PROVE  \A i \in 0..Cardinality(S) : AfterCuts(length, q, h, i)
<1> DEFINE n == Cardinality(S)
           T == {i \in 0..n : AfterCuts(length, q, h, i)}
<1>1. /\ n \in Nat /\ q \in [1..n -> S] /\ h \in [0..n -> Cuts] /\ h[0] = NoCut
      /\ \A i, j \in 1..n : i < j => q[i].end <= q[j].start
  BY DEF CutTurns, IsListOf
<1>2. /\ \A i \in 0..n : h[i].list \in Seq(Segments) /\ h[i].new \in Nat /\ h[i].prev \in Nat
      /\ \A i \in 1..n : /\ q[i] \in AllSpans /\ length[q[i]] \in Nat
                         /\ q[i].start \in Nat /\ q[i].end \in Nat /\ q[i].start < q[i].end
  <2>1. \A i \in 1..n : q[i] \in S /\ q[i] \in AllSpans /\ IsSpan(m, q[i])
    BY <1>1 DEF IsLayout
  <2>2. QED BY <1>1, <2>1 DEF Cuts, AllSpans, IsSpan
<1>3. 0 \in T
  <2>1. h[0].list = <<>> /\ h[0].new = 0 /\ h[0].prev = 0 /\ 0 \in 0..n
    BY <1>1 DEF NoCut
  <2>2. IsMap(<<>>, 0, 0)
    BY DEF IsMap
  <2>3. AfterCuts(length, q, h, 0)
    BY <2>1, <2>2 DEF AfterCuts
  <2>4. QED BY <2>1, <2>3
<1>4. ASSUME NEW i \in 1..n, i - 1 \in T PROVE i \in T
  <2> DEFINE a == h[i - 1]
             c == h[i]
             s == q[i]
             k == length[s]
  <2>1. i - 1 \in 0..n /\ i \in 0..n /\ i \in 1..n
    BY <1>1
  <2>2. AfterCuts(length, q, h, i - 1)
    BY <1>4
  <2>3. /\ a \in Cuts /\ a.new \in Nat /\ a.prev \in Nat /\ c.new \in Nat /\ c.prev \in Nat
        /\ s \in AllSpans /\ k \in Nat
        /\ s.start \in Nat /\ s.end \in Nat /\ s.start < s.end
    BY <1>1, <1>2, <2>1
  <2>4. a.prev <= s.start
    <3>1. CASE i = 1
      BY <1>1, <2>3, <3>1 DEF NoCut
    <3>2. CASE i # 1
      <4>1. i - 1 \in 1..n /\ i - 1 < i /\ i - 1 # 0
        BY <2>1, <3>2
      <4>2. a.prev = q[i - 1].end
        BY <2>2, <4>1 DEF AfterCuts
      <4>3. QED BY <1>1, <4>1, <4>2
    <3>3. QED BY <3>1, <3>2
  <2>5. IsMap(a.list, a.new, a.prev) /\ c = Cut(a, s, k)
    BY <2>1, <2>2 DEF AfterCuts, CutTurns
  <2> HIDE DEF a, c, s, k
  <2>6. /\ c.new = a.new + (s.start - a.prev) + k /\ c.prev = s.end
        /\ IsMap(c.list, c.new, c.prev)
        /\ \A x \in 0..(a.new - 1) : Remap(x, c.list) = Remap(x, a.list)
        /\ \A x \in Nat : a.new <= x /\ x < a.new + (s.start - a.prev) =>
             Remap(x, c.list) = a.prev + (x - a.new)
    BY <2>3, <2>4, <2>5, CutMaps
  <2>7. a.new <= c.new
    BY <2>3, <2>4, <2>6
  <2>8. \A j \in 0..i : h[j].new <= c.new
    <3> SUFFICES ASSUME NEW j \in 0..i PROVE h[j].new <= c.new
      OBVIOUS
    <3>1. CASE j = i
      BY <2>3, <3>1 DEF c
    <3>2. CASE j # i
      <4>1. j \in 0..(i - 1) /\ j \in 0..n
        BY <1>1, <3>2
      <4>2. h[j].new <= a.new /\ h[j].new \in Nat
        BY <1>2, <2>2, <4>1 DEF AfterCuts, a
      <4>3. QED BY <2>3, <2>7, <4>2
    <3>3. QED BY <3>1, <3>2
  <2>9. ASSUME NEW j \in 1..i
        PROVE  /\ MapsGap(c.list, q, h, j)
               /\ h[j - 1].prev <= q[j].start /\ h[j].prev = q[j].end
               /\ h[j].new = h[j - 1].new + (q[j].start - h[j - 1].prev) + length[q[j]]
    <3>1. CASE j = i
      <4>1. h[j - 1] = a /\ h[j] = c /\ q[j] = s /\ length[q[j]] = k
        BY <3>1 DEF a, c, s, k
      <4>2. MapsGap(c.list, q, h, j)
        BY <2>6, <4>1 DEF MapsGap
      <4>3. QED BY <2>4, <2>6, <4>1, <4>2
    <3>2. CASE j # i
      <4>1. j \in 1..(i - 1) /\ j \in 1..n /\ j - 1 \in 0..n /\ j \in 0..n /\ j \in 0..(i - 1)
        BY <1>1, <3>2
      <4>2. /\ MapsGap(a.list, q, h, j)
            /\ h[j - 1].prev <= q[j].start /\ h[j].prev = q[j].end
            /\ h[j].new = h[j - 1].new + (q[j].start - h[j - 1].prev) + length[q[j]]
            /\ h[j].new <= a.new
        BY <2>2, <4>1 DEF AfterCuts, a
      <4> DEFINE w == h[j - 1].new
                 g == q[j].start - h[j - 1].prev
      <4>3. w \in Nat /\ g \in Nat /\ length[q[j]] \in Nat /\ h[j].new \in Nat
            /\ h[j].new = w + g + length[q[j]]
        <5>1. h[j - 1].new \in Nat /\ h[j - 1].prev \in Nat /\ h[j].new \in Nat
          BY <1>2, <4>1
        <5>2. q[j].start \in Nat /\ length[q[j]] \in Nat
          BY <1>2, <4>1
        <5>3. g \in Nat
          BY <4>2, <5>1, <5>2
        <5>4. QED BY <4>2, <5>1, <5>2, <5>3
      <4>4. \A x \in Nat : w <= x /\ x < w + g =>
              Remap(x, a.list) = h[j - 1].prev + (x - w)
        BY <4>2 DEF MapsGap
      <4> HIDE DEF w, g
      <4>5. \A x \in Nat : w <= x /\ x < w + g => x \in 0..(a.new - 1)
        BY <2>3, <4>2, <4>3
      <4>6. \A x \in Nat : w <= x /\ x < w + g =>
              Remap(x, c.list) = h[j - 1].prev + (x - w)
        BY <2>6, <4>4, <4>5
      <4>7. MapsGap(c.list, q, h, j)
        BY <4>6 DEF MapsGap, w, g
      <4>8. QED BY <4>2, <4>7
    <3>3. QED BY <3>1, <3>2
  <2>10. c.prev = IF i = 0 THEN 0 ELSE q[i].end
    <3>1. i # 0
      OBVIOUS
    <3>2. QED BY <2>6, <3>1 DEF s
  <2>11. AfterCuts(length, q, h, i)
    BY <2>6, <2>8, <2>9, <2>10 DEF AfterCuts, c
  <2>12. QED BY <2>1, <2>11
<1> HIDE DEF T
<1>5. \A i \in 0..n : i \in T
  BY <1>1, <1>3, <1>4, Reaches
<1>6. QED BY <1>5 DEF T

(* The map as a whole. *)
LEMMA InverseMaps ==
  ASSUME NEW m \in Nat, NEW S, IsLayout(m, S), NEW length \in [S -> Nat],
         NEW q, NEW h, CutTurns(S, length, q, h)
  PROVE  LET inverse == inverse_position_remap(m, S, length)
             c == h[Cardinality(S)]
         IN  /\ c.prev <= m
             /\ IsMap(inverse, c.new + (m - c.prev), m)
             /\ \A j \in 1..Cardinality(S) : MapsGap(inverse, q, h, j)
             /\ \A x \in Nat : c.new <= x /\ x < c.new + (m - c.prev) =>
                  Remap(x, inverse) = c.prev + (x - c.new)
<1> DEFINE n == Cardinality(S)
           inverse == inverse_position_remap(m, S, length)
           c == h[n]
           r == m - c.prev
           s == Segment(c.new, c.prev, FALSE)
<1>1. /\ n \in Nat /\ q \in [1..n -> S] /\ h \in [0..n -> Cuts] /\ n \in 0..n
      /\ inverse = IF c.prev < m THEN c.list \o <<s>> ELSE c.list
  <2>1. n \in Nat /\ q \in [1..n -> S] /\ h \in [0..n -> Cuts]
    BY DEF CutTurns, IsListOf
  <2>2. \A k : inverse_position_remap(k, S, length) =
                 IF c.prev < k THEN c.list \o <<s>> ELSE c.list
    BY DEF CutTurns
  <2>3. inverse = IF c.prev < m THEN c.list \o <<s>> ELSE c.list
    BY <2>2, Zenon
  <2>4. QED BY <2>1, <2>3
<1>2. /\ \A i \in 0..n : h[i].new \in Nat /\ h[i].prev \in Nat
      /\ \A i \in 1..n : length[q[i]] \in Nat /\ q[i].start \in Nat /\ q[i].end \in Nat /\ q[i].end <= m
  <2>1. \A i \in 1..n : q[i] \in S /\ q[i] \in AllSpans /\ IsSpan(m, q[i])
    BY <1>1 DEF IsLayout
  <2>2. QED BY <1>1, <2>1 DEF Cuts, AllSpans, IsSpan
<1>3. AfterCuts(length, q, h, n)
  BY <1>1, CutsMap
<1>4. c.new \in Nat /\ c.prev \in Nat /\ IsMap(c.list, c.new, c.prev)
  BY <1>1, <1>2, <1>3 DEF AfterCuts
<1>5. c.prev <= m
  <2>1. CASE n = 0
    BY <1>3, <2>1 DEF AfterCuts
  <2>2. CASE n # 0
    <3>1. n \in 1..n /\ c.prev = q[n].end
      BY <1>1, <1>3, <2>2 DEF AfterCuts
    <3>2. QED BY <1>2, <3>1
  <2>3. QED BY <2>1, <2>2
<1>6. s \in Segments /\ s.new = c.new /\ s.old = c.prev /\ ~s.replaced
  BY <1>4 DEF Segment, Segments
<1>7. r \in Nat /\ c.prev + r = m
  BY <1>4, <1>5
<1>8. \A j \in 1..n : MapsGap(c.list, q, h, j)
  BY <1>3 DEF AfterCuts
<1>9. \A j \in 1..n : \A x \in Nat :
        x < h[j - 1].new + (q[j].start - h[j - 1].prev) => x \in 0..(c.new - 1)
  <2> SUFFICES ASSUME NEW j \in 1..n, NEW x \in Nat,
                      x < h[j - 1].new + (q[j].start - h[j - 1].prev)
               PROVE  x \in 0..(c.new - 1)
    OBVIOUS
  <2>1. j - 1 \in 0..n /\ j \in 0..n
    BY <1>1
  <2>2. h[j].new <= c.new
    BY <1>3, <2>1 DEF AfterCuts
  <2>3. h[j].new = h[j - 1].new + (q[j].start - h[j - 1].prev) + length[q[j]]
    BY <1>3 DEF AfterCuts
  <2>4. h[j - 1].new \in Nat /\ h[j - 1].prev \in Nat /\ h[j].new \in Nat
    BY <1>2, <2>1
  <2>5. q[j].start \in Nat /\ length[q[j]] \in Nat
    BY <1>2
  <2>6. x < h[j].new
    BY <2>3, <2>4, <2>5
  <2>7. QED BY <1>4, <2>2, <2>4, <2>6
<1> HIDE DEF inverse, s, r, c
<1>10. CASE c.prev < m
  <2> DEFINE l == c.list \o <<s>>
  <2>1. inverse = l
    BY <1>1, <1>10
  <2>2. /\ \A x \in 0..(c.new - 1) : Remap(x, l) = Remap(x, c.list)
        /\ \A x \in Nat : x >= c.new => Remap(x, l) = Taken(s, x)
    BY <1>4, <1>6, AppendedTakes
  <2>3. IsMap(l, c.new + r, m)
    <3>1. c.prev <= s.old /\ c.prev <= m /\ s.old + r <= m
      BY <1>4, <1>5, <1>6, <1>7
    <3>2. QED BY <1>4, <1>6, <1>7, <3>1, AppendedMaps
  <2> HIDE DEF l
  <2>4. \A x \in Nat : c.new <= x => Remap(x, l) = c.prev + (x - c.new)
    BY <1>4, <1>6, <2>2 DEF Taken
  <2>5. \A j \in 1..n : MapsGap(l, q, h, j)
    BY <1>8, <1>9, <2>2 DEF MapsGap
  <2>6. QED BY <1>5, <2>1, <2>3, <2>4, <2>5 DEF inverse, r, c
<1>11. CASE ~(c.prev < m)
  <2>1. inverse = c.list /\ r = 0 /\ c.prev = m /\ c.new + r = c.new
    BY <1>1, <1>4, <1>5, <1>7, <1>11
  <2>2. \A x \in Nat : ~(c.new <= x /\ x < c.new + r)
    BY <1>4, <2>1
  <2>3. IsMap(inverse, c.new + r, m) /\ \A j \in 1..n : MapsGap(inverse, q, h, j)
    BY <1>4, <1>8, <2>1
  <2>4. QED BY <1>5, <2>2, <2>3 DEF inverse, r, c
<1>12. QED BY <1>10, <1>11

(* Left to right is right to left, backwards. *)
LEMMA OrdersMirror ==
  ASSUME NEW m \in Nat, NEW S, IsLayout(m, S), NEW q, NEW r, IsListOf(q, S), IsListOf(r, S),
         \A i, j \in 1..Cardinality(S) : i < j => q[j].end <= q[i].start,
         \A i, j \in 1..Cardinality(S) : i < j => r[i].end <= r[j].start
  PROVE  \A k \in 1..Cardinality(S) : q[k] = r[(Cardinality(S) + 1) - k]
<1> DEFINE n == Cardinality(S)
           T == {k \in 0..n : \A j \in 1..k : q[j] = r[(n + 1) - j]}
<1>1. /\ n \in Nat /\ q \in [1..n -> S] /\ r \in [1..n -> S]
      /\ \A a \in S : (\E i \in 1..n : q[i] = a) /\ \E i \in 1..n : r[i] = a
  BY DEF IsListOf
<1>2. \A a \in S : a.start \in Nat /\ a.end \in Nat /\ a.start < a.end
  BY DEF IsLayout, AllSpans, IsSpan
<1>3. \A i, j \in 1..n : (i < j => q[i] # q[j]) /\ (i < j => r[i] # r[j])
  <2> SUFFICES ASSUME NEW i \in 1..n, NEW j \in 1..n, i < j PROVE q[i] # q[j] /\ r[i] # r[j]
    OBVIOUS
  <2>1. q[j].end <= q[i].start /\ r[i].end <= r[j].start /\ q[j] \in S /\ r[i] \in S
    BY <1>1
  <2>2. q[j].start < q[j].end /\ r[i].start < r[i].end
    BY <1>2, <2>1
  <2>3. /\ q[j].start \in Nat /\ q[j].end \in Nat /\ r[i].start \in Nat /\ r[i].end \in Nat
    BY <1>2, <2>1
  <2>4. QED BY <2>1, <2>2, <2>3
<1>4. \A i, j \in 1..n : (q[i] = q[j] => i = j) /\ (r[i] = r[j] => i = j)
  BY <1>1, <1>3
<1>5. 0 \in T
  BY <1>1
<1>6. ASSUME NEW k \in 1..n, k - 1 \in T PROVE k \in T
  <2> DEFINE a == q[k]
             l == (n + 1) - k
             b == r[l]
  <2>1. l \in 1..n /\ a \in S /\ b \in S
    <3>1. l \in 1..n
      BY <1>1
    <3>2. QED BY <1>1, <3>1
  <2>2. a = b
    <3> SUFFICES ASSUME a # b PROVE FALSE
      OBVIOUS
    <3>1. PICK y \in 1..n : q[y] = b
      BY <1>1, <2>1
    <3>2. PICK x \in 1..n : r[x] = a
      BY <1>1, <2>1
    <3>3. k < y
      <4>1. ASSUME y < k PROVE FALSE
        <5>1. y \in 1..(k - 1) /\ (n + 1) - y \in 1..n /\ (n + 1) - y # l
          BY <1>1, <4>1
        <5>2. q[y] = r[(n + 1) - y]
          BY <1>6, <5>1
        <5>3. QED BY <1>4, <2>1, <3>1, <5>1, <5>2
      <4>2. y # k
        BY <3>1
      <4>3. QED BY <4>1, <4>2
    <3>4. x < l
      <4>1. ASSUME l < x PROVE FALSE
        <5>1. (n + 1) - x \in 1..(k - 1) /\ (n + 1) - ((n + 1) - x) = x /\ (n + 1) - x \in 1..n
              /\ (n + 1) - x # k
          BY <1>1, <4>1
        <5> DEFINE v == (n + 1) - x
        <5>2. q[v] = r[x] /\ v # k /\ v \in 1..n
          BY <1>6, <5>1
        <5> HIDE DEF v
        <5>3. QED BY <1>4, <3>2, <5>2
      <4>2. x # l
        BY <3>2
      <4>3. QED BY <1>1, <4>1, <4>2
    <3>5. b.end <= a.start
      BY <3>1, <3>3
    <3>6. a.end <= b.start
      BY <2>1, <3>2, <3>4
    <3>7. /\ a.start \in Nat /\ a.end \in Nat /\ b.start \in Nat /\ b.end \in Nat
          /\ a.start < a.end /\ b.start < b.end
      BY <1>2, <2>1
    <3> HIDE DEF a, b
    <3>8. QED BY <3>5, <3>6, <3>7
  <2>3. \A j \in 1..k : j \in 1..(k - 1) \/ j = k
    OBVIOUS
  <2>4. \A j \in 1..k : q[j] = r[(n + 1) - j]
    BY <1>6, <2>2, <2>3
  <2>5. QED BY <1>1, <2>4
<1> HIDE DEF T
<1>7. n \in T
  <2>1. \A i \in 0..n : i \in T
    BY <1>1, <1>5, <1>6, Reaches
  <2>2. QED BY <1>1, <2>1
<1>8. QED BY <1>7 DEF T

(* The places of w behind the last cut c are, moved by c, places of the    *)
(* final text, and the inverse map finds their characters.                 *)
FoundBehind(t, w, c, inverse, total) ==
  /\ w \in Seq(0..N) /\ Len(w) + c.new = total + c.prev
  /\ \A p \in 1..Len(w) : p > c.prev /\ w[p] # 0 =>
       t[Remap(((p + c.new) - c.prev) - 1, inverse) + 1] = w[p]

(* inverse takes the places between cut b and place a back. *)
GapIsFound(b, a, inverse) ==
  \A x \in Nat : b.new <= x /\ x < b.new + (a - b.prev) => Remap(x, inverse) = b.prev + (x - b.new)
Agree(u, t, a) == \A p \in 1..a : u[p] = t[p]

LEMMA TurnIsFound ==
  ASSUME NEW t, NEW w, NEW s \in AllSpans, NEW n \in Nat, NEW c \in Cuts, NEW b \in Cuts,
         NEW inverse, NEW total \in Nat, FoundBehind(t, w, c, inverse, total),
         b.prev <= s.start, s.start < s.end, c.prev = s.end, c.new <= total,
         c.new = b.new + (s.start - b.prev) + n,
         GapIsFound(b, s.start, inverse), Agree(Replace(w, s, n), t, s.start)
  PROVE  FoundBehind(t, Replace(w, s, n), b, inverse, total)
<1> DEFINE u == Replace(w, s, n)
           a == s.start
           e == s.end
           At(p, v) == t[Remap(((p + v.new) - v.prev) - 1, inverse) + 1]
<1>1. /\ a \in Nat /\ e \in Nat /\ b.new \in Nat /\ b.prev \in Nat /\ c.new \in Nat /\ c.prev \in Nat
      /\ w \in Seq(0..N) /\ Len(w) \in Nat /\ Len(w) + c.new = total + c.prev
  BY DEF AllSpans, Cuts, FoundBehind
<1>2. /\ a < e /\ c.prev = e /\ b.prev <= a /\ c.new = b.new + (a - b.prev) + n
      /\ GapIsFound(b, a, inverse) /\ Agree(u, t, a)
  OBVIOUS
<1>3. e <= Len(w) /\ a <= e
  BY <1>1, <1>2
<1>4. /\ u \in Seq(0..N) /\ Len(u) = a + n + (Len(w) - e)
      /\ \A p \in 1..Len(u) : u[p] = IF p <= a THEN w[p]
                                     ELSE IF p <= a + n THEN 0 ELSE w[(p - a - n) + e]
  <2>1. 0 \in 0..N
    BY TextAssumption
  <2>2. w \in Seq(0..N) /\ s.start <= s.end /\ s.end <= Len(w)
    BY <1>1, <1>3
  <2>3. /\ Replace(w, s, n) \in Seq(0..N)
        /\ s.start <= s.end /\ s.end <= Len(w) =>
              /\ Len(Replace(w, s, n)) = s.start + n + (Len(w) - s.end)
              /\ \A p \in 1..Len(Replace(w, s, n)) :
                   Replace(w, s, n)[p] = IF p <= s.start THEN w[p]
                                         ELSE IF p <= s.start + n THEN 0
                                         ELSE w[(p - s.start - n) + s.end]
    BY <2>1, <2>2, ReplaceIs, ZenonT(60)
  <2>4. QED BY <2>2, <2>3, Zenon
<1> DEFINE bn == b.new
           bp == b.prev
           cn == c.new
           lw == Len(w)
           lu == Len(u)
<1> HIDE DEF a, e, u
<1>5. /\ a \in Nat /\ e \in Nat /\ bn \in Nat /\ bp \in Nat /\ cn \in Nat /\ lw \in Nat
      /\ lw + cn = total + e /\ cn = bn + (a - bp) + n /\ lu = a + n + (lw - e)
      /\ a < e /\ e <= lw /\ bp <= a
  BY <1>1, <1>2, <1>3, <1>4
<1> HIDE DEF bn, bp, cn, lw, lu
<1>6. Len(u) + b.new = total + b.prev
  <2>1. lu + bn = total + bp
    BY <1>5
  <2>2. QED BY <2>1 DEF lu, bn, bp
<1>7. ASSUME NEW p \in 1..Len(u), p > b.prev, u[p] # 0 PROVE At(p, b) = u[p]
  <2>1. p \in Nat /\ Len(u) \in Nat
    BY <1>4
  <2>2. CASE p <= a
    <3> DEFINE x == ((p + b.new) - b.prev) - 1
    <3>1. x \in Nat /\ b.new <= x /\ x < b.new + (a - b.prev) /\ b.prev + (x - b.new) = p - 1
      <4> DEFINE y == ((p + bn) - bp) - 1
      <4>1. p > bp
        BY <1>7 DEF bp
      <4>2. y \in Nat /\ bn <= y /\ y < bn + (a - bp) /\ bp + (y - bn) = p - 1
        BY <1>5, <2>1, <2>2, <4>1
      <4>3. QED BY <4>2 DEF bn, bp
    <3> HIDE DEF x
    <3>2. Remap(x, inverse) = p - 1
      BY <1>2, <3>1 DEF GapIsFound
    <3>3. Remap(x, inverse) + 1 = p /\ p \in 1..a
      BY <1>1, <2>1, <2>2, <3>2
    <3>4. u[p] = t[p]
      BY <1>2, <3>3 DEF Agree
    <3>5. QED BY <3>3, <3>4 DEF x
  <2>3. CASE p > a
    <3>1. p > a + n
      <4>1. ~(p <= a)
        BY <1>1, <2>1, <2>3
      <4>2. p <= a + n => u[p] = 0
        BY <1>4, <4>1
      <4>3. QED BY <1>1, <1>7, <2>1, <4>2
    <3> DEFINE v == (p - a - n) + e
    <3>2. v \in 1..Len(w) /\ v > c.prev /\ ((v + c.new) - c.prev) - 1 = ((p + b.new) - b.prev) - 1
      <4>1. p <= lu
        BY <2>1 DEF lu
      <4>2. v \in Nat /\ v > e
        BY <1>5, <2>1, <3>1
      <4>3. v <= lw
        BY <1>5, <2>1, <3>1, <4>1
      <4>4. ((v + cn) - e) - 1 = ((p + bn) - bp) - 1
        BY <1>5, <2>1, <3>1
      <4>5. v \in 1..lw
        BY <1>5, <4>2, <4>3
      <4> HIDE DEF v
      <4>6. QED BY <1>2, <4>2, <4>4, <4>5 DEF lw, cn, bn, bp
    <3>3. ~(p <= a) /\ ~(p <= a + n)
      BY <1>1, <2>1, <2>3, <3>1
    <3>4. u[p] = w[v]
      BY <1>4, <3>3
    <3> HIDE DEF v
    <3>5. At(v, c) = w[v]
      BY <1>7, <3>2, <3>4 DEF FoundBehind
    <3>6. At(v, c) = At(p, b)
      BY <3>2
    <3>7. QED BY <3>4, <3>5, <3>6
  <2>4. QED BY <1>1, <2>1, <2>2, <2>3
<1>8. FoundBehind(t, u, b, inverse, total)
  BY <1>4, <1>6, <1>7 DEF FoundBehind
<1>9. QED BY <1>8 DEF u

(* inverse_position_remap inverts apply_spans. *)
LEMMA InverseFinds ==
  ASSUME NEW t \in Seq(0..N), Rising(t), NEW S, IsLayout(Len(t), S), NEW length \in [S -> Nat]
  PROVE  LET u == apply_spans(t, S, length)
             inverse == inverse_position_remap(Len(t), S, length)
         IN  /\ IsMap(inverse, Len(u), Len(t))
             /\ \A p \in 1..Len(u) : u[p] # 0 => t[Remap(p - 1, inverse) + 1] = u[p]
<1> DEFINE n == Cardinality(S)
           m == Len(t)
           inverse == inverse_position_remap(m, S, length)
           u == apply_spans(t, S, length)
<1>1. m \in Nat
  OBVIOUS
<1>2. PICK q, g : ApplyTurns(t, S, length, q, g)
  BY ApplyHasTurns
<1>3. PICK r, h : CutTurns(S, length, r, h)
  BY <1>1, CutHasTurns
<1>4. /\ n \in Nat /\ q \in [1..n -> S] /\ g[0] = t /\ g[n] = u
      /\ r \in [1..n -> S] /\ h \in [0..n -> Cuts] /\ h[0] = NoCut
  BY <1>2, <1>3 DEF ApplyTurns, CutTurns, IsListOf
<1>5. \A k \in 1..n : q[k] = r[(n + 1) - k]
  BY <1>1, <1>2, <1>3, OrdersMirror, SMTT(30) DEF ApplyTurns, CutTurns
<1>6. AfterCuts(length, r, h, n)
  <2>1. n \in 0..n
    BY <1>4
  <2>2. QED BY <1>1, <1>3, <2>1, CutsMap
<1> DEFINE c == h[n]
           total == c.new + (m - c.prev)
<1>7. /\ c.prev <= m /\ IsMap(inverse, total, m)
      /\ \A j \in 1..n : MapsGap(inverse, r, h, j)
      /\ \A x \in Nat : c.new <= x /\ x < total => Remap(x, inverse) = c.prev + (x - c.new)
  BY <1>1, <1>3, InverseMaps
<1>8. c.new \in Nat /\ c.prev \in Nat /\ total \in Nat /\ c.new <= total
  <2>1. c \in Cuts
    BY <1>4
  <2>2. c.new \in Nat /\ c.prev \in Nat
    BY <2>1 DEF Cuts
  <2>3. QED BY <1>1, <1>7, <2>2
<1> HIDE DEF inverse, u, c, total
<1> DEFINE T == {k \in 0..n : FoundBehind(t, g[k], h[n - k], inverse, total)}
<1>9. 0 \in T
  <2>1. m + c.new = total + c.prev
    BY <1>1, <1>8 DEF total
  <2>2. ASSUME NEW p \in 1..m, p > c.prev
        PROVE  Remap(((p + c.new) - c.prev) - 1, inverse) + 1 = p
    <3> DEFINE x == ((p + c.new) - c.prev) - 1
    <3>1. x \in Nat /\ c.new <= x /\ x < total /\ c.prev + (x - c.new) = p - 1
      <4> DEFINE v == c.new
                 w == c.prev
      <4>1. m \in Nat /\ v \in Nat /\ w \in Nat /\ total \in Nat /\ p \in 1..m /\ p > w /\ m + v = total + w
        BY <1>1, <1>8, <2>1, <2>2
      <4> HIDE DEF v, w
      <4>2. ((p + v) - w) - 1 \in Nat /\ v <= ((p + v) - w) - 1 /\ ((p + v) - w) - 1 < total
            /\ w + ((((p + v) - w) - 1) - v) = p - 1
        BY <4>1
      <4>3. QED BY <4>2 DEF v, w
    <3> HIDE DEF x
    <3>2. Remap(x, inverse) = p - 1
      BY <1>7, <3>1
    <3>3. QED BY <3>2 DEF x
  <2>3. FoundBehind(t, t, c, inverse, total)
    BY <2>1, <2>2 DEF FoundBehind
  <2>4. n - 0 = n /\ 0 \in 0..n
    BY <1>4
  <2>5. QED BY <1>4, <2>3, <2>4 DEF c
<1>10. ASSUME NEW k \in 1..n, k - 1 \in T PROVE k \in T
  <2> DEFINE i == (n + 1) - k
             s == q[k]
             w == g[k - 1]
             a == h[i]
             b == h[i - 1]
             l == length[s]
  <2>1. /\ i \in 1..n /\ i \in 0..n /\ i - 1 \in 0..n /\ n - (k - 1) = i /\ n - k = i - 1
        /\ k \in 0..n /\ k - 1 \in 0..n
    BY <1>4
  <2>2. FoundBehind(t, w, a, inverse, total)
    BY <1>10, <2>1
  <2>3. s = r[i] /\ s \in S /\ l \in Nat /\ a \in Cuts /\ b \in Cuts
    BY <1>4, <1>5, <2>1
  <2>4. s \in AllSpans /\ s.start < s.end
    BY <2>3 DEF IsLayout, IsSpan
  <2>5. b.prev <= s.start /\ a.prev = s.end /\ a.new = b.new + (s.start - b.prev) + l
    BY <1>6, <2>1, <2>3 DEF AfterCuts
  <2>6. a.new <= total
    <3>1. a.new <= c.new /\ a.new \in Nat
      BY <1>6, <2>1, <2>3 DEF AfterCuts, c, Cuts
    <3>2. QED BY <1>8, <3>1
  <2>7. GapIsFound(b, s.start, inverse)
    BY <1>7, <2>1, <2>3 DEF MapsGap, GapIsFound
  <2>8. g[k] = Replace(w, s, l)
    BY <1>2 DEF ApplyTurns
  <2>9. Agree(g[k], t, s.start)
    <3>1. AfterTurns(t, q, k, g[k])
      BY <1>2, <2>1, EachTurnTakes
    <3>2. s.start \in Nat /\ k # 0
      BY <2>4 DEF AllSpans
    <3>3. QED BY <3>1, <3>2 DEF AfterTurns, Agree
  <2> HIDE DEF i, s, w, a, b, l
  <2>10. FoundBehind(t, Replace(w, s, l), b, inverse, total)
    BY <1>8, <2>2, <2>3, <2>4, <2>5, <2>6, <2>7, <2>8, <2>9, TurnIsFound
  <2>11. FoundBehind(t, g[k], h[n - k], inverse, total)
    BY <2>1, <2>8, <2>10 DEF b
  <2>12. QED BY <2>1, <2>11
<1> HIDE DEF T
<1>11. n \in T
  <2>1. \A k \in 0..n : k \in T
    BY <1>4, <1>9, <1>10, Reaches
  <2>2. QED BY <1>4, <2>1
<1>12. FoundBehind(t, u, NoCut, inverse, total)
  <2>1. n - n = 0
    BY <1>4
  <2>2. QED BY <1>4, <1>11, <2>1 DEF T
<1>13. u \in Seq(0..N) /\ Len(u) \in Nat /\ Len(u) = total
  <2>1. u \in Seq(0..N) /\ Len(u) + 0 = total + 0
    BY <1>12 DEF FoundBehind, NoCut
  <2>2. QED BY <1>8, <2>1
<1>14. ASSUME NEW p \in 1..Len(u), u[p] # 0 PROVE t[Remap(p - 1, inverse) + 1] = u[p]
  <2>1. NoCut.new = 0 /\ NoCut.prev = 0
    BY DEF NoCut
  <2>2. p > 0 /\ ((p + 0) - 0) - 1 = p - 1
    BY <1>13
  <2>3. t[Remap(((p + NoCut.new) - NoCut.prev) - 1, inverse) + 1] = u[p]
    BY <1>12, <1>14, <2>1, <2>2 DEF FoundBehind
  <2>4. QED BY <2>1, <2>2, <2>3
<1>15. IsMap(inverse, Len(u), m)
  BY <1>7, <1>13
<1>16. QED BY <1>14, <1>15 DEF u, inverse

-----------------------------------------------------------------------------
(* What MapsBack rests on: the composed map takes the places of the text   *)
(* back in their order, and each character of the original to its place.   *)
Traced ==
  /\ layers \in Seq(Seq(Segments))
  /\ \A p \in Surviving : Origin(layers, p - 1) + 1 = text[p]
  /\ \A x, y \in 0..(Len(text) - 1) : x <= y =>
       /\ Origin(layers, x) \in Nat /\ Origin(layers, y) \in Nat
       /\ Origin(layers, x) <= Origin(layers, y)
MapsInvariant ==
  /\ ExactInvariant
  /\ pc = "new" => layers = <<>> /\ found = {}
  /\ clean /\ (pc \in {"new", "policy"} \/ layers # <<>>) => Traced
  /\ ReportCovers

LEMMA ApplyNothing ==
  ASSUME NEW t \in Seq(0..N), NEW length \in [{} -> Nat]
  PROVE  apply_spans(t, {}, length) = t
<1> DEFINE S == {}
<1>1. IsLayout(Len(t), S) /\ Cardinality(S) = 0 /\ length \in [S -> Nat]
  BY FS_EmptySet DEF IsLayout, Disjoint
<1> HIDE DEF S
<1>2. PICK q, g : ApplyTurns(t, S, length, q, g)
  BY <1>1, ApplyHasTurns
<1>3. apply_spans(t, S, length) = t
  BY <1>1, <1>2 DEF ApplyTurns
<1>4. QED BY <1>3 DEF S

(* A field's spans cover, where they were, what it substitutes. *)
LEMMA RunIsReported ==
  ASSUME IsText, Traced, ReportCovers, clean, NEW S, IsLayout(Len(text), S), Run(S)
  PROVE  ReportCovers'
<1>0. Positions(S) \cap 0..(Len(text) - 1) = Positions(S)
  BY LayoutInText DEF IsText
<1>1. /\ found' = found \cup ({text[p + 1] : p \in Positions(S)} \ {0})
      /\ spans' = spans \cup {Recast(s) : s \in S}
  BY <1>0 DEF Run, Substitute
<1>2. Len(text) \in Nat /\ DOMAIN text = 1..Len(text)
  BY DEF IsText
<1> SUFFICES ASSUME NEW c \in found' PROVE c - 1 \in Positions(spans')
  BY DEF ReportCovers
<1>3. CASE c \in found
  BY <1>1, <1>3 DEF ReportCovers, Positions
<1>4. CASE c \notin found
  <2>1. PICK s \in S : \E p \in s.start..(s.end - 1) : text[p + 1] = c /\ c # 0
    BY <1>1, <1>4 DEF Positions
  <2>2. PICK p \in s.start..(s.end - 1) : text[p + 1] = c /\ c # 0
    BY <2>1
  <2> DEFINE a == s.start
             e == s.end
             f == Recast(s).start
             l == Recast(s).end
             o == Origin(layers, p)
  <2>3. a \in Nat /\ e \in Nat /\ a < e /\ e <= Len(text)
    BY DEF IsLayout, AllSpans, IsSpan
  <2>4. f = Origin(layers, a) /\ l = Origin(layers, e - 1) + 1
    <3>1. CASE layers = <<>>
      <4>1. Recast(s) = s
        BY <3>1 DEF Recast
      <4>2. Origin(layers, a) = a /\ Origin(layers, e - 1) = e - 1
        BY <3>1, OriginOfNone
      <4>3. (e - 1) + 1 = e
        BY <2>3
      <4>4. QED BY <4>1, <4>2, <4>3
    <3>2. CASE layers # <<>>
      BY <3>2 DEF Recast, Span
    <3>3. QED BY <3>1, <3>2
  <2> HIDE DEF a, e, f, l
  <2>5. p \in a..(e - 1)
    BY DEF a, e
  <2>6. /\ p \in 0..(Len(text) - 1) /\ a \in 0..(Len(text) - 1) /\ e - 1 \in 0..(Len(text) - 1)
        /\ a <= p /\ p <= e - 1 /\ p \in Nat
    BY <1>2, <2>3, <2>5
  <2>7. /\ Origin(layers, a) \in Nat /\ o \in Nat /\ Origin(layers, e - 1) \in Nat
        /\ Origin(layers, a) <= o /\ o <= Origin(layers, e - 1)
    BY <2>6 DEF Traced
  <2>8. o + 1 = c
    <3>1. p + 1 \in 1..Len(text) /\ (p + 1) - 1 = p
      BY <1>2, <2>6
    <3>2. p + 1 \in Surviving
      BY <1>2, <2>2, <3>1 DEF Surviving
    <3>3. Origin(layers, (p + 1) - 1) + 1 = text[p + 1]
      BY <3>2 DEF Traced
    <3>4. QED BY <2>2, <3>1, <3>3
  <2> HIDE DEF o
  <2>9. c - 1 = o
    BY <2>7, <2>8
  <2>10. o \in f..(l - 1)
    BY <2>4, <2>7
  <2>11. c - 1 \in Recast(s).start..(Recast(s).end - 1)
    BY <2>9, <2>10 DEF f, l
  <2>12. QED BY <1>1, <2>11 DEF Positions
<1>5. QED BY <1>3, <1>4

LEMMA RunIsTraced ==
  ASSUME IsText, Exact, Traced, NEW S, IsLayout(Len(text), S), Run(S)
  PROVE  Traced'
<1>1. PICK length \in [S -> Lengths] :
        /\ text' = apply_spans(text, S, length)
        /\ layers' = IF S = {} THEN layers
                     ELSE <<inverse_position_remap(Len(text), S, length)>> \o layers
  BY DEF Run, Substitute
<1>2. length \in [S -> Nat] /\ text \in Seq(0..N) /\ Rising(text)
  BY TextAssumption, SurvivingIs DEF IsText
<1>3. CASE S = {}
  <2>1. text' = text /\ layers' = layers
    BY <1>1, <1>2, <1>3, ApplyNothing
  <2>2. QED BY <2>1 DEF Traced, Surviving
<1>4. CASE S # {}
  <2> DEFINE u == apply_spans(text, S, length)
             m == inverse_position_remap(Len(text), S, length)
             n == Len(text)
  <2>1. text' = u /\ layers' = <<m>> \o layers
    BY <1>1, <1>4
  <2>2. /\ IsMap(m, Len(u), n)
        /\ \A p \in 1..Len(u) : u[p] # 0 => text[Remap(p - 1, m) + 1] = u[p]
    BY <1>2, InverseFinds
  <2>3. u \in Seq(0..N)
    BY <1>2, ApplyTakes
  <2> HIDE DEF u, m
  <2>4. m \in Seq(Segments) /\ layers \in Seq(Seq(Segments)) /\ n \in Nat /\ Len(u) \in Nat
    BY <1>2, <2>2, <2>3 DEF IsMap, Traced
  <2>5. \A x : Origin(layers', x) = Origin(layers, Remap(x, m))
    BY <2>1, <2>4, OriginComposes
  <2>6. \A x \in 0..(Len(u) - 1) : Remap(x, m) \in 0..(n - 1)
    BY <2>2 DEF IsMap
  <2>7. (layers \in Seq(Seq(Segments)))'
    <3>1. <<m>> \o layers \in Seq(Seq(Segments))
      <4> DEFINE Z == Seq(Segments)
      <4>1. m \in Z /\ layers \in Seq(Z)
        BY <2>4
      <4> HIDE DEF Z
      <4>2. <<m>> \o layers \in Seq(Z)
        BY <4>1
      <4>3. QED BY <4>2 DEF Z
    <3>2. QED BY <2>1, <3>1
  <2>8. ASSUME NEW p \in Surviving' PROVE Origin(layers', p - 1) + 1 = text'[p]
    <3>1. p \in 1..Len(u) /\ u[p] # 0
      BY <2>1, <2>3, <2>8 DEF Surviving
    <3> DEFINE o == Remap(p - 1, m)
    <3>2. p - 1 \in 0..(Len(u) - 1)
      BY <2>4, <3>1
    <3>3. o \in 0..(n - 1) /\ text[o + 1] = u[p]
      BY <2>2, <2>6, <3>1, <3>2
    <3> HIDE DEF o
    <3>4. o + 1 \in 1..n /\ (o + 1) - 1 = o
      BY <2>4, <3>3
    <3>5. o + 1 \in Surviving
      BY <1>2, <3>1, <3>3, <3>4 DEF Surviving
    <3>6. Origin(layers, (o + 1) - 1) + 1 = text[o + 1]
      BY <3>5 DEF Traced
    <3>7. Origin(layers', p - 1) = Origin(layers, o)
      BY <2>5 DEF o
    <3>8. QED BY <2>1, <3>3, <3>4, <3>6, <3>7
  <2>9. ASSUME NEW x \in 0..(Len(u) - 1), NEW y \in 0..(Len(u) - 1), x <= y
        PROVE  /\ Origin(layers', x) \in Nat /\ Origin(layers', y) \in Nat
               /\ Origin(layers', x) <= Origin(layers', y)
    <3> DEFINE a == Remap(x, m)
               b == Remap(y, m)
    <3>1. a \in 0..(n - 1) /\ b \in 0..(n - 1) /\ a <= b
      BY <2>2, <2>6, <2>9 DEF IsMap
    <3>2. Origin(layers', x) = Origin(layers, a) /\ Origin(layers', y) = Origin(layers, b)
      BY <2>5
    <3> HIDE DEF a, b
    <3>3. QED BY <3>1, <3>2 DEF Traced
  <2>10. QED BY <2>1, <2>7, <2>8, <2>9 DEF Traced
<1>5. QED BY <1>3, <1>4

(* Plain and Consensus report the spans they substitute in the original. *)
LEMMA FirstIsReported ==
  ASSUME pc = "new", ExactInvariant, found = {}, NEW S, NEW length, Substitute(S, length),
         IsLayout(N, S), spans' = S
  PROVE  ReportCovers'
<1>0. Len(text) = N /\ Positions(S) \cap 0..(N - 1) = Positions(S)
  BY FirstText, LayoutInText, ConfidencesAre
<1>1. text = [i \in 1..N |-> i] /\ found' = {text[p + 1] : p \in Positions(S)} \ {0}
  BY <1>0 DEF ExactInvariant, Substitute
<1>2. \A p \in Positions(S) : p \in Nat /\ p + 1 \in 1..N
  <2>1. \A s \in S : s.start \in Nat /\ s.end \in Nat /\ s.end <= N
    BY DEF IsLayout, AllSpans, IsSpan
  <2>2. QED BY <2>1, TextAssumption DEF Positions
<1> DEFINE P == Positions(S)
<1> HIDE DEF P
<1>3. \A p \in P : text[p + 1] = p + 1 /\ (p + 1) - 1 = p
  BY <1>1, <1>2 DEF P
<1>4. \A c \in found' : c - 1 \in P
  <2>1. found' = {text[p + 1] : p \in P} \ {0}
    BY <1>1 DEF P
  <2>2. QED BY <1>3, <2>1
<1>5. QED BY <1>4 DEF ReportCovers, P

LEMMA MapsInit ==
  ASSUME Init PROVE MapsInvariant
<1>1. /\ text = [i \in 1..N |-> i] /\ layers = <<>> /\ found = {} /\ pc = "new"
  BY DEF Init
<1>2. N \in Nat /\ Len(text) = N /\ \A p \in 1..N : text[p] = p /\ (p - 1) + 1 = p
  BY <1>1, TextAssumption
<1>3. Traced
  <2>1. layers \in Seq(Seq(Segments))
    BY <1>1
  <2>2. \A x : Origin(layers, x) = x
    BY <1>1, OriginOfNone
  <2>3. Surviving \subseteq 1..N
    BY <1>1 DEF Surviving
  <2>4. \A p \in Surviving : Origin(layers, p - 1) + 1 = text[p]
    BY <1>2, <2>2, <2>3
  <2>5. \A x \in 0..(Len(text) - 1) : x \in Nat
    OBVIOUS
  <2>6. QED BY <2>1, <2>2, <2>4, <2>5 DEF Traced
<1>4. ReportCovers
  BY <1>1 DEF ReportCovers
<1>5. QED BY <1>1, <1>3, <1>4, ExactInit DEF MapsInvariant

LEMMA MapsStep ==
  ASSUME MapsInvariant, [Next]_vars PROVE MapsInvariant'
<1>1. ExactInvariant /\ ExactInvariant'
  BY ExactStep DEF MapsInvariant
<1>2. CASE Plain
  <2>1. pc = "new" /\ pc' = "done" /\ layers' = <<>> /\ found = {}
    BY <1>2 DEF Plain, MapsInvariant
  <2>2. PICK S : Takes(S)
    BY <1>2, PlainTakes
  <2>3. ReportCovers'
    BY <1>1, <2>1, <2>2, FirstIsReported DEF Takes
  <2>4. QED BY <1>1, <2>1, <2>3 DEF MapsInvariant
<1>3. CASE Consensus
  <2>1. pc = "new" /\ pc' \in {"done", "error"} /\ layers' = <<>> /\ found = {}
    BY <1>3 DEF Consensus, MapsInvariant
  <2>2. ASSUME NEW S, Takes(S) PROVE ReportCovers'
    BY <1>1, <2>1, <2>2, FirstIsReported DEF Takes
  <2>3. ASSUME found' = found PROVE ReportCovers'
    BY <2>1, <2>3 DEF ReportCovers
  <2>4. ReportCovers'
    <3>1. CASE clean'
      BY <1>1, <1>3, <2>1, <2>2, <2>3, <3>1, FirstText, ConsensusIsClean, ConsensusTakes
    <3>2. CASE ~clean'
      BY <3>2 DEF ReportCovers
    <3>3. QED BY <3>1, <3>2
  <2>5. QED BY <1>1, <2>1, <2>4 DEF MapsInvariant
<1>4. CASE Regex \/ Deid \/ Untouched
  <2>1. pc \in {"new", "policy"} /\ pc' = "policy" /\ (clean' => clean)
    BY <1>4, FieldIsClean
  <2>2. ASSUME clean' PROVE Traced' /\ ReportCovers'
    <3>1. clean /\ IsText /\ Exact /\ Traced /\ ReportCovers
      BY <2>1, <2>2 DEF MapsInvariant, ExactInvariant
    <3>2. PICK S : IsLayout(Len(text), S) /\ Run(S)
      BY <1>4, <2>2, <3>1, FieldRuns
    <3>3. QED BY <3>1, <3>2, RunIsTraced, RunIsReported
  <2>3. ReportCovers'
    BY <2>2 DEF ReportCovers
  <2>4. QED BY <1>1, <2>1, <2>2, <2>3 DEF MapsInvariant
<1>5. CASE Fail \/ Return \/ UNCHANGED vars
  <2>1. /\ pc' = pc \/ (pc \in {"new", "policy"} /\ pc' \in {"error", "done"})
        /\ text' = text /\ layers' = layers /\ spans' = spans
        /\ found' = found /\ clean' = clean
    BY <1>5 DEF Fail, Return, vars, result, history
  <2>2. (Traced => Traced') /\ (ReportCovers => ReportCovers')
    BY <2>1 DEF Traced, Surviving, ReportCovers
  <2>3. QED BY <1>1, <2>1, <2>2 DEF MapsInvariant
<1>6. QED BY <1>2, <1>3, <1>4, <1>5 DEF Next

(* The composed inverse maps take every character that survives back to    *)
(* where it was in the original text, and the reported spans cover there   *)
(* every character that was substituted (inverse_position_remap,           *)
(* compose_remaps, Redactor.policy), unless hits of the regex strategy     *)
(* overlapped or Deid, which validates nothing, detected what is no span   *)
(* of the text: for every text, policy, set of detections and length of    *)
(* replacement.                                                            *)
THEOREM MapsLeadBack == Spec => []MapsBack
<1>1. Init => MapsInvariant
  BY MapsInit
<1>2. MapsInvariant /\ [Next]_vars => MapsInvariant'
  BY MapsStep
<1>3. MapsInvariant => MapsBack
  BY DEF MapsInvariant, MapsBack, Aligned, Traced
<1>4. QED BY <1>1, <1>2, <1>3, PTL DEF Spec

-----------------------------------------------------------------------------
(* Folds over finite sets, whose members CHOOSE picks one by one.          *)
Picked(s) == CHOOSE x \in s : TRUE

LEMMA PickedIs ==
  ASSUME NEW D, IsFiniteSet(D), NEW s \in SUBSET D, s # {}
  PROVE  /\ Picked(s) \in s /\ s \ {Picked(s)} \in SUBSET D
         /\ IsFiniteSet(s) /\ Cardinality(s) \in Nat \ {0}
         /\ Cardinality(s \ {Picked(s)}) = Cardinality(s) - 1
<1>1. Picked(s) \in s
  BY DEF Picked
<1> DEFINE x == Picked(s)
<1> HIDE DEF x
<1>2. IsFiniteSet(s) /\ Cardinality(s) \in Nat /\ Cardinality(s) # 0
  BY FS_Subset, FS_CardinalityType, FS_EmptySet
<1>3. Cardinality(s \ {x}) = IF x \in s THEN Cardinality(s) - 1 ELSE Cardinality(s)
  BY <1>2, FS_RemoveElement
<1>4. QED BY <1>1, <1>2, <1>3 DEF x

(* What holds of the empty set, and of a set if of it without what is      *)
(* picked from it, holds of all subsets.                                   *)
LEMMA SubsetsReach ==
  ASSUME NEW D, IsFiniteSet(D), NEW A, {} \in A,
         \A s \in SUBSET D : s # {} /\ s \ {Picked(s)} \in A => s \in A
  PROVE  \A s \in SUBSET D : s \in A
<1> DEFINE n == Cardinality(D)
           T == {i \in 0..n : \A s \in SUBSET D : Cardinality(s) = i => s \in A}
<1>1. n \in Nat /\ \A s \in SUBSET D : IsFiniteSet(s) /\ Cardinality(s) \in 0..n
  <2>1. \A s \in SUBSET D : IsFiniteSet(s) /\ Cardinality(s) <= n /\ Cardinality(s) \in Nat
    BY FS_Subset, FS_CardinalityType
  <2>2. QED BY <2>1, FS_CardinalityType
<1>2. 0 \in T
  <2>1. \A s \in SUBSET D : Cardinality(s) = 0 => s = {}
    BY <1>1, FS_EmptySet
  <2>2. 0 \in 0..n
    BY <1>1
  <2> HIDE DEF n
  <2>3. QED BY <2>1, <2>2
<1>3. ASSUME NEW i \in 1..n, i - 1 \in T PROVE i \in T
  <2>1. ASSUME NEW s \in SUBSET D, Cardinality(s) = i PROVE s \in A
    <3>1. s # {}
      BY <1>1, <2>1, FS_EmptySet
    <3>2. s \ {Picked(s)} \in SUBSET D /\ Cardinality(s \ {Picked(s)}) = i - 1
      BY <2>1, <3>1, PickedIs
    <3>3. s \ {Picked(s)} \in A
      BY <1>3, <3>2
    <3>4. QED BY <3>1, <3>3
  <2>2. i \in 0..n
    BY <1>1
  <2>3. QED BY <2>1, <2>2
<1> HIDE DEF T
<1>4. \A i \in 0..n : i \in T
  BY <1>1, <1>2, <1>3, Reaches
<1>5. QED BY <1>1, <1>4 DEF T

IsSetFold(h, D, V, b, F) ==
  /\ h \in [SUBSET D -> V]
  /\ h[{}] = b
  /\ \A s \in SUBSET D : s # {} => h[s] = F[Picked(s)][h[s \ {Picked(s)}]]

LEMMA SetFoldExists ==
  ASSUME NEW D, IsFiniteSet(D), NEW V, NEW b \in V, NEW F \in [D -> [V -> V]]
  PROVE  \E h : IsSetFold(h, D, V, b, F)
<1> DEFINE n == Cardinality(D)
           Small(i) == {s \in SUBSET D : Cardinality(s) <= i}
           Folds(i, h) ==
             /\ h \in [Small(i) -> V]
             /\ h[{}] = b
             /\ \A s \in Small(i) : s # {} => h[s] = F[Picked(s)][h[s \ {Picked(s)}]]
           T == {i \in 0..n : \E h : Folds(i, h)}
<1>1. n \in Nat /\ Cardinality({}) = 0 /\ {} \in SUBSET D
  BY FS_CardinalityType, FS_EmptySet
<1>2. \A s \in SUBSET D : Cardinality(s) \in Nat /\ Cardinality(s) <= n /\ (Cardinality(s) = 0 => s = {})
  BY FS_Subset, FS_CardinalityType, FS_EmptySet
<1>3. 0 \in T
  <2> DEFINE z == [s \in Small(0) |-> b]
  <2>1. {} \in Small(0) /\ \A s \in Small(0) : s = {}
    BY <1>1, <1>2
  <2> HIDE DEF Small
  <2>2. z \in [Small(0) -> V] /\ z[{}] = b
    BY <2>1
  <2>3. Folds(0, z)
    BY <2>1, <2>2
  <2> HIDE DEF z, Folds
  <2>4. QED BY <2>3, <1>1
<1>4. ASSUME NEW i \in 1..n, i - 1 \in T PROVE i \in T
  <2>1. PICK h : Folds(i - 1, h)
    BY <1>4
  <2> DEFINE g == [s \in Small(i) |-> IF s \in Small(i - 1) THEN h[s]
                                      ELSE F[Picked(s)][h[s \ {Picked(s)}]]]
  <2>2. {} \in Small(i) /\ {} \in Small(i - 1) /\ Small(i - 1) \subseteq Small(i)
    BY <1>1, <1>2
  <2>3. ASSUME NEW s \in Small(i), s # {}
        PROVE  Picked(s) \in D /\ s \ {Picked(s)} \in Small(i - 1)
    BY <2>3, <1>2, PickedIs
  <2> HIDE DEF Small
  <2>4. \A s \in Small(i) : s # {} => g[s] = F[Picked(s)][h[s \ {Picked(s)}]]
    BY <2>1, <2>2
  <2>5. g \in [Small(i) -> V]
    <3>1. ASSUME NEW s \in Small(i) PROVE g[s] \in V
      <4>1. CASE s \in Small(i - 1)
        BY <2>1, <4>1
      <4>2. CASE s \notin Small(i - 1)
        <5>1. Picked(s) \in D /\ h[s \ {Picked(s)}] \in V
          BY <2>1, <2>2, <2>3, <4>2
        <5>2. F[Picked(s)] \in [V -> V]
          BY <5>1
        <5>3. QED BY <4>2, <5>1, <5>2
      <4>3. QED BY <4>1, <4>2
    <3>2. QED BY <3>1
  <2>6. \A s \in Small(i - 1) : g[s] = h[s]
    BY <2>2
  <2> HIDE DEF g
  <2>7. g[{}] = b
    BY <2>1, <2>2, <2>6
  <2>8. \A s \in Small(i) : s # {} => g[s] = F[Picked(s)][g[s \ {Picked(s)}]]
    BY <2>3, <2>4, <2>6
  <2>9. Folds(i, g)
    BY <2>5, <2>7, <2>8
  <2> HIDE DEF Folds
  <2>10. QED BY <2>9, <1>1
<1> HIDE DEF T
<1>5. n \in T
  <2>1. \A i \in 0..n : i \in T
    BY <1>1, <1>3, <1>4, Reaches
  <2>2. QED BY <1>1, <2>1
<1>6. Small(n) = SUBSET D
  BY <1>2
<1> HIDE DEF Small
<1>7. QED BY <1>5, <1>6 DEF T, IsSetFold

(* A sum over the values of a function, turn by turn. *)
IsSum(h, D, f) ==
  /\ h \in [SUBSET D -> Nat]
  /\ h[{}] = 0 /\ h[D] = SumFunction(f)
  /\ \A s \in SUBSET D : s # {} =>
       Picked(s) \in s /\ h[s] = f[Picked(s)] + h[s \ {Picked(s)}]

LEMMA SumFolds ==
  ASSUME NEW D, IsFiniteSet(D), NEW f \in [D -> Nat]
  PROVE  \E h : IsSum(h, D, f)
<1> DEFINE F == [x \in D |-> [v \in Nat |-> f[x] + v]]
           Turn(x, v) == f[x] + v
           Folds(h) == h = [s \in SUBSET (DOMAIN f) |->
                              IF s = {} THEN 0 ELSE Turn(Picked(s), h[s \ {Picked(s)}])]
           it == CHOOSE h : Folds(h)
<1>1. SumFunction(f) = it[DOMAIN f]
  BY DEF SumFunction, SumFunctionOnSet, FoldFunctionOnSet, MapThenFoldSet, Picked
<1>2. DOMAIN f = D
  OBVIOUS
<1>3. F \in [D -> [Nat -> Nat]] /\ \A x \in D, v \in Nat : F[x][v] = Turn(x, v)
  OBVIOUS
<1> HIDE DEF F
<1>4. PICK g : IsSetFold(g, D, Nat, 0, F)
  BY <1>3, SetFoldExists
<1>5. \A s \in SUBSET D : s # {} => Picked(s) \in s /\ s \ {Picked(s)} \in SUBSET D
  BY DEF Picked
<1> HIDE DEF Turn
<1>6. Folds(g)
  <2>1. \A s \in SUBSET D : g[s] = IF s = {} THEN 0 ELSE Turn(Picked(s), g[s \ {Picked(s)}])
    BY <1>3, <1>4, <1>5 DEF IsSetFold
  <2>2. g = [s \in SUBSET D |-> g[s]]
    BY <1>4 DEF IsSetFold
  <2>3. QED BY <1>2, <2>1, <2>2
<1>7. Folds(it)
  <2> HIDE DEF Folds
  <2>1. QED BY <1>6
<1> HIDE DEF it
<1>8. \A s \in SUBSET D : it[s] = IF s = {} THEN 0 ELSE Turn(Picked(s), it[s \ {Picked(s)}])
  BY <1>2, <1>7
<1>9. DOMAIN it = SUBSET D /\ it = [s \in SUBSET D |-> it[s]]
  BY <1>2, <1>7
<1>10. \A s \in SUBSET D : it[s] \in Nat
  <2> DEFINE A == {s \in SUBSET D : it[s] \in Nat}
  <2>1. {} \in A
    BY <1>8, SMTT(30)
  <2>2. ASSUME NEW s \in SUBSET D, s # {}, s \ {Picked(s)} \in A PROVE s \in A
    <3>1. Picked(s) \in D /\ it[s \ {Picked(s)}] \in Nat
      BY <2>2, <1>5
    <3>2. it[s] = f[Picked(s)] + it[s \ {Picked(s)}]
      BY <2>2, <1>8 DEF Turn
    <3>3. QED BY <3>1, <3>2
  <2> HIDE DEF A
  <2>3. \A s \in SUBSET D : s \in A
    BY <2>1, <2>2, SubsetsReach
  <2>4. QED BY <2>3 DEF A
<1>11. it \in [SUBSET D -> Nat]
  BY <1>9, <1>10
<1>12. QED BY <1>1, <1>2, <1>5, <1>8, <1>11 DEF IsSum, Turn

(* The values of a function are natural numbers, and so is their sum.      *)
LEMMA SumBetween ==
  ASSUME NEW D, IsFiniteSet(D), NEW f \in [D -> Nat], NEW a \in Nat, NEW b \in Nat,
         \A x \in D : a <= f[x] /\ f[x] <= b
  PROVE  /\ SumFunction(f) \in Nat
         /\ a * Cardinality(D) <= SumFunction(f) /\ SumFunction(f) <= b * Cardinality(D)
<1>1. PICK h : IsSum(h, D, f)
  BY SumFolds
<1> DEFINE A == {s \in SUBSET D : a * Cardinality(s) <= h[s] /\ h[s] <= b * Cardinality(s)}
<1>2. {} \in A
  <2>1. a * 0 = 0 /\ b * 0 = 0 /\ Cardinality({}) = 0
    BY FS_EmptySet
  <2>2. QED BY <1>1, <2>1 DEF IsSum
<1>3. ASSUME NEW s \in SUBSET D, s # {}, s \ {Picked(s)} \in A PROVE s \in A
  <2> DEFINE x == Picked(s)
             u == f[x]
             v == h[s \ {x}]
             k == Cardinality(s)
             j == Cardinality(s \ {x})
  <2>1. x \in D /\ h[s] = u + v /\ u \in Nat /\ v \in Nat /\ a <= u /\ u <= b
    BY <1>1, <1>3 DEF IsSum
  <2>2. k \in Nat \ {0} /\ j = k - 1
    BY <1>3, PickedIs
  <2>3. a * j <= v /\ v <= b * j
    BY <1>3
  <2> HIDE DEF x, u, v, k, j
  <2>4. a * k = a * j + a /\ b * k = b * j + b
    BY <2>2
  <2>5. a * j \in Nat /\ b * j \in Nat
    BY <2>2
  <2> DEFINE y == a * j
             z == b * j
  <2>6. y \in Nat /\ z \in Nat /\ y <= v /\ v <= z /\ a * k = y + a /\ b * k = z + b
    BY <2>3, <2>4, <2>5
  <2> HIDE DEF y, z
  <2>7. a * k <= u + v /\ u + v <= b * k
    BY <2>1, <2>6
  <2>8. QED BY <2>1, <2>7 DEF k
<1> HIDE DEF A
<1>4. \A s \in SUBSET D : s \in A
  BY <1>2, <1>3, SubsetsReach
<1>5. QED BY <1>1, <1>4 DEF A, IsSum

LEMMA SumGrows ==
  ASSUME NEW D, IsFiniteSet(D), NEW f \in [D -> Nat], NEW g \in [D -> Nat],
         \A x \in D : f[x] <= g[x]
  PROVE  SumFunction(f) <= SumFunction(g)
<1>1. PICK h : IsSum(h, D, f)
  BY SumFolds
<1>2. PICK l : IsSum(l, D, g)
  BY SumFolds
<1> DEFINE A == {s \in SUBSET D : h[s] <= l[s]}
<1>3. {} \in A
  BY <1>1, <1>2 DEF IsSum
<1>4. ASSUME NEW s \in SUBSET D, s # {}, s \ {Picked(s)} \in A PROVE s \in A
  <2> DEFINE x == Picked(s)
             u == f[x]
             v == h[s \ {x}]
             y == g[x]
             z == l[s \ {x}]
  <2>1. x \in D /\ h[s] = u + v /\ l[s] = y + z
    BY <1>1, <1>2, <1>4 DEF IsSum
  <2>2. u \in Nat /\ v \in Nat /\ y \in Nat /\ z \in Nat /\ u <= y /\ v <= z
    BY <1>1, <1>2, <1>4, <2>1 DEF IsSum
  <2> HIDE DEF u, v, y, z
  <2>3. QED BY <2>1, <2>2
<1> HIDE DEF A
<1>5. \A s \in SUBSET D : s \in A
  BY <1>3, <1>4, SubsetsReach
<1>6. QED BY <1>1, <1>2, <1>5 DEF A, IsSum

(* What a set shares with sets that have no member in common is counted    *)
(* in each of them.                                                        *)
LEMMA SumCounts ==
  ASSUME NEW D, IsFiniteSet(D), NEW E, IsFiniteSet(E), NEW P, NEW f \in [D -> Nat],
         \A x \in D : f[x] = Cardinality(E \cap P[x]),
         \A x, y \in D : x # y => E \cap P[x] \cap P[y] = {}
  PROVE  SumFunction(f) = Cardinality(E \cap UNION {P[x] : x \in D})
<1>1. PICK h : IsSum(h, D, f)
  BY SumFolds
<1> DEFINE Part(s) == E \cap UNION {P[x] : x \in s}
           A == {s \in SUBSET D : h[s] = Cardinality(Part(s))}
<1>2. {} \in A
  <2>1. Part({}) = {} /\ Cardinality({}) = 0 /\ h[{}] = 0
    BY <1>1, FS_EmptySet DEF IsSum
  <2> HIDE DEF Part
  <2>2. h[{}] = Cardinality(Part({}))
    BY <2>1
  <2>3. QED BY <2>2
<1>3. ASSUME NEW s \in SUBSET D, s # {}, s \ {Picked(s)} \in A PROVE s \in A
  <2> DEFINE x == Picked(s)
             u == E \cap P[x]
             v == Part(s \ {x})
  <2>1. x \in D /\ x \in s /\ h[s] = f[x] + h[s \ {x}]
    BY <1>1, <1>3 DEF IsSum
  <2>2. Part(s) = u \cup v
    BY <2>1
  <2>3. u \cap v = {}
    BY <2>1
  <2>4. IsFiniteSet(u) /\ IsFiniteSet(v)
    BY FS_Subset
  <2>5. h[s] = Cardinality(u) + Cardinality(v)
    BY <1>3, <2>1
  <2> HIDE DEF x, u, v
  <2>6. Cardinality(u \cup v) = Cardinality(u) + Cardinality(v) - Cardinality(u \cap v)
    BY <2>4, FS_Union
  <2>7. Cardinality(u) \in Nat /\ Cardinality(v) \in Nat /\ Cardinality(u \cap v) = 0
    BY <2>3, <2>4, FS_CardinalityType, FS_EmptySet
  <2> DEFINE i == Cardinality(u)
             j == Cardinality(v)
  <2>8. Cardinality(u \cup v) = i + j
    <3>1. i \in Nat /\ j \in Nat /\ Cardinality(u \cup v) = i + j - Cardinality(u \cap v)
      BY <2>6, <2>7
    <3> HIDE DEF i, j
    <3>2. QED BY <2>7, <3>1
  <2>9. h[s] = Cardinality(Part(s))
    BY <2>2, <2>5, <2>8
  <2>10. QED BY <2>9
<1> HIDE DEF A
<1>4. \A s \in SUBSET D : s \in A
  BY <1>2, <1>3, SubsetsReach
<1>5. QED BY <1>1, <1>4 DEF A, IsSum

-----------------------------------------------------------------------------
(* Runs of characters, and what they cover.                                *)

(* Quotients: of numbers in order, of a multiple, and below a multiple.    *)
LEMMA Quotients ==
  ASSUME NEW m \in Nat, NEW l \in Nat, NEW d \in Nat \ {0}, NEW u \in Nat
  PROVE  /\ m \div d \in Nat
         /\ m <= l => m \div d <= l \div d
         /\ m <= u * d => m \div d <= u
         /\ (u * d) \div d = u
<1>1. \A x \in Nat : x \div d \in Nat /\ \E r \in 0..(d - 1) : x = d * (x \div d) + r
  <2>1. \A x \in Nat : x \div d \in Nat /\ x % d \in 0..(d - 1) /\ x = d * (x \div d) + (x % d)
    OBVIOUS
  <2>2. QED BY <2>1
<1>2. ASSUME NEW x \in Nat, NEW y \in Nat, d * x <= d * y + (d - 1) PROVE x <= y
  <2>1. CASE x >= y + 1
    <3>1. PICK z \in Nat : x = y + 1 + z
      <4>1. x - (y + 1) \in Nat /\ x = y + 1 + (x - (y + 1))
        BY <2>1
      <4>2. QED BY <4>1
    <3>2. d * x = d * y + d + d * z /\ d * z \in Nat /\ d * y \in Nat
      BY <3>1
    <3>3. QED BY <1>2, <3>2
  <2>2. QED BY <2>1
<1>3. ASSUME NEW x \in Nat, NEW y \in Nat, x <= y PROVE x \div d <= y \div d
  <2> DEFINE v == x \div d
             w == y \div d
  <2>1. v \in Nat /\ w \in Nat /\ d * v <= d * w + (d - 1)
    <3>1. PICK r \in 0..(d - 1) : x = d * v + r
      BY <1>1
    <3>2. PICK t \in 0..(d - 1) : y = d * w + t
      BY <1>1
    <3>3. v \in Nat /\ w \in Nat
      BY <1>1
    <3> HIDE DEF v, w
    <3> DEFINE i == d * v
               j == d * w
    <3>4. i \in Nat /\ j \in Nat
      BY <3>3
    <3>5. x = i + r /\ y = j + t
      BY <3>1, <3>2
    <3> HIDE DEF i, j
    <3>6. i <= j + (d - 1)
      BY <1>3, <3>4, <3>5
    <3>7. QED BY <3>3, <3>6 DEF i, j
  <2> HIDE DEF v, w
  <2>2. v <= w
    BY <1>2, <2>1
  <2>3. QED BY <2>2 DEF v, w
<1>4. (u * d) \div d = u
  <2> DEFINE v == (u * d) \div d
  <2>1. v \in Nat /\ \E r \in 0..(d - 1) : u * d = d * v + r
    BY <1>1
  <2> HIDE DEF v
  <2>2. u * d = d * u /\ d * u \in Nat /\ d * v \in Nat
    BY <2>1
  <2>3. d * u <= d * v + (d - 1) /\ d * v <= d * u + (d - 1)
    BY <2>1, <2>2
  <2>4. u <= v /\ v <= u
    BY <1>2, <2>1, <2>3
  <2>5. QED BY <2>1, <2>4 DEF v
<1>5. m <= u * d => m \div d <= u
  <2>1. u * d \in Nat
    OBVIOUS
  <2>2. QED BY <1>3, <1>4, <2>1
<1>6. QED BY <1>1, <1>3, <1>4, <1>5

(* Disjoint runs of n characters, in order, that do not touch.             *)
AreRuns(n, R) ==
  /\ Len(R) \in Nat /\ R \in [1..Len(R) -> Nat \X Nat]
  /\ \A k \in 1..Len(R) : R[k][1] < R[k][2] /\ R[k][2] <= n
  /\ \A j, k \in 1..Len(R) : j < k => R[j][2] < R[k][1]

(* A span of an annotation or of a prediction. *)
Labelled == [start : Nat, end : Nat, red : BOOLEAN]
Proper == {s \in Labelled : s.start < s.end}

LEMMA ExtentIs ==
  ASSUME NEW s \in Labelled, s.start < s.end
  PROVE  /\ IsFiniteSet(Extent(s)) /\ Cardinality(Extent(s)) = s.end - s.start
         /\ s.end - s.start \in Nat \ {0} /\ s.start \in Extent(s)
<1> DEFINE a == s.start
           b == s.end
<1>1. a \in Nat /\ b \in Nat /\ a < b /\ Extent(s) = a..(b - 1)
  BY DEF Labelled, Extent
<1> HIDE DEF a, b
<1>2. IsFiniteSet(a..(b - 1)) /\ Cardinality(a..(b - 1)) = (b - 1) - a + 1
  <2>1. a \in Int /\ b - 1 \in Int /\ ~(a > b - 1)
    BY <1>1
  <2>2. QED BY <2>1, FS_Interval
<1>3. (b - 1) - a + 1 = b - a /\ b - a \in Nat \ {0} /\ a \in a..(b - 1)
  BY <1>1
<1>4. QED BY <1>1, <1>2, <1>3 DEF a, b

(* The overlap of a span with a run. *)
LEMMA OverlapIs ==
  ASSUME NEW s \in Labelled, s.start < s.end, NEW r \in Nat \X Nat
  PROVE  /\ Overlap(s, r) \in Nat
         /\ Overlap(s, r) = Cardinality(Extent(s) \cap (r[1]..(r[2] - 1)))
<1> DEFINE x == s.start
           y == s.end
           p == r[1]
           q == r[2]
           a == IF x < p THEN p ELSE x
           b == IF y < q THEN y ELSE q
<1>1. x \in Nat /\ y \in Nat /\ p \in Nat /\ q \in Nat /\ Extent(s) = x..(y - 1)
  BY DEF Labelled, Extent
<1>2. Overlap(s, r) = IF a < b THEN b - a ELSE 0
  BY DEF Overlap
<1> HIDE DEF x, y, p, q
<1>3. a \in Nat /\ b \in Nat /\ (x..(y - 1)) \cap (p..(q - 1)) = a..(b - 1)
  BY <1>1
<1>4. Cardinality(a..(b - 1)) = IF a < b THEN b - a ELSE 0
  <2> HIDE DEF a, b
  <2>1. a \in Int /\ b - 1 \in Int /\ (a > b - 1 <=> ~(a < b)) /\ (b - 1) - a + 1 = b - a
    BY <1>3
  <2>2. QED BY <2>1, FS_Interval
<1>5. (IF a < b THEN b - a ELSE 0) \in Nat
  <2> HIDE DEF a, b
  <2>1. QED BY <1>3
<1> HIDE DEF a, b
<1>6. QED BY <1>1, <1>2, <1>3, <1>4, <1>5 DEF p, q

LEMMA InIs ==
  ASSUME NEW n, NEW R, AreRuns(n, R)
  PROVE  /\ DOMAIN R = 1..Len(R) /\ IsFiniteSet(1..Len(R))
         /\ In(R) = UNION {R[k][1]..(R[k][2] - 1) : k \in 1..Len(R)}
<1>1. Len(R) \in Nat /\ DOMAIN R = 1..Len(R) /\ ToSet(R) = {R[k] : k \in 1..Len(R)}
  BY DEF AreRuns, ToSet
<1>2. IsFiniteSet(1..Len(R))
  BY <1>1, FS_Interval
<1>3. QED BY <1>1, <1>2 DEF In

(* The characters of a span that are in runs: coverage counts them run by  *)
(* run.                                                                    *)
LEMMA CoverageIs ==
  ASSUME NEW n \in Nat, NEW R, AreRuns(n, R), NEW s \in Labelled, s.start < s.end
  PROVE  /\ coverage(s, R) = (Unit * Cardinality(Extent(s) \cap In(R))) \div (s.end - s.start)
         /\ IsFiniteSet(Extent(s) \cap In(R))
<1> DEFINE D == 1..Len(R)
           P == [k \in D |-> R[k][1]..(R[k][2] - 1)]
           f == [k \in D |-> Overlap(s, R[k])]
           E == Extent(s)
<1>1. DOMAIN R = D /\ IsFiniteSet(D) /\ In(R) = UNION {P[k] : k \in D}
  BY InIs
<1>2. IsFiniteSet(E)
  BY ExtentIs
<1>3. \A k \in D : R[k] \in Nat \X Nat
  BY DEF AreRuns
<1>4. f \in [D -> Nat] /\ \A k \in D : f[k] = Cardinality(E \cap P[k])
  BY <1>3, OverlapIs
<1>5. ASSUME NEW j \in D, NEW k \in D, j # k PROVE E \cap P[j] \cap P[k] = {}
  <2>1. j < k \/ k < j
    BY <1>5 DEF AreRuns
  <2>2. R[j][2] < R[k][1] \/ R[k][2] < R[j][1]
    BY <2>1 DEF AreRuns
  <2> DEFINE a == R[j][1]
             b == R[j][2]
             c == R[k][1]
             d == R[k][2]
  <2>3. a \in Nat /\ b \in Nat /\ c \in Nat /\ d \in Nat /\ P[j] = a..(b - 1) /\ P[k] = c..(d - 1)
    BY <1>3
  <2>4. b < c \/ d < a
    BY <2>2
  <2> HIDE DEF a, b, c, d
  <2>5. (a..(b - 1)) \cap (c..(d - 1)) = {}
    BY <2>3, <2>4
  <2>6. QED BY <2>3, <2>5
<1>6. coverage(s, R) = (Unit * SumFunction(f)) \div (s.end - s.start)
  BY <1>1 DEF coverage
<1> HIDE DEF f, P, D, E
<1>7. SumFunction(f) = Cardinality(E \cap UNION {P[k] : k \in D})
  BY <1>1, <1>2, <1>4, <1>5, SumCounts
<1>8. IsFiniteSet(E \cap In(R))
  BY <1>2, FS_Subset
<1>9. QED BY <1>1, <1>6, <1>7, <1>8 DEF E

LEMMA CoverageBounds ==
  ASSUME NEW n \in Nat, NEW R, AreRuns(n, R), NEW s \in Proper
  PROVE  /\ coverage(s, R) \in Nat /\ coverage(s, R) <= Unit
         /\ Extent(s) \subseteq In(R) => coverage(s, R) = Unit
         /\ Extent(s) \cap In(R) = {} => coverage(s, R) = 0
<1> DEFINE E == Extent(s)
           d == s.end - s.start
           C == E \cap In(R)
           m == Cardinality(C)
<1>1. Unit \in Nat /\ d \in Nat \ {0} /\ IsFiniteSet(E) /\ Cardinality(E) = d
  BY ScoreAssumption, ExtentIs DEF Proper
<1>2. coverage(s, R) = (Unit * m) \div d /\ IsFiniteSet(C)
  BY CoverageIs DEF Proper
<1>3. C \subseteq E
  OBVIOUS
<1>4. /\ E \subseteq In(R) => C = E
      /\ E \cap In(R) = {} => C = {}
  OBVIOUS
<1> HIDE DEF E, d, C
<1>5. m \in Nat /\ m <= d /\ (C = {} => m = 0)
  BY <1>1, <1>2, <1>3, FS_Subset, FS_CardinalityType, FS_EmptySet
<1> HIDE DEF m
<1>6. Unit * m \in Nat /\ Unit * m <= Unit * d /\ Unit * 0 = 0 /\ 0 \div d = 0
  <2>1. PICK z \in Nat : d = m + z
    <3>1. d - m \in Nat /\ d = m + (d - m)
      BY <1>1, <1>5
    <3>2. QED BY <3>1
  <2>2. Unit * d = Unit * m + Unit * z /\ Unit * m \in Nat /\ Unit * z \in Nat
    BY <1>1, <1>5, <2>1
  <2>3. (0 * d) \div d = 0 /\ 0 * d = 0
    BY <1>1, Quotients
  <2>4. Unit * m <= Unit * d
    <3> DEFINE x == Unit * m
               y == Unit * z
    <3>1. x \in Nat /\ y \in Nat /\ Unit * d = x + y
      BY <2>2
    <3> HIDE DEF x, y
    <3>2. x <= Unit * d
      BY <3>1
    <3>3. QED BY <3>2 DEF x
  <2>5. QED BY <1>1, <2>2, <2>3, <2>4
<1>7. (Unit * m) \div d \in Nat /\ (Unit * m) \div d <= Unit /\ (Unit * d) \div d = Unit
  BY <1>1, <1>6, Quotients
<1>8. (C = E => m = d) /\ (C = {} => (Unit * m) \div d = 0)
  BY <1>1, <1>5, <1>6 DEF m
<1>9. QED BY <1>2, <1>4, <1>7, <1>8 DEF E, C

LEMMA CoverageGrows ==
  ASSUME NEW n \in Nat, NEW R, AreRuns(n, R), NEW Q, AreRuns(n, Q), NEW s \in Proper,
         Extent(s) \cap In(R) \subseteq In(Q)
  PROVE  coverage(s, R) <= coverage(s, Q)
<1> DEFINE d == s.end - s.start
           B == Extent(s) \cap In(R)
           C == Extent(s) \cap In(Q)
           m == Cardinality(B)
           l == Cardinality(C)
<1>1. Unit \in Nat /\ d \in Nat \ {0}
  BY ScoreAssumption, ExtentIs DEF Proper
<1>2. /\ coverage(s, R) = (Unit * m) \div d /\ IsFiniteSet(B)
      /\ coverage(s, Q) = (Unit * l) \div d /\ IsFiniteSet(C)
  BY CoverageIs DEF Proper
<1>3. B \subseteq C
  OBVIOUS
<1> HIDE DEF d, B, C
<1>4. m \in Nat /\ l \in Nat /\ m <= l
  BY <1>2, <1>3, FS_Subset, FS_CardinalityType
<1> HIDE DEF m, l
<1>5. PICK z \in Nat : l = m + z
  <2>1. l - m \in Nat /\ l = m + (l - m)
    BY <1>4
  <2>2. QED BY <2>1
<1> DEFINE x == Unit * m
           y == Unit * z
<1>6. Unit * l = x + y /\ x \in Nat /\ y \in Nat
  BY <1>1, <1>4, <1>5
<1>7. Unit * m \in Nat /\ Unit * l \in Nat /\ Unit * m <= Unit * l
  <2>1. Unit * m = x
    OBVIOUS
  <2> HIDE DEF x, y
  <2>2. x + y \in Nat /\ x <= x + y
    BY <1>6
  <2>3. QED BY <1>6, <2>1, <2>2
<1>8. QED BY <1>1, <1>2, <1>7, Quotients

LEMMA MeanBounds ==
  ASSUME NEW n \in Nat, NEW R, AreRuns(n, R),
         NEW S \in SUBSET Proper, IsFiniteSet(S), S # {}
  PROVE  /\ MeanCoverage(S, R) \in Nat /\ MeanCoverage(S, R) <= Unit
         /\ (\A s \in S : Extent(s) \subseteq In(R)) => MeanCoverage(S, R) = Unit
         /\ (\A s \in S : Extent(s) \cap In(R) = {}) => MeanCoverage(S, R) = 0
<1> DEFINE f == [s \in S |-> coverage(s, R)]
           d == Cardinality(S)
           m == SumFunction(f)
<1>1. Unit \in Nat /\ d \in Nat \ {0}
  BY ScoreAssumption, FS_CardinalityType, FS_EmptySet
<1>2. /\ \A s \in S : 0 <= f[s] /\ f[s] <= Unit
      /\ f \in [S -> Nat]
      /\ (\A s \in S : Extent(s) \subseteq In(R)) => \A s \in S : Unit <= f[s]
      /\ (\A s \in S : Extent(s) \cap In(R) = {}) => \A s \in S : f[s] <= 0
  BY CoverageBounds, <1>1
<1>3. MeanCoverage(S, R) = m \div d
  BY DEF MeanCoverage
<1> HIDE DEF f
<1>4. m \in Nat /\ m <= Unit * d
  BY <1>1, <1>2, SumBetween
<1>5. (\A s \in S : Unit <= f[s]) => Unit * d <= m
  BY <1>1, <1>2, SumBetween
<1>6. (\A s \in S : f[s] <= 0) => m <= 0 * d
  BY <1>1, <1>2, SumBetween
<1> HIDE DEF m, d
<1>7. m \div d \in Nat /\ m \div d <= Unit /\ (Unit * d) \div d = Unit /\ (0 * d) \div d = 0
  BY <1>1, <1>4, Quotients
<1>8. Unit * d \in Nat /\ 0 * d = 0
  BY <1>1
<1>9. (Unit * d <= m => m = Unit * d) /\ (m <= 0 => m = 0 * d)
  <2> DEFINE y == Unit * d
  <2>1. y \in Nat /\ m <= y
    BY <1>4, <1>8
  <2> HIDE DEF y
  <2>2. (y <= m => m = y) /\ (m <= 0 => m = 0)
    BY <1>4, <2>1
  <2>3. QED BY <1>8, <2>2 DEF y
<1>10. QED BY <1>2, <1>3, <1>5, <1>6, <1>7, <1>8, <1>9

LEMMA MeanGrows ==
  ASSUME NEW n \in Nat, NEW R, AreRuns(n, R), NEW Q, AreRuns(n, Q),
         NEW S \in SUBSET Proper, IsFiniteSet(S), S # {},
         \A s \in S : Extent(s) \cap In(R) \subseteq In(Q)
  PROVE  MeanCoverage(S, R) <= MeanCoverage(S, Q)
<1> DEFINE f == [s \in S |-> coverage(s, R)]
           g == [s \in S |-> coverage(s, Q)]
           d == Cardinality(S)
<1>1. Unit \in Nat /\ d \in Nat \ {0}
  BY ScoreAssumption, FS_CardinalityType, FS_EmptySet
<1>2. f \in [S -> Nat] /\ g \in [S -> Nat] /\ \A s \in S : f[s] <= g[s]
  BY CoverageBounds, CoverageGrows
<1>3. /\ \A s \in S : 0 <= f[s] /\ f[s] <= Unit
      /\ \A s \in S : 0 <= g[s] /\ g[s] <= Unit
  BY CoverageBounds, <1>1
<1>4. MeanCoverage(S, R) = SumFunction(f) \div d /\ MeanCoverage(S, Q) = SumFunction(g) \div d
  BY DEF MeanCoverage
<1> HIDE DEF f, g, d
<1>5. SumFunction(f) \in Nat /\ SumFunction(g) \in Nat
  BY <1>1, <1>2, <1>3, SumBetween
<1>6. SumFunction(f) <= SumFunction(g)
  BY <1>2, SumGrows
<1>7. QED BY <1>1, <1>4, <1>5, <1>6, Quotients

(* Runs of the same characters cover the same. *)
LEMMA MeanSame ==
  ASSUME NEW n \in Nat, NEW R, AreRuns(n, R), NEW Q, AreRuns(n, Q), In(R) = In(Q),
         NEW S \in SUBSET Proper, IsFiniteSet(S), S # {}
  PROVE  MeanCoverage(S, R) = MeanCoverage(S, Q)
<1>1. MeanCoverage(S, R) <= MeanCoverage(S, Q) /\ MeanCoverage(S, Q) <= MeanCoverage(S, R)
  BY MeanGrows
<1>2. MeanCoverage(S, R) \in Nat /\ MeanCoverage(S, Q) \in Nat
  BY MeanBounds
<1>3. QED BY <1>1, <1>2

LEMMA InOrderIsOrder ==
  \A a, b, c \in Labelled :
    /\ ~InOrder(a, a)
    /\ InOrder(a, b) /\ InOrder(b, c) => InOrder(a, c)
    /\ a = b \/ InOrder(a, b) \/ InOrder(b, a)
    /\ InOrder(a, b) => a.start <= b.start
<1> SUFFICES ASSUME NEW a \in Labelled, NEW b \in Labelled, NEW c \in Labelled
             PROVE  /\ ~InOrder(a, a)
                    /\ InOrder(a, b) /\ InOrder(b, c) => InOrder(a, c)
                    /\ a = b \/ InOrder(a, b) \/ InOrder(b, a)
                    /\ InOrder(a, b) => a.start <= b.start
  OBVIOUS
<1>1. ~InOrder(a, a)
  BY DEF InOrder, Labelled
<1>2. InOrder(a, b) /\ InOrder(b, c) => InOrder(a, c)
  BY DEF InOrder, Labelled
<1>3. ASSUME ~InOrder(a, b), ~InOrder(b, a) PROVE a = b
  <2>1. a.start = b.start /\ a.end = b.end
    BY <1>3 DEF InOrder, Labelled
  <2>2. a.red \in BOOLEAN /\ b.red \in BOOLEAN
    BY DEF Labelled
  <2>3. ~(a.red /\ ~b.red) /\ ~(b.red /\ ~a.red)
    BY <1>3, <2>1 DEF InOrder
  <2>4. a.red = b.red
    BY <2>2, <2>3
  <2>5. QED BY <2>1, <2>4 DEF Labelled
<1>4. InOrder(a, b) => a.start <= b.start
  BY DEF InOrder, Labelled
<1>5. QED BY <1>1, <1>2, <1>3, <1>4

LEMMA LabelsSort ==
  ASSUME NEW S \in SUBSET Labelled, IsFiniteSet(S)
  PROVE  LET q == Sorted(S, InOrder)
         IN  /\ IsListOf(q, S)
             /\ \A i, j \in 1..Cardinality(S) : i < j => InOrder(q[i], q[j])
<1> DEFINE n == Cardinality(S)
           q == Sorted(S, InOrder)
           L == {l \in S \X S : InOrder(l[1], l[2])}
<1>1. n \in Nat
  BY FS_CardinalityType
<1>2. \A a, b \in S : <<a, b>> \in L <=> InOrder(a, b)
  OBVIOUS
<1> HIDE DEF L
<1>3. /\ \A a \in S : <<a, a>> \notin L
      /\ \A a, b, c \in S : <<a, b>> \in L /\ <<b, c>> \in L => <<a, c>> \in L
      /\ \A a, b \in S : a = b \/ <<a, b>> \in L \/ <<b, a>> \in L
  BY <1>2, InOrderIsOrder
<1>4. \E r \in [1..n -> S] : \A i, j \in 1..n : i < j => <<r[i], r[j]>> \in L
  BY <1>3, Lists
<1>5. \E r \in [1..n -> S] : \A i, j \in 1..n : i < j => InOrder(r[i], r[j])
  BY <1>2, <1>4
<1>6. q = CHOOSE r \in [1..n -> S] : \A i, j \in 1..n : i < j => InOrder(r[i], r[j])
  BY DEF Sorted
<1> HIDE DEF q
<1>7. q \in [1..n -> S] /\ \A i, j \in 1..n : i < j => InOrder(q[i], q[j])
  BY <1>5, <1>6
<1>8. \A i, j \in 1..n : i < j => q[i] # q[j]
  BY <1>7, InOrderIsOrder
<1>9. \A a \in S : \E i \in 1..n : q[i] = a
  BY <1>7, <1>8, ListsOnce
<1>10. QED BY <1>1, <1>7, <1>9 DEF IsListOf, q

(* The turns of prediction_chars. *)
MergeTurns(n, S, q, g) ==
  /\ IsListOf(q, S)
  /\ \A i, j \in 1..Cardinality(S) : i < j => InOrder(q[i], q[j])
  /\ g \in [0..Cardinality(S) -> Seq(Nat \X Nat)]
  /\ g[0] = <<>> /\ g[Cardinality(S)] = prediction_chars(n, S)
  /\ \A k \in 1..Cardinality(S) : g[k] = Merge(n, g[k - 1], q[k])

LEMMA MergeIsSeq ==
  ASSUME NEW n \in Nat, NEW R \in Seq(Nat \X Nat), NEW s \in Labelled
  PROVE  Merge(n, R, s) \in Seq(Nat \X Nat)
<1> DEFINE a == Clamp(n, s.start)
           b == Clamp(n, s.end)
           k == Len(R)
<1>1. a \in Nat /\ b \in Nat /\ k \in Nat
  BY DEF Clamp, Labelled
<1>2. Merge(n, R, s) = IF a >= b THEN R
                       ELSE IF k > 0 /\ a <= R[k][2]
                       THEN [R EXCEPT ![k] = <<@[1], IF @[2] < b THEN b ELSE @[2]>>]
                       ELSE Append(R, <<a, b>>)
  BY DEF Merge
<1> HIDE DEF a, b
<1>3. Append(R, <<a, b>>) \in Seq(Nat \X Nat)
  BY <1>1
<1>4. ASSUME k > 0 PROVE [R EXCEPT ![k] = <<@[1], IF @[2] < b THEN b ELSE @[2]>>] \in Seq(Nat \X Nat)
  <2>1. k \in 1..Len(R) /\ R[k] \in Nat \X Nat
    BY <1>1, <1>4
  <2>2. <<R[k][1], IF R[k][2] < b THEN b ELSE R[k][2]>> \in Nat \X Nat
    BY <1>1, <2>1
  <2> HIDE DEF k
  <2>3. QED BY <2>1, <2>2
<1>5. QED BY <1>2, <1>3, <1>4

LEMMA MergeHasTurns ==
  ASSUME NEW n \in Nat, NEW S \in SUBSET Labelled, IsFiniteSet(S)
  PROVE  \E q, g : MergeTurns(n, S, q, g)
<1> DEFINE m == Cardinality(S)
           q == Sorted(S, InOrder)
           V == Seq(Nat \X Nat)
           F == [i \in 1..m |-> [v \in V |-> Merge(n, v, q[i])]]
           Folds(h) == h = [s \in SUBSET (DOMAIN q) |->
                              IF s = {} THEN <<>> ELSE Merge(n, h[s \ {Max(s)}], q[Max(s)])]
           it == CHOOSE h : Folds(h)
<1>1. /\ m \in Nat /\ q \in [1..m -> S] /\ IsListOf(q, S)
      /\ \A i, j \in 1..m : i < j => InOrder(q[i], q[j])
  BY LabelsSort DEF IsListOf
<1>2. prediction_chars(n, S) = it[DOMAIN q]
  BY DEF prediction_chars, FoldLeft, MapThenFoldSet
<1> HIDE DEF q
<1>3. \A v \in V, a \in S : Merge(n, v, a) \in V
  BY MergeIsSeq
<1>4. F \in [1..m -> [V -> V]] /\ \A i \in 1..m, v \in V : F[i][v] = Merge(n, v, q[i])
  BY <1>1, <1>3
<1>5. DOMAIN q = 1..m /\ <<>> \in V
  BY <1>1
<1> HIDE DEF F, V
<1>6. \A s \in SUBSET (1..m) : s # {} => Max(s) \in 1..m /\ s \ {Max(s)} \in SUBSET (1..m)
  <2> SUFFICES ASSUME NEW s \in SUBSET (1..m), s # {} PROVE Max(s) \in s
    OBVIOUS
  <2>1. s \subseteq 0..m
    BY <1>1
  <2>2. QED BY <1>1, <2>1, MaxIs
<1>7. PICK h : IsFold(h, m, V, <<>>, F)
  BY <1>1, <1>4, <1>5, FoldExists
<1>8. Folds(h)
  <2>1. \A s \in SUBSET (1..m) : h[s] = IF s = {} THEN <<>> ELSE Merge(n, h[s \ {Max(s)}], q[Max(s)])
    BY <1>4, <1>6, <1>7 DEF IsFold
  <2>2. QED BY <1>5, <1>7, <2>1 DEF IsFold
<1>9. Folds(it)
  <2> HIDE DEF Folds
  <2>1. QED BY <1>8
<1> HIDE DEF it
<1>10. it[{}] = <<>> /\ \A k \in 1..m : it[1..k] = Merge(n, it[1..(k - 1)], q[k])
  <2>1. \A s \in SUBSET (1..m) : it[s] = IF s = {} THEN <<>> ELSE Merge(n, it[s \ {Max(s)}], q[Max(s)])
    BY <1>5, <1>9
  <2>2. ASSUME NEW k \in 1..m PROVE it[1..k] = Merge(n, it[1..(k - 1)], q[k])
    <3>1. k \in Nat \ {0} /\ 1..k \in SUBSET (1..m)
      BY <1>1
    <3>2. Max(1..k) = k /\ (1..k) \ {k} = 1..(k - 1) /\ 1..k # {}
      BY <3>1, IntervalMax
    <3> DEFINE s == 1..k
               t == 1..(k - 1)
    <3>3. s \in SUBSET (1..m) /\ Max(s) = k /\ s \ {k} = t /\ s # {}
      BY <3>1, <3>2
    <3> HIDE DEF s, t
    <3>4. it[s] = Merge(n, it[t], q[k])
      BY <2>1, <3>3
    <3>5. QED BY <3>4 DEF s, t
  <2>3. QED BY <2>1, <2>2
<1> DEFINE g == [k \in 0..m |-> it[1..k]]
<1>11. g[0] = <<>> /\ g[m] = prediction_chars(n, S) /\ \A k \in 1..m : g[k] = Merge(n, g[k - 1], q[k])
  <2>1. 1..0 = {} /\ 0 \in 0..m /\ m \in 0..m /\ \A k \in 1..m : k \in 0..m /\ k - 1 \in 0..m
    BY <1>1
  <2>2. \A k \in 0..m : g[k] = it[1..k]
    BY Zenon
  <2> HIDE DEF g
  <2>3. QED BY <2>1, <2>2, <1>2, <1>5, <1>10
<1>12. \A k \in 0..m : g[k] \in V
  <2> HIDE DEF g
  <2> DEFINE T == {k \in 0..m : g[k] \in V}
  <2>1. 0 \in T
    BY <1>1, <1>5, <1>11
  <2>2. \A k \in 1..m : k - 1 \in T => k \in T
    BY <1>1, <1>3, <1>11
  <2> HIDE DEF T
  <2>3. \A k \in 0..m : k \in T
    BY <1>1, <2>1, <2>2, Reaches
  <2>4. QED BY <2>3 DEF T
<1>13. g \in [0..m -> Seq(Nat \X Nat)]
  BY <1>12 DEF V
<1> HIDE DEF g
<1>14. MergeTurns(n, S, q, g)
  BY <1>1, <1>11, <1>13 DEF MergeTurns
<1>15. QED BY <1>14

(* One turn of prediction_chars adds the characters of a span that are in  *)
(* the text, if the span starts behind the start of the last run.          *)
StartsBy(R, p) == Len(R) > 0 => R[Len(R)][1] <= p

LEMMA AppendTakes ==
  ASSUME NEW V, NEW R \in Seq(V), NEW r \in V
  PROVE  LET Q == Append(R, r)
         IN  /\ Len(R) \in Nat /\ R \in [1..Len(R) -> V]
             /\ Len(Q) = Len(R) + 1 /\ Q \in [1..(Len(R) + 1) -> V]
             /\ Q[Len(R) + 1] = r /\ \A k \in 1..Len(R) : Q[k] = R[k]
<1> DEFINE Q == Append(R, r)
<1>1. Q \in Seq(V) /\ Len(Q) = Len(R) + 1 /\ \A i \in 1..Len(R) : Q[i] = R[i]
  BY AppendProperties
<1>2. Q[Len(R) + 1] = r
  BY AppendProperties
<1> HIDE DEF Q
<1>3. Len(R) \in Nat /\ R \in [1..Len(R) -> V] /\ Q \in [1..Len(Q) -> V]
  BY <1>1, LenProperties
<1>4. QED BY <1>1, <1>2, <1>3 DEF Q

LEMMA ExceptTakes ==
  ASSUME NEW V, NEW n \in Nat, NEW R \in [1..n -> V], NEW p \in V, NEW i \in 1..n
  PROVE  LET Z == [R EXCEPT ![i] = p]
         IN  /\ Z \in [1..n -> V] /\ Z[i] = p
             /\ \A k \in 1..n : k # i => Z[k] = R[k]
  OBVIOUS

LEMMA InAppends ==
  ASSUME NEW R \in Seq(Nat \X Nat), NEW r \in Nat \X Nat
  PROVE  In(Append(R, r)) = In(R) \cup (r[1]..(r[2] - 1))
<1> DEFINE Q == Append(R, r)
           n == Len(R)
<1>1. /\ n \in Nat /\ Q[n + 1] = r /\ \A k \in 1..n : Q[k] = R[k]
      /\ DOMAIN R = 1..n /\ DOMAIN Q = 1..(n + 1)
  BY AppendTakes
<1> HIDE DEF Q, n
<1>2. \A k \in 1..(n + 1) : k \in 1..n \/ k = n + 1
  BY <1>1
<1>3. (\A k \in 1..n : k \in 1..(n + 1)) /\ n + 1 \in 1..(n + 1)
  BY <1>1
<1>4. {Q[k] : k \in 1..(n + 1)} = {R[k] : k \in 1..n} \cup {r}
  <2> DEFINE I == 1..n
             J == 1..(n + 1)
             l == n + 1
  <2>1. (\A k \in J : k \in I \/ k = l) /\ (\A k \in I : k \in J) /\ l \in J
    BY <1>2, <1>3
  <2>2. Q[l] = r /\ \A k \in I : Q[k] = R[k]
    BY <1>1
  <2> HIDE DEF I, J, l
  <2>3. {Q[k] : k \in J} = {R[k] : k \in I} \cup {r}
    BY <2>1, <2>2
  <2>4. QED BY <2>3 DEF I, J
<1>5. ToSet(Q) = ToSet(R) \cup {r}
  BY <1>1, <1>4 DEF ToSet
<1>6. QED BY <1>5 DEF In, Q

(* Z is R with another last run, with the characters from c to d too. *)
EndsIn(Z, R, p, c, d) ==
  /\ p[1]..(p[2] - 1) = (R[Len(R)][1]..(R[Len(R)][2] - 1)) \cup c..(d - 1)
  /\ Len(R) > 0 /\ Z \in [1..Len(R) -> Nat \X Nat] /\ Z[Len(R)] = p
  /\ \A k \in 1..Len(R) : k # Len(R) => Z[k] = R[k]

LEMMA InExtends ==
  ASSUME NEW R \in Seq(Nat \X Nat), NEW p \in Nat \X Nat,
         NEW c \in Nat, NEW d \in Nat,
         NEW Q, EndsIn(Q, R, p, c, d)
  PROVE  In(Q) = In(R) \cup c..(d - 1)
<1> DEFINE n == Len(R)
           I == 1..n
           V == Nat \X Nat
<1>1. n \in I /\ R \in [I -> V] /\ p \in V
  BY DEF EndsIn
<1> HIDE DEF I, n, V
<1>2. DOMAIN R = I /\ DOMAIN Q = I /\ Q[n] = p /\ \A k \in I : k # n => Q[k] = R[k]
  BY <1>1 DEF I, n, EndsIn
<1> DEFINE Before == {R[k] : k \in I \ {n}}
<1>3. {R[k] : k \in I} = Before \cup {R[n]} /\ {Q[k] : k \in I} = Before \cup {p}
  <2>1. \A k \in I : k \in I \ {n} \/ k = n
    OBVIOUS
  <2>2. {R[k] : k \in I} = Before \cup {R[n]}
    BY <1>1, <2>1
  <2>3. Before = {Q[k] : k \in I \ {n}}
    BY <1>2
  <2>4. {Q[k] : k \in I} = {Q[k] : k \in I \ {n}} \cup {Q[n]}
    BY <1>1, <2>1
  <2>5. QED BY <1>2, <2>2, <2>3, <2>4
<1>4. ToSet(R) = Before \cup {R[n]} /\ ToSet(Q) = Before \cup {p}
  BY <1>2, <1>3 DEF ToSet
<1> HIDE DEF Before
<1>5. p[1]..(p[2] - 1) = (R[n][1]..(R[n][2] - 1)) \cup c..(d - 1)
  BY DEF n, EndsIn
<1>6. In(Q) = In(R) \cup c..(d - 1)
  BY <1>4, <1>5 DEF In
<1>7. QED BY <1>6

LEMMA MergeOne ==
  ASSUME NEW n \in Nat, NEW R \in Seq(Nat \X Nat), AreRuns(n, R), NEW s \in Proper,
         StartsBy(R, s.start)
  PROVE  /\ AreRuns(n, Merge(n, R, s)) /\ StartsBy(Merge(n, R, s), s.start)
         /\ In(Merge(n, R, s)) = In(R) \cup (Extent(s) \cap 0..(n - 1))
<1> DEFINE x == s.start
           y == s.end
           a == Clamp(n, x)
           b == Clamp(n, y)
           k == Len(R)
           u == R[k][1]
           v == R[k][2]
           w == IF v < b THEN b ELSE v
           Q == Append(R, <<a, b>>)
           Z == [R EXCEPT ![k] = <<u, w>>]
<1>1. x \in Nat /\ y \in Nat /\ x < y /\ Extent(s) = x..(y - 1) /\ k \in Nat
  BY DEF Proper, Labelled, Extent
<1>2. /\ a \in Nat /\ b \in Nat /\ a <= x /\ b <= n
      /\ (Extent(s) \cap 0..(n - 1)) = a..(b - 1) /\ a <= b
  BY <1>1 DEF Clamp
<1>3. Merge(n, R, s) = IF a >= b THEN R ELSE IF k > 0 /\ a <= v THEN Z ELSE Q
  BY DEF Merge
<1>4. k > 0 => u \in Nat /\ v \in Nat /\ u < v /\ v <= n /\ u <= x /\ u <= a
  <2> SUFFICES ASSUME k > 0 PROVE u \in Nat /\ v \in Nat /\ u < v /\ v <= n /\ u <= x /\ u <= a
    OBVIOUS
  <2>1. k \in 1..k
    BY <1>1
  <2>2. u \in Nat /\ v \in Nat /\ u < v /\ v <= n /\ u <= x
    BY <2>1 DEF AreRuns, StartsBy
  <2> HIDE DEF u, v, k
  <2>3. QED BY <1>1, <2>2 DEF Clamp
<1>5. CASE a >= b
  <2>1. Merge(n, R, s) = R /\ a..(b - 1) = {}
    BY <1>2, <1>3, <1>5
  <2>2. QED BY <1>2, <2>1
<1>6. CASE ~(a >= b) /\ k > 0 /\ a <= v
  <2>1. w \in Nat /\ u < w /\ w <= n /\ u..(w - 1) = (u..(v - 1)) \cup (a..(b - 1)) /\ v <= w
    <3> HIDE DEF a, b, u, v
    <3>1. QED BY <1>2, <1>4, <1>6, SMTT(30)
  <2>2. Merge(n, R, s) = Z
    BY <1>3, <1>6
  <2>3. /\ Z \in [1..k -> Nat \X Nat]
        /\ Z[k] = <<u, w>> /\ \A j \in 1..k : j # k => Z[j] = R[j]
    <3>1. k \in 1..k /\ <<u, w>> \in Nat \X Nat /\ R \in [1..k -> Nat \X Nat]
      BY <1>1, <1>4, <1>6, <2>1 DEF AreRuns
    <3>2. QED BY <1>1, <3>1, ExceptTakes
  <2>4. In(Z) = In(R) \cup (a..(b - 1))
    <3> DEFINE p == <<u, w>>
    <3>1. p \in Nat \X Nat /\ p[1] = u /\ p[2] = w /\ Len(R) > 0
      BY <1>4, <1>6, <2>1
    <3>2. p[1]..(p[2] - 1) = (R[Len(R)][1]..(R[Len(R)][2] - 1)) \cup a..(b - 1)
      BY <2>1
    <3>3. EndsIn(Z, R, p, a, b)
      BY <2>3, <3>1, <3>2 DEF EndsIn
    <3> HIDE DEF p, Z, a, b
    <3>4. QED BY <1>2, <3>1, <3>3, InExtends
  <2>5. Len(Z) = k
    BY <1>1, <2>3
  <2> HIDE DEF Z, w
  <2>6. AreRuns(n, Z)
    <3>1. \A j \in 1..k : Z[j][1] < Z[j][2] /\ Z[j][2] <= n
      <4> SUFFICES ASSUME NEW j \in 1..k PROVE Z[j][1] < Z[j][2] /\ Z[j][2] <= n
        OBVIOUS
      <4>1. CASE j = k
        <5>1. Z[j][1] = u /\ Z[j][2] = w
          BY <2>3, <4>1
        <5>2. QED BY <2>1, <5>1
      <4>2. CASE j # k
        <5>1. Z[j] = R[j]
          BY <2>3, <4>2
        <5>2. QED BY <5>1 DEF AreRuns
      <4>3. QED BY <4>1, <4>2
    <3>2. \A i, j \in 1..k : i < j => Z[i][2] < Z[j][1]
      <4> SUFFICES ASSUME NEW i \in 1..k, NEW j \in 1..k, i < j PROVE Z[i][2] < Z[j][1]
        OBVIOUS
      <4>0. i # k
        BY <1>1
      <4>1. i # k /\ R[i][2] < R[j][1]
        BY <4>0 DEF AreRuns
      <4>2. Z[i] = R[i]
        BY <2>3, <4>1
      <4>3. Z[j][1] = R[j][1]
        <5>1. CASE j = k
          BY <2>3, <5>1
        <5>2. CASE j # k
          BY <2>3, <5>2
        <5>3. QED BY <5>1, <5>2
      <4>4. QED BY <4>1, <4>2, <4>3
    <3>3. QED BY <1>1, <2>3, <2>5, <3>1, <3>2 DEF AreRuns
  <2>7. StartsBy(Z, x)
    <3>0. Z[k][1] = u
      BY <2>3
    <3>1. Z[Len(Z)][1] = u
      BY <2>5, <3>0
    <3>2. QED BY <1>4, <1>6, <3>1 DEF StartsBy
  <2>8. QED BY <1>2, <2>2, <2>4, <2>6, <2>7
<1>7. CASE ~(a >= b) /\ ~(k > 0 /\ a <= v)
  <2>1. Merge(n, R, s) = Q
    BY <1>3, <1>7
  <2>2. <<a, b>> \in Nat \X Nat
    BY <1>2
  <2>3. In(Q) = In(R) \cup (a..(b - 1))
    BY <2>2, InAppends
  <2>4. /\ Len(Q) = k + 1 /\ Q \in [1..(k + 1) -> Nat \X Nat] /\ Q[k + 1] = <<a, b>>
        /\ \A j \in 1..k : Q[j] = R[j]
    <3> DEFINE r == <<a, b>>
               V == Nat \X Nat
    <3>1. r \in V /\ R \in Seq(V)
      BY <2>2
    <3> HIDE DEF r, V
    <3>2. /\ Len(Append(R, r)) = Len(R) + 1 /\ Append(R, r) \in [1..(Len(R) + 1) -> V]
          /\ Append(R, r)[Len(R) + 1] = r /\ \A j \in 1..Len(R) : Append(R, r)[j] = R[j]
      BY <3>1, AppendTakes
    <3>3. QED BY <3>2 DEF r, V
  <2> HIDE DEF Q
  <2>5. AreRuns(n, Q)
    <3>1. \A j \in 1..(k + 1) : Q[j][1] < Q[j][2] /\ Q[j][2] <= n
      <4> SUFFICES ASSUME NEW j \in 1..(k + 1) PROVE Q[j][1] < Q[j][2] /\ Q[j][2] <= n
        OBVIOUS
      <4>1. CASE j = k + 1
        BY <1>2, <1>7, <2>4, <4>1
      <4>2. CASE j # k + 1
        <5>1. j \in 1..k
          BY <1>1, <4>2
        <5>2. QED BY <2>4, <5>1 DEF AreRuns
      <4>3. QED BY <4>1, <4>2
    <3>2. \A i, j \in 1..(k + 1) : i < j => Q[i][2] < Q[j][1]
      <4> SUFFICES ASSUME NEW i \in 1..(k + 1), NEW j \in 1..(k + 1), i < j PROVE Q[i][2] < Q[j][1]
        OBVIOUS
      <4>1. i \in 1..k /\ Q[i] = R[i]
        BY <1>1, <2>4
      <4>2. CASE j = k + 1
        <5>1. k > 0 /\ v < a /\ (i < k => R[i][2] < u) /\ R[i][2] \in Nat
          <6>1. k > 0 /\ k \in 1..k
            BY <1>1, <4>1
          <6>2. v < a
            BY <1>2, <1>4, <1>7, <6>1
          <6>3. i < k => R[i][2] < u
            BY <4>1, <6>1 DEF AreRuns
          <6>4. R[i][2] \in Nat
            BY <4>1 DEF AreRuns
          <6>5. QED BY <6>1, <6>2, <6>3, <6>4
        <5>2. Q[j][1] = a
          BY <2>4, <4>2
        <5>3. CASE i = k
          BY <4>1, <5>1, <5>2, <5>3
        <5>4. CASE i < k
          <6> HIDE DEF u, v, a
          <6>1. R[i][2] < a
            BY <1>2, <1>4, <5>1, <5>4, SMTT(30)
          <6>2. QED BY <4>1, <5>2, <6>1
        <5>5. QED BY <1>1, <4>1, <5>3, <5>4
      <4>3. CASE j # k + 1
        <5>0. j \in 1..k
          BY <1>1, <4>3
        <5>1. j \in 1..k /\ Q[j] = R[j]
          BY <2>4, <5>0
        <5>2. QED BY <4>1, <5>1 DEF AreRuns
      <4>4. QED BY <4>2, <4>3
    <3>3. QED BY <1>1, <2>4, <3>1, <3>2 DEF AreRuns
  <2>6. StartsBy(Q, x)
    BY <1>2, <2>4 DEF StartsBy
  <2>7. QED BY <1>2, <2>1, <2>3, <2>5, <2>6
<1>8. QED BY <1>5, <1>6, <1>7

(* The characters of the first k spans of a list. *)
Upto(q, k) == UNION {Extent(q[i]) : i \in 1..k}

LEMMA UptoNext ==
  ASSUME NEW q, NEW k \in Nat \ {0}
  PROVE  Upto(q, k) = Upto(q, k - 1) \cup Extent(q[k])
<1> DEFINE I == 1..k
           J == 1..(k - 1)
<1>1. (\A i \in I : i \in J \/ i = k) /\ (\A i \in J : i \in I) /\ k \in I
  OBVIOUS
<1>2. \A x : x \in Upto(q, k) <=> \E i \in I : x \in Extent(q[i])
  BY DEF Upto
<1>3. \A x : x \in Upto(q, k - 1) <=> \E i \in J : x \in Extent(q[i])
  BY DEF Upto
<1> HIDE DEF I, J
<1>4. QED BY <1>1, <1>2, <1>3

(* What the turns have built: the runs of the spans so far. *)
RunsOf(n, R, q, k) ==
  /\ AreRuns(n, R)
  /\ In(R) = Upto(q, k) \cap 0..(n - 1)
  /\ k > 0 => StartsBy(R, q[k].start)

LEMMA MergeBuilds ==
  ASSUME NEW n \in Nat, NEW m \in Nat, NEW q \in [1..m -> Proper], NEW R \in Seq(Nat \X Nat),
         NEW k \in 1..m, RunsOf(n, R, q, k - 1),
         k > 1 => q[k - 1].start <= q[k].start
  PROVE  RunsOf(n, Merge(n, R, q[k]), q, k)
<1> DEFINE s == q[k]
           Q == Merge(n, R, s)
<1>1. s \in Proper /\ s.start \in Nat
  BY DEF Proper, Labelled
<1>2. StartsBy(R, s.start)
  <2>1. CASE k = 1
    <3>1. In(R) = {}
      <4>1. Upto(q, 0) = {}
        BY DEF Upto
      <4>2. k - 1 = 0
        BY <2>1
      <4>3. In(R) = Upto(q, 0) \cap 0..(n - 1)
        BY <4>2 DEF RunsOf
      <4>4. QED BY <4>1, <4>3
    <3>2. CASE Len(R) > 0
      <4> DEFINE r == R[Len(R)]
      <4>1. Len(R) \in 1..Len(R) /\ r \in Nat \X Nat /\ r[1] < r[2] /\ r \in ToSet(R)
        BY <3>2 DEF RunsOf, AreRuns, ToSet
      <4> HIDE DEF r
      <4>2. r[1] \in r[1]..(r[2] - 1)
        BY <4>1
      <4>3. r[1] \in In(R)
        BY <4>1, <4>2 DEF In
      <4>4. QED BY <3>1, <4>3
    <3>3. QED BY <3>2 DEF StartsBy
  <2>2. CASE k > 1
    <3>1. k - 1 \in 1..m /\ StartsBy(R, q[k - 1].start) /\ q[k - 1].start <= s.start
      BY <2>2 DEF RunsOf
    <3>2. q[k - 1].start \in Nat
      BY <3>1 DEF Proper, Labelled
    <3>3. Len(R) > 0 => R[Len(R)][1] \in Nat
      BY DEF RunsOf, AreRuns
    <3>4. QED BY <1>1, <3>1, <3>2, <3>3 DEF StartsBy
  <2>3. QED BY <2>1, <2>2
<1>3. /\ AreRuns(n, Q) /\ StartsBy(Q, s.start)
      /\ In(Q) = In(R) \cup (Extent(s) \cap 0..(n - 1))
  BY <1>1, <1>2, MergeOne DEF RunsOf
<1>4. Upto(q, k) = Upto(q, k - 1) \cup Extent(s) /\ In(R) = Upto(q, k - 1) \cap 0..(n - 1)
  BY UptoNext DEF RunsOf
<1> DEFINE A == Upto(q, k - 1)
           B == Upto(q, k)
           C == 0..(n - 1)
<1>5. B = A \cup Extent(s) /\ In(R) = A \cap C /\ In(Q) = In(R) \cup (Extent(s) \cap C)
  BY <1>3, <1>4
<1> HIDE DEF Q, A, B, C
<1>6. In(Q) = B \cap C
  BY <1>5
<1>7. RunsOf(n, Q, q, k)
  BY <1>3, <1>6 DEF RunsOf, B, C
<1>8. QED BY <1>7 DEF Q

(* The runs are those of the characters of all spans. *)
LEMMA RunsAre ==
  ASSUME NEW n \in Nat, NEW S \in SUBSET Proper, IsFiniteSet(S)
  PROVE  /\ AreRuns(n, prediction_chars(n, S))
         /\ prediction_chars(n, S) \in Seq(Nat \X Nat)
         /\ In(prediction_chars(n, S)) = Chars(S) \cap 0..(n - 1)
<1> DEFINE m == Cardinality(S)
<1>1. S \in SUBSET Labelled
  BY DEF Proper
<1>2. PICK q, g : MergeTurns(n, S, q, g)
  BY <1>1, MergeHasTurns
<1>3. m \in Nat /\ q \in [1..m -> S] /\ \A a \in S : \E i \in 1..m : q[i] = a
  BY <1>2 DEF MergeTurns, IsListOf
<1>4. q \in [1..m -> Proper]
  BY <1>3
<1>5. ASSUME NEW k \in 1..m, k > 1 PROVE q[k - 1].start <= q[k].start
  <2>1. k - 1 \in 1..m /\ k - 1 < k
    BY <1>3, <1>5
  <2>2. InOrder(q[k - 1], q[k])
    BY <1>2, <2>1 DEF MergeTurns
  <2>3. q[k - 1] \in Labelled /\ q[k] \in Labelled
    BY <1>1, <1>3, <2>1
  <2>4. QED BY <2>2, <2>3, InOrderIsOrder
<1> DEFINE T == {k \in 0..m : RunsOf(n, g[k], q, k)}
<1>6. 0 \in T
  <2>1. g[0] = <<>>
    BY <1>2 DEF MergeTurns
  <2>2. ToSet(<<>>) = {}
    BY DEF ToSet
  <2>3. In(<<>>) = {} /\ Upto(q, 0) = {}
    BY <2>2 DEF In, Upto
  <2>4. AreRuns(n, <<>>)
    BY DEF AreRuns
  <2>5. RunsOf(n, <<>>, q, 0)
    BY <2>3, <2>4 DEF RunsOf
  <2>6. QED BY <1>3, <2>1, <2>5
<1>7. ASSUME NEW k \in 1..m, k - 1 \in T PROVE k \in T
  <2>1. k - 1 \in 0..m /\ k \in 0..m
    BY <1>3
  <2>2. g[k - 1] \in Seq(Nat \X Nat) /\ g[k] = Merge(n, g[k - 1], q[k])
    BY <1>2, <2>1 DEF MergeTurns
  <2>3. RunsOf(n, g[k - 1], q, k - 1)
    BY <1>7
  <2>4. RunsOf(n, Merge(n, g[k - 1], q[k]), q, k)
    BY <1>3, <1>4, <1>5, <2>2, <2>3, MergeBuilds
  <2>5. QED BY <2>1, <2>2, <2>4
<1> HIDE DEF T
<1>8. \A k \in 0..m : k \in T
  BY <1>3, <1>6, <1>7, Reaches
<1>9. RunsOf(n, g[m], q, m) /\ g[m] = prediction_chars(n, S) /\ g[m] \in Seq(Nat \X Nat)
  <2>1. m \in 0..m
    BY <1>3
  <2>2. QED BY <1>2, <1>8, <2>1 DEF T, MergeTurns
<1>10. Upto(q, m) = Chars(S)
  <2>1. \A x : x \in Upto(q, m) <=> \E i \in 1..m : x \in Extent(q[i])
    BY DEF Upto
  <2>2. \A x : x \in Chars(S) <=> \E a \in S : x \in Extent(a)
    BY DEF Chars
  <2>3. QED BY <1>3, <2>1, <2>2
<1>11. QED BY <1>9, <1>10 DEF RunsOf

(* The longest stretches of a set of characters. *)
Maximal(D) ==
  {f \in Nat \X Nat : /\ f[1] < f[2] /\ f[1]..(f[2] - 1) \subseteq D
                      /\ f[1] - 1 \notin D /\ f[2] \notin D}

LEMMA MaximalIs ==
  ASSUME NEW D, NEW f \in Nat \X Nat
  PROVE  f \in Maximal(D) <=> /\ f[1] < f[2] /\ \A p \in Nat : f[1] <= p /\ p < f[2] => p \in D
                              /\ f[1] - 1 \notin D /\ f[2] \notin D
  BY DEF Maximal

LEMMA MaximalAre == ASSUME NEW D PROVE Maximal(D) \subseteq Nat \X Nat
  BY DEF Maximal

LEMMA MaximalFills ==
  ASSUME NEW n \in Nat, NEW D, D \subseteq 0..(n - 1)
  PROVE  Stretches(Maximal(D)) = D
<1>1. ASSUME NEW p \in Stretches(Maximal(D)) PROVE p \in D
  <2>1. PICK f \in Maximal(D) : p \in f[1]..(f[2] - 1)
    BY DEF Stretches
  <2>2. QED BY <2>1 DEF Maximal
<1>2. ASSUME NEW p \in D PROVE p \in Stretches(Maximal(D))
  <2> DEFINE A == {a \in Nat : a <= p /\ \A x \in Nat : a <= x /\ x <= p => x \in D}
             B == {b \in Nat : b > p /\ b \notin D}
  <2>1. p \in Nat /\ p < n /\ n \notin D
    BY <1>2
  <2>2. p \in A /\ n \in B
    BY <2>1
  <2> HIDE DEF A, B
  <2>3. A \subseteq Nat /\ A # {} /\ B \subseteq Nat /\ B # {}
    BY <2>2 DEF A, B
  <2>4. PICK a \in A : \A x \in A : a <= x
    BY <2>3, LeastIs
  <2>5. PICK b \in B : \A x \in B : b <= x
    BY <2>3, LeastIs
  <2>6. a \in Nat /\ b \in Nat /\ a <= p /\ p < b /\ b \notin D
    BY <2>4, <2>5 DEF A, B
  <2>7. \A x \in Nat : a <= x /\ x < b => x \in D
    <3> SUFFICES ASSUME NEW x \in Nat, a <= x, x < b PROVE x \in D
      OBVIOUS
    <3>1. CASE x <= p
      BY <2>4, <3>1 DEF A
    <3>2. CASE x > p
      <4>1. x \notin B
        BY <2>5, <2>6
      <4>2. QED BY <3>2, <4>1 DEF B
    <3>3. QED BY <2>1, <3>1, <3>2
  <2>8. a - 1 \notin D
    <3> SUFFICES ASSUME a - 1 \in D PROVE FALSE
      OBVIOUS
    <3>1. a - 1 \in Nat
      BY <2>6
    <3>2. \A x \in Nat : a - 1 <= x /\ x <= p => x \in D
      BY <2>6, <2>7, <3>1
    <3>3. a - 1 \in A
      BY <2>1, <2>6, <3>1, <3>2 DEF A
    <3>4. QED BY <2>4, <2>6, <3>3
  <2> DEFINE f == <<a, b>>
  <2>9. f \in Nat \X Nat /\ f[1] = a /\ f[2] = b
    BY <2>6
  <2> HIDE DEF f
  <2>10. f[1] < f[2]
    BY <2>1, <2>6, <2>9
  <2>11. f \in Maximal(D)
    BY <2>6, <2>7, <2>8, <2>9, <2>10, MaximalIs
  <2>12. p \in f[1]..(f[2] - 1)
    BY <2>1, <2>6, <2>9
  <2>13. QED BY <2>11, <2>12 DEF Stretches
<1>3. QED BY <1>1, <1>2

LEMMA MaximalApart ==
  ASSUME NEW D
  PROVE  ~Touching(Maximal(D))
<1> SUFFICES ASSUME NEW f \in Maximal(D), NEW g \in Maximal(D), f # g, f[1] <= g[1], g[1] <= f[2]
             PROVE  FALSE
  BY DEF Touching
<1> DEFINE a == f[1]
           b == f[2]
           c == g[1]
           d == g[2]
<1>1. /\ a \in Nat /\ b \in Nat /\ c \in Nat /\ d \in Nat /\ f = <<a, b>> /\ g = <<c, d>>
      /\ f \in Nat \X Nat /\ g \in Nat \X Nat
  BY MaximalAre
<1>2. /\ a < b /\ \A p \in Nat : a <= p /\ p < b => p \in D
      /\ a - 1 \notin D /\ b \notin D
  BY <1>1, MaximalIs
<1>3. /\ c < d /\ \A p \in Nat : c <= p /\ p < d => p \in D
      /\ c - 1 \notin D /\ d \notin D
  BY <1>1, MaximalIs
<1>4. a <= c /\ c <= b
  OBVIOUS
<1>5. a # c \/ b # d
  BY <1>1
<1> HIDE DEF a, b, c, d
<1>6. c < b
  BY <1>1, <1>2, <1>3, <1>4
<1>7. a = c
  <2>1. CASE a < c
    <3>1. c - 1 \in Nat /\ a <= c - 1 /\ c - 1 < b
      BY <1>1, <1>6, <2>1
    <3>2. QED BY <1>2, <1>3, <3>1
  <2>2. QED BY <1>1, <1>4, <2>1
<1>8. b = d
  <2>1. ~(b < d)
    BY <1>1, <1>2, <1>3, <1>4, <1>6
  <2>2. ~(d < b)
    BY <1>1, <1>2, <1>3, <1>4, <1>7
  <2>3. QED BY <1>1, <2>1, <2>2
<1>9. QED BY <1>5, <1>7, <1>8

(* What lies at the ends of a run. *)
LEMMA RunEnds ==
  ASSUME NEW n \in Nat, NEW R, AreRuns(n, R)
  PROVE  /\ In(R) \subseteq 0..(n - 1)
         /\ \A r \in ToSet(R) : /\ r \in Nat \X Nat /\ r[1] < r[2] /\ r[2] <= n
                                /\ r[1] - 1 \notin In(R) /\ r[2] \notin In(R)
                                /\ \A p \in Nat : r[1] <= p /\ p < r[2] => p \in In(R)
         /\ \A p \in In(R) : \E r \in ToSet(R) : r[1] <= p /\ p < r[2]
         /\ ~Touching(ToSet(R))
<1>1. DOMAIN R = 1..Len(R) /\ Len(R) \in Nat /\ ToSet(R) = {R[k] : k \in 1..Len(R)}
  BY DEF AreRuns, ToSet
<1>2. ASSUME NEW r \in ToSet(R) PROVE r \in Nat \X Nat /\ r[1] < r[2] /\ r[2] <= n
  BY <1>1 DEF AreRuns
<1>3. ASSUME NEW r \in ToSet(R), NEW q \in ToSet(R), r # q PROVE r[2] < q[1] \/ q[2] < r[1]
  <2>1. PICK j \in 1..Len(R) : r = R[j]
    BY <1>1
  <2>2. PICK k \in 1..Len(R) : q = R[k]
    BY <1>1
  <2>3. j < k \/ k < j
    BY <1>1, <1>3, <2>1, <2>2
  <2>4. QED BY <2>1, <2>2, <2>3 DEF AreRuns
<1>4. ASSUME NEW p \in In(R) PROVE \E r \in ToSet(R) : r[1] <= p /\ p < r[2] /\ p \in Nat
  <2>1. PICK r \in ToSet(R) : p \in r[1]..(r[2] - 1)
    BY DEF In
  <2>2. r[1] \in Nat /\ r[2] \in Nat
    BY <1>2
  <2>3. QED BY <2>1, <2>2
<1>5. In(R) \subseteq 0..(n - 1)
  <2> SUFFICES ASSUME NEW p \in In(R) PROVE p \in 0..(n - 1)
    OBVIOUS
  <2>1. PICK r \in ToSet(R) : r[1] <= p /\ p < r[2] /\ p \in Nat
    BY <1>4
  <2>2. r[2] \in Nat /\ r[2] <= n
    BY <1>2
  <2>3. QED BY <2>1, <2>2
<1>6. ASSUME NEW r \in ToSet(R)
      PROVE  r[1] - 1 \notin In(R) /\ r[2] \notin In(R)
  <2>1. ASSUME NEW p \in In(R), p = r[1] - 1 \/ p = r[2] PROVE FALSE
    <3>1. PICK q \in ToSet(R) : q[1] <= p /\ p < q[2] /\ p \in Nat
      BY <1>4
    <3>2. r[1] \in Nat /\ r[2] \in Nat /\ q[1] \in Nat /\ q[2] \in Nat /\ r[1] < r[2]
      BY <1>2
    <3>3. q # r
      BY <2>1, <3>1, <3>2
    <3>4. r[2] < q[1] \/ q[2] < r[1]
      BY <1>3, <3>3
    <3> DEFINE a == r[1]
               b == r[2]
               c == q[1]
               d == q[2]
    <3>5. /\ a \in Nat /\ b \in Nat /\ c \in Nat /\ d \in Nat /\ a < b
          /\ (b < c \/ d < a) /\ c <= p /\ p < d /\ (p = a - 1 \/ p = b)
      BY <2>1, <3>1, <3>2, <3>4
    <3> HIDE DEF a, b, c, d
    <3>6. QED BY <3>1, <3>5
  <2>2. QED BY <2>1
<1>7. ASSUME NEW r \in ToSet(R), NEW p \in Nat, r[1] <= p, p < r[2] PROVE p \in In(R)
  <2>1. r[1] \in Nat /\ r[2] \in Nat
    BY <1>2
  <2>2. p \in r[1]..(r[2] - 1)
    BY <1>7, <2>1
  <2>3. QED BY <2>2 DEF In
<1>8. ~Touching(ToSet(R))
  <2> SUFFICES ASSUME NEW r \in ToSet(R), NEW q \in ToSet(R), r # q, r[1] <= q[1], q[1] <= r[2] PROVE FALSE
    BY DEF Touching
  <2>1. r[2] < q[1] \/ q[2] < r[1]
    BY <1>3
  <2>2. r[1] \in Nat /\ r[2] \in Nat /\ q[1] \in Nat /\ q[2] \in Nat /\ r[1] < r[2] /\ q[1] < q[2]
    BY <1>2
  <2>3. QED BY <2>1, <2>2
<1>9. QED BY <1>2, <1>4, <1>5, <1>6, <1>7, <1>8

(* false_positive_runs are the longest stretches outside C. *)
LEMMA FalseAreMaximal ==
  ASSUME NEW n \in Nat, NEW R, AreRuns(n, R), NEW C
  PROVE  false_positive_runs(R, C) = Maximal(In(R) \ C)
<1> DEFINE D == In(R) \ C
           Inside(f, r) ==
             /\ f \in (r[1]..r[2]) \X (r[1]..r[2])
             /\ f[1] < f[2] /\ f[1]..(f[2] - 1) \cap C = {}
             /\ f[1] = r[1] \/ f[1] - 1 \in C
             /\ f[2] = r[2] \/ f[2] \in C
<1>1. \A f : f \in false_positive_runs(R, C) <=> \E r \in ToSet(R) : Inside(f, r)
  BY DEF false_positive_runs
<1>2. ASSUME NEW r \in ToSet(R), NEW f, Inside(f, r) PROVE f \in Maximal(D)
  <2>1. /\ r[1] \in Nat /\ r[2] \in Nat /\ r[1] - 1 \notin In(R) /\ r[2] \notin In(R)
        /\ \A p \in Nat : r[1] <= p /\ p < r[2] => p \in In(R)
    BY RunEnds
  <2>2. /\ f \in Nat \X Nat /\ f[1] < f[2] /\ r[1] <= f[1] /\ f[2] <= r[2]
        /\ \A p \in Nat : f[1] <= p /\ p < f[2] => p \notin C
        /\ f[1] = r[1] \/ f[1] - 1 \in C
        /\ f[2] = r[2] \/ f[2] \in C
    BY <1>2, <2>1
  <2>3. \A p \in Nat : f[1] <= p /\ p < f[2] => p \in D
    BY <2>1, <2>2
  <2>4. f[1] - 1 \notin D /\ f[2] \notin D
    BY <2>1, <2>2
  <2> HIDE DEF D
  <2>5. QED BY <2>2, <2>3, <2>4, MaximalIs
<1>3. ASSUME NEW f \in Maximal(D) PROVE \E r \in ToSet(R) : Inside(f, r)
  <2> DEFINE a == f[1]
             b == f[2]
  <2>1. f \in Nat \X Nat /\ a \in Nat /\ b \in Nat
    BY MaximalAre
  <2>2. /\ a < b /\ \A p \in Nat : a <= p /\ p < b => p \in D
        /\ a - 1 \notin D /\ b \notin D
    BY <2>1, MaximalIs
  <2>3. a \in In(R)
    BY <2>1, <2>2
  <2>4. PICK r \in ToSet(R) : r[1] <= a /\ a < r[2]
    BY <2>3, RunEnds
  <2> DEFINE x == r[1]
             y == r[2]
  <2>5. /\ x \in Nat /\ y \in Nat /\ x <= a /\ a < y /\ y \notin In(R)
        /\ \A p \in Nat : x <= p /\ p < y => p \in In(R)
    BY <2>4, RunEnds
  <2> HIDE DEF a, b, x, y
  <2>6. b <= y
    <3> SUFFICES ASSUME y < b PROVE FALSE
      BY <2>1, <2>5
    <3>1. y \in D
      BY <2>1, <2>2, <2>5
    <3>2. QED BY <2>5, <3>1
  <2>7. a = x \/ a - 1 \in C
    <3> SUFFICES ASSUME a # x PROVE a - 1 \in C
      OBVIOUS
    <3>1. a - 1 \in Nat /\ x <= a - 1 /\ a - 1 < y
      BY <2>1, <2>5
    <3>2. a - 1 \in In(R)
      BY <2>5, <3>1
    <3>3. QED BY <2>2, <3>2
  <2>8. b = y \/ b \in C
    <3> SUFFICES ASSUME b # y PROVE b \in C
      OBVIOUS
    <3>1. x <= b /\ b < y
      BY <2>1, <2>2, <2>5, <2>6
    <3>2. b \in In(R)
      BY <2>1, <2>5, <3>1
    <3>3. QED BY <2>2, <3>2
  <2>9. a..(b - 1) \cap C = {}
    BY <2>1, <2>2
  <2>10. f \in (x..y) \X (x..y)
    <3>1. f = <<a, b>>
      BY <2>1 DEF a, b
    <3>2. a \in x..y /\ b \in x..y
      BY <2>1, <2>2, <2>5, <2>6
    <3>3. QED BY <3>1, <3>2
  <2>11. Inside(f, r)
    BY <2>2, <2>7, <2>8, <2>9, <2>10 DEF a, b, x, y
  <2>12. QED BY <2>11
<1> HIDE DEF Inside, D
<1>4. false_positive_runs(R, C) = Maximal(D)
  BY <1>1, <1>2, <1>3
<1>5. QED BY <1>4 DEF D

(* A stretch is added at the end. *)
LEMMA MaximalGrows ==
  ASSUME NEW c \in Nat, NEW d \in Nat, NEW D, D \subseteq 0..(c - 1), c < d, c - 1 \notin D
  PROVE  Maximal(D \cup c..(d - 1)) = Maximal(D) \cup {<<c, d>>}
<1> DEFINE E == D \cup c..(d - 1)
<1>1. /\ \A p \in Nat : p \in E <=> (p \in D \/ (c <= p /\ p < d))
      /\ \A p \in D : p \in Nat /\ p < c - 1
      /\ E \subseteq Nat
  <2>1. \A p \in D : p \in Nat /\ p < c /\ p # c - 1
    OBVIOUS
  <2>2. \A p \in D : p \in Nat /\ p < c - 1
    BY <2>1
  <2>3. \A p \in Nat : p \in E <=> (p \in D \/ (c <= p /\ p < d))
    OBVIOUS
  <2>4. E \subseteq Nat
    OBVIOUS
  <2>5. QED BY <2>2, <2>3, <2>4
<1> HIDE DEF E
<1>2. ASSUME NEW f \in Maximal(D) PROVE f \in Maximal(E)
  <2> DEFINE a == f[1]
             b == f[2]
  <2>1. f \in Nat \X Nat /\ a \in Nat /\ b \in Nat
    BY MaximalAre
  <2>2. /\ a < b /\ \A p \in Nat : a <= p /\ p < b => p \in D
        /\ a - 1 \notin D /\ b \notin D
    BY <2>1, MaximalIs
  <2> HIDE DEF a, b
  <2>3. b - 1 \in Nat /\ b - 1 \in D
    BY <2>1, <2>2
  <2>4. b < c
    BY <1>1, <2>1, <2>3
  <2>5. /\ \A p \in Nat : a <= p /\ p < b => p \in E
        /\ b \notin E
    BY <1>1, <2>1, <2>2, <2>4
  <2>6. a - 1 \notin E
    <3> SUFFICES ASSUME a - 1 \in E PROVE FALSE
      OBVIOUS
    <3>1. a - 1 \in Nat /\ a - 1 < c
      BY <1>1, <2>1, <2>2, <2>4
    <3>2. QED BY <1>1, <2>2, <3>1
  <2>7. QED BY <2>1, <2>2, <2>5, <2>6, MaximalIs DEF a, b
<1>3. <<c, d>> \in Maximal(E)
  <2> DEFINE f == <<c, d>>
  <2>1. f \in Nat \X Nat /\ f[1] = c /\ f[2] = d
    OBVIOUS
  <2> HIDE DEF f
  <2>2. /\ \A p \in Nat : c <= p /\ p < d => p \in E
        /\ c - 1 \notin E /\ d \notin E
    <3>1. c - 1 \notin E
      <4> SUFFICES ASSUME c - 1 \in E PROVE FALSE
        OBVIOUS
      <4>1. c - 1 \in Nat
        BY <1>1
      <4>2. QED BY <1>1, <4>1
    <3>2. d \notin E
      BY <1>1
    <3>3. QED BY <1>1, <3>1, <3>2
  <2>3. f \in Maximal(E)
    BY <2>1, <2>2, MaximalIs
  <2>4. QED BY <2>3 DEF f
<1>4. ASSUME NEW f \in Maximal(E) PROVE f \in Maximal(D) \/ f = <<c, d>>
  <2> DEFINE a == f[1]
             b == f[2]
  <2>1. f \in Nat \X Nat /\ a \in Nat /\ b \in Nat /\ f = <<a, b>>
    BY MaximalAre
  <2>2. /\ a < b /\ \A p \in Nat : a <= p /\ p < b => p \in E
        /\ a - 1 \notin E /\ b \notin E
    BY <2>1, MaximalIs
  <2> HIDE DEF a, b
  <2>3. CASE c <= a
    <3>1. a = c
      <4> SUFFICES ASSUME c < a PROVE FALSE
        BY <2>1, <2>3
      <4>1. a \in E /\ a < d
        BY <1>1, <2>1, <2>2, <2>3
      <4>2. a - 1 \in Nat /\ c <= a - 1 /\ a - 1 < d
        BY <2>1, <4>1
      <4>3. QED BY <1>1, <2>2, <4>2
    <3>2. b = d
      <4>1. b - 1 \in Nat /\ b - 1 \in E /\ c <= b - 1
        BY <2>1, <2>2, <2>3
      <4>2. b - 1 < d
        BY <1>1, <4>1
      <4>3. ~(b < d)
        BY <1>1, <2>1, <2>2, <2>3
      <4>4. QED BY <2>1, <4>2, <4>3
    <3>3. QED BY <2>1, <3>1, <3>2
  <2>4. CASE a < c
    <3>1. b < c
      <4> SUFFICES ASSUME c <= b PROVE FALSE
        BY <2>1
      <4>1. c - 1 \in Nat /\ a <= c - 1 /\ c - 1 < b
        BY <2>1, <2>4
      <4>2. c - 1 \in E
        BY <2>2, <4>1
      <4>3. QED BY <1>1, <4>1, <4>2
    <3>2. /\ \A p \in Nat : a <= p /\ p < b => p \in D
          /\ a - 1 \notin D /\ b \notin D
      <4>1. \A p \in D : p \in E
        BY <1>1
      <4>2. ASSUME NEW p \in Nat, a <= p, p < b PROVE p \in D
        <5>1. p \in E /\ p < c
          BY <2>1, <2>2, <3>1, <4>2
        <5>2. QED BY <1>1, <5>1
      <4>3. QED BY <2>2, <4>1, <4>2
    <3>3. QED BY <2>1, <2>2, <3>2, MaximalIs DEF a, b
  <2>5. QED BY <2>1, <2>3, <2>4
<1>5. Maximal(E) = Maximal(D) \cup {<<c, d>>}
  BY <1>2, <1>3, <1>4
<1>6. QED BY <1>5 DEF E

(* The turns of gap_runs. *)
GapAccs == [gaps : SUBSET (Nat \X Nat), cursor : Nat]
NoGap == [gaps |-> {}, cursor |-> 0]
GapTurns(R, g) ==
  /\ g \in [0..Len(R) -> GapAccs]
  /\ g[0] = NoGap /\ g[Len(R)] = FoldLeft(Gap, NoGap, R)
  /\ \A k \in 1..Len(R) : g[k] = Gap(g[k - 1], R[k])

LEMMA GapIsAcc ==
  ASSUME NEW v \in GapAccs, NEW r \in Nat \X Nat
  PROVE  Gap(v, r) \in GapAccs
<1> DEFINE c == v.cursor
           a == r[1]
           b == r[2]
           G == v.gaps
<1>1. c \in Nat /\ a \in Nat /\ b \in Nat /\ G \in SUBSET (Nat \X Nat) /\ {<<c, a>>} \in SUBSET (Nat \X Nat)
  BY DEF GapAccs
<1>2. Gap(v, r) = [gaps |-> IF c < a THEN G \cup {<<c, a>>} ELSE G, cursor |-> IF c < b THEN b ELSE c]
  BY DEF Gap
<1> HIDE DEF a, b, c, G
<1>3. (IF c < a THEN G \cup {<<c, a>>} ELSE G) \in SUBSET (Nat \X Nat)
  BY <1>1
<1>4. (IF c < b THEN b ELSE c) \in Nat
  BY <1>1
<1>5. QED BY <1>2, <1>3, <1>4 DEF GapAccs

LEMMA GapsHaveTurns ==
  ASSUME NEW R \in Seq(Nat \X Nat)
  PROVE  \E g : GapTurns(R, g)
<1> DEFINE m == Len(R)
           V == GapAccs
           F == [i \in 1..m |-> [v \in V |-> Gap(v, R[i])]]
           Folds(h) == h = [s \in SUBSET (DOMAIN R) |->
                              IF s = {} THEN NoGap ELSE Gap(h[s \ {Max(s)}], R[Max(s)])]
           it == CHOOSE h : Folds(h)
<1>1. m \in Nat /\ R \in [1..m -> Nat \X Nat] /\ DOMAIN R = 1..m
  OBVIOUS
<1>2. FoldLeft(Gap, NoGap, R) = it[DOMAIN R]
  BY DEF FoldLeft, MapThenFoldSet
<1> HIDE DEF m
<1>3. \A v \in V, a \in Nat \X Nat : Gap(v, a) \in V
  BY GapIsAcc
<1>4. F \in [1..m -> [V -> V]] /\ \A i \in 1..m, v \in V : F[i][v] = Gap(v, R[i])
  BY <1>1, <1>3
<1>5. NoGap \in V
  BY DEF NoGap, GapAccs
<1> HIDE DEF F, V
<1>6. \A s \in SUBSET (1..m) : s # {} => Max(s) \in 1..m /\ s \ {Max(s)} \in SUBSET (1..m)
  <2> SUFFICES ASSUME NEW s \in SUBSET (1..m), s # {} PROVE Max(s) \in s
    OBVIOUS
  <2>1. s \subseteq 0..m
    BY <1>1
  <2>2. QED BY <1>1, <2>1, MaxIs
<1>7. PICK h : IsFold(h, m, V, NoGap, F)
  BY <1>1, <1>4, <1>5, FoldExists
<1>8. Folds(h)
  <2>1. \A s \in SUBSET (1..m) : h[s] = IF s = {} THEN NoGap ELSE Gap(h[s \ {Max(s)}], R[Max(s)])
    BY <1>4, <1>6, <1>7 DEF IsFold
  <2>2. QED BY <1>1, <1>7, <2>1 DEF IsFold
<1>9. Folds(it)
  <2> HIDE DEF Folds
  <2>1. QED BY <1>8
<1> HIDE DEF it
<1>10. it[{}] = NoGap /\ \A k \in 1..m : it[1..k] = Gap(it[1..(k - 1)], R[k])
  <2>1. \A s \in SUBSET (1..m) : it[s] = IF s = {} THEN NoGap ELSE Gap(it[s \ {Max(s)}], R[Max(s)])
    BY <1>1, <1>9
  <2>2. ASSUME NEW k \in 1..m PROVE it[1..k] = Gap(it[1..(k - 1)], R[k])
    <3>1. k \in Nat \ {0} /\ 1..k \in SUBSET (1..m)
      BY <1>1
    <3>2. Max(1..k) = k /\ (1..k) \ {k} = 1..(k - 1) /\ 1..k # {}
      BY <3>1, IntervalMax
    <3> DEFINE s == 1..k
               t == 1..(k - 1)
    <3>3. s \in SUBSET (1..m) /\ Max(s) = k /\ s \ {k} = t /\ s # {}
      BY <3>1, <3>2
    <3> HIDE DEF s, t
    <3>4. it[s] = Gap(it[t], R[k])
      BY <2>1, <3>3
    <3>5. QED BY <3>4 DEF s, t
  <2>3. QED BY <2>1, <2>2
<1> DEFINE g == [k \in 0..m |-> it[1..k]]
<1>11. g[0] = NoGap /\ g[m] = FoldLeft(Gap, NoGap, R) /\ \A k \in 1..m : g[k] = Gap(g[k - 1], R[k])
  <2>1. 1..0 = {} /\ 0 \in 0..m /\ m \in 0..m /\ \A k \in 1..m : k \in 0..m /\ k - 1 \in 0..m
    BY <1>1
  <2>2. \A k \in 0..m : g[k] = it[1..k]
    BY Zenon
  <2> HIDE DEF g
  <2>3. QED BY <2>1, <2>2, <1>1, <1>2, <1>10
<1>12. \A k \in 0..m : g[k] \in V
  <2> HIDE DEF g
  <2> DEFINE T == {k \in 0..m : g[k] \in V}
  <2>1. 0 \in T
    BY <1>1, <1>5, <1>11
  <2>2. ASSUME NEW k \in 1..m, k - 1 \in T PROVE k \in T
    <3>1. k \in 0..m /\ g[k - 1] \in V /\ R[k] \in Nat \X Nat
      BY <1>1, <2>2
    <3>2. Gap(g[k - 1], R[k]) \in V
      BY <1>3, <3>1
    <3>3. QED BY <1>11, <3>1, <3>2
  <2> HIDE DEF T
  <2>3. \A k \in 0..m : k \in T
    BY <1>1, <2>1, <2>2, Reaches
  <2>4. QED BY <2>3 DEF T
<1>13. g \in [0..m -> GapAccs]
  BY <1>12 DEF V
<1> HIDE DEF g
<1>14. GapTurns(R, g)
  BY <1>11, <1>13 DEF GapTurns, m
<1>15. QED BY <1>14

(* One stretch more, up to d, where I has all from c to d or none. *)
Free(d, I) == 0..(d - 1) \ I
Empty(I, c, d) == \A p \in Nat : c <= p /\ p < d => p \notin I
LEMMA GapAdds ==
  ASSUME NEW c \in Nat, NEW d \in Nat, NEW I, c <= d,
         c = 0 \/ c - 1 \in I, Empty(I, c, d)
  PROVE  (IF c < d THEN Maximal(Free(c, I)) \cup {<<c, d>>} ELSE Maximal(Free(c, I)))
           = Maximal(Free(d, I))
<1>1. CASE c = d
  BY <1>1
<1>2. CASE c < d
  <2> DEFINE D == Free(c, I)
  <2>1. D \subseteq 0..(c - 1) /\ c - 1 \notin D
    BY DEF Free
  <2>2. Free(d, I) = D \cup c..(d - 1)
    BY <1>2 DEF Free, Empty
  <2> HIDE DEF D
  <2>3. Maximal(D \cup c..(d - 1)) = Maximal(D) \cup {<<c, d>>}
    BY <1>2, <2>1, MaximalGrows
  <2>4. QED BY <1>2, <2>2, <2>3 DEF D
<1>3. QED BY <1>1, <1>2

(* What gap_runs has found up to the end of the k-th run. *)
GapsUpto(R, v, k) ==
  /\ v.cursor = IF k = 0 THEN 0 ELSE R[k][2]
  /\ v.gaps = Maximal(Free(v.cursor, In(R)))

LEMMA GapsAre ==
  ASSUME NEW n \in Nat, NEW R \in Seq(Nat \X Nat), AreRuns(n, R)
  PROVE  gap_runs(n, R) = Maximal(0..(n - 1) \ In(R))
<1> DEFINE m == Len(R)
           I == In(R)
<1>1. PICK g : GapTurns(R, g)
  BY GapsHaveTurns
<1>2. m \in Nat /\ \A k \in 1..m : R[k] \in ToSet(R) /\ R[k][1] \in Nat /\ R[k][2] \in Nat
  BY DEF AreRuns, ToSet
<1>3. ASSUME NEW k \in 0..m, NEW d \in Nat, k < m => d <= R[k + 1][1], NEW c \in Nat,
             c = IF k = 0 THEN 0 ELSE R[k][2], NEW p \in Nat, c <= p, p < d
      PROVE  p \notin I
  <2> SUFFICES ASSUME p \in I PROVE FALSE
    OBVIOUS
  <2>1. PICK j \in 1..m : R[j][1] <= p /\ p < R[j][2]
    <3>1. PICK r \in ToSet(R) : r[1] <= p /\ p < r[2]
      BY RunEnds
    <3>2. QED BY <3>1, SMTT(30) DEF ToSet
  <2>2. CASE j <= k
    <3>1. k \in 1..m /\ c = R[k][2] /\ R[k][1] < R[k][2]
      BY <1>2, <1>3, <2>2 DEF AreRuns
    <3>2. j = k \/ R[j][2] < R[k][1]
      BY <1>2, <2>2, <3>1 DEF AreRuns
    <3>3. CASE j = k
      BY <1>2, <1>3, <2>1, <3>1, <3>3, SMTT(30)
    <3>4. CASE R[j][2] < R[k][1]
      BY <1>2, <1>3, <2>1, <3>1, <3>4, SMTT(30)
    <3>5. QED BY <3>2, <3>3, <3>4
  <2>3. CASE j > k
    <3>1. k + 1 \in 1..m /\ k < m /\ d <= R[k + 1][1]
      BY <1>2, <1>3, <2>3, SMTT(30)
    <3>2. j = k + 1 \/ R[k + 1][2] < R[j][1]
      BY <1>2, <2>3, <3>1 DEF AreRuns
    <3>3. R[k + 1][1] < R[k + 1][2]
      BY <3>1 DEF AreRuns
    <3>4. CASE j = k + 1
      BY <1>2, <1>3, <2>1, <3>1, <3>4, SMTT(30)
    <3>5. CASE R[k + 1][2] < R[j][1]
      BY <1>2, <1>3, <2>1, <3>1, <3>3, <3>5, SMTT(30)
    <3>6. QED BY <3>2, <3>4, <3>5
  <2>4. QED BY <1>2, <2>2, <2>3
<1>4. ASSUME NEW k \in 1..m PROVE R[k][2] - 1 \in I /\ R[k][1] < R[k][2] /\ R[k][2] <= n
  <2>1. R[k][1] < R[k][2] /\ R[k][2] <= n
    BY DEF AreRuns
  <2>2. R[k][2] - 1 \in Nat /\ R[k][1] <= R[k][2] - 1 /\ R[k][2] - 1 < R[k][2]
    BY <1>2, <2>1, SMTT(30)
  <2>3. QED BY <1>2, <2>1, <2>2, RunEnds
<1> DEFINE T == {k \in 0..m : GapsUpto(R, g[k], k)}
<1>5. 0 \in T
  <2>1. g[0] = NoGap /\ NoGap.cursor = 0 /\ NoGap.gaps = {} /\ 0 \in 0..m
    BY <1>1, <1>2 DEF GapTurns, NoGap
  <2>2. Free(0, I) = {}
    BY DEF Free
  <2>3. Maximal({}) = {}
    BY DEF Maximal
  <2>4. QED BY <2>1, <2>2, <2>3 DEF GapsUpto
<1>6. ASSUME NEW k \in 1..m, k - 1 \in T PROVE k \in T
  <2> DEFINE v == g[k - 1]
             c == v.cursor
             a == R[k][1]
             b == R[k][2]
             G == v.gaps
  <2>1. k - 1 \in 0..m /\ k \in 0..m /\ v \in GapAccs /\ g[k] = Gap(v, R[k])
    <3>1. k - 1 \in 0..m /\ k \in 0..m
      BY <1>2
    <3>2. QED BY <1>1, <3>1 DEF GapTurns
  <2>2. c \in Nat /\ G = Maximal(Free(c, I)) /\ c = IF k - 1 = 0 THEN 0 ELSE R[k - 1][2]
    BY <1>6, <2>1 DEF GapsUpto, GapAccs
  <2>3. a \in Nat /\ b \in Nat /\ a < b /\ b - 1 \in I
    BY <1>2, <1>4
  <2>4. c <= a /\ (c = 0 \/ c - 1 \in I)
    <3>1. CASE k = 1
      BY <2>2, <2>3, <3>1
    <3>2. CASE k > 1
      <4>1. k - 1 \in 1..m /\ k - 1 < k /\ c = R[k - 1][2]
        BY <1>2, <2>2, <3>2, SMTT(30)
      <4>2. R[k - 1][2] < R[k][1]
        BY <4>1 DEF AreRuns
      <4>3. R[k - 1][2] - 1 \in I
        BY <1>4, <4>1
      <4>4. c < a
        BY <4>1, <4>2
      <4>5. c - 1 \in I
        BY <4>1, <4>3
      <4> HIDE DEF c, a
      <4>6. QED BY <2>2, <2>3, <4>4, <4>5, SMTT(30)
    <3>3. QED BY <3>1, <3>2
  <2>5. \A p \in Nat : c <= p /\ p < a => p \notin I
    <3>1. k - 1 < m => a <= R[(k - 1) + 1][1]
      BY <2>3
    <3>2. QED BY <1>3, <2>1, <2>2, <2>3, <3>1
  <2>6. \A p \in Nat : a <= p /\ p < b => p \in I
    BY <1>2, RunEnds
  <2>7. g[k].gaps = IF c < a THEN G \cup {<<c, a>>} ELSE G
    BY <2>1 DEF Gap
  <2>0. g[k].cursor = IF c < b THEN b ELSE c
    BY <2>1 DEF Gap
  <2> HIDE DEF v, c, a, b, G, I
  <2>8. g[k].gaps = Maximal(Free(a, I))
    <3>1. (IF c < a THEN Maximal(Free(c, I)) \cup {<<c, a>>} ELSE Maximal(Free(c, I))) = Maximal(Free(a, I))
      <4>1. c \in Nat /\ a \in Nat /\ c <= a /\ (c = 0 \/ c - 1 \in I)
        BY <2>2, <2>3, <2>4
      <4>2. Empty(I, c, a)
        BY <2>5 DEF Empty
      <4>3. QED BY <4>1, <4>2, GapAdds, SMTT(30)
    <3>2. QED BY <2>2, <2>7, <3>1, Zenon
  <2>9. g[k].cursor = b
    <3>1. c \in Nat /\ a \in Nat /\ b \in Nat /\ c <= a /\ a < b
      BY <2>2, <2>3, <2>4
    <3>2. c < b
      BY <3>1
    <3>3. QED BY <2>0, <3>2
  <2>10. Free(a, I) = Free(b, I)
    BY <2>3, <2>6 DEF Free
  <2>11. GapsUpto(R, g[k], k)
    BY <2>8, <2>9, <2>10 DEF GapsUpto, b, I
  <2>12. QED BY <2>1, <2>11
<1> HIDE DEF T
<1>7. m \in T
  <2>1. \A k \in 0..m : k \in T
    BY <1>2, <1>5, <1>6, Reaches
  <2>2. QED BY <1>2, <2>1
<1> DEFINE v == g[m]
           c == v.cursor
           G == v.gaps
<1>8. v \in GapAccs /\ v = FoldLeft(Gap, NoGap, R) /\ c \in Nat
  BY <1>1, <1>2 DEF GapTurns, GapAccs
<1>9. c = (IF m = 0 THEN 0 ELSE R[m][2]) /\ G = Maximal(Free(c, I))
  BY <1>7 DEF T, GapsUpto
<1>10. c <= n /\ (c = 0 \/ c - 1 \in I)
  <2>1. CASE m = 0
    BY <1>9, <2>1
  <2>2. CASE m > 0
    <3>1. m \in 1..m
      BY <1>2, <2>2
    <3>2. QED BY <1>4, <1>9, <2>2, <3>1
  <2>3. QED BY <1>2, <2>1, <2>2
<1>11. \A p \in Nat : c <= p /\ p < n => p \notin I
  <2>1. m \in 0..m /\ ~(m < m)
    BY <1>2
  <2> HIDE DEF v, c, G, I
  <2>2. QED BY <2>1, <1>3, <1>8, <1>9
<1>12. gap_runs(n, R) = IF c < n THEN G \cup {<<c, n>>} ELSE G
  BY <1>8 DEF gap_runs, NoGap
<1> HIDE DEF v, c, G, I
<1>13. gap_runs(n, R) = Maximal(Free(n, I))
  <2>1. (IF c < n THEN Maximal(Free(c, I)) \cup {<<c, n>>} ELSE Maximal(Free(c, I))) = Maximal(Free(n, I))
    <3>1. Empty(I, c, n)
      BY <1>11 DEF Empty
    <3>2. QED BY <1>8, <1>10, <3>1, GapAdds
  <2>2. QED BY <1>9, <1>12, <2>1, Zenon
<1>14. QED BY <1>13 DEF Free, I

LEMMA ImageIsFinite ==
  ASSUME NEW S, IsFiniteSet(S), NEW f, DOMAIN f = S
  PROVE  /\ IsFiniteSet({f[x] : x \in S})
         /\ Cardinality({f[x] : x \in S}) <= Cardinality(S)
<1> DEFINE T == {f[x] : x \in S}
           h == [x \in S |-> f[x]]
<1>1. h \in Surjection(S, T)
  BY DEF Surjection
<1> HIDE DEF h, T
<1>2. QED BY <1>1, FS_Surjection DEF T

(* intersect finds out whether a span of P has a character of s: the spans *)
(* that end before s are among those that start before the end of s, and   *)
(* they are all of them just when no span overlaps s.                      *)
LEMMA IntersectIs ==
  ASSUME NEW P \in SUBSET Proper, IsFiniteSet(P), NEW s \in Proper
  PROVE  intersect(s, P) <=> \E p \in P : p.start < s.end /\ s.start < p.end
<1> DEFINE m == Cardinality(P)
           q == Sorted(P, InOrder)
           A == {p \in P : p.end <= s.start}
           B == {p \in P : p.start < s.end}
           i == Cardinality(A) + 1
<1>1. /\ m \in Nat /\ q \in [1..m -> P] /\ \A a \in P : \E j \in 1..m : q[j] = a
      /\ \A j, k \in 1..m : j < k => InOrder(q[j], q[k])
  <2>1. P \in SUBSET Labelled
    BY DEF Proper
  <2>2. QED BY <2>1, LabelsSort DEF IsListOf
<1>2. Len(q) = m
  BY <1>1
<1>3. intersect(s, P) <=> i <= m /\ q[i].start < s.end
  BY <1>2 DEF intersect
<1>4. A \subseteq B
  BY DEF Proper, Labelled
<1>5. IsFiniteSet(A) /\ IsFiniteSet(B) /\ Cardinality(A) \in Nat /\ Cardinality(B) \in Nat /\ Cardinality(B) <= m
  <2>1. A \in SUBSET P /\ B \in SUBSET P
    OBVIOUS
  <2> HIDE DEF A, B
  <2>2. IsFiniteSet(A) /\ IsFiniteSet(B) /\ Cardinality(B) <= m
    BY <2>1, FS_Subset
  <2>3. QED BY <2>2, FS_CardinalityType
<1>6. (\E p \in P : p.start < s.end /\ s.start < p.end) <=> A # B
  BY <1>4 DEF Proper, Labelled
<1>7. \A j, k \in 1..m : j < k => q[j].start <= q[k].start /\ q[j] # q[k]
  <2> SUFFICES ASSUME NEW j \in 1..m, NEW k \in 1..m, j < k
               PROVE  q[j].start <= q[k].start /\ q[j] # q[k]
    OBVIOUS
  <2>1. q[j] \in Labelled /\ q[k] \in Labelled /\ InOrder(q[j], q[k])
    BY <1>1 DEF Proper
  <2>2. QED BY <2>1, InOrderIsOrder
<1> HIDE DEF q
<1>8. s.end \in Nat /\ \A j \in 1..m : q[j].start \in Nat
  BY <1>1 DEF Proper, Labelled
<1>9. ASSUME i <= m, q[i].start < s.end PROVE A # B
  <2> SUFFICES ASSUME A = B PROVE FALSE
    OBVIOUS
  <2>1. i \in 1..m
    BY <1>5, <1>9
  <2>2. \A j \in 1..i : j \in 1..m /\ q[j] \in B
    <3> SUFFICES ASSUME NEW j \in 1..i PROVE j \in 1..m /\ q[j] \in B
      OBVIOUS
    <3>1. j \in 1..m /\ (j < i \/ j = i)
      <4> HIDE DEF i
      <4>1. i \in Nat /\ i <= m
        BY <1>1, <2>1
      <4>2. QED BY <1>1, <4>1
    <3>2. q[j].start <= q[i].start
      BY <1>7, <1>8, <2>1, <3>1
    <3>3. q[j].start < s.end
      BY <1>8, <1>9, <2>1, <3>1, <3>2
    <3>4. QED BY <1>1, <3>1, <3>3
  <2> DEFINE f == [j \in 1..i |-> q[j]]
  <2> HIDE DEF A, B
  <2>3. f \in [1..i -> A]
    BY <2>2
  <2>4. \A j, k \in 1..i : f[j] = f[k] => j = k
    <3> SUFFICES ASSUME NEW j \in 1..i, NEW k \in 1..i, q[j] = q[k] PROVE j = k
      OBVIOUS
    <3>1. j \in 1..m /\ k \in 1..m
      BY <2>2
    <3>2. ~(j < k) /\ ~(k < j)
      BY <1>7, <3>1
    <3>3. QED BY <3>1, <3>2
  <2> HIDE DEF f
  <2>5. f \in Injection(1..i, A)
    BY <2>3, <2>4 DEF Injection, IsInjective
  <2>6. Cardinality(1..i) <= Cardinality(A)
    BY <1>5, <2>5, FS_Injection
  <2>7. Cardinality(1..i) = i
    BY <1>5, FS_Interval
  <2>8. QED BY <1>5, <2>6, <2>7
<1>10. ASSUME A # B PROVE i <= m /\ q[i].start < s.end
  <2>1. Cardinality(A) < Cardinality(B)
    <3> HIDE DEF A, B
    <3>1. Cardinality(A) <= Cardinality(B) /\ (Cardinality(A) = Cardinality(B) => A = B)
      BY <1>4, <1>5, FS_Subset
    <3>2. QED BY <1>5, <1>10, <3>1
  <2>2. i \in 1..m
    BY <1>1, <1>5, <2>1
  <2>3. SUFFICES ASSUME ~(q[i].start < s.end) PROVE FALSE
    BY <2>2
  <2> DEFINE k == i - 1
             T == {q[j] : j \in 1..k}
             f == [j \in 1..k |-> q[j]]
  <2>4. B \subseteq T
    <3> SUFFICES ASSUME NEW p \in B PROVE p \in T
      OBVIOUS
    <3>1. PICK j \in 1..m : q[j] = p
      BY <1>1
    <3>2. q[j].start < s.end
      BY <3>1
    <3>3. ~(i < j) /\ i # j
      BY <1>7, <1>8, <2>2, <2>3, <3>2
    <3>4. j \in 1..k
      BY <2>2, <3>3
    <3>5. QED BY <3>1, <3>4
  <2>5. IsFiniteSet(1..k) /\ Cardinality(1..k) = k
    <3>1. k \in Nat
      BY <1>5
    <3> HIDE DEF k
    <3>2. QED BY <3>1, FS_Interval
  <2>6. T = {f[j] : j \in 1..k} /\ DOMAIN f = 1..k
    OBVIOUS
  <2> HIDE DEF B, T, f, k
  <2>7. IsFiniteSet(T) /\ Cardinality(T) <= k
    BY <2>5, <2>6, ImageIsFinite
  <2>8. Cardinality(B) <= Cardinality(T) /\ Cardinality(T) \in Nat
    BY <2>4, <2>7, FS_Subset, FS_CardinalityType
  <2>9. QED BY <1>5, <2>1, <2>7, <2>8 DEF k
<1>11. QED BY <1>3, <1>6, <1>9, <1>10

(* A span in the text is selected when it has a predicted character. *)
LEMMA SelectionIs ==
  ASSUME NEW n \in Nat, NEW P \in SUBSET Proper, IsFiniteSet(P), NEW s \in Proper, s.end <= n
  PROVE  intersect(s, P) <=> Extent(s) \cap In(prediction_chars(n, P)) # {}
<1>1. In(prediction_chars(n, P)) = Chars(P) \cap 0..(n - 1)
  BY RunsAre
<1>2. Extent(s) = s.start..(s.end - 1) /\ s.start \in Nat /\ s.end \in Nat /\ s.start < s.end
  BY DEF Extent, Proper, Labelled
<1>3. Extent(s) \subseteq 0..(n - 1)
  BY <1>2
<1>4. \A p \in P : p.start \in Nat /\ p.end \in Nat /\ p.start < p.end
  BY DEF Proper, Labelled
<1>5. ASSUME NEW p \in P
      PROVE  (p.start < s.end /\ s.start < p.end) <=> Extent(s) \cap Extent(p) # {}
  <2> DEFINE a == s.start
             b == s.end
             c == p.start
             d == p.end
  <2>1. /\ a \in Nat /\ b \in Nat /\ c \in Nat /\ d \in Nat /\ a < b /\ c < d
        /\ Extent(s) = a..(b - 1) /\ Extent(p) = c..(d - 1)
    BY <1>2, <1>4 DEF Extent
  <2> HIDE DEF a, b, c, d
  <2>2. (c < b /\ a < d) <=> (a..(b - 1)) \cap (c..(d - 1)) # {}
    <3>1. ASSUME c < b, a < d PROVE (a..(b - 1)) \cap (c..(d - 1)) # {}
      <4>1. CASE a <= c
        <5>1. c \in a..(b - 1) /\ c \in c..(d - 1)
          BY <2>1, <3>1, <4>1
        <5>2. QED BY <5>1
      <4>2. CASE c < a
        <5>1. a \in a..(b - 1) /\ a \in c..(d - 1)
          BY <2>1, <3>1, <4>2
        <5>2. QED BY <5>1
      <4>3. QED BY <2>1, <4>1, <4>2
    <3>2. ASSUME NEW x \in (a..(b - 1)) \cap (c..(d - 1)) PROVE c < b /\ a < d
      BY <2>1
    <3>3. QED BY <3>1, <3>2
  <2>3. QED BY <2>1, <2>2 DEF a, b, c, d
<1>6. (\E p \in P : Extent(s) \cap Extent(p) # {}) <=> Extent(s) \cap (Chars(P) \cap 0..(n - 1)) # {}
  BY <1>3 DEF Chars
<1>7. QED BY <1>1, <1>5, <1>6, IntersectIs

-----------------------------------------------------------------------------
(* Groups of spans, each with a member.                                    *)
AreGroups(G, S) ==
  /\ IsFiniteSet(G) /\ \A g \in G : g \subseteq S /\ g # {} /\ IsFiniteSet(g)

LEMMA ComponentsAre ==
  ASSUME NEW S, IsFiniteSet(S), NEW E
  PROVE  /\ AreGroups(connected_components(S, E), S)
         /\ S # {} => connected_components(S, E) # {}
<1> DEFINE closed == {g \in SUBSET S : \A e \in E \cap (S \X S) : e[1] \in g <=> e[2] \in g}
           f == [a \in S |-> {b \in S : \A g \in closed : a \in g => b \in g}]
           G == connected_components(S, E)
<1>1. G = {f[a] : a \in S}
  BY DEF connected_components
<1> HIDE DEF closed, G
<1>2. \A a \in S : a \in f[a] /\ f[a] \subseteq S
  OBVIOUS
<1>3. DOMAIN f = S
  OBVIOUS
<1> HIDE DEF f
<1>4. IsFiniteSet(G)
  BY <1>1, <1>3, ImageIsFinite
<1>5. \A g \in G : g # {} /\ g \subseteq S
  BY <1>1, <1>2
<1>6. \A g \in G : IsFiniteSet(g)
  BY <1>5, FS_Subset
<1>7. S # {} => G # {}
  BY <1>1
<1>8. QED BY <1>4, <1>5, <1>6, <1>7 DEF G, AreGroups

(* The contextual entities, and those of their spans that are selected.    *)
LEMMA EntitiesAre ==
  ASSUME NEW t, NEW Y, IsFiniteSet(Y), NEW links
  PROVE  AreGroups(fused_entity_groups(t, Y, links), Y)
<1> DEFINE within(q) == {y \in Y : y.start >= q.o /\ y.end <= q.end + 1}
           blocks == links.context \cup {within(q) : q \in links.pairs}
           E == UNION {b \X b : b \in blocks}
           G == connected_components(Y, E)
           F == fused_entity_groups(t, Y, links)
<1>1. F \subseteq G
  BY DEF fused_entity_groups
<1> HIDE DEF F, E
<1>2. AreGroups(G, Y)
  BY ComponentsAre
<1> HIDE DEF G
<1>3. IsFiniteSet(F)
  BY <1>1, <1>2, FS_Subset DEF AreGroups
<1>4. QED BY <1>1, <1>2, <1>3 DEF AreGroups, F

Active(G, selected) == {g \cap selected : g \in G} \ {{}}

LEMMA ActiveAre ==
  ASSUME NEW S, NEW G, AreGroups(G, S), NEW selected
  PROVE  AreGroups(Active(G, selected), S)
<1> DEFINE f == [g \in G |-> g \cap selected]
           T == {f[g] : g \in G}
           A == Active(G, selected)
<1>1. A = T \ {{}}
  BY DEF Active
<1>2. \A g \in G : f[g] \subseteq S /\ IsFiniteSet(f[g])
  BY FS_Intersection DEF AreGroups
<1>3. DOMAIN f = G /\ IsFiniteSet(G)
  BY DEF AreGroups
<1> HIDE DEF f, A
<1>4. IsFiniteSet(T)
  BY <1>3, ImageIsFinite
<1>5. \A g \in T : g \subseteq S /\ IsFiniteSet(g)
  BY <1>2
<1> HIDE DEF T
<1>6. IsFiniteSet(A)
  BY <1>1, <1>4, FS_Subset
<1>7. QED BY <1>1, <1>5, <1>6 DEF AreGroups, A

LEMMA NothingActive ==
  ASSUME NEW G
  PROVE  Active(G, {}) = {}
  BY DEF Active

(* From nothing nothing is pulled in. *)
LEMMA NothingPulled ==
  ASSUME NEW Y, IsFiniteSet(Y), NEW links
  PROVE  Pulled(Y, links, {}) = {}
<1> DEFINE n == Cardinality(Y)
           Loop(h) == h = [k \in 0..n |-> IF k = 0 THEN {} ELSE Pull(Y, links, h[k - 1])]
           it == CHOOSE h : Loop(h)
           z == [k \in 0..n |-> {}]
<1>1. Pulled(Y, links, {}) = it[n]
  BY DEF Pulled
<1>2. n \in Nat
  BY FS_CardinalityType
<1>3. Pull(Y, links, {}) = {}
  <2> DEFINE joined == {} \cup UNION {g \in links.context : g \cap {} # {}}
             hit == {q \in links.pairs : (yellow_at_pos(Y, q.o) \cup yellow_at_pos(Y, q.end)) \cap joined # {}}
  <2>1. Pull(Y, links, {}) = joined \cup {y \in Y : \E q \in hit : y.start >= q.o /\ y.end <= q.end}
    BY DEF Pull
  <2>2. joined = {}
    OBVIOUS
  <2> HIDE DEF joined
  <2>3. hit = {}
    BY <2>2
  <2> HIDE DEF hit
  <2>4. QED BY <2>1, <2>2, <2>3
<1> HIDE DEF n
<1>4. Loop(z)
  <2>1. \A k \in 0..n : k # 0 => k - 1 \in 0..n
    BY <1>2
  <2>2. \A k \in 0..n : z[k] = {}
    OBVIOUS
  <2>3. \A k \in 0..n : z[k] = IF k = 0 THEN {} ELSE Pull(Y, links, z[k - 1])
    BY <1>3, <2>1, <2>2
  <2>4. z = [k \in 0..n |-> z[k]]
    OBVIOUS
  <2> HIDE DEF z
  <2>5. QED BY <2>3, <2>4
<1>5. Loop(it)
  <2> HIDE DEF Loop
  <2>1. QED BY <1>4
<1> HIDE DEF it
<1>6. \A k \in 0..n : it[k] = IF k = 0 THEN {} ELSE Pull(Y, links, it[k - 1])
  BY <1>5
<1> DEFINE T == {k \in 0..n : it[k] = {}}
<1>7. 0 \in T
  BY <1>2, <1>6
<1>8. \A k \in 1..n : k - 1 \in T => k \in T
  BY <1>2, <1>3, <1>6
<1> HIDE DEF T
<1>9. \A k \in 0..n : k \in T
  BY <1>2, <1>7, <1>8, Reaches
<1>10. n \in T
  BY <1>2, <1>9
<1>11. QED BY <1>1, <1>10 DEF T

-----------------------------------------------------------------------------
(* The sums of a score.                                                    *)
GroupSum(G, R) == SumFunction([g \in G |-> MeanCoverage(g, R)])

LEMMA GroupBounds ==
  ASSUME NEW n \in Nat, NEW R, AreRuns(n, R), NEW S \in SUBSET Proper,
         NEW G, AreGroups(G, S)
  PROVE  /\ GroupSum(G, R) \in Nat /\ GroupSum(G, R) <= Unit * Cardinality(G)
         /\ Unit * Cardinality(G) \in Nat
         /\ (\A s \in S : Extent(s) \subseteq In(R)) => GroupSum(G, R) = Unit * Cardinality(G)
<1> DEFINE f == [g \in G |-> MeanCoverage(g, R)]
           m == Cardinality(G)
<1>1. Unit \in Nat /\ m \in Nat /\ IsFiniteSet(G)
  BY ScoreAssumption, FS_CardinalityType DEF AreGroups
<1>2. \A g \in G : g \in SUBSET Proper /\ IsFiniteSet(g) /\ g # {} /\ g \subseteq S
  BY DEF AreGroups
<1>3. f \in [G -> Nat] /\ \A g \in G : 0 <= f[g] /\ f[g] <= Unit
  BY <1>1, <1>2, MeanBounds
<1>4. (\A s \in S : Extent(s) \subseteq In(R)) => \A g \in G : Unit <= f[g] /\ f[g] <= Unit
  <2> SUFFICES ASSUME \A s \in S : Extent(s) \subseteq In(R), NEW g \in G PROVE Unit <= f[g] /\ f[g] <= Unit
    OBVIOUS
  <2>1. g \in SUBSET Proper /\ IsFiniteSet(g) /\ g # {} /\ \A s \in g : Extent(s) \subseteq In(R)
    BY <1>2
  <2>2. MeanCoverage(g, R) = Unit
    BY <2>1, MeanBounds
  <2>3. QED BY <1>1, <2>2
<1>5. GroupSum(G, R) = SumFunction(f)
  BY DEF GroupSum
<1> HIDE DEF f
<1>6. SumFunction(f) \in Nat /\ SumFunction(f) <= Unit * m
  BY <1>1, <1>3, SumBetween
<1>7. (\A g \in G : Unit <= f[g] /\ f[g] <= Unit) => Unit * m <= SumFunction(f)
  BY <1>1, <1>3, SumBetween
<1>8. Unit * m \in Nat
  BY <1>1
<1> DEFINE x == Unit * m
           y == SumFunction(f)
<1>9. (\A s \in S : Extent(s) \subseteq In(R)) => x <= y
  BY <1>4, <1>7
<1>10. x \in Nat /\ y \in Nat /\ y <= x
  BY <1>6, <1>8
<1> HIDE DEF x, y
<1>11. (\A s \in S : Extent(s) \subseteq In(R)) => y = x
  BY <1>9, <1>10
<1>12. QED BY <1>5, <1>10, <1>11 DEF x, y

LEMMA GroupGrows ==
  ASSUME NEW n \in Nat, NEW R, AreRuns(n, R), NEW Q, AreRuns(n, Q), NEW S \in SUBSET Proper,
         NEW G, AreGroups(G, S), \A s \in S : Extent(s) \cap In(R) \subseteq In(Q)
  PROVE  GroupSum(G, R) <= GroupSum(G, Q)
<1> DEFINE f == [g \in G |-> MeanCoverage(g, R)]
           h == [g \in G |-> MeanCoverage(g, Q)]
<1>1. \A g \in G : /\ g \in SUBSET Proper /\ IsFiniteSet(g) /\ g # {}
                   /\ \A s \in g : Extent(s) \cap In(R) \subseteq In(Q)
  BY DEF AreGroups
<1>2. f \in [G -> Nat] /\ h \in [G -> Nat]
  BY <1>1, MeanBounds
<1>3. ASSUME NEW g \in G PROVE f[g] <= h[g]
  <2>1. MeanCoverage(g, R) <= MeanCoverage(g, Q)
    BY <1>1, MeanGrows
  <2>2. QED BY <2>1
<1>4. GroupSum(G, R) = SumFunction(f) /\ GroupSum(G, Q) = SumFunction(h) /\ IsFiniteSet(G)
  BY DEF GroupSum, AreGroups
<1> HIDE DEF f, h
<1>5. QED BY <1>2, <1>3, <1>4, SumGrows

LEMMA GroupSame ==
  ASSUME NEW n \in Nat, NEW R, AreRuns(n, R), NEW Q, AreRuns(n, Q), NEW S \in SUBSET Proper,
         NEW G, AreGroups(G, S), \A s \in S : Extent(s) \cap In(R) = Extent(s) \cap In(Q)
  PROVE  GroupSum(G, R) = GroupSum(G, Q)
<1>1. \A s \in S : Extent(s) \cap In(R) \subseteq In(Q) /\ Extent(s) \cap In(Q) \subseteq In(R)
  OBVIOUS
<1>2. GroupSum(G, R) <= GroupSum(G, Q) /\ GroupSum(G, Q) <= GroupSum(G, R)
  BY <1>1, GroupGrows
<1>3. GroupSum(G, R) \in Nat /\ GroupSum(G, Q) \in Nat
  BY GroupBounds
<1>4. QED BY <1>2, <1>3

(* The false positives, weighed. *)
FalseSum(D, gaps) == SumFunction([f \in Maximal(D) |-> Weight(f, gaps)])

LEMMA FalseIsNat ==
  ASSUME NEW n \in Nat, NEW D, D \subseteq 0..(n - 1), NEW gaps
  PROVE  FalseSum(D, gaps) \in Nat /\ (D = {} => FalseSum(D, gaps) = 0)
<1> DEFINE M == Maximal(D)
           w == [f \in M |-> Weight(f, gaps)]
<1>1. Unit \in Nat /\ 2 * Unit \in Nat
  <2>1. Unit \in Nat
    BY ScoreAssumption
  <2>2. QED BY <2>1
<1>2. M \subseteq (0..n) \X (0..n)
  <2> SUFFICES ASSUME NEW f \in M PROVE f \in (0..n) \X (0..n)
    OBVIOUS
  <2>1. f \in Nat \X Nat
    BY MaximalAre
  <2>2. f[1] < f[2] /\ \A p \in Nat : f[1] <= p /\ p < f[2] => p \in D
    BY <2>1, MaximalIs
  <2> DEFINE a == f[1]
             b == f[2]
  <2>3. a \in Nat /\ b \in Nat /\ f = <<a, b>> /\ a < b /\ (b - 1 \in Nat => b - 1 \in D)
    BY <2>1, <2>2
  <2> HIDE DEF a, b
  <2>4. a \in 0..n /\ b \in 0..n
    BY <2>3
  <2>5. QED BY <2>3, <2>4
<1>3. IsFiniteSet(M)
  <2>1. IsFiniteSet((0..n) \X (0..n))
    <3> DEFINE I == 0..n
    <3>1. IsFiniteSet(I)
      BY FS_Interval
    <3> HIDE DEF I
    <3>2. IsFiniteSet(I \X I)
      BY <3>1, FS_Product
    <3>3. QED BY <3>2 DEF I
  <2>2. QED BY <1>2, <2>1, FS_Subset
<1>4. w \in [M -> Nat] /\ \A f \in M : 0 <= w[f] /\ w[f] <= 2 * Unit
  BY <1>1 DEF Weight
<1>5. D = {} => M = {}
  BY DEF Maximal
<1>6. FalseSum(D, gaps) = SumFunction(w)
  BY DEF FalseSum
<1> HIDE DEF w, M
<1>7. SumFunction(w) \in Nat /\ SumFunction(w) <= (2 * Unit) * Cardinality(M)
  BY <1>1, <1>3, <1>4, SumBetween
<1>8. ASSUME D = {} PROVE SumFunction(w) = 0
  <2>1. Cardinality(M) = 0
    BY <1>5, <1>8, FS_EmptySet
  <2>2. (2 * Unit) * 0 = 0
    BY <1>1
  <2>3. SumFunction(w) <= 0
    BY <1>7, <2>1, <2>2
  <2>4. QED BY <1>7, <2>3
<1>9. QED BY <1>6, <1>7, <1>8

(* An annotation of a text of n characters. *)
Annotated(n) == {s \in Proper : s.end <= n}

LEMMA AnnotationIsFinite ==
  ASSUME NEW n \in Nat, NEW S \in SUBSET Annotated(n)
  PROVE  IsFiniteSet(S) /\ S \in SUBSET Proper
<1> DEFINE I == 0..n
           D == I \X (I \X BOOLEAN)
           f == [x \in D |-> [start |-> x[1], end |-> x[2][1], red |-> x[2][2]]]
           T == {f[x] : x \in D}
<1>1. IsFiniteSet(D)
  <2>1. IsFiniteSet(I)
    BY FS_Interval
  <2>2. IsFiniteSet(BOOLEAN)
    <3>1. IsFiniteSet({TRUE})
      BY FS_Singleton
    <3>2. IsFiniteSet({TRUE} \cup {FALSE})
      BY <3>1, FS_AddElement
    <3>3. BOOLEAN = {TRUE} \cup {FALSE}
      OBVIOUS
    <3>4. QED BY <3>2, <3>3
  <2> HIDE DEF I
  <2>3. IsFiniteSet(I \X BOOLEAN)
    BY <2>1, <2>2, FS_Product
  <2>4. QED BY <2>1, <2>3, FS_Product
<1>2. S \subseteq T
  <2> SUFFICES ASSUME NEW s \in S PROVE s \in T
    OBVIOUS
  <2>1. s \in Labelled /\ s.start < s.end /\ s.end <= n
    BY DEF Annotated, Proper
  <2> DEFINE x == <<s.start, <<s.end, s.red>>>>
  <2>2. x \in D
    BY <2>1 DEF Labelled
  <2>3. f[x] = s
    <3>1. f[x] = [start |-> s.start, end |-> s.end, red |-> s.red]
      BY <2>2
    <3>2. QED BY <2>1, <3>1 DEF Labelled
  <2>4. QED BY <2>2, <2>3
<1>3. DOMAIN f = D
  OBVIOUS
<1> HIDE DEF f, D
<1>4. IsFiniteSet(T)
  BY <1>1, <1>3, ImageIsFinite
<1>5. IsFiniteSet(S)
  BY <1>2, <1>4, FS_Subset
<1>6. QED BY <1>5 DEF Annotated

(* The sums, of which the entities do not depend on the prediction but     *)
(* which of them are active does.                                          *)
Support(n, L) == In(prediction_chars(n, L))
ActiveOf(t, L, links, selected) == Active(fused_entity_groups(t, Yellow(L), links), selected)
FalseOf(t, L, R) == FalseSum(In(R) \ Support(Len(t), L), gap_runs(Len(t), prediction_chars(Len(t), L)))

IsScore(v, links, L, R, A, e) ==
  /\ v.n = GroupSum(links.red, R) + (IF Red(L) = {} THEN GroupSum(A, R) ELSE 0)
  /\ v.d = Unit * Cardinality(links.red)
           + (IF Red(L) = {} THEN Unit * Cardinality(A)
                             ELSE Unit * Cardinality(A) - GroupSum(A, R))
           + e
  /\ v = [n |-> v.n, d |-> v.d]

LEMMA SumsAre ==
  ASSUME NEW t, Len(t) \in Nat, NEW L, NEW links, NEW R, AreRuns(Len(t), R), NEW selected
  PROVE  IsScore(Sums(t, L, links, R, selected), links, L, R,
                 ActiveOf(t, L, links, selected), FalseOf(t, L, R))
<1>1. false_positive_runs(R, In(prediction_chars(Len(t), L))) = Maximal(In(R) \ Support(Len(t), L))
  BY FalseAreMaximal DEF Support
<1>2. QED BY <1>1 DEF Sums, GroupSum, FalseOf, FalseSum, ActiveOf, Active, IsScore

(* An annotation with its structure, and predictions of its text.          *)
Annotation(t, L, links) ==
  /\ Len(t) \in Nat /\ L \in SUBSET Annotated(Len(t))
  /\ AreGroups(links.red, Red(L)) /\ (Red(L) # {} => links.red # {})
Predicted(P) == P \in SUBSET Proper /\ IsFiniteSet(P)
RunsIn(t, P) == prediction_chars(Len(t), P)

LEMMA CharsIn ==
  ASSUME NEW n \in Nat, NEW L \in SUBSET Annotated(n)
  PROVE  /\ Chars(L) \subseteq 0..(n - 1)
         /\ Chars(L) \cap 0..(n - 1) = Chars(L)
         /\ Support(n, L) = Chars(L)
         /\ IsFiniteSet(L) /\ L \in SUBSET Proper /\ AreRuns(n, prediction_chars(n, L))
         /\ Red(L) \in SUBSET Proper /\ Yellow(L) \in SUBSET Proper
         /\ IsFiniteSet(Red(L)) /\ IsFiniteSet(Yellow(L))
<1>1. IsFiniteSet(L) /\ L \in SUBSET Proper
  BY AnnotationIsFinite
<1>2. Red(L) \subseteq L /\ Yellow(L) \subseteq L
  BY DEF Red, Yellow
<1>3. IsFiniteSet(Red(L)) /\ IsFiniteSet(Yellow(L))
  BY <1>1, <1>2, FS_Subset
<1>4. \A s \in L : Extent(s) \subseteq 0..(n - 1)
  BY DEF Annotated, Proper, Labelled, Extent
<1>5. Chars(L) \subseteq 0..(n - 1)
  BY <1>4 DEF Chars
<1>6. AreRuns(n, prediction_chars(n, L)) /\ Support(n, L) = Chars(L) \cap 0..(n - 1)
  BY <1>1, RunsAre DEF Support
<1>7. Chars(L) \cap 0..(n - 1) = Chars(L)
  BY <1>5
<1>8. QED BY <1>1, <1>2, <1>3, <1>5, <1>6, <1>7

(* The runs of a prediction, the gaps and the false positives are as long  *)
(* as can be.                                                              *)
LEMMA LongestAre ==
  ASSUME NEW n \in Nat, NEW L \in SUBSET Annotated(n), NEW P, Predicted(P)
  PROVE  LET runs == prediction_chars(n, P)
             support == prediction_chars(n, L)
             gaps == gap_runs(n, support)
             false == false_positive_runs(runs, In(support))
         IN  /\ In(runs) = Chars(P) \cap 0..(n - 1)
             /\ Stretches(gaps) = 0..(n - 1) \ Chars(L)
             /\ Stretches(false) = In(runs) \ Chars(L)
             /\ ~Touching(ToSet(runs)) /\ ~Touching(gaps) /\ ~Touching(false)
<1> DEFINE runs == prediction_chars(n, P)
           support == prediction_chars(n, L)
           gaps == gap_runs(n, support)
           false == false_positive_runs(runs, In(support))
           I == 0..(n - 1)
<1>1. AreRuns(n, runs) /\ In(runs) = Chars(P) \cap I
  BY RunsAre DEF Predicted
<1>2. /\ AreRuns(n, support) /\ support \in Seq(Nat \X Nat)
      /\ In(support) = Chars(L)
  BY CharsIn, RunsAre DEF Support
<1> HIDE DEF runs, support
<1>3. gaps = Maximal(I \ In(support))
  BY <1>2, GapsAre
<1>4. false = Maximal(In(runs) \ In(support))
  BY <1>1, FalseAreMaximal
<1>5. I \ Chars(L) \subseteq I /\ In(runs) \ Chars(L) \subseteq I
  BY <1>1
<1> HIDE DEF gaps, false
<1>6. Stretches(gaps) = I \ Chars(L) /\ ~Touching(gaps)
  BY <1>2, <1>3, <1>5, MaximalFills, MaximalApart
<1>7. Stretches(false) = In(runs) \ Chars(L) /\ ~Touching(false)
  BY <1>2, <1>4, <1>5, MaximalFills, MaximalApart
<1>8. ~Touching(ToSet(runs))
  BY <1>1, RunEnds
<1>9. QED BY <1>1, <1>6, <1>7, <1>8 DEF runs, support, gaps, false

(* What is selected depends on the spans that have predicted characters.   *)
LEMMA ChosenSame ==
  ASSUME NEW t, NEW L, NEW links, Annotation(t, L, links), NEW P, Predicted(P), NEW Q, Predicted(Q),
         \A y \in Yellow(L) : Extent(y) \cap In(RunsIn(t, P)) = {} <=> Extent(y) \cap In(RunsIn(t, Q)) = {}
  PROVE  selected_contextual_spans(Yellow(L), P, links) = selected_contextual_spans(Yellow(L), Q, links)
<1> DEFINE Y == Yellow(L)
           A == {y \in Y : intersect(y, P)}
           B == {y \in Y : intersect(y, Q)}
           n == Len(t)
<1>1. n \in Nat /\ \A y \in Y : y \in Proper /\ y.end <= n
  BY DEF Annotation, Annotated, Yellow
<1>2. ASSUME NEW y \in Y PROVE intersect(y, P) <=> intersect(y, Q)
  <2>1. intersect(y, P) <=> Extent(y) \cap In(prediction_chars(n, P)) # {}
    BY <1>1, SelectionIs DEF Predicted
  <2>2. intersect(y, Q) <=> Extent(y) \cap In(prediction_chars(n, Q)) # {}
    BY <1>1, SelectionIs DEF Predicted
  <2>3. Extent(y) \cap In(RunsIn(t, P)) = {} <=> Extent(y) \cap In(RunsIn(t, Q)) = {}
    OBVIOUS
  <2>4. QED BY <2>1, <2>2, <2>3 DEF RunsIn
<1>3. A = B
  BY <1>2
<1>4. selected_contextual_spans(Y, P, links) = Pulled(Y, links, A)
  BY DEF selected_contextual_spans
<1>5. selected_contextual_spans(Y, Q, links) = Pulled(Y, links, B)
  BY DEF selected_contextual_spans
<1> HIDE DEF Y, A, B
<1>6. selected_contextual_spans(Y, P, links) = selected_contextual_spans(Y, Q, links)
  BY <1>3, <1>4, <1>5
<1>7. QED BY <1>6 DEF Y

(* The parts of a score. *)
ActiveIn(t, L, links, P) == ActiveOf(t, L, links, selected_contextual_spans(Yellow(L), P, links))

LEMMA PartsAre ==
  ASSUME NEW t, NEW L, NEW links, Annotation(t, L, links), NEW P, Predicted(P)
  PROVE  /\ AreRuns(Len(t), RunsIn(t, P)) /\ AreGroups(ActiveIn(t, L, links, P), Yellow(L))
         /\ IsScore(score_document(t, L, links, P), links, L, RunsIn(t, P),
                    ActiveIn(t, L, links, P), FalseOf(t, L, RunsIn(t, P)))
<1> DEFINE R == RunsIn(t, P)
           Z == selected_contextual_spans(Yellow(L), P, links)
           A == ActiveOf(t, L, links, Z)
<1>1. Len(t) \in Nat /\ AreRuns(Len(t), R)
  BY RunsAre DEF Annotation, Predicted, RunsIn
<1>2. score_document(t, L, links, P) = Sums(t, L, links, R, Z) /\ A = ActiveIn(t, L, links, P)
  BY DEF score_document, RunsIn, ActiveIn
<1>3. IsFiniteSet(Yellow(L))
  BY <1>1, CharsIn DEF Annotation
<1>4. AreGroups(A, Yellow(L))
  BY <1>3, EntitiesAre, ActiveAre DEF ActiveOf
<1> HIDE DEF R, Z
<1>5. IsScore(Sums(t, L, links, R, Z), links, L, R, ActiveOf(t, L, links, Z), FalseOf(t, L, R))
  BY <1>1, SumsAre
<1>6. QED BY <1>1, <1>2, <1>4, <1>5 DEF R

LEMMA AnnotationIs ==
  ASSUME NEW t, NEW L, NEW links, Annotation(t, L, links)
  PROVE  /\ Len(t) \in Nat /\ L \in SUBSET Annotated(Len(t))
         /\ Red(L) \in SUBSET Proper /\ Yellow(L) \in SUBSET Proper
         /\ AreGroups(links.red, Red(L)) /\ (Red(L) # {} => links.red # {})
         /\ Support(Len(t), L) = Chars(L) /\ Chars(L) \subseteq 0..(Len(t) - 1)
         /\ \A s \in L : Extent(s) \subseteq Chars(L)
  BY CharsIn DEF Annotation, Chars

(* Predictions with the same characters have the same score. *)
LEMMA SameScore ==
  ASSUME NEW t, NEW L, NEW links, Annotation(t, L, links), NEW P, Predicted(P), NEW Q, Predicted(Q),
         In(RunsIn(t, P)) = In(RunsIn(t, Q))
  PROVE  score_document(t, L, links, P) = score_document(t, L, links, Q)
<1> DEFINE R == RunsIn(t, P)
           U == RunsIn(t, Q)
           A == ActiveIn(t, L, links, P)
           v == score_document(t, L, links, P)
           w == score_document(t, L, links, Q)
           e == FalseOf(t, L, R)
<1>1. selected_contextual_spans(Yellow(L), P, links) = selected_contextual_spans(Yellow(L), Q, links)
  BY ChosenSame
<1>2. A = ActiveIn(t, L, links, Q)
  BY <1>1 DEF ActiveIn
<1>3. e = FalseOf(t, L, U)
  BY DEF FalseOf
<1>4. AreRuns(Len(t), R) /\ AreGroups(A, Yellow(L)) /\ IsScore(v, links, L, R, A, e)
  BY PartsAre
<1>5. AreRuns(Len(t), U) /\ IsScore(w, links, L, U, A, e)
  BY <1>2, <1>3, PartsAre
<1> HIDE DEF R, U, A, v, w, e
<1>6. In(R) = In(U)
  BY DEF R, U
<1>7. GroupSum(links.red, R) = GroupSum(links.red, U)
  BY <1>4, <1>5, <1>6, AnnotationIs, GroupSame
<1>8. GroupSum(A, R) = GroupSum(A, U)
  BY <1>4, <1>5, <1>6, AnnotationIs, GroupSame
<1>9. v.n = w.n /\ v.d = w.d
  BY <1>4, <1>5, <1>7, <1>8 DEF IsScore
<1>10. v = w
  BY <1>4, <1>5, <1>9 DEF IsScore
<1>11. QED BY <1>10 DEF v, w

(* The runs of a prediction are a prediction of the same characters. *)
LEMMA RunsPredict ==
  ASSUME NEW n \in Nat, NEW P, Predicted(P)
  PROVE  LET Q == AsSpans(prediction_chars(n, P))
         IN  Predicted(Q) /\ In(prediction_chars(n, Q)) = In(prediction_chars(n, P))
<1> DEFINE R == prediction_chars(n, P)
           Q == AsSpans(R)
           f == [k \in 1..Len(R) |-> LabelledSpan(R[k][1], R[k][2], TRUE)]
<1>1. AreRuns(n, R)
  BY RunsAre DEF Predicted
<1> HIDE DEF R
<1>2. \A r \in ToSet(R) : r \in Nat \X Nat /\ r[1] < r[2]
  BY <1>1, RunEnds
<1>3. Q \in SUBSET Proper
  <2> SUFFICES ASSUME NEW q \in Q PROVE q \in Proper
    OBVIOUS
  <2>1. PICK r \in ToSet(R) : q = [start |-> r[1], end |-> r[2], red |-> TRUE]
    BY DEF AsSpans, LabelledSpan
  <2>2. r[1] \in Nat /\ r[2] \in Nat /\ r[1] < r[2]
    BY <1>2
  <2>3. q \in Labelled /\ q.start = r[1] /\ q.end = r[2]
    BY <2>1, <2>2 DEF Labelled
  <2>4. QED BY <2>2, <2>3 DEF Proper
<1>4. IsFiniteSet(Q)
  <2>1. IsFiniteSet(1..Len(R)) /\ DOMAIN R = 1..Len(R)
    BY <1>1, InIs
  <2>2. Q = {f[k] : k \in 1..Len(R)}
    BY <2>1 DEF AsSpans, ToSet
  <2>3. DOMAIN f = 1..Len(R)
    OBVIOUS
  <2> HIDE DEF f, Q
  <2>4. QED BY <2>1, <2>2, <2>3, ImageIsFinite
<1>5. Chars(Q) = In(R)
  <2>1. \A x : x \in Chars(Q) <=> \E r \in ToSet(R) : x \in Extent(LabelledSpan(r[1], r[2], TRUE))
    BY DEF Chars, AsSpans
  <2>2. \A r : Extent(LabelledSpan(r[1], r[2], TRUE)) = r[1]..(r[2] - 1)
    BY DEF Extent, LabelledSpan
  <2>3. \A x : x \in In(R) <=> \E r \in ToSet(R) : x \in r[1]..(r[2] - 1)
    BY DEF In
  <2> HIDE DEF Q
  <2>4. \A x : x \in Chars(Q) <=> x \in In(R)
    BY <2>1, <2>2, <2>3
  <2>5. QED BY <2>4
<1>6. In(R) \subseteq 0..(n - 1)
  BY <1>1, RunEnds
<1> HIDE DEF Q
<1>7. In(prediction_chars(n, Q)) = Chars(Q) \cap 0..(n - 1)
  BY <1>3, <1>4, RunsAre
<1>8. QED BY <1>3, <1>4, <1>5, <1>6, <1>7 DEF Predicted, Q, R

(* A score is between 0 and 1. *)
LEMMA ScoreInside ==
  ASSUME NEW t, NEW L, NEW links, Annotation(t, L, links), NEW P, Predicted(P)
  PROVE  LET s == score_document(t, L, links, P) IN s.n <= s.d
<1> DEFINE R == RunsIn(t, P)
           A == ActiveIn(t, L, links, P)
           s == score_document(t, L, links, P)
           e == FalseOf(t, L, R)
           D == In(R) \ Support(Len(t), L)
<1>1. AreRuns(Len(t), R) /\ AreGroups(A, Yellow(L)) /\ IsScore(s, links, L, R, A, e)
  BY PartsAre
<1> HIDE DEF R, A, s
<1>2. /\ GroupSum(links.red, R) \in Nat /\ GroupSum(links.red, R) <= Unit * Cardinality(links.red)
      /\ Unit * Cardinality(links.red) \in Nat
  BY <1>1, AnnotationIs, GroupBounds
<1>3. GroupSum(A, R) \in Nat /\ GroupSum(A, R) <= Unit * Cardinality(A) /\ Unit * Cardinality(A) \in Nat
  BY <1>1, AnnotationIs, GroupBounds
<1>4. e \in Nat
  <2>1. D \subseteq 0..(Len(t) - 1) /\ Len(t) \in Nat
    BY <1>1, AnnotationIs, RunEnds
  <2> HIDE DEF D
  <2>2. QED BY <2>1, FalseIsNat DEF FalseOf, D
<1> DEFINE x == GroupSum(links.red, R)
           y == Unit * Cardinality(links.red)
           a == GroupSum(A, R)
           b == Unit * Cardinality(A)
<1>5. /\ s.n = x + (IF Red(L) = {} THEN a ELSE 0)
      /\ s.d = y + (IF Red(L) = {} THEN b ELSE b - a) + e
  BY <1>1 DEF IsScore
<1>6. x \in Nat /\ y \in Nat /\ x <= y /\ a \in Nat /\ b \in Nat /\ a <= b
  BY <1>2, <1>3
<1> HIDE DEF x, y, a, b, e
<1>7. s.n <= s.d
  <2>1. CASE Red(L) = {}
    <3>1. s.n = x + a /\ s.d = y + b + e
      BY <1>5, <2>1
    <3>2. QED BY <1>4, <1>6, <3>1
  <2>2. CASE Red(L) # {}
    <3>1. s.n = x + 0 /\ s.d = y + (b - a) + e
      BY <1>5, <2>2
    <3>2. QED BY <1>4, <1>6, <3>1
  <2>3. QED BY <2>1, <2>2
<1>8. QED BY <1>7 DEF s

(* A score is 1 when just the mandatory characters were predicted, which   *)
(* no contextual span shares.                                              *)
LEMMA ScoreIsFull ==
  ASSUME NEW t, NEW L, NEW links, Annotation(t, L, links), NEW P, Predicted(P),
         Red(L) # {}, Chars(P) = Chars(Red(L)), Chars(Red(L)) \cap Chars(Yellow(L)) = {}
  PROVE  LET s == score_document(t, L, links, P) IN s.n = s.d /\ s.n > 0
<1> DEFINE R == RunsIn(t, P)
           Z == selected_contextual_spans(Yellow(L), P, links)
           A == ActiveIn(t, L, links, P)
           s == score_document(t, L, links, P)
           e == FalseOf(t, L, R)
           D == In(R) \ Support(Len(t), L)
<1>1. AreRuns(Len(t), R) /\ AreGroups(A, Yellow(L)) /\ IsScore(s, links, L, R, A, e)
  BY PartsAre
<1>2. In(R) = Chars(Red(L))
  <2>1. In(R) = Chars(P) \cap 0..(Len(t) - 1)
    BY AnnotationIs, RunsAre DEF RunsIn, Predicted
  <2>2. Chars(Red(L)) \subseteq Chars(L)
    BY DEF Chars, Red
  <2>3. QED BY <2>1, <2>2, AnnotationIs
<1>3. Z = {}
  <2> DEFINE Y == Yellow(L)
             B == {y \in Y : intersect(y, P)}
  <2>1. \A y \in Y : ~intersect(y, P)
    <3> SUFFICES ASSUME NEW y \in Y PROVE ~intersect(y, P)
      OBVIOUS
    <3>1. Len(t) \in Nat /\ y \in Proper /\ y.end <= Len(t)
      BY AnnotationIs DEF Annotated, Yellow
    <3>2. Extent(y) \subseteq Chars(Yellow(L))
      BY DEF Chars
    <3>3. Extent(y) \cap In(R) = {}
      BY <1>2, <3>2
    <3>4. QED BY <3>1, <3>3, SelectionIs DEF RunsIn, Predicted
  <2>2. B = {} /\ selected_contextual_spans(Y, P, links) = Pulled(Y, links, B)
    BY <2>1 DEF selected_contextual_spans
  <2>3. IsFiniteSet(Y)
    BY AnnotationIs, CharsIn
  <2> HIDE DEF B, Y
  <2>4. selected_contextual_spans(Y, P, links) = {}
    BY <2>2, <2>3, NothingPulled
  <2>5. QED BY <2>4 DEF Y
<1>4. A = {}
  BY <1>3, NothingActive DEF ActiveIn, ActiveOf
<1> HIDE DEF R, Z, A, s
<1>5. e = 0
  <2>1. D = {}
    <3>1. Chars(Red(L)) \subseteq Chars(L)
      BY DEF Chars, Red
    <3>2. QED BY <1>2, <3>1, AnnotationIs
  <2>2. Len(t) \in Nat /\ D \subseteq 0..(Len(t) - 1)
    BY <2>1, AnnotationIs
  <2> HIDE DEF D
  <2>3. QED BY <2>1, <2>2, FalseIsNat DEF FalseOf, D
<1> DEFINE x == GroupSum(links.red, R)
           y == Unit * Cardinality(links.red)
           a == GroupSum(A, R)
           b == Unit * Cardinality(A)
<1>6. x = y /\ x \in Nat
  <2>1. \A r \in Red(L) : Extent(r) \subseteq In(R)
    BY <1>2 DEF Chars
  <2>2. QED BY <1>1, <2>1, AnnotationIs, GroupBounds
<1>7. a = 0 /\ b = 0
  <2>1. a \in Nat /\ a <= b
    BY <1>1, AnnotationIs, GroupBounds
  <2>2. Unit \in Nat
    BY ScoreAssumption
  <2>3. Cardinality(A) = 0
    BY <1>4, FS_EmptySet
  <2>4. b = 0
    BY <2>2, <2>3
  <2> HIDE DEF a, b
  <2>5. QED BY <2>1, <2>4
<1>8. y > 0
  <2>1. Unit \in Nat \ {0}
    BY ScoreAssumption
  <2>2. Cardinality(links.red) \in Nat \ {0}
    BY AnnotationIs, FS_CardinalityType, FS_EmptySet DEF AreGroups
  <2> DEFINE c == Cardinality(links.red)
  <2> HIDE DEF c
  <2>3. \A u, v \in Nat \ {0} : u * v > 0
    OBVIOUS
  <2>4. QED BY <2>1, <2>2, <2>3
<1>9. s.n = x + 0 /\ s.d = y + (b - a) + e
  BY <1>1 DEF IsScore
<1> HIDE DEF x, y, a, b, e
<1>10. s.n = s.d /\ s.n > 0
  BY <1>5, <1>6, <1>7, <1>8, <1>9
<1>11. QED BY <1>10 DEF s

(* One more mandatory span, that no contextual span overlaps. *)
LEMMA OneMoreHelps ==
  ASSUME NEW t, NEW L, NEW links, Annotation(t, L, links), NEW P, Predicted(P), NEW r \in Red(L),
         \A y \in Yellow(L) : Extent(r) \cap Extent(y) = {}
  PROVE  LET s == score_document(t, L, links, P)
             more == score_document(t, L, links, P \cup {r})
         IN  more.n >= s.n /\ more.d = s.d
<1> DEFINE Q == P \cup {r}
           R == RunsIn(t, P)
           U == RunsIn(t, Q)
           A == ActiveIn(t, L, links, P)
           v == score_document(t, L, links, P)
           w == score_document(t, L, links, Q)
           e == FalseOf(t, L, R)
<1>1. r \in L /\ r \in Proper
  BY AnnotationIs DEF Red, Annotated
<1>2. Predicted(Q)
  <2>1. IsFiniteSet(Q)
    BY FS_AddElement DEF Predicted
  <2>2. QED BY <1>1, <2>1 DEF Predicted
<1>3. In(U) = In(R) \cup Extent(r)
  <2>1. In(R) = Chars(P) \cap 0..(Len(t) - 1)
    BY AnnotationIs, RunsAre DEF RunsIn, Predicted
  <2>2. In(U) = Chars(Q) \cap 0..(Len(t) - 1)
    BY <1>2, AnnotationIs, RunsAre DEF RunsIn, Predicted
  <2>3. Chars(Q) = Chars(P) \cup Extent(r)
    BY DEF Chars
  <2>4. Extent(r) \subseteq 0..(Len(t) - 1)
    BY <1>1, AnnotationIs
  <2>5. QED BY <2>1, <2>2, <2>3, <2>4
<1>4. \A y \in Yellow(L) : Extent(y) \cap In(R) = Extent(y) \cap In(U)
  BY <1>3
<1>5. A = ActiveIn(t, L, links, Q)
  <2>1. selected_contextual_spans(Yellow(L), P, links) = selected_contextual_spans(Yellow(L), Q, links)
    BY <1>2, <1>4, ChosenSame
  <2>2. QED BY <2>1 DEF ActiveIn
<1>6. e = FalseOf(t, L, U)
  <2>1. Extent(r) \subseteq Support(Len(t), L)
    BY <1>1, AnnotationIs
  <2>2. In(R) \ Support(Len(t), L) = In(U) \ Support(Len(t), L)
    BY <1>3, <2>1
  <2>3. QED BY <2>2 DEF FalseOf
<1>7. AreRuns(Len(t), R) /\ AreGroups(A, Yellow(L)) /\ IsScore(v, links, L, R, A, e)
  BY PartsAre
<1>8. AreRuns(Len(t), U) /\ IsScore(w, links, L, U, A, e)
  BY <1>2, <1>5, <1>6, PartsAre
<1> HIDE DEF Q, R, U, A, v, w, e
<1>9. GroupSum(A, R) = GroupSum(A, U)
  BY <1>4, <1>7, <1>8, AnnotationIs, GroupSame
<1>10. GroupSum(links.red, R) <= GroupSum(links.red, U)
  <2>1. \A s \in Red(L) : Extent(s) \cap In(R) \subseteq In(U)
    BY <1>3
  <2>2. QED BY <1>7, <1>8, <2>1, AnnotationIs, GroupGrows
<1>11. GroupSum(links.red, R) \in Nat /\ GroupSum(links.red, U) \in Nat
  BY <1>7, <1>8, AnnotationIs, GroupBounds
<1>12. v.n = GroupSum(links.red, R) + 0 /\ w.n = GroupSum(links.red, U) + 0 /\ v.d = w.d
  BY <1>7, <1>8, <1>9 DEF IsScore
<1>13. w.n >= v.n /\ w.d = v.d
  BY <1>10, <1>11, <1>12
<1>14. QED BY <1>13 DEF v, w, Q

-----------------------------------------------------------------------------
(* The invariant of the benchmark.                                         *)

LEMMA TextIs ==
  ASSUME NEW t \in Texts
  PROVE  Len(t) \in Nat
<1>1. t \in Seq({"a", "0", " ", ".", "/", "(", ")", "[", "]", "'", "nl"})
  BY ScoreAssumption
<1>2. QED BY <1>1, LenProperties

(* normalize_spans: what is left of a span is in the text. *)
LEMMA SplitIs ==
  ASSUME NEW t \in Texts, NEW s \in SpansOf(Len(t), BOOLEAN), ~(s.end > Len(t))
  PROVE  split_on_newlines(t, s) \in SUBSET Annotated(Len(t))
<1>1. Len(t) \in Nat
  BY TextIs
<1> DEFINE n == Len(t)
           A == {s.start} \cup {p + 1 : p \in Lines(t, s)}
           B == {s.end} \cup Lines(t, s)
<1>2. s.start \in Nat /\ s.end \in Nat /\ s.end <= n /\ s.red \in BOOLEAN
  BY <1>1 DEF SpansOf, LabelledSpan
<1>3. Lines(t, s) \subseteq s.start..(s.end - 1)
  BY DEF Lines, Extent
<1> HIDE DEF n
<1>4. A \subseteq Nat /\ \A b \in B : b \in Nat /\ b <= n
  <2>1. \A p \in Lines(t, s) : p \in Nat /\ p <= s.end - 1
    BY <1>2, <1>3
  <2>2. n \in Nat
    BY <1>1 DEF n
  <2>3. \A p \in Lines(t, s) : p + 1 \in Nat /\ p <= n
    BY <1>2, <2>1, <2>2
  <2>4. QED BY <1>2, <2>1, <2>3
<1> HIDE DEF A, B
<1>5. SUFFICES ASSUME NEW q \in split_on_newlines(t, s) PROVE q \in Annotated(n)
  BY DEF n
<1>6. PICK a \in A, b \in B : q = [start |-> a, end |-> b, red |-> s.red]
  BY DEF split_on_newlines, LabelledSpan, A, B
<1>7. q.start < q.end
  BY DEF split_on_newlines
<1>8. q \in Labelled /\ q.end <= n
  BY <1>2, <1>4, <1>6 DEF Labelled
<1>9. QED BY <1>7, <1>8 DEF Annotated, Proper

(* The structure of an annotation. *)
LEMMA BuildIs ==
  ASSUME NEW t \in Texts, NEW L \in SUBSET Annotated(Len(t))
  PROVE  Annotation(t, L, build_connector_structure(t, L))
<1>1. Len(t) \in Nat
  BY TextIs
<1>2. IsFiniteSet(Red(L))
  BY <1>1, CharsIn
<1>3. build_connector_structure(t, L).red = connected_components(Red(L), Edges(t, L, {"punct"}))
  BY DEF build_connector_structure
<1>4. QED BY <1>1, <1>2, <1>3, ComponentsAre DEF Annotation

LEMMA PredictionIs ==
  ASSUME NEW n \in Nat, NEW P \in Predictions(n)
  PROVE  Predicted(P)
<1>1. CASE P = {}
  BY <1>1, FS_EmptySet DEF Predicted
<1>2. CASE P # {}
  <2>1. PICK f \in [1..MaxPredicted -> SpansOf(n, {TRUE})] : P = {f[i] : i \in 1..MaxPredicted}
    BY <1>2 DEF Predictions
  <2>2. \A s \in SpansOf(n, {TRUE}) : s \in Proper
    <3> SUFFICES ASSUME NEW s \in SpansOf(n, {TRUE}) PROVE s \in Proper
      OBVIOUS
    <3>1. PICK a \in 0..n, b \in 1..(n + 1), c \in {TRUE} : s = [start |-> a, end |-> b, red |-> c]
      BY DEF SpansOf, LabelledSpan
    <3>2. s \in Labelled
      BY <3>1 DEF Labelled
    <3>3. s.start < s.end
      BY DEF SpansOf
    <3>4. QED BY <3>2, <3>3 DEF Proper
  <2>3. IsFiniteSet(1..MaxPredicted) /\ DOMAIN f = 1..MaxPredicted
    <3>1. MaxPredicted \in Nat
      BY ScoreAssumption
    <3>2. 1 \in Int /\ MaxPredicted \in Int
      BY <3>1
    <3>3. IsFiniteSet(1..MaxPredicted)
      BY <3>2, FS_Interval
    <3>4. QED BY <3>3
  <2>4. IsFiniteSet(P)
    BY <2>1, <2>3, ImageIsFinite
  <2>5. P \in SUBSET Proper
    BY <2>1, <2>2
  <2>6. QED BY <2>4, <2>5 DEF Predicted
<1>3. QED BY <1>1, <1>2

(* Once built, the structure is that of the annotation, and once there is  *)
(* a score it is that of the prediction.                                   *)
ScoreInvariant ==
  /\ document \in Texts
  /\ labels \in SUBSET Annotated(Len(document))
  /\ stage \in {"predict", "scored"} => structure = build_connector_structure(document, labels)
  /\ stage = "scored" =>
       /\ predicted \in Predictions(Len(document))
       /\ score = score_document(document, labels, structure, predicted)

LEMMA ScoreInvariantInit == SpansInit => ScoreInvariant
BY DEF SpansInit, ScoreInit, ScoreInvariant

LEMMA ScoreInvariantNext ==
  ScoreInvariant /\ [Redact \/ Score]_<<subject, vars, scoring>> => ScoreInvariant'
<1> SUFFICES ASSUME ScoreInvariant, [Redact \/ Score]_<<subject, vars, scoring>>
             PROVE  ScoreInvariant'
  OBVIOUS
<1>1. CASE UNCHANGED scoring
  BY <1>1 DEF ScoreInvariant, scoring
<1>2. CASE Label
  <2>1. UNCHANGED <<document, structure, predicted, score>> /\ stage = "label"
    BY <1>2 DEF Label
  <2>2. PICK s \in SpansOf(Len(document), BOOLEAN) :
          IF s.end > Len(document)
          THEN stage' = "refused" /\ UNCHANGED labels
          ELSE labels' = labels \cup split_on_newlines(document, s) /\ UNCHANGED stage
    BY <1>2 DEF Label
  <2>3. stage' \in {"refused", "label"}
    BY <2>1, <2>2
  <2>4. labels' \in SUBSET Annotated(Len(document))
    <3>1. CASE s.end > Len(document)
      BY <2>2, <3>1 DEF ScoreInvariant
    <3>2. CASE ~(s.end > Len(document))
      <4>1. split_on_newlines(document, s) \in SUBSET Annotated(Len(document))
        BY <3>2, SplitIs DEF ScoreInvariant
      <4>2. QED BY <2>2, <3>2, <4>1 DEF ScoreInvariant
    <3>3. QED BY <3>1, <3>2
  <2>5. QED BY <2>1, <2>3, <2>4 DEF ScoreInvariant
<1>3. CASE Build
  BY <1>3 DEF Build, ScoreInvariant
<1>4. CASE Predict
  <2>1. PICK P \in Predictions(Len(document)) :
          predicted' = P /\ score' = score_document(document, labels, structure, P)
    BY <1>4 DEF Predict
  <2>2. UNCHANGED <<document, labels, structure>> /\ stage = "predict" /\ stage' = "scored"
    BY <1>4 DEF Predict
  <2>3. QED BY <2>1, <2>2 DEF ScoreInvariant
<1>5. QED
  BY <1>1, <1>2, <1>3, <1>4 DEF Redact, Score, ScoreNext

LEMMA ScoreInvariantHolds == SpansSpec => []ScoreInvariant
<1>1. SpansInit => ScoreInvariant
  BY ScoreInvariantInit
<1>2. ScoreInvariant /\ [Redact \/ Score]_<<subject, vars, scoring>> => ScoreInvariant'
  BY ScoreInvariantNext
<1>3. QED BY <1>1, <1>2, PTL DEF SpansSpec

(* A scored document. *)
LEMMA ScoredIs ==
  ASSUME ScoreInvariant, Scored
  PROVE  /\ Len(document) \in Nat /\ labels \in SUBSET Annotated(Len(document))
         /\ Annotation(document, labels, structure)
         /\ Predicted(predicted)
         /\ score = score_document(document, labels, structure, predicted)
<1>1. Len(document) \in Nat
  BY TextIs DEF ScoreInvariant
<1>2. Annotation(document, labels, structure)
  BY BuildIs DEF ScoreInvariant, Scored
<1>3. Predicted(predicted)
  BY <1>1, PredictionIs DEF ScoreInvariant, Scored
<1>4. QED BY <1>1, <1>2, <1>3 DEF ScoreInvariant, Scored

LEMMA InvariantRuns == ScoreInvariant => RunsExact
<1>1. ScoreInvariant => LongestRuns
  BY ScoredIs, LongestAre DEF LongestRuns
<1>2. ScoreInvariant => SplitInvariant
  <2> SUFFICES ASSUME ScoreInvariant, Scored
               PROVE  score = Rescored(AsSpans(prediction_chars(Len(document), predicted)))
    BY DEF SplitInvariant
  <2> DEFINE Q == AsSpans(prediction_chars(Len(document), predicted))
  <2>1. Predicted(Q) /\ In(RunsIn(document, Q)) = In(RunsIn(document, predicted))
    BY ScoredIs, RunsPredict DEF RunsIn
  <2> HIDE DEF Q
  <2>2. score_document(document, labels, structure, predicted)
        = score_document(document, labels, structure, Q)
    BY <2>1, ScoredIs, SameScore
  <2>3. QED BY <2>2, ScoredIs DEF Rescored, Q
<1>3. QED BY <1>1, <1>2 DEF RunsExact

LEMMA InvariantSound == ScoreInvariant => ScoreIsSound
<1> SUFFICES ASSUME ScoreInvariant, Scored
             PROVE  ScoreIsSound
  BY DEF ScoreIsSound, ScoreInUnit, RedactingMoreHelps
<1>1. score.n <= score.d
  BY ScoredIs, ScoreInside
<1>2. ASSUME Red(labels) # {}, Chars(predicted) = Chars(Red(labels)),
             Chars(Red(labels)) \cap Chars(Yellow(labels)) = {}
      PROVE  score.n = score.d /\ score.n > 0
  BY <1>2, ScoredIs, ScoreIsFull
<1>3. ScoreInUnit
  BY <1>1, <1>2 DEF ScoreInUnit
<1>4. RedactingMoreHelps
  <2>1. ASSUME NEW r \in Red(labels), \A y \in Yellow(labels) : Extent(r) \cap Extent(y) = {}
        PROVE  /\ Rescored(predicted \cup {r}).n >= score.n
               /\ Rescored(predicted \cup {r}).d = score.d
    <3> DEFINE v == score_document(document, labels, structure, predicted)
               w == score_document(document, labels, structure, predicted \cup {r})
    <3>1. Annotation(document, labels, structure) /\ Predicted(predicted) /\ score = v
      BY ScoredIs
    <3>2. w.n >= v.n /\ w.d = v.d
      BY <2>1, <3>1, OneMoreHelps
    <3> HIDE DEF v
    <3>3. QED BY <3>1, <3>2 DEF Rescored
  <2>2. QED BY <2>1 DEF RedactingMoreHelps
<1>5. QED BY <1>3, <1>4 DEF ScoreIsSound

(* For all texts, annotations and predictions, the predicted, the falsely  *)
(* predicted and the unlabelled characters are in their longest stretches  *)
(* (prediction_chars, false_positive_runs, gap_runs), and to merge the     *)
(* predicted spans changes no score, though intersect bisects their starts *)
(* and ends unmerged.                                                      *)
THEOREM RunsAreExact == SpansSpec => []RunsExact
<1>1. ScoreInvariant => RunsExact
  BY InvariantRuns
<1>2. SpansSpec => []ScoreInvariant
  BY ScoreInvariantHolds
<1>3. QED BY <1>1, <1>2, PTL

(* For all texts, annotations and predictions, a score is between 0 and 1, *)
(* is 1 when just the mandatory characters are redacted and no contextual  *)
(* span shares one, and redacting another mandatory span apart from the    *)
(* contextual ones never lowers it (score_document).                       *)
THEOREM ScoresAreSound == SpansSpec => []ScoreIsSound
<1>1. ScoreInvariant => ScoreIsSound
  BY InvariantSound
<1>2. SpansSpec => []ScoreInvariant
  BY ScoreInvariantHolds
<1>3. QED BY <1>1, <1>2, PTL
=============================================================================
