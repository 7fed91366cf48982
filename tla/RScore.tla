------------------------------- MODULE RScore -------------------------------
(***************************************************************************)
(* The R-Score of a document, the metric of the benchmark in app/bench:    *)
(* annotation.py, combinators.py, fusion.py and rscore.py.                 *)
(*                                                                         *)
(* A text is a sequence of characters, of which there is one for each      *)
(* class that the code tells apart; offsets are half-open and counted from *)
(* 0.  A span is red (mandatory) or yellow (contextual).  Scores are whole *)
(* numbers of parts of Unit.  Indices, kinds and counts that a report      *)
(* shows are left out.                                                     *)
(***************************************************************************)
EXTENDS Naturals, FiniteSets, Sequences, SequencesExt, Sorting

CONSTANTS
  Texts,         \* texts to annotate
  MaxLabels,     \* spans of an annotation
  MaxOverlap,    \* spans of an annotation that is not disjoint
  MaxPredicted,  \* spans of a prediction
  Unit           \* parts of a score: lengths and numbers of spans divide it

ASSUME ScoreAssumption ==
  /\ \A t \in Texts : t \in Seq({"a", "0", " ", ".", "/", "(", ")", "[", "]", "'", "nl"})
  /\ MaxLabels \in Nat /\ MaxOverlap \in Nat /\ MaxPredicted \in Nat /\ Unit \in Nat \ {0}
  /\ \A t \in Texts : \A n \in 1..Len(t), m \in 1..MaxLabels : Unit % (n * m) = 0

VARIABLES
  stage,       \* "label", "predict", "scored", "refused"
  document,    \* the text
  labels,      \* Annotation.spans
  structure,   \* ConnectorStructure
  predicted,   \* prediction_spans
  score        \* the sums n and d of RDocument

scoring == <<stage, document, labels, structure, predicted, score>>

LabelledSpan(s, e, red) == [start |-> s, end |-> e, red |-> red]
Char(t, p) == t[p + 1]
Extent(s) == s.start..(s.end - 1)
Chars(S) == UNION {Extent(s) : s \in S}
Red(S) == {s \in S : s.red}
Yellow(S) == {s \in S : ~s.red}

-----------------------------------------------------------------------------
(* annotation.py: a span is broken at newlines; out of range is an error.  *)
Lines(t, s) == {p \in Extent(s) : Char(t, p) = "nl"}
split_on_newlines(t, s) ==
  {q \in {LabelledSpan(a, b, s.red) : a \in {s.start} \cup {p + 1 : p \in Lines(t, s)},
                                      b \in {s.end} \cup Lines(t, s)} :
     q.start < q.end /\ Lines(t, q) = {}}

-----------------------------------------------------------------------------
(* combinators.py, Algorithm 1. *)
Closers == {")", "]"}
Pairing == [c \in {"(", "[", "'"} |-> CASE c = "(" -> ")" [] c = "[" -> "]" [] c = "'" -> "'"]
is_punct_char(c) == c \notin {"/", "(", ")", "[", "]", "'", "a", "0"}
is_digit_only(t, s) == \A p \in Extent(s) : Char(t, p) = "0"

InOrder(a, b) ==
  \/ a.start < b.start
  \/ a.start = b.start /\ a.end < b.end
  \/ a.start = b.start /\ a.end = b.end /\ a.red /\ ~b.red
Neighbours(S) ==
  LET ordered == Sorted(S, InOrder)
  IN  {<<ordered[i], ordered[i + 1]>> : i \in 1..(Len(ordered) - 1)}
Between(t, a, b) == SubSeq(t, a.end + 1, b.start)

(* The rules of red_edges for neighbours, in the order of the code. *)
Rule(t, a, b) ==
  LET between == Between(t, a, b)
      last == Char(t, a.end - 1)
      size == Len(between)
  IN  CASE size > 0 /\ between[1] = " " /\ last \in Closers -> "bridge"
        [] size = 1 /\ is_punct_char(between[1]) /\ ~(between[1] = " " /\ last \in Closers) -> "punct"
        [] size = 1 /\ between[1] = "/" /\ is_digit_only(t, a) /\ is_digit_only(t, b) -> "slash"
        [] size = 2 /\ between[1] \in Closers /\ between[2] = " " -> "closed"
        [] OTHER -> "none"
Edges(t, S, rules) == {e \in Neighbours(S) : Rule(t, e[1], e[2]) \in rules}
LinkMarkers(t, e) ==
  LET rule == Rule(t, e[1], e[2]) IN
  CASE rule = "none" -> {}
    [] rule = "bridge" -> {Char(t, e[1].end - 1), " "}
    [] rule \in {"punct", "slash", "closed"} -> ToSet(Between(t, e[1], e[2]))

(* pair_ranges: the openers on a stack, and the pairs found.  A closer     *)
(* takes the last opener off, whether it matches or not.                   *)
Pair(o, l) == [o |-> o, end |-> l]
Wanted(S, o, l) ==
  /\ \E y \in Yellow(S) : y.start < l + 1 /\ y.end > o
  /\ ~\E r \in Red(S) : r.start >= o /\ r.end <= l + 1
Scan(t, S, acc, p) ==
  LET c == Char(t, p)
      open == Len(acc.stack) > 0
      top == acc.stack[Len(acc.stack)]
      popped == [acc EXCEPT !.stack = Front(@)]
      paired == IF Wanted(S, top, p)
                THEN [popped EXCEPT !.pairs = @ \cup {Pair(top, p)}]
                ELSE popped
      pushed == [acc EXCEPT !.stack = Append(@, p)]
  IN  CASE c = "'" -> IF open /\ Char(t, top) = c THEN paired ELSE pushed
        [] c \in {"(", "["} -> pushed
        [] c \in Closers -> IF ~open THEN acc
                            ELSE IF Pairing[Char(t, top)] = c THEN paired ELSE popped
        [] OTHER -> acc
pair_ranges(t, S) ==
  FoldLeft(LAMBDA acc, p : Scan(t, S, acc, p), [stack |-> <<>>, pairs |-> {}],
           [i \in 1..Len(t) |-> i - 1]).pairs

(* The spans that every set closed under the links has along with one.    *)
connected_components(S, E) ==
  LET closed == {g \in SUBSET S : \A e \in E \cap (S \X S) : e[1] \in g <=> e[2] \in g}
  IN  {{b \in S : \A g \in closed : a \in g => b \in g} : a \in S}

build_connector_structure(t, S) ==
  LET edges == Edges(t, S, {"bridge", "punct", "slash", "closed"})
      pairs == pair_ranges(t, S)
  IN  [red |-> connected_components(Red(S), Edges(t, S, {"punct"})),
       context |-> connected_components(Yellow(S), edges),
       pairs |-> pairs,
       markers |-> UNION {LinkMarkers(t, e) : e \in edges}
                   \cup UNION {{Char(t, p.o), Char(t, p.end)} : p \in pairs}]

-----------------------------------------------------------------------------
(* fusion.py, Algorithm 2. *)
(* The first end behind the start of the span, and the start that has its  *)
(* place in their own order.                                               *)
BugIntersect(s, P) ==
  LET starts == Sorted(P, InOrder)
      i == Cardinality({p \in P : p.start <= s.start})
  IN  i > 0 /\ starts[i].end > s.start
intersect(s, P) ==
  LET starts == Sorted(P, InOrder)
      i == Cardinality({p \in P : p.end <= s.start}) + 1
  IN  i <= Len(starts) /\ starts[i].start < s.end

(* The contextual span at a position, if any. *)
First(S) == {s \in S : \A r \in S \ {s} : InOrder(s, r)}
yellow_at_pos(Y, p) == First({y \in Y : p \in Extent(y)})

(* One turn of the loop of selected_contextual_spans, and all of them.     *)
Pull(Y, links, chosen) ==
  LET joined == chosen \cup UNION {g \in links.context : g \cap chosen # {}}
      hit == {q \in links.pairs : (yellow_at_pos(Y, q.o) \cup yellow_at_pos(Y, q.end)) \cap joined # {}}
  IN  joined \cup {y \in Y : \E q \in hit : y.start >= q.o /\ y.end <= q.end}
Pulled(Y, links, chosen) ==
  LET turn[k \in 0..Cardinality(Y)] ==
        IF k = 0 THEN chosen ELSE Pull(Y, links, turn[k - 1])
  IN  turn[Cardinality(Y)]
selected_contextual_spans(Y, P, links) == Pulled(Y, links, {y \in Y : intersect(y, P)})

(* The contextual entities of fused_entity_groups. *)
marker_positions(t, Y, links) ==
  {y.start : y \in {s \in Y : s.end - s.start = 1 /\ Char(t, s.start) \in links.markers}}
fused_entity_groups(t, Y, links) ==
  LET within(q) == {y \in Y : y.start >= q.o /\ y.end <= q.end + 1}
      blocks == links.context \cup {within(q) : q \in links.pairs}
      groups == connected_components(Y, UNION {b \X b : b \in blocks})
  IN  {g \in groups : ~\E s \in g : g = {s} /\ s.start \in marker_positions(t, Y, links)}

-----------------------------------------------------------------------------
(* rscore.py. *)
Clamp(n, p) == IF p < n THEN p ELSE n
(* prediction_chars, and support_runs: disjoint runs in order. *)
BugMerge(n, runs, s) ==
  IF Clamp(n, s.start) >= Clamp(n, s.end) THEN runs
  ELSE Append(runs, <<Clamp(n, s.start), Clamp(n, s.end)>>)
Merge(n, runs, s) ==
  LET a == Clamp(n, s.start)
      b == Clamp(n, s.end)
      k == Len(runs)
  IN  IF a >= b THEN runs
      ELSE IF k > 0 /\ a <= runs[k][2]
      THEN [runs EXCEPT ![k] = <<@[1], IF @[2] < b THEN b ELSE @[2]>>]
      ELSE Append(runs, <<a, b>>)
prediction_chars(n, S) ==
  FoldLeft(LAMBDA runs, s : Merge(n, runs, s), <<>>, Sorted(S, InOrder))

In(runs) == UNION {r[1]..(r[2] - 1) : r \in ToSet(runs)}
(* The longest stretches of the characters of C inside one run. *)
false_positive_runs(runs, C) ==
  UNION {{f \in (r[1]..r[2]) \X (r[1]..r[2]) :
            /\ f[1] < f[2] /\ f[1]..(f[2] - 1) \cap C = {}
            /\ f[1] = r[1] \/ f[1] - 1 \in C
            /\ f[2] = r[2] \/ f[2] \in C} : r \in ToSet(runs)}

(* One turn of gap_runs. *)
Gap(acc, r) ==
  [gaps |-> IF acc.cursor < r[1] THEN acc.gaps \cup {<<acc.cursor, r[1]>>} ELSE acc.gaps,
   cursor |-> IF acc.cursor < r[2] THEN r[2] ELSE acc.cursor]
gap_runs(n, support) ==
  LET cut == FoldLeft(Gap, [gaps |-> {}, cursor |-> 0], support)
  IN  IF cut.cursor < n THEN cut.gaps \cup {<<cut.cursor, n>>} ELSE cut.gaps

(* coverage: the characters of a span in each run, in parts of Unit. *)
Overlap(s, r) ==
  LET a == IF s.start < r[1] THEN r[1] ELSE s.start
      b == IF s.end < r[2] THEN s.end ELSE r[2]
  IN  IF a < b THEN b - a ELSE 0
coverage(s, runs) ==
  (Unit * SumFunction([k \in DOMAIN runs |-> Overlap(s, runs[k])])) \div (s.end - s.start)
MeanCoverage(S, runs) == SumFunction([s \in S |-> coverage(s, runs)]) \div Cardinality(S)

GapThreshold == 3
Weight(f, gaps) ==
  IF \E g \in gaps : g[2] - g[1] >= GapThreshold /\ f[1] <= g[1] /\ f[2] >= g[2]
  THEN 2 * Unit ELSE Unit

(* The sums n and d. *)
Sums(t, L, links, runs, selected) ==
  LET support == prediction_chars(Len(t), L)
      active == {g \cap selected : g \in fused_entity_groups(t, Yellow(L), links)} \ {{}}
      positive == Red(L) = {}
      false == false_positive_runs(runs, In(support))
      red == SumFunction([g \in links.red |-> MeanCoverage(g, runs)])
      yellow == SumFunction([g \in active |-> MeanCoverage(g, runs)])
  IN  [n |-> red + IF positive THEN yellow ELSE 0,
       d |-> Unit * Cardinality(links.red)
             + (IF positive THEN Unit * Cardinality(active)
                            ELSE Unit * Cardinality(active) - yellow)
             + SumFunction([f \in false |-> Weight(f, gap_runs(Len(t), support))])]
score_document(t, L, links, P) ==
  Sums(t, L, links, prediction_chars(Len(t), P), selected_contextual_spans(Yellow(L), P, links))

-----------------------------------------------------------------------------
NoStructure == [red |-> {}, context |-> {}, pairs |-> {}, markers |-> {}]
NoScore == [n |-> 0, d |-> 0]

ScoreInit ==
  /\ stage = "label" /\ document \in Texts
  /\ labels = {} /\ structure = NoStructure /\ predicted = {} /\ score = NoScore

(* Spans of a text of n characters, and some beyond its end. *)
SpansOf(n, colours) ==
  {s \in {LabelledSpan(a, b, c) : a \in 0..n, b \in 1..(n + 1), c \in colours} :
     s.start < s.end}
Apart(S) == \A s, r \in S : s # r => Extent(s) \cap Extent(r) = {}

(* One turn of normalize_spans, which refuses a span out of range.         *)
(* Annotations are disjoint, as build_connector_structure asks for, or a   *)
(* few spans that overlap, which it does not refuse.                       *)
Label ==
  /\ stage = "label"
  /\ \E s \in SpansOf(Len(document), BOOLEAN) :
       IF s.end > Len(document)
       THEN stage' = "refused" /\ UNCHANGED labels
       ELSE /\ labels' = labels \cup split_on_newlines(document, s)
            /\ Cardinality(labels') <= MaxLabels
            /\ Cardinality(labels') > MaxOverlap => Apart(labels')
            /\ UNCHANGED stage
  /\ UNCHANGED <<document, structure, predicted, score>>

(* The part of score_document that does not depend on the prediction. *)
Build ==
  /\ stage = "label"
  /\ structure' = build_connector_structure(document, labels)
  /\ stage' = "predict"
  /\ UNCHANGED <<document, labels, predicted, score>>

(* The rest. *)
Predictions(n) ==
  {{}} \cup {{f[i] : i \in 1..MaxPredicted} : f \in [1..MaxPredicted -> SpansOf(n, {TRUE})]}
Predict ==
  /\ stage = "predict"
  /\ \E P \in Predictions(Len(document)) :
       predicted' = P /\ score' = score_document(document, labels, structure, P)
  /\ stage' = "scored"
  /\ UNCHANGED <<document, labels, structure>>

ScoreNext == Label \/ Build \/ Predict
ScoreSpec == ScoreInit /\ [][ScoreNext]_scoring
-----------------------------------------------------------------------------
(* Properties.                                                             *)

Scored == stage = "scored"
AsSpans(runs) == {LabelledSpan(r[1], r[2], TRUE) : r \in ToSet(runs)}
Touching(R) == \E r, q \in R : r # q /\ r[1] <= q[1] /\ q[1] <= r[2]
Stretches(R) == UNION {r[1]..(r[2] - 1) : r \in R}
Rescored(P) == score_document(document, labels, structure, P)

(* The predicted, the falsely predicted and the unlabelled characters are  *)
(* each in their longest stretches, however spans overlap, touch or leave  *)
(* the text (prediction_chars, false_positive_runs, gap_runs).             *)
LongestRuns ==
  Scored =>
    LET n == Len(document)
        runs == prediction_chars(n, predicted)
        support == prediction_chars(n, labels)
        gaps == gap_runs(n, support)
        false == false_positive_runs(runs, In(support))
    IN  /\ In(runs) = Chars(predicted) \cap 0..(n - 1)
        /\ Stretches(gaps) = 0..(n - 1) \ Chars(labels)
        /\ Stretches(false) = In(runs) \ Chars(labels)
        /\ ~Touching(ToSet(runs)) /\ ~Touching(gaps) /\ ~Touching(false)

(* Only the characters that are predicted count, not the spans they come   *)
(* in: selection bisects starts and ends of spans that were not merged     *)
(* (intersect, selected_contextual_spans).                                 *)
SplitInvariant ==
  Scored => score = Rescored(AsSpans(prediction_chars(Len(document), predicted)))

(* The runs a score is made of are exact and as long as can be             *)
(* (prediction_chars, false_positive_runs, gap_runs), and only predicted   *)
(* characters count, not the spans they come in (intersect).               *)
RunsExact == LongestRuns /\ SplitInvariant

(* A score is between 0 and 1, and is 1 when exactly the mandatory         *)
(* characters were predicted and no contextual span shares one             *)
(* (score_document).                                                       *)
ScoreInUnit ==
  Scored =>
    /\ score.n <= score.d
    /\ /\ Red(labels) # {} /\ Chars(predicted) = Chars(Red(labels))
       /\ Chars(Red(labels)) \cap Chars(Yellow(labels)) = {}
       => score.n = score.d /\ score.n > 0

(* To redact one more mandatory span that no contextual span overlaps      *)
(* never lowers the score (score_document).                                *)
RedactingMoreHelps ==
  Scored =>
    \A r \in Red(labels) :
      (\A y \in Yellow(labels) : Extent(r) \cap Extent(y) = {})
      => LET more == Rescored(predicted \cup {r})
         IN  more.n >= score.n /\ more.d = score.d

(* A score is between 0 and 1, is 1 for exactly the mandatory characters,  *)
(* and redacting another mandatory span never lowers it (score_document).  *)
ScoreIsSound == ScoreInUnit /\ RedactingMoreHelps
=============================================================================
