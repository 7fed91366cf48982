----------------------------- MODULE Redaction ------------------------------
(***************************************************************************)
(* What one redaction does to a text: app/redaction/apply.py, offsets.py,  *)
(* redactor.py, strategy.py and stages/consensus.py.                       *)
(*                                                                         *)
(* The text is a sequence that holds, for each character, its position in  *)
(* the original text, counted from 1, or 0 if a replacement put it there.  *)
(* Spans are half-open and counted from 0, as in the code; a confidence is *)
(* a small number, and MaxConfidence that of a regex hit.  Detectors are   *)
(* external: they may return any few spans, some of which are none of the  *)
(* text (Strays: empty, inverted or beyond its end), and of the paths only *)
(* Redactor.plain drops these.  Entity types, relex maps and formats that  *)
(* quote the text are left out; a replacement has a length.                *)
(***************************************************************************)
EXTENDS Integers, FiniteSets, Sequences, SequencesExt, Sorting

CONSTANTS
  N,               \* characters of the text
  MaxSpans,        \* spans one detection finds
  MaxConfidence,
  MinConfidence,   \* min_model_confidence
  Strays,          \* what a model may detect that is no span of the text
  Lengths,         \* lengths of replacements
  Paths,           \* which ways to redact a text are taken
  MaxFields        \* fields of a policy

ASSUME TextAssumption ==
  /\ N \in Nat \ {0} /\ MaxSpans \in Nat /\ MaxFields \in Nat
  /\ MaxConfidence \in Nat \ {0} /\ MinConfidence \in 1..MaxConfidence
  /\ Lengths \subseteq Nat
  /\ Strays \subseteq [start : Nat, end : Nat, confidence : 1..MaxConfidence]
  /\ Paths \subseteq {"plain", "pipeline", "regex", "autoDeID", "other"}

VARIABLES
  pc,        \* "new", "policy", "done", "error"
  fields,    \* policy fields done
  text,      \* result_text
  spans,     \* the reported spans
  layers,    \* remap_to_original: the inverse maps, newest first
  found,     \* history: characters of the spans that were substituted
  detected,  \* history: what plain's or the pipeline's detectors returned
  regex,     \* history: and which of it are regex hits
  applied,   \* history: the spans substituted last
  clean      \* history: no regex strategy's hits overlapped, and what was
             \* detected and not validated were spans of the text

result == <<text, spans, layers>>
history == <<found, detected, regex, applied, clean>>
vars == <<pc, fields, result, history>>

Span(s, e, c) == [start |-> s, end |-> e, confidence |-> c]
Confidences == 1..MaxConfidence
IsSpan(n, s) == s.start < s.end /\ s.end <= n
SpansIn(n, C) == {s \in [start : 0..n, end : 0..n, confidence : C] : IsSpan(n, s)}
(* What a model may detect in a text of n characters. *)
Candidates(n) == SpansIn(n, Confidences) \cup Strays

overlaps(a, b) == a.start < b.end /\ b.start < a.end
Positions(S) == UNION {s.start..(s.end - 1) : s \in S}

-----------------------------------------------------------------------------
(* offsets.py and apply.py. *)
validate_offsets(n, S) == {s \in S : IsSpan(n, s)}

LongestFirst(a, b) ==
  \/ a.start < b.start
  \/ a.start = b.start /\ a.end > b.end
  \/ a.start = b.start /\ a.end = b.end /\ a.confidence > b.confidence

(* One turn of the loop of dedupe_overlaps. *)
BugKeepFirst(kept, s) == IF \E k \in kept : overlaps(s, k) THEN kept ELSE kept \cup {s}
Keep(kept, s) ==
  IF \E k \in kept : overlaps(s, k) /\ s.confidence <= k.confidence
  THEN kept
  ELSE {k \in kept : ~overlaps(s, k)} \cup {s}
dedupe_overlaps(S) == FoldLeft(Keep, {}, Sorted(S, LongestFirst))

(* Equal starts stay in their order, which is that of RegexDetector.detect *)
(* for hits that overlap, and that of dedupe_overlaps for spans that do    *)
(* not, all but one of which are empty or inverted.                        *)
Earlier(a, b) ==
  IF a.start < a.end /\ b.start < b.end THEN a.end < b.end ELSE LongestFirst(a, b)
BugRightToLeft(a, b) == a.start < b.start \/ (a.start = b.start /\ Earlier(a, b))
RightToLeft(a, b) == a.start > b.start \/ (a.start = b.start /\ Earlier(a, b))
Filler(n) == [i \in 1..n |-> 0]
(* t[a:b], which ends where t does. *)
Slice(t, a, b) == SubSeq(t, a + 1, IF b < Len(t) THEN b ELSE Len(t))
Replace(t, s, n) == Slice(t, 0, s.start) \o Filler(n) \o Slice(t, s.end, Len(t))
apply_spans(t, S, length) ==
  FoldLeft(LAMBDA out, s : Replace(out, s, length[s]), t, Sorted(S, RightToLeft))

(* The segments of inverse_position_remap: where each starts in the new    *)
(* and in the old text, and whether it was replaced.                       *)
LeftToRight(a, b) == a.start < b.start \/ (a.start = b.start /\ Earlier(a, b))
Segment(n, o, r) == [new |-> n, old |-> o, replaced |-> r]
BugCut(acc, s, n) ==
  LET gap == IF s.start > acc.prev THEN s.start - acc.prev ELSE 0
      before == IF gap > 0 THEN <<Segment(acc.new, acc.prev, FALSE)>> ELSE <<>>
  IN  [list |-> acc.list \o before \o <<Segment(acc.new + gap, s.start, TRUE)>>,
       new |-> acc.new + gap + n,
       prev |-> s.start + n]
Cut(acc, s, n) ==
  LET gap == IF s.start > acc.prev THEN s.start - acc.prev ELSE 0
      before == IF gap > 0 THEN <<Segment(acc.new, acc.prev, FALSE)>> ELSE <<>>
  IN  [list |-> acc.list \o before \o <<Segment(acc.new + gap, s.start, TRUE)>>,
       new |-> acc.new + gap + n,
       prev |-> s.end]
inverse_position_remap(n, S, length) ==
  LET cut == FoldLeft(LAMBDA acc, s : Cut(acc, s, length[s]),
                      [list |-> <<>>, new |-> 0, prev |-> 0],
                      Sorted(S, LeftToRight))
  IN  IF cut.prev < n THEN cut.list \o <<Segment(cut.new, cut.prev, FALSE)>> ELSE cut.list

(* remap, by bisection, and the composition of the maps. *)
Remap(p, segments) ==
  LET i == Max({k \in 1..Len(segments) : segments[k].new <= p})
  IN  IF p < 0 THEN 0
      ELSE IF segments[i].replaced
      THEN segments[i].old
      ELSE segments[i].old + (p - segments[i].new)
Origin(maps, p) == FoldLeft(Remap, p, maps)

-----------------------------------------------------------------------------
(* consensus.py. *)
Trusted(R, M) ==
  {s \in M : s.confidence >= MinConfidence /\ ~\E r \in R : overlaps(s, r)}
fuse(R, M) == dedupe_overlaps(R \cup Trusted(R, M))

-----------------------------------------------------------------------------
Init ==
  /\ pc = "new" /\ fields = 0
  /\ text = [i \in 1..N |-> i]
  /\ spans = {} /\ layers = <<>>
  /\ found = {} /\ detected = {} /\ regex = {} /\ applied = {} /\ clean = TRUE

(* What a detector may return, and what the regex detector may. *)
Detections(S) == {{}} \cup {{f[i] : i \in 1..MaxSpans} : f \in [1..MaxSpans -> S]}
Disjoint(S) == \A a, b \in S : a # b => ~overlaps(a, b)
RegexHits == Detections(SpansIn(Len(text), {MaxConfidence}))

(* S is substituted in the text. *)
Substitute(S, length) ==
  /\ text' = apply_spans(text, S, length)
  /\ found' = found \cup ({text[p + 1] : p \in Positions(S) \cap 0..(Len(text) - 1)} \ {0})
  /\ applied' = S

(* Redactor.plain. *)
Plain ==
  /\ pc = "new" /\ "plain" \in Paths
  /\ \E raw \in Detections(Candidates(N)) :
       LET S == dedupe_overlaps(validate_offsets(N, raw)) IN
       /\ \E length \in [S -> Lengths] : Substitute(S, length)
       /\ spans' = S /\ detected' = raw
  /\ pc' = "done"
  /\ UNCHANGED <<fields, layers, regex, clean>>

(* The consensus of Pipeline, with the model's spans, as they are, or      *)
(* without.  With none and no regex hit the text is not returned.          *)
Consensus ==
  /\ pc = "new" /\ "pipeline" \in Paths
  /\ \E R \in RegexHits, M \in Detections(Candidates(N)), open \in BOOLEAN :
       LET S == fuse(R, IF open THEN {} ELSE M) IN
       /\ IF open /\ S = {}
          THEN pc' = "error" /\ UNCHANGED <<text, found, applied, spans>>
          ELSE /\ \E length \in [S -> Lengths] : Substitute(S, length)
               /\ spans' = S /\ pc' = "done"
       /\ detected' = R \cup (IF open THEN {} ELSE M) /\ regex' = R
       /\ clean' = (clean /\ (open \/ M \subseteq SpansIn(N, Confidences)))
  /\ UNCHANGED <<fields, layers>>

-----------------------------------------------------------------------------
(* Redactor.policy, one step per field.  A strategy substitutes S; its     *)
(* spans are reported where they were in the original text.                *)
Recast(s) ==
  IF layers = <<>> THEN s
  ELSE Span(Origin(layers, s.start), Origin(layers, s.end - 1) + 1, s.confidence)

Field(strategy) ==
  /\ pc \in {"new", "policy"} /\ fields < MaxFields /\ strategy \in Paths
  /\ fields' = fields + 1 /\ pc' = "policy"

Run(S) ==
  /\ \E length \in [S -> Lengths] :
       /\ Substitute(S, length)
       /\ layers' = IF S = {} THEN layers
                    ELSE <<inverse_position_remap(Len(text), S, length)>> \o layers
  /\ spans' = spans \cup {Recast(s) : s \in S}

(* Regex.run: the hits as they are. *)
Regex ==
  /\ Field("regex")
  /\ \E R \in RegexHits : Run(R) /\ clean' = (clean /\ Disjoint(R))
  /\ UNCHANGED <<detected, regex>>

(* Deid.run: the union of its passes, as they are. *)
Deid ==
  /\ Field("autoDeID")
  /\ \E raw \in Detections(Candidates(Len(text))) :
       /\ Run(dedupe_overlaps(raw))
       /\ clean' = (clean /\ raw \subseteq SpansIn(Len(text), Confidences))
  /\ UNCHANGED <<detected, regex>>

(* Skip, and Mask and Hash, which are called with no spans. *)
Untouched ==
  /\ Field("other")
  /\ Run({}) /\ UNCHANGED <<detected, regex, clean>>

(* A detector fails, or the policy asks for one that is not there. *)
Fail ==
  /\ pc \in {"new", "policy"}
  /\ pc' = "error"
  /\ UNCHANGED <<fields, result, history>>

Return ==
  /\ pc = "policy"
  /\ pc' = "done"
  /\ UNCHANGED <<fields, result, history>>

Next == Plain \/ Consensus \/ Regex \/ Deid \/ Untouched \/ Fail \/ Return

Spec == Init /\ [][Next]_vars

-----------------------------------------------------------------------------
(* Properties.                                                             *)

(* The text is the original, in order, without the characters of the       *)
(* substituted spans and without losing any other: substituting from right *)
(* to left moves no span that is still to come (dedupe_overlaps,           *)
(* apply_spans, over all the fields of a policy).  There are two           *)
(* exceptions: the regex strategy substitutes its hits as they are, where  *)
(* they overlap, and the pipeline and Deid substitute what a model         *)
(* detected without validate_offsets, where that is no span of the text.   *)
Surviving == {p \in DOMAIN text : text[p] # 0}
Exact ==
  /\ {text[p] : p \in Surviving} = (1..N) \ found
  /\ \A p, q \in Surviving : p < q => text[p] < text[q]
RedactsExactly == clean => Exact

(* The composed inverse maps take every surviving character back to where  *)
(* it came from, whatever replacements were shorter, longer or empty       *)
(* (inverse_position_remap, compose_remaps), with the same exceptions.     *)
Aligned ==
  clean /\ layers # <<>> => \A p \in Surviving : Origin(layers, p - 1) + 1 = text[p]

(* Every character that was substituted lies in a reported span, in the    *)
(* coordinates of the original text (Redactor.policy).                     *)
ReportCovers == clean => \A c \in found : c - 1 \in Positions(spans)

(* Both ways a policy's result refers to the original text are right.      *)
MapsBack == Aligned /\ ReportCovers

(* A span more confident than all it overlaps is never given up, whatever  *)
(* else was found (dedupe_overlaps, validate_offsets, fuse).  What is no   *)
(* span of the text is no rival of it where offsets are validated; where   *)
(* they are not, it is one like any other.                                 *)
MaximaKept ==
  pc = "done" =>
    \A s \in detected :
      /\ IsSpan(N, s) /\ s.confidence >= MinConfidence
      /\ \A d \in detected \ {s} :
           overlaps(s, d) /\ (clean => IsSpan(N, d)) => d.confidence < s.confidence
      => s \in applied

(* Whatever the model returns, the spans substituted cover all that the    *)
(* regex gate alone would have redacted (fuse).                            *)
SafetyNet == applied # {} => Positions(dedupe_overlaps(regex)) \subseteq Positions(applied)

(* Resolving overlaps gives up neither of the two.                         *)
BestAreKept == MaximaKept /\ SafetyNet

-----------------------------------------------------------------------------
(* What a docstring says that the code does not do.                        *)

(* Each hit of the regex strategy is replaced, and nothing else (its       *)
(* docstring; Regex.run substitutes hits that overlap, which the docstring *)
(* of apply_spans forbids).                                                *)
HitsAreReplaced == Exact
=============================================================================
