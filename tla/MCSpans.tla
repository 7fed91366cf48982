------------------------------ MODULE MCSpans -------------------------------
(***************************************************************************)
(* The span algorithms: the redaction of a text and the score of a         *)
(* prediction.  They share no state; a behaviour is one of its subject,    *)
(* and the other stays as it was initially.                                *)
(***************************************************************************)
EXTENDS Redaction, RScore

VARIABLE subject

SpansInit ==
  /\ subject \in {"redaction", "score"}
  /\ Init /\ ScoreInit
  /\ subject = "redaction" => document = CHOOSE t \in Texts : TRUE

Redact == subject = "redaction" /\ Next /\ UNCHANGED <<subject, scoring>>
Score == subject = "score" /\ ScoreNext /\ UNCHANGED <<subject, vars>>

SpansSpec == SpansInit /\ [][Redact \/ Score]_<<subject, vars, scoring>>

(* Empty, inverted within the text and at its start, beyond its end. *)
StraysMC == {Span(2, 2, 3), Span(3, 1, 2), Span(1, 0, 3), Span(2, 6, 3)}

(* Bridge and closed delimiter; slash and punctuation; quotes; a mismatch  *)
(* and nesting; a newline.                                                 *)
TextsMC ==
  {<<"a", ")", " ", "a">>, <<"0", "/", "0", ".">>, <<"'", "a", "'", ".">>,
   <<"[", "(", "]", ")">>, <<"a", "nl", "(", ")">>}
=============================================================================
