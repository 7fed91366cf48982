---------------------------- MODULE MCRedaction -----------------------------
(* Instances of Redaction for TLC. *)
EXTENDS Redaction
=============================================================================
