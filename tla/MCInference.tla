---------------------------- MODULE MCInference -----------------------------
(* Instances of BatchEndpoint for TLC. *)
EXTENDS BatchEndpoint, TLC

CONSTANTS i1, i2, d1, p1, batch, detect

ItemsOfMC == (batch :> {i1, i2}) @@ (detect :> {d1})
=============================================================================
