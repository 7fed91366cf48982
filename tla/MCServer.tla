------------------------------ MODULE MCServer ------------------------------
(* Instances of ApiProcess for TLC. *)
EXTENDS ApiProcess

CONSTANTS r1, r2, r3
=============================================================================
