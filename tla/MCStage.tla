------------------------------ MODULE MCStage -------------------------------
(* Instances of ModelStage for TLC. *)
EXTENDS ModelStage

CONSTANTS p1, r1, r2

(* Two request slots of one replica: replicas only differ in their own     *)
(* breakers, which nothing relates to one another.                         *)
ReplicaOfMC == [r \in Requests |-> p1]

Setup(s, f) == [shared |-> s, faults |-> f]
(* No shared breaker, with cancellation; a sound shared breaker; and one   *)
(* with everything that may go wrong.                                      *)
SetupsMC == {Setup(FALSE, {"cancel"}), Setup(TRUE, {"expire"}), Setup(TRUE, FaultKinds)}
=============================================================================
