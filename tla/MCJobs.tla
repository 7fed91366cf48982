------------------------------- MODULE MCJobs -------------------------------
(* Instances of JobSystem for TLC. *)
EXTENDS JobSystem, TLC

CONSTANTS j1, j2, j3, k1, k2, w1, w2, c1

OwnerMap == (j1 :> k1) @@ (j2 :> k1) @@ (j3 :> k2)
OwnerOfMC == [j \in Jobs |-> OwnerMap[j]]
=============================================================================
