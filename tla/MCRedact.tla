------------------------------ MODULE MCRedact ------------------------------
(* Instances of RedactEndpoint for TLC. *)
EXTENDS RedactEndpoint, TLC

CONSTANTS r1, r2, r3, r4, k1, b1, b2

KeyMap == (r1 :> k1) @@ (r2 :> k1) @@ (r3 :> k1) @@ (r4 :> NoKey)
BodyMap == (r1 :> b1) @@ (r2 :> b1) @@ (r3 :> b2) @@ (r4 :> b1)
KeyOfMC == [r \in Requests |-> KeyMap[r]]
BodyOfMC == [r \in Requests |-> BodyMap[r]]


(* Everything that may go wrong where the audit is required, the same      *)
(* where it is optional with leases that outlive their holders, and        *)
(* failures that leave Redis and the process alone.                        *)
FaultSetsMC ==
  {FaultKinds \ {"optional"}, FaultKinds \ {"lease", "evict"}, {"redact", "audit", "evict"}}
=============================================================================
