CONSTANTS
  p1 = p1
  r1 = r1
  r2 = r2
  Replicas = {p1}
  Requests = {r1, r2}
  ReplicaOf <- ReplicaOfMC
  Setups <- SetupsMC
  Threshold = 2
  Cooldown = 1
SPECIFICATION FairSpec
INVARIANTS
  FailsClosed
  OneLocalProbe
PROPERTIES
  ShedsWithReason
  OutageIsProbed
