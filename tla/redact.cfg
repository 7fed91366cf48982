CONSTANTS
  r1 = r1
  r2 = r2
  r3 = r3
  r4 = r4
  k1 = k1
  b1 = b1
  b2 = b2
  Nobody = Nobody
  NoKey = NoKey
  Requests = {r1, r2, r3, r4}
  Keys = {k1}
  Bodies = {b1, b2}
  KeyOf <- KeyOfMC
  BodyOf <- BodyOfMC
  FaultSets <- FaultSetsMC
SPECIFICATION Spec
CHECK_DEADLOCK FALSE
INVARIANTS
  SuccessIsAudited
  KeyedResultIsPublished
  OneHolder
  LeaseIsGivenBack
PROPERTIES
  LeaseIsHonoured
