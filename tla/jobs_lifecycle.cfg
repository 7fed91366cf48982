CONSTANTS
  j1 = j1
  j2 = j2
  j3 = j3
  k1 = k1
  k2 = k2
  w1 = w1
  w2 = w2
  c1 = c1
  NoJob = NoJob
  OwnerOf <- OwnerOfMC
  Jobs = {j1, j2, j3}
  Owners = {k1, k2}
  Workers = {w1}
  Cancellers = {c1}
  MaxInflight = 2
  MaxJobsPerKey = 1
  DeadLetterMax = 1
  TTL = 2
  Lease = 1
  Horizon = 2
  MaxTries = 1
  AuditRequired = FALSE
  Faults = {"decode"}
SPECIFICATION Spec
CHECK_DEADLOCK FALSE
INVARIANTS
  CountersExact
PROPERTIES
  RefusedOnlyWhenFull
  ImplementsLifecycle
