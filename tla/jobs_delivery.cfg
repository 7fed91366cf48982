CONSTANTS
  j1 = j1
  j2 = j2
  j3 = j3
  k1 = k1
  k2 = k2
  w1 = w1
  w2 = w2
  c1 = c1
  NoJob = NoJob
  OwnerOf <- OwnerOfMC
  Jobs = {j1}
  Owners = {k1}
  Workers = {w1, w2}
  Cancellers = {c1}
  MaxInflight = 1
  MaxJobsPerKey = 1
  DeadLetterMax = 1
  TTL = 2
  Lease = 0
  Horizon = 2
  MaxTries = 2
  AuditRequired = TRUE
  Faults = {"store", "lost", "resend", "transient", "crash", "lease", "timeout"}
SPECIFICATION RestartSpec
CHECK_DEADLOCK FALSE
INVARIANTS
  ClaimRespected
  DoneIsAudited
  DeadLettersHaveEnded
PROPERTIES
  TerminalIsFinal
  EveryJobSettles
