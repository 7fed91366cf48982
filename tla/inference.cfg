CONSTANTS
  i1 = i1
  i2 = i2
  d1 = d1
  p1 = p1
  batch = batch
  detect = detect
  Callers = {i1, i2, d1, p1}
  Piped = {p1}
  Concurrency = 1
  Requests = {batch, detect}
  ItemsOf <- ItemsOfMC
SPECIFICATION Spec
CHECK_DEADLOCK FALSE
INVARIANTS
  SemaphoreExact
  NothingRunsLate
  BatchIsWhole
PROPERTIES
  CallsEnd
