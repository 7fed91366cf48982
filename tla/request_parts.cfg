CONSTANTS
  c1 = c1
  c2 = c2
  c3 = c3
  c4 = c4
  e1 = e1
  e2 = e2
  e3 = e3
  e4 = e4
  Calls = {c1, c2, c3, c4}
  CallLimit = 1
  CallWindow = 2
  TextLength = 4
  TextWidths = {1, 2, 4}
  TextChunk = 3
  Records = {e1, e2, e3, e4}
  ListLength = 2
  ListRetention = 2
  Delay = 1
  LastTick = 4
  ClientFaults <- ClientFaultsMC
SPECIFICATION Spec
CHECK_DEADLOCK FALSE
INVARIANTS
  RateIsBounded
  StreamIsWhole
PROPERTIES
  AuditLeavesOnlyWhenDue
  StreamEnds
