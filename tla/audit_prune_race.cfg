CONSTANTS
  p1 = p1
  p2 = p2
  e1 = e1
  e2 = e2
  e3 = e3
  e4 = e4
  Sentinel = Sentinel
  None = None
  Procs = {p1, p2}
  Events = {e1, e2, e3}
  ProcOf <- ProcOfMC
  QueueSize = 1
  Setups <- SharedSetup
SPECIFICATION Spec
CHECK_DEADLOCK FALSE
INVARIANTS
  AcknowledgedIsKept
