CONSTANTS
  r1 = r1
  r2 = r2
  r3 = r3
  Requests = {r1, r2}
  MaxConcurrent = 1
  FaultSets = {{"abort", "hang"}, {"early", "hang"}}
SPECIFICATION Process
CHECK_DEADLOCK FALSE
INVARIANTS
  SlotsExact
  NothingRunsClosed
  StaysClosed
PROPERTIES
  ReadyIsHonest
  SlotIsReleased
  TeardownEnds
  LinkRecovers
