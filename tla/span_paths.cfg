CONSTANTS
  N = 4
  MaxSpans = 2
  MaxConfidence = 3
  MinConfidence = 2
  Strays <- StraysMC
  Lengths = {0, 2}
  Paths = {"plain", "pipeline", "regex", "autoDeID", "other"}
  MaxFields = 2
  Texts <- TextsMC
  MaxLabels = 3
  MaxOverlap = 2
  MaxPredicted = 2
  Unit = 72
SPECIFICATION SpansSpec
CHECK_DEADLOCK FALSE
INVARIANTS
  RedactsExactly
  BestAreKept
  MapsBack
  RunsExact
  ScoreIsSound
