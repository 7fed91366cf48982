CONSTANTS
  N = 4
  MaxSpans = 2
  MaxConfidence = 1
  MinConfidence = 1
  Strays = {}
  Lengths = {0, 3}
  Paths = {"regex"}
  MaxFields = 1
SPECIFICATION Spec
CHECK_DEADLOCK FALSE
INVARIANTS
  HitsAreReplaced
