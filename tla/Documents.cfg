SPECIFICATION DocSpec
CONSTANTS
  Document = {d1}
  Worker = {w1, w2}
  Deleter = {x1}
  None = None
INVARIANTS DocTypeOK ReadyMeansIndexed
PROPERTIES GoneForGood
CHECK_DEADLOCK FALSE
