SPECIFICATION BrowserSpec
CONSTANTS
  Users = {u1}
  Slots = {s1, s2}
  None = None
  MaxSessions = 3
  Tabs = {w1}
  Attempts = {a1, a2}
  MaxLosses = 1
SYMMETRY Symmetry
INVARIANTS NoFalseReplay LineageIsExact WalkStaysInLineage NobodyWaitsForNothing
CHECK_DEADLOCK FALSE
