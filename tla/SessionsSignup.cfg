SPECIFICATION BrowserSpec
CONSTANTS
  Users = {u1}
  Slots = {s1, s2}
  None = None
  MaxSessions = 2
  Tabs = {w1}
  Attempts = {a1}
  MaxLosses = 0
INVARIANTS TokenMeansLetIn
CHECK_DEADLOCK FALSE
