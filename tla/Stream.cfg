SPECIFICATION FairStreamSpec
CONSTANTS
  Run = {r1}
  MaxEvents = 4
  Reader = {c1}
  MaxReconnects = 4
  StreamMayExpire = TRUE
INVARIANTS LogMatchesStatus NothingMissedNothingTwice 
PROPERTIES FollowerSettles
CHECK_DEADLOCK FALSE
