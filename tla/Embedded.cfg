SPECIFICATION FairEmbeddedSpec
CONSTANTS
  Run = {r1, r2}
  MaxAttempts = 3
  MaxEvents = 3
  MaxStops = 2
  MaxFaults = 2
  None = None
 
PROPERTIES ImplementsContract 
CHECK_DEADLOCK FALSE
