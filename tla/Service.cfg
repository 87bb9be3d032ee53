SPECIFICATION ServiceSpec
CONSTANTS
  Worker = {w1, w2}
  JobId = {j1, j2}
  Payload = {r1}
  MaxAttempts = 2
  FaultPoints <- AnyFault
  MaxFaults = 1
  MaxEvents = 1
  None = None
INVARIANTS ServiceTypeOK FailedMeansGivenUp
PROPERTIES UsesQueueAsSpecified
SYMMETRY Symmetry
