SPECIFICATION FairQueueSpec
CONSTANTS
  Worker = {w1, w2}
  JobId = {j1,j2}
  Payload = {row}
  MaxAttempts = 3
  FaultPoints <- OutsideClaim
  MaxFaults = 1
  None = None
INVARIANTS QueueTypeOK Accounted AbsentMeansSettled DeadOnlyWhenExhausted
PROPERTIES EventuallySettled
