SPECIFICATION FairServiceSpec
CONSTANTS
  Worker = {w1}
  JobId = {j1, j2}
  Payload = {r1}
  MaxAttempts = 2
  FaultPoints <- AnyLoss
  MaxFaults = 2
  MaxEvents = 4
  None = None
PROPERTIES RestartsRecover ImplementsContract
