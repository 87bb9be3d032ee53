SPECIFICATION FairAdmissionSpec
CONSTANTS
  Request = {p1, p2}
  SignsIn = {p1}
  Watched = {"organization"}
  Limit <- SmallLimit
  Window = 2
  MaxFaults = 1
  Quota = 1
  LastDay = 1
INVARIANTS AdmissionTypeOK  QuotaIsExact
PROPERTIES NobodyShutOut
