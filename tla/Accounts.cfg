SPECIFICATION AccountsSpec
CONSTANTS
  Org = {o1, o2}
  Address = {a1, a2, a3}
  Invite = {i1, i2}
  Request = {p1, p2, p3}
  None = None
SYMMETRY Symmetry
INVARIANTS AccountsTypeOK AcceptedMeansMember NobodyIsHomeless AdminsAreAppointed
PROPERTIES ImplementsDirectory
CHECK_DEADLOCK FALSE
