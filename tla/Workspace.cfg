SPECIFICATION WorkspaceSpec
CONSTANTS
  Run = {q1, q2, e1}
  MaxEvents = 1
  Question = {q1, q2}
  Mount = Mount
  None = None
INVARIANTS PageIsAboutLatest
PROPERTIES PageSettles
CHECK_DEADLOCK FALSE
