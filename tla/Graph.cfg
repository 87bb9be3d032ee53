SPECIFICATION GraphSpec
CONSTANTS
  MaxSteps = 8
  MaxToolCalls = 3
  MaxRevisions = 3
  WebEnabled = TRUE
  SqlEnabled = TRUE
INVARIANTS GraphTypeOK WithinToolBudget RecursionLimitSuffices GatheredBeforeAnswer EvidenceIsCited
CHECK_DEADLOCK FALSE
