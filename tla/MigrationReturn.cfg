SPECIFICATION Spec
CONSTANTS
  Nodes = {a, b}
  First = a
  Faults = {}
  Simple = FALSE
  Overlap = TRUE
  MaxAttempts = 1
  MaxTick = 1
  MaxGen = 0
  MaxMajor = 1
  MaxCalls = 2
PROPERTIES AgentSurvives
CHECK_DEADLOCK FALSE
