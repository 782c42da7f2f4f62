SPECIFICATION Spec
CONSTANTS
  Nodes = {a, b}
  First = a
  Faults = {"stream"}
  Simple = FALSE
  Overlap = FALSE
  MaxAttempts = 1
  MaxTick = 1
  MaxGen = 0
  MaxMajor = 1
  MaxCalls = 1
INVARIANTS AtMostOneOwner
CHECK_DEADLOCK FALSE
