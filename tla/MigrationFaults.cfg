SPECIFICATION FairSpec
CONSTANTS
  Nodes = {a, b, c}
  First = a
  Faults = {"connect", "reject", "load", "stream", "crash", "delete"}
  Simple = FALSE
  Overlap = TRUE
  MaxAttempts = 2
  MaxTick = 0
  MaxGen = 0
  MaxMajor = 1
  MaxCalls = 2
INVARIANTS OneTargetPerCall HandoffIsResolved
PROPERTIES RevertIsSafe CallReturns
CHECK_DEADLOCK FALSE
