SPECIFICATION Spec
CONSTANTS
  Nodes = {a, b, c}
  First = a
  Faults = {"connect", "reject", "load"}
  Simple = TRUE
  Overlap = FALSE
  MaxAttempts = 2
  MaxTick = 2
  MaxGen = 0
  MaxMajor = 2
  MaxCalls = 2
SYMMETRY NodeSymmetry
INVARIANTS TypeOK AtMostOneOwner
PROPERTIES DurableNeverRegresses
CHECK_DEADLOCK FALSE
