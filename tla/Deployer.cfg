SPECIFICATION Spec
CONSTANTS
  InitialBudget = 3
  Faults = {"crash", "trap", "http", "refuse"}
  MaxFaults = 2
  MaxKeys = 7
INVARIANTS
  TypeOK
  OnePlanAtATime
  LedgerAgrees
  WasteBounded
PROPERTIES
  EventuallyRunning
CHECK_DEADLOCK FALSE
