SPECIFICATION Spec
CONSTANTS
  InitialBudget = 3
  MaxCost = 2
  MaxPayment = 0
  Signing = FALSE
  Faults = {}
  MaxTick = 2
  MaxSaves = 2
PROPERTIES BudgetNeverCreated
CHECK_DEADLOCK FALSE
