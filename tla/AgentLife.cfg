SPECIFICATION Spec
CONSTANTS
  InitialBudget = 3
  MaxCost = 2
  MaxPayment = 1
  Signing = TRUE
  Faults = {"crash", "trap", "save", "archive", "receipts", "load"}
  MaxTick = 3
  MaxSaves = 4
INVARIANTS TypeOK BudgetFloor LineageIsMonotone HistoryIsAncestry ReceiptsContiguous NeverOverbilled
PROPERTIES LineageNeverForks
CHECK_DEADLOCK FALSE
CONSTRAINT FirstLife
