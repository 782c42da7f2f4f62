SPECIFICATION Spec
CONSTANTS
  Configs <- CheckedConfigs
  Values = {1}
  Oddities = {"hidden", "refused", "small", "trap"}
  MaxOdd = 1
  MaxCalls = 2
  MaxTick = 3
  MaxStarts = 1
  WindowSize = 2
  MaxTicks = 2
INVARIANTS
  TypeOK
  VerdictIsExact
  AdmissionIsExact
  WindowIsRecent
  KeepsUp
  ChainIsExact
  ChargedOnce
PROPERTIES
  FlaggedAgentStops
CHECK_DEADLOCK FALSE
