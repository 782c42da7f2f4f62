SPECIFICATION Spec
CONSTANTS
  Machines = {"A", "B"}
  Skew <- ClockSkew
  Curve <- PriceCurve
  Threshold = 155
  Word = 64
  MaxGap = 6
  Faults = {"kill", "save", "load", "torn"}
  StartNow = 2
  MaxNow = 6
  MaxStarts = 2
INVARIANT NothingMissed
PROPERTIES KnowledgeGrows DirectoryKeepsIdentity
CHECK_DEADLOCK FALSE
