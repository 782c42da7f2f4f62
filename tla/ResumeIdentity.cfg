SPECIFICATION Spec
CONSTANTS
  Machines = {"A", "B"}
  Skew <- ClockSkew
  Curve <- PriceCurve
  Threshold = 155
  Word = 64
  MaxGap = 6
  Faults = {"kill"}
  StartNow = 2
  MaxNow = 3
  MaxStarts = 2
INVARIANT SameIdentity
CHECK_DEADLOCK FALSE
