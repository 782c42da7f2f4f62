SPECIFICATION Spec
CONSTANTS
  Duration = 6
  RenewalThreshold = 3
  GracePeriod = 1
  TickTimeout = 2
  MaxStall = 1
  MaxTime = 24
  MaxMajor = 3
INVARIANTS TypeOK TickCovered TickOnlyAsOwner
PROPERTIES EpochAdvances LapsedNeedsNewMajor
CHECK_DEADLOCK FALSE
