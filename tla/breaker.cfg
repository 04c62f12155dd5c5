SPECIFICATION FairSpec
CONSTANTS
  Callers = {c1, c2, c3, c4}
  Threshold = 2
INVARIANTS
  OneProbePerPeriod
  ClosedHasMargin
  BusyMeansProbing
PROPERTIES
  RefusalEnds
CHECK_DEADLOCK FALSE
