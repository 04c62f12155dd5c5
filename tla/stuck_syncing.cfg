SPECIFICATION FairSpec
CONSTANTS
  Items = {i1}
  Passes = {p1}
  None = None
  MaxFaults = 1
PROPERTIES
  SyncingAlwaysEnds
CHECK_DEADLOCK FALSE
