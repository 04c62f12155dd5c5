SPECIFICATION FairSpec
CONSTANTS
  Callers = {c1, c2}
  Threshold = 1
PROPERTIES
  OpenUntilCooled
CHECK_DEADLOCK FALSE
