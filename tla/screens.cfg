SPECIFICATION Spec
CONSTANTS
  Pages <- AllPages
  Rows = {1, 2, 3}
  Present = {1, 2}
  MaxPresses = 2
  MaxTrouble = 1
INVARIANTS
  TypeOK
  OneInFlightPerFlag
  ShownAtMostOnce
  RestsOnOwnWrites
PROPERTIES
  ViewMovesForward
  
CHECK_DEADLOCK FALSE
