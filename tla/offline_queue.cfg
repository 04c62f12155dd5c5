SPECIFICATION FairSpec
CONSTANTS
  Items = {i1, i2}
  Passes = {p1, p2}
  None = None
  MaxFaults = 3
INVARIANTS
  TypeOK
  OneSenderPerItem
  SentWasApplied
  EffectsAreAccountedFor
PROPERTIES
  SyncingEnds
  KeepsPromise
CHECK_DEADLOCK FALSE
