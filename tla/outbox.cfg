SPECIFICATION FairSpec
CONSTANTS
  Events = {1, 2, 3}
  Pollers = {p1, p2}
  Batch = 2
  FaultKinds = {"crash", "lost_session", "requeue"}
  MaxFaults = 2
INVARIANTS
  TypeOK
  OpenHandlerOwnsEvent
  ProcessedWasDelivered
  FailedWasNeverRecorded
PROPERTIES
  KeepsPromise
  EveryEventSettles
CHECK_DEADLOCK FALSE
