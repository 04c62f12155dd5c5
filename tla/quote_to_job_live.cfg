SPECIFICATION FairSpec
CONSTANTS
  Estimates = {q1}
  JobIds = {j1}
  InvoiceIds = {}
  JobUpdates = {}
  Workers = {w1}
  None = None
  Events = {1, 2}
  Pollers = {p1, p2}
  Batch = 1
  FaultKinds = {"lost_session"}
  MaxFaults = 1
PROPERTIES
  PublishedAcceptanceIsAnswered
CHECK_DEADLOCK FALSE
