SPECIFICATION Spec
CONSTANTS
  Estimates = {q1}
  JobIds = {j1}
  InvoiceIds = {}
  JobUpdates = {}
  Workers = {w1}
  None = None
  Events = {1}
  Pollers = {p1}
  Batch = 1
  FaultKinds = {}
  MaxFaults = 0
SYMMETRY Symmetry
INVARIANTS
  AcceptanceReachesOutbox
CHECK_DEADLOCK FALSE
