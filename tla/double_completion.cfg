SPECIFICATION Spec
CONSTANTS
  Estimates = {}
  JobIds = {j1}
  InvoiceIds = {i1, i2}
  JobUpdates = {}
  Workers = {w1, w2}
  None = None
  Events = {1, 2, 3}
  Pollers = {p1, p2}
  Batch = 1
  FaultKinds = {}
  MaxFaults = 0
SYMMETRY Symmetry
INVARIANTS
  OneOutboxInvoicePerJob
CHECK_DEADLOCK FALSE
