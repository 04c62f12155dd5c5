SPECIFICATION Spec
CONSTANTS
  Estimates = {}
  JobIds = {j1}
  InvoiceIds = {i1, i2}
  JobUpdates = {"in_progress"}
  Workers = {w1, w2}
  None = None
  Events = {1, 2}
  Pollers = {p1, p2}
  Batch = 2
  FaultKinds = {"crash", "requeue"}
  MaxFaults = 1
SYMMETRY Symmetry
INVARIANTS
  InvoicePaidOnce
  ProcessedCompletionHasInvoice
CHECK_DEADLOCK FALSE
