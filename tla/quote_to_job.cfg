SPECIFICATION Spec
CONSTANTS
  Estimates = {q1}
  JobIds = {j1, j2}
  InvoiceIds = {}
  JobUpdates = {}
  Workers = {w1, w2}
  None = None
  Events = {1, 2}
  Pollers = {p1, p2}
  Batch = 2
  FaultKinds = {"crash", "requeue"}
  MaxFaults = 1
SYMMETRY Symmetry
INVARIANTS
  TypeOK
  QuoteAcceptedOnce
  ProcessedQuoteHasJob
  OneOutboxJobPerQuote
CHECK_DEADLOCK FALSE
