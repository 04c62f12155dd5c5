--------------------------- MODULE MCQuoteToCash ---------------------------
(* Rows, requests and pollers of the quote-to-cash flow are interchangeable *)
(* model values; events are not, the poller claims them in order.           *)
EXTENDS QuoteToCash, TLC

Symmetry ==
  Permutations(JobIds) \cup Permutations(InvoiceIds)
    \cup Permutations(Workers) \cup Permutations(Pollers)
=============================================================================
