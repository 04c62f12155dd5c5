--------------------------- MODULE EventDelivery ---------------------------
(***************************************************************************)
(* At-least-once delivery, with no pollers, passes, locks or restarts in   *)
(* sight: what the domain-event outbox promises to the plugins, and the    *)
(* offline queue of the field app to its user:                             *)
(*                                                                         *)
(*   - what was published is never forgotten;                              *)
(*   - it counts as processed only after its handler succeeded;            *)
(*   - what failed, or was given up, stays so;                             *)
(*   - a handler may succeed any number of times.                          *)
(*                                                                         *)
(* Outbox.tla and OfflineQueue.tla are shown to implement this module.     *)
(***************************************************************************)
CONSTANT Events

VARIABLES
  status,     \* what has become of each event; "none": not published yet
  delivered   \* events whose handler has returned without error at least once

vars == <<status, delivered>>

Statuses == {"none", "pending", "processed", "failed"}

Init ==
  /\ status = [e \in Events |-> "none"]
  /\ delivered = {}

Publish(e) ==
  /\ status[e] = "none"
  /\ status' = [status EXCEPT ![e] = "pending"]
  /\ UNCHANGED delivered

\* A handler that lost its claim may still finish after the event was settled
\* by somebody else, so success is possible in every published state.
Deliver(e) ==
  /\ status[e] # "none"
  /\ delivered' = delivered \cup {e}
  /\ UNCHANGED status

\* One batch settles atomically: the events of good succeeded, those of bad not.
Settle(good, bad) ==
  /\ \A e \in good \cup bad : status[e] = "pending"
  /\ good \subseteq delivered
  /\ status' = [e \in Events |-> IF e \in bad THEN "failed"
                                 ELSE IF e \in good THEN "processed"
                                 ELSE status[e]]
  /\ UNCHANGED delivered

Redeliver(e) ==
  /\ status[e] = "processed"
  /\ status' = [status EXCEPT ![e] = "pending"]
  /\ UNCHANGED delivered

Next ==
  \/ \E e \in Events : Publish(e) \/ Deliver(e) \/ Redeliver(e)
  \/ \E good, bad \in SUBSET Events : Settle(good, bad)

Spec == Init /\ [][Next]_vars
=============================================================================
