------------------------------ MODULE MCOutbox ------------------------------
(* The outbox with two pollers and three events.                            *)
EXTENDS Outbox
=============================================================================
