-------------------------- MODULE MCCircuitBreaker --------------------------
(* A breaker with four overlapping calls that opens after two failures.    *)
EXTENDS CircuitBreaker
=============================================================================
