-------------------------- MODULE MCCircuitBreaker --------------------------
(* Small instances of CircuitBreaker for TLC. *)
EXTENDS CircuitBreaker

CONSTANTS c1, c2

OneCaller  == {c1}
TwoCallers == {c1, c2}
=============================================================================
