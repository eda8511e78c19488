-------------------------- MODULE MCCircuitBreaker --------------------------
(* Small instances of CircuitBreaker for TLC.                              *)
EXTENDS CircuitBreaker

CONSTANTS t1, t2
Two == {t1, t2}
=============================================================================
