--------------------------- MODULE MCCircuitBreaker ---------------------------
(***************************************************************************)
(* Model checking of CircuitBreaker.                                       *)
(***************************************************************************)
EXTENDS CircuitBreaker

CONSTANTS q1, q2, q3
=============================================================================
