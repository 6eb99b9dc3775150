----------------------------- MODULE MCRealtimeHub -----------------------------
(***************************************************************************)
(* Model checking of RealtimeHub.                                          *)
(***************************************************************************)
EXTENDS RealtimeHub, TLC

CONSTANTS c1, c2, q1
=============================================================================
