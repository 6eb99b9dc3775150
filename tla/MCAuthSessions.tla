----------------------------- MODULE MCAuthSessions -----------------------------
(***************************************************************************)
(* Model checking of AuthSessions.                                         *)
(***************************************************************************)
EXTENDS AuthSessions, TLC

CONSTANTS s1, s2, r1, r2

Interchangeable == Permutations(Sessions) \cup Permutations(Requests)
=============================================================================
