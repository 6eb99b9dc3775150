--------------------------- MODULE MCTicketOutbox ---------------------------
(***************************************************************************)
(* Model checking of TicketOutbox.  Two of three requests carry one key.   *)
(***************************************************************************)
EXTENDS TicketOutbox, TLC

CONSTANTS r1, r2, r3, k1, k2, w1, h1, h2

TwoKeys == r1 :> k1 @@ r2 :> k1 @@ r3 :> k2
=============================================================================
