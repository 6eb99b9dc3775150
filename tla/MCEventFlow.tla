------------------------------ MODULE MCEventFlow ------------------------------
(* Model values for checking EventFlow.  Deliveries on two replicas are    *)
(* combined with timers on two replicas only where the bus is in memory.   *)
EXTENDS EventFlow

CONSTANTS p1, p2, e1

RedisAndMemory == {<<"redis", "sla">>, <<"memory", "ticket">>}
=============================================================================
