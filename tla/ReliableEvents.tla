--------------------------- MODULE ReliableEvents ---------------------------
(***************************************************************************)
(* What the ticket outbox promises.  An event is emitted once, with the    *)
(* ticket it is about, and then brought to the subscribers, to each once   *)
(* or more often, until it is settled, which takes every subscriber to     *)
(* have seen it, or given up.  Nobody sees it before it is emitted or      *)
(* after that.                                                             *)
(***************************************************************************)
CONSTANTS Events, Subscribers

VARIABLES emitted, seen, settled, abandoned

vars == <<emitted, seen, settled, abandoned>>

Init ==
    /\ emitted = {} /\ settled = {} /\ abandoned = {}
    /\ seen = [e \in Events |-> {}]

Open == emitted \ (settled \cup abandoned)

Emit(e) ==
    /\ e \notin emitted
    /\ emitted' = emitted \cup {e}
    /\ UNCHANGED <<seen, settled, abandoned>>

Deliver(e) ==
    /\ e \in Open
    /\ \E H \in SUBSET Subscribers : seen' = [seen EXCEPT ![e] = @ \cup H]
    /\ UNCHANGED <<emitted, settled, abandoned>>

Settle(e) ==
    /\ e \in Open /\ seen[e] = Subscribers
    /\ settled' = settled \cup {e}
    /\ UNCHANGED <<emitted, seen, abandoned>>

Abandon(e) ==
    /\ e \in Open
    /\ abandoned' = abandoned \cup {e}
    /\ UNCHANGED <<emitted, seen, settled>>

Next == \E e \in Events : Emit(e) \/ Deliver(e) \/ Settle(e) \/ Abandon(e)

Spec == Init /\ [][Next]_vars
=============================================================================
