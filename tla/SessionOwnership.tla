---------------------------- MODULE SessionOwnership ----------------------------
(***************************************************************************)
(* What the hand-over promises about a session, without its processes,     *)
(* claims, stale reads and load counters: a session has at most one owner, *)
(* an owner comes with a ledger entry that names the previous one, and a   *)
(* session that waits has no owner.                                        *)
(***************************************************************************)
EXTENDS Sequences

CONSTANTS Sessions, Agents, NoAgent

VARIABLES
    owner,    \* the agent of each session, or NoAgent
    waiting,  \* the sessions waiting for an agent
    ledger    \* the transfers so far: [session, from, to]

Init ==
    /\ owner = [s \in Sessions |-> NoAgent]
    /\ waiting = {}
    /\ ledger = <<>>

\* Give s to a: the ledger names whom it was taken from (nobody, if a has it).
Assign(s, a) ==
    /\ owner' = [owner EXCEPT ![s] = a]
    /\ waiting' = waiting \ {s}
    /\ ledger' = Append(ledger, [session |-> s,
                                from |-> IF owner[s] = a THEN NoAgent ELSE owner[s],
                                to |-> a])

\* Put s in the queue: it is nobody's from then on.
Wait(s) ==
    /\ owner' = [owner EXCEPT ![s] = NoAgent]
    /\ waiting' = waiting \cup {s}
    /\ UNCHANGED ledger

Withdraw(s) ==
    /\ s \in waiting
    /\ waiting' = waiting \ {s}
    /\ UNCHANGED <<owner, ledger>>

Next == \E s \in Sessions : Wait(s) \/ Withdraw(s) \/ \E a \in Agents : Assign(s, a)

Spec == Init /\ [][Next]_<<owner, waiting, ledger>>
=============================================================================
