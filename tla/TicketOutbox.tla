---------------------------- MODULE TicketOutbox ----------------------------
(***************************************************************************)
(* Tickets, the events that go with them, and the workers that bring the   *)
(* events to the bus.                                                      *)
(*                                                                         *)
(* A request creates its ticket and the outbox row of its event in one     *)
(* transaction; requests with the same idempotency key are for one ticket. *)
(* A worker reads the rows that are due, without marking them, publishes   *)
(* one after the other, and writes the outcome of each to its row.         *)
(***************************************************************************)
EXTENDS Integers, FiniteSets

CONSTANTS
    Requests,      \* callers of CreateTicket; each may call again and again
    Key,           \* [Requests -> keys]: the idempotency key a request carries
    Workers,       \* ticket-outbox workers, one per replica
    Handlers,      \* subscribers of ticket.created on the in-memory bus
    MaxAttempts,
    BatchSize,
    NoTicket,
    MaxTickets,    \* bound: rows of the tickets table
    MaxLost        \* bound: marks that fail and crashes, together

Keys == {Key[r] : r \in Requests}
Ids == 1 .. MaxTickets

ASSUME OutboxAssumption ==
    /\ MaxAttempts \in Nat \ {0} /\ BatchSize \in Nat \ {0}
    /\ MaxTickets \in Nat /\ MaxLost \in Nat
    /\ NoTicket \notin Keys

VARIABLES
    ticket,   \* [Ids -> Keys \cup {NoTicket}]: table tickets
    outbox,   \* [Ids -> row]: table ticket_outbox; due: next_attempt_at has passed
    request,  \* [Requests -> step]
    round,    \* [Workers -> [todo, attempts, result]]: one ProcessDueEvents
    handled,  \* [Ids -> SUBSET Handlers]: who has handled the event
    tries,    \* history: [Ids -> [ok, error, lost]], outcomes of Dispatch and lost marks
    losses    \* history: marks that failed and crashes so far

vars == <<ticket, outbox, request, round, handled, tries, losses>>
tables == <<ticket, outbox, request>>

NoRow == [status |-> "none", attempts |-> 0, due |-> FALSE]
NewRow == [status |-> "pending", attempts |-> 0, due |-> TRUE]
NoRound == [todo |-> {}, attempts |-> [i \in Ids |-> 0], result |-> "none"]

Init ==
    /\ ticket = [i \in Ids |-> NoTicket]
    /\ outbox = [i \in Ids |-> NoRow]
    /\ request = [r \in Requests |-> "idle"]
    /\ round = [w \in Workers |-> NoRound]
    /\ handled = [i \in Ids |-> {}]
    /\ tries = [i \in Ids |-> [ok |-> 0, error |-> 0, lost |-> 0]]
    /\ losses = 0

----------------------------------------------------------------------------
(* Creating tickets *)

Known(key) == \E i \in Ids : ticket[i] = key

\* The ticket, its first status and its event, in the next rows of their tables.
InsertRows(r) ==
    \E i \in Ids :
       /\ ticket[i] = NoTicket /\ \A j \in Ids : j < i => ticket[j] # NoTicket
       /\ ticket' = [ticket EXCEPT ![i] = Key[r]]
       /\ outbox' = [outbox EXCEPT ![i] = NewRow]

Goto(r, step) == request' = [request EXCEPT ![r] = step]

\* Mutant: no unique index on the key.
InsertUnchecked(r) == InsertRows(r) /\ Goto(r, "done")

\* The insert, which the unique index on the key may refuse.
Insert(r) ==
    \/ ~Known(Key[r]) /\ InsertRows(r) /\ Goto(r, "done")
    \/ Known(Key[r]) /\ Goto(r, "conflict") /\ UNCHANGED <<ticket, outbox>>

\* The lookup, at the start of the transaction.  On PostgreSQL others may come
\* between it and the insert; on sqlite nobody does.
CreateTicket(r) ==
    /\ request[r] = "idle"
    /\ \/ /\ Known(Key[r])           \* the replay: the ticket that is there
          /\ Goto(r, "done") /\ UNCHANGED <<ticket, outbox>>
       \/ /\ ~Known(Key[r])
          /\ Goto(r, "insert") /\ UNCHANGED <<ticket, outbox>>
    /\ UNCHANGED <<round, handled, tries, losses>>

CreateInsert(r) ==
    /\ request[r] = "insert"
    /\ Insert(r)
    /\ UNCHANGED <<round, handled, tries, losses>>

\* The transaction rolls back.
CreateFails(r) ==
    /\ request[r] = "insert"
    /\ Goto(r, "idle")
    /\ UNCHANGED <<ticket, outbox, round, handled, tries, losses>>

\* The client has lost the answer, or got an error, and sends the request again.
Retry(r) ==
    /\ request[r] \in {"done", "conflict"}
    /\ Goto(r, "idle")
    /\ UNCHANGED <<ticket, outbox, round, handled, tries, losses>>

----------------------------------------------------------------------------
(* ProcessDueEvents *)

\* Mutant: pending rows only.
DuePending == {i \in Ids : outbox[i].status = "pending" /\ outbox[i].due}

Due == {i \in Ids : outbox[i].status \in {"pending", "failed"} /\ outbox[i].due}

\* ORDER BY id LIMIT BatchSize
Batch == {i \in Due : Cardinality({j \in Due : j < i}) < BatchSize}

ClaimDue(w) ==
    /\ round[w].todo = {} /\ Due # {}
    /\ round' = [round EXCEPT ![w] = [todo |-> Batch, result |-> "none",
                                      attempts |-> [i \in Ids |-> outbox[i].attempts]]]
    /\ UNCHANGED <<tables, handled, tries, losses>>

Current(w, i) == i \in round[w].todo /\ \A j \in round[w].todo : i <= j

\* Mutant: an error counts only when no handler has succeeded.
OutcomeAny(reached) == IF reached # {} THEN "ok" ELSE "error"

\* Publish calls every handler, also after one has failed, and returns an error
\* of one that failed.
Outcome(reached) == IF reached = Handlers THEN "ok" ELSE "error"

Counted(t, result) == IF result = "ok" THEN [t EXCEPT !.ok = @ + 1] ELSE [t EXCEPT !.error = @ + 1]

Dispatch(w, i) ==
    /\ Current(w, i) /\ round[w].result = "none"
    /\ \E reached \in SUBSET Handlers :
         /\ handled' = [handled EXCEPT ![i] = @ \cup reached]
         /\ round' = [round EXCEPT ![w].result = Outcome(reached)]
         /\ tries' = [tries EXCEPT ![i] = Counted(@, Outcome(reached))]
    /\ UNCHANGED <<tables, losses>>

\* Mutants: one attempt too many, an attempt that is not counted, a row that is
\* given up after any failure, a failed event that counts as delivered.
FailedOneMore(attempts) ==
    [status |-> IF attempts + 1 > MaxAttempts THEN "dead" ELSE "failed",
     attempts |-> attempts + 1, due |-> FALSE]
FailedUncounted(attempts) ==
    [status |-> IF attempts + 1 >= MaxAttempts THEN "dead" ELSE "failed",
     attempts |-> attempts, due |-> FALSE]
FailedForGood(attempts) ==
    [status |-> "dead", attempts |-> attempts + 1, due |-> FALSE]

\* What MarkFailed makes of a row that a worker has read with so many attempts.
Failed(attempts) ==
    [status |-> IF attempts + 1 >= MaxAttempts THEN "dead" ELSE "failed",
     attempts |-> attempts + 1, due |-> FALSE]

\* On to the next row of the batch.
Advanced(rnd, i) == [todo |-> rnd.todo \ {i}, attempts |-> rnd.attempts, result |-> "none"]
Proceed(w, i) == round' = [round EXCEPT ![w] = Advanced(@, i)]

MarkDelivered(w, i) ==
    /\ Current(w, i) /\ round[w].result = "ok"
    /\ outbox' = [outbox EXCEPT ![i].status = "delivered"]
    /\ Proceed(w, i)
    /\ UNCHANGED <<ticket, request, handled, tries, losses>>

MarkFailed(w, i) ==
    /\ Current(w, i) /\ round[w].result = "error"
    /\ outbox' = [outbox EXCEPT ![i] = Failed(round[w].attempts[i])]
    /\ Proceed(w, i)
    /\ UNCHANGED <<ticket, request, handled, tries, losses>>

\* The database refuses the mark, or the worker's context was cancelled.
MarkLost(w, i) ==
    /\ Current(w, i) /\ round[w].result # "none"
    /\ losses < MaxLost
    /\ losses' = losses + 1
    /\ tries' = [tries EXCEPT ![i].lost = @ + 1]
    /\ Proceed(w, i)
    /\ UNCHANGED <<tables, handled>>

\* The process dies, with what its round has not marked yet.
Crash(w) ==
    /\ round[w].todo # {}
    /\ losses < MaxLost
    /\ losses' = losses + 1
    /\ tries' = [i \in Ids |->
                   IF Current(w, i) /\ round[w].result # "none"
                   THEN [tries[i] EXCEPT !.lost = @ + 1] ELSE tries[i]]
    /\ round' = [round EXCEPT ![w] = NoRound]
    /\ UNCHANGED <<tables, handled>>

\* retryAfter has passed.
BackoffPasses(i) ==
    /\ outbox[i].status = "failed" /\ ~outbox[i].due
    /\ outbox' = [outbox EXCEPT ![i] = [status |-> "failed", attempts |-> @.attempts, due |-> TRUE]]
    /\ UNCHANGED <<ticket, request, round, handled, tries, losses>>

----------------------------------------------------------------------------

Mark(w, i) == MarkDelivered(w, i) \/ MarkFailed(w, i) \/ MarkLost(w, i)
Create(r) == CreateTicket(r) \/ CreateInsert(r) \/ CreateFails(r) \/ Retry(r)

Next ==
    \/ \E r \in Requests : Create(r)
    \/ \E w \in Workers : ClaimDue(w) \/ Crash(w) \/ \E i \in Ids : Dispatch(w, i) \/ Mark(w, i)
    \/ \E i \in Ids : BackoffPasses(i)

\* The workers' ticker fires, their rounds go on, and time passes.
Fairness ==
    /\ \A w \in Workers : WF_vars(ClaimDue(w) \/ \E i \in Ids : Dispatch(w, i) \/ Mark(w, i))
    /\ \A i \in Ids : WF_vars(BackoffPasses(i))

Spec == Init /\ [][Next]_vars
FairSpec == Spec /\ Fairness

----------------------------------------------------------------------------
(* Properties *)

\* Types; no row ever counts more than MaxAttempts attempts.
TypeOK ==
    /\ ticket \in [Ids -> Keys \cup {NoTicket}]
    /\ outbox \in [Ids -> [status : {"none", "pending", "failed", "delivered", "dead"},
                           attempts : 0 .. MaxAttempts, due : BOOLEAN]]
    /\ request \in [Requests -> {"idle", "insert", "done", "conflict"}]
    /\ round \in [Workers -> [todo : SUBSET Ids, attempts : [Ids -> 0 .. MaxAttempts],
                              result : {"none", "ok", "error"}]]
    /\ handled \in [Ids -> SUBSET Handlers]
    /\ tries \in [Ids -> [ok : Nat, error : Nat, lost : Nat]]
    /\ losses \in Nat

\* However often requests with one key are sent, and however they interleave,
\* they create one ticket, and with it one event.
OneTicketPerKey == \A i, j \in Ids : ticket[i] = ticket[j] /\ ticket[i] # NoTicket => i = j

\* A row is given up only after MaxAttempts publications have failed, also when
\* two workers overwrite each other's counts.
GivenUpLate == \A i \in Ids : outbox[i].status = "dead" => tries[i].error >= MaxAttempts

\* A row that counts as delivered has been to every handler, whatever worker
\* wrote its status last.
DeliveredIsHandled == \A i \in Ids : outbox[i].status = "delivered" => handled[i] = Handlers

\* So a row that is settled, one way or the other, has earned its status.
StatusIsEarned == GivenUpLate /\ DeliveredIsHandled

\* With one worker, every publication is accounted for: by an attempt, by the
\* delivery, by a lost mark, or by the round that has not marked it yet.  So the
\* budget of MaxAttempts is exceeded by no more than the lost marks.
InFlight(i) == {w \in Workers : Current(w, i) /\ round[w].result # "none"}
TriesAccounted ==
    \A i \in Ids :
       tries[i].ok + tries[i].error =
           outbox[i].attempts + (IF outbox[i].status = "delivered" THEN 1 ELSE 0)
           + tries[i].lost + Cardinality(InFlight(i))

\* With one worker, the outbox is what ReliableEvents promises.
RowsOf(key, status) == \E i \in Ids : ticket[i] = key /\ outbox[i].status = status
Emitted == {key \in Keys : Known(key)}
Seen == [key \in Keys |-> {h \in Handlers : \E i \in Ids : ticket[i] = key /\ h \in handled[i]}]
Settled == {key \in Keys : RowsOf(key, "delivered")}
Abandoned == {key \in Keys : RowsOf(key, "dead")}
Promise == INSTANCE ReliableEvents WITH
             Events <- Keys, Subscribers <- Handlers,
             emitted <- Emitted, seen <- Seen, settled <- Settled, abandoned <- Abandoned
EventsAreReliable == Promise!Spec

\* An event that was emitted is delivered or given up in the end.
Settles == \A key \in Keys : key \in Emitted ~> key \in Settled \cup Abandoned
=============================================================================
