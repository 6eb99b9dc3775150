------------------------- MODULE TicketOutboxProofs -------------------------
(***************************************************************************)
(* Proofs about TicketOutbox, for any number of requests, workers and      *)
(* handlers.                                                               *)
(***************************************************************************)
EXTENDS TicketOutbox, FiniteSetTheorems, TLAPS

\* What the rows say, beyond their types: a row that may still be published has
\* attempts left, one that was given up has none, and no attempt was counted
\* that did not fail.
RowsOK ==
    \A i \in Ids :
       /\ outbox[i].status = "none" <=> ticket[i] = NoTicket
       /\ outbox[i].status \in {"pending", "failed"} => outbox[i].attempts < MaxAttempts
       /\ outbox[i].status = "dead" => outbox[i].attempts >= MaxAttempts
       /\ outbox[i].attempts <= tries[i].error

\* What a round has read is never ahead of what has happened, and its result is
\* about the row it is at.
RoundsOK ==
    \A w \in Workers : \A i \in Ids :
       /\ round[w].attempts[i] <= tries[i].error
       /\ i \in round[w].todo => /\ outbox[i].status # "none"
                                 /\ round[w].attempts[i] < MaxAttempts
       /\ Current(w, i) /\ round[w].result = "ok" => handled[i] = Handlers
       /\ Current(w, i) /\ round[w].result = "error" =>
             round[w].attempts[i] + 1 <= tries[i].error

IInv == TypeOK /\ OneTicketPerKey /\ RowsOK /\ RoundsOK /\ DeliveredIsHandled

Status == {"none", "pending", "failed", "delivered", "dead"}
Row == [status : Status, attempts : 0 .. MaxAttempts, due : BOOLEAN]
Round == [todo : SUBSET Ids, attempts : [Ids -> 0 .. MaxAttempts], result : {"none", "ok", "error"}]
Tries == [ok : Nat, error : Nat, lost : Nat]

----------------------------------------------------------------------------
(* The creation of tickets: the rounds and what they have done stay. *)

LEMMA CreateKeepsRounds ==
    ASSUME IInv, UNCHANGED <<round, handled, tries>>,
           \A i \in Ids : outbox'[i] = outbox[i] \/ outbox'[i] = NewRow
    PROVE  RoundsOK' /\ DeliveredIsHandled'
<1>1. RoundsOK'
  BY SMT DEF IInv, RoundsOK, Current, NewRow
<1>2. DeliveredIsHandled'
  BY SMT DEF IInv, DeliveredIsHandled, NewRow
<1> QED BY <1>1, <1>2

LEMMA InsertKeeps ==
    ASSUME IInv, NEW r \in Requests, Insert(r), UNCHANGED <<round, handled, tries, losses>>
    PROVE  IInv'
<1>0. Key[r] \in Keys /\ Key[r] # NoTicket
  BY OutboxAssumption DEF Keys
<1>1. CASE ~Known(Key[r]) /\ InsertRows(r) /\ Goto(r, "done")
  <2>1. PICK i \in Ids : /\ ticket[i] = NoTicket
                         /\ ticket' = [ticket EXCEPT ![i] = Key[r]]
                         /\ outbox' = [outbox EXCEPT ![i] = NewRow]
    BY <1>1 DEF InsertRows
  <2>2. NewRow \in Row
    BY OutboxAssumption, SMT DEF NewRow, Row, Status
  <2>3. TypeOK'
    BY <1>0, <1>1, <2>1, <2>2, SMT DEF IInv, TypeOK, Goto, Row, Status
  <2>4. OneTicketPerKey'
    BY <1>0, <1>1, <2>1, SMT DEF IInv, TypeOK, OneTicketPerKey, Known
  <2>5. \A j \in Ids : j # i => outbox'[j] = outbox[j] /\ ticket'[j] = ticket[j]
    BY <2>1, SMT DEF IInv, TypeOK
  <2>6. outbox'[i] = NewRow /\ ticket'[i] = Key[r]
    BY <2>1, SMT DEF IInv, TypeOK
  <2>7. 0 <= tries[i].error
    BY SMT DEF IInv, TypeOK
  <2>8. RowsOK'
    BY <1>0, <2>5, <2>6, <2>7, OutboxAssumption, SMT DEF IInv, RowsOK, NewRow
  <2>9. \A j \in Ids : outbox'[j] = outbox[j] \/ outbox'[j] = NewRow
    BY <2>5, <2>6
  <2> QED BY <2>3, <2>4, <2>8, <2>9, CreateKeepsRounds DEF IInv
<1>2. CASE Known(Key[r]) /\ Goto(r, "conflict") /\ UNCHANGED <<ticket, outbox>>
  BY <1>2, SMT DEF IInv, TypeOK, OneTicketPerKey, RowsOK, RoundsOK, DeliveredIsHandled,
                   Goto, Current
<1> QED BY <1>1, <1>2 DEF Insert

LEMMA GotoKeeps ==
    ASSUME IInv, NEW r \in Requests,
           NEW step \in {"idle", "insert", "done", "conflict"}, Goto(r, step),
           UNCHANGED <<ticket, outbox, round, handled, tries, losses>>
    PROVE  IInv'
BY SMT DEF IInv, TypeOK, OneTicketPerKey, RowsOK, RoundsOK, DeliveredIsHandled, Goto, Current

LEMMA CreateKeeps ==
    ASSUME IInv, NEW r \in Requests, Create(r)
    PROVE  IInv'
BY InsertKeeps, GotoKeeps
   DEF Create, CreateTicket, CreateInsert, CreateFails, Retry

----------------------------------------------------------------------------
(* The workers *)

\* The rows of two ids compare, so a round is at one row only.
LEMMA CurrentIsUnique ==
    ASSUME NEW w \in Workers, NEW i \in Ids, NEW j \in Ids, Current(w, i), Current(w, j)
    PROVE  i = j
BY OutboxAssumption, SMT DEF Current, Ids

LEMMA ClaimKeeps ==
    ASSUME IInv, NEW w \in Workers, ClaimDue(w)
    PROVE  IInv'
<1> DEFINE read == [todo |-> Batch, result |-> "none",
                    attempts |-> [i \in Ids |-> outbox[i].attempts]]
<1>1. read \in Round /\ UNCHANGED <<ticket, outbox, request, handled, tries, losses>>
  BY SMT DEF ClaimDue, tables, IInv, TypeOK, Batch, Due, Round, Row
<1>2. round' = [round EXCEPT ![w] = read] /\ round \in [Workers -> Round]
  BY DEF ClaimDue, IInv, TypeOK, Round
<1>3. TypeOK'
  BY <1>1, <1>2, SMT DEF IInv, TypeOK, Round
<1>4. \A i \in Batch : outbox[i].status \in {"pending", "failed"}
  BY DEF Batch, Due
<1>5. RoundsOK'
  <2> SUFFICES ASSUME NEW v \in Workers, NEW i \in Ids
               PROVE /\ round'[v].attempts[i] <= tries[i].error
                     /\ i \in round'[v].todo => /\ outbox[i].status # "none"
                                                /\ round'[v].attempts[i] < MaxAttempts
                     /\ Current(v, i)' /\ round'[v].result = "ok" => handled[i] = Handlers
                     /\ Current(v, i)' /\ round'[v].result = "error" =>
                           round'[v].attempts[i] + 1 <= tries[i].error
    BY <1>1, SMT DEF RoundsOK
  <2>1. CASE v = w
    <3>1. round'[v] = read
      BY <1>2, <2>1
    <3>2. read.todo = Batch /\ read.result = "none" /\ read.attempts[i] = outbox[i].attempts
      OBVIOUS
    <3> HIDE DEF read
    <3> QED BY <1>4, <3>1, <3>2, SMT DEF IInv, RowsOK
  <2>2. CASE v # w
    <3>1. round'[v] = round[v]
      BY <1>2, <2>2
    <3> QED BY <3>1, SMT DEF IInv, RoundsOK, Current
  <2> QED BY <2>1, <2>2
<1> QED BY <1>1, <1>3, <1>5, SMT DEF IInv, OneTicketPerKey, RowsOK, DeliveredIsHandled

LEMMA DispatchKeeps ==
    ASSUME IInv, NEW w \in Workers, NEW i \in Ids, Dispatch(w, i)
    PROVE  IInv'
<1>1. PICK reached \in SUBSET Handlers :
         /\ handled' = [handled EXCEPT ![i] = @ \cup reached]
         /\ round' = [round EXCEPT ![w].result = Outcome(reached)]
         /\ tries' = [tries EXCEPT ![i] = Counted(@, Outcome(reached))]
  BY DEF Dispatch
<1> DEFINE result == Outcome(reached)
<1>2. result \in {"ok", "error"} /\ (result = "ok" => reached = Handlers)
  BY DEF Outcome
<1>3. UNCHANGED <<ticket, outbox, request, losses>> /\ Current(w, i) /\ i \in round[w].todo
  BY DEF Dispatch, tables, Current
<1> HIDE DEF result
<1>4. /\ tries[i] \in Tries /\ Counted(tries[i], result) \in Tries
      /\ tries[i].error <= Counted(tries[i], result).error
      /\ result = "error" => Counted(tries[i], result).error = tries[i].error + 1
  <2>1. tries[i] \in Tries
    BY DEF IInv, TypeOK, Tries
  <2>2. CASE result = "ok"
    <3>1. Counted(tries[i], result) = [tries[i] EXCEPT !.ok = @ + 1]
      BY <2>2 DEF Counted
    <3> QED BY <2>1, <2>2, <3>1, SMT DEF Tries
  <2>3. CASE result = "error"
    <3>1. Counted(tries[i], result) = [tries[i] EXCEPT !.error = @ + 1]
      BY <2>3 DEF Counted
    <3> QED BY <2>1, <2>3, <3>1, SMT DEF Tries
  <2> QED BY <1>2, <2>2, <2>3
<1>5. /\ tries' = [tries EXCEPT ![i] = Counted(tries[i], result)]
      /\ round' = [round EXCEPT ![w].result = result]
  BY <1>1 DEF result
<1>6. tries' \in [Ids -> Tries] /\ \A j \in Ids : tries[j].error <= tries'[j].error
  BY <1>4, <1>5, SMT DEF IInv, TypeOK, Tries
<1>7. handled' \in [Ids -> SUBSET Handlers] /\ \A j \in Ids : handled[j] \subseteq handled'[j]
  BY <1>1, SMT DEF IInv, TypeOK
<1>8. round' \in [Workers -> Round]
  <2> DEFINE next == [round[w] EXCEPT !.result = result]
  <2>1. round \in [Workers -> Round] /\ round[w] \in Round
    BY DEF IInv, TypeOK, Round
  <2>2. next \in Round
    BY <1>2, <2>1, SMT DEF Round
  <2>3. round' = [round EXCEPT ![w] = next]
    BY <1>5, <2>1, Zenon
  <2> HIDE DEF next
  <2> QED BY <2>1, <2>2, <2>3, SMT
<1>9. TypeOK'
  BY <1>3, <1>6, <1>7, <1>8 DEF IInv, TypeOK, Round, Tries
<1>10. RoundsOK'
  <2> SUFFICES ASSUME NEW v \in Workers, NEW j \in Ids
               PROVE /\ round'[v].attempts[j] <= tries'[j].error
                     /\ j \in round'[v].todo => /\ outbox[j].status # "none"
                                                /\ round'[v].attempts[j] < MaxAttempts
                     /\ Current(v, j)' /\ round'[v].result = "ok" => handled'[j] = Handlers
                     /\ Current(v, j)' /\ round'[v].result = "error" =>
                           round'[v].attempts[j] + 1 <= tries'[j].error
    BY <1>3, SMT DEF RoundsOK
  <2>1. /\ round[v] \in Round /\ round'[v].todo = round[v].todo
        /\ round'[v].attempts = round[v].attempts
        /\ v # w => round'[v].result = round[v].result
        /\ v = w => round'[v].result = result
    BY <1>5, SMT DEF IInv, TypeOK, Round
  <2>2. Current(v, j)' <=> Current(v, j)
    BY <2>1 DEF Current
  <2>3. round[v].attempts[j] \in 0 .. MaxAttempts /\ tries[j].error \in Nat /\ tries'[j].error \in Nat
    BY <1>6, <2>1, SMT DEF IInv, TypeOK, Round, Tries
  <2>4. /\ round[v].attempts[j] <= tries[j].error
        /\ j \in round[v].todo => /\ outbox[j].status # "none"
                                  /\ round[v].attempts[j] < MaxAttempts
        /\ Current(v, j) /\ round[v].result = "ok" => handled[j] = Handlers
        /\ Current(v, j) /\ round[v].result = "error" =>
              round[v].attempts[j] + 1 <= tries[j].error
    BY DEF IInv, RoundsOK
  <2>5. tries[j].error <= tries'[j].error
    BY <1>6
  <2>6. CASE v # w
    <3>1. handled[j] = Handlers => handled'[j] = Handlers
      BY <1>7
    <3> QED BY <2>1, <2>2, <2>3, <2>4, <2>5, <2>6, <3>1, OutboxAssumption, SMT
  <2>7. CASE v = w
    <3>1. Current(w, j) => j = i
      BY <1>3, CurrentIsUnique
    <3>2. result = "ok" => handled'[i] = Handlers
      BY <1>1, <1>2, SMT DEF IInv, TypeOK
    <3>3. result = "error" => tries'[i].error = tries[i].error + 1
      BY <1>4, <1>5, SMT DEF IInv, TypeOK
    <3> QED BY <2>1, <2>2, <2>3, <2>4, <2>5, <2>7, <3>1, <3>2, <3>3, OutboxAssumption, SMT
  <2> QED BY <2>6, <2>7
<1>11. RowsOK'
  <2> SUFFICES ASSUME NEW j \in Ids PROVE outbox[j].attempts <= tries'[j].error
    BY <1>3, SMT DEF IInv, RowsOK
  <2>1. /\ outbox[j].attempts \in 0 .. MaxAttempts /\ tries[j].error \in Nat /\ tries'[j].error \in Nat
    BY <1>6, SMT DEF IInv, TypeOK, Tries
  <2> QED BY <1>6, <2>1, OutboxAssumption, SMT DEF IInv, RowsOK
<1>12. DeliveredIsHandled'
  <2> SUFFICES ASSUME NEW j \in Ids, outbox[j].status = "delivered" PROVE handled'[j] = Handlers
    BY <1>3 DEF DeliveredIsHandled
  <2>1. handled[j] = Handlers
    BY DEF IInv, DeliveredIsHandled
  <2> QED BY <1>7, <2>1, Zenon
<1> QED BY <1>3, <1>9, <1>10, <1>11, <1>12, SMT DEF IInv, OneTicketPerKey

\* A mark that writes a row in a way that keeps what is known of rows.
LEMMA MarkKeeps ==
    ASSUME IInv, NEW w \in Workers, NEW i \in Ids, NEW row \in Row, Current(w, i),
           row.status # "none", row.attempts <= tries[i].error,
           row.status \in {"pending", "failed"} => row.attempts < MaxAttempts,
           row.status = "dead" => row.attempts >= MaxAttempts,
           row.status = "delivered" => handled[i] = Handlers,
           outbox' = [outbox EXCEPT ![i] = row], Proceed(w, i),
           UNCHANGED <<ticket, request, handled, tries, losses>>
    PROVE  IInv'
<1>1. i \in round[w].todo /\ round \in [Workers -> Round]
  BY DEF Current, IInv, TypeOK, Round
<1>2. round' \in [Workers -> Round]
  <2> DEFINE next == Advanced(round[w], i)
  <2>1. round[w] \in Round
    BY <1>1
  <2>2. next \in Round
    BY <2>1, SMT DEF Round, Advanced
  <2>3. round' = [round EXCEPT ![w] = next]
    BY <1>1 DEF Proceed
  <2> HIDE DEF next
  <2> QED BY <1>1, <2>2, <2>3, SMT
<1>3. TypeOK'
  BY <1>2, SMT DEF IInv, TypeOK, Row, Status, Round
<1>4. \A j \in Ids : outbox'[j] = IF j = i THEN row ELSE outbox[j]
  BY SMT DEF IInv, TypeOK
<1>5. outbox[i].status # "none"
  BY <1>1 DEF IInv, RoundsOK
<1>6. RowsOK'
  BY <1>4, <1>5, SMT DEF IInv, RowsOK
<1>7. DeliveredIsHandled'
  BY <1>4, SMT DEF IInv, DeliveredIsHandled
<1>8. RoundsOK'
  <2> SUFFICES ASSUME NEW v \in Workers, NEW j \in Ids
               PROVE /\ round'[v].attempts[j] <= tries[j].error
                     /\ j \in round'[v].todo => /\ outbox'[j].status # "none"
                                                /\ round'[v].attempts[j] < MaxAttempts
                     /\ Current(v, j)' /\ round'[v].result = "ok" => handled[j] = Handlers
                     /\ Current(v, j)' /\ round'[v].result = "error" =>
                           round'[v].attempts[j] + 1 <= tries[j].error
    BY SMT DEF RoundsOK
  <2>1. outbox[j].status # "none" => outbox'[j].status # "none"
    BY <1>4
  <2>2. CASE v = w
    <3>1. /\ round'[w].attempts = round[w].attempts /\ round'[w].result = "none"
          /\ round'[w].todo \subseteq round[w].todo
      BY <1>1, SMT DEF Proceed, Advanced, Round
    <3> QED BY <2>1, <2>2, <3>1, SMT DEF IInv, RoundsOK
  <2>3. CASE v # w
    <3>1. round'[v] = round[v]
      BY <1>1, <2>3 DEF Proceed
    <3> QED BY <2>1, <3>1, SMT DEF IInv, RoundsOK, Current
  <2> QED BY <2>2, <2>3
<1> QED BY <1>3, <1>6, <1>7, <1>8, SMT DEF IInv, OneTicketPerKey

LEMMA MarkDeliveredKeeps ==
    ASSUME IInv, NEW w \in Workers, NEW i \in Ids, MarkDelivered(w, i)
    PROVE  IInv'
<1> DEFINE row == [outbox[i] EXCEPT !.status = "delivered"]
<1>1. outbox[i] \in Row /\ outbox \in [Ids -> Row] /\ i \in round[w].todo
  BY DEF IInv, TypeOK, Row, Status, MarkDelivered, Current
<1>2. row \in Row /\ row.status = "delivered" /\ row.attempts = outbox[i].attempts
  BY <1>1, SMT DEF Row, Status
<1>3. outbox' = [outbox EXCEPT ![i] = row]
  BY <1>1, Zenon DEF MarkDelivered
<1>4. handled[i] = Handlers /\ outbox[i].attempts <= tries[i].error
  BY DEF MarkDelivered, IInv, RowsOK, RoundsOK
<1> HIDE DEF row
<1> QED BY <1>2, <1>3, <1>4, MarkKeeps DEF MarkDelivered

LEMMA MarkFailedKeeps ==
    ASSUME IInv, NEW w \in Workers, NEW i \in Ids, MarkFailed(w, i)
    PROVE  IInv'
<1> DEFINE read == round[w].attempts[i]
<1>1. /\ read \in 0 .. MaxAttempts /\ read < MaxAttempts
      /\ read + 1 <= tries[i].error
  BY SMT DEF IInv, TypeOK, RoundsOK, MarkFailed, Current
<1> HIDE DEF read
<1>2. /\ Failed(read) \in Row /\ Failed(read).attempts = read + 1
      /\ Failed(read).status \in {"failed", "dead"}
      /\ Failed(read).status = "dead" <=> read + 1 >= MaxAttempts
  BY <1>1, OutboxAssumption, SMT DEF Failed, Row, Status
<1>3. outbox' = [outbox EXCEPT ![i] = Failed(read)] /\ Current(w, i) /\ Proceed(w, i)
  BY DEF MarkFailed, read
<1>4. Failed(read).status = "failed" => Failed(read).attempts < MaxAttempts
  BY <1>1, <1>2, OutboxAssumption, SMT
<1> QED BY <1>1, <1>2, <1>3, <1>4, MarkKeeps DEF MarkFailed

\* Steps that lose marks, or pass time: the rounds shrink, no row changes more
\* than its due time, and no failure is forgotten.
LEMMA LosingKeeps ==
    ASSUME IInv, NEW w \in Workers, UNCHANGED <<ticket, outbox, request, handled>>,
           tries' \in [Ids -> Tries], \A j \in Ids : tries'[j].error = tries[j].error,
           losses' \in Nat, NEW next \in Round, round' = [round EXCEPT ![w] = next],
           next.result = "none", next.todo \subseteq round[w].todo,
           \A j \in Ids : next.attempts[j] = round[w].attempts[j] \/ next.attempts[j] = 0
    PROVE  IInv'
<1>1. round \in [Workers -> Round] /\ round' \in [Workers -> Round]
  BY DEF IInv, TypeOK, Round
<1>2. TypeOK'
  BY <1>1 DEF IInv, TypeOK, Round, Tries
<1>3. RoundsOK'
  <2> SUFFICES ASSUME NEW v \in Workers, NEW j \in Ids
               PROVE /\ round'[v].attempts[j] <= tries[j].error
                     /\ j \in round'[v].todo => /\ outbox[j].status # "none"
                                                /\ round'[v].attempts[j] < MaxAttempts
                     /\ Current(v, j)' /\ round'[v].result = "ok" => handled[j] = Handlers
                     /\ Current(v, j)' /\ round'[v].result = "error" =>
                           round'[v].attempts[j] + 1 <= tries[j].error
    BY SMT DEF RoundsOK
  <2>1. CASE v = w
    <3>1. round'[v] = next /\ 0 <= tries[j].error
      BY <1>1, <2>1, SMT DEF IInv, TypeOK
    <3> QED BY <2>1, <3>1, OutboxAssumption, SMT DEF IInv, RoundsOK
  <2>2. CASE v # w
    <3>1. round'[v] = round[v]
      BY <1>1, <2>2
    <3> QED BY <3>1, SMT DEF IInv, RoundsOK, Current
  <2> QED BY <2>1, <2>2
<1> QED BY <1>2, <1>3, SMT DEF IInv, OneTicketPerKey, RowsOK, DeliveredIsHandled

LEMMA MarkLostKeeps ==
    ASSUME IInv, NEW w \in Workers, NEW i \in Ids, MarkLost(w, i)
    PROVE  IInv'
<1> DEFINE next == Advanced(round[w], i)
           lost == [tries[i] EXCEPT !.lost = @ + 1]
<1>1. /\ round[w] \in Round /\ tries \in [Ids -> Tries] /\ tries[i] \in Tries
      /\ UNCHANGED <<ticket, outbox, request, handled>>
  BY DEF IInv, TypeOK, Round, Tries, MarkLost, tables
<1>2. /\ next \in Round /\ next.result = "none" /\ next.todo \subseteq round[w].todo
      /\ next.attempts = round[w].attempts
  BY <1>1, SMT DEF Round, Advanced
<1>3. round' = [round EXCEPT ![w] = next]
  BY DEF MarkLost, Proceed
<1>4. lost \in Tries /\ lost.error = tries[i].error
  BY <1>1, SMT DEF Tries
<1>5. tries' = [tries EXCEPT ![i] = lost]
  BY <1>1, Zenon DEF MarkLost
<1> HIDE DEF next, lost
<1>6. tries' \in [Ids -> Tries] /\ \A j \in Ids : tries'[j].error = tries[j].error
  BY <1>1, <1>4, <1>5, SMT
<1>7. losses' \in Nat
  BY SMT DEF MarkLost, IInv, TypeOK
<1> QED BY <1>1, <1>2, <1>3, <1>6, <1>7, LosingKeeps

LEMMA CrashKeeps ==
    ASSUME IInv, NEW w \in Workers, Crash(w)
    PROVE  IInv'
<1>1. /\ tries \in [Ids -> Tries] /\ UNCHANGED <<ticket, outbox, request, handled>>
      /\ round' = [round EXCEPT ![w] = NoRound]
  BY DEF IInv, TypeOK, Tries, Crash, tables
<1>2. /\ NoRound \in Round /\ NoRound.result = "none" /\ NoRound.todo = {}
      /\ \A j \in Ids : NoRound.attempts[j] = 0
  BY OutboxAssumption, SMT DEF NoRound, Round
<1>3. \A j \in Ids : LET lost == [tries[j] EXCEPT !.lost = @ + 1]
                     IN  lost \in Tries /\ lost.error = tries[j].error
  BY <1>1, SMT DEF Tries
<1>4. tries' = [j \in Ids |-> IF Current(w, j) /\ round[w].result # "none"
                              THEN [tries[j] EXCEPT !.lost = @ + 1] ELSE tries[j]]
  BY DEF Crash
<1>5. tries' \in [Ids -> Tries] /\ \A j \in Ids : tries'[j].error = tries[j].error
  BY <1>1, <1>3, <1>4, Zenon
<1>6. losses' \in Nat
  BY SMT DEF Crash, IInv, TypeOK
<1> QED BY <1>1, <1>2, <1>5, <1>6, LosingKeeps

LEMMA BackoffKeeps ==
    ASSUME IInv, NEW i \in Ids, BackoffPasses(i)
    PROVE  IInv'
<1> DEFINE row == [status |-> "failed", attempts |-> outbox[i].attempts, due |-> TRUE]
<1>1. /\ outbox[i] \in Row /\ outbox \in [Ids -> Row] /\ outbox[i].status = "failed"
      /\ outbox' = [outbox EXCEPT ![i] = row]
  BY DEF BackoffPasses, IInv, TypeOK, Row, Status
<1>2. row \in Row /\ row.status = outbox[i].status /\ row.attempts = outbox[i].attempts
  BY <1>1, SMT DEF Row, Status
<1> HIDE DEF row
<1>3. /\ outbox' \in [Ids -> Row]
      /\ \A j \in Ids : outbox'[j].status = outbox[j].status /\ outbox'[j].attempts = outbox[j].attempts
  BY <1>1, <1>2, SMT
<1>4. UNCHANGED <<ticket, request, round, handled, tries, losses>>
  BY DEF BackoffPasses
<1>5. TypeOK'
  BY <1>3, <1>4 DEF IInv, TypeOK, Row, Status
<1>6. RowsOK' /\ DeliveredIsHandled'
  BY <1>3, <1>4, SMT DEF IInv, RowsOK, DeliveredIsHandled
<1>7. RoundsOK'
  BY <1>3, <1>4, SMT DEF IInv, RoundsOK, Current
<1> QED BY <1>4, <1>5, <1>6, <1>7, SMT DEF IInv, OneTicketPerKey

----------------------------------------------------------------------------
(* The invariant, and what follows from it *)

LEMMA InitEstablishes == Init => IInv
<1> SUFFICES ASSUME Init PROVE IInv
  OBVIOUS
<1>1. TypeOK
  BY OutboxAssumption, SMT DEF Init, TypeOK, NoRow, NoRound
<1>2. OneTicketPerKey /\ DeliveredIsHandled
  BY SMT DEF Init, OneTicketPerKey, DeliveredIsHandled, NoRow
<1>3. RowsOK
  BY SMT DEF Init, RowsOK, NoRow
<1>4. RoundsOK
  BY SMT DEF Init, RoundsOK, NoRound
<1> QED BY <1>1, <1>2, <1>3, <1>4 DEF IInv

LEMMA NextKeeps == IInv /\ [Next]_vars => IInv'
<1> SUFFICES ASSUME IInv, [Next]_vars PROVE IInv'
  OBVIOUS
<1>1. ASSUME NEW r \in Requests, Create(r) PROVE IInv'
  BY <1>1, CreateKeeps
<1>2. ASSUME NEW w \in Workers, ClaimDue(w) \/ Crash(w) PROVE IInv'
  BY <1>2, ClaimKeeps, CrashKeeps
<1>3. ASSUME NEW w \in Workers, NEW i \in Ids, Dispatch(w, i) \/ Mark(w, i) PROVE IInv'
  BY <1>3, DispatchKeeps, MarkDeliveredKeeps, MarkFailedKeeps, MarkLostKeeps DEF Mark
<1>4. ASSUME NEW i \in Ids, BackoffPasses(i) PROVE IInv'
  BY <1>4, BackoffKeeps
<1>5. CASE UNCHANGED vars
  BY <1>5, SMT DEF vars, IInv, TypeOK, OneTicketPerKey, RowsOK, RoundsOK, DeliveredIsHandled, Current
<1> QED BY <1>1, <1>2, <1>3, <1>4, <1>5 DEF Next

LEMMA InvariantHolds == Spec => []IInv
BY InitEstablishes, NextKeeps, PTL DEF Spec

\* Rows, rounds and history keep their types; no row counts more than MaxAttempts.
THEOREM TypesHold == Spec => []TypeOK
<1>1. IInv => TypeOK
  BY DEF IInv
<1> QED BY <1>1, InvariantHolds, PTL

\* Requests with one key create one ticket and one event (the unique index under
\* CreateTicketModelAtomically).
THEOREM TicketsAreUnique == Spec => []OneTicketPerKey
<1>1. IInv => OneTicketPerKey
  BY DEF IInv
<1> QED BY <1>1, InvariantHolds, PTL

\* A delivered row has been to every handler, with any number of workers that
\* overwrite each other's marks.
THEOREM DeliveredRowsAreHandled == Spec => []DeliveredIsHandled
<1>1. IInv => DeliveredIsHandled
  BY DEF IInv
<1> QED BY <1>1, InvariantHolds, PTL

\* No row is given up before MaxAttempts publications of it have failed, with
\* any number of workers (MarkFailed).
THEOREM RowsAreGivenUpLate == Spec => []GivenUpLate
<1>1. IInv => GivenUpLate
  <2> SUFFICES ASSUME IInv, NEW i \in Ids, outbox[i].status = "dead"
               PROVE  tries[i].error >= MaxAttempts
    BY DEF GivenUpLate
  <2> QED BY OutboxAssumption, SMT DEF IInv, TypeOK, RowsOK
<1> QED BY <1>1, InvariantHolds, PTL

\* A settled row has earned its status, with any number of workers.
THEOREM SettledRowsAreEarned == Spec => []StatusIsEarned
<1>1. GivenUpLate /\ DeliveredIsHandled => StatusIsEarned
  BY DEF StatusIsEarned
<1> QED BY <1>1, RowsAreGivenUpLate, DeliveredRowsAreHandled, PTL

----------------------------------------------------------------------------
(* One worker implements ReliableEvents *)

OneWorker == \A v, w \in Workers : v = w

\* Nobody but the worker settles a row, so what it has read is what the row says
\* until it marks it; and nothing is handled before it has a row.
AloneOK ==
    \A i \in Ids :
       /\ ticket[i] = NoTicket => handled[i] = {} /\ outbox[i].attempts = 0
       /\ \A w \in Workers : i \in round[w].todo =>
             /\ outbox[i].status \in {"pending", "failed"}
             /\ round[w].attempts[i] = outbox[i].attempts

LEMMA AloneKeeps ==
    ASSUME OneWorker, IInv, AloneOK, [Next]_vars
    PROVE  AloneOK'
<1>1. ASSUME UNCHANGED <<ticket, outbox, round, handled>> PROVE AloneOK'
  BY <1>1, SMT DEF AloneOK
<1>2. ASSUME NEW r \in Requests, Insert(r), UNCHANGED <<round, handled>> PROVE AloneOK'
  <2>1. CASE UNCHANGED <<ticket, outbox>>
    BY <1>1, <1>2, <2>1
  <2>2. CASE InsertRows(r)
    <3>1. PICK i \in Ids : /\ ticket[i] = NoTicket
                           /\ ticket' = [ticket EXCEPT ![i] = Key[r]]
                           /\ outbox' = [outbox EXCEPT ![i] = NewRow]
      BY <2>2 DEF InsertRows
    <3>2. Key[r] # NoTicket
      BY <1>2, OutboxAssumption DEF Keys
    <3>3. \A j \in Ids : j # i => outbox'[j] = outbox[j] /\ ticket'[j] = ticket[j]
      BY <3>1, SMT DEF IInv, TypeOK
    <3>4. outbox'[i] = NewRow /\ ticket'[i] = Key[r]
      BY <3>1, SMT DEF IInv, TypeOK
    <3>5. outbox[i].status = "none"
      BY <3>1 DEF IInv, RowsOK
    <3>6. \A w \in Workers : i \notin round[w].todo
      BY <3>5 DEF IInv, RoundsOK
    <3> QED BY <1>2, <3>2, <3>3, <3>4, <3>6, SMT DEF AloneOK
  <2> QED BY <1>2, <2>1, <2>2 DEF Insert
<1>3. ASSUME NEW w \in Workers, ClaimDue(w) PROVE AloneOK'
  <2>1. /\ UNCHANGED <<ticket, outbox, handled>> /\ round \in [Workers -> Round]
        /\ round' = [round EXCEPT ![w] = [todo |-> Batch, result |-> "none",
                                          attempts |-> [i \in Ids |-> outbox[i].attempts]]]
    BY <1>3 DEF ClaimDue, tables, IInv, TypeOK, Round
  <2>2. round'[w].todo = Batch /\ \A i \in Ids : round'[w].attempts[i] = outbox[i].attempts
    BY <2>1, SMT
  <2>3. \A i \in Batch : outbox[i].status \in {"pending", "failed"}
    BY DEF Batch, Due
  <2>4. \A v \in Workers : v = w
    BY DEF OneWorker
  <2> QED BY <2>1, <2>2, <2>3, <2>4, SMT DEF AloneOK
<1>4. ASSUME NEW w \in Workers, NEW i \in Ids, Dispatch(w, i) PROVE AloneOK'
  <2>1. PICK reached \in SUBSET Handlers :
           /\ handled' = [handled EXCEPT ![i] = @ \cup reached]
           /\ round' = [round EXCEPT ![w].result = Outcome(reached)]
    BY <1>4 DEF Dispatch
  <2>2. \A v \in Workers : round'[v].todo = round[v].todo /\ round'[v].attempts = round[v].attempts
    BY <2>1, SMT DEF IInv, TypeOK, Round
  <2>3. UNCHANGED <<ticket, outbox>> /\ i \in round[w].todo
    BY <1>4 DEF Dispatch, tables, Current
  <2>4. \A j \in Ids : j # i => handled'[j] = handled[j]
    BY <2>1, SMT DEF IInv, TypeOK
  <2>5. ticket[i] # NoTicket
    BY <2>3 DEF IInv, RowsOK, RoundsOK
  <2> QED BY <2>2, <2>3, <2>4, <2>5, SMT DEF AloneOK
<1>5. ASSUME NEW w \in Workers, NEW i \in Ids, NEW row,
             outbox' = [outbox EXCEPT ![i] = row], Current(w, i), Proceed(w, i),
             UNCHANGED <<ticket, handled>>
      PROVE  AloneOK'
  <2>1. round \in [Workers -> Round] /\ i \in round[w].todo
    BY <1>5 DEF IInv, TypeOK, Round, Current
  <2>2. round'[w].todo = round[w].todo \ {i} /\ round'[w].attempts = round[w].attempts
    BY <1>5, <2>1, SMT DEF Proceed, Advanced
  <2>3. \A j \in Ids : j # i => outbox'[j] = outbox[j]
    BY <1>5, SMT DEF IInv, TypeOK
  <2>4. ticket[i] # NoTicket
    BY <2>1 DEF IInv, RowsOK, RoundsOK
  <2>5. \A v \in Workers : v = w
    BY DEF OneWorker
  <2> QED BY <1>5, <2>2, <2>3, <2>4, <2>5, SMT DEF AloneOK
<1>6. ASSUME NEW w \in Workers, NEW i \in Ids, MarkLost(w, i) PROVE AloneOK'
  <2>1. round \in [Workers -> Round] /\ UNCHANGED <<ticket, outbox, handled>>
    BY <1>6 DEF IInv, TypeOK, Round, MarkLost, tables
  <2>2. round'[w].todo = round[w].todo \ {i} /\ round'[w].attempts = round[w].attempts
    BY <1>6, <2>1, SMT DEF MarkLost, Proceed, Advanced
  <2>3. \A v \in Workers : v = w
    BY DEF OneWorker
  <2> QED BY <2>1, <2>2, <2>3, SMT DEF AloneOK
<1>7. ASSUME NEW w \in Workers, Crash(w) PROVE AloneOK'
  <2>1. round'[w].todo = {} /\ UNCHANGED <<ticket, outbox, handled>>
    BY <1>7, SMT DEF Crash, NoRound, IInv, TypeOK, tables
  <2>2. \A v \in Workers : v = w
    BY DEF OneWorker
  <2> QED BY <2>1, <2>2, SMT DEF AloneOK
<1>8. ASSUME NEW i \in Ids, BackoffPasses(i) PROVE AloneOK'
  <2>1. /\ outbox'[i].status = "failed" /\ outbox'[i].attempts = outbox[i].attempts
        /\ outbox[i].status = "failed" /\ \A j \in Ids : j # i => outbox'[j] = outbox[j]
    BY <1>8, SMT DEF BackoffPasses, IInv, TypeOK
  <2>2. UNCHANGED <<ticket, round, handled>>
    BY <1>8 DEF BackoffPasses
  <2> QED BY <2>1, <2>2, SMT DEF AloneOK
<1>9. ASSUME NEW r \in Requests, Create(r) PROVE AloneOK'
  BY <1>1, <1>2, <1>9 DEF Create, CreateTicket, CreateInsert, CreateFails, Retry
<1>10. ASSUME NEW w \in Workers, NEW i \in Ids, Mark(w, i) PROVE AloneOK'
  BY <1>5, <1>6, <1>10 DEF Mark, MarkDelivered, MarkFailed
<1>11. CASE UNCHANGED vars
  BY <1>1, <1>11 DEF vars
<1> QED BY <1>3, <1>4, <1>7, <1>8, <1>9, <1>10, <1>11 DEF Next

\* The refinement mapping, seen from the row of an event.
LEMMA AtRow ==
    ASSUME IInv, NEW i \in Ids, ticket[i] # NoTicket
    PROVE  /\ ticket[i] \in Keys /\ ticket[i] \in Emitted
           /\ Seen[ticket[i]] = handled[i]
           /\ ticket[i] \in Settled <=> outbox[i].status = "delivered"
           /\ ticket[i] \in Abandoned <=> outbox[i].status = "dead"
<1>1. ticket[i] \in Keys /\ handled[i] \subseteq Handlers
  BY DEF IInv, TypeOK
<1>2. \A j \in Ids : ticket[j] = ticket[i] => j = i
  BY DEF IInv, OneTicketPerKey
<1>3. ticket[i] \in Emitted
  BY <1>1 DEF Emitted, Known
<1>4. Seen[ticket[i]] = {h \in Handlers : \E j \in Ids : ticket[j] = ticket[i] /\ h \in handled[j]}
  BY <1>1 DEF Seen
<1>5. Seen[ticket[i]] = handled[i]
  BY <1>1, <1>2, <1>4, Zenon
<1>6. ticket[i] \in Settled <=> outbox[i].status = "delivered"
  BY <1>1, <1>2 DEF Settled, RowsOf
<1>7. ticket[i] \in Abandoned <=> outbox[i].status = "dead"
  BY <1>1, <1>2 DEF Abandoned, RowsOf
<1> QED BY <1>1, <1>3, <1>5, <1>6, <1>7

PromiseVars == <<Emitted, Seen, Settled, Abandoned>>
PromiseStep == [Promise!Next]_PromiseVars

LEMMA SameRows ==
    ASSUME UNCHANGED <<ticket, handled>>,
           \A i \in Ids : outbox'[i].status = outbox[i].status
    PROVE  PromiseStep
BY Zenon DEF PromiseStep, PromiseVars, Emitted, Seen, Settled, Abandoned, RowsOf, Known

LEMMA InsertEmits ==
    ASSUME IInv, AloneOK, NEW r \in Requests, ~Known(Key[r]), InsertRows(r), UNCHANGED handled
    PROVE  PromiseStep
<1>1. PICK i \in Ids : /\ ticket[i] = NoTicket
                       /\ ticket' = [ticket EXCEPT ![i] = Key[r]]
                       /\ outbox' = [outbox EXCEPT ![i] = NewRow]
  BY DEF InsertRows
<1>2. \A j \in Ids : ticket'[j] = IF j = i THEN Key[r] ELSE ticket[j]
  BY <1>1, SMT DEF IInv, TypeOK
<1>3. \A j \in Ids : outbox'[j] = IF j = i THEN NewRow ELSE outbox[j]
  BY <1>1, SMT DEF IInv, TypeOK
<1>4. /\ Key[r] \in Keys /\ Key[r] \notin Emitted /\ handled[i] = {}
      /\ outbox[i].status = "none" /\ NewRow.status = "pending" /\ NoTicket \notin Keys
  BY <1>1, OutboxAssumption DEF Keys, Emitted, AloneOK, IInv, RowsOK, NewRow
<1>5. \A j \in Ids : ticket[j] # Key[r]
  BY DEF Known
<1>6. Emitted' = Emitted \cup {Key[r]}
  BY <1>1, <1>2, <1>4, Zenon DEF Emitted, Known
<1>7. Seen' = Seen
  <2>1. ASSUME NEW key \in Keys, NEW h \in Handlers
        PROVE  (\E j \in Ids : ticket'[j] = key /\ h \in handled[j])
                 <=> (\E j \in Ids : ticket[j] = key /\ h \in handled[j])
    BY <1>1, <1>2, <1>4, Zenon
  <2> QED BY <2>1, Zenon DEF Seen
<1>8. Settled' = Settled /\ Abandoned' = Abandoned
  <2>1. ASSUME NEW key \in Keys, NEW j \in Ids, NEW s \in {"delivered", "dead"}
        PROVE  (ticket'[j] = key /\ outbox'[j].status = s) <=> (ticket[j] = key /\ outbox[j].status = s)
    BY <1>1, <1>2, <1>3, <1>4, SMT
  <2> QED BY <2>1, Zenon DEF Settled, Abandoned, RowsOf
<1>9. Promise!Emit(Key[r])
  BY <1>4, <1>6, <1>7, <1>8 DEF Promise!Emit
<1> QED BY <1>4, <1>9 DEF PromiseStep, Promise!Next

\* The event of a row that the worker is at is open.
LEMMA CurrentIsOpen ==
    ASSUME IInv, AloneOK, NEW w \in Workers, NEW i \in Ids, Current(w, i)
    PROVE  /\ ticket[i] # NoTicket /\ ticket[i] \in Keys /\ ticket[i] \in Promise!Open
           /\ Seen[ticket[i]] = handled[i]
<1>1. i \in round[w].todo /\ outbox[i].status \in {"pending", "failed"}
  BY DEF Current, AloneOK
<1>2. ticket[i] # NoTicket
  BY <1>1 DEF IInv, RowsOK
<1> QED BY <1>1, <1>2, AtRow DEF Promise!Open

LEMMA DispatchDelivers ==
    ASSUME IInv, AloneOK, NEW w \in Workers, NEW i \in Ids, Dispatch(w, i)
    PROVE  PromiseStep
<1>1. PICK reached \in SUBSET Handlers : handled' = [handled EXCEPT ![i] = @ \cup reached]
  BY DEF Dispatch
<1>2. /\ UNCHANGED <<ticket, outbox>>
      /\ ticket[i] # NoTicket /\ ticket[i] \in Keys /\ ticket[i] \in Promise!Open
      /\ Seen[ticket[i]] = handled[i]
  BY CurrentIsOpen DEF Dispatch, tables
<1>3. \A j \in Ids : handled'[j] = IF j = i THEN handled[i] \cup reached ELSE handled[j]
  BY <1>1, SMT DEF IInv, TypeOK
<1>4. Emitted' = Emitted /\ Settled' = Settled /\ Abandoned' = Abandoned
  BY <1>2, Zenon DEF Emitted, Settled, Abandoned, Known, RowsOf
<1>5. Seen' = [Seen EXCEPT ![ticket[i]] = @ \cup reached]
  <2>1. ASSUME NEW key \in Keys PROVE Seen'[key] = [Seen EXCEPT ![ticket[i]] = @ \cup reached][key]
    <3>1. Seen'[key] = {h \in Handlers : \E j \in Ids : ticket[j] = key /\ h \in handled'[j]}
      BY <1>2, Zenon DEF Seen
    <3>2. Seen[key] = {h \in Handlers : \E j \in Ids : ticket[j] = key /\ h \in handled[j]}
      BY Zenon DEF Seen
    <3>3. \A j \in Ids : ticket[j] = ticket[i] => j = i
      BY <1>2 DEF IInv, OneTicketPerKey
    <3>4. CASE key = ticket[i]
      <4>1. Seen'[key] = handled'[i]
        <5>1. handled'[i] \subseteq Handlers
          BY <1>3, SMT DEF IInv, TypeOK
        <5> QED BY <3>1, <3>3, <3>4, <5>1, Zenon
      <4>2. Seen'[key] = Seen[key] \cup reached
        BY <1>2, <1>3, <3>4, <4>1
      <4> QED BY <3>4, <4>2, Zenon DEF Seen
    <3>5. CASE key # ticket[i]
      <4>1. Seen'[key] = Seen[key]
        BY <1>3, <3>1, <3>2, <3>5, Zenon
      <4> QED BY <3>5, <4>1, Zenon DEF Seen
    <3> QED BY <3>4, <3>5
  <2>2. Seen' = [key \in Keys |-> Seen'[key]] /\ Seen = [key \in Keys |-> Seen[key]]
    BY Zenon DEF Seen
  <2> HIDE DEF Seen
  <2> QED BY <2>1, <2>2, Zenon
<1>6. Promise!Deliver(ticket[i])
  BY <1>2, <1>4, <1>5 DEF Promise!Deliver
<1> QED BY <1>2, <1>6 DEF PromiseStep, Promise!Next

\* A mark of an open event settles it, gives it up or leaves it open.
LEMMA MarkSettles ==
    ASSUME IInv, AloneOK, NEW w \in Workers, NEW i \in Ids, Current(w, i), NEW row \in Row,
           row.status \in {"delivered", "dead", "failed"},
           row.status = "delivered" => handled[i] = Handlers,
           outbox' = [outbox EXCEPT ![i] = row], UNCHANGED <<ticket, handled>>
    PROVE  PromiseStep
<1>1. /\ ticket[i] # NoTicket /\ ticket[i] \in Keys /\ ticket[i] \in Promise!Open
      /\ Seen[ticket[i]] = handled[i]
  BY CurrentIsOpen
<1>2. \A j \in Ids : outbox'[j] = IF j = i THEN row ELSE outbox[j]
  BY SMT DEF IInv, TypeOK
<1>3. Emitted' = Emitted /\ Seen' = Seen
  BY Zenon DEF Emitted, Seen, Known
<1>4. outbox[i].status \notin {"delivered", "dead"}
  BY DEF Current, AloneOK
<1>5. ASSUME NEW key \in Keys, NEW s \in {"delivered", "dead"}
      PROVE  RowsOf(key, s)' <=> RowsOf(key, s) \/ (key = ticket[i] /\ row.status = s)
  <2>1. ASSUME NEW j \in Ids
        PROVE  (ticket[j] = key /\ outbox'[j].status = s) <=>
                  \/ ticket[j] = key /\ outbox[j].status = s
                  \/ j = i /\ key = ticket[i] /\ row.status = s
    <3>1. CASE j = i
      BY <1>2, <1>4, <3>1
    <3>2. CASE j # i
      BY <1>2, <3>2
    <3> QED BY <3>1, <3>2
  <2> QED BY <2>1, Zenon DEF RowsOf
<1>6. /\ Settled' = IF row.status = "delivered" THEN Settled \cup {ticket[i]} ELSE Settled
      /\ Abandoned' = IF row.status = "dead" THEN Abandoned \cup {ticket[i]} ELSE Abandoned
  <2>1. /\ Settled' = {key \in Keys : RowsOf(key, "delivered") \/ (key = ticket[i] /\ row.status = "delivered")}
        /\ Abandoned' = {key \in Keys : RowsOf(key, "dead") \/ (key = ticket[i] /\ row.status = "dead")}
    BY <1>5, Zenon DEF Settled, Abandoned
  <2> QED BY <1>1, <2>1, SMT DEF Settled, Abandoned
<1>7. CASE row.status = "delivered"
  <2>1. Promise!Settle(ticket[i])
    BY <1>1, <1>3, <1>6, <1>7 DEF Promise!Settle
  <2> QED BY <1>1, <2>1 DEF PromiseStep, Promise!Next
<1>8. CASE row.status = "dead"
  <2>1. Promise!Abandon(ticket[i])
    BY <1>1, <1>3, <1>6, <1>8 DEF Promise!Abandon
  <2> QED BY <1>1, <2>1 DEF PromiseStep, Promise!Next
<1>9. CASE row.status = "failed"
  BY <1>3, <1>6, <1>9 DEF PromiseStep, PromiseVars
<1> QED BY <1>7, <1>8, <1>9

LEMMA StepsImplement ==
    ASSUME OneWorker, IInv, AloneOK, [Next]_vars
    PROVE  PromiseStep
<1>1. ASSUME UNCHANGED <<ticket, outbox, handled>> PROVE PromiseStep
  BY <1>1, SameRows
<1>2. ASSUME NEW r \in Requests, Create(r) PROVE PromiseStep
  BY <1>1, <1>2, InsertEmits DEF Create, CreateTicket, CreateInsert, CreateFails, Retry, Insert
<1>3. ASSUME NEW w \in Workers, ClaimDue(w) \/ Crash(w) PROVE PromiseStep
  BY <1>1, <1>3 DEF ClaimDue, Crash, tables
<1>4. ASSUME NEW w \in Workers, NEW i \in Ids, Mark(w, i) PROVE PromiseStep
  <2>1. CASE MarkDelivered(w, i)
    <3> DEFINE row == [outbox[i] EXCEPT !.status = "delivered"]
    <3>1. outbox[i] \in Row
      BY DEF IInv, TypeOK, Row, Status
    <3>2. row \in Row /\ row.status = "delivered"
      BY <3>1, SMT DEF Row, Status
    <3>3. outbox' = [outbox EXCEPT ![i] = row]
      BY <2>1, Zenon DEF MarkDelivered
    <3>4. handled[i] = Handlers
      BY <2>1 DEF MarkDelivered, IInv, RoundsOK
    <3>5. Current(w, i) /\ UNCHANGED <<ticket, handled>>
      BY <2>1 DEF MarkDelivered
    <3> HIDE DEF row
    <3> QED BY <3>2, <3>3, <3>4, <3>5, MarkSettles
  <2>2. CASE MarkFailed(w, i)
    <3> DEFINE row == Failed(round[w].attempts[i])
    <3>0. round[w].attempts[i] \in 0 .. MaxAttempts /\ round[w].attempts[i] < MaxAttempts
      BY <2>2, SMT DEF MarkFailed, Current, IInv, TypeOK, RoundsOK
    <3>1. row \in Row /\ row.status \in {"failed", "dead"}
      BY <3>0, OutboxAssumption, SMT DEF Failed, Row, Status
    <3>2. outbox' = [outbox EXCEPT ![i] = row]
      BY <2>2 DEF MarkFailed
    <3>3. Current(w, i) /\ UNCHANGED <<ticket, handled>>
      BY <2>2 DEF MarkFailed
    <3> HIDE DEF row
    <3> QED BY <3>1, <3>2, <3>3, MarkSettles
  <2>3. CASE MarkLost(w, i)
    BY <1>1, <2>3 DEF MarkLost, tables
  <2> QED BY <1>4, <2>1, <2>2, <2>3 DEF Mark
<1>5. ASSUME NEW i \in Ids, BackoffPasses(i) PROVE PromiseStep
  <2>1. UNCHANGED <<ticket, handled>> /\ \A j \in Ids : outbox'[j].status = outbox[j].status
    BY <1>5, SMT DEF BackoffPasses, IInv, TypeOK
  <2> QED BY <2>1, SameRows
<1>6. CASE UNCHANGED vars
  BY <1>1, <1>6 DEF vars
<1> QED BY <1>1, <1>2, <1>3, <1>4, <1>5, <1>6, DispatchDelivers DEF Next

LEMMA InitImplements == Init => Promise!Init /\ AloneOK
<1> SUFFICES ASSUME Init PROVE Promise!Init /\ AloneOK
  OBVIOUS
<1>1. \A i \in Ids : ticket[i] = NoTicket /\ handled[i] = {} /\ outbox[i] = NoRow
  BY DEF Init
<1>2. NoTicket \notin Keys /\ NoRow.status = "none" /\ NoRow.attempts = 0
  BY OutboxAssumption DEF NoRow
<1>3. Emitted = {} /\ Settled = {} /\ Abandoned = {}
  BY <1>1, <1>2, Zenon DEF Emitted, Settled, Abandoned, Known, RowsOf
<1>4. Seen = [key \in Keys |-> {}]
  BY <1>1, Zenon DEF Seen
<1>5. AloneOK
  BY <1>1, <1>2, SMT DEF AloneOK, Init, NoRound
<1> QED BY <1>3, <1>4, <1>5 DEF Promise!Init

\* With one ticket-outbox worker the outbox brings every event to every handler,
\* once or more often, or gives it up: ProcessDueEvents implements ReliableEvents.
THEOREM OneWorkerIsReliable ==
    ASSUME OneWorker
    PROVE  Spec => EventsAreReliable
<1>1. IInv /\ AloneOK /\ [Next]_vars =>
         AloneOK' /\ [Promise!Next]_<<Emitted, Seen, Settled, Abandoned>>
  BY AloneKeeps, StepsImplement DEF PromiseStep, PromiseVars
<1>2. Init => Promise!Init /\ AloneOK
  BY InitImplements
<1> QED BY <1>1, <1>2, InvariantHolds, PTL
        DEF Spec, EventsAreReliable, Promise!Spec, Promise!vars

----------------------------------------------------------------------------
(* One worker accounts for every publication *)

Published(i) == tries[i].ok + tries[i].error
Booked(i) == outbox[i].attempts + (IF outbox[i].status = "delivered" THEN 1 ELSE 0) + tries[i].lost
Unmarked(i) == \E w \in Workers : Current(w, i) /\ round[w].result # "none"
AccountOK ==
    \A i \in Ids : /\ Unmarked(i) => Published(i) = Booked(i) + 1
                   /\ ~Unmarked(i) => Published(i) = Booked(i)

LEMMA CountsAreNumbers ==
    ASSUME TypeOK, NEW i \in Ids
    PROVE  /\ outbox[i].attempts \in Int /\ tries[i] \in [ok : Nat, error : Nat, lost : Nat]
           /\ Published(i) \in Int /\ Booked(i) \in Int
<1>1. outbox[i].attempts \in Int /\ tries[i] \in [ok : Nat, error : Nat, lost : Nat]
  BY OutboxAssumption, SMT DEF TypeOK
<1>2. /\ tries[i].ok \in Int /\ tries[i].error \in Int /\ tries[i].lost \in Int
      /\ (IF outbox[i].status = "delivered" THEN 1 ELSE 0) \in Int
  BY <1>1, SMT
<1> QED BY <1>1, <1>2, SMT DEF Published, Booked

LEMMA AccountIsTries ==
    ASSUME OneWorker, TypeOK, AccountOK PROVE TriesAccounted
<1> SUFFICES ASSUME NEW i \in Ids
             PROVE  Published(i) = Booked(i) + Cardinality(InFlight(i))
  BY DEF TriesAccounted, Published, Booked
<1>1. CASE Unmarked(i)
  <2>1. PICK w \in Workers : Current(w, i) /\ round[w].result # "none"
    BY <1>1 DEF Unmarked
  <2>2. InFlight(i) = {w}
    BY <2>1 DEF InFlight, OneWorker
  <2> QED BY <1>1, <2>2, FS_Singleton DEF AccountOK
<1>2. CASE ~Unmarked(i)
  <2>1. InFlight(i) = {}
    BY <1>2 DEF Unmarked, InFlight
  <2>2. Cardinality(InFlight(i)) = 0
    BY <2>1, FS_EmptySet
  <2>3. Published(i) = Booked(i)
    BY <1>2 DEF AccountOK
  <2> QED BY <2>2, <2>3, CountsAreNumbers, SMT
<1> QED BY <1>1, <1>2

\* What the worker's round says is what is unmarked.
LEMMA UnmarkedIs ==
    ASSUME OneWorker, NEW w \in Workers, NEW i \in Ids
    PROVE  Unmarked(i) <=> Current(w, i) /\ round[w].result # "none"
BY DEF Unmarked, OneWorker

\* A step of the worker that publishes nothing, leaves nothing unmarked, and
\* books each row what it had unmarked.
LEMMA MarkAccounts ==
    ASSUME OneWorker, AccountOK, NEW w \in Workers, round'[w].result = "none",
           \A i \in Ids : /\ Published(i)' = Published(i)
                          /\ Unmarked(i) => Booked(i)' = Booked(i) + 1
                          /\ ~Unmarked(i) => Booked(i)' = Booked(i)
    PROVE  AccountOK'
<1>1. \A i \in Ids : ~Unmarked(i)'
  BY DEF Unmarked, OneWorker
<1>2. \A i \in Ids : Published(i)' = Booked(i)'
  BY Zenon DEF AccountOK
<1> QED BY <1>1, <1>2, Zenon DEF AccountOK

LEMMA AccountKeeps ==
    ASSUME OneWorker, IInv, IInv', AloneOK, AccountOK, [Next]_vars
    PROVE  AccountOK'
<1>1. ASSUME UNCHANGED <<round, tries>>,
             \A i \in Ids : /\ outbox'[i].attempts = outbox[i].attempts
                            /\ outbox'[i].status = "delivered" <=> outbox[i].status = "delivered"
      PROVE  AccountOK'
  <2>1. ASSUME NEW i \in Ids PROVE Unmarked(i)' <=> Unmarked(i)
    BY <1>1 DEF Unmarked, Current
  <2>2. ASSUME NEW i \in Ids PROVE Published(i)' = Published(i) /\ Booked(i)' = Booked(i)
    BY <1>1 DEF Published, Booked
  <2> QED BY <2>1, <2>2, Zenon DEF AccountOK
<1>2. ASSUME NEW r \in Requests, Insert(r), UNCHANGED <<round, tries>> PROVE AccountOK'
  <2>1. CASE InsertRows(r)
    <3>1. PICK i \in Ids : ticket[i] = NoTicket /\ outbox' = [outbox EXCEPT ![i] = NewRow]
      BY <2>1 DEF InsertRows
    <3>2. \A j \in Ids : outbox'[j] = IF j = i THEN NewRow ELSE outbox[j]
      BY <3>1, SMT DEF IInv, TypeOK
    <3>3. outbox[i].attempts = 0 /\ outbox[i].status = "none"
      BY <3>1 DEF AloneOK, IInv, RowsOK
    <3> QED BY <1>1, <1>2, <3>2, <3>3 DEF NewRow
  <2> QED BY <1>1, <1>2, <2>1 DEF Insert
<1>3. ASSUME NEW r \in Requests, Create(r) PROVE AccountOK'
  BY <1>1, <1>2, <1>3 DEF Create, CreateTicket, CreateInsert, CreateFails, Retry
<1>4. ASSUME NEW w \in Workers, ClaimDue(w) PROVE AccountOK'
  <2>1. /\ UNCHANGED <<outbox, tries>> /\ round'[w].result = "none" /\ round[w].todo = {}
    BY <1>4, SMT DEF ClaimDue, tables, IInv, TypeOK
  <2>2. \A i \in Ids : ~Unmarked(i)
    BY <2>1, UnmarkedIs DEF Current
  <2>3. \A i \in Ids : Published(i)' = Published(i) /\ Booked(i)' = Booked(i)
    BY <2>1 DEF Published, Booked
  <2> QED BY <2>1, <2>2, <2>3, MarkAccounts, Zenon
<1>5. ASSUME NEW w \in Workers, NEW i \in Ids, Dispatch(w, i) PROVE AccountOK'
  <2>1. PICK reached \in SUBSET Handlers :
           /\ round' = [round EXCEPT ![w].result = Outcome(reached)]
           /\ tries' = [tries EXCEPT ![i] = Counted(@, Outcome(reached))]
    BY <1>5 DEF Dispatch
  <2> DEFINE result == Outcome(reached)
  <2>2. result \in {"ok", "error"}
    BY DEF Outcome
  <2>3. UNCHANGED outbox /\ Current(w, i) /\ round[w].result = "none"
    BY <1>5 DEF Dispatch, tables
  <2>4. round'[w].result = result /\ round'[w].todo = round[w].todo
    BY <2>1, SMT DEF IInv, TypeOK
  <2>5. ASSUME NEW j \in Ids PROVE (Unmarked(j)' <=> j = i) /\ ~Unmarked(j)
    <3>1. Current(w, j)' <=> Current(w, j)
      BY <2>4 DEF Current
    <3>2. Current(w, j) => j = i
      BY <2>3, CurrentIsUnique
    <3>3. Unmarked(j)' <=> Current(w, j)' /\ round'[w].result # "none"
      BY DEF Unmarked, OneWorker
    <3> QED BY <2>2, <2>3, <2>4, <3>1, <3>2, <3>3, UnmarkedIs
  <2>6. /\ \A j \in Ids : j # i => tries'[j] = tries[j]
        /\ tries'[i] = Counted(tries[i], result)
    BY <2>1, SMT DEF IInv, TypeOK
  <2> HIDE DEF result
  <2>7. tries'[i].lost = tries[i].lost /\ Published(i)' = Published(i) + 1
    <3>1. tries[i] \in [ok : Nat, error : Nat, lost : Nat]
      BY CountsAreNumbers DEF IInv
    <3>2. CASE result = "ok"
      <4>1. tries'[i] = [tries[i] EXCEPT !.ok = @ + 1]
        BY <2>6, <3>2 DEF Counted
      <4> QED BY <3>1, <4>1, SMT DEF Published
    <3>3. CASE result = "error"
      <4>1. tries'[i] = [tries[i] EXCEPT !.error = @ + 1]
        BY <2>2, <2>6, <3>3 DEF Counted
      <4> QED BY <3>1, <4>1, SMT DEF Published
    <3> QED BY <2>2, <3>2, <3>3
  <2>8. ASSUME NEW j \in Ids
        PROVE  /\ j = i => Published(j)' = Booked(j)' + 1
               /\ j # i => Published(j)' = Booked(j)'
    <3>1. Booked(j)' = Booked(j)
      BY <2>3, <2>6, <2>7 DEF Booked
    <3>2. j # i => Published(j)' = Published(j)
      BY <2>6 DEF Published
    <3>3. Published(j) = Booked(j)
      BY <2>5 DEF AccountOK
    <3> QED BY <2>7, <3>1, <3>2, <3>3
  <2> QED BY <2>5, <2>8, Zenon DEF AccountOK
<1>6. ASSUME NEW w \in Workers, NEW i \in Ids, MarkDelivered(w, i) \/ MarkFailed(w, i)
      PROVE  AccountOK'
  <2>1. Current(w, i) /\ i \in round[w].todo /\ round[w].result # "none" /\ UNCHANGED tries
    BY <1>6 DEF MarkDelivered, MarkFailed, Current
  <2>2. round'[w].result = "none"
    BY <1>6, SMT DEF MarkDelivered, MarkFailed, Proceed, Advanced, IInv, TypeOK
  <2>3. \A j \in Ids : Unmarked(j) <=> j = i
    BY <2>1, UnmarkedIs, CurrentIsUnique
  <2>4. \A j \in Ids : j # i => outbox'[j] = outbox[j]
    BY <1>6, SMT DEF MarkDelivered, MarkFailed, IInv, TypeOK
  <2>5. /\ outbox[i].status \in {"pending", "failed"}
        /\ outbox[i].attempts \in Int /\ tries[i].lost \in Int
        /\ round[w].attempts[i] = outbox[i].attempts
    BY <2>1, CountsAreNumbers, SMT DEF AloneOK, IInv
  <2>6. Booked(i)' = Booked(i) + 1
    <3>1. CASE MarkDelivered(w, i)
      <4>1. outbox'[i].status = "delivered" /\ outbox'[i].attempts = outbox[i].attempts
        BY <3>1, SMT DEF MarkDelivered, IInv, TypeOK
      <4> QED BY <2>1, <2>5, <4>1, SMT DEF Booked
    <3>2. CASE MarkFailed(w, i)
      <4>1. outbox'[i] = Failed(outbox[i].attempts)
        BY <2>5, <3>2, SMT DEF MarkFailed, IInv, TypeOK
      <4>2. outbox'[i].attempts = outbox[i].attempts + 1 /\ outbox'[i].status # "delivered"
        BY <4>1 DEF Failed
      <4> QED BY <2>1, <2>5, <4>2, SMT DEF Booked
    <3> QED BY <1>6, <3>1, <3>2
  <2>7. ASSUME NEW j \in Ids
        PROVE  Published(j)' = Published(j) /\ (j # i => Booked(j)' = Booked(j))
    BY <2>1, <2>4 DEF Published, Booked
  <2> QED BY <2>2, <2>3, <2>6, <2>7, MarkAccounts, Zenon
<1>7. ASSUME NEW w \in Workers, UNCHANGED outbox, round'[w].result = "none",
             \A j \in Ids : /\ Unmarked(j) => tries'[j] = [tries[j] EXCEPT !.lost = @ + 1]
                            /\ ~Unmarked(j) => tries'[j] = tries[j]
      PROVE  AccountOK'
  <2>1. ASSUME NEW j \in Ids
        PROVE  /\ Published(j)' = Published(j)
               /\ Unmarked(j) => Booked(j)' = Booked(j) + 1
               /\ ~Unmarked(j) => Booked(j)' = Booked(j)
    <3>1. tries[j] \in [ok : Nat, error : Nat, lost : Nat] /\ outbox[j].attempts \in Int
      BY CountsAreNumbers DEF IInv
    <3>2. CASE Unmarked(j)
      <4>0. tries'[j] = [tries[j] EXCEPT !.lost = @ + 1]
        BY <1>7, <3>2, Zenon
      <4>1. /\ tries'[j].ok = tries[j].ok /\ tries'[j].error = tries[j].error
            /\ tries'[j].lost = tries[j].lost + 1
        BY <3>1, <4>0, SMT
      <4>2. tries[j].lost \in Int
        BY <3>1
      <4> QED BY <1>7, <3>1, <3>2, <4>1, <4>2, SMT DEF Published, Booked
    <3>3. CASE ~Unmarked(j)
      BY <1>7, <3>3 DEF Published, Booked
    <3> QED BY <3>2, <3>3
  <2> QED BY <1>7, <2>1, MarkAccounts, Zenon
<1>8. ASSUME NEW w \in Workers, NEW i \in Ids, MarkLost(w, i) PROVE AccountOK'
  <2>1. Current(w, i) /\ round[w].result # "none" /\ UNCHANGED outbox
    BY <1>8 DEF MarkLost, tables
  <2>2. round'[w].result = "none"
    BY <1>8, SMT DEF MarkLost, Proceed, Advanced, IInv, TypeOK
  <2>3. ASSUME NEW j \in Ids
        PROVE  /\ Unmarked(j) => tries'[j] = [tries[j] EXCEPT !.lost = @ + 1]
               /\ ~Unmarked(j) => tries'[j] = tries[j]
    <3>1. Unmarked(j) <=> j = i
      BY <2>1, UnmarkedIs, CurrentIsUnique
    <3> QED BY <1>8, <3>1, SMT DEF MarkLost, IInv, TypeOK
  <2> QED BY <1>7, <2>1, <2>2, <2>3, Zenon
<1>9. ASSUME NEW w \in Workers, Crash(w) PROVE AccountOK'
  <2>1. round'[w].result = "none" /\ UNCHANGED outbox
    BY <1>9, SMT DEF Crash, NoRound, tables, IInv, TypeOK
  <2>2. \A j \in Ids : tries'[j] = IF Current(w, j) /\ round[w].result # "none"
                                   THEN [tries[j] EXCEPT !.lost = @ + 1] ELSE tries[j]
    BY <1>9 DEF Crash
  <2>3. ASSUME NEW j \in Ids
        PROVE  /\ Unmarked(j) => tries'[j] = [tries[j] EXCEPT !.lost = @ + 1]
               /\ ~Unmarked(j) => tries'[j] = tries[j]
    <3>1. Unmarked(j) <=> Current(w, j) /\ round[w].result # "none"
      BY UnmarkedIs
    <3> QED BY <2>2, <3>1, Zenon
  <2> QED BY <1>7, <2>1, <2>3, Zenon
<1>10. ASSUME NEW i \in Ids, BackoffPasses(i) PROVE AccountOK'
  <2>1. /\ UNCHANGED <<round, tries>>
        /\ \A j \in Ids : /\ outbox'[j].attempts = outbox[j].attempts
                          /\ outbox'[j].status = outbox[j].status
    BY <1>10, SMT DEF BackoffPasses, IInv, TypeOK
  <2> QED BY <1>1, <2>1
<1>11. CASE UNCHANGED vars
  BY <1>1, <1>11 DEF vars
<1> QED BY <1>3, <1>4, <1>5, <1>6, <1>8, <1>9, <1>10, <1>11 DEF Next, Mark

LEMMA InitAccounts == Init => AccountOK
<1> SUFFICES ASSUME Init, NEW i \in Ids
             PROVE ~Unmarked(i) /\ Published(i) = Booked(i)
  BY DEF AccountOK
<1>1. ~Unmarked(i)
  BY DEF Init, Unmarked, Current, NoRound
<1>2. /\ tries[i].ok = 0 /\ tries[i].error = 0 /\ tries[i].lost = 0
      /\ outbox[i].attempts = 0 /\ outbox[i].status = "none"
  BY SMT DEF Init, NoRow
<1> QED BY <1>1, <1>2, SMT DEF Published, Booked

\* With one worker, the publications of a row are its attempts, its delivery, its
\* lost marks and the one in flight: MaxAttempts is a budget that only marks the
\* database lost can exceed (ProcessDueEvents, MarkFailed).
THEOREM OneWorkerAccounts ==
    ASSUME OneWorker
    PROVE  Spec => []TriesAccounted
<1>1. Init => AloneOK /\ AccountOK
  BY InitImplements, InitAccounts
<1>2. IInv /\ IInv' /\ AloneOK /\ AccountOK /\ [Next]_vars => AloneOK' /\ AccountOK'
  BY AloneKeeps, AccountKeeps
<1>3. IInv /\ AccountOK => TriesAccounted
  BY AccountIsTries DEF IInv
<1> QED BY <1>1, <1>2, <1>3, InvariantHolds, PTL DEF Spec
=============================================================================
