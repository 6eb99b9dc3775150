-------------------------- MODULE ConnectorInboxProofs --------------------------
(***************************************************************************)
(* Proofs about ConnectorInbox, for any number of updates, of loops that   *)
(* overlap, of operators, failures and crashes.                            *)
(***************************************************************************)
EXTENDS ConnectorInbox, FiniteSetTheorems, TLAPS

\* Where a loop is within a batch, before its update is in the inbox and after.
Before == {"prepare", "save", "accept", "quarantine"}
After == {"ingest", "stamp", "findCursor", "createCursor", "updateCursor"}
Holding == {"save", "accept", "quarantine"}
Forwarding == {"ingest", "stamp"}

Locals == [pc : {"off", "poll", "fetch"} \cup Before \cup After,
           at : 0 .. MaxUpdates + 1, last : 0 .. MaxUpdates,
           object : Nat, attempts : 0 .. MaxAttempts - 1]

Rows == [status : {"none", "committed", "quarantined", "dismissed"},
         object : Nat, forwarded : BOOLEAN]

\* A loop within a batch is at an update of it; all updates it is past are in the
\* inbox; what it forwards it has committed, and only a loop that forwards an update
\* has ingested it; and the payload it holds is nobody's yet.
Typed(x) == x \in Locals /\ (x.pc \in Before \cup After => 1 <= x.at /\ x.at <= x.last)
Received(x, rows) ==
    /\ x.pc \in {"fetch"} \cup Before => \A u \in Updates : u < x.at => rows[u].status # "none"
    /\ x.pc \in After => \A u \in Updates : u <= x.at => rows[u].status # "none"
Chosen(x, rows, n) ==
    /\ x.pc \in Forwarding => rows[x.at].status = "committed"
    /\ x.pc = "ingest" => n[x.at] = 0
    /\ x.pc = "stamp" => n[x.at] = 1
Holds(x, rows, files_) ==
    x.pc \in Holding => x.object \in files_ /\ \A u \in Updates : rows[u].object # x.object
Fits(x, rows, n, files_) ==
    Typed(x) /\ Received(x, rows) /\ Chosen(x, rows, n) /\ Holds(x, rows, files_)

\* The payloads that are there, and those a sweep has condemned.
Known == objects \cup expired \cup torn

\* Two loops never forward one update at a time, nor hold one payload.
Apart(x, y) ==
    /\ ~(x.pc = "ingest" /\ y.pc = "ingest" /\ x.at = y.at)
    /\ ~(x.pc \in Holding /\ y.pc \in Holding /\ x.object = y.object)

LoopsInv ==
    /\ loop = [l \in Loops |-> loop[l]]
    /\ \A l \in Loops : Fits(loop[l], inbox, live, Known)
    /\ \A l, m \in Loops : l # m => Apart(loop[l], loop[m])

\* The tables.
TypesInv ==
    /\ inbox \in [Updates -> Rows]
    /\ live \in [Updates -> Nat] /\ again \in [Updates -> Nat]
    /\ events \in 0 .. MaxEvents
RowsInv ==
    /\ \A u \in Updates : live[u] <= 1
    /\ \A u \in Updates : live[u] + again[u] > 0 => inbox[u].status = "committed"
    /\ \A u \in Updates : inbox[u].forwarded => live[u] + again[u] > 0
CursorInv ==
    /\ cursor \in 0 .. MaxUpdates + 1 /\ forgotten \in 1 .. MaxUpdates + 1
    /\ \A u \in Updates : u < cursor \/ u < forgotten => inbox[u].status # "none"

\* Each payload has one row, and a row has its payload until a sweep condemns it.
FilesInv ==
    /\ IsFiniteSet(Known) /\ Known \subseteq Nat \ {NoObject}
    /\ \A u \in Updates : inbox[u].status = "none" => inbox[u].object = NoObject
    /\ \A u \in Updates : inbox[u].status # "none" =>
         inbox[u].object # NoObject /\ inbox[u].object \in Known
    /\ \A u, v \in Updates :
         inbox[u].object = inbox[v].object /\ inbox[u].object # NoObject => u = v

OpLocals == [pc : {"idle", "cancel", "wait", "start", "ingest", "stamp"},
             taken : SUBSET Loops, update : 0 .. MaxUpdates]

\* A replay is of a committed row, and has ingested it when it stamps it.
OpsInv ==
    /\ op \in [Operators -> OpLocals]
    /\ \A o \in Operators : op[o].pc \in Forwarding =>
         op[o].update \in Updates /\ inbox[op[o].update].status = "committed"
    /\ \A o \in Operators : op[o].pc = "stamp" => again[op[o].update] > 0

\* Without an attached generation there are no attached loops.
SupervisorInv ==
    /\ cancelled \subseteq Loops /\ active \in BOOLEAN /\ attached \subseteq Loops
    /\ ~active => attached = {}
    /\ NoStrayLoop

TablesInv == TypesInv /\ RowsInv /\ CursorInv /\ FilesInv
InboxInv == TablesInv /\ LoopsInv /\ OpsInv /\ SupervisorInv

----------------------------------------------------------------------------
(* Locals of loops *)

LEMMA OffFits ==
    ASSUME NEW rows, NEW n, NEW files_ PROVE Fits(LoopOff, rows, n, files_)
<1>1. Typed(LoopOff)
  BY ConnectorAssumption, SMT DEF Typed, Locals, Before, After, LoopOff, LoopAt, NoObject
<1> QED
  BY <1>1, SMT DEF Fits, Received, Chosen, Holds, LoopOff, LoopAt, Before, After, Forwarding, Holding

LEMMA PollingFits ==
    ASSUME NEW rows, NEW n, NEW files_, NEW attempts \in 0 .. MaxAttempts - 1
    PROVE  Fits(Polling(attempts), rows, n, files_)
<1>1. Typed(Polling(attempts))
  BY ConnectorAssumption, SMT DEF Typed, Locals, Before, After, Polling, LoopAt, NoObject
<1> QED
  BY <1>1, SMT DEF Fits, Received, Chosen, Holds, Polling, LoopAt, Before, After, Forwarding, Holding

LEMMA NoneIsApart ==
    ASSUME NEW x, NEW y, x.pc \notin Holding \cup {"ingest"}
    PROVE  Apart(x, y) /\ Apart(y, x)
BY SMT DEF Apart, Holding

\* What a step must leave of the tables for a loop that does not move.
Keeps(x) ==
    /\ x.pc \in Forwarding => live'[x.at] = live[x.at]
    /\ x.pc \in Holding => x.object \in Known' /\ \A u \in Updates : inbox'[u].object # x.object
Grows ==
    \A u \in Updates : /\ inbox[u].status # "none" => inbox'[u].status # "none"
                       /\ inbox[u].status = "committed" => inbox'[u].status = "committed"

LEMMA StillFits ==
    ASSUME NEW x, Fits(x, inbox, live, Known), Keeps(x), Grows
    PROVE  Fits(x, inbox', live', Known')
<1>1. Typed(x) /\ (x.pc \in Forwarding => x.at \in Updates)
  BY ConnectorAssumption, SMT DEF Fits, Typed, Locals, Updates, Forwarding, Before, After
<1>2. Received(x, inbox')
  BY Zenon DEF Fits, Received, Grows
<1>3. Chosen(x, inbox', live')
  BY <1>1, SMT DEF Fits, Chosen, Grows, Keeps, Forwarding
<1>4. Holds(x, inbox', Known')
  BY Zenon DEF Holds, Keeps
<1> QED BY <1>1, <1>2, <1>3, <1>4 DEF Fits

\* One loop moves, and fits where it comes to; the others keep what they rely on.
LEMMA LoopMoves ==
    ASSUME LoopsInv, NEW l \in Loops, NEW x, Become(l, x),
           Fits(x, inbox', live', Known'), Grows,
           \A m \in Loops \ {l} : Keeps(loop[m]) /\ Apart(x, loop[m]) /\ Apart(loop[m], x)
    PROVE  LoopsInv'
<1>1. loop' = [m \in Loops |-> IF m = l THEN x ELSE loop[m]]
  BY DEF LoopsInv, Become
<1>2. \A m \in Loops \ {l} : loop'[m] = loop[m]
  BY <1>1
<1>3. loop'[l] = x
  BY <1>1
<1>4. loop' = [m \in Loops |-> loop'[m]]
  BY <1>1
<1>5. \A m \in Loops : Fits(loop'[m], inbox', live', Known')
  BY <1>2, <1>3, StillFits DEF LoopsInv
<1>6. \A k, m \in Loops : k # m => Apart(loop'[k], loop'[m])
  BY <1>2, <1>3 DEF LoopsInv
<1> QED BY <1>4, <1>5, <1>6 DEF LoopsInv

LEMMA LoopsStay ==
    ASSUME LoopsInv, UNCHANGED loop, Grows, \A m \in Loops : Keeps(loop[m])
    PROVE  LoopsInv'
<1>1. \A m \in Loops : Fits(loop[m], inbox', live', Known')
  BY StillFits DEF LoopsInv
<1> QED BY <1>1 DEF LoopsInv

\* A loop that takes a step has not ended, so it is one that somebody will cancel.
LEMMA NoLoopStrays ==
    ASSUME SupervisorInv, NEW l \in Loops, NEW x, loop = [m \in Loops |-> loop[m]], Become(l, x), loop[l].pc # "off",
           UNCHANGED supervisor
    PROVE  SupervisorInv'
<1>1. \A m \in Loops : loop'[m].pc # "off" => loop[m].pc # "off"
  BY DEF Become
<1> QED BY <1>1 DEF SupervisorInv, NoStrayLoop, supervisor

\* Operators who do nothing only rely on rows that are committed.
LEMMA OperatorsStay ==
    ASSUME OpsInv, UNCHANGED <<op, again>>, Grows
    PROVE  OpsInv'
BY DEF OpsInv, Grows

----------------------------------------------------------------------------
(* Payload files *)

\* A fresh name is that of no file and of no row.
LEMMA FreshIsNew ==
    ASSUME TablesInv, NEW u
    PROVE  /\ FreshObject(u) \in Nat \ {NoObject} /\ FreshObject(u) \notin Known
           /\ \A v \in Updates : inbox[v].object # FreshObject(u)
<1> DEFINE taken == {inbox[v].object : v \in Updates}
           names == Known \cup taken
           k == Cardinality(names)
<1>1. IsFiniteSet(Updates)
  BY ConnectorAssumption, FS_Interval, SMT DEF Updates
<1>2. IsFiniteSet(taken)
  <2> DEFINE f == [v \in Updates |-> inbox[v].object]
  <2>1. f \in Surjection(Updates, taken)
    BY DEF Surjection
  <2> QED BY <1>1, <2>1, FS_Surjection
<1>3. IsFiniteSet(names)
  BY <1>2, FS_Union DEF TablesInv, FilesInv
<1>4. k \in Nat
  BY <1>3, FS_CardinalityType
<1>5. IsFiniteSet(1 .. k + 1) /\ Cardinality(1 .. k + 1) = k + 1
  <2>1. k + 1 \in Int /\ 1 \in Int /\ 1 <= k + 1
    BY <1>4, SMT
  <2>2. Cardinality(1 .. k + 1) = IF 1 > k + 1 THEN 0 ELSE (k + 1) - 1 + 1
    BY <2>1, FS_Interval
  <2> QED BY <1>4, <2>1, <2>2, FS_Interval, SMT
<1>6. \E n \in 1 .. k + 1 : n \notin names
  <2> SUFFICES ASSUME 1 .. k + 1 \subseteq names PROVE FALSE
    OBVIOUS
  <2>1. Cardinality(1 .. k + 1) <= k
    BY <1>3, FS_Subset, Zenon
  <2> QED BY <1>4, <1>5, <2>1, SMT
<1>7. FreshObject(u) \in 1 .. k + 1 /\ FreshObject(u) \notin names
  BY <1>6, Zenon DEF FreshObject, Known
<1>8. FreshObject(u) \in Nat \ {NoObject}
  BY <1>4, <1>7, SMT DEF NoObject
<1> QED BY <1>7, <1>8

----------------------------------------------------------------------------
(* The steps of a loop *)

\* Steps that leave the tables alone, but perhaps for what the platform forgets.
LEMMA QuietStep ==
    ASSUME InboxInv, NEW l \in Loops, NEW x, Become(l, x), loop[l].pc # "off",
           Fits(x, inbox, live, Known), x.pc \notin Holding \cup {"ingest"},
           UNCHANGED <<inbox, files, supervisor, history>>, events' \in 0 .. MaxEvents, CursorInv'
    PROVE  InboxInv'
<1>1. /\ UNCHANGED <<inbox, objects, expired, torn, cancelled, active, attached, op, live, again>>
      /\ UNCHANGED supervisor
  BY DEF files, supervisor, history
<1>2. Grows /\ \A m \in Loops : Keeps(loop[m])
  BY <1>1 DEF InboxInv, LoopsInv, Fits, Holds, Grows, Keeps, Known
<1>3. LoopsInv'
  BY <1>1, <1>2, LoopMoves, NoneIsApart DEF InboxInv, Known
<1>4. OpsInv'
  BY <1>1, <1>2, OperatorsStay DEF InboxInv
<1>5. SupervisorInv'
  BY <1>1, NoLoopStrays DEF InboxInv, LoopsInv
<1>6. TypesInv' /\ RowsInv' /\ FilesInv'
  BY <1>1 DEF InboxInv, TablesInv, TypesInv, RowsInv, FilesInv, Known
<1> QED BY <1>3, <1>4, <1>5, <1>6 DEF InboxInv, TablesInv

LEMMA CallFailsKeeps == ASSUME InboxInv, NEW l, CallFails(l) PROVE events' \in 0 .. MaxEvents
BY ConnectorAssumption, SMT DEF InboxInv, TablesInv, TypesInv, CallFails, Counted

LEMMA CursorStays ==
    ASSUME CursorInv, UNCHANGED <<inbox, cursor, forgotten>> PROVE CursorInv'
BY DEF CursorInv

LEMMA LoopTyped == ASSUME InboxInv, NEW l \in Loops PROVE Fits(loop[l], inbox, live, Known) /\ Typed(loop[l])
BY DEF InboxInv, LoopsInv, Fits

LEMMA ReadOffsetKeeps ==
    ASSUME InboxInv, NEW l \in Loops, ReadOffset(l) PROVE InboxInv'
<1> DEFINE x == LoopAt("fetch", cursor, 0, NoObject, loop[l].attempts)
<1>1. Become(l, x) /\ loop[l].pc = "poll" /\ UNCHANGED <<inbox, platform, files, supervisor, history, events>>
  BY DEF ReadOffset
<1>2. Fits(x, inbox, live, Known)
  <2>1. Typed(x)
    BY LoopTyped, ConnectorAssumption, SMT
       DEF InboxInv, TablesInv, CursorInv, Typed, Locals, LoopAt, NoObject, Before, After
  <2>2. x.pc = "fetch" /\ x.at = cursor
    BY DEF LoopAt
  <2>3. Received(x, inbox)
    BY <2>2 DEF Received, InboxInv, TablesInv, CursorInv, After
  <2> QED BY <2>1, <2>2, <2>3 DEF Fits, Chosen, Holds, Forwarding, Holding
<1>3. x.pc \notin Holding \cup {"ingest"}
  BY DEF LoopAt, Holding
<1>4. CursorInv' /\ events' \in 0 .. MaxEvents
  BY <1>1, CursorStays DEF platform, InboxInv, TablesInv, TypesInv
<1> HIDE DEF x
<1> QED BY <1>1, <1>2, <1>3, <1>4, QuietStep

\* What the platform is told to forget is in the inbox.
LEMMA OffsetReceived ==
    ASSUME InboxInv, NEW l \in Loops, loop[l].pc = "fetch"
    PROVE  /\ Later(loop[l].at, forgotten) \in 1 .. MaxUpdates + 1
           /\ \A u \in Updates : u < Later(loop[l].at, forgotten) => inbox[u].status # "none"
<1>1. loop[l].at \in 0 .. MaxUpdates + 1 /\ forgotten \in 1 .. MaxUpdates + 1
  BY LoopTyped DEF Typed, Locals, InboxInv, TablesInv, CursorInv
<1>2. Received(loop[l], inbox)
  BY LoopTyped DEF Fits
<1>3. \A u \in Updates : u < loop[l].at \/ u < forgotten => inbox[u].status # "none"
  BY <1>2 DEF Received, InboxInv, TablesInv, CursorInv
<1> QED BY <1>1, <1>3, ConnectorAssumption, SMT DEF Later, Updates

LEMMA GetUpdatesKeeps ==
    ASSUME InboxInv, NEW l \in Loops, NEW last \in 0 .. MaxUpdates, GetUpdates(l, last) PROVE InboxInv'
<1> DEFINE first == Later(loop[l].at, forgotten)
           x == IF last < first THEN Polling(0) ELSE LoopAt("prepare", first, last, NoObject, 0)
<1>1. /\ Become(l, x) /\ loop[l].pc = "fetch" /\ forgotten' = first
      /\ UNCHANGED <<inbox, cursor, files, supervisor, history, events>>
  BY DEF GetUpdates
<1>2. first \in 1 .. MaxUpdates + 1 /\ \A u \in Updates : u < first => inbox[u].status # "none"
  BY <1>1, OffsetReceived
<1>3. CursorInv' /\ events' \in 0 .. MaxEvents
  BY <1>1, <1>2 DEF InboxInv, TablesInv, TypesInv, CursorInv
<1> HIDE DEF first
<1>4. Fits(x, inbox, live, Known) /\ x.pc \notin Holding \cup {"ingest"}
  <2>1. CASE last < first
    <3>1. 0 \in 0 .. MaxAttempts - 1
      BY ConnectorAssumption, SMT
    <3> QED BY <2>1, <3>1, PollingFits DEF Polling, LoopAt, Holding
  <2>2. CASE ~(last < first)
    <3> DEFINE y == LoopAt("prepare", first, last, NoObject, 0)
    <3>1. Typed(y)
      BY <1>2, <2>2, ConnectorAssumption, SMT DEF Typed, Locals, LoopAt, NoObject, Before, After
    <3>2. y.pc = "prepare" /\ y.at = first
      BY DEF LoopAt
    <3>3. Received(y, inbox)
      BY <1>2, <3>2 DEF Received, After
    <3>4. Fits(y, inbox, live, Known)
      BY <3>1, <3>2, <3>3 DEF Fits, Chosen, Holds, Forwarding, Holding
    <3> QED BY <2>2, <3>2, <3>4 DEF Holding
  <2> QED BY <2>1, <2>2
<1> HIDE DEF x
<1> QED BY <1>1, <1>3, <1>4, QuietStep

LEMMA GetUpdatesFailsKeeps ==
    ASSUME InboxInv, NEW l \in Loops, GetUpdatesFails(l) PROVE InboxInv'
<1> DEFINE x == IF loop[l].attempts + 1 >= MaxAttempts THEN LoopOff ELSE Polling(loop[l].attempts + 1)
<1>1. /\ Become(l, x) /\ loop[l].pc = "fetch" /\ CallFails(l)
      /\ forgotten' \in {forgotten, Later(loop[l].at, forgotten)}
      /\ UNCHANGED <<inbox, cursor, files, supervisor, history>>
  BY DEF GetUpdatesFails
<1>2. CursorInv' /\ events' \in 0 .. MaxEvents
  BY <1>1, OffsetReceived, CallFailsKeeps DEF InboxInv, TablesInv, CursorInv
<1>3. Fits(x, inbox, live, Known) /\ x.pc \notin Holding \cup {"ingest"}
  <2>1. CASE loop[l].attempts + 1 >= MaxAttempts
    BY <2>1, OffFits DEF LoopOff, LoopAt, Holding
  <2>2. CASE ~(loop[l].attempts + 1 >= MaxAttempts)
    <3>1. loop[l].attempts + 1 \in 0 .. MaxAttempts - 1
      BY <2>2, LoopTyped, ConnectorAssumption, SMT DEF Typed, Locals
    <3> QED BY <2>2, <3>1, PollingFits DEF Polling, LoopAt, Holding
  <2> QED BY <2>1, <2>2
<1> HIDE DEF x
<1> QED BY <1>1, <1>2, <1>3, QuietStep

LEMMA EndKeeps ==
    ASSUME InboxInv, NEW l \in Loops, CreateConflict(l) \/ StopsOnError(l) PROVE InboxInv'
<1>1. /\ Become(l, LoopOff) /\ loop[l].pc # "off"
      /\ UNCHANGED <<inbox, platform, files, supervisor, history>>
  BY DEF CreateConflict, StopsOnError
<1>2. CursorInv' /\ events' \in 0 .. MaxEvents
  BY <1>1, CursorStays, CallFailsKeeps DEF CreateConflict, StopsOnError, platform, InboxInv, TablesInv, TypesInv
<1>3. LoopOff.pc \notin Holding \cup {"ingest"}
  BY DEF LoopOff, LoopAt, Holding
<1> QED BY <1>1, <1>2, <1>3, OffFits, QuietStep

LEMMA SaveObjectKeeps ==
    ASSUME InboxInv, NEW l \in Loops, SaveObject(l) PROVE InboxInv'
<1> DEFINE object == FreshObject(loop[l].at)
           x == LoopAt("save", loop[l].at, loop[l].last, object, 0)
<1>1. /\ Become(l, x) /\ loop[l].pc = "prepare" /\ objects' = objects \cup {object}
      /\ UNCHANGED <<inbox, cursor, forgotten, expired, torn, live, again, events, op>>
      /\ UNCHANGED supervisor
  BY DEF SaveObject, platform, swept, supervisor, history
<1>2. /\ object \in Nat \ {NoObject} /\ object \notin Known
      /\ \A v \in Updates : inbox[v].object # object
  BY FreshIsNew DEF InboxInv
<1> HIDE DEF object
<1>3. x.pc \in Holding /\ x.at = loop[l].at /\ x.object = object
  BY DEF LoopAt, Holding
<1>4. Known' = Known \cup {object}
  BY <1>1 DEF Known
<1>5. Fits(x, inbox', live', Known')
  <2>1. Typed(x)
    BY <1>1, <1>2, LoopTyped, ConnectorAssumption, SMT DEF Typed, Locals, LoopAt, Before, After
  <2>2. Received(x, inbox')
    BY <1>1, <1>3, LoopTyped DEF Fits, Received, Before, After, Holding
  <2> QED BY <1>1, <1>2, <1>3, <1>4, <2>1, <2>2 DEF Fits, Chosen, Holds, Forwarding, Holding
<1>6. Grows /\ \A m \in Loops : Keeps(loop[m])
  BY <1>1, <1>4 DEF InboxInv, LoopsInv, Fits, Holds, Grows, Keeps
<1>7. \A m \in Loops \ {l} : Apart(x, loop[m]) /\ Apart(loop[m], x)
  BY <1>2, <1>3, LoopTyped DEF Fits, Holds, Apart, Holding
<1>8. LoopsInv'
  <2> HIDE DEF x
  <2> QED BY <1>1, <1>5, <1>6, <1>7, LoopMoves DEF InboxInv
<1>9. OpsInv' /\ SupervisorInv'
  BY <1>1, <1>6, OperatorsStay, NoLoopStrays DEF InboxInv, LoopsInv
<1>10. FilesInv'
  <2>1. IsFiniteSet(Known')
    BY <1>4, FS_AddElement DEF InboxInv, TablesInv, FilesInv
  <2> QED BY <1>1, <1>2, <1>4, <2>1 DEF InboxInv, TablesInv, FilesInv
<1> QED BY <1>1, <1>8, <1>9, <1>10 DEF InboxInv, TablesInv, TypesInv, RowsInv, CursorInv

\* The loop keeps the payload it is saving, whether or not a sweep has condemned it.
LEMMA SaveSidecarKeeps ==
    ASSUME InboxInv, NEW l \in Loops, NEW authorized, SaveSidecar(l, authorized) PROVE InboxInv'
<1> DEFINE x == LoopAt(IF authorized THEN "accept" ELSE "quarantine",
                       loop[l].at, loop[l].last, loop[l].object, 0)
<1>1. /\ Become(l, x) /\ loop[l].pc = "save"
      /\ UNCHANGED <<inbox, cursor, forgotten, objects, expired, torn, live, again, events, op>>
      /\ UNCHANGED supervisor
  BY DEF SaveSidecar, platform, files, supervisor, history
<1>2. x.pc \in {"accept", "quarantine"} /\ x.at = loop[l].at /\ x.object = loop[l].object
  BY DEF LoopAt
<1>3. Fits(x, inbox', live', Known')
  <2>1. Typed(x)
    BY <1>1, LoopTyped, ConnectorAssumption, SMT DEF Typed, Locals, LoopAt, Before, After
  <2>2. Received(x, inbox')
    BY <1>1, <1>2, LoopTyped DEF Fits, Received, Before, After
  <2>3. Holds(x, inbox', Known')
    BY <1>1, <1>2, LoopTyped DEF Fits, Holds, Holding, Known
  <2> QED BY <1>2, <2>1, <2>2, <2>3 DEF Fits, Chosen, Forwarding
<1>4. Grows /\ \A m \in Loops : Keeps(loop[m])
  BY <1>1 DEF InboxInv, LoopsInv, Fits, Holds, Grows, Keeps, Known
<1>5. \A m \in Loops \ {l} : Apart(x, loop[m]) /\ Apart(loop[m], x)
  BY <1>1, <1>2 DEF InboxInv, LoopsInv, Apart, Holding
<1>6. LoopsInv'
  <2> HIDE DEF x
  <2> QED BY <1>1, <1>3, <1>4, <1>5, LoopMoves DEF InboxInv
<1>7. OpsInv' /\ SupervisorInv'
  BY <1>1, <1>4, OperatorsStay, NoLoopStrays DEF InboxInv, LoopsInv
<1>8. FilesInv'
  BY <1>1 DEF InboxInv, TablesInv, FilesInv, Known
<1> QED BY <1>1, <1>6, <1>7, <1>8 DEF InboxInv, TablesInv, TypesInv, RowsInv, CursorInv

\* A loop that holds a payload is at an update, and holds a payload nobody else has.
LEMMA Decides ==
    ASSUME InboxInv, NEW l \in Loops, loop[l].pc \in Holding
    PROVE  /\ loop[l].at \in Updates /\ loop[l].object \in Known /\ loop[l].object \in Nat \ {NoObject}
           /\ \A v \in Updates : inbox[v].object # loop[l].object
           /\ \A m \in Loops \ {l} : loop[m].pc \in Holding => loop[m].object # loop[l].object
<1>1. loop[l].at \in Updates
  BY LoopTyped, ConnectorAssumption, SMT DEF Typed, Locals, Updates, Holding, Before, After
<1>2. loop[l].object \in Known /\ \A v \in Updates : inbox[v].object # loop[l].object
  BY LoopTyped, Zenon DEF Fits, Holds
<1> QED BY <1>1, <1>2 DEF InboxInv, LoopsInv, Apart, TablesInv, FilesInv, Known

\* The copy that came with a duplicate, or with a statement that failed, is removed.
LEMMA CopyRemoved ==
    ASSUME InboxInv, NEW l \in Loops, loop[l].pc \in Holding,
           objects' = objects \ {loop[l].object},
           UNCHANGED <<inbox, cursor, forgotten, expired, torn, live, again>>, events' \in 0 .. MaxEvents
    PROVE  TablesInv' /\ Grows /\ \A m \in Loops \ {l} : Keeps(loop[m])
<1>1. Known' \subseteq Known /\ Known \subseteq Known' \cup {loop[l].object}
  BY DEF Known
<1>2. FilesInv'
  <2>1. IsFiniteSet(Known')
    BY <1>1, FS_Subset DEF InboxInv, TablesInv, FilesInv
  <2> QED BY <1>1, <2>1, Decides DEF InboxInv, TablesInv, FilesInv
<1>3. \A m \in Loops \ {l} : Keeps(loop[m])
  BY <1>1, Decides, LoopTyped DEF Fits, Holds, Keeps
<1> QED BY <1>2, <1>3 DEF InboxInv, TablesInv, TypesInv, RowsInv, CursorInv, Grows

\* The row is new: it takes over the payload the loop has saved.
LEMMA RowInserted ==
    ASSUME InboxInv, NEW l \in Loops, loop[l].pc \in Holding, inbox[loop[l].at].status = "none",
           Insert(loop[l].at, Verdict(l), loop[l].object),
           UNCHANGED <<objects, cursor, forgotten, expired, torn, live, again>>, events' \in 0 .. MaxEvents
    PROVE  /\ TablesInv' /\ Grows /\ \A m \in Loops \ {l} : Keeps(loop[m])
           /\ inbox'[loop[l].at].status = Verdict(l) /\ live'[loop[l].at] = 0
<1> DEFINE u == loop[l].at
           r == Row(Verdict(l), loop[l].object, FALSE)
<1>1. /\ u \in Updates /\ loop[l].object \in Known /\ loop[l].object \in Nat \ {NoObject}
      /\ \A v \in Updates : inbox[v].object # loop[l].object
      /\ \A m \in Loops \ {l} : loop[m].pc \in Holding => loop[m].object # loop[l].object
  BY Decides
<1>2. /\ r.status = Verdict(l) /\ r.object = loop[l].object /\ r.forwarded = FALSE
      /\ r \in Rows /\ r.status # "none"
  BY <1>1, SMT DEF Row, Rows, Verdict
<1>3. inbox' = [inbox EXCEPT ![u] = r] /\ inbox[u].status = "none"
  BY DEF Insert
<1> HIDE DEF u, r
<1>4. /\ inbox \in [Updates -> Rows] /\ inbox' \in [Updates -> Rows]
      /\ inbox'[u] = r /\ \A v \in Updates \ {u} : inbox'[v] = inbox[v]
  BY <1>1, <1>2, <1>3 DEF InboxInv, TablesInv, TypesInv
<1>5. live[u] = 0 /\ again[u] = 0
  <2>1. ~(live[u] + again[u] > 0) /\ live[u] \in Nat /\ again[u] \in Nat
    BY <1>1, <1>3 DEF InboxInv, TablesInv, RowsInv, TypesInv
  <2> QED BY <2>1, SMT
<1>6. Grows
  BY <1>2, <1>3, <1>4 DEF Grows
<1>7. \A m \in Loops \ {l} : Keeps(loop[m])
  BY <1>1, <1>2, <1>4, LoopTyped DEF Fits, Holds, Keeps, Known
<1>8. TypesInv' /\ CursorInv'
  BY <1>4, <1>6 DEF InboxInv, TablesInv, TypesInv, CursorInv, Grows
<1>9. RowsInv'
  BY <1>2, <1>4, <1>5 DEF InboxInv, TablesInv, RowsInv
<1>10. FilesInv'
  BY <1>1, <1>2, <1>4 DEF InboxInv, TablesInv, FilesInv, Known
<1> QED BY <1>1, <1>2, <1>4, <1>5, <1>6, <1>7, <1>8, <1>9, <1>10 DEF TablesInv, u

LEMMA AcceptKeeps ==
    ASSUME InboxInv, NEW l \in Loops, Accept(l) PROVE InboxInv'
<1> DEFINE u == loop[l].at
           duplicate == inbox[u].status # "none"
           pc == IF loop[l].pc = "accept" /\ ~duplicate THEN "ingest" ELSE "findCursor"
           x == LoopAt(pc, u, loop[l].last, NoObject, 0)
<1>1. /\ Become(l, x) /\ loop[l].pc \in Holding /\ Insert(u, Verdict(l), loop[l].object)
      /\ objects' = IF duplicate THEN objects \ {loop[l].object} ELSE objects
      /\ UNCHANGED <<cursor, forgotten, expired, torn, live, again, events, op>> /\ UNCHANGED supervisor
  BY DEF Accept, Within, platform, swept, supervisor, history, Holding
<1>2. events' \in 0 .. MaxEvents
  BY <1>1 DEF InboxInv, TablesInv, TypesInv
<1>3. /\ TablesInv' /\ Grows /\ \A m \in Loops \ {l} : Keeps(loop[m])
      /\ inbox'[u].status # "none"
      /\ ~duplicate => inbox'[u].status = Verdict(l) /\ live'[u] = 0
  <2>1. CASE duplicate
    <3>1. UNCHANGED inbox
      BY <1>1, <2>1 DEF Insert
    <3> QED BY <1>1, <1>2, <2>1, <3>1, CopyRemoved
  <2>2. CASE ~duplicate
    BY <1>1, <1>2, <2>2, RowInserted DEF Verdict
  <2> QED BY <2>1, <2>2
<1>4. Fits(x, inbox', live', Known')
  <2>1. Typed(x)
    BY <1>1, LoopTyped, ConnectorAssumption, SMT DEF Typed, Locals, LoopAt, Before, After, Holding, NoObject
  <2>2. Received(x, inbox')
    <3>1. \A v \in Updates : v < u => inbox[v].status # "none"
      BY <1>1, LoopTyped DEF Fits, Received, Before, Holding
    <3>2. u \in Updates
      BY <1>1, Decides
    <3>3. \A v \in Updates : v <= u => inbox'[v].status # "none"
      <4> TAKE v \in Updates
      <4>1. v <= u => v < u \/ v = u
        BY <3>2, ConnectorAssumption, SMT DEF Updates
      <4> QED BY <1>3, <3>1, <4>1 DEF Grows
    <3>4. x.pc \in After /\ x.at = u
      BY DEF LoopAt, After
    <3> QED BY <3>3, <3>4 DEF Received, Before, After
  <2>3. Chosen(x, inbox', live')
    BY <1>3, Zenon DEF Chosen, LoopAt, Forwarding, Verdict
  <2> QED BY <2>1, <2>2, <2>3 DEF Fits, Holds, LoopAt, Holding
<1>5. \A m \in Loops \ {l} : Apart(x, loop[m]) /\ Apart(loop[m], x)
  <2> TAKE m \in Loops \ {l}
  <2>1. CASE duplicate
    BY <2>1, NoneIsApart DEF LoopAt, Holding
  <2>2. CASE ~duplicate
    <3>1. ~(loop[m].pc = "ingest" /\ loop[m].at = u)
      BY <2>2, LoopTyped DEF Fits, Chosen, Forwarding
    <3> QED BY <3>1 DEF Apart, LoopAt, Holding
  <2> QED BY <2>1, <2>2
<1>6. LoopsInv'
  <2> HIDE DEF x
  <2> QED BY <1>1, <1>3, <1>4, <1>5, LoopMoves DEF InboxInv
<1>7. OpsInv' /\ SupervisorInv'
  BY <1>1, <1>3, OperatorsStay, NoLoopStrays DEF InboxInv, LoopsInv, Holding
<1> QED BY <1>3, <1>6, <1>7 DEF InboxInv

LEMMA AcceptFailsKeeps ==
    ASSUME InboxInv, NEW l \in Loops, AcceptFails(l) PROVE InboxInv'
<1>1. /\ Become(l, LoopOff) /\ loop[l].pc \in Holding /\ CallFails(l)
      /\ \/ objects' = objects \ {loop[l].object} /\ UNCHANGED inbox
         \/ /\ inbox[loop[l].at].status = "none"
            /\ Insert(loop[l].at, Verdict(l), loop[l].object)
            /\ UNCHANGED objects
      /\ UNCHANGED <<cursor, forgotten, expired, torn, live, again, op>> /\ UNCHANGED supervisor
  BY DEF AcceptFails, platform, swept, supervisor, history, Holding
<1>2. TablesInv' /\ Grows /\ \A m \in Loops \ {l} : Keeps(loop[m])
  BY <1>1, CallFailsKeeps, CopyRemoved, RowInserted
<1>3. LoopsInv'
  <2>1. LoopOff.pc \notin Holding \cup {"ingest"}
    BY DEF LoopOff, LoopAt, Holding
  <2> QED BY <1>1, <1>2, <2>1, OffFits, NoneIsApart, LoopMoves DEF InboxInv
<1>4. OpsInv' /\ SupervisorInv'
  BY <1>1, <1>2, OperatorsStay, NoLoopStrays DEF InboxInv, LoopsInv, Holding
<1> QED BY <1>2, <1>3, <1>4 DEF InboxInv

LEMMA SaveFailsKeeps ==
    ASSUME InboxInv, NEW l \in Loops, SaveFails(l) PROVE InboxInv'
<1>1. /\ Become(l, LoopOff) /\ loop[l].pc \in Holding /\ Counted
      /\ objects' = objects \ {loop[l].object}
      /\ UNCHANGED <<inbox, cursor, forgotten, expired, torn, live, again, op>> /\ UNCHANGED supervisor
  BY DEF SaveFails, platform, swept, supervisor, history, Holding
<1>2. events' \in 0 .. MaxEvents
  BY <1>1, CallFailsKeeps DEF CallFails
<1>3. TablesInv' /\ Grows /\ \A m \in Loops \ {l} : Keeps(loop[m])
  BY <1>1, <1>2, CopyRemoved
<1>4. LoopsInv'
  <2>1. LoopOff.pc \notin Holding \cup {"ingest"}
    BY DEF LoopOff, LoopAt, Holding
  <2> QED BY <1>1, <1>3, <2>1, OffFits, NoneIsApart, LoopMoves DEF InboxInv
<1>5. OpsInv' /\ SupervisorInv'
  BY <1>1, <1>3, OperatorsStay, NoLoopStrays DEF InboxInv, LoopsInv, Holding
<1> QED BY <1>3, <1>4, <1>5 DEF InboxInv

\* A loop that has taken an update in: where it is, and where it goes next.
LEMMA TakenIn ==
    ASSUME InboxInv, NEW l \in Loops, loop[l].pc \in After
    PROVE  /\ loop[l].at \in Updates
           /\ \A u \in Updates : u <= loop[l].at => inbox[u].status # "none"
           /\ \A pc \in After : Typed(LoopAt(pc, loop[l].at, loop[l].last, NoObject, 0))
<1>1. loop[l].at \in Updates
  BY LoopTyped, ConnectorAssumption, SMT DEF Typed, Locals, Updates, After, Before
<1>2. \A u \in Updates : u <= loop[l].at => inbox[u].status # "none"
  BY LoopTyped, Zenon DEF Fits, Received
<1>3. \A pc \in After : Typed(LoopAt(pc, loop[l].at, loop[l].last, NoObject, 0))
  BY LoopTyped, ConnectorAssumption, SMT DEF Typed, Locals, LoopAt, Before, After, NoObject
<1> QED BY <1>1, <1>2, <1>3

\* A loop that has done with an update goes for the cursor.
LEMMA OnwardsFits ==
    ASSUME InboxInv, NEW l \in Loops, loop[l].pc \in After, Grows,
           NEW pc \in {"findCursor", "createCursor", "updateCursor"}
    PROVE  /\ Fits(LoopAt(pc, loop[l].at, loop[l].last, NoObject, 0), inbox', live', Known')
           /\ LoopAt(pc, loop[l].at, loop[l].last, NoObject, 0).pc \notin Holding \cup {"ingest"}
<1> DEFINE x == LoopAt(pc, loop[l].at, loop[l].last, NoObject, 0)
<1>1. x.pc = pc /\ x.at = loop[l].at /\ pc \in After /\ pc \notin Forwarding \cup Holding \cup Before \cup {"fetch"}
  BY DEF LoopAt, After, Before, Forwarding, Holding
<1>2. Typed(x)
  BY <1>1, TakenIn
<1>3. Received(x, inbox')
  BY <1>1, TakenIn DEF Received, Grows
<1> QED BY <1>1, <1>2, <1>3 DEF Fits, Chosen, Holds, Forwarding, Holding

\* The message of a committed row is added to its conversation.
LEMMA Ingested ==
    ASSUME InboxInv, NEW l \in Loops, loop[l].pc = "ingest",
           live' = [live EXCEPT ![loop[l].at] = @ + 1],
           UNCHANGED <<inbox, objects, cursor, forgotten, expired, torn, again>>, events' \in 0 .. MaxEvents
    PROVE  /\ TablesInv' /\ Grows /\ \A m \in Loops \ {l} : Keeps(loop[m])
           /\ inbox'[loop[l].at].status = "committed" /\ live'[loop[l].at] = 1
<1> DEFINE u == loop[l].at
<1>1. u \in Updates
  BY TakenIn DEF After
<1>2. inbox[u].status = "committed" /\ live[u] = 0
  BY LoopTyped DEF Fits, Chosen, Forwarding
<1> HIDE DEF u
<1>3. live' = [live EXCEPT ![u] = 1] /\ live \in [Updates -> Nat]
  BY <1>1, <1>2 DEF InboxInv, TablesInv, TypesInv, u
<1>4. live' \in [Updates -> Nat] /\ live'[u] = 1 /\ \A v \in Updates \ {u} : live'[v] = live[v]
  <2>1. live' = [v \in Updates |-> IF v = u THEN 1 ELSE live[v]]
    BY <1>3, Zenon
  <2>2. live'[u] = 1 /\ \A v \in Updates \ {u} : live'[v] = live[v]
    BY <1>1, <2>1, Zenon
  <2>3. \A v \in Updates : live'[v] \in Nat
    BY <1>3, <2>2
  <2> QED BY <2>1, <2>2, <2>3, Zenon
<1>5. TypesInv' /\ CursorInv' /\ FilesInv'
  BY <1>4 DEF InboxInv, TablesInv, TypesInv, CursorInv, FilesInv, Known
<1>6. RowsInv'
  <2> SUFFICES ASSUME NEW v \in Updates
               PROVE  /\ live'[v] <= 1
                      /\ live'[v] + again[v] > 0 => inbox[v].status = "committed"
                      /\ inbox[v].forwarded => live'[v] + again[v] > 0
    BY DEF RowsInv
  <2>1. CASE v = u
    <3>1. again[u] \in Nat
      BY <1>1 DEF InboxInv, TablesInv, TypesInv
    <3>2. live'[u] + again[u] > 0 /\ live'[u] <= 1
      BY <1>4, <3>1, SMT
    <3> QED BY <1>2, <2>1, <3>2
  <2>2. CASE v # u
    BY <1>4, <2>2 DEF InboxInv, TablesInv, RowsInv
  <2> QED BY <2>1, <2>2
<1>7. \A m \in Loops \ {l} : Keeps(loop[m])
  <2> TAKE m \in Loops \ {l}
  <2>1. loop[m].pc \in Forwarding => loop[m].at \in Updates /\ loop[m].at # u
    <3>1. loop[m].pc \in Forwarding => loop[m].at \in Updates
      BY TakenIn DEF After, Forwarding
    <3>2. loop[m].pc = "ingest" => loop[m].at # u
      BY DEF InboxInv, LoopsInv, Apart, u
    <3>3. loop[m].pc = "stamp" => live[loop[m].at] = 1
      BY LoopTyped DEF Fits, Chosen
    <3>4. loop[m].pc = "stamp" => loop[m].at # u
      BY <1>2, <3>3, SMT
    <3> QED BY <3>1, <3>2, <3>4 DEF Forwarding
  <2> QED BY <1>4, <2>1, LoopTyped DEF Fits, Holds, Keeps, Known
<1> QED BY <1>2, <1>4, <1>5, <1>6, <1>7 DEF TablesInv, Grows, u

LEMMA IngestKeeps ==
    ASSUME InboxInv, NEW l \in Loops, Ingest(l) PROVE InboxInv'
<1> DEFINE x == LoopAt("stamp", loop[l].at, loop[l].last, NoObject, 0)
<1>1. /\ Become(l, x) /\ loop[l].pc = "ingest" /\ live' = [live EXCEPT ![loop[l].at] = @ + 1]
      /\ UNCHANGED <<inbox, objects, cursor, forgotten, expired, torn, again, events, op>> /\ UNCHANGED supervisor
  BY DEF Ingest, Within, platform, files, supervisor
<1>2. /\ TablesInv' /\ Grows /\ \A m \in Loops \ {l} : Keeps(loop[m])
      /\ inbox'[loop[l].at].status = "committed" /\ live'[loop[l].at] = 1
  BY <1>1, Ingested DEF InboxInv, TablesInv, TypesInv
<1>3. Fits(x, inbox', live', Known')
  <2>1. x.pc = "stamp" /\ x.at = loop[l].at
    BY DEF LoopAt
  <2>2. Typed(x) /\ Received(x, inbox')
    BY <1>1, <1>2, <2>1, TakenIn DEF After, Before, Received, Grows
  <2> QED BY <1>2, <2>1, <2>2 DEF Fits, Chosen, Holds, Forwarding, Holding
<1>4. LoopsInv'
  <2>1. x.pc \notin Holding \cup {"ingest"}
    BY DEF LoopAt, Holding
  <2> HIDE DEF x
  <2> QED BY <1>1, <1>2, <1>3, <2>1, NoneIsApart, LoopMoves DEF InboxInv
<1>5. OpsInv' /\ SupervisorInv'
  BY <1>1, <1>2, OperatorsStay, NoLoopStrays DEF InboxInv, LoopsInv
<1> QED BY <1>2, <1>4, <1>5 DEF InboxInv

\* A row whose message is in a conversation is stamped.
LEMMA Stamped ==
    ASSUME InboxInv, NEW u \in Updates, live[u] + again[u] > 0, Stamp(u),
           UNCHANGED <<objects, cursor, forgotten, expired, torn, live, again>>, events' \in 0 .. MaxEvents
    PROVE  TablesInv' /\ Grows /\ \A m \in Loops : Keeps(loop[m])
<1> DEFINE r == Row(inbox[u].status, inbox[u].object, TRUE)
<1>1. r.status = inbox[u].status /\ r.object = inbox[u].object /\ r.forwarded = TRUE /\ r \in Rows
  BY DEF Row, Rows, InboxInv, TablesInv, TypesInv
<1>2. inbox' = [inbox EXCEPT ![u] = r]
  BY DEF Stamp
<1> HIDE DEF r
<1>3. /\ inbox' \in [Updates -> Rows]
      /\ \A v \in Updates : inbox'[v].status = inbox[v].status /\ inbox'[v].object = inbox[v].object
      /\ \A v \in Updates : inbox'[v].forwarded => inbox[v].forwarded \/ v = u
  BY <1>1, <1>2 DEF InboxInv, TablesInv, TypesInv
<1>4. Grows
  BY <1>3 DEF Grows
<1>5. \A m \in Loops : Keeps(loop[m])
  BY <1>3, LoopTyped DEF Fits, Holds, Keeps, Known
<1>6. TypesInv' /\ CursorInv' /\ RowsInv'
  BY <1>3 DEF InboxInv, TablesInv, TypesInv, CursorInv, RowsInv
<1>7. FilesInv'
  BY <1>3 DEF InboxInv, TablesInv, FilesInv, Known
<1> QED BY <1>4, <1>5, <1>6, <1>7 DEF TablesInv

LEMMA MarkForwardedKeeps ==
    ASSUME InboxInv, NEW l \in Loops, MarkForwarded(l) PROVE InboxInv'
<1> DEFINE x == LoopAt("findCursor", loop[l].at, loop[l].last, NoObject, 0)
<1>1. /\ Become(l, x) /\ loop[l].pc = "stamp" /\ Stamp(loop[l].at)
      /\ UNCHANGED <<objects, cursor, forgotten, expired, torn, live, again, events, op>> /\ UNCHANGED supervisor
  BY DEF MarkForwarded, Within, platform, files, supervisor, history
<1>2. loop[l].at \in Updates /\ live[loop[l].at] + again[loop[l].at] > 0
  <2>1. loop[l].at \in Updates /\ live[loop[l].at] = 1
    BY <1>1, TakenIn, LoopTyped DEF Fits, Chosen, After
  <2>2. again[loop[l].at] \in Nat
    BY <2>1 DEF InboxInv, TablesInv, TypesInv
  <2> QED BY <2>1, <2>2, SMT
<1>3. TablesInv' /\ Grows /\ \A m \in Loops : Keeps(loop[m])
  BY <1>1, <1>2, Stamped DEF InboxInv, TablesInv, TypesInv
<1>4. Fits(x, inbox', live', Known') /\ x.pc \notin Holding \cup {"ingest"}
  BY <1>1, <1>3, OnwardsFits DEF After
<1> HIDE DEF x
<1>5. LoopsInv'
  BY <1>1, <1>3, <1>4, NoneIsApart, LoopMoves DEF InboxInv
<1>6. OpsInv' /\ SupervisorInv'
  BY <1>1, <1>3, OperatorsStay, NoLoopStrays DEF InboxInv, LoopsInv
<1> QED BY <1>3, <1>5, <1>6 DEF InboxInv

LEMMA ForwardFailsKeeps ==
    ASSUME InboxInv, NEW l \in Loops, ForwardFails(l) PROVE InboxInv'
<1> DEFINE x == LoopAt("findCursor", loop[l].at, loop[l].last, NoObject, 0)
<1>1. /\ Become(l, x) /\ loop[l].pc \in Forwarding /\ CallFails(l)
      /\ \/ UNCHANGED live
         \/ loop[l].pc = "ingest" /\ live' = [live EXCEPT ![loop[l].at] = @ + 1]
      /\ UNCHANGED <<inbox, objects, cursor, forgotten, expired, torn, again, op>> /\ UNCHANGED supervisor
  BY DEF ForwardFails, Within, platform, files, supervisor, Forwarding
<1>2. events' \in 0 .. MaxEvents
  BY <1>1, CallFailsKeeps
<1>3. TablesInv' /\ Grows /\ \A m \in Loops \ {l} : Keeps(loop[m])
  <2>1. CASE UNCHANGED live
    BY <1>1, <1>2, <2>1, LoopTyped
       DEF InboxInv, TablesInv, TypesInv, RowsInv, CursorInv, FilesInv, Known, Grows, Keeps, Fits, Holds
  <2>2. CASE loop[l].pc = "ingest" /\ live' = [live EXCEPT ![loop[l].at] = @ + 1]
    BY <1>1, <1>2, <2>2, Ingested
  <2> QED BY <1>1, <2>1, <2>2
<1>4. Fits(x, inbox', live', Known') /\ x.pc \notin Holding \cup {"ingest"}
  BY <1>1, <1>3, OnwardsFits DEF After, Forwarding
<1> HIDE DEF x
<1>5. LoopsInv'
  BY <1>1, <1>3, <1>4, NoneIsApart, LoopMoves DEF InboxInv
<1>6. OpsInv' /\ SupervisorInv'
  BY <1>1, <1>3, OperatorsStay, NoLoopStrays DEF InboxInv, LoopsInv, Forwarding
<1> QED BY <1>3, <1>5, <1>6 DEF InboxInv

LEMMA FindCursorKeeps ==
    ASSUME InboxInv, NEW l \in Loops, FindCursor(l) PROVE InboxInv'
<1> DEFINE pc == IF cursor = 0 THEN "createCursor" ELSE "updateCursor"
           x == LoopAt(pc, loop[l].at, loop[l].last, NoObject, 0)
<1>1. Become(l, x) /\ loop[l].pc = "findCursor" /\ UNCHANGED <<inbox, platform, files, supervisor, history, events>>
  BY DEF FindCursor, Within
<1>2. UNCHANGED <<inbox, live, Known>> /\ Grows
  BY <1>1 DEF files, history, Grows, Known
<1>3. Fits(x, inbox, live, Known) /\ x.pc \notin Holding \cup {"ingest"}
  BY <1>1, <1>2, OnwardsFits DEF After
<1>4. CursorInv' /\ events' \in 0 .. MaxEvents
  BY <1>1, CursorStays DEF platform, InboxInv, TablesInv, TypesInv
<1> HIDE DEF x
<1> QED BY <1>1, <1>3, <1>4, QuietStep

LEMMA SaveCursorKeeps ==
    ASSUME InboxInv, NEW l \in Loops, SaveCursor(l) PROVE InboxInv'
<1> DEFINE x == Covered(l)
<1>1. /\ Become(l, x) /\ loop[l].pc \in After /\ cursor' = loop[l].at + 1
      /\ UNCHANGED <<inbox, forgotten, files, supervisor, history, events>>
  BY DEF SaveCursor, After
<1>2. loop[l].at \in Updates /\ \A u \in Updates : u <= loop[l].at => inbox[u].status # "none"
  BY <1>1, TakenIn
<1>3. \A u \in Updates : u < loop[l].at + 1 => inbox[u].status # "none"
  BY <1>2, ConnectorAssumption, SMT DEF Updates
<1>4. CursorInv' /\ events' \in 0 .. MaxEvents
  <2>1. loop[l].at + 1 \in 0 .. MaxUpdates + 1
    BY <1>2, ConnectorAssumption, SMT DEF Updates
  <2> QED BY <1>1, <1>3, <2>1 DEF InboxInv, TablesInv, TypesInv, CursorInv
<1>5. Fits(x, inbox, live, Known) /\ x.pc \notin Holding \cup {"ingest"}
  <2>1. CASE loop[l].at < loop[l].last
    <3> DEFINE y == LoopAt("prepare", loop[l].at + 1, loop[l].last, NoObject, 0)
    <3>1. Typed(y)
      BY <1>2, <2>1, LoopTyped, ConnectorAssumption, SMT
         DEF Typed, Locals, LoopAt, NoObject, Before, After, Updates
    <3>2. y.pc = "prepare" /\ y.at = loop[l].at + 1
      BY DEF LoopAt
    <3>3. Received(y, inbox)
      BY <1>3, <3>2 DEF Received, After
    <3>4. Fits(y, inbox, live, Known)
      BY <3>1, <3>2, <3>3 DEF Fits, Chosen, Holds, Forwarding, Holding
    <3> QED BY <2>1, <3>2, <3>4 DEF Covered, Holding
  <2>2. CASE ~(loop[l].at < loop[l].last)
    <3>1. 0 \in 0 .. MaxAttempts - 1
      BY ConnectorAssumption, SMT
    <3> QED BY <2>2, <3>1, PollingFits DEF Covered, Polling, LoopAt, Holding
  <2> QED BY <2>1, <2>2
<1>6. loop[l].pc # "off"
  BY <1>1 DEF After
<1> HIDE DEF x
<1> QED BY <1>1, <1>4, <1>5, <1>6, QuietStep

----------------------------------------------------------------------------
(* The steps of the supervisor *)

LEMMA IdleTyped == OpIdle \in OpLocals /\ OpIdle.pc = "idle"
<1>1. 0 \in 0 .. MaxUpdates
  BY ConnectorAssumption, SMT
<1> QED BY <1>1 DEF OpIdle, OpAt, OpLocals

\* One operator moves, to where what it relies on holds.
LEMMA OperatorMoves ==
    ASSUME OpsInv, NEW o \in Operators, NEW y \in OpLocals, op' = [op EXCEPT ![o] = y], Grows,
           \A u \in Updates : again[u] > 0 => again'[u] > 0,
           y.pc \in Forwarding => y.update \in Updates /\ inbox'[y.update].status = "committed",
           y.pc = "stamp" => again'[y.update] > 0
    PROVE  OpsInv' /\ op'[o] = y /\ \A p \in Operators \ {o} : op'[p] = op[p]
<1>1. op' \in [Operators -> OpLocals] /\ op'[o] = y /\ \A p \in Operators \ {o} : op'[p] = op[p]
  BY DEF OpsInv, OpLocals
<1>2. \A p \in Operators : op'[p].pc \in Forwarding =>
         op'[p].update \in Updates /\ inbox'[op'[p].update].status = "committed"
  BY <1>1 DEF OpsInv, Grows
<1>3. \A p \in Operators : op'[p].pc = "stamp" => again'[op'[p].update] > 0
  BY <1>1 DEF OpsInv, Forwarding
<1> QED BY <1>1, <1>2, <1>3 DEF OpsInv, OpLocals

\* Steps that leave the tables and the loops alone.
LEMMA TablesStay ==
    ASSUME TablesInv, UNCHANGED <<inbox, cursor, forgotten, objects, expired, torn, live, again>>,
           events' \in 0 .. MaxEvents
    PROVE  TablesInv' /\ Grows
BY DEF TablesInv, TypesInv, RowsInv, CursorInv, FilesInv, Known, Grows

LEMMA CountedKeeps == ASSUME TypesInv, Counted PROVE events' \in 0 .. MaxEvents
BY ConnectorAssumption, SMT DEF TypesInv, Counted

LEMMA NobodyMoves ==
    ASSUME LoopsInv, UNCHANGED <<inbox, loop, live, Known>>
    PROVE  LoopsInv'
BY DEF LoopsInv

\* An operator that is not about to cancel a generation goes on to something else.
LEMMA NoneIsLost ==
    ASSUME InboxInv, NEW o \in Operators, NEW y \in OpLocals, op' = [op EXCEPT ![o] = y],
           op[o].pc # "cancel", UNCHANGED <<loop, cancelled, active, attached>>
    PROVE  SupervisorInv'
<1>1. \A p \in Operators : p # o => op'[p] = op[p]
  BY DEF InboxInv, OpsInv
<1> QED BY <1>1 DEF InboxInv, SupervisorInv, NoStrayLoop

\* An operator's step that touches nothing but what the operator is about.
LEMMA OperatorStepKeeps ==
    ASSUME InboxInv, NEW o \in Operators, NEW y \in OpLocals, op' = [op EXCEPT ![o] = y],
           op[o].pc # "cancel", y.pc = "ingest" => y.update \in Updates /\ inbox[y.update].status = "committed",
           y.pc # "stamp", UNCHANGED <<inbox, platform, files, loop, cancelled, active, attached, history>>,
           events' \in 0 .. MaxEvents
    PROVE  InboxInv'
<1>1. UNCHANGED <<inbox, cursor, forgotten, objects, expired, torn, live, again, loop>>
  BY DEF platform, files, history
<1>2. TablesInv' /\ Grows /\ LoopsInv'
  BY <1>1, TablesStay, NobodyMoves DEF InboxInv, Known
<1>3. OpsInv'
  <2>1. y.pc \in Forwarding => y.update \in Updates /\ inbox'[y.update].status = "committed"
    BY <1>1 DEF Forwarding
  <2>2. \A u \in Updates : again[u] > 0 => again'[u] > 0
    BY <1>1
  <2> QED BY <1>2, <2>1, <2>2, OperatorMoves, Zenon DEF InboxInv
<1>4. SupervisorInv'
  BY NoneIsLost
<1> QED BY <1>2, <1>3, <1>4 DEF InboxInv

\* What Start leaves, whoever calls it and whatever becomes of that operator.
LEMMA Attached ==
    ASSUME InboxInv, NEW l \in Loops, NEW enabled, Attach(l, enabled),
           UNCHANGED <<inbox, live, Known>>, Grows
    PROVE  /\ LoopsInv' /\ cancelled' \subseteq Loops /\ active' \in BOOLEAN /\ attached' \subseteq Loops
           /\ ~active' => attached' = {}
           /\ \A m \in Loops : loop'[m].pc # "off" /\ m \notin cancelled' =>
                 \/ m \in attached'
                 \/ \E o \in Operators : op[o].pc = "cancel" /\ m \in op[o].taken
<1>1. CASE UNCHANGED <<loop, cancelled, active, attached>>
  BY <1>1, NobodyMoves DEF InboxInv, SupervisorInv, NoStrayLoop
<1>2. CASE ~active /\ active' = TRUE /\ attached' = {} /\ UNCHANGED <<loop, cancelled>>
  BY <1>2, NobodyMoves DEF InboxInv, SupervisorInv, NoStrayLoop
<1>3. CASE /\ ~active /\ active' = TRUE /\ attached' = {l} /\ cancelled' = cancelled \ {l}
           /\ Become(l, Polling(0))
  <2>1. 0 \in 0 .. MaxAttempts - 1
    BY ConnectorAssumption, SMT
  <2>2. Polling(0).pc \notin Holding \cup {"ingest"}
    BY DEF Polling, LoopAt, Holding
  <2>3. \A m \in Loops : Keeps(loop[m])
    BY LoopTyped DEF Fits, Holds, Keeps
  <2>4. LoopsInv'
    BY <1>3, <2>1, <2>2, <2>3, PollingFits, NoneIsApart, LoopMoves DEF InboxInv
  <2>5. \A m \in Loops \ {l} : loop'[m] = loop[m]
    BY <1>3 DEF Become, InboxInv, LoopsInv
  <2> QED BY <1>3, <2>4, <2>5 DEF InboxInv, SupervisorInv, NoStrayLoop
<1> QED BY <1>1, <1>2, <1>3 DEF Attach

LEMMA BootKeeps ==
    ASSUME InboxInv, NEW l \in Loops, Boot(l) PROVE InboxInv'
<1>1. /\ Attach(l, TRUE)
      /\ UNCHANGED <<inbox, cursor, forgotten, objects, expired, torn, live, again, op, events>>
  BY DEF Boot, platform, files, history
<1>2. TablesInv' /\ Grows /\ OpsInv'
  BY <1>1, TablesStay, OperatorsStay DEF InboxInv, TablesInv, TypesInv
<1> QED BY <1>1, <1>2, Attached DEF InboxInv, SupervisorInv, NoStrayLoop, Known

LEMMA StartGenerationKeeps ==
    ASSUME InboxInv, NEW o \in Operators, NEW l \in Loops, NEW enabled, StartGeneration(o, l, enabled)
    PROVE  InboxInv'
<1>1. /\ Attach(l, enabled) /\ op[o].pc = "start" /\ op' = [op EXCEPT ![o] = OpIdle]
      /\ UNCHANGED <<inbox, cursor, forgotten, objects, expired, torn, live, again, events>>
  BY DEF StartGeneration, platform, files, history
<1>2. TablesInv' /\ Grows
  BY <1>1, TablesStay DEF InboxInv, TablesInv, TypesInv
<1>3. OpsInv' /\ \A p \in Operators \ {o} : op'[p] = op[p]
  BY <1>1, <1>2, IdleTyped, OperatorMoves DEF InboxInv, Forwarding
<1> QED BY <1>1, <1>2, <1>3, Attached DEF InboxInv, SupervisorInv, NoStrayLoop, Known

LEMMA TakeGenerationKeeps ==
    ASSUME InboxInv, NEW o \in Operators, TakeGeneration(o) PROVE InboxInv'
<1> DEFINE y == OpAt(IF active THEN "cancel" ELSE "start", attached, 0)
<1>1. /\ op[o].pc = "idle" /\ Counted /\ op' = [op EXCEPT ![o] = y]
      /\ active' = FALSE /\ attached' = {}
      /\ UNCHANGED <<inbox, cursor, forgotten, objects, expired, torn, live, again, loop, cancelled>>
  BY DEF TakeGeneration, platform, files, history
<1>2. y \in OpLocals /\ y.pc = (IF active THEN "cancel" ELSE "start") /\ y.taken = attached
  <2>1. 0 \in 0 .. MaxUpdates
    BY ConnectorAssumption, SMT
  <2> QED BY <2>1 DEF OpAt, OpLocals, InboxInv, SupervisorInv
<1> HIDE DEF y
<1>3. TablesInv' /\ Grows /\ LoopsInv'
  BY <1>1, CountedKeeps, TablesStay, NobodyMoves DEF InboxInv, TablesInv, Known
<1>4. OpsInv' /\ op'[o] = y /\ \A p \in Operators \ {o} : op'[p] = op[p]
  BY <1>1, <1>2, <1>3, OperatorMoves DEF InboxInv, Forwarding
<1>5. SupervisorInv'
  BY <1>1, <1>2, <1>4 DEF InboxInv, SupervisorInv, NoStrayLoop
<1> QED BY <1>3, <1>4, <1>5 DEF InboxInv

LEMMA CancelGenerationKeeps ==
    ASSUME InboxInv, NEW o \in Operators, CancelGeneration(o) PROVE InboxInv'
<1> DEFINE y == OpAt("wait", op[o].taken, 0)
<1>1. /\ op[o].pc = "cancel" /\ op' = [op EXCEPT ![o] = y]
      /\ cancelled' = cancelled \cup {l \in op[o].taken : loop[l].pc # "off"}
      /\ UNCHANGED <<inbox, cursor, forgotten, objects, expired, torn, live, again, loop, active, attached, events>>
  BY DEF CancelGeneration, platform, files, history
<1>2. y \in OpLocals /\ y.pc = "wait" /\ op[o].taken \subseteq Loops
  <2>1. 0 \in 0 .. MaxUpdates
    BY ConnectorAssumption, SMT
  <2> QED BY <2>1 DEF OpAt, OpLocals, InboxInv, OpsInv
<1> HIDE DEF y
<1>3. TablesInv' /\ Grows /\ LoopsInv'
  BY <1>1, TablesStay, NobodyMoves DEF InboxInv, TablesInv, TypesInv, Known
<1>4. OpsInv' /\ \A p \in Operators \ {o} : op'[p] = op[p]
  BY <1>1, <1>2, <1>3, OperatorMoves DEF InboxInv, Forwarding
<1>5. SupervisorInv'
  BY <1>1, <1>2, <1>4 DEF InboxInv, SupervisorInv, NoStrayLoop
<1> QED BY <1>3, <1>4, <1>5 DEF InboxInv

LEMMA WaitOverKeeps ==
    ASSUME InboxInv, NEW o \in Operators, GenerationEnds(o) \/ WaitEnds(o) PROVE InboxInv'
<1>1. /\ op[o].pc = "wait"
      /\ op' = [op EXCEPT ![o] = OpAt("start", {}, 0)] \/ op' = [op EXCEPT ![o] = OpIdle]
      /\ UNCHANGED <<inbox, platform, files, loop, cancelled, active, attached, history>>
      /\ Counted \/ UNCHANGED events
  BY DEF GenerationEnds, WaitEnds
<1>2. events' \in 0 .. MaxEvents
  BY <1>1, CountedKeeps DEF InboxInv, TablesInv, TypesInv
<1>3. OpAt("start", {}, 0) \in OpLocals /\ OpAt("start", {}, 0).pc = "start"
  <2>1. 0 \in 0 .. MaxUpdates
    BY ConnectorAssumption, SMT
  <2> QED BY <2>1 DEF OpAt, OpLocals
<1>4. CASE op' = [op EXCEPT ![o] = OpAt("start", {}, 0)]
  BY <1>1, <1>2, <1>3, <1>4, OperatorStepKeeps
<1>5. CASE op' = [op EXCEPT ![o] = OpIdle]
  BY <1>1, <1>2, <1>5, IdleTyped, OperatorStepKeeps
<1> QED BY <1>1, <1>4, <1>5

LEMMA CrashKeeps ==
    ASSUME InboxInv, Crash PROVE InboxInv'
<1>1. /\ Counted /\ loop' = [l \in Loops |-> LoopOff] /\ cancelled' = {}
      /\ active' = FALSE /\ attached' = {} /\ op' = [o \in Operators |-> OpIdle]
      /\ objects' = {inbox[u].object : u \in Updates} \cap objects
      /\ UNCHANGED <<inbox, cursor, forgotten, expired, torn, live, again>>
  BY DEF Crash, platform, swept, history
<1>2. LoopOff.pc = "off"
  BY DEF LoopOff, LoopAt
<1>3. LoopsInv'
  BY <1>1, <1>2, OffFits, NoneIsApart DEF LoopsInv, Holding
<1>4. OpsInv'
  <2>1. \A o \in Operators : op'[o] = OpIdle
    BY <1>1
  <2>2. op' \in [Operators -> OpLocals]
    BY <1>1, IdleTyped
  <2>3. \A o \in Operators : op'[o].pc \notin Forwarding /\ op'[o].pc # "stamp"
    BY <2>1, IdleTyped DEF Forwarding
  <2> QED BY <2>2, <2>3, Zenon DEF OpsInv, OpLocals
<1>5. SupervisorInv'
  BY <1>1, <1>2 DEF SupervisorInv, NoStrayLoop
<1>6. FilesInv'
  <2>1. Known' \subseteq Known /\ \A u \in Updates : inbox[u].object \in Known => inbox[u].object \in Known'
    BY <1>1 DEF Known
  <2>2. IsFiniteSet(Known')
    BY <2>1, FS_Subset DEF InboxInv, TablesInv, FilesInv
  <2> QED BY <1>1, <2>1, <2>2 DEF InboxInv, TablesInv, FilesInv
<1>7. TypesInv'
  BY <1>1, CountedKeeps DEF InboxInv, TablesInv, TypesInv
<1> QED BY <1>1, <1>3, <1>4, <1>5, <1>6, <1>7 DEF InboxInv, TablesInv, RowsInv, CursorInv

----------------------------------------------------------------------------
(* Triage *)

\* Only a row that has reached no conversation is dismissed.
LEMMA DismissKeeps ==
    ASSUME InboxInv, NEW u \in Updates, Dismiss(u) PROVE InboxInv'
<1> DEFINE r == Row("dismissed", inbox[u].object, inbox[u].forwarded)
<1>1. /\ inbox[u].status = "quarantined" /\ Counted /\ inbox' = [inbox EXCEPT ![u] = r]
      /\ UNCHANGED <<cursor, forgotten, objects, expired, torn, live, again, loop, cancelled, active, attached, op>>
  BY DEF Dismiss, platform, files, supervisor, history
<1>2. r.status = "dismissed" /\ r.object = inbox[u].object /\ r.forwarded = inbox[u].forwarded /\ r \in Rows
  BY DEF Row, Rows, InboxInv, TablesInv, TypesInv
<1> HIDE DEF r
<1>3. /\ inbox' \in [Updates -> Rows] /\ inbox'[u] = r
      /\ \A v \in Updates \ {u} : inbox'[v] = inbox[v]
      /\ \A v \in Updates : inbox'[v].object = inbox[v].object /\ inbox'[v].forwarded = inbox[v].forwarded
  BY <1>1, <1>2 DEF InboxInv, TablesInv, TypesInv
<1>4. \A v \in Updates : /\ inbox[v].status = "none" <=> inbox'[v].status = "none"
                         /\ inbox[v].status = "committed" => inbox'[v].status = "committed"
  BY <1>1, <1>2, <1>3
<1>5. Grows
  BY <1>4 DEF Grows
<1>6. \A m \in Loops : Keeps(loop[m])
  BY <1>1, <1>3, LoopTyped DEF Fits, Holds, Keeps, Known
<1>7. LoopsInv' /\ OpsInv'
  BY <1>1, <1>5, <1>6, LoopsStay, OperatorsStay DEF InboxInv
<1>8. TypesInv' /\ CursorInv' /\ RowsInv'
  BY <1>1, <1>3, <1>4, CountedKeeps DEF InboxInv, TablesInv, TypesInv, CursorInv, RowsInv
<1>9. FilesInv'
  BY <1>1, <1>3, <1>4 DEF InboxInv, TablesInv, FilesInv, Known
<1>10. SupervisorInv'
  BY <1>1 DEF InboxInv, SupervisorInv, NoStrayLoop
<1> QED BY <1>7, <1>8, <1>9, <1>10 DEF InboxInv, TablesInv

LEMMA BeginReplayKeeps ==
    ASSUME InboxInv, NEW o \in Operators, NEW u \in Updates, BeginReplay(o, u) PROVE InboxInv'
<1> DEFINE y == OpAt("ingest", {}, u)
<1>1. /\ op[o].pc = "idle" /\ Counted /\ inbox[u].status = "committed" /\ op' = [op EXCEPT ![o] = y]
      /\ UNCHANGED <<inbox, platform, files, loop, cancelled, active, attached, history>>
  BY DEF BeginReplay
<1>2. y \in OpLocals /\ y.pc = "ingest" /\ y.update = u
  <2>1. u \in 0 .. MaxUpdates
    BY ConnectorAssumption, SMT DEF Updates
  <2> QED BY <2>1 DEF OpAt, OpLocals
<1> HIDE DEF y
<1> QED BY <1>1, <1>2, CountedKeeps, OperatorStepKeeps DEF InboxInv, TablesInv

LEMMA ReplayFailsKeeps ==
    ASSUME InboxInv, NEW o \in Operators, ReplayFails(o) PROVE InboxInv'
BY IdleTyped, CountedKeeps, OperatorStepKeeps DEF ReplayFails, InboxInv, TablesInv

LEMMA ReplayIngestKeeps ==
    ASSUME InboxInv, NEW o \in Operators, ReplayIngest(o) PROVE InboxInv'
<1> DEFINE u == op[o].update
           y == OpAt("stamp", {}, u)
<1>1. /\ op[o].pc = "ingest" /\ again' = [again EXCEPT ![u] = @ + 1] /\ op' = [op EXCEPT ![o] = y]
      /\ UNCHANGED <<inbox, cursor, forgotten, objects, expired, torn, live, loop, cancelled, active, attached, events>>
  BY DEF ReplayIngest, platform, files
<1>2. u \in Updates /\ inbox[u].status = "committed"
  BY <1>1 DEF InboxInv, OpsInv, Forwarding
<1>3. y \in OpLocals /\ y.pc = "stamp" /\ y.update = u
  <2>1. u \in 0 .. MaxUpdates
    BY <1>2, ConnectorAssumption, SMT DEF Updates
  <2> QED BY <2>1 DEF OpAt, OpLocals
<1> HIDE DEF u, y
<1>4. /\ again \in [Updates -> Nat] /\ live \in [Updates -> Nat]
      /\ again' = [v \in Updates |-> IF v = u THEN again[u] + 1 ELSE again[v]]
  BY <1>1, <1>2 DEF InboxInv, TablesInv, TypesInv
<1>5. /\ again' \in [Updates -> Nat] /\ again'[u] > 0
      /\ \A v \in Updates : /\ v # u => again'[v] = again[v]
                            /\ again[v] > 0 => again'[v] > 0
                            /\ live[v] + again[v] > 0 => live[v] + again'[v] > 0
  BY <1>2, <1>4
<1>6. Grows /\ \A m \in Loops : Keeps(loop[m])
  BY <1>1, LoopTyped DEF Fits, Holds, Keeps, Grows, Known
<1>7. OpsInv'
  BY <1>1, <1>2, <1>3, <1>5, <1>6, OperatorMoves DEF InboxInv
<1>8. SupervisorInv'
  BY <1>1, <1>3, NoneIsLost
<1>9. TypesInv' /\ CursorInv' /\ FilesInv'
  BY <1>1, <1>5 DEF InboxInv, TablesInv, TypesInv, CursorInv, FilesInv, Known
<1>10. RowsInv'
  <2> SUFFICES ASSUME NEW v \in Updates
               PROVE  /\ live[v] <= 1
                      /\ live[v] + again'[v] > 0 => inbox[v].status = "committed"
                      /\ inbox[v].forwarded => live[v] + again'[v] > 0
    BY <1>1 DEF RowsInv
  <2> QED BY <1>2, <1>5 DEF InboxInv, TablesInv, RowsInv
<1>11. LoopsInv'
  BY <1>1, <1>6, LoopsStay DEF InboxInv
<1> QED BY <1>7, <1>8, <1>9, <1>10, <1>11 DEF InboxInv, TablesInv

LEMMA ReplayStampKeeps ==
    ASSUME InboxInv, NEW o \in Operators, ReplayStamp(o) PROVE InboxInv'
<1>1. /\ op[o].pc = "stamp" /\ Stamp(op[o].update) /\ op' = [op EXCEPT ![o] = OpIdle]
      /\ UNCHANGED <<cursor, forgotten, objects, expired, torn, live, again, loop, cancelled, active, attached, events>>
  BY DEF ReplayStamp, platform, files, history
<1>2. op[o].update \in Updates /\ again[op[o].update] > 0
  BY <1>1 DEF InboxInv, OpsInv, Forwarding
<1>3. live[op[o].update] + again[op[o].update] > 0
  <2>1. live[op[o].update] \in Nat /\ again[op[o].update] \in Nat
    BY <1>2 DEF InboxInv, TablesInv, TypesInv
  <2> QED BY <1>2, <2>1, SMT
<1>4. TablesInv' /\ Grows /\ \A m \in Loops : Keeps(loop[m])
  BY <1>1, <1>2, <1>3, Stamped DEF InboxInv, TablesInv, TypesInv
<1>5. LoopsInv'
  BY <1>1, <1>4, LoopsStay DEF InboxInv
<1>6. OpsInv'
  BY <1>1, <1>4, IdleTyped, OperatorMoves DEF InboxInv, Forwarding
<1>7. SupervisorInv'
  BY <1>1, IdleTyped, NoneIsLost
<1> QED BY <1>4, <1>5, <1>6, <1>7 DEF InboxInv

\* A sweep condemns a payload before it removes it.
LEMMA SweepKeeps ==
    ASSUME InboxInv, NEW k \in objects, SweepReads(k) \/ SweepRemoves(k) PROVE InboxInv'
<1>1. /\ UNCHANGED <<inbox, cursor, forgotten, live, again, loop, cancelled, active, attached, op>>
      /\ Counted \/ UNCHANGED events
  BY DEF SweepReads, SweepRemoves, platform, supervisor, history
<1>2. UNCHANGED Known
  BY DEF SweepReads, SweepRemoves, swept, Known
<1>3. Grows /\ \A m \in Loops : Keeps(loop[m])
  BY <1>1, <1>2, LoopTyped DEF Fits, Holds, Keeps, Grows
<1>4. LoopsInv' /\ OpsInv'
  BY <1>1, <1>3, LoopsStay, OperatorsStay DEF InboxInv
<1>5. TypesInv' /\ CursorInv' /\ RowsInv' /\ FilesInv'
  BY <1>1, <1>2, CountedKeeps DEF InboxInv, TablesInv, TypesInv, CursorInv, RowsInv, FilesInv
<1>6. SupervisorInv'
  BY <1>1 DEF InboxInv, SupervisorInv, NoStrayLoop
<1> QED BY <1>4, <1>5, <1>6 DEF InboxInv, TablesInv

----------------------------------------------------------------------------
(* All steps together *)

LEMMA InitHolds == Init => InboxInv
<1> SUFFICES ASSUME Init PROVE InboxInv
  OBVIOUS
<1>1. /\ inbox = [u \in Updates |-> NoRow] /\ cursor = 0 /\ objects = {} /\ forgotten = 1
      /\ loop = [l \in Loops |-> LoopOff] /\ cancelled = {} /\ active = FALSE /\ attached = {}
      /\ op = [o \in Operators |-> OpIdle]
      /\ live = [u \in Updates |-> 0] /\ again = [u \in Updates |-> 0] /\ expired = {} /\ torn = {} /\ events = 0
  BY DEF Init
<1>2. /\ NoRow \in Rows /\ NoRow.status = "none" /\ NoRow.object = NoObject /\ NoRow.forwarded = FALSE
      /\ LoopOff.pc = "off"
  BY DEF NoRow, Row, Rows, NoObject, LoopOff, LoopAt
<1>3. TypesInv /\ RowsInv
  BY <1>1, <1>2, ConnectorAssumption, SMT DEF TypesInv, RowsInv
<1>4. CursorInv
  <2>1. \A u \in Updates : ~(u < 0) /\ ~(u < 1)
    BY ConnectorAssumption, SMT DEF Updates
  <2> QED BY <1>1, <2>1, ConnectorAssumption, SMT DEF CursorInv
<1>5. FilesInv
  BY <1>1, <1>2, FS_EmptySet DEF FilesInv, Known
<1>6. LoopsInv
  BY <1>1, <1>2, OffFits, NoneIsApart DEF LoopsInv, Holding
<1>7. OpsInv
  <2>1. op \in [Operators -> OpLocals] /\ \A o \in Operators : op[o] = OpIdle
    BY <1>1, IdleTyped
  <2>2. \A o \in Operators : op[o].pc \notin Forwarding /\ op[o].pc # "stamp"
    BY <2>1, IdleTyped DEF Forwarding
  <2> QED BY <2>1, <2>2, Zenon DEF OpsInv, OpLocals
<1>8. SupervisorInv
  BY <1>1, <1>2 DEF SupervisorInv, NoStrayLoop
<1> QED BY <1>3, <1>4, <1>5, <1>6, <1>7, <1>8 DEF InboxInv, TablesInv

LEMMA StutterKeeps == ASSUME InboxInv, UNCHANGED vars PROVE InboxInv'
<1>1. /\ UNCHANGED <<inbox, cursor, objects, forgotten, loop, cancelled, active, attached, op>>
      /\ UNCHANGED <<live, again, expired, torn, events>>
  BY DEF vars
<1> QED BY <1>1 DEF InboxInv, TablesInv, TypesInv, RowsInv, CursorInv, FilesInv, Known, LoopsInv, OpsInv,
                    SupervisorInv, NoStrayLoop

LEMMA StepKeeps == InboxInv /\ [Next]_vars => InboxInv'
<1> SUFFICES ASSUME InboxInv, [Next]_vars PROVE InboxInv'
  OBVIOUS
<1>1. ASSUME NEW l \in Loops, LoopStep(l) PROVE InboxInv'
  BY <1>1, ReadOffsetKeeps, GetUpdatesFailsKeeps, AcceptKeeps, AcceptFailsKeeps, IngestKeeps,
     MarkForwardedKeeps, ForwardFailsKeeps, FindCursorKeeps, SaveCursorKeeps, EndKeeps,
     GetUpdatesKeeps, SaveObjectKeeps, SaveSidecarKeeps, SaveFailsKeeps, Zenon DEF LoopStep
<1>2. ASSUME NEW o \in Operators, OperatorStep(o) PROVE InboxInv'
  BY <1>2, TakeGenerationKeeps, CancelGenerationKeeps, WaitOverKeeps, ReplayIngestKeeps,
     ReplayStampKeeps, ReplayFailsKeeps, StartGenerationKeeps, BeginReplayKeeps, Zenon DEF OperatorStep
<1>3. CASE Next
  BY <1>1, <1>2, <1>3, BootKeeps, DismissKeeps, SweepKeeps, CrashKeeps, Zenon DEF Next
<1> QED BY <1>3, StutterKeeps

THEOREM Always == Spec => []InboxInv
BY InitHolds, StepKeeps, PTL DEF Spec

\* All variables keep their types, and a loop is always within what it has pulled.
THEOREM TypesHold == Spec => []TypeOK
<1>1. InboxInv => TypeOK
  <2> SUFFICES ASSUME InboxInv PROVE TypeOK
    OBVIOUS
  <2>1. \A l \in Loops : loop[l] \in Locals
    BY LoopTyped DEF Typed
  <2>2. loop \in [Loops -> Locals]
    BY <2>1 DEF InboxInv, LoopsInv
  <2>3. Locals \subseteq [pc : {"off", "poll", "fetch", "prepare", "save", "accept",
                                "quarantine", "ingest", "stamp", "findCursor", "createCursor", "updateCursor"},
                          at : 0 .. MaxUpdates + 1, last : 0 .. MaxUpdates,
                          object : Nat, attempts : 0 .. MaxAttempts - 1]
    BY DEF Locals, Before, After
  <2>4. cursor \in Nat /\ forgotten \in Nat
    BY ConnectorAssumption, SMT DEF InboxInv, TablesInv, CursorInv
  <2> QED BY <2>2, <2>3, <2>4 DEF TypeOK, InboxInv, TablesInv, TypesInv, FilesInv, Known, OpsInv, OpLocals,
                                    SupervisorInv, Rows
<1> QED BY <1>1, Always, PTL

\* What the cursor is past and what the platform has forgotten is in the inbox, for
\* any number of loops that overlap, fail and die (cursor.go:34-36).
THEOREM NothingIsSkipped == Spec => []NothingSkipped
<1>1. InboxInv => NothingSkipped
  BY DEF InboxInv, TablesInv, CursorInv, NothingSkipped
<1> QED BY <1>1, Always, PTL

\* The loops add an update to its conversation once at most (adapter.go:332-334).
THEOREM LiveIsOnce == Spec => []LiveOnce
<1>1. InboxInv => LiveOnce
  BY DEF InboxInv, TablesInv, RowsInv, LiveOnce
<1> QED BY <1>1, Always, PTL

\* A message in a conversation has a committed row, and a stamped row has its message
\* in a conversation (inbox.go:47-50, 209-211).
THEOREM InboxIsTrue == Spec => []InboxTellsTheTruth
<1>1. InboxInv => InboxTellsTheTruth
  BY DEF InboxInv, TablesInv, RowsInv, InboxTellsTheTruth
<1> QED BY <1>1, Always, PTL

\* A row has its payload until that has expired, unless a sweep met it while it was
\* being saved (adapter.go:227-230, payload.go:284-289).
THEOREM PayloadsStay == Spec => []PayloadStays
<1>1. InboxInv => PayloadStays
  BY DEF InboxInv, TablesInv, FilesInv, Known, PayloadStays
<1> QED BY <1>1, Always, PTL

\* A loop that runs is attached, cancelled, or about to be cancelled by a reload.
THEOREM LoopsAreKept == Spec => []NoStrayLoop
<1>1. InboxInv => NoStrayLoop
  BY DEF InboxInv, SupervisorInv
<1> QED BY <1>1, Always, PTL
=============================================================================
