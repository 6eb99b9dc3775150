----------------------------- MODULE ConnectorInbox -----------------------------
(***************************************************************************)
(* A chat connector: the supervisor that starts and stops the poll loop of *)
(* one Telegram installation, the loop that pulls updates and accepts them *)
(* into the inbox, and the operators who reload connectors, dismiss        *)
(* quarantined rows and replay rows that never reached a conversation.     *)
(*                                                                         *)
(* A step is one call to the database, the payload store or the platform.  *)
(* Any of them may fail while the bound on events allows, or because the loop   *)
(* has been cancelled; a statement that fails may have been committed.     *)
(* Updates are 1, 2, ... in the order of the platform.                     *)
(***************************************************************************)
EXTENDS Integers, FiniteSets

CONSTANTS
    Loops,       \* names for poll loops, one for each that may run at a time
    Operators,   \* administrators that reload and replay
    MaxUpdates,  \* bound: updates the platform has for the installation
    MaxAttempts, \* poll failures in a row after which a loop gives up
    MaxEvents    \* bound: failures, crashes, and what operators and time do, together

ASSUME ConnectorAssumption ==
    /\ MaxUpdates \in Nat /\ MaxAttempts \in Nat \ {0} /\ MaxEvents \in Nat

VARIABLES
    inbox,     \* table chat_connector_inboxes: [Updates -> row]
    cursor,    \* table chat_connector_cursors: the next update, 0 without a row
    objects,   \* payload files that a row or a loop refers to
    forgotten, \* the platform keeps updates from this one on
    loop,      \* [Loops -> program counter and locals of Runner.Run and PollOnce]
    cancelled, \* the loops whose context is cancelled
    active,    \* Supervisor.cancel # nil
    attached,  \* Supervisor.done: the loops of the generation that is attached
    op,        \* [Operators -> program counter and locals]
    live,      \* history: how often loops have ingested each update
    again,     \* history: how often replays have ingested each update
    expired,   \* history: the payloads past their retention when a sweep looked at them
    torn,      \* history: the payloads a sweep looked at while they were being saved
    events     \* history: how many of those there have been

vars == <<inbox, cursor, objects, forgotten, loop, cancelled, active, attached, op,
          live, again, expired, torn, events>>
swept == <<expired, torn>>
files == <<objects, expired, torn>>
platform == <<cursor, forgotten>>
history == <<live, again>>
supervisor == <<cancelled, active, attached, op>>

Updates == 1 .. MaxUpdates
NoObject == 0
Row(status, object, forwarded) == [status |-> status, object |-> object, forwarded |-> forwarded]
NoRow == Row("none", NoObject, FALSE)

\* A loop at pc: the update it is at, the last of its batch, the payload file it
\* has saved for it, and the failures of its streak.
LoopAt(pc, at, last, object, attempts) ==
    [pc |-> pc, at |-> at, last |-> last, object |-> object, attempts |-> attempts]
LoopOff == LoopAt("off", 0, 0, NoObject, 0)
Polling(attempts) == LoopAt("poll", 0, 0, NoObject, attempts)

OpAt(pc, taken, update) == [pc |-> pc, taken |-> taken, update |-> update]
OpIdle == OpAt("idle", {}, 0)

Init ==
    /\ inbox = [u \in Updates |-> NoRow] /\ cursor = 0
    /\ objects = {} /\ forgotten = 1
    /\ loop = [l \in Loops |-> LoopOff] /\ cancelled = {}
    /\ active = FALSE /\ attached = {}
    /\ op = [o \in Operators |-> OpIdle]
    /\ live = [u \in Updates |-> 0] /\ again = [u \in Updates |-> 0] /\ expired = {} /\ torn = {}
    /\ events = 0

Counted == events < MaxEvents /\ events' = events + 1

Become(l, r) == loop' = [loop EXCEPT ![l] = r]
Within(l, pc) == Become(l, LoopAt(pc, loop[l].at, loop[l].last, NoObject, 0))

\* A call fails: a fault, or the cancellation of the context it was made with.
CallFails(l) ==
    \/ l \in cancelled /\ UNCHANGED events
    \/ Counted

----------------------------------------------------------------------------
(* PollOnce *)

\* The offset of the next pull; an installation without a cursor starts at the
\* first update the platform has.
ReadOffset(l) ==
    /\ loop[l].pc = "poll" /\ l \notin cancelled
    /\ Become(l, LoopAt("fetch", cursor, 0, NoObject, loop[l].attempts))
    /\ UNCHANGED <<inbox, platform, files, supervisor, history, events>>

Later(a, b) == IF a < b THEN b ELSE a

\* GetUpdates returns some of the updates from the offset on, or none so far, and
\* tells the platform that those before the offset may be forgotten.
GetUpdates(l, last) ==
    LET first == Later(loop[l].at, forgotten)
    IN /\ loop[l].pc = "fetch" /\ last >= first - 1
       /\ forgotten' = first
       /\ Become(l, IF last < first THEN Polling(0) ELSE LoopAt("prepare", first, last, NoObject, 0))
       /\ UNCHANGED <<inbox, cursor, files, supervisor, history, events>>

\* Mutant: the budget is compared one failure too late.
RetriesOnceMore(l) ==
    /\ loop[l].pc = "fetch" /\ CallFails(l)
    /\ forgotten' \in {forgotten, Later(loop[l].at, forgotten)}
    /\ Become(l, IF loop[l].attempts >= MaxAttempts THEN LoopOff
                 ELSE Polling(loop[l].attempts + 1))
    /\ UNCHANGED <<inbox, cursor, files, supervisor, history>>

\* A failure that can be retried: the loop waits and polls again, until it is
\* cancelled or the streak has used up its budget.
GetUpdatesFails(l) ==
    /\ loop[l].pc = "fetch" /\ CallFails(l)
    /\ forgotten' \in {forgotten, Later(loop[l].at, forgotten)}
    /\ Become(l, IF loop[l].attempts + 1 >= MaxAttempts THEN LoopOff
                 ELSE Polling(loop[l].attempts + 1))
    /\ UNCHANGED <<inbox, cursor, files, supervisor, history>>

\* Mutant: the file is named after the update, so two deliveries share it.
SharedObject(u) == u

\* The store draws 16 random bytes: a name that no file has or has had.
FreshObject(u) ==
    LET names == objects \cup expired \cup torn \cup {inbox[v].object : v \in Updates}
    IN CHOOSE k \in 1 .. Cardinality(names) + 1 : k \notin names

\* The bytes are kept before the verdict: Save writes the object and creates its
\* sidecar, ...
SaveObject(l) ==
    LET object == FreshObject(loop[l].at)
    IN /\ loop[l].pc = "prepare"
       /\ objects' = objects \cup {object}
       /\ Become(l, LoopAt("save", loop[l].at, loop[l].last, object, 0))
       /\ UNCHANGED <<inbox, platform, swept, supervisor, history, events>>

\* ... and then gives the sidecar its content.  The grant of the conversation has
\* been read before; grants come and go, so a redelivery may find another answer.
SaveSidecar(l, authorized) ==
    /\ loop[l].pc = "save"
    /\ Become(l, LoopAt(IF authorized THEN "accept" ELSE "quarantine",
                        loop[l].at, loop[l].last, loop[l].object, 0))
    /\ UNCHANGED <<inbox, platform, files, supervisor, history, events>>

\* A sidecar that cannot be written takes its object with it, and ends the loop.
SaveFails(l) ==
    /\ loop[l].pc = "save" /\ Counted
    /\ objects' = objects \ {loop[l].object}
    /\ Become(l, LoopOff)
    /\ UNCHANGED <<inbox, platform, swept, supervisor, history>>

Verdict(l) == IF loop[l].pc = "accept" THEN "committed" ELSE "quarantined"

\* INSERT ... ON CONFLICT DO NOTHING on the idempotency key.
Insert(u, status, object) ==
    inbox' = IF inbox[u].status # "none" THEN inbox
             ELSE [inbox EXCEPT ![u] = Row(status, object, FALSE)]

\* Mutant: a redelivered copy of a committed row is forwarded as well.
AcceptAny(l) ==
    LET u == loop[l].at
    IN /\ loop[l].pc \in {"accept", "quarantine"}
       /\ Insert(u, Verdict(l), loop[l].object)
       /\ Within(l, IF loop[l].pc = "accept" THEN "ingest" ELSE "findCursor")
       /\ UNCHANGED <<platform, files, supervisor, history, events>>

\* Accept: only a new committed row goes on to the conversation, and the copy of
\* the payload that came with a duplicate is removed.
Accept(l) ==
    LET u == loop[l].at
        duplicate == inbox[u].status # "none"
    IN /\ loop[l].pc \in {"accept", "quarantine"}
       /\ Insert(u, Verdict(l), loop[l].object)
       /\ objects' = IF duplicate THEN objects \ {loop[l].object} ELSE objects
       /\ Within(l, IF loop[l].pc = "accept" /\ ~duplicate THEN "ingest" ELSE "findCursor")
       /\ UNCHANGED <<platform, swept, supervisor, history, events>>

\* The statement fails after all, or only its answer is lost.
AcceptFails(l) ==
    /\ loop[l].pc \in {"accept", "quarantine"} /\ CallFails(l)
    /\ \/ objects' = objects \ {loop[l].object} /\ UNCHANGED inbox
       \/ /\ inbox[loop[l].at].status = "none"
          /\ Insert(loop[l].at, Verdict(l), loop[l].object)
          /\ UNCHANGED objects
    /\ Become(l, LoopOff)
    /\ UNCHANGED <<platform, swept, supervisor, history>>

Stamp(u) == inbox' = [inbox EXCEPT ![u] = Row(inbox[u].status, inbox[u].object, TRUE)]

\* InboundCommitted resumes or creates the conversation and adds the message (every
\* update here has a text: one without is only stamped), ...
Ingest(l) ==
    /\ loop[l].pc = "ingest"
    /\ live' = [live EXCEPT ![loop[l].at] = @ + 1]
    /\ Within(l, "stamp")
    /\ UNCHANGED <<inbox, platform, files, supervisor, again, events>>

\* ... and stamps the row.
MarkForwarded(l) ==
    /\ loop[l].pc = "stamp"
    /\ Stamp(loop[l].at)
    /\ Within(l, "findCursor")
    /\ UNCHANGED <<platform, files, supervisor, history, events>>

\* Mutant: the row is stamped whether or not the message is in the conversation.
FailureIsStamped(l) ==
    /\ loop[l].pc \in {"ingest", "stamp"} /\ CallFails(l)
    /\ Stamp(loop[l].at)
    /\ Within(l, "findCursor")
    /\ UNCHANGED <<platform, files, supervisor, history>>

\* A failure of either is logged and swallowed; what failed may have happened.
ForwardFails(l) ==
    /\ loop[l].pc \in {"ingest", "stamp"} /\ CallFails(l)
    /\ \/ UNCHANGED live
       \/ loop[l].pc = "ingest" /\ live' = [live EXCEPT ![loop[l].at] = @ + 1]
    /\ Within(l, "findCursor")
    /\ UNCHANGED <<inbox, platform, files, supervisor, again>>

\* CursorStore.Save looks for the row, ...
FindCursor(l) ==
    /\ loop[l].pc = "findCursor"
    /\ Within(l, IF cursor = 0 THEN "createCursor" ELSE "updateCursor")
    /\ UNCHANGED <<inbox, platform, files, supervisor, history, events>>

Covered(l) ==
    IF loop[l].at < loop[l].last THEN LoopAt("prepare", loop[l].at + 1, loop[l].last, NoObject, 0)
    ELSE Polling(0)

\* Mutant: the cursor is moved past the batch and not past the update.
SaveFrontier(l) ==
    /\ loop[l].pc = "updateCursor" \/ (loop[l].pc = "createCursor" /\ cursor = 0)
    /\ cursor' = loop[l].last + 1
    /\ Become(l, Covered(l))
    /\ UNCHANGED <<inbox, forgotten, files, supervisor, history, events>>

\* ... and updates or creates it.
SaveCursor(l) ==
    /\ loop[l].pc = "updateCursor" \/ (loop[l].pc = "createCursor" /\ cursor = 0)
    /\ cursor' = loop[l].at + 1
    /\ Become(l, Covered(l))
    /\ UNCHANGED <<inbox, forgotten, files, supervisor, history, events>>

\* Another loop has created the row in between.
CreateConflict(l) ==
    /\ loop[l].pc = "createCursor" /\ cursor # 0
    /\ Become(l, LoopOff)
    /\ UNCHANGED <<inbox, platform, files, supervisor, history, events>>

\* Any other failure ends the loop: a store that fails, a grant that is missing, a
\* token the platform refuses.
StopsOnError(l) ==
    /\ loop[l].pc \in {"poll", "fetch", "prepare", "findCursor", "createCursor", "updateCursor"}
    /\ CallFails(l)
    /\ Become(l, LoopOff)
    /\ UNCHANGED <<inbox, platform, files, supervisor, history>>

----------------------------------------------------------------------------
(* Supervisor *)

\* A loop that has ended, and that no reload waits for: its name is free.
Free(l) == loop[l].pc = "off" /\ \A o \in Operators : l \notin op[o].taken

\* Start: nothing if connectors are attached; otherwise a loop for the
\* installation, or none when it is disabled or its token is missing.
Attach(l, enabled) ==
    \/ active /\ UNCHANGED <<loop, cancelled, active, attached>>
    \/ /\ ~active /\ active' = TRUE
       /\ \/ ~enabled /\ attached' = {} /\ UNCHANGED <<loop, cancelled>>
          \/ /\ enabled /\ Free(l)
             /\ attached' = {l} /\ cancelled' = cancelled \ {l}
             /\ Become(l, Polling(0))

\* The connector worker starts with the process (when a reload has left the
\* process without connectors, the next one does the same).
Boot(l) ==
    /\ ~active /\ \A o \in Operators : op[o] = OpIdle
    /\ Attach(l, TRUE)
    /\ UNCHANGED <<inbox, platform, files, op, history, events>>

\* Reload is Stop and Start.  Stop takes the generation under the lock, ...
TakeGeneration(o) ==
    /\ op[o].pc = "idle" /\ Counted
    /\ op' = [op EXCEPT ![o] = OpAt(IF active THEN "cancel" ELSE "start", attached, 0)]
    /\ active' = FALSE /\ attached' = {}
    /\ UNCHANGED <<inbox, platform, files, loop, cancelled, history>>

\* ... cancels it, ...
CancelGeneration(o) ==
    /\ op[o].pc = "cancel"
    /\ cancelled' = cancelled \cup {l \in op[o].taken : loop[l].pc # "off"}
    /\ op' = [op EXCEPT ![o] = OpAt("wait", op[o].taken, 0)]
    /\ UNCHANGED <<inbox, platform, files, loop, active, attached, history, events>>

\* ... and waits for its loops,
GenerationEnds(o) ==
    /\ op[o].pc = "wait" /\ \A l \in op[o].taken : loop[l].pc = "off"
    /\ op' = [op EXCEPT ![o] = OpAt("start", {}, 0)]
    /\ UNCHANGED <<inbox, platform, files, loop, cancelled, active, attached, history, events>>

\* or gives up when its time is over: the reload fails without a new generation.
WaitEnds(o) ==
    /\ op[o].pc = "wait" /\ Counted
    /\ op' = [op EXCEPT ![o] = OpIdle]
    /\ UNCHANGED <<inbox, platform, files, loop, cancelled, active, attached, history>>

\* Mutant: Start does not look whether connectors are attached.
StartAnyway(o, l, enabled) ==
    /\ op[o].pc = "start" /\ Free(l)
    /\ active' = TRUE /\ attached' = {l}
    /\ Become(l, Polling(0)) /\ cancelled' = cancelled \ {l}
    /\ op' = [op EXCEPT ![o] = OpIdle]
    /\ UNCHANGED <<inbox, platform, files, history, events>>

StartGeneration(o, l, enabled) ==
    /\ op[o].pc = "start"
    /\ Attach(l, enabled)
    /\ op' = [op EXCEPT ![o] = OpIdle]
    /\ UNCHANGED <<inbox, platform, files, history, events>>

\* The process dies, and with it the loops and what operators were doing.
Crash ==
    /\ Counted
    /\ loop' = [l \in Loops |-> LoopOff] /\ cancelled' = {}
    /\ active' = FALSE /\ attached' = {}
    /\ op' = [o \in Operators |-> OpIdle]
    /\ objects' = {inbox[u].object : u \in Updates} \cap objects
    /\ UNCHANGED <<inbox, platform, swept, history>>

----------------------------------------------------------------------------
(* Triage *)

Dismiss(u) ==
    /\ inbox[u].status = "quarantined" /\ Counted
    /\ inbox' = [inbox EXCEPT ![u] = Row("dismissed", inbox[u].object, inbox[u].forwarded)]
    /\ UNCHANGED <<platform, files, loop, supervisor, history>>

\* ReplayInboxRow rebuilds the event of a committed row from its payload, stamped
\* or not, ...
BeginReplay(o, u) ==
    /\ op[o].pc = "idle" /\ Counted
    /\ inbox[u].status = "committed" /\ inbox[u].object \in objects
    /\ op' = [op EXCEPT ![o] = OpAt("ingest", {}, u)]
    /\ UNCHANGED <<inbox, platform, files, loop, cancelled, active, attached, history>>

\* ... adds the message, ...
ReplayIngest(o) ==
    /\ op[o].pc = "ingest"
    /\ again' = [again EXCEPT ![op[o].update] = @ + 1]
    /\ op' = [op EXCEPT ![o] = OpAt("stamp", {}, op[o].update)]
    /\ UNCHANGED <<inbox, platform, files, loop, cancelled, active, attached, live, events>>

\* ... and stamps the row.
ReplayStamp(o) ==
    /\ op[o].pc = "stamp"
    /\ Stamp(op[o].update)
    /\ op' = [op EXCEPT ![o] = OpIdle]
    /\ UNCHANGED <<platform, files, loop, cancelled, active, attached, history, events>>

ReplayFails(o) ==
    /\ op[o].pc \in {"ingest", "stamp"} /\ Counted
    /\ op' = [op EXCEPT ![o] = OpIdle]
    /\ UNCHANGED <<inbox, platform, files, loop, cancelled, active, attached, history>>

\* Purge, the hourly sweep, reads the sidecar of a payload and condemns it when its
\* retention is over, or when the sidecar says nothing, as it does while the payload
\* is being saved, ...
SweepReads(k) ==
    /\ k \in objects /\ Counted
    /\ IF \E l \in Loops : loop[l].pc = "save" /\ loop[l].object = k
       THEN torn' = torn \cup {k} /\ UNCHANGED expired
       ELSE expired' = expired \cup {k} /\ UNCHANGED torn
    /\ UNCHANGED <<inbox, platform, objects, loop, supervisor, history>>

\* ... and then removes what it has condemned.
SweepRemoves(k) ==
    /\ k \in objects \cap (expired \cup torn)
    /\ objects' = objects \ {k}
    /\ UNCHANGED <<inbox, platform, swept, loop, supervisor, history, events>>

LoopStep(l) ==
    \/ ReadOffset(l) \/ GetUpdatesFails(l) \/ Accept(l) \/ AcceptFails(l) \/ Ingest(l)
    \/ SaveObject(l) \/ SaveFails(l) \/ MarkForwarded(l) \/ ForwardFails(l) \/ FindCursor(l) \/ SaveCursor(l)
    \/ CreateConflict(l) \/ StopsOnError(l)
    \/ \E last \in 0 .. MaxUpdates : GetUpdates(l, last)
    \/ \E authorized \in BOOLEAN : SaveSidecar(l, authorized)

OperatorStep(o) ==
    \/ TakeGeneration(o) \/ CancelGeneration(o) \/ GenerationEnds(o) \/ WaitEnds(o)
    \/ ReplayIngest(o) \/ ReplayStamp(o) \/ ReplayFails(o)
    \/ \E l \in Loops, enabled \in BOOLEAN : StartGeneration(o, l, enabled)
    \/ \E u \in Updates : BeginReplay(o, u)

Next ==
    \/ \E l \in Loops : LoopStep(l) \/ Boot(l)
    \/ \E o \in Operators : OperatorStep(o)
    \/ \E u \in Updates : Dismiss(u)
    \/ \E k \in objects : SweepReads(k) \/ SweepRemoves(k)
    \/ Crash

Spec == Init /\ [][Next]_vars

----------------------------------------------------------------------------
(* Properties *)

\* Types.
TypeOK ==
    /\ inbox \in [Updates -> [status : {"none", "committed", "quarantined", "dismissed"},
                             object : Nat, forwarded : BOOLEAN]]
    /\ cursor \in Nat /\ forgotten \in Nat /\ objects \subseteq Nat \ {NoObject}
    /\ loop \in [Loops -> [pc : {"off", "poll", "fetch", "prepare", "save", "accept", "quarantine",
                                 "ingest", "stamp", "findCursor", "createCursor", "updateCursor"},
                           at : 0 .. MaxUpdates + 1, last : 0 .. MaxUpdates,
                           object : Nat, attempts : 0 .. MaxAttempts - 1]]
    /\ cancelled \subseteq Loops /\ active \in BOOLEAN /\ attached \subseteq Loops
    /\ op \in [Operators -> [pc : {"idle", "cancel", "wait", "start", "ingest", "stamp"},
                             taken : SUBSET Loops, update : 0 .. MaxUpdates]]
    /\ live \in [Updates -> Nat] /\ again \in [Updates -> Nat]
    /\ expired \subseteq Nat /\ torn \subseteq Nat /\ events \in 0 .. MaxEvents

\* cursor.go:34-36: what the cursor is past, and so what the platform may have
\* forgotten, is in the inbox, although loops of two generations may overlap,
\* write the cursor in any order, fail and die.
NothingSkipped ==
    \A u \in Updates : u < cursor \/ u < forgotten => inbox[u].status # "none"

\* adapter.go:332-334: however often an update is delivered, the loops add it to
\* its conversation once at most.
LiveOnce == \A u \in Updates : live[u] <= 1

\* inbox.go:47-50, 209-211, 234-236: the inbox tells what has become of a message,
\* whatever fails and whoever replays or dismisses it meanwhile: a message in a
\* conversation comes from a row that is committed, now and not only when it was
\* accepted, and a row has left the replay lane only when its message is in there.
InboxTellsTheTruth ==
    \A u \in Updates :
        /\ live[u] + again[u] > 0 => inbox[u].status = "committed"
        /\ inbox[u].forwarded => live[u] + again[u] > 0

\* adapter.go:227-230: the payload a row refers to is there until its retention
\* is over; the clean-up of a redelivery or of a failed save never takes it away.
\* The one exception is a sweep that met its sidecar half-written (payload.go:257-260,
\* 284-289): it removes a payload that a row may refer to a moment later.
PayloadStays ==
    \A u \in Updates : inbox[u].status # "none" =>
        inbox[u].object \in objects \cup expired \cup torn

\* A loop that nobody has cancelled is one that the next reload or shutdown will
\* cancel: no interleaving of reloads leaves a loop that nobody can stop.
NoStrayLoop ==
    \A l \in Loops : loop[l].pc # "off" /\ l \notin cancelled =>
        \/ l \in attached
        \/ \E o \in Operators : op[o].pc = "cancel" /\ l \in op[o].taken
=============================================================================
