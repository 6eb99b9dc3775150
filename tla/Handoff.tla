------------------------------- MODULE Handoff -------------------------------
(***************************************************************************)
(* Hand-over of a chat session from the bot to a human agent.              *)
(*                                                                         *)
(* Two kinds of processes share one database:                              *)
(*   - callers: one HTTP handler or web-socket goroutine each, running one *)
(*     operation (see Operations) once;                                    *)
(*   - workers: runs of ProcessWaitingQueue, by the periodic worker of a   *)
(*     replica or by the manual HTTP trigger, that dispatch the waiting    *)
(*     queue over and over.                                                *)
(*                                                                         *)
(* An operation reads the session outside its transaction, decides, and    *)
(* writes later; the gaps before every write are step boundaries here.     *)
(* The transactions of executeTransfer and addToWaitingQueue take the      *)
(* session row first (SELECT ... FOR UPDATE, or an UPDATE), so each of     *)
(* them is one step.                                                       *)
(***************************************************************************)
EXTENDS Integers, Sequences, FiniteSets

CONSTANTS
    Sessions,          \* chat sessions
    Agents,            \* human agents
    Callers,           \* goroutines that run one operation each
    Workers,           \* concurrent runs of ProcessWaitingQueue
    NoAgent,           \* a NULL agent_id
    Operations,        \* the operations callers run in this configuration
    Qualified,         \* [Sessions -> SUBSET Agents]: who skills and group policy admit
    Rank,              \* [Sessions -> Nat]: 0 for "urgent", 1 for "high", ...
    MaxConcurrent,     \* max_chat_concurrency of an agent
    BatchSize,         \* rows claimed by one round
    Postgres,          \* TRUE: READ COMMITTED row locks; FALSE: sqlite, one writer
    LeaseOutlivesWork, \* TRUE: a lease only runs out on a run that has died
    FlakyStore,        \* TRUE: the transfer transaction may fail and roll back
    MaxCrashes,        \* bound: process crashes explored
    Flappers           \* agents that come, go and turn busy during the run

AllOperations == {"human", "agent", "cancel", "close", "message",
                  "assignConv", "transferConv", "assign", "release"}

ASSUME HandoffAssumption ==
    /\ Sessions # {}
    /\ NoAgent \notin Agents
    /\ Callers \cap Workers = {}
    /\ Operations \subseteq AllOperations
    /\ Qualified \in [Sessions -> SUBSET Agents]
    /\ Rank \in [Sessions -> Nat]
    /\ MaxConcurrent \in Nat \ {0}
    /\ BatchSize \in Nat \ {0}
    /\ MaxCrashes \in Nat
    /\ Postgres \in BOOLEAN /\ LeaseOutlivesWork \in BOOLEAN
    /\ FlakyStore \in BOOLEAN
    /\ Flappers \subseteq Agents

VARIABLES
    session,   \* table sessions: [status, agent, ended] (ended: ended_at is set)
    queue,     \* table waiting_records, in insertion order: [session, status, claim]
    transfers, \* table transfer_records, in commit order: [session, from, to]
    load,      \* table agents, column current_load
    presence,  \* table agents, column status
    registry,  \* the process's InMemoryRegistry: CurrentChatLoad, or Absent
    joining,   \* GoOnline calls between their profile read and registration
    flow,      \* the program counter and locals of every process
    crashes    \* number of process crashes so far

vars == <<session, queue, transfers, load, presence, registry, joining, flow,
          crashes>>
db == <<session, queue, transfers, load, presence>>
agentVars == <<load, presence, registry, joining>>   \* what is known of the agents

Procs == Callers \cup Workers
MaybeAgent == Agents \cup {NoAgent}
Absent == -1   \* an agent the registry, or a GoOnline call, has no entry for

Session == [status : {"active", "transferred", "ended"},
            agent : MaybeAgent, ended : BOOLEAN]
\* claim abstracts claimed_at: NULL, within the lease, or older than the lease.
QueueEntry == [session : Sessions,
               status : {"waiting", "transferred", "cancelled"},
               claim : {"free", "held", "expired"}]
TransferRecord == [session : Sessions, from : MaybeAgent, to : Agents]

Steps == {"idle", "select", "recheck", "enqueue", "commit", "apply", "readTo",
          "writeTo", "readFrom", "writeFrom", "claiming", "next", "release",
          "cancelling", "closing", "ingest", "ingesting", "assigning",
          "transferring", "register", "assignRow", "released", "writeLoad",
          "done"}

\* target: the agent an operation is about; seen: the session as last read;
\* from: the locked agent_id of executeTransfer; load: a load read earlier;
\* rows: waiting records claimed by a run and not finished with, or locked by a
\* cancellation; row: the one of them the run is dispatching.
Flow == [at : Steps, session : Sessions, target : MaybeAgent, seen : Session,
         from : MaybeAgent, load : Int, rows : SUBSET Nat, row : Nat]

----------------------------------------------------------------------------
(* Helpers over the tables *)

Rows(s) == {r \in DOMAIN queue : queue[r].session = s}
WaitingRows(s) == {r \in Rows(s) : queue[r].status = "waiting"}

\* getActiveWaitingRecord: the session's newest record, if that one is waiting.
HasActiveRecord(s) ==
    \E r \in WaitingRows(s) : \A q \in Rows(s) : q <= r

\* Mutant: a claim that never revives an expired one.
ClaimableFree == {r \in DOMAIN queue : /\ queue[r].status = "waiting"
                                       /\ queue[r].claim = "free"}

Claimable == {r \in DOMAIN queue : /\ queue[r].status = "waiting"
                                   /\ queue[r].claim # "held"}

\* ORDER BY priority, queued_at
ClaimedBefore(q, r) ==
    \/ Rank[queue[q].session] < Rank[queue[r].session]
    \/ Rank[queue[q].session] = Rank[queue[r].session] /\ q < r

\* The subquery of ClaimQueueEntries: the first BatchSize claimable rows.
NextBatch ==
    {r \in Claimable :
        Cardinality({q \in Claimable : ClaimedBefore(q, r)}) < BatchSize}

SetStatus(rows, status) ==
    [r \in DOMAIN queue |-> IF r \in rows THEN [queue[r] EXCEPT !.status = status]
                            ELSE queue[r]]
SetClaim(rows, claim) ==
    [r \in DOMAIN queue |-> IF r \in rows THEN [queue[r] EXCEPT !.claim = claim]
                            ELSE queue[r]]

\* UpdateConversation writes the status, a non-NULL ended_at and a non-NULL
\* agent; a NULL in the conversation it is given leaves the column alone.
Overwrite(row, status, agent, ended) ==
    [status |-> status,
     agent |-> IF agent = NoAgent THEN row.agent ELSE agent,
     ended |-> row.ended \/ ended]

\* Mutant: agent_id is left alone, as UpdateConversation does with other NULLs.
UnassignedSkipsNull(row) == [row EXCEPT !.status = "active"]

\* A conversation whose agent has no user writes NULL to agent_id.
Unassigned(row) == [row EXCEPT !.status = "active", !.agent = NoAgent]

\* ReleaseQueueClaim clears claimed_at of the session's waiting records; the
\* mutant requeues all of them.
ReturnedAll(s) ==
    [r \in DOMAIN queue |-> IF r \notin Rows(s) THEN queue[r]
        ELSE [queue[r] EXCEPT !.status = "waiting", !.claim = "free"]]
Returned(s) == SetClaim(WaitingRows(s), "free")

\* SelectAgent: an online agent below capacity that skills and group admit.
Candidates(s) == {a \in Qualified[s] : /\ presence[a] = "online"
                                       /\ load[a] < MaxConcurrent}

\* Mutant: no floor.
DecrementBelowZero(n) == n - 1
Decrement(n) == IF n > 0 THEN n - 1 ELSE 0

\* A cancellation holds the row locks of the records it is rewriting, and
\* statements that update waiting records of that session wait for it.
Unlocked(s) ==
    WaitingRows(s) = {}
    \/ \A c \in Callers : ~(flow[c].at = "cancelling" /\ flow[c].session = s
                            /\ flow[c].rows # {})

\* Locals go out of scope when an operation ends or a run turns to its next row.
Fresh == [at |-> "idle", session |-> CHOOSE s \in Sessions : TRUE, target |-> NoAgent,
          seen |-> [status |-> "active", agent |-> NoAgent, ended |-> FALSE],
          from |-> NoAgent, load |-> 0, rows |-> {}, row |-> 0]
At(f, step) ==
    CASE step \in {"idle", "done"} -> [Fresh EXCEPT !.at = step]
      [] step = "next" -> [Fresh EXCEPT !.at = step, !.rows = f.rows \ {f.row}]
      [] OTHER -> [f EXCEPT !.at = step]

Goto(p, step) == flow' = [flow EXCEPT ![p] = At(@, step)]
AfterTransfer(p) == IF p \in Workers THEN "next" ELSE "done"
AfterFailure(p) == IF p \in Workers THEN "release" ELSE "done"

\* The checks executeTransfer makes on the session its caller read earlier.
EnterTransfer(p, s, seen, a) ==
    LET f == [flow[p] EXCEPT !.session = s, !.seen = seen, !.target = a]
        step == CASE seen.status = "ended" -> AfterFailure(p)
                  [] seen.status # "ended" /\ seen.agent = a -> AfterTransfer(p)
                  [] OTHER -> "commit"
    IN [flow EXCEPT ![p] = At(f, step)]

Begins(c, operation) ==
    /\ operation \in Operations
    /\ flow[c].at = "idle"

Init ==
    /\ session = [s \in Sessions |->
                    [status |-> "active", agent |-> NoAgent, ended |-> FALSE]]
    /\ queue = <<>>
    /\ transfers = <<>>
    /\ load = [a \in Agents |-> 0]
    /\ presence = [a \in Agents |-> IF a \in Flappers THEN "offline" ELSE "online"]
    /\ registry = [a \in Agents |-> IF a \in Flappers THEN Absent ELSE 0]
    /\ joining = [a \in Agents |-> Absent]
    /\ flow = [p \in Procs |-> Fresh]
    /\ crashes = 0

----------------------------------------------------------------------------
(* TransferToHuman: a caller asks for any agent *)

HumanLoad(c, s) ==
    /\ Begins(c, "human")
    /\ IF session[s].status = "ended" \/ session[s].agent # NoAgent
       THEN Goto(c, "done")
       ELSE flow' = [flow EXCEPT ![c].session = s, ![c].seen = session[s],
                                 ![c].at = "select"]
    /\ UNCHANGED <<db, registry, joining, crashes>>

HumanSelect(c) ==
    LET s == flow[c].session IN
    /\ c \in Callers /\ flow[c].at = "select"
    /\ \/ HasActiveRecord(s) /\ Goto(c, "done")
       \/ ~HasActiveRecord(s) /\ Candidates(s) = {} /\ Goto(c, "recheck")
       \/ ~HasActiveRecord(s) /\ \E a \in Candidates(s) :
                                     flow' = EnterTransfer(c, s, flow[c].seen, a)
    /\ UNCHANGED <<db, registry, joining, crashes>>

\* addToWaitingQueue looks for an active record once more ...
EnqueueRecheck(c) ==
    /\ flow[c].at = "recheck"
    /\ Goto(c, IF HasActiveRecord(flow[c].session) THEN "done" ELSE "enqueue")
    /\ UNCHANGED <<db, registry, joining, crashes>>

\* ... and then, in one transaction, clears the session's agent_id, inserts
\* the waiting record and appends the system message.
Enqueue(c) ==
    LET s == flow[c].session IN
    /\ flow[c].at = "enqueue"
    /\ session' = [session EXCEPT ![s] = Unassigned(@)]
    /\ queue' = Append(queue, [session |-> s, status |-> "waiting", claim |-> "free"])
    /\ Goto(c, "done")
    /\ UNCHANGED <<transfers, agentVars, crashes>>

----------------------------------------------------------------------------
(* TransferToAgent: a caller names the agent *)

AgentLoad(c, s, a) ==
    /\ Begins(c, "agent")
    /\ IF presence[a] # "offline" /\ load[a] < MaxConcurrent
       THEN flow' = EnterTransfer(c, s, session[s], a)
       ELSE Goto(c, "done")
    /\ UNCHANGED <<db, registry, joining, crashes>>

----------------------------------------------------------------------------
(* executeTransfer, shared by all three ways to dispatch a session *)

\* Mutants: the agent read before the transaction; no look at the target.
StaleSource(p) == flow[p].seen.agent
UncheckedSource(p) == session[flow[p].session].agent

\* The agent the transfer takes the session from: the agent_id read under the
\* row lock, never the one in flow[p].seen.
TransferSource(p) ==
    LET holder == session[flow[p].session].agent
    IN IF holder = flow[p].target THEN NoAgent ELSE holder

\* SyncTransferLoad
TransferredLoad(from, a) ==
    [b \in Agents |-> CASE b = a -> load[b] + 1
                        [] b # a /\ b = from -> Decrement(load[b])
                        [] OTHER -> load[b]]

TransferCommit(p) ==
    LET s == flow[p].session
        a == flow[p].target
        from == TransferSource(p) IN
    /\ flow[p].at = "commit"
    /\ Unlocked(s)
    /\ session' = [session EXCEPT ![s] = Overwrite(@, "active", a, FALSE)]
    /\ load' = IF session[s].agent = a THEN load ELSE TransferredLoad(from, a)
    /\ transfers' = Append(transfers, [session |-> s, from |-> from, to |-> a])
    /\ queue' = SetStatus(WaitingRows(s), "transferred")
    /\ flow' = [flow EXCEPT ![p].at = "apply", ![p].from = from]
    /\ UNCHANGED <<presence, registry, joining, crashes>>

\* Mutant: the session's row is written outside the transaction.
TransferFailsHalfway(p) ==
    /\ FlakyStore
    /\ flow[p].at = "commit"
    /\ session' = [session EXCEPT ![flow[p].session].agent = flow[p].target]
    /\ Goto(p, AfterFailure(p))
    /\ UNCHANGED <<queue, transfers, agentVars, crashes>>

\* Any statement of the transaction fails: it rolls back, all of it.
TransferFails(p) ==
    /\ FlakyStore
    /\ flow[p].at = "commit"
    /\ Goto(p, AfterFailure(p))
    /\ UNCHANGED <<db, registry, joining, crashes>>

\* ApplySessionTransfer, after the commit: move the registry's load ...
ApplyTransfer(p) ==
    LET a == flow[p].target
        from == flow[p].from IN
    /\ flow[p].at = "apply"
    /\ registry' = [b \in Agents |->
           CASE registry[b] = Absent -> Absent
             [] registry[b] # Absent /\ b = a -> registry[b] + 1
             [] registry[b] # Absent /\ b # a /\ b = from -> Decrement(registry[b])
             [] OTHER -> registry[b]]
    /\ Goto(p, "readTo")
    /\ UNCHANGED <<db, joining, crashes>>

\* ... then write the registry's number over the target's current_load, then
\* over the source's.  Each is a read under the registry lock and a later write.
ReadTo(p) ==
    LET n == registry[flow[p].target] IN
    /\ flow[p].at = "readTo"
    /\ flow' = [flow EXCEPT ![p].load = n,
                            ![p].at = IF n = Absent THEN "readFrom" ELSE "writeTo"]
    /\ UNCHANGED <<db, registry, joining, crashes>>

WriteTo(p) ==
    /\ flow[p].at = "writeTo"
    /\ load' = [load EXCEPT ![flow[p].target] = flow[p].load]
    /\ Goto(p, "readFrom")
    /\ UNCHANGED <<session, queue, transfers, presence, registry, joining, crashes>>

ReadFrom(p) ==
    LET from == flow[p].from
        n == IF from = NoAgent THEN Absent ELSE registry[from] IN
    /\ flow[p].at = "readFrom"
    /\ IF n = Absent THEN Goto(p, AfterTransfer(p))
       ELSE flow' = [flow EXCEPT ![p].load = n, ![p].at = "writeFrom"]
    /\ UNCHANGED <<db, registry, joining, crashes>>

WriteFrom(p) ==
    /\ flow[p].at = "writeFrom"
    /\ load' = [load EXCEPT ![flow[p].from] = flow[p].load]
    /\ Goto(p, AfterTransfer(p))
    /\ UNCHANGED <<session, queue, transfers, presence, registry, joining, crashes>>

----------------------------------------------------------------------------
(* ProcessWaitingQueue: a worker's round *)

\* The claim is one UPDATE ... WHERE id IN (subquery).  sqlite runs it alone.
Claim(w) ==
    /\ ~Postgres
    /\ flow[w].at = "idle" /\ NextBatch # {}
    /\ queue' = SetClaim(NextBatch, "held")
    /\ flow' = [flow EXCEPT ![w].at = "next", ![w].rows = NextBatch]
    /\ UNCHANGED <<session, transfers, agentVars, crashes>>

\* Under READ COMMITTED the subquery picks ids from a snapshot ...
ClaimRead(w) ==
    /\ Postgres
    /\ flow[w].at = "idle" /\ NextBatch # {}
    /\ flow' = [flow EXCEPT ![w].at = "claiming", ![w].rows = NextBatch]
    /\ UNCHANGED <<db, registry, joining, crashes>>

\* ... and the UPDATE waits for those rows and takes them by id; it has no
\* condition of its own on status or claimed_at to check again.
ClaimWrite(w) ==
    /\ flow[w].at = "claiming"
    /\ \A r \in flow[w].rows : Unlocked(queue[r].session)
    /\ queue' = SetClaim(flow[w].rows, "held")
    /\ Goto(w, "next")
    /\ UNCHANGED <<session, transfers, agentVars, crashes>>

\* The next row of the batch: load its session, outside any transaction.
WorkerLoad(w) ==
    /\ flow[w].at = "next"
    /\ IF flow[w].rows = {} THEN Goto(w, "idle")
       ELSE \E r \in flow[w].rows :
              flow' = [flow EXCEPT ![w].at = "select", ![w].row = r,
                                   ![w].session = queue[r].session,
                                   ![w].seen = session[queue[r].session]]
    /\ UNCHANGED <<db, registry, joining, crashes>>

WorkerSelect(w) ==
    LET s == flow[w].session IN
    /\ w \in Workers /\ flow[w].at = "select"
    /\ \/ Candidates(s) = {} /\ Goto(w, "release")
       \/ \E a \in Candidates(s) : flow' = EnterTransfer(w, s, flow[w].seen, a)
    /\ UNCHANGED <<db, registry, joining, crashes>>

\* releaseClaim: by session, whoever holds the lease by now.
Release(w) ==
    LET s == flow[w].session IN
    /\ flow[w].at = "release"
    /\ Unlocked(s)
    /\ queue' = Returned(s)
    /\ Goto(w, "next")
    /\ UNCHANGED <<session, transfers, agentVars, crashes>>

\* Run w has claimed row r and is not finished with it.
Dispatching(w, r) == r \in flow[w].rows /\ flow[w].at # "claiming"

\* claim_lease_seconds pass since the row was claimed.
LeaseExpires(r) ==
    /\ queue[r].claim = "held"
    /\ LeaseOutlivesWork => \A w \in Workers : ~Dispatching(w, r)
    /\ queue' = [queue EXCEPT ![r].claim = "expired"]
    /\ UNCHANGED <<session, transfers, agentVars, flow, crashes>>

----------------------------------------------------------------------------
(* CancelWaitingRecord *)

\* CancelWaiting rewrites every record of the session from the newest one it
\* read; appendCancellationSystemMessage then writes back the session it read.
Cancelled(rows, s, seen) ==
    /\ queue' = SetStatus(rows, "cancelled")
    /\ session' = [session EXCEPT ![s] = Overwrite(@, "active", seen.agent, seen.ended)]

Cancel(c, s) ==
    /\ ~Postgres
    /\ Begins(c, "cancel")
    /\ Cancelled(Rows(s), s, session[s])
    /\ Goto(c, "done")
    /\ UNCHANGED <<transfers, agentVars, crashes>>

\* The same transaction under READ COMMITTED: it locks the records, reads the
\* session without a lock, and writes it when the row is free.
CancelBegin(c, s) ==
    /\ Postgres
    /\ Begins(c, "cancel")
    /\ \A o \in Callers : flow[o].at = "cancelling" =>
                             flow[o].session # s \/ flow[o].rows = {}
    /\ flow' = [flow EXCEPT ![c].at = "cancelling", ![c].session = s,
                            ![c].seen = session[s], ![c].rows = Rows(s)]
    /\ UNCHANGED <<db, registry, joining, crashes>>

CancelCommit(c) ==
    /\ flow[c].at = "cancelling"
    /\ Cancelled(flow[c].rows, flow[c].session, flow[c].seen)
    /\ Goto(c, "done")
    /\ UNCHANGED <<transfers, agentVars, crashes>>

----------------------------------------------------------------------------
(* Conversation module: operations that read the session and write it back *)

WriteBack(s, status, agent, ended) ==
    session' = [session EXCEPT ![s] = Overwrite(@, status, agent, ended)]

\* Every one of them starts by reading the conversation.
ReadConversation(c, s, a, step) ==
    /\ flow' = [flow EXCEPT ![c].session = s, ![c].target = a,
                            ![c].seen = session[s], ![c].at = step]
    /\ UNCHANGED <<db, registry, joining, crashes>>

Message(c, s) == Begins(c, "message") /\ ReadConversation(c, s, NoAgent, "ingesting")
Close(c, s) == Begins(c, "close") /\ ReadConversation(c, s, NoAgent, "closing")
ConversationAssign(c, s, a) ==
    Begins(c, "assignConv") /\ ReadConversation(c, s, a, "assigning")
ConversationTransfer(c, s, a) ==
    Begins(c, "transferConv") /\ ReadConversation(c, s, a, "transferring")

\* What the operation writes; close and transfer then ingest a system message.
ConversationWrite(c) ==
    LET s == flow[c].session
        seen == flow[c].seen
        a == flow[c].target IN
    /\ \/ /\ flow[c].at = "closing"
          /\ WriteBack(s, "ended", seen.agent, TRUE) /\ Goto(c, "ingest")
       \/ /\ flow[c].at = "assigning"
          /\ WriteBack(s, "active", a, seen.ended) /\ Goto(c, "done")
       \/ /\ flow[c].at = "transferring"
          /\ WriteBack(s, "transferred", a, seen.ended) /\ Goto(c, "ingest")
    /\ UNCHANGED <<queue, transfers, agentVars, crashes>>

\* ingestMessage reads the conversation, appends the message, and writes the
\* whole conversation back to bump its timestamp.
IngestRead(c) ==
    /\ flow[c].at = "ingest"
    /\ ReadConversation(c, flow[c].session, NoAgent, "ingesting")

IngestWrite(c) ==
    LET seen == flow[c].seen IN
    /\ flow[c].at = "ingesting"
    /\ WriteBack(flow[c].session, seen.status, seen.agent, seen.ended)
    /\ Goto(c, "done")
    /\ UNCHANGED <<queue, transfers, agentVars, crashes>>

----------------------------------------------------------------------------
(* Agent module: an agent picks up or releases a session *)

\* AssignSession checks the persisted load ...
Assign(c, s, a) ==
    /\ Begins(c, "assign")
    /\ IF presence[a] # "offline" /\ load[a] < MaxConcurrent
       THEN flow' = [flow EXCEPT ![c].session = s, ![c].target = a,
                                 ![c].load = load[a], ![c].at = "register"]
       ELSE Goto(c, "done")
    /\ UNCHANGED <<db, registry, joining, crashes>>

\* ... counts the session in the registry, or next to it if the registry
\* refuses (no entry, or at capacity there) ...
AssignRegister(c) ==
    LET a == flow[c].target
        counted == registry[a] # Absent /\ registry[a] < MaxConcurrent IN
    /\ flow[c].at = "register"
    /\ registry' = IF counted THEN [registry EXCEPT ![a] = @ + 1] ELSE registry
    /\ flow' = [flow EXCEPT ![c].load = IF counted THEN registry[a] + 1 ELSE @ + 1,
                            ![c].at = "assignRow"]
    /\ UNCHANGED <<db, joining, crashes>>

\* ... writes the session row, whatever it holds by now ...
AssignRow(c) ==
    /\ flow[c].at = "assignRow"
    /\ session' = [session EXCEPT ![flow[c].session] =
                      [status |-> "active", agent |-> flow[c].target, ended |-> FALSE]]
    /\ Goto(c, "writeLoad")
    /\ UNCHANGED <<queue, transfers, agentVars, crashes>>

\* ... and overwrites current_load with the number it counted.
WriteLoad(c) ==
    /\ flow[c].at = "writeLoad"
    /\ load' = [load EXCEPT ![flow[c].target] = flow[c].load]
    /\ Goto(c, "done")
    /\ UNCHANGED <<session, queue, transfers, presence, registry, joining, crashes>>

\* ReleaseSession ends the session if the agent holds it ...
ReleaseSession(c, s, a) ==
    /\ Begins(c, "release")
    /\ IF session[s].agent = a
       THEN /\ session' = [session EXCEPT ![s].status = "ended", ![s].ended = TRUE]
            /\ flow' = [flow EXCEPT ![c].target = a, ![c].at = "released"]
       ELSE UNCHANGED session /\ Goto(c, "done")
    /\ UNCHANGED <<queue, transfers, agentVars, crashes>>

\* ... then uncounts it in the registry, or in the row if there is no entry.
ReleaseRegister(c) ==
    LET a == flow[c].target
        entered == registry[a] # Absent
        n == Decrement(IF entered THEN registry[a] ELSE load[a]) IN
    /\ flow[c].at = "released"
    /\ registry' = IF entered THEN [registry EXCEPT ![a] = n] ELSE registry
    /\ IF entered \/ presence[a] # "offline"
       THEN flow' = [flow EXCEPT ![c].load = n, ![c].at = "writeLoad"]
       ELSE Goto(c, "done")
    /\ UNCHANGED <<db, joining, crashes>>

----------------------------------------------------------------------------
(* Agents come and go; the process crashes *)

\* GoOnline reads the profile, load included, before it registers the agent.
GoOnlineRead(a) ==
    /\ a \in Flappers /\ joining[a] = Absent
    /\ joining' = [joining EXCEPT ![a] = load[a]]
    /\ UNCHANGED <<db, registry, flow, crashes>>

GoOnline(a) ==
    /\ joining[a] # Absent
    /\ presence' = [presence EXCEPT ![a] = "online"]
    /\ registry' = [registry EXCEPT ![a] = joining[a]]
    /\ joining' = [joining EXCEPT ![a] = Absent]
    /\ UNCHANGED <<session, queue, transfers, load, flow, crashes>>

GoOffline(a) ==
    /\ a \in Flappers /\ presence[a] # "offline"
    /\ presence' = [presence EXCEPT ![a] = "offline"]
    /\ registry' = [registry EXCEPT ![a] = Absent]
    /\ UNCHANGED <<session, queue, transfers, load, joining, flow, crashes>>

MarkBusy(a) ==
    /\ a \in Flappers /\ presence[a] = "online"
    /\ presence' = [presence EXCEPT ![a] = "busy"]
    /\ UNCHANGED <<session, queue, transfers, load, registry, joining, flow, crashes>>

\* Goroutines, open transactions and the registry are lost; the tables and the
\* leases in them stay.
Crash ==
    /\ crashes < MaxCrashes
    /\ \E p \in Procs : flow[p].at \notin {"idle", "done"}
    /\ crashes' = crashes + 1
    /\ flow' = [p \in Procs |-> CASE p \in Workers -> Fresh
                                  [] p \in Callers /\ flow[p].at = "idle" -> Fresh
                                  [] OTHER -> [Fresh EXCEPT !.at = "done"]]
    /\ registry' = [a \in Agents |-> Absent]
    /\ joining' = [a \in Agents |-> Absent]
    /\ UNCHANGED db

----------------------------------------------------------------------------

Begin(c) ==
    \E s \in Sessions :
        \/ HumanLoad(c, s) \/ Cancel(c, s) \/ CancelBegin(c, s)
        \/ Message(c, s) \/ Close(c, s)
        \/ \E a \in Agents : \/ AgentLoad(c, s, a) \/ Assign(c, s, a)
                             \/ ReleaseSession(c, s, a)
                             \/ ConversationAssign(c, s, a)
                             \/ ConversationTransfer(c, s, a)

Transfer(p) ==
    \/ TransferCommit(p) \/ TransferFails(p) \/ ApplyTransfer(p)
    \/ ReadTo(p) \/ WriteTo(p) \/ ReadFrom(p) \/ WriteFrom(p)

Continue(c) ==
    \/ HumanSelect(c) \/ EnqueueRecheck(c) \/ Enqueue(c) \/ Transfer(c)
    \/ CancelCommit(c) \/ ConversationWrite(c) \/ IngestRead(c) \/ IngestWrite(c)
    \/ AssignRegister(c) \/ AssignRow(c) \/ WriteLoad(c) \/ ReleaseRegister(c)

Round(w) ==
    \/ Claim(w) \/ ClaimRead(w) \/ ClaimWrite(w) \/ WorkerLoad(w)
    \/ WorkerSelect(w) \/ Transfer(w) \/ Release(w)

Presence(a) == GoOnlineRead(a) \/ GoOnline(a) \/ GoOffline(a) \/ MarkBusy(a)

\* Every operation has run and the queue holds nothing to claim.
Rested ==
    /\ \A c \in Callers : flow[c].at = "done"
    /\ \A w \in Workers : flow[w].at = "idle"
    /\ NextBatch = {}
    /\ UNCHANGED vars

Next ==
    \/ \E c \in Callers : Begin(c) \/ Continue(c)
    \/ \E w \in Workers : Round(w)
    \/ \E r \in DOMAIN queue : LeaseExpires(r)
    \/ \E a \in Agents : Presence(a)
    \/ Crash
    \/ Rested

\* Goroutines are scheduled, the worker's ticker fires, and time passes; nobody
\* has to call an operation, and nothing has to fail.
Fairness ==
    /\ \A c \in Callers : WF_vars(Continue(c))
    /\ \A w \in Workers : WF_vars(Round(w))
    /\ \A r \in 1..Cardinality(Callers) : WF_vars(r \in DOMAIN queue /\ LeaseExpires(r))

Spec == Init /\ [][Next]_vars
FairSpec == Spec /\ Fairness

----------------------------------------------------------------------------
(* Properties *)

\* Types of the tables, the registry and the locals of every process.
TypeOK ==
    /\ session \in [Sessions -> Session]
    /\ queue \in Seq(QueueEntry)
    /\ transfers \in Seq(TransferRecord)
    /\ load \in [Agents -> Nat]
    /\ presence \in [Agents -> {"online", "busy", "offline"}]
    /\ registry \in [Agents -> Nat \cup {Absent}]
    /\ joining \in [Agents -> Nat \cup {Absent}]
    /\ flow \in [Procs -> Flow]
    /\ crashes \in Nat

\* A session that waits in the queue is nobody's: whoever reads the queue may
\* hand it to an agent without taking it from another one.
WaitingIsUnassigned ==
    \A s \in Sessions : WaitingRows(s) # {} => session[s].agent = NoAgent

\* The agent of a session, also one written back from a stale read, is an agent
\* some committed transfer once gave that session to.
AssignmentsAreRecorded ==
    \A s \in Sessions : session[s].agent # NoAgent =>
        \E i \in DOMAIN transfers : /\ transfers[i].session = s
                                    /\ transfers[i].to = session[s].agent

\* gorm_repository.go:134-135: of two rounds that claim the same waiting record
\* only one gets it.
ClaimExclusive ==
    \A v, w \in Workers : v # w =>
        \A r \in DOMAIN queue : ~(Dispatching(v, r) /\ Dispatching(w, r))

\* Transfer i is the newest one of session s before transfer n.
NewestBefore(i, n, s) ==
    /\ i \in DOMAIN transfers /\ i < n /\ transfers[i].session = s
    /\ \A j \in DOMAIN transfers : j < n /\ transfers[j].session = s => j <= i

\* A session's agent is the one its newest transfer record gave it to, or nobody:
\* no transfer that rolled back, lost a race or was cancelled leaves its agent.
OwnerIsLatest ==
    \A s \in Sessions : session[s].agent # NoAgent =>
        \E i \in DOMAIN transfers : /\ NewestBefore(i, Len(transfers) + 1, s)
                                    /\ transfers[i].to = session[s].agent

\* Whom a transfer took its session from, the transfer before it had given it to:
\* of flows that read one agent and transfer the session one after the other, the
\* later one names the earlier one's target.
RecordsChain ==
    \A n \in DOMAIN transfers : transfers[n].from # NoAgent =>
        \E i \in DOMAIN transfers : /\ NewestBefore(i, n, transfers[n].session)
                                    /\ transfers[i].to = transfers[n].from

\* A waiting record that was dispatched or cancelled never waits again.
QueueIsOneWay ==
    [][\A r \in DOMAIN queue :
         queue[r].status # "waiting" => queue'[r].status # "waiting"]_vars

\* No round can dispatch session s now: it has ended, there is no agent with room
\* for it, or the agent a round may choose is named in its row already, where
\* executeTransfer leaves without touching the record.
Stuck(s) ==
    \/ session[s].status = "ended"
    \/ Candidates(s) = {}
    \/ session[s].agent \in Candidates(s)

\* As many such records as a round claims stand before a record of session s.
StuckAhead(s) ==
    \E r \in WaitingRows(s) :
        Cardinality({q \in DOMAIN queue : /\ queue[q].status = "waiting"
                                         /\ Stuck(queue[q].session)
                                         /\ ClaimedBefore(q, r)}) >= BatchSize

\* Whatever else is done to it meanwhile, and whatever waits before it, a session
\* that waits is dispatched, or its record cancelled, in the end.  Except when it
\* goes on being one that cannot be dispatched, or such ones fill every batch.
WaitersAreServed ==
    \A s \in Sessions :
        <>[](~Stuck(s) /\ ~StuckAhead(s))
            => (WaitingRows(s) # {} ~> WaitingRows(s) = {})

Ownership == INSTANCE SessionOwnership
    WITH owner <- [s \in Sessions |-> session[s].agent],
         waiting <- {s \in Sessions : WaitingRows(s) # {}},
         ledger <- transfers

\* The hand-over gives sessions out as SessionOwnership promises.
OwnershipHolds == Ownership!Spec
=============================================================================
