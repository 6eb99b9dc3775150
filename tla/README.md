# Servify in TLA+

Servify is a customer-service server in Go (`src/apps/server`): chat sessions,
a bot that answers them, human agents who take over, tickets, channels such as
Telegram, webhooks, automation and an audit trail, over one SQL database
(PostgreSQL or sqlite) and, optionally, Redis. This directory models the parts
of it whose correctness depends on interleavings, crashes and orderings.
Paths below are relative to `src/apps/server/internal`.

## The system

A process serves HTTP and web-socket requests, each in its own goroutine, and
runs periodic workers (`app/worker`). Several processes may share the database.
Almost all state is in tables; goroutines hold copies of rows that they read
outside transactions and write back later, and that is where most of the hard
behaviour comes from. In memory, a process keeps the agent registry, the event
bus, the circuit breaker and the web-socket hub.

| Part | State | Operations | What makes it hard | What makes it correct |
|---|---|---|---|---|
| Hand-over (`modules/routing`) | `waiting_records` (status, `claimed_at`), `transfer_records` | TransferToHuman, TransferToAgent, ProcessWaitingQueue, CancelWaitingRecord | sessions are read before the transaction that uses them; leases run out under a slow round; processes die with claims | a waiting session is nobody's; transfer records tell who has had a session; no record comes back; who waits and can be served is served |
| Conversations (`modules/conversation`) | `sessions` (status, `agent_id`, `ended_at`), `messages` | assign, transfer, close, ingest | whole rows are written back from stale reads | an owner comes from a transfer, an ended session stays ended |
| Agents (`modules/agent`) | `agents` (status, `current_load`), the in-memory or Redis registry | online, offline, assign, release, select | the load lives in two places, incremented in one and overwritten from the other | the load counts the open sessions |
| Tickets (`modules/ticket`) | `tickets`, status history, `ticket_outbox` | create, assign, transition, dispatch | the outbox worker may die between delivery and its mark | no event is lost; a row tells what became of its event |
| Webhooks (`modules/webhook`) | endpoints, deliveries (status, attempts, next try) | enqueue, deliver, retry, redeliver | several workers read the same due rows | a settled delivery has earned its status; retries stop |
| Automation (`modules/automation`) | triggers, timers | schedule, fire, complete | every replica reads the same due timers | an action runs once at most, and not too early |
| Event bus (`platform/eventbus`) | handlers, streams, dead letters | publish, dispatch | notifications without replay; handlers of one event one after the other | what was handed to the database is settled |
| AI (`modules/ai`) | circuit breaker | call, success, failure | late results of earlier states | a broken provider is not called; it is tried again |
| Channels (`platform/channel`) | inbox rows, cursors, payload files, runner generations | poll, store, forward, replay, dismiss, reload, sweep | a crash between storing and forwarding; a sweep while a payload is being saved; reload while a poll is running | no update is skipped or ingested twice; payloads stay; no loop escapes |
| Audit (`platform/audit`) | hash-chained rows, the archive | record, verify, archive, delete | concurrent recorders and retention jobs | an untouched chain verifies, and one that verifies vouches for its older rows; nothing is lost |
| Authentication (`modules/auth`, `platform/usersecurity`) | sessions, tokens, listed tokens, versions | login, refresh, revoke, retention | concurrent refreshes, revocation of what is being refreshed | what was revoked stays refused |
| Quotas (`platform/quotameter`) | counters per tenant and window | check, add | check, then act | the limit holds (not promised for tokens) |
| Real-time hub (`platform/realtime`) | connections, send channels | register, broadcast, signal, answer | slow receivers, closing channels | no send on a closed channel; no hole in what a client sees; a slow client holds up nobody |
| Voice (`modules/voice`) | calls, recordings, transcripts | start, answer, hold, end | - | one row at a time |

The other parts (knowledge base, analytics, macros, satisfaction surveys and
so on) are tables with create, read, update and delete, or clients of external
services; `PROJECT.json` lists each with the reason it is left out.

## Modules

| Module | Models | Composed with | Proofs |
|---|---|---|---|
| `Handoff` | routing, and what conversations and agents write to the same rows | implements `SessionOwnership` | `HandoffProofs` |
| `TicketOutbox` | creation of tickets and their events | implements `ReliableEvents` | `TicketOutboxProofs` |
| `EventFlow` | bus, webhook deliveries and automation timers together | one module of three components | `EventFlowProofs` |
| `CircuitBreaker` | the breaker and its users | - | `CircuitBreakerProofs` |
| `AuthSessions` | sessions and tokens of a user | - | `AuthSessionsProofs` |
| `RealtimeHub` | the hub, the pumps and the answering goroutines | - | `RealtimeHubProofs` |
| `ConnectorInbox` | the Telegram loop, its supervisor and the operators | loop and supervisor in one module | `ConnectorInboxProofs` |
| `AuditChain` | recorders and retention jobs | - | `AuditChainProofs` |

`MC<Module>` gives the model values, and each `.cfg` is one run. Every module
keeps its parameters as CONSTANTS with named assumptions, has one action per
operation or per step between two reads or writes of shared state, and uses no
RECURSIVE operator, so that it can be proved about. Histories (marked so where
they are declared) record what the code forgets and a property needs.

Operators whose comment begins with "Mutant" are not part of the model: each is a
plausible mistake in the operation after it, and a property that holds of the
operation fails with the mistake in its place.

## Hand-over: `Handoff`

| Variable | Code |
|---|---|
| `session` | table `sessions`: status, `agent_id`, whether `ended_at` is set |
| `queue` | table `waiting_records`; `claim` is `claimed_at`: NULL (free), within the lease (held), older (expired) |
| `transfers` | table `transfer_records` |
| `load`, `presence` | table `agents`: `current_load`, `status` |
| `registry` | `InMemoryRegistry` of the process |
| `joining` | calls of GoOnline between their read and their registration |
| `flow` | the program counter and the locals of each goroutine |

Callers are goroutines that run one operation each, workers are runs of
`ProcessWaitingQueue`. An operation is cut wherever it reads or writes shared
state that another process may change: the session load, the selection, the
recheck of the queue, the transaction, the registry update after the commit and
the two load writes after it. `executeTransfer` is the actions TransferCommit,
TransferFails, ApplyTransfer, ReadTo, WriteTo, ReadFrom and WriteFrom, shared by
its three callers. Its transaction takes the session row first (`SELECT ... FOR
UPDATE`) and is one step. With `Postgres`, the statements that do not take the
session row first (the claim's subquery and the cancellation) are two steps each,
with the row locks between them.

Abstractions: one replica's registry (all goroutines share it); skills, groups
and affinity are the constant `Qualified`; priority and queue time are `Rank` and
the order of insertion (a cancelled record's rewritten `queued_at` does not
matter to the claim); the ticket that goes with a session, messages, events and
notifications are left out; the capacity check of TransferToAgent and the
session it loaded before are one step, as are the candidate query and the
choice among its rows.

`SessionOwnership` says what the hand-over promises: at most one owner, an owner
comes with a ledger entry naming the previous one, a waiting session has no
owner. `Handoff` is related to it by `Ownership` (the owner is `agent_id`, the
waiting sessions those with a waiting record, the ledger the transfer records).

### Runs

| Run | Question | Bounds |
|---|---|---|
| `handoff_ownership` | is a waiting session nobody's; do the transfer records tell who has had each session; does no record come back; does the hand-over implement SessionOwnership | 2 sessions of different priority, one of them for 1 of the 2 agents, 3 callers that ask, transfer, cancel or release, 2 workers, 1 crash, rollbacks, sqlite |
| `handoff_operations` | is a session that waits served, whatever is done to it and whatever waits before it | all nine operations on 2 sessions, the urgent one for nobody's group, 1 agent who comes and goes, 2 callers, 1 worker that takes one record a round, may die once and may outlive its lease, PostgreSQL |
| `claims_postgres` (must fail) | is a waiting record dispatched by one round at a time | 1 session, 1 agent, 1 caller, 2 workers, PostgreSQL, leases that outlive the work |

Two callers give every pair of racing operations; the third one in
`handoff_ownership` is there to fill the queue while two others act on it. Two
sessions compete for a batch, an agent or a place before each other. Batches hold
both of them in `handoff_ownership`, whose workers compete for the rows in
them, and one in `handoff_operations`, where a record that cannot be dispatched
is to stand in the way of one that can.

### Fairness

`FairSpec` assumes that goroutines that have begun continue (the Go scheduler),
that the worker's ticker fires (`app/worker/periodic.go` loops until it is
stopped), and that time passes, so that leases of dead rounds expire. It does
not assume that anybody calls an operation, that agents come online or that
anything fails.

`WaitersAreServed` has two conditions, which hold from some time on; TLC finds a
counterexample without either (see Observations):

- the session is not one that rounds cannot dispatch (`Stuck`): it has ended, it
  has no candidate with room, or a candidate is the agent its row names already.
  The last is what `conversation.AssignAgent` leaves when it assigns a session that
  waits: `executeTransfer` returns success at the same agent and does not touch the
  record.
- such sessions do not fill a batch before it (`StuckAhead`): a round takes the
  first rows by priority and time, and gives those it could not dispatch back to
  the same places.

### Proofs

`HandoffProofs` proves `TypeOK` for every set of sessions, agents, callers and
workers. It is not inductive: a process that is about to write a load must hold
one that is a number, and one about to transfer must hold an agent, which is
`LocalsOK`.

On top of it are:

- `QueueNeverTurnsBack`, for all nine operations and both databases.
  `StepsOnTables` first reduces `Next` to the steps that change the tables.
- `WaitingSessionsAreNobodys` and `HandoffImplementsOwnership`, for the operations
  of the routing module and ReleaseSession, on sqlite, and on PostgreSQL as long as
  nobody cancels (`RoutingOnly`). They need `OperationsOK`: a process is never at
  a step of an operation that nobody calls. The assumption is necessary: `conversation` operations write back an agent without looking at
  the queue, and so does a cancellation that PostgreSQL interleaves with a
  transfer.
- `RecordsTellTheStory` (`OwnerIsLatest` and `RecordsChain`), in the same
  configurations, and from the step of `SessionOwnership` that a step has just been
  shown to be: the agent of a session is the target of its newest transfer record,
  and the agent a record took it from is the target of the record before.
- `AssignmentsAreOnRecord`, on both databases and for every operation but the
  three that assign an agent and record no transfer (`RecordingOnly`: AssignSession,
  and AssignAgent and Transfer of the conversation module; with any of them the
  statement is false by design). A conversation is written back as it was read,
  possibly long before, so the invariant `RecordedOK` says of what every process has
  read what the property says of the table, and `SeenSteps` that a step leaves what a
  process has read, forgets it, or reads a session anew. No run checks it: it
  is for the configurations in which `OwnerIsLatest`, which says more, does not hold.

Only model-checked: `WaitersAreServed` (liveness is out of the prover's reach).

## Circuit breaker: `CircuitBreaker`

| Variable | Code |
|---|---|
| `state`, `failureCount`, `halfOpenReqs` | the fields of `CircuitBreaker` (`modules/ai/delivery/ai_circuit_breaker.go`) |
| `cooling` | whether `lastFailTime` is younger than `ResetTimeout` |
| `enabled` | `knowledgeProviderEnabled`, which the administrator switches |
| `query` | a call of ProcessQueryEnhanced or ProcessQueryStream: not running, running without the source, running with it |
| `streak`, `trials` | history: failures in a row; queries let through while half-open |

The breaker's methods hold its mutex, so each is one step. A query is two: Begin
calls Allow (`activeKnowledgeProvider`), and Succeed, Fail or BreakOff reports
what came of it, in whatever state the breaker is then. `finalizeEnhanced`
reports a success also for a query that was refused; a stream reports a failure
only of the source, and nothing at all when it breaks off.
The model is of the wiring in which queries share one breaker; the scoped runtime
(`app/server/ai_scoped_runtime.go`) builds one for each query. The retries inside one query, the metrics and the health report are left out.

| Run | Question | Bounds |
|---|---|---|
| `breaker_shared` | is a failing source left alone, are trials bounded, does the breaker close again | 3 queries, one a stream; MaxFailures 2, HalfOpenMaxReqs 1; 5 failures |

The defaults are 5 failures and 3 trials; 2 and 1 are the smallest that tell a
first failure from the last one, and a trial from the one that opened the breaker
half way. Three queries let one result arrive late in each state.
`MaxCount` stops failures only, so that every other step goes on behind it.

`FairSpec` assumes that calls return, as they have timeouts, and that time
passes. `Recovers` adds what it needs of the users: that queries keep coming,
that the source is switched on, and that nothing fails any more. It holds even when
broken streams hold every half-open slot, because the code reports a success also
for an answer given without the source, and that closes the breaker. The comments
(`StateHalfOpenCB` is "half-open, probing") suggest that only a trial does; without
it, broken streams could leave the breaker half-open for ever.

`CircuitBreakerProofs` proves all three safety properties for any number of
queries and any thresholds, and that a closed breaker is below its threshold. The
inductive invariant adds to `TypeOK` that a closed breaker has counted at least
the failures in a row (and is below its threshold), and that a half-open one
has counted all its trials but the first. `Recovers` is only model-checked.

## Ticket creation and outbox: `TicketOutbox`

| Variable | Code |
|---|---|
| `ticket` | table `tickets`: the idempotency key of each row |
| `outbox` | table `ticket_outbox`: `status`, `attempts`, whether `next_attempt_at` has passed |
| `request` | a call of CreateTicket: not running, between the lookup and the insert, answered, failed on the unique index |
| `round` | a worker's ProcessDueEvents: the rows still to do, the attempts it read with them, the outcome it has not marked yet |
| `handled` | which subscribers have handled the event |
| `tries`, `losses` | history: publications that succeeded and failed, marks that were lost |

`CreateTicketModelAtomically` is one step on sqlite and two on PostgreSQL, whose
READ COMMITTED lets another transaction commit between the lookup and the
insert. A row of `ticket` and the one of `outbox` with the same number are
written together. A round is ClaimDue (a plain SELECT), then for each row
Dispatch and one of MarkDelivered, MarkFailed and MarkLost; a crash drops what
is left of it. The marks write by id alone and take the attempts from the
SELECT, so another worker's mark is overwritten; the model has exactly that.

Abstractions: the bus is the in-memory one, whose Publish returns only after
every handler ran (the Redis bus, which answers before any does, is in `EventFlow`); a crash does not forget what handlers have done; requests without a
key always make a new ticket and are left out; the payload always unmarshals;
backoff is a row that is due again at some time.

`ReliableEvents` is the promise: an event comes with its ticket, is brought to
each subscriber once or more often, is settled only when all have seen it, or is
given up, and nothing happens to it after that.

| Run | Question | Bounds |
|---|---|---|
| `outbox_single` | does one worker implement ReliableEvents; is every publication accounted for; has a row earned its status; is every event settled or given up in the end | 3 requests for 2 tickets, 2 handlers, 2 attempts, batches of 1, 2 lost marks or crashes |

Two comments say what the model does not do. ClaimDue does not claim: with two workers,
which only the theorems are about, both have the same row in `todo`. And of two concurrent requests with one key on PostgreSQL
the second ends with the error of the unique index (`request[r] = "conflict"`),
where `CreateTicketAtomically` speaks of a replay.

The budget is 5 attempts and the batch 50 in the code. Two attempts tell a retry
from the last one; a batch of one row makes the second ticket wait behind a failing first one (the
proofs hold for batches of any size).

`FairSpec` assumes that the ticker fires and a round goes on, one condition
for each worker as `periodicJob.loop` gives it, and that backoffs run out.
It does not assume that handlers succeed: `Settles` holds because failures are
counted. Losses are finite (`MaxLost`); a database that refuses marks for ever
keeps an event open for ever, in the code as in the model.

`TicketOutboxProofs` proves, for any number of requests, keys, workers, handlers,
attempts and losses: `TypeOK`, `OneTicketPerKey` and `StatusIsEarned`, also with
several replicas. The invariant relates each round to the rows: the attempts
it read are no more than the failed publications (`RoundsOK`), and so are those
the row counts (`RowsOK`). Two theorems assume one worker, which
`docs/multi-instance-boundary.md` prescribes for the deployment (`replicas: 1`):
`OneWorkerIsReliable`, that every step is a step of `ReliableEvents` or a
stutter, and `OneWorkerAccounts`, that publications are attempts, deliveries, lost
marks and the one in flight. They need `AloneOK`: nobody but the worker settles
a row, so what it read is what the row still says. Only model-checked: `Settles`.

## Events, webhooks and automation: `EventFlow`

| Variable | Code |
|---|---|
| `notified`, `handling` | announcements a replica has not dispatched yet; the handler that runs, one after the other |
| `active` | whether the endpoint is active |
| `deliveries` | table `webhook_deliveries`: status, attempt, whether `next_retry_at` has passed |
| `timers` | table `automation_timers`: status, whether due, whether it knows its ticket |
| `post`, `firing` | what each replica's delivery worker and timer worker are about, with the rows they read |
| `seen`, `ran` | history: what came of the posts of each delivery; how often each timer's action ran |

One module for three components, because what goes wrong is at the seams: the bus
in memory hands an event to the process that publishes it, the Redis bus to
every replica that listens at that moment, and each of them enqueues a delivery of
its own. The workers read due rows without a claim; a delivery is settled by id
alone, with the attempt that was read, while a timer is completed by an UPDATE that
matches pending rows only, and its action runs after that. `Setups` pairs a
kind of bus with what the automation waits for.

Abstractions: one endpoint, one automation with one delayed action; payloads,
signatures, conditions and the backoff formula are data (a row that waits is due
again at some time); dead letters and the Redis stream are written and never read.

Run `events`: one event, two replicas, batches of one row, two attempts, two
mishaps (a crash, a write that fails, a redelivery, the endpoint going away or
coming back). Two replicas are what an overlap needs; two attempts tell the retry
from the last one, and two mishaps let something be redelivered under a round that
then dies. `Spec` assumes that the loops of a live process continue, that calls
time out and that time passes; not that an endpoint answers, nor that a crashed
process does what it had in memory. `EverythingSettles` needs no more, because
posts are counted.

`EventFlowProofs` proves `TypeOK`, `SettledIsEarned` and `TimerOnce` for any number
of replicas, events and attempts. Its invariant ties what a worker read to the
row: an attempt that was read is no more than the posts that were made, and a
timer that somebody is about to run is done, and is run by nobody else.
`EverythingSettles` is only model-checked.

## Sessions and tokens: `AuthSessions`

| Variable | Code |
|---|---|
| `user` | row of `users`: active, `token_version`, `token_valid_after` |
| `sess` | table `user_auth_sessions`: status, `token_version` |
| `tokens` | issued pairs of an access and a refresh token, by their claims |
| `revoked` | table `revoked_tokens` |
| `req` | the requests under way: what each has read |
| `spent`, `ended`, `denied`, `served` | history: rotated refresh tokens, pairs issued before a revocation, pairs ever listed, pairs let through although they were listed when they came |

A refresh reads the user, the session, rotates the session's version by an
UPDATE that names only its id, reads it again and issues. Revocations of one, of
all other, or of all sessions, of the user and of a single token interleave with
it, and so does the retention job of the list. The access middleware is two steps:
the validator looks at the expiry with a clock of its own (ValidateToken), and the
policies look at the list, the user and the session with a later one
(ApplyPolicies).

`DeniedStaysDenied` says that a listed token is refused as long as it lives, and
that one which came listed is let through only when it expired between the two
readings of the clock. That case is what the code allows: the validator passes it
just before its expiry, and the policy ignores entries of the list that have
expired.

Run `auth_revocation`: two sessions, two requests, two pairs of tokens, a clock of
three ticks. Two requests give every pair of overlapping operations. There is no
liveness: a request ends when its calls do.

`AuthSessionsProofs` proves all four properties for any number of sessions and
requests, and for both reuse policies. The key is that versions only grow: what
was revoked is behind one of the two versions for ever, although a rotation under
way may make the row of a revoked session `active` again (`EndedBehind`). A token
that was let through although listed had expired by then (`ServedOK`).

## Audit trail: `AuditChain`

| Variable | Code |
|---|---|
| `config` | the database, and whether there is no archive, one directory for each replica, or one they share |
| `rows`, `lastId` | table `audit_logs` and its sequence; a hash is the sequence of everything that went into it |
| `now` | the clock, which moves whenever somebody reads it; `PerSecond` readings make a second |
| `req` | a Record: between the snapshot of its SELECT, its lock and its INSERT |
| `clean` | a retention job: its cutoff, its batch, and of the archive file it writes the second in the name, where the file it has open is by now, and whether that is whole |
| `cold` | the names in the archive whose file is whole |
| `before`, `sealed`, `edits`, `clashed` | history: what a row was put after; the last id given out before a row was touched; the ids touched by hand; the rows two jobs were archiving under one name at once |

The SELECT of the tail chooses its row before it waits for that row's lock on
PostgreSQL; sqlite fails the transaction whose reads are out of date. The archive
writes a batch to a temporary file (OpenTemporary, WriteTemporary) and renames it
(Rename, RenameFails). Its name is the second, the first and the last id, so of two
replicas with one directory the second may empty the file the first is about to
rename; what each has open is followed through that. Someone with access to the
table may remove a row, change its text or its previous hash, and leave its hash,
compute it again or blank it (EditRow, RemoveRow): no key goes into a hash.
All configurations, and a table that has or has not a row from before the chain,
are initial states.

`NothingLost` excepts the rows of batches that two replicas wrote to one name at
once: a file of half of them may get the name, and the rows be deleted.
`TamperingShows` says what a chain that verifies does show: a row nobody has
touched vouches for the rows before it, up to the next row without a hash. It says
nothing of the newest rows, which can be hashed again up to the last one, nor of
what comes before a row whose hash was blanked.

| Run | Question | Bounds |
|---|---|---|
| `audit_retention` | is every entry in the table or in the archive; does an untouched chain verify on sqlite; what does a chain that verifies vouch for | 2 recorders, 2 retention jobs, batches of 1; 3 rows without an archive and 2 with one; 1 row touched by hand, on sqlite without an archive |
| `audit_fork` (must fail) | does an untouched chain verify on PostgreSQL | the same |

Three rows are what a break in the middle takes. Files know nothing of the chain,
so two rows, which two jobs archive in any order, are enough for them; the clock
reaches a second second.

`AuditChainProofs` proves the four properties of `audit_retention`, for any number
of recorders, retention jobs, rows and edits, and any clock. The invariant `ChainInv`:

- what a transaction has read is what the table says, as long as nobody has
  committed since (`ReadsOK`); so one writer at a time puts rows in with times
  that grow with their ids (`TimesInOrder`), and a batch, which is chosen by time,
  has no older row left beside it (`OldestFirst`). That is why what a half-failed
  round leaves is the tail of the chain (`TailOfChain`), which verifies;
- a row nobody has touched keeps its hash (`HashesAreKept`), and the hash of one that
  was put in before anybody touched a row holds nothing but what was recorded,
  each after the row that was the last one then (`GenuineRows`); in a chain that
  verifies, the hashes of the rows before it are the beginnings of that one
  (`VouchedAreGenuine`);
- two jobs write files of one name only where that is on record (`Alone`), so a job
  that is alone has a temporary file that is whole once it is written
  (`HoldsWhole`), and a batch that is about to be deleted is in the archive
  (`ArchivedFirst`).

The newest row exists because a set of numbers with a bound has a greatest one
(`Greatest`), which follows from the library's well-foundedness of the natural
numbers. The chain theorems assume, as the model does, that the clock does not stand
still or run backwards between two entries.

## Connectors: `ConnectorInbox`

| Variable | Code |
|---|---|
| `inbox` | table `chat_connector_inboxes`: status, payload file, whether `forwarded_at` is set |
| `cursor` | table `chat_connector_cursors` |
| `objects`; `expired`, `torn` | payload files; history: those past their retention when a sweep looked at them, and those being saved then |
| `forgotten` | what the platform no longer delivers, since an offset past it was sent |
| `loop`, `cancelled` | the poll loops: where each is in Run and drain; whether its context is cancelled |
| `active`, `attached`, `op` | the supervisor's fields, and the operators inside Stop, Start and a replay |
| `live`, `again` | history: ingestions by loops and by replays |

A step is one call to the database, the payload store or the platform, and each may
fail; a statement that fails may have been committed. Supervisor and loop are in
one module because the hazard is between them: Stop forgets a generation before it
has cancelled it, and stops waiting at its deadline, so loops of two generations
overlap on one cursor.

A payload is saved in two steps, the object and then the sidecar that says when it
expires (SaveObject, SaveSidecar). The retention sweep looks at a payload
(SweepReads) and removes it later (SweepRemoves), and it takes one without a
readable sidecar for expired, also when it is still being saved. `PayloadStays`
says that a row's payload is there unless it is past its retention or was
looked at in that moment (`torn`).

Run `connector_overlap`: two updates, two loops, two operators, three events
(failures, crashes, reloads, replays, dismissals, sweeps). Two updates are what a
cursor needs to skip one; two loops and two operators are an overlap.

`ConnectorInboxProofs` proves all six properties for any number of updates, of loops
that overlap, of operators, failures and crashes. None is inductive alone:
`InboxInv` adds, for a loop at each place, what it relies on. Before its update is
in the inbox all earlier ones are (`Received`), and so whatever loop writes the
cursor last writes one that is safe, also if it moves backwards; two loops never
forward one update, because only the one whose INSERT made the row goes on
(`Chosen`, `Apart`); and the payload a loop holds is no row's and no other loop's,
and is there or condemned by a sweep (`Holds`, `Known`), which takes that a fresh name
is fresh: a theorem about finite sets.

## Real-time hub: `RealtimeHub`

| Variable | Code |
|---|---|
| `clients` | the hub's map |
| `hub` | the client that Run is about to send its ICE configuration to |
| `conn`, `reader`, `writer` | a websocket connection and where its two pumps are |
| `open`, `queue` | the send channel: whether it is not closed, and what is in it |
| `answer` | the goroutine that answers a question, from the look at the session to the last frame |
| `said`, `joined`, `got` | history: how much was broadcast, from where on a client listens, what was written to it |
| `crashed` | whose panic ended the process |

An unbuffered channel is one step with Run's receive. Frames that are broadcast are
numbered; what they say is data. The model is of the connections of one
session, since others share only the loop, which waits for nobody. Translations,
agents' messages and notifications are SendToSession; whether an agent has the
session is read from the database and may be either.

| Run | Question | Bounds |
|---|---|---|
| `hub` | does the loop ever send on or close a closed channel; does a connected client miss a frame; does everything settle, whoever takes nothing | 2 connections, channels of 1 frame (256 in the code), 1 question with 1 increment, 1 offer, signal or notice |
| `hub_panic` (must fail) | does a slow client ever cost more than its connection | 1 connection, 2 extras |

One frame of room is enough to be slow; a streamed answer and its echo are up to
four broadcasts. With one frame the order inside a channel is trivial and only that of
what was written is checked; the theorem about `FramesAreWhole` covers channels of
any size. `Spec` assumes that goroutines continue and that calls to the AI and
writes to a connection time out; not that anybody leaves or reads.
`HubSettles` says that in the end the list and the open connections agree, no reader
waits for the loop, and every question is answered: a broadcast never waits for a
channel with room. It makes an exception of a reader that waits for room to
answer an offer when its writer has gone: nobody makes room, and the client stays
listed until a broadcast throws it out (and the send panics). It holds up nobody
else.

`RealtimeHubProofs` proves `HubSendsAreSafe` for any number of clients
and questions and any capacity, and on the way `TypeOK`, which no run checks. The invariant is that listed clients have open channels, that one
that is still registering is not listed, and that Run takes nothing else between a
registration and the ICE configuration.

It also proves `FramesAreWhole`. The invariant `StreamInv` says that a client has got its
frames up to some number, that the ones right after it wait in its channel, in
order, and that for a listed client these go up to the last one said: a
broadcast that finds a channel full throws the client out, and never skips a frame.
`HubSettles` is only model-checked.

## Findings

| Run | What the code does | What the repository says |
|---|---|---|
| `claims_postgres` | on PostgreSQL two rounds pick one waiting record from their snapshots, both claim it and both dispatch it, within the lease: the UPDATE that has waited for the row takes it by id, with no condition of its own | `modules/routing/infra/gorm_repository.go:134-135`: of concurrent workers only one gets it; `docs/multi-instance-boundary.md:79`: no duplicates |
| `audit_fork` | on PostgreSQL two recorders chain to one row, and VerifyChain reports a break nobody made | `platform/audit/chain.go:20-21`: a row lock serialises them |
| `hub_panic` | an answer to an offer is sent on a channel that Run has closed, and the process ends | `sdk/PROTOCOL.md:118`: a slow client is thrown out and connects again |

## Observations

Behaviour that the models have as the code does, and that a reader of the documents
may not expect. No property is kept for these; each can be seen by adding the
formula or the change that is named.

- A round that outlives its lease and the round that takes the record over both
  transfer the session, for one request, on sqlite too (`LeaseOutlivesWork = FALSE`
  in `Handoff`). (Line 80 of `docs/multi-instance-boundary.md` has it that
  the actions of a timer may run more than once; they do not, as CompleteTimer comes
  first: `TimerOnce`.)
- A session that waits and is assigned by `conversation.AssignAgent` keeps its waiting
  record for ever, as long as its agent is who a round would choose; and records that no
  round can dispatch (of ended sessions, for skills nobody has) stay first in every
  batch. With as many of them as a batch holds the queue stands still
  (`WaitersAreServed` without its conditions); `docs/acceptance-checklist.md:281`
  expects the queue to be drained once an agent is back.
- Closing a conversation leaves it on its agent's `current_load`
  (`modules/conversation/application/service.go:297`); `docs/metrics-spec.md:53`
  calls it the current sessions. Two concurrent transfers to one agent, or a release of a
  session that has ended, make the load drift too.
- A message that was read before a close and written after it makes the session
  active again, with `ended_at` still set; a session closed between the status check of
  `executeTransfer` and its transaction is made active and transferred; the record
  of an ended session is never dispatched.
- The outbox publishes an event again when a mark is lost (`worker.go:32`), where
  `modules/ticket/outbox/doc.go:3-4` speaks of exactly once.
- The breaker of the scoped runtime lives for one query
  (`app/server/ai_scoped_runtime.go:138`) and never opens;
  `app/server/ai_scoped_handler.go:166` counts on it for faults at run time.
- A stream that breaks off reports nothing to the breaker, and an answer given
  without the source reports a success: that alone closes a half-open breaker
  whose slots are taken.
- A rotation under way makes the row of a revoked session active again, with a
  higher version (`AuthSessions`, Rotate): tokens stay dead, but lists of sessions
  show it as alive. Two refreshes with one token both succeed if they overlap.
- A listed access token whose expiry falls between the validator's clock and that of
  the policies is let through once (`served` in `AuthSessions`).
- Two replicas that archive one batch to one directory in one second share the
  temporary file: the half-written file of one may get its final name by the rename of the
  other, which then deletes the rows (`clashed` in `AuditChain`);
  `platform/audit/archive.go:20-21` rules out that anything is deleted before it is
  archived, and lines 35-36 that half a file is taken for a whole one.
- An audit chain whose newest rows were hashed again, or in which a row's hash was
  blanked, verifies; `platform/audit/chain.go:20` speaks of any change of fields or
  hashes.
- A retention sweep that reads a sidecar which has been created and not yet written
  removes the payload, and the row that is inserted then has none (`torn` in
  `ConnectorInbox`). A process that dies between the object and its sidecar leaves an
  object no sweep ever finds, as sweeps walk the sidecars;
  `platform/channel/payload.go:174` wants no ciphertext without its sidecar.
- When every audit entry has expired, the next one starts again at genesis; an
  archive directory that cannot be made disables the archive, and the retention job
  deletes all the same.
- A replay of a row that was ingested and not stamped ingests it a second time.
- Under Redis each listening replica enqueues its own delivery of an event, and a
  replica that is reconnecting never sees it; a lookup of the endpoint that fails
  makes a delivery dead at once; a crash between the completion of a timer and its
  actions loses them.
- A ticket event carries the aggregate `ticket:<id>`
  (`modules/ticket/application/events.go:42`), which HandleBusEvent parses as a
  number (`modules/automation/application/service.go:57-60`): an automation set off
  by the bus has no ticket, although `service_test.go:253` uses a plain number.
- The answers to two questions are streamed by two goroutines, and their increments
  carry no id (`sdk/PROTOCOL.md:48`); the AI looks for an agent first and answers
  later, also if one has come meanwhile; a message that could not be stored is
  echoed all the same, and `sdk/PROTOCOL.md:120` takes the echo for success.

## Not modelled

- Data: prompts, retrieval, conditions of automations, payloads, signatures,
  webhook headers, password and one-time-code checks, rendering.
- Code with state but no protocol between actors: CRUD modules, statistics,
  periodic scans (SLA, surveys, quality review), the ticket status table, calls.
- Redis: the agent registry with its messages and the loop for stale entries; the
  quota counters, whose token budget is checked before and charged after a call, and
  documented as a soft one.
- Media: WebRTC tracks, telephony, speech, and the voice hub, which closes its
  channels from one place.
- The other chat connectors (their inbox and cursor are the same code), outgoing
  messages and the runner's state report.
- Several replicas of the hand-over's in-memory registry, and of the outbox (there
  are theorems about any number of workers, but no run with two).

## What is proved and what is checked

TLAPS proves every theorem named above; no proof step is left open. Every
invariant, action property and refinement of a passing run is proved. The only
hypotheses a theorem adds to its module's ASSUME are `RoutingOnly` and `RecordingOnly`
(`Handoff`) and `OneWorker` (`TicketOutbox`). The
inductive invariants were checked by TLC on the instances of the runs before they
were proved.

Liveness (`WaitersAreServed`, `Recovers`, `Settles`, `EverythingSettles`,
`HubSettles`) is outside the prover's reach and rests on the runs, at
the bounds given.
