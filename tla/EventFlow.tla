------------------------------- MODULE EventFlow -------------------------------
(***************************************************************************)
(* What follows from a business event: the bus takes it to every replica,  *)
(* where its handlers put a webhook delivery and, if an automation waits,  *)
(* a timer into the database; on every replica a worker posts deliveries   *)
(* that are due and another runs the actions of timers that are due.       *)
(*                                                                         *)
(* There is one webhook endpoint and one automation, with one delayed      *)
(* action.  A step is one call to the database, the bus or the endpoint.   *)
(* Deliveries and timers are numbered in the order they are created.       *)
(***************************************************************************)
EXTENDS Integers, Sequences, FiniteSets

CONSTANTS
    Setups,      \* pairs of a kind of bus and of what the automation waits for
    Replicas,    \* server processes
    Sources,     \* business events that happen
    BatchSize,   \* deliveries, and timers, that a worker handles in a round
    MaxAttempts, \* posts after which a delivery is dead
    MaxMishaps   \* bound: crashes, failed calls, redeliveries, changes of the endpoint

ASSUME EventAssumption ==
    /\ Setups \subseteq {"redis", "memory"} \X {"ticket", "sla"}
    /\ IsFiniteSet(Replicas) /\ IsFiniteSet(Sources)
    /\ BatchSize \in Nat \ {0} /\ MaxAttempts \in Nat \ {0} /\ MaxMishaps \in Nat

VARIABLES
    bus,        \* the kind of bus, fixed when the server starts
    trigger,    \* what the automation waits for, fixed as well
    done,       \* the sources that have happened
    notified,   \* [Replicas -> events announced and not yet dispatched]
    handling,   \* [Replicas -> the handler that runs, and its event]
    active,     \* whether the endpoint is active
    deliveries, \* table webhook_deliveries
    timers,     \* table automation_timers
    post,       \* [Replicas -> what the delivery worker is about: [id -> step]]
    firing,     \* [Replicas -> program counter and locals of the timer worker]
    seen,       \* history: for each delivery, what has come of its posts
    ran,        \* history: for each timer, how often its action has run
    mishaps     \* history: how many there have been

vars == <<bus, trigger, done, notified, handling, active, deliveries, timers, post, firing,
          seen, ran, mishaps>>
config == <<bus, trigger>>
events == <<done, notified, handling>>
webhooks == <<active, deliveries, post, seen>>
automation == <<timers, firing, ran>>

Row(status, attempt, due) == [status |-> status, attempt |-> attempt, due |-> due]
Timer(status, due, ticket) == [status |-> status, due |-> due, ticket |-> ticket]
Posting(pc, attempt) == [pc |-> pc, attempt |-> attempt]
Known(posts, acknowledged, refused) ==
    [posts |-> posts, acknowledged |-> acknowledged, refused |-> refused]
Handling(pc, source) == [pc |-> pc, source |-> source]
Firing(pc, list, timer) == [pc |-> pc, list |-> list, timer |-> timer]

NotHandling == Handling("idle", {})
NotFiring == Firing("idle", {}, 0)
NotSeen == Known(0, FALSE, FALSE)
NoPosts == [id \in {} |-> 0]

Init ==
    /\ \E s \in Setups : bus = s[1] /\ trigger = s[2]
    /\ done = {} /\ notified = [p \in Replicas |-> {}]
    /\ handling = [p \in Replicas |-> NotHandling]
    /\ active = TRUE /\ deliveries = <<>> /\ timers = <<>>
    /\ post = [p \in Replicas |-> NoPosts] /\ firing = [p \in Replicas |-> NotFiring]
    /\ seen = <<>> /\ ran = <<>> /\ mishaps = 0

Mishap == mishaps < MaxMishaps /\ mishaps' = mishaps + 1

----------------------------------------------------------------------------
(* The bus *)

\* A ticket event.  Redis announces it to the replicas that are listening; the
\* bus in memory runs the handlers of the process that publishes it.
Publish(p, e, listening) ==
    /\ e \notin done /\ done' = done \cup {e}
    /\ notified' = [q \in Replicas |->
         IF q \in (IF bus = "redis" THEN listening ELSE {p}) THEN notified[q] \cup {e} ELSE notified[q]]
    /\ UNCHANGED <<config, handling, webhooks, automation, mishaps>>

\* The entry of the stream is read, unless it has been trimmed or cannot be read,
\* and given to one handler after the other.
Dispatch(p, e) ==
    /\ handling[p].pc = "idle" /\ e \in notified[p]
    /\ notified' = [notified EXCEPT ![p] = @ \ {e}]
    /\ handling' = [handling EXCEPT ![p] = Handling("automation", {e})]
    /\ UNCHANGED <<config, done, webhooks, automation, mishaps>>

\* The entry is gone, trimmed off the stream, or it cannot be read.
Skip(p, e) ==
    /\ handling[p].pc = "idle" /\ e \in notified[p] /\ bus = "redis"
    /\ notified' = [notified EXCEPT ![p] = @ \ {e}]
    /\ UNCHANGED <<config, done, handling, webhooks, automation, mishaps>>

\* scheduleTimer, or its failure.  `ticket' says that the timer knows a ticket.
MayScheduleTimer(ticket) ==
    \/ /\ timers' = Append(timers, Timer("pending", FALSE, ticket))
       /\ ran' = Append(ran, 0)
    \/ UNCHANGED <<timers, ran>>

\* The automation handler.  The aggregate of a ticket event is "ticket:<id>", which
\* is no number: an automation set off by the bus knows no ticket.
HandleBusEvent(p) ==
    /\ handling[p].pc = "automation"
    /\ handling' = [handling EXCEPT ![p] = Handling("webhook", handling[p].source)]
    /\ IF trigger = "ticket" THEN MayScheduleTimer(FALSE) ELSE UNCHANGED <<timers, ran>>
    /\ UNCHANGED <<config, done, notified, firing, webhooks, mishaps>>

\* The webhook handler.  What the endpoint does between the look at it and the
\* insert, it might as well do after the insert.
Enqueue(p) ==
    /\ handling[p].pc = "webhook"
    /\ handling' = [handling EXCEPT ![p] = NotHandling]
    /\ \/ /\ active
          /\ deliveries' = Append(deliveries, Row("pending", 0, TRUE))
          /\ seen' = Append(seen, NotSeen)
       \/ UNCHANGED <<deliveries, seen>>  \* the endpoint is inactive, or the database fails
    /\ UNCHANGED <<config, done, notified, active, post, automation, mishaps>>

\* A violation of an SLA, given to the automations with the id of its ticket and
\* without the bus.
HandleViolation(e) ==
    /\ trigger = "sla" /\ e \notin done /\ done' = done \cup {e}
    /\ MayScheduleTimer(TRUE)
    /\ UNCHANGED <<config, notified, handling, firing, webhooks, mishaps>>

----------------------------------------------------------------------------
(* The delivery worker *)

\* The rows a round takes: the first BatchSize that are due, by id.
Due == {id \in DOMAIN deliveries : deliveries[id].status = "pending" /\ deliveries[id].due}
Batch == {id \in Due : Cardinality({i \in Due : i < id}) < BatchSize}

\* Mutant: a claim that takes the rows out of the queue.
ClaimToSend(p) ==
    /\ post[p] = NoPosts /\ Batch # {}
    /\ post' = [post EXCEPT ![p] =
         [id \in Batch |-> Posting("endpoint", deliveries[id].attempt)]]
    /\ deliveries' = [id \in DOMAIN deliveries |->
         IF id \in Batch THEN [deliveries[id] EXCEPT !.status = "sending"] ELSE deliveries[id]]
    /\ UNCHANGED <<config, events, active, seen, automation, mishaps>>

\* A round starts when all of the previous one has been marked.  The claim is a
\* plain read: another replica may claim the same rows.
Claim(p) ==
    /\ post[p] = NoPosts /\ Batch # {}
    /\ post' = [post EXCEPT ![p] =
         [id \in Batch |-> Posting("endpoint", deliveries[id].attempt)]]
    /\ UNCHANGED <<config, events, active, deliveries, seen, automation, mishaps>>

Goto(p, id, pc) ==
    post' = [post EXCEPT ![p] = [post[p] EXCEPT ![id] = Posting(pc, post[p][id].attempt)]]

\* The look at the endpoint, which may have been deactivated or deleted; a look that
\* fails counts as one that finds nothing.
GetEndpoint(p, id) ==
    /\ post[p][id].pc = "endpoint"
    /\ \/ /\ active /\ UNCHANGED <<seen, mishaps>>
          /\ Goto(p, id, "post")
       \/ /\ IF active THEN Mishap ELSE UNCHANGED mishaps
          /\ Goto(p, id, "unavailable")
          /\ seen' = [seen EXCEPT ![id] = Known(seen[id].posts, seen[id].acknowledged, TRUE)]
    /\ UNCHANGED <<config, events, active, deliveries, automation>>

\* What is known of a delivery after one more post; posts are counted to MaxAttempts.
After(h, result) ==
    Known(IF h.posts < MaxAttempts THEN h.posts + 1 ELSE MaxAttempts,
          h.acknowledged \/ result = "success", h.refused \/ result = "refused")

\* The endpoint acknowledges, fails or times out, or answers with a status after
\* which there is no use in trying again.
Deliver(p, id) ==
    /\ post[p][id].pc = "post"
    /\ \E result \in {"success", "failed", "refused"} :
         /\ Goto(p, id, result)
         /\ seen' = [seen EXCEPT ![id] = After(seen[id], result)]
    /\ UNCHANGED <<config, events, active, deliveries, automation, mishaps>>

Marked(p, id) == post' = [post EXCEPT ![p] = [i \in DOMAIN post[p] \ {id} |-> post[p][i]]]

\* Success adds one to the attempts of the row as it now is, whatever its status.
MarkDeliverySuccess(p, id) ==
    /\ post[p][id].pc = "success" /\ Marked(p, id)
    /\ deliveries' = [deliveries EXCEPT ![id] = Row("success", deliveries[id].attempt + 1, TRUE)]
    /\ UNCHANGED <<config, events, active, seen, automation, mishaps>>

\* Mutant: whatever status the answer has, the delivery is tried once more at most.
MarkDeliveryFailureEarly(p, id) ==
    /\ post[p][id].pc \in {"failed", "refused", "unavailable"} /\ Marked(p, id)
    /\ LET attempt == post[p][id].attempt + 1
           dead == post[p][id].pc # "failed" \/ attempt + 1 >= MaxAttempts
       IN  deliveries' = [deliveries EXCEPT ![id] =
             Row(IF dead THEN "dead" ELSE "pending", attempt, dead)]
    /\ UNCHANGED <<config, events, active, seen, automation, mishaps>>

\* Failure writes what follows from the row as it was claimed, over whatever is there.
MarkDeliveryFailure(p, id) ==
    /\ post[p][id].pc \in {"failed", "refused", "unavailable"} /\ Marked(p, id)
    /\ LET attempt == post[p][id].attempt + 1
           dead == post[p][id].pc # "failed" \/ attempt >= MaxAttempts
       IN  deliveries' = [deliveries EXCEPT ![id] =
             Row(IF dead THEN "dead" ELSE "pending", attempt, dead)]
    /\ UNCHANGED <<config, events, active, seen, automation, mishaps>>

\* The write fails: the row stays as it is.
MarkFails(p, id) ==
    /\ post[p][id].pc \in {"success", "failed", "refused", "unavailable"} /\ Marked(p, id) /\ Mishap
    /\ UNCHANGED <<config, events, active, deliveries, seen, automation>>

\* Mutant: a delivery sent again gets a status that no worker looks for.
RedeliverAsFailed(id) ==
    /\ Mishap /\ deliveries[id] # Row("pending", 0, TRUE)
    /\ deliveries' = [deliveries EXCEPT ![id] = Row("failed", 0, TRUE)]
    /\ UNCHANGED <<config, events, active, post, seen, automation>>

\* An administrator has a delivery, of any status, sent again.
RedeliverDelivery(id) ==
    /\ Mishap /\ deliveries[id] # Row("pending", 0, TRUE)
    /\ deliveries' = [deliveries EXCEPT ![id] = Row("pending", 0, TRUE)]
    /\ UNCHANGED <<config, events, active, post, seen, automation>>

\* An administrator deactivates, or activates, the endpoint.
UpdateEndpoint ==
    /\ Mishap /\ active' = ~active
    /\ UNCHANGED <<config, events, deliveries, post, seen, automation>>

----------------------------------------------------------------------------
(* The timer worker *)

\* The timers a round takes: the first BatchSize that are due, by the time they
\* became due, which may be any order.
ClaimDueTimers(p) ==
    LET due == {t \in DOMAIN timers : timers[t].status = "pending" /\ timers[t].due}
    IN  /\ firing[p].pc = "idle" /\ due # {}
        /\ \E list \in SUBSET due :
             /\ Cardinality(list) = (IF Cardinality(due) < BatchSize THEN Cardinality(due) ELSE BatchSize)
             /\ firing' = [firing EXCEPT ![p] = Firing("complete", list, 0)]
        /\ UNCHANGED <<config, events, webhooks, timers, ran, mishaps>>

NextTimer(p, list) ==
    firing' = [firing EXCEPT ![p] =
      IF list = {} THEN NotFiring ELSE Firing("complete", list, 0)]

\* Mutant: the status of the timer is not part of the update.
CompleteTimerAnyway(p, t) ==
    /\ firing[p].pc = "complete" /\ t \in firing[p].list
    /\ timers' = [timers EXCEPT ![t] = Timer("done", timers[t].due, timers[t].ticket)]
    /\ firing' = [firing EXCEPT ![p] = Firing("run", firing[p].list \ {t}, t)]
    /\ UNCHANGED <<config, events, webhooks, ran, mishaps>>

\* The timer is taken if it still is pending, and left to whoever took it otherwise.
CompleteTimer(p, t) ==
    /\ firing[p].pc = "complete" /\ t \in firing[p].list
    /\ \/ /\ timers[t].status = "pending"
          /\ timers' = [timers EXCEPT ![t] = Timer("done", timers[t].due, timers[t].ticket)]
          /\ firing' = [firing EXCEPT ![p] = Firing("run", firing[p].list \ {t}, t)]
       \/ /\ timers[t].status = "done" /\ UNCHANGED timers
          /\ NextTimer(p, firing[p].list \ {t})
    /\ UNCHANGED <<config, events, webhooks, ran, mishaps>>

\* The ticket is loaded and the action runs on it; without a ticket it fails.
RunTimerActions(p) ==
    /\ firing[p].pc = "run"
    /\ LET t == firing[p].timer
       IN  ran' = [ran EXCEPT ![t] = IF timers[t].ticket THEN ran[t] + 1 ELSE ran[t]]
    /\ NextTimer(p, firing[p].list)
    /\ UNCHANGED <<config, events, webhooks, timers, mishaps>>

----------------------------------------------------------------------------
(* Time, crashes and the specification *)

\* A delivery's next retry, or a timer's delay, is over.
RetryIsDue(id) ==
    /\ deliveries[id].status = "pending" /\ ~deliveries[id].due
    /\ deliveries' = [deliveries EXCEPT ![id] = Row("pending", deliveries[id].attempt, TRUE)]
    /\ UNCHANGED <<config, events, active, post, seen, automation, mishaps>>

TimerIsDue(t) ==
    /\ ~timers[t].due
    /\ timers' = [timers EXCEPT ![t] = Timer(timers[t].status, TRUE, timers[t].ticket)]
    /\ UNCHANGED <<config, events, webhooks, firing, ran, mishaps>>

\* A process stops and starts again: what it had been told of and not handled, the
\* round of posts and the action it was about to run are lost.
Crash(p) ==
    /\ Mishap
    /\ notified' = [notified EXCEPT ![p] = {}]
    /\ handling' = [handling EXCEPT ![p] = NotHandling]
    /\ post' = [post EXCEPT ![p] = NoPosts] /\ firing' = [firing EXCEPT ![p] = NotFiring]
    /\ UNCHANGED <<config, done, active, deliveries, seen, timers, ran>>

Bus(p) ==
    \/ \E e \in notified[p] : Dispatch(p, e)
    \/ Enqueue(p) \/ HandleBusEvent(p)

DeliveryWorker(p) ==
    \/ Claim(p)
    \/ \E id \in DOMAIN post[p] :
         \/ GetEndpoint(p, id) \/ Deliver(p, id)
         \/ MarkDeliverySuccess(p, id) \/ MarkDeliveryFailure(p, id)

TimerWorker(p) ==
    \/ ClaimDueTimers(p)
    \/ \E t \in firing[p].list : CompleteTimer(p, t)
    \/ RunTimerActions(p)

Time ==
    \/ \E id \in DOMAIN deliveries : RetryIsDue(id)
    \/ \E t \in DOMAIN timers : TimerIsDue(t)

Next ==
    \/ \E e \in Sources : HandleViolation(e) \/ \E p \in Replicas, l \in SUBSET Replicas : Publish(p, e, l)
    \/ \E p \in Replicas : Bus(p) \/ DeliveryWorker(p) \/ TimerWorker(p)
    \/ \E p \in Replicas : \E e \in notified[p] : Skip(p, e)
    \/ \E p \in Replicas : \E id \in DOMAIN post[p] : MarkFails(p, id)
    \/ \E id \in DOMAIN deliveries : RedeliverDelivery(id)
    \/ UpdateEndpoint \/ Time
    \/ \E p \in Replicas : Crash(p)

\* The loops of a process run until it stops, every call they make returns or times
\* out, and time passes.
Fairness ==
    /\ \A p \in Replicas : WF_vars(Bus(p)) /\ WF_vars(DeliveryWorker(p)) /\ WF_vars(TimerWorker(p))
    /\ WF_vars(Time)

Spec == Init /\ [][Next]_vars /\ Fairness

----------------------------------------------------------------------------
(* Properties *)

\* Types: rows, histories and program counters have the values the code gives them.
TypeOK ==
    /\ <<bus, trigger>> \in Setups
    /\ done \subseteq Sources /\ \A p \in Replicas : notified[p] \subseteq done
    /\ \A p \in Replicas : /\ handling[p].pc \in {"idle", "webhook", "automation"}
                           /\ handling[p].source \subseteq done
    /\ active \in BOOLEAN /\ mishaps \in 0..MaxMishaps
    /\ DOMAIN seen = DOMAIN deliveries /\ DOMAIN ran = DOMAIN timers
    /\ \A id \in DOMAIN deliveries :
         /\ deliveries[id].status \in {"pending", "success", "dead"} /\ deliveries[id].due \in BOOLEAN
         /\ deliveries[id].attempt \in Nat /\ seen[id].posts \in 0..MaxAttempts
    /\ \A t \in DOMAIN timers : timers[t].status \in {"pending", "done"} /\ ran[t] \in Nat
    /\ \A p \in Replicas : /\ DOMAIN post[p] \subseteq DOMAIN deliveries
                           /\ firing[p].list \subseteq DOMAIN timers
                           /\ firing[p].pc \in {"idle", "complete", "run"}

\* However the rounds of the replicas overlap, and whatever is redelivered under
\* them: a delivery is a success only if the endpoint acknowledged it, and it is
\* dead only if the endpoint was not to be found, refused it or was tried MaxAttempts times; the
\* attempts of a pending one never run ahead of the posts.
SettledIsEarned ==
    \A id \in DOMAIN deliveries :
      /\ deliveries[id].status = "success" => seen[id].acknowledged
      /\ deliveries[id].status = "dead" => seen[id].refused \/ seen[id].posts = MaxAttempts
      /\ deliveries[id].status = "pending" => deliveries[id].attempt <= seen[id].posts

\* On all replicas together, the action of a timer runs once at most, and not before
\* the delay is over.
TimerOnce == \A t \in DOMAIN timers : ran[t] <= 1 /\ (ran[t] = 1 => timers[t].due)

\* Once mishaps end, no delivery is left pending and no timer waits: a crash strands
\* nothing that is in the database, and stale marks do not keep a delivery going.
EverythingSettles ==
    <>[](/\ \A id \in DOMAIN deliveries : deliveries[id].status \in {"success", "dead"}
         /\ \A t \in DOMAIN timers : timers[t].status = "done")
=============================================================================
