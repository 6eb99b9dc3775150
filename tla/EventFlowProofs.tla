---------------------------- MODULE EventFlowProofs ----------------------------
(***************************************************************************)
(* Proofs about EventFlow, for any number of replicas and events, any      *)
(* batch size and any limit on the attempts.                               *)
(*                                                                         *)
(* The invariant has three parts that no action mixes: the events on their *)
(* way, the deliveries with the posts about them, and the timers with the  *)
(* workers that fire them.                                                 *)
(***************************************************************************)
EXTENDS EventFlow, SequenceTheorems, TLAPS

Rows == [status : {"pending", "success", "dead"}, attempt : Nat, due : BOOLEAN]
Timers == [status : {"pending", "done"}, due : BOOLEAN, ticket : BOOLEAN]
Histories == [posts : 0 .. MaxAttempts, acknowledged : BOOLEAN, refused : BOOLEAN]
Postings == [pc : {"endpoint", "post", "success", "failed", "refused", "unavailable"},
             attempt : Nat]
Handlings == [pc : {"idle", "webhook", "automation"}, source : SUBSET done]

EventsInv ==
    /\ \E s \in Setups : bus = s[1] /\ trigger = s[2]
    /\ done \subseteq Sources /\ mishaps \in 0 .. MaxMishaps
    /\ notified \in [Replicas -> SUBSET done]
    /\ handling \in [Replicas -> Handlings]

\* A row has the status that what is known of its delivery entitles it to, and a
\* pending one has an attempt left.
RowFits(row, h) ==
    /\ row.status = "success" => h.acknowledged
    /\ row.status = "dead" => h.refused \/ h.posts = MaxAttempts
    /\ row.status = "pending" => row.attempt < MaxAttempts /\ row.attempt <= h.posts

\* What a worker is about to write is true already, and stays true.
PostingFits(step, h) ==
    /\ step.attempt < MaxAttempts
    /\ step.pc \in {"endpoint", "post"} => step.attempt <= h.posts
    /\ step.pc = "failed" => step.attempt < h.posts
    /\ step.pc = "success" => h.acknowledged
    /\ step.pc \in {"refused", "unavailable"} => h.refused

\* The round of a worker, with n deliveries of which s is known.
RoundFits(f, n, s) ==
    /\ DOMAIN f \subseteq 1 .. n /\ f = [id \in DOMAIN f |-> f[id]]
    /\ \A id \in DOMAIN f : f[id] \in Postings /\ PostingFits(f[id], s[id])

DeliveriesInv ==
    /\ active \in BOOLEAN
    /\ deliveries \in Seq(Rows) /\ seen \in Seq(Histories) /\ Len(seen) = Len(deliveries)
    /\ \A id \in 1 .. Len(deliveries) : RowFits(deliveries[id], seen[id])
    /\ post = [p \in Replicas |-> post[p]]
    /\ \A p \in Replicas : RoundFits(post[p], Len(deliveries), seen)

\* A timer whose action has run, or is about to, is done and due; it is about to run
\* on one replica only, and has not run before.
TimerFits(timer, r) ==
    /\ r \in {0, 1}
    /\ r = 1 => timer.status = "done" /\ timer.due

\* The round of a timer worker, with the timers s that have run r times.
FiringFits(f, s, r) ==
    /\ f.pc \in {"idle", "complete", "run"}
    /\ f.list \subseteq 1 .. Len(s)
    /\ \A t \in f.list : s[t].due
    /\ f.pc = "run" => /\ f.timer \in 1 .. Len(s)
                       /\ s[f.timer].status = "done" /\ s[f.timer].due
                       /\ r[f.timer] = 0

TimersInv ==
    /\ timers \in Seq(Timers) /\ ran \in Seq(Nat) /\ Len(ran) = Len(timers)
    /\ \A t \in 1 .. Len(timers) : TimerFits(timers[t], ran[t])
    /\ firing = [p \in Replicas |-> firing[p]]
    /\ \A p \in Replicas : FiringFits(firing[p], timers, ran)
    /\ \A p, q \in Replicas : firing[p].pc = "run" /\ firing[q].pc = "run" /\ p # q
                                => firing[p].timer # firing[q].timer

IInv == EventsInv /\ DeliveriesInv /\ TimersInv

LEMMA Bounds == MaxAttempts \in Nat \ {0} /\ MaxMishaps \in Nat
                /\ Setups \subseteq {"redis", "memory"} \X {"ticket", "sla"}
BY EventAssumption

----------------------------------------------------------------------------
(* What each part needs of a step *)

EventsStay == UNCHANGED <<config, events, mishaps>>
DeliveriesStay == UNCHANGED webhooks
TimersStay == UNCHANGED automation

LEMMA StayKeeps ==
    ASSUME IInv
    PROVE  /\ EventsStay => EventsInv'
           /\ DeliveriesStay => DeliveriesInv'
           /\ TimersStay => TimersInv'
<1>1. EventsStay => EventsInv'
  BY DEF IInv, EventsStay, EventsInv, config, events, Handlings
<1>2. DeliveriesStay => DeliveriesInv'
  BY DEF IInv, DeliveriesStay, DeliveriesInv, webhooks
<1>3. TimersStay => TimersInv'
  BY DEF IInv, TimersStay, TimersInv, automation
<1> QED BY <1>1, <1>2, <1>3

LEMMA InitHolds == Init => IInv
<1> SUFFICES ASSUME Init PROVE IInv
  OBVIOUS
<1>1. EventsInv
  BY Bounds, SMT DEF Init, EventsInv, Handlings, NotHandling, Handling
<1>2. DeliveriesInv
  <2>1. <<>> \in Seq(Rows) /\ <<>> \in Seq(Histories) /\ Len(<<>>) = 0
    BY SMT
  <2>2. \A p \in Replicas : post[p] = NoPosts
    BY SMT DEF Init
  <2>3. DOMAIN NoPosts = {} /\ NoPosts = [id \in DOMAIN NoPosts |-> NoPosts[id]]
    BY SMT DEF NoPosts
  <2>4. post = [p \in Replicas |-> post[p]]
    BY SMT DEF Init
  <2> QED BY <2>1, <2>2, <2>3, <2>4, SMT DEF Init, DeliveriesInv, RoundFits
<1>3. TimersInv
  <2>1. \A p \in Replicas : firing[p] = NotFiring
    BY SMT DEF Init
  <2>2. firing = [p \in Replicas |-> firing[p]]
    BY SMT DEF Init
  <2>3. timers = <<>> /\ ran = <<>>
    BY DEF Init
  <2> QED BY <2>1, <2>2, <2>3, SMT DEF TimersInv, FiringFits, NotFiring, Firing
<1> QED BY <1>1, <1>2, <1>3 DEF IInv

----------------------------------------------------------------------------
(* Events *)

LEMMA MishapCounts == ASSUME EventsInv, Mishap PROVE mishaps' \in 0 .. MaxMishaps
BY Bounds, SMT DEF EventsInv, Mishap

\* Steps that leave the events alone, but may be a mishap.
LEMMA MishapKeeps ==
    ASSUME EventsInv, UNCHANGED <<config, events>>, Mishap \/ UNCHANGED mishaps
    PROVE  EventsInv'
<1>1. mishaps' \in 0 .. MaxMishaps
  BY MishapCounts DEF EventsInv
<1> QED BY <1>1 DEF EventsInv, config, events, Handlings

LEMMA EventStepKeeps ==
    ASSUME EventsInv, UNCHANGED <<config, mishaps>>,
           NEW p \in Replicas, NEW e,
           \/ e \in Sources /\ \E l \in SUBSET Replicas : Publish(p, e, l)
           \/ e \in notified[p] /\ (Dispatch(p, e) \/ Skip(p, e))
           \/ Enqueue(p) \/ HandleBusEvent(p)
    PROVE  EventsInv'
<1>1. \E s \in Setups : bus' = s[1] /\ trigger' = s[2]
  BY DEF EventsInv, config
<1>2. done \subseteq done' /\ done' \subseteq Sources
  <2>1. done \subseteq Sources
    BY DEF EventsInv
  <2>2. done' = done \/ (e \in Sources /\ done' = done \cup {e})
    BY Zenon DEF Publish, Dispatch, Skip, Enqueue, HandleBusEvent
  <2> QED BY <2>1, <2>2
<1>3. notified' \in [Replicas -> SUBSET done']
  <2>1. ASSUME NEW l \in SUBSET Replicas, Publish(p, e, l) PROVE notified' \in [Replicas -> SUBSET done']
    BY <2>1, SMT DEF EventsInv, Publish
  <2>2. CASE Dispatch(p, e) \/ Skip(p, e)
    BY <2>2, SMT DEF EventsInv, Dispatch, Skip
  <2>3. CASE notified' = notified
    BY <2>3, <1>2, SMT DEF EventsInv
  <2> QED BY <2>1, <2>2, <2>3 DEF Enqueue, HandleBusEvent
<1>4. handling' \in [Replicas -> [pc : {"idle", "webhook", "automation"}, source : SUBSET done']]
  <2>1. handling \in [Replicas -> [pc : {"idle", "webhook", "automation"}, source : SUBSET done']]
    BY <1>2, SMT DEF EventsInv, Handlings
  <2>2. CASE e \in notified[p] /\ Dispatch(p, e)
    <3>1. e \in done'
      BY <1>2, <2>2, SMT DEF EventsInv
    <3> QED BY <2>1, <2>2, <3>1, SMT DEF Dispatch, Handling
  <2>3. CASE HandleBusEvent(p)
    BY <2>1, <2>3, SMT DEF HandleBusEvent, Handling
  <2>4. CASE Enqueue(p)
    BY <2>1, <2>4, SMT DEF Enqueue, NotHandling, Handling
  <2>5. CASE handling' = handling
    BY <2>1, <2>5
  <2> QED BY <2>2, <2>3, <2>4, <2>5 DEF Publish, Skip
<1>5. mishaps' \in 0 .. MaxMishaps
  BY DEF EventsInv
<1> QED BY <1>1, <1>2, <1>3, <1>4, <1>5 DEF EventsInv, Handlings

LEMMA CrashKeepsEvents == ASSUME EventsInv, NEW p \in Replicas, Crash(p) PROVE EventsInv'
<1>1. mishaps' \in 0 .. MaxMishaps
  BY MishapCounts DEF Crash
<1>2. notified' \in [Replicas -> SUBSET done]
  BY SMT DEF Crash, EventsInv
<1>3. handling' \in [Replicas -> Handlings]
  BY SMT DEF Crash, EventsInv, Handlings, NotHandling, Handling
<1> QED BY <1>1, <1>2, <1>3 DEF Crash, EventsInv, config, Handlings

----------------------------------------------------------------------------
(* Deliveries *)

\* What is known of a delivery only grows, and whatever fits goes on fitting.
Grows(h, g) ==
    /\ h.posts <= g.posts
    /\ h.acknowledged => g.acknowledged
    /\ h.refused => g.refused

LEMMA FitsAsItGrows ==
    ASSUME NEW h \in Histories, NEW g \in Histories, Grows(h, g)
    PROVE  /\ \A row \in Rows : RowFits(row, h) => RowFits(row, g)
           /\ \A step \in Postings : PostingFits(step, h) => PostingFits(step, g)
<1>1. /\ h.posts \in 0 .. MaxAttempts /\ g.posts \in 0 .. MaxAttempts
  BY DEF Histories
<1>2. ASSUME NEW row \in Rows, RowFits(row, h) PROVE RowFits(row, g)
  <2>1. row.attempt \in Nat
    BY DEF Rows
  <2> QED BY <1>1, <1>2, <2>1, Bounds, SMT DEF Grows, RowFits
<1>3. ASSUME NEW step \in Postings, PostingFits(step, h) PROVE PostingFits(step, g)
  <2>1. step.attempt \in Nat
    BY DEF Postings
  <2> QED BY <1>1, <1>3, <2>1, Bounds, SMT DEF Grows, PostingFits
<1> QED BY <1>2, <1>3

LEMMA RoundsFitAsItGrows ==
    ASSUME NEW n \in Nat, NEW k \in Nat, n <= k, NEW s, NEW z, NEW f,
           \A i \in 1 .. n : s[i] \in Histories /\ z[i] \in Histories /\ Grows(s[i], z[i]),
           RoundFits(f, n, s)
    PROVE  RoundFits(f, k, z)
<1>1. \A id \in DOMAIN f : id \in 1 .. n /\ f[id] \in Postings /\ PostingFits(f[id], s[id])
  BY DEF RoundFits
<1>2. \A id \in DOMAIN f : PostingFits(f[id], z[id])
  BY <1>1, FitsAsItGrows
<1>3. DOMAIN f \subseteq 1 .. k
  BY <1>1, SMT
<1> QED BY <1>1, <1>2, <1>3 DEF RoundFits

\* All that a step about deliveries has to show.
LEMMA DeliveriesMove ==
    ASSUME DeliveriesInv, active' \in BOOLEAN,
           deliveries' \in Seq(Rows), seen' \in Seq(Histories),
           Len(seen') = Len(deliveries'), Len(deliveries) <= Len(deliveries'),
           \A i \in 1 .. Len(deliveries) : Grows(seen[i], seen'[i]),
           \A i \in 1 .. Len(deliveries') : RowFits(deliveries'[i], seen'[i]),
           post' = [p \in Replicas |-> post'[p]],
           \A p \in Replicas : post'[p] = post[p] \/ RoundFits(post'[p], Len(deliveries'), seen')
    PROVE  DeliveriesInv'
<1>1. Len(deliveries) \in Nat /\ Len(deliveries') \in Nat
  BY LenProperties DEF DeliveriesInv
<1>2. \A i \in 1 .. Len(deliveries) : seen[i] \in Histories /\ seen'[i] \in Histories
  BY <1>1, ElementOfSeq, SMT DEF DeliveriesInv
<1>3. \A p \in Replicas : RoundFits(post[p], Len(deliveries), seen)
  BY DEF DeliveriesInv
<1>4. \A p \in Replicas : RoundFits(post[p], Len(deliveries'), seen')
  BY <1>1, <1>2, <1>3, RoundsFitAsItGrows
<1> QED BY <1>4 DEF DeliveriesInv

\* What the invariant says of one delivery and one posting.
LEMMA OneDelivery ==
    ASSUME DeliveriesInv
    PROVE  /\ Len(deliveries) \in Nat /\ Len(seen) = Len(deliveries)
           /\ DOMAIN deliveries = 1 .. Len(deliveries) /\ DOMAIN seen = 1 .. Len(deliveries)
           /\ \A i \in 1 .. Len(deliveries) :
                /\ deliveries[i] \in Rows /\ seen[i] \in Histories
                /\ RowFits(deliveries[i], seen[i]) /\ Grows(seen[i], seen[i])
           /\ \A p \in Replicas : \A i \in DOMAIN post[p] :
                /\ i \in 1 .. Len(deliveries)
                /\ post[p][i] \in Postings /\ PostingFits(post[p][i], seen[i])
<1>1. Len(deliveries) \in Nat /\ Len(seen) = Len(deliveries)
  BY LenProperties DEF DeliveriesInv
<1>2. DOMAIN deliveries = 1 .. Len(deliveries) /\ DOMAIN seen = 1 .. Len(deliveries)
  BY LenProperties DEF DeliveriesInv
<1>3. \A i \in 1 .. Len(deliveries) : deliveries[i] \in Rows /\ seen[i] \in Histories
  BY <1>1, ElementOfSeq DEF DeliveriesInv
<1>4. \A i \in 1 .. Len(deliveries) : Grows(seen[i], seen[i])
  BY <1>3, SMT DEF Grows, Histories
<1> QED BY <1>1, <1>2, <1>3, <1>4 DEF DeliveriesInv, RoundFits

\* One row is written, over a history that does not change.
LEMMA RowWritten ==
    ASSUME DeliveriesInv, NEW id \in 1 .. Len(deliveries), NEW row \in Rows, RowFits(row, seen[id]),
           deliveries' = [deliveries EXCEPT ![id] = row], UNCHANGED <<active, seen>>,
           post' = [p \in Replicas |-> post'[p]],
           \A p \in Replicas : post'[p] = post[p] \/ RoundFits(post'[p], Len(deliveries), seen)
    PROVE  DeliveriesInv'
<1>1. deliveries' \in Seq(Rows) /\ Len(deliveries') = Len(deliveries)
  BY ExceptSeq DEF DeliveriesInv
<1>2. \A i \in 1 .. Len(deliveries) : deliveries'[i] = IF i = id THEN row ELSE deliveries[i]
  BY OneDelivery
<1>3. \A i \in 1 .. Len(deliveries') : RowFits(deliveries'[i], seen'[i])
  BY <1>1, <1>2, OneDelivery
<1>4. /\ active' \in BOOLEAN /\ seen' \in Seq(Histories) /\ Len(seen') = Len(deliveries')
      /\ Len(deliveries) <= Len(deliveries')
      /\ \A i \in 1 .. Len(deliveries) : Grows(seen[i], seen'[i])
  BY <1>1, OneDelivery, SMT DEF DeliveriesInv
<1> QED BY <1>1, <1>3, <1>4, DeliveriesMove

\* A worker goes a step on with one posting, and more is known of its delivery.
LEMMA PostingMoves ==
    ASSUME DeliveriesInv, NEW p \in Replicas, NEW id \in DOMAIN post[p], NEW pc, NEW g \in Histories,
           Goto(p, id, pc), pc \in {"endpoint", "post", "success", "failed", "refused", "unavailable"},
           Grows(seen[id], g), PostingFits(Posting(pc, post[p][id].attempt), g),
           seen' = [seen EXCEPT ![id] = g], UNCHANGED <<active, deliveries>>
    PROVE  DeliveriesInv'
<1> DEFINE step == Posting(pc, post[p][id].attempt)
           round == [post[p] EXCEPT ![id] = step]
<1>1. id \in 1 .. Len(deliveries) /\ step \in Postings
  BY OneDelivery, SMT DEF Posting, Postings
<1>2. seen' \in Seq(Histories) /\ Len(seen') = Len(deliveries)
  BY <1>1, ExceptSeq DEF DeliveriesInv
<1>3. \A i \in 1 .. Len(deliveries) : seen'[i] = IF i = id THEN g ELSE seen[i]
  BY OneDelivery
<1>4. \A i \in 1 .. Len(deliveries) : Grows(seen[i], seen'[i]) /\ seen'[i] \in Histories
  BY <1>3, OneDelivery
<1>5. \A i \in 1 .. Len(deliveries) : RowFits(deliveries[i], seen'[i])
  BY <1>4, OneDelivery, FitsAsItGrows
<1>6. post' = [post EXCEPT ![p] = round]
  BY DEF Goto
<1>7. post' = [q \in Replicas |-> post'[q]] /\ \A q \in Replicas : post'[q] = IF q = p THEN round ELSE post[q]
  BY <1>6, Zenon DEF DeliveriesInv
<1>8. RoundFits(round, Len(deliveries), seen')
  <2>1. DOMAIN round = DOMAIN post[p] /\ round = [i \in DOMAIN round |-> round[i]]
    BY Zenon
  <2>2. \A i \in DOMAIN post[p] : round[i] = IF i = id THEN step ELSE post[p][i]
    BY Zenon
  <2>3. \A i \in DOMAIN post[p] : post[p][i] \in Postings /\ PostingFits(post[p][i], seen'[i])
    BY <1>4, OneDelivery, FitsAsItGrows
  <2>4. PostingFits(step, seen'[id])
    BY <1>1, <1>3
  <2>5. \A i \in DOMAIN round : round[i] \in Postings /\ PostingFits(round[i], seen'[i])
    BY <1>1, <2>1, <2>2, <2>3, <2>4, Zenon
  <2> HIDE DEF round
  <2> QED BY <2>1, <2>5, OneDelivery DEF RoundFits
<1> HIDE DEF round, step
<1>9. Len(deliveries) <= Len(deliveries') /\ active' \in BOOLEAN /\ deliveries' \in Seq(Rows)
  BY OneDelivery, SMT DEF DeliveriesInv
<1> QED BY <1>2, <1>4, <1>5, <1>7, <1>8, <1>9, DeliveriesMove

LEMMA EnqueueKeeps == ASSUME DeliveriesInv, NEW p \in Replicas, Enqueue(p) PROVE DeliveriesInv'
<1> DEFINE row == Row("pending", 0, TRUE)
<1>1. CASE /\ deliveries' = Append(deliveries, row) /\ seen' = Append(seen, NotSeen)
  <2>1. row \in Rows /\ NotSeen \in Histories /\ RowFits(row, NotSeen)
    BY Bounds, SMT DEF Row, Rows, NotSeen, Known, Histories, RowFits
  <2> HIDE DEF row
  <2>2. /\ deliveries' \in Seq(Rows) /\ Len(deliveries') = Len(deliveries) + 1
        /\ \A i \in 1 .. Len(deliveries) : deliveries'[i] = deliveries[i]
        /\ deliveries'[Len(deliveries) + 1] = row
    BY <1>1, <2>1, AppendProperties DEF DeliveriesInv
  <2>3. /\ seen' \in Seq(Histories) /\ Len(seen') = Len(seen) + 1
        /\ \A i \in 1 .. Len(seen) : seen'[i] = seen[i]
        /\ seen'[Len(seen) + 1] = NotSeen
    BY <1>1, <2>1, AppendProperties DEF DeliveriesInv
  <2>4. \A i \in 1 .. Len(deliveries) : Grows(seen[i], seen'[i])
    BY <2>3, OneDelivery
  <2>5. \A i \in 1 .. Len(deliveries') : RowFits(deliveries'[i], seen'[i])
    <3> SUFFICES ASSUME NEW i \in 1 .. Len(deliveries') PROVE RowFits(deliveries'[i], seen'[i])
      OBVIOUS
    <3>1. CASE i \in 1 .. Len(deliveries)
      BY <2>2, <2>3, <3>1, OneDelivery
    <3>2. CASE i = Len(deliveries) + 1
      BY <2>1, <2>2, <2>3, <3>2, OneDelivery
    <3> QED BY <2>2, <3>1, <3>2, OneDelivery, SMT
  <2>6. /\ Len(seen') = Len(deliveries') /\ Len(deliveries) <= Len(deliveries')
    BY <2>2, <2>3, OneDelivery, SMT
  <2>7. active' \in BOOLEAN /\ post' = [q \in Replicas |-> post'[q]] /\ \A q \in Replicas : post'[q] = post[q]
    BY DEF Enqueue, DeliveriesInv
  <2> QED BY <2>2, <2>3, <2>4, <2>5, <2>6, <2>7, DeliveriesMove
<1>2. CASE UNCHANGED <<deliveries, seen>>
  BY <1>2 DEF Enqueue, DeliveriesInv
<1> QED BY <1>1, <1>2 DEF Enqueue

LEMMA ClaimKeeps == ASSUME DeliveriesInv, NEW p \in Replicas, Claim(p) PROVE DeliveriesInv'
<1> DEFINE round == [id \in Batch |-> Posting("endpoint", deliveries[id].attempt)]
<1>1. \A id \in Batch : id \in 1 .. Len(deliveries) /\ deliveries[id].status = "pending"
  BY OneDelivery, Zenon DEF Batch, Due
<1>2. RoundFits(round, Len(deliveries), seen)
  <2>1. DOMAIN round = Batch /\ round = [id \in DOMAIN round |-> round[id]]
    BY Zenon
  <2>2. ASSUME NEW id \in Batch PROVE round[id] \in Postings /\ PostingFits(round[id], seen[id])
    <3>1. round[id] = Posting("endpoint", deliveries[id].attempt)
      OBVIOUS
    <3>2. deliveries[id] \in Rows /\ RowFits(deliveries[id], seen[id])
      BY <1>1, OneDelivery
    <3> HIDE DEF round
    <3> QED BY <1>1, <3>1, <3>2, SMT DEF Rows, RowFits, Posting, Postings, PostingFits
  <2> HIDE DEF round
  <2> QED BY <1>1, <2>1, <2>2 DEF RoundFits
<1>3. post' = [q \in Replicas |-> post'[q]] /\ \A q \in Replicas : post'[q] = IF q = p THEN round ELSE post[q]
  BY Zenon DEF Claim, DeliveriesInv
<1> HIDE DEF round
<1>4. UNCHANGED <<active, deliveries, seen>>
  BY DEF Claim
<1> QED BY <1>2, <1>3, <1>4 DEF DeliveriesInv

\* A posting is taken off the round.
LEMMA MarkedFits ==
    ASSUME DeliveriesInv, NEW p \in Replicas, NEW id, Marked(p, id)
    PROVE  /\ post' = [q \in Replicas |-> post'[q]]
           /\ \A q \in Replicas : RoundFits(post'[q], Len(deliveries), seen)
<1> DEFINE round == [i \in DOMAIN post[p] \ {id} |-> post[p][i]]
<1>1. post' = [q \in Replicas |-> post'[q]] /\ \A q \in Replicas : post'[q] = IF q = p THEN round ELSE post[q]
  BY Zenon DEF Marked, DeliveriesInv
<1>2. RoundFits(round, Len(deliveries), seen)
  <2>1. RoundFits(post[p], Len(deliveries), seen)
    BY DEF DeliveriesInv
  <2>2. DOMAIN round \subseteq DOMAIN post[p] /\ \A i \in DOMAIN round : round[i] = post[p][i]
    BY Zenon
  <2>3. round = [i \in DOMAIN round |-> round[i]]
    BY Zenon
  <2> HIDE DEF round
  <2> QED BY <2>1, <2>2, <2>3 DEF RoundFits
<1> HIDE DEF round
<1> QED BY <1>1, <1>2 DEF DeliveriesInv

LEMMA MarkKeeps ==
    ASSUME DeliveriesInv, NEW p \in Replicas, NEW id \in DOMAIN post[p],
           MarkDeliverySuccess(p, id) \/ MarkDeliveryFailure(p, id) \/ MarkFails(p, id)
    PROVE  DeliveriesInv'
<1>1. /\ id \in 1 .. Len(deliveries) /\ post[p][id] \in Postings /\ PostingFits(post[p][id], seen[id])
      /\ deliveries[id] \in Rows /\ seen[id] \in Histories
  BY OneDelivery
<1>2. Marked(p, id)
  BY DEF MarkDeliverySuccess, MarkDeliveryFailure, MarkFails
<1>3. /\ post' = [q \in Replicas |-> post'[q]]
      /\ \A q \in Replicas : RoundFits(post'[q], Len(deliveries), seen)
  BY <1>2, MarkedFits
<1>4. CASE MarkDeliverySuccess(p, id)
  <2> DEFINE row == Row("success", deliveries[id].attempt + 1, TRUE)
  <2>1. row \in Rows /\ RowFits(row, seen[id])
    BY <1>1, <1>4, SMT DEF MarkDeliverySuccess, Row, Rows, RowFits, PostingFits
  <2>2. deliveries' = [deliveries EXCEPT ![id] = row] /\ UNCHANGED <<active, seen>>
    BY <1>4 DEF MarkDeliverySuccess
  <2> HIDE DEF row
  <2> QED BY <1>1, <1>3, <2>1, <2>2, RowWritten
<1>5. CASE MarkDeliveryFailure(p, id)
  <2> DEFINE attempt == post[p][id].attempt + 1
             dead == post[p][id].pc # "failed" \/ attempt >= MaxAttempts
             row == Row(IF dead THEN "dead" ELSE "pending", attempt, dead)
  <2>1. deliveries' = [deliveries EXCEPT ![id] = row] /\ UNCHANGED <<active, seen>>
    BY <1>5 DEF MarkDeliveryFailure
  <2>2. attempt \in Nat /\ dead \in BOOLEAN
    BY <1>1, SMT DEF Postings
  <2>3. row \in Rows
    BY <2>2, SMT DEF Row, Rows
  <2>4. CASE post[p][id].pc = "failed"
    <3>1. attempt <= seen[id].posts /\ seen[id].posts \in 0 .. MaxAttempts /\ attempt <= MaxAttempts
      BY <1>1, <2>4, Bounds, SMT DEF PostingFits, Postings, Histories
    <3>2. ASSUME attempt >= MaxAttempts PROVE RowFits(row, seen[id])
      BY <2>2, <3>1, <3>2, Bounds, SMT DEF Row, RowFits
    <3>3. ASSUME ~(attempt >= MaxAttempts) PROVE RowFits(row, seen[id])
      BY <2>2, <2>4, <3>1, <3>3, Bounds, SMT DEF Row, RowFits
    <3>4. RowFits(row, seen[id])
      BY <3>2, <3>3
    <3> HIDE DEF row
    <3> QED BY <1>1, <1>3, <2>1, <2>3, <3>4, RowWritten
  <2>5. CASE post[p][id].pc # "failed"
    <3>1. seen[id].refused /\ row.status = "dead"
      BY <1>1, <1>5, <2>5, SMT DEF MarkDeliveryFailure, PostingFits, Row
    <3>2. RowFits(row, seen[id])
      BY <3>1 DEF RowFits
    <3> HIDE DEF row
    <3> QED BY <1>1, <1>3, <2>1, <2>3, <3>2, RowWritten
  <2> QED BY <2>4, <2>5
<1>6. CASE MarkFails(p, id)
  BY <1>3, <1>6 DEF MarkFails, DeliveriesInv
<1> QED BY <1>4, <1>5, <1>6

LEMMA GetEndpointKeeps ==
    ASSUME DeliveriesInv, NEW p \in Replicas, NEW id \in DOMAIN post[p], GetEndpoint(p, id)
    PROVE  DeliveriesInv'
<1>1. /\ id \in 1 .. Len(deliveries) /\ post[p][id] \in Postings /\ PostingFits(post[p][id], seen[id])
      /\ seen[id] \in Histories /\ Grows(seen[id], seen[id])
  BY OneDelivery
<1>2. post[p][id].pc = "endpoint" /\ UNCHANGED <<active, deliveries>>
  BY DEF GetEndpoint
<1>3. CASE Goto(p, id, "post") /\ UNCHANGED seen
  <2>1. seen' = [seen EXCEPT ![id] = seen[id]]
    <3>1. seen \in [1 .. Len(seen) -> Histories]
      BY LenProperties DEF DeliveriesInv
    <3> QED BY <1>3, <3>1, SMT
  <2>2. PostingFits(Posting("post", post[p][id].attempt), seen[id])
    BY <1>1, <1>2, SMT DEF Posting, PostingFits, Postings
  <2> QED BY <1>1, <1>2, <1>3, <2>1, <2>2, PostingMoves
<1>4. CASE /\ Goto(p, id, "unavailable")
           /\ seen' = [seen EXCEPT ![id] = Known(seen[id].posts, seen[id].acknowledged, TRUE)]
  <2> DEFINE g == Known(seen[id].posts, seen[id].acknowledged, TRUE)
  <2>1. g \in Histories /\ Grows(seen[id], g)
    BY <1>1, SMT DEF Known, Histories, Grows
  <2>2. PostingFits(Posting("unavailable", post[p][id].attempt), g)
    BY <1>1, <1>2, SMT DEF Posting, PostingFits, Postings, Known
  <2>3. seen' = [seen EXCEPT ![id] = g]
    BY <1>4
  <2> HIDE DEF g
  <2> QED BY <1>1, <1>2, <1>4, <2>1, <2>2, <2>3, PostingMoves
<1> QED BY <1>3, <1>4 DEF GetEndpoint

LEMMA DeliverKeeps ==
    ASSUME DeliveriesInv, NEW p \in Replicas, NEW id \in DOMAIN post[p], Deliver(p, id)
    PROVE  DeliveriesInv'
<1>1. /\ id \in 1 .. Len(deliveries) /\ post[p][id] \in Postings /\ PostingFits(post[p][id], seen[id])
      /\ seen[id] \in Histories
  BY OneDelivery
<1>2. post[p][id].pc = "post" /\ UNCHANGED <<active, deliveries>>
  BY DEF Deliver
<1>3. PICK result \in {"success", "failed", "refused"} :
        Goto(p, id, result) /\ seen' = [seen EXCEPT ![id] = After(seen[id], result)]
  BY DEF Deliver
<1> DEFINE h == seen[id]
           g == After(h, result)
<1>4. /\ h.posts \in 0 .. MaxAttempts /\ h.acknowledged \in BOOLEAN /\ h.refused \in BOOLEAN
  BY <1>1 DEF Histories
<1> HIDE DEF h
<1>5. /\ g.posts = IF h.posts < MaxAttempts THEN h.posts + 1 ELSE MaxAttempts
      /\ g.acknowledged = (h.acknowledged \/ result = "success")
      /\ g.refused = (h.refused \/ result = "refused")
      /\ g = [posts |-> g.posts, acknowledged |-> g.acknowledged, refused |-> g.refused]
  BY DEF After, Known
<1>6. g.acknowledged \in BOOLEAN /\ g.refused \in BOOLEAN /\ g.posts \in 0 .. MaxAttempts /\ h.posts <= g.posts
  BY <1>4, <1>5, Bounds, SMT
<1>7. g \in Histories /\ Grows(h, g)
  BY <1>4, <1>5, <1>6, Zenon DEF Histories, Grows
<1>8. PostingFits(Posting(result, post[p][id].attempt), g)
  <2> DEFINE a == post[p][id].attempt
  <2>1. a \in Nat /\ a < MaxAttempts /\ a <= h.posts
    BY <1>1, <1>2, SMT DEF PostingFits, Postings, h
  <2>2. a < g.posts
    BY <1>4, <1>5, <2>1, Bounds, SMT
  <2> HIDE DEF a, g
  <2>3. (result = "success" => g.acknowledged) /\ (result = "refused" => g.refused)
    BY <1>5, Zenon
  <2>4. Posting(result, a).pc = result /\ Posting(result, a).attempt = a
    BY DEF Posting
  <2>5. result \notin {"endpoint", "post", "unavailable"}
    OBVIOUS
  <2>6. PostingFits(Posting(result, a), g)
    BY <2>1, <2>2, <2>3, <2>4, <2>5, Zenon DEF PostingFits
  <2> QED BY <2>6 DEF a
<1>9. seen' = [seen EXCEPT ![id] = g]
  BY <1>3 DEF h
<1>10. Grows(seen[id], g)
  BY <1>7 DEF h
<1> HIDE DEF g
<1> QED BY <1>2, <1>3, <1>7, <1>8, <1>9, <1>10, PostingMoves

LEMMA AdministratorKeeps ==
    ASSUME DeliveriesInv,
           \/ UpdateEndpoint
           \/ \E id \in DOMAIN deliveries : RedeliverDelivery(id) \/ RetryIsDue(id)
    PROVE  DeliveriesInv'
<1>1. CASE UpdateEndpoint
  <2>1. active' \in BOOLEAN
    BY <1>1, Zenon DEF UpdateEndpoint, DeliveriesInv
  <2> QED BY <1>1, <2>1 DEF UpdateEndpoint, DeliveriesInv
<1>2. ASSUME NEW id \in DOMAIN deliveries, NEW row \in Rows, RowFits(row, seen[id]),
             deliveries' = [deliveries EXCEPT ![id] = row], UNCHANGED <<active, seen, post>>
      PROVE  DeliveriesInv'
  <2>1. post' = [p \in Replicas |-> post'[p]] /\ \A p \in Replicas : post'[p] = post[p]
    BY <1>2 DEF DeliveriesInv
  <2> QED BY <1>2, <2>1, OneDelivery, RowWritten
<1>3. ASSUME NEW id \in DOMAIN deliveries, RedeliverDelivery(id) PROVE DeliveriesInv'
  <2>1. Row("pending", 0, TRUE) \in Rows /\ RowFits(Row("pending", 0, TRUE), seen[id])
    <3>1. seen[id].posts \in 0 .. MaxAttempts
      BY OneDelivery DEF Histories
    <3> QED BY <3>1, Bounds, SMT DEF Row, Rows, RowFits
  <2>2. deliveries' = [deliveries EXCEPT ![id] = Row("pending", 0, TRUE)] /\ UNCHANGED <<active, seen, post>>
    BY <1>3 DEF RedeliverDelivery
  <2> QED BY <1>2, <2>1, <2>2
<1>4. ASSUME NEW id \in DOMAIN deliveries, RetryIsDue(id) PROVE DeliveriesInv'
  <2> DEFINE row == Row("pending", deliveries[id].attempt, TRUE)
  <2>1. deliveries[id] \in Rows /\ RowFits(deliveries[id], seen[id]) /\ deliveries[id].status = "pending"
    BY <1>4, OneDelivery DEF RetryIsDue
  <2>2. row \in Rows /\ RowFits(row, seen[id])
    BY <2>1, SMT DEF Row, Rows, RowFits
  <2>3. deliveries' = [deliveries EXCEPT ![id] = row] /\ UNCHANGED <<active, seen, post>>
    BY <1>4 DEF RetryIsDue
  <2> HIDE DEF row
  <2> QED BY <1>2, <2>2, <2>3
<1> QED BY <1>1, <1>3, <1>4

LEMMA CrashKeepsDeliveries == ASSUME DeliveriesInv, NEW p \in Replicas, Crash(p) PROVE DeliveriesInv'
<1>1. RoundFits(NoPosts, Len(deliveries), seen)
  BY SMT DEF RoundFits, NoPosts
<1>2. post' = [q \in Replicas |-> post'[q]] /\ \A q \in Replicas : post'[q] = IF q = p THEN NoPosts ELSE post[q]
  BY Zenon DEF Crash, DeliveriesInv
<1> QED BY <1>1, <1>2 DEF Crash, DeliveriesInv

----------------------------------------------------------------------------
(* Timers *)

LEMMA OneTimer ==
    ASSUME TimersInv
    PROVE  /\ Len(timers) \in Nat /\ Len(ran) = Len(timers)
           /\ DOMAIN timers = 1 .. Len(timers) /\ DOMAIN ran = 1 .. Len(timers)
           /\ \A t \in 1 .. Len(timers) :
                timers[t] \in Timers /\ ran[t] \in Nat /\ TimerFits(timers[t], ran[t])
           /\ \A p \in Replicas : FiringFits(firing[p], timers, ran)
<1>1. Len(timers) \in Nat /\ Len(ran) = Len(timers)
  BY LenProperties DEF TimersInv
<1>2. DOMAIN timers = 1 .. Len(timers) /\ DOMAIN ran = 1 .. Len(timers)
  BY LenProperties DEF TimersInv
<1>3. \A t \in 1 .. Len(timers) : timers[t] \in Timers /\ ran[t] \in Nat
  BY <1>1, ElementOfSeq DEF TimersInv
<1> QED BY <1>1, <1>2, <1>3 DEF TimersInv

LEMMA ScheduleKeeps ==
    ASSUME TimersInv, NEW ticket \in BOOLEAN, MayScheduleTimer(ticket), UNCHANGED firing
    PROVE  TimersInv'
<1> DEFINE timer == Timer("pending", FALSE, ticket)
<1>1. CASE timers' = Append(timers, timer) /\ ran' = Append(ran, 0)
  <2>1. timer \in Timers /\ TimerFits(timer, 0)
    BY SMT DEF Timer, Timers, TimerFits
  <2> HIDE DEF timer
  <2>2. /\ timers' \in Seq(Timers) /\ Len(timers') = Len(timers) + 1
        /\ \A t \in 1 .. Len(timers) : timers'[t] = timers[t]
        /\ timers'[Len(timers) + 1] = timer
    BY <1>1, <2>1, AppendProperties DEF TimersInv
  <2>3. /\ ran' \in Seq(Nat) /\ Len(ran') = Len(ran) + 1
        /\ \A t \in 1 .. Len(ran) : ran'[t] = ran[t]
        /\ ran'[Len(ran) + 1] = 0
    BY <1>1, AppendProperties DEF TimersInv
  <2>4. ASSUME NEW t \in 1 .. Len(timers') PROVE TimerFits(timers'[t], ran'[t])
    <3>1. CASE t \in 1 .. Len(timers)
      BY <2>2, <2>3, <3>1, OneTimer
    <3>2. CASE t = Len(timers) + 1
      BY <2>1, <2>2, <2>3, <3>2, OneTimer
    <3> QED BY <2>2, <3>1, <3>2, OneTimer, SMT
  <2>5. ASSUME NEW p \in Replicas PROVE FiringFits(firing[p], timers', ran')
    <3>1. FiringFits(firing[p], timers, ran)
      BY OneTimer
    <3>2. \A t \in 1 .. Len(timers) : t \in 1 .. Len(timers') /\ timers'[t] = timers[t] /\ ran'[t] = ran[t]
      BY <2>2, <2>3, OneTimer, SMT
    <3> QED BY <3>1, <3>2 DEF FiringFits
  <2>6. Len(ran') = Len(timers')
    BY <2>2, <2>3, OneTimer
  <2> QED BY <2>2, <2>3, <2>4, <2>5, <2>6 DEF TimersInv
<1>2. CASE UNCHANGED <<timers, ran>>
  BY <1>2 DEF TimersInv
<1> QED BY <1>1, <1>2 DEF MayScheduleTimer

\* A worker goes on while the timers stay as they are, to a round that runs nothing.
LEMMA FiringMoves ==
    ASSUME TimersInv, NEW p \in Replicas, NEW f, FiringFits(f, timers, ran), f.pc # "run",
           firing' = [firing EXCEPT ![p] = f], UNCHANGED <<timers, ran>>
    PROVE  TimersInv'
<1>1. firing' = [q \in Replicas |-> firing'[q]] /\ \A q \in Replicas : firing'[q] = IF q = p THEN f ELSE firing[q]
  BY Zenon DEF TimersInv
<1> QED BY <1>1 DEF TimersInv

LEMMA ClaimTimersKeeps == ASSUME TimersInv, NEW p \in Replicas, ClaimDueTimers(p) PROVE TimersInv'
<1>1. PICK list \in SUBSET {t \in DOMAIN timers : timers[t].status = "pending" /\ timers[t].due} :
        firing' = [firing EXCEPT ![p] = Firing("complete", list, 0)]
  BY Zenon DEF ClaimDueTimers
<1>2. FiringFits(Firing("complete", list, 0), timers, ran) /\ Firing("complete", list, 0).pc # "run"
  BY OneTimer, SMT DEF FiringFits, Firing
<1>3. UNCHANGED <<timers, ran>>
  BY DEF ClaimDueTimers
<1> QED BY <1>1, <1>2, <1>3, FiringMoves

\* Whatever a worker has left of its list, it may go on with.
LEMMA NextFits ==
    ASSUME NEW s, NEW r, NEW list, list \subseteq 1 .. Len(s), \A t \in list : s[t].due
    PROVE  /\ FiringFits(IF list = {} THEN NotFiring ELSE Firing("complete", list, 0), s, r)
           /\ (IF list = {} THEN NotFiring ELSE Firing("complete", list, 0)).pc # "run"
<1>1. FiringFits(NotFiring, s, r) /\ NotFiring.pc # "run"
  BY DEF FiringFits, NotFiring, Firing
<1>2. FiringFits(Firing("complete", list, 0), s, r) /\ Firing("complete", list, 0).pc # "run"
  BY DEF FiringFits, Firing
<1> QED BY <1>1, <1>2

LEMMA CompleteKeeps ==
    ASSUME TimersInv, NEW p \in Replicas, NEW t \in firing[p].list, CompleteTimer(p, t)
    PROVE  TimersInv'
<1>1. /\ FiringFits(firing[p], timers, ran) /\ t \in 1 .. Len(timers) /\ timers[t].due
      /\ timers[t] \in Timers /\ TimerFits(timers[t], ran[t])
  BY OneTimer DEF FiringFits
<1>2. CASE timers[t].status = "done" /\ UNCHANGED timers /\ NextTimer(p, firing[p].list \ {t})
  <2> DEFINE list == firing[p].list \ {t}
  <2>1. list \subseteq 1 .. Len(timers) /\ \A u \in list : timers[u].due
    BY <1>1 DEF FiringFits
  <2>2. firing' = [firing EXCEPT ![p] = IF list = {} THEN NotFiring ELSE Firing("complete", list, 0)]
    BY <1>2 DEF NextTimer
  <2>3. UNCHANGED <<timers, ran>>
    BY <1>2 DEF CompleteTimer
  <2> HIDE DEF list
  <2> QED BY <2>1, <2>2, <2>3, NextFits, FiringMoves
<1>3. CASE /\ timers[t].status = "pending"
           /\ timers' = [timers EXCEPT ![t] = Timer("done", timers[t].due, timers[t].ticket)]
           /\ firing' = [firing EXCEPT ![p] = Firing("run", firing[p].list \ {t}, t)]
  <2> DEFINE timer == Timer("done", timers[t].due, timers[t].ticket)
             f == Firing("run", firing[p].list \ {t}, t)
  <2>1. timer \in Timers /\ timer.status = "done" /\ timer.due /\ ran[t] = 0
    BY <1>1, <1>3, SMT DEF Timer, Timers, TimerFits
  <2>2. TimerFits(timer, ran[t])
    BY <2>1 DEF TimerFits
  <2>3. f.pc = "run" /\ f.timer = t /\ f.list = firing[p].list \ {t}
    BY DEF Firing
  <2> HIDE DEF timer, f
  <2>4. timers' = [timers EXCEPT ![t] = timer]
    BY <1>3 DEF timer
  <2>5. /\ timers' \in Seq(Timers) /\ Len(timers') = Len(timers)
        /\ \A u \in 1 .. Len(timers) : timers'[u] = IF u = t THEN timer ELSE timers[u]
    BY <1>1, <2>1, <2>4, ExceptSeq DEF TimersInv
  <2>6. ran' = ran
    BY DEF CompleteTimer
  <2>7. /\ firing' = [q \in Replicas |-> firing'[q]]
        /\ \A q \in Replicas : firing'[q] = IF q = p THEN f ELSE firing[q]
    BY <1>3, Zenon DEF TimersInv, f
  <2>8. \A u \in 1 .. Len(timers) : timers[u].due => timers'[u].due
    BY <2>1, <2>5
  <2>9. FiringFits(f, timers', ran')
    BY <1>1, <2>1, <2>3, <2>5, <2>6, <2>8 DEF FiringFits
  <2>10. \A q \in Replicas : FiringFits(firing[q], timers', ran')
    <3> SUFFICES ASSUME NEW q \in Replicas PROVE FiringFits(firing[q], timers', ran')
      OBVIOUS
    <3>1. FiringFits(firing[q], timers, ran)
      BY OneTimer
    <3>2. firing[q].pc = "run" => firing[q].timer # t
      BY <1>3, <3>1 DEF FiringFits
    <3> QED BY <2>5, <2>6, <2>8, <3>1, <3>2 DEF FiringFits
  <2>11. \A q \in Replicas : firing[q].pc = "run" => firing[q].timer # t
    BY <1>3, OneTimer DEF FiringFits
  <2>12. \A q, r \in Replicas : firing'[q].pc = "run" /\ firing'[r].pc = "run" /\ q # r
                                  => firing'[q].timer # firing'[r].timer
    BY <2>3, <2>7, <2>11 DEF TimersInv
  <2>13. \A u \in 1 .. Len(timers') : TimerFits(timers'[u], ran'[u])
    BY <2>2, <2>5, <2>6, OneTimer
  <2>14. \A q \in Replicas : FiringFits(firing'[q], timers', ran')
    BY <2>7, <2>9, <2>10
  <2> QED BY <2>5, <2>6, <2>7, <2>12, <2>13, <2>14 DEF TimersInv
<1> QED BY <1>2, <1>3 DEF CompleteTimer

LEMMA RunKeeps == ASSUME TimersInv, NEW p \in Replicas, RunTimerActions(p) PROVE TimersInv'
<1> DEFINE t == firing[p].timer
           list == firing[p].list
           f == IF list = {} THEN NotFiring ELSE Firing("complete", list, 0)
           n == IF timers[t].ticket THEN ran[t] + 1 ELSE ran[t]
<1>1. /\ firing[p].pc = "run" /\ FiringFits(firing[p], timers, ran)
      /\ t \in 1 .. Len(timers) /\ timers[t].status = "done" /\ timers[t].due /\ ran[t] = 0
      /\ list \subseteq 1 .. Len(timers) /\ \A u \in list : timers[u].due
  BY OneTimer DEF RunTimerActions, FiringFits
<1>2. n \in {0, 1}
  BY <1>1, SMT
<1>3. ran' = [ran EXCEPT ![t] = n] /\ firing' = [firing EXCEPT ![p] = f] /\ timers' = timers
  BY DEF RunTimerActions, NextTimer
<1>4. f.pc # "run"
  BY <1>1, NextFits
<1>5. \A q \in Replicas : q # p => ~(firing[q].pc = "run" /\ firing[q].timer = t)
  BY <1>1 DEF TimersInv
<1> HIDE DEF n
<1>6. /\ ran' \in Seq(Nat) /\ Len(ran') = Len(ran)
      /\ \A u \in 1 .. Len(ran) : ran'[u] = IF u = t THEN n ELSE ran[u]
  <2>1. ran \in Seq(Nat) /\ t \in 1 .. Len(ran) /\ n \in Nat
    BY <1>1, <1>2, OneTimer, SMT DEF TimersInv
  <2> QED BY <1>3, <2>1, ExceptSeq
<1>7. FiringFits(f, timers, ran')
  BY <1>1, NextFits
<1> HIDE DEF t, list, f
<1>8. /\ firing' = [q \in Replicas |-> firing'[q]]
      /\ \A q \in Replicas : firing'[q] = IF q = p THEN f ELSE firing[q]
  BY <1>3, Zenon DEF TimersInv
<1>9. \A u \in 1 .. Len(timers) : TimerFits(timers[u], ran'[u])
  <2>1. TimerFits(timers[t], n)
    BY <1>1, <1>2 DEF TimerFits
  <2> QED BY <1>6, <2>1, OneTimer
<1>10. \A q \in Replicas : q # p => FiringFits(firing[q], timers, ran')
  <2> SUFFICES ASSUME NEW q \in Replicas, q # p PROVE FiringFits(firing[q], timers, ran')
    OBVIOUS
  <2>1. FiringFits(firing[q], timers, ran)
    BY OneTimer
  <2>2. firing[q].pc = "run" => firing[q].timer \in 1 .. Len(ran) /\ firing[q].timer # t
    BY <1>5, <2>1, OneTimer DEF FiringFits
  <2> QED BY <1>6, <2>1, <2>2 DEF FiringFits
<1>11. \A q \in Replicas : FiringFits(firing'[q], timers', ran')
  BY <1>3, <1>7, <1>8, <1>10
<1>12. \A q, r \in Replicas : firing'[q].pc = "run" /\ firing'[r].pc = "run" /\ q # r
                                => firing'[q].timer # firing'[r].timer
  BY <1>4, <1>8 DEF TimersInv
<1> QED BY <1>3, <1>6, <1>8, <1>9, <1>11, <1>12, OneTimer DEF TimersInv

LEMMA TimerIsDueKeeps == ASSUME TimersInv, NEW t \in DOMAIN timers, TimerIsDue(t) PROVE TimersInv'
<1> DEFINE timer == Timer(timers[t].status, TRUE, timers[t].ticket)
<1>1. t \in 1 .. Len(timers) /\ timers[t] \in Timers /\ TimerFits(timers[t], ran[t])
  BY OneTimer
<1>2. timer \in Timers /\ timer.due /\ timer.status = timers[t].status /\ TimerFits(timer, ran[t])
  BY <1>1, SMT DEF Timer, Timers, TimerFits
<1>3. timers' = [timers EXCEPT ![t] = timer] /\ UNCHANGED <<firing, ran>>
  BY DEF TimerIsDue
<1> HIDE DEF timer
<1>4. /\ timers' \in Seq(Timers) /\ Len(timers') = Len(timers)
      /\ \A u \in 1 .. Len(timers) : timers'[u] = IF u = t THEN timer ELSE timers[u]
  BY <1>1, <1>2, <1>3, ExceptSeq DEF TimersInv
<1>5. \A u \in 1 .. Len(timers) : timers'[u].status = timers[u].status /\ (timers[u].due => timers'[u].due)
  BY <1>2, <1>4
<1>6. \A p \in Replicas : FiringFits(firing[p], timers', ran')
  BY <1>3, <1>4, <1>5, OneTimer DEF FiringFits
<1>7. \A u \in 1 .. Len(timers') : TimerFits(timers'[u], ran'[u])
  BY <1>2, <1>3, <1>4, OneTimer
<1> QED BY <1>3, <1>4, <1>6, <1>7 DEF TimersInv

LEMMA CrashKeepsTimers == ASSUME TimersInv, NEW p \in Replicas, Crash(p) PROVE TimersInv'
<1>1. FiringFits(NotFiring, timers, ran) /\ NotFiring.pc # "run"
  BY DEF FiringFits, NotFiring, Firing
<1>2. firing' = [firing EXCEPT ![p] = NotFiring] /\ UNCHANGED <<timers, ran>>
  BY DEF Crash
<1> QED BY <1>1, <1>2, FiringMoves

----------------------------------------------------------------------------
(* All steps *)

LEMMA BusKeeps ==
    ASSUME IInv, NEW p \in Replicas, NEW e,
           \/ e \in Sources /\ \E l \in SUBSET Replicas : Publish(p, e, l)
           \/ e \in notified[p] /\ (Dispatch(p, e) \/ Skip(p, e))
           \/ Enqueue(p) \/ HandleBusEvent(p)
    PROVE  IInv'
<1>1. EventsInv'
  BY EventStepKeeps DEF IInv, Publish, Dispatch, Skip, Enqueue, HandleBusEvent
<1>2. DeliveriesInv'
  BY StayKeeps, EnqueueKeeps
  DEF IInv, DeliveriesStay, Publish, Dispatch, Skip, HandleBusEvent
<1>3. TimersInv'
  <2>1. CASE HandleBusEvent(p) /\ trigger = "ticket"
    BY <2>1, ScheduleKeeps DEF IInv, HandleBusEvent
  <2>2. CASE UNCHANGED <<timers, ran>> /\ UNCHANGED firing
    BY <2>2, StayKeeps DEF TimersStay, automation
  <2> QED BY <2>1, <2>2 DEF Publish, Dispatch, Skip, Enqueue, HandleBusEvent, automation
<1> QED BY <1>1, <1>2, <1>3 DEF IInv

LEMMA ViolationKeeps == ASSUME IInv, NEW e \in Sources, HandleViolation(e) PROVE IInv'
<1>1. done' = done \cup {e} /\ UNCHANGED <<bus, trigger, mishaps, notified, handling>>
  BY DEF HandleViolation, config
<1>2. EventsInv'
  <2>1. done' \subseteq Sources /\ mishaps' \in 0 .. MaxMishaps /\ \E s \in Setups : bus' = s[1] /\ trigger' = s[2]
    BY <1>1 DEF IInv, EventsInv
  <2>2. notified' \in [Replicas -> SUBSET done']
    BY <1>1, SMT DEF IInv, EventsInv
  <2>3. handling' \in [Replicas -> [pc : {"idle", "webhook", "automation"}, source : SUBSET done']]
    <3>1. handling \in [Replicas -> Handlings]
      BY DEF IInv, EventsInv
    <3> QED BY <1>1, <3>1, SMT DEF Handlings
  <2> QED BY <2>1, <2>2, <2>3 DEF EventsInv, Handlings
<1>3. DeliveriesInv'
  BY StayKeeps DEF HandleViolation, DeliveriesStay
<1>4. TimersInv'
  BY ScheduleKeeps DEF IInv, HandleViolation
<1> QED BY <1>2, <1>3, <1>4 DEF IInv

LEMMA DeliveryWorkerKeeps ==
    ASSUME IInv, NEW p \in Replicas,
           DeliveryWorker(p) \/ \E id \in DOMAIN post[p] : MarkFails(p, id)
    PROVE  IInv'
<1>1. UNCHANGED <<config, events, automation>> /\ (Mishap \/ UNCHANGED mishaps)
  BY DEF DeliveryWorker, Claim, GetEndpoint, Deliver, MarkDeliverySuccess, MarkDeliveryFailure, MarkFails
<1>2. EventsInv' /\ TimersInv'
  BY <1>1, MishapKeeps, StayKeeps DEF IInv, TimersStay
<1>3. DeliveriesInv'
  BY ClaimKeeps, GetEndpointKeeps, DeliverKeeps, MarkKeeps DEF IInv, DeliveryWorker
<1> QED BY <1>2, <1>3 DEF IInv

LEMMA TimerWorkerKeeps == ASSUME IInv, NEW p \in Replicas, TimerWorker(p) PROVE IInv'
<1>1. UNCHANGED <<config, events, mishaps, webhooks>>
  BY DEF TimerWorker, ClaimDueTimers, CompleteTimer, RunTimerActions
<1>2. EventsInv' /\ DeliveriesInv'
  BY <1>1, StayKeeps DEF EventsStay, DeliveriesStay
<1>3. TimersInv'
  BY ClaimTimersKeeps, CompleteKeeps, RunKeeps DEF IInv, TimerWorker
<1> QED BY <1>2, <1>3 DEF IInv

LEMMA OthersKeep ==
    ASSUME IInv,
           \/ Time \/ UpdateEndpoint
           \/ \E id \in DOMAIN deliveries : RedeliverDelivery(id)
    PROVE  IInv'
<1>1. UNCHANGED <<config, events>> /\ (Mishap \/ UNCHANGED mishaps)
  BY DEF Time, RetryIsDue, TimerIsDue, UpdateEndpoint, RedeliverDelivery
<1>2. EventsInv'
  BY <1>1, MishapKeeps DEF IInv
<1>3. CASE \E t \in DOMAIN timers : TimerIsDue(t)
  BY <1>2, <1>3, TimerIsDueKeeps, StayKeeps DEF IInv, TimerIsDue, DeliveriesStay
<1>4. CASE \/ UpdateEndpoint
           \/ \E id \in DOMAIN deliveries : RedeliverDelivery(id) \/ RetryIsDue(id)
  <2>1. UNCHANGED automation
    BY <1>4 DEF UpdateEndpoint, RedeliverDelivery, RetryIsDue
  <2> QED BY <1>2, <1>4, <2>1, AdministratorKeeps, StayKeeps DEF IInv, TimersStay
<1> QED BY <1>3, <1>4 DEF Time

LEMMA NextKeeps == IInv /\ [Next]_vars => IInv'
<1> SUFFICES ASSUME IInv, [Next]_vars PROVE IInv'
  OBVIOUS
<1>1. ASSUME NEW e \in Sources, HandleViolation(e) PROVE IInv'
  BY <1>1, ViolationKeeps
<1>2. ASSUME NEW e \in Sources, NEW p \in Replicas, NEW l \in SUBSET Replicas, Publish(p, e, l)
      PROVE  IInv'
  BY <1>2, BusKeeps
<1>3. ASSUME NEW p \in Replicas, NEW e \in notified[p], Dispatch(p, e) \/ Skip(p, e) PROVE IInv'
  BY <1>3, BusKeeps
<1>4. ASSUME NEW p \in Replicas, Enqueue(p) \/ HandleBusEvent(p) PROVE IInv'
  BY <1>4, BusKeeps
<1>5. ASSUME NEW p \in Replicas, Crash(p) PROVE IInv'
  BY <1>5, CrashKeepsEvents, CrashKeepsDeliveries, CrashKeepsTimers DEF IInv
<1>6. CASE UNCHANGED vars
  BY <1>6, StayKeeps DEF IInv, vars, EventsStay, DeliveriesStay, TimersStay, config, events, webhooks, automation
<1> QED BY <1>1, <1>2, <1>3, <1>4, <1>5, <1>6, DeliveryWorkerKeeps, TimerWorkerKeeps, OthersKeep DEF Next, Bus

LEMMA InvariantHolds == Spec => []IInv
BY InitHolds, NextKeeps, PTL DEF Spec

----------------------------------------------------------------------------

\* Rows, histories and workers keep their types, with any number of replicas: no
\* status, attempt or program counter that the code does not know is ever written.
THEOREM TypesHold == Spec => []TypeOK
<1>1. ASSUME IInv PROVE TypeOK
  <2>1. \A p \in Replicas : notified[p] \subseteq done /\ handling[p] \in Handlings
    BY <1>1, SMT DEF IInv, EventsInv
  <2>2. <<bus, trigger>> \in Setups
    BY <1>1, Bounds, SMT DEF IInv, EventsInv
  <2>3. done \subseteq Sources /\ mishaps \in 0 .. MaxMishaps
    BY <1>1 DEF IInv, EventsInv
  <2>4. \A p \in Replicas : /\ handling[p].pc \in {"idle", "webhook", "automation"}
                             /\ handling[p].source \subseteq done
    BY <2>1 DEF Handlings
  <2>5. active \in BOOLEAN /\ DOMAIN seen = DOMAIN deliveries /\ DOMAIN ran = DOMAIN timers
    BY <1>1, OneDelivery, OneTimer DEF IInv, DeliveriesInv
  <2>6. \A id \in DOMAIN deliveries : deliveries[id] \in Rows /\ seen[id] \in Histories
    BY <1>1, OneDelivery DEF IInv
  <2>7. \A id \in DOMAIN deliveries :
          /\ deliveries[id].status \in {"pending", "success", "dead"} /\ deliveries[id].due \in BOOLEAN
          /\ deliveries[id].attempt \in Nat /\ seen[id].posts \in 0 .. MaxAttempts
    BY <2>6 DEF Rows, Histories
  <2>8. \A t \in DOMAIN timers : timers[t].status \in {"pending", "done"} /\ ran[t] \in Nat
    BY <1>1, OneTimer DEF IInv, Timers
  <2>9. \A p \in Replicas : DOMAIN post[p] \subseteq DOMAIN deliveries
    BY <1>1, OneDelivery DEF IInv
  <2>10. \A p \in Replicas : /\ firing[p].list \subseteq DOMAIN timers
                              /\ firing[p].pc \in {"idle", "complete", "run"}
    BY <1>1, OneTimer DEF IInv, FiringFits
  <2> QED BY <2>1, <2>2, <2>3, <2>4, <2>5, <2>7, <2>8, <2>9, <2>10 DEF TypeOK
<1> QED BY <1>1, InvariantHolds, PTL

\* However many replicas post a delivery at once and mark it over each other, and
\* whatever is redelivered, its status is one it has earned (MarkDeliverySuccess,
\* MarkDeliveryFailure, ResetDeliveryForRedeliver).
THEOREM StatusIsEarned == Spec => []SettledIsEarned
<1>1. ASSUME IInv PROVE SettledIsEarned
  BY <1>1, OneDelivery DEF IInv, RowFits, SettledIsEarned
<1> QED BY <1>1, InvariantHolds, PTL

\* The action of a timer runs once at most, with any number of replicas whose rounds
\* hold the same timer (CompleteTimer), and not before the delay is over.
THEOREM TimersRunOnce == Spec => []TimerOnce
<1>1. ASSUME IInv PROVE TimerOnce
  BY <1>1, OneTimer, SMT DEF IInv, TimerFits, TimerOnce
<1> QED BY <1>1, InvariantHolds, PTL
=============================================================================
