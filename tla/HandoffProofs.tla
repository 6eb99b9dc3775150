---------------------------- MODULE HandoffProofs ----------------------------
(***************************************************************************)
(* Theorems about Handoff, for every set of sessions, agents, callers and  *)
(* workers.                                                                *)
(***************************************************************************)
EXTENDS Handoff, SequenceTheorems, TLAPS

\* Where an operation is when it is about an agent, or has a load to write.
TargetSteps == {"commit", "apply", "readTo", "writeTo", "assigning",
                "transferring", "register", "assignRow", "released", "writeLoad"}
LoadSteps == {"writeTo", "writeFrom", "register", "assignRow", "writeLoad"}

\* The locals of a process are set where they are used, and the rows it holds
\* are rows of the table.
GoodLocals(f) ==
    /\ f.at \in TargetSteps => f.target \in Agents
    /\ f.at \in LoadSteps => f.load \in Nat
    /\ f.at = "writeFrom" => f.from \in Agents

LocalsOK ==
    \A p \in Procs : GoodLocals(flow[p]) /\ flow[p].rows \subseteq DOMAIN queue

TypeInv == TypeOK /\ LocalsOK

LEMMA FreshType == Fresh \in Flow
  <1>1. (CHOOSE s \in Sessions : TRUE) \in Sessions
    BY HandoffAssumption
  <1> QED BY <1>1 DEF Fresh, Flow, Steps, MaybeAgent, Session

LEMMA AtType ==
  ASSUME NEW f \in Flow, NEW step \in Steps
  PROVE  /\ At(f, step) \in Flow
         /\ At(f, step).at = step
         /\ At(f, step).rows \subseteq f.rows
         /\ step \notin {"idle", "done", "next"} =>
              /\ At(f, step).session = f.session
              /\ At(f, step).target = f.target
              /\ At(f, step).seen = f.seen
              /\ At(f, step).from = f.from
              /\ At(f, step).load = f.load
              /\ At(f, step).rows = f.rows /\ At(f, step).row = f.row
  <1>1. Fresh.rows = {}
    BY DEF Fresh
  <1>2. CASE step \in {"idle", "done"}
    BY <1>1, <1>2, FreshType DEF At, Flow
  <1>3. CASE step = "next"
    BY <1>3, FreshType DEF At, Flow
  <1>4. CASE step \notin {"idle", "done", "next"}
    BY <1>4 DEF At, Flow
  <1> QED BY <1>2, <1>3, <1>4

\* Rewriting the status or the claim of some records keeps the rest.
LEMMA SetStatusType ==
  ASSUME queue \in Seq(QueueEntry), NEW rows,
         NEW status \in {"waiting", "transferred", "cancelled"}
  PROVE  /\ SetStatus(rows, status) \in Seq(QueueEntry)
         /\ DOMAIN SetStatus(rows, status) = DOMAIN queue
  <1>1. queue \in [1..Len(queue) -> QueueEntry] /\ DOMAIN queue = 1..Len(queue)
    OBVIOUS
  <1>2. SetStatus(rows, status) \in [1..Len(queue) -> QueueEntry]
    BY <1>1 DEF SetStatus, QueueEntry
  <1>3. SetStatus(rows, status) \in Seq(QueueEntry)
    BY <1>2, SeqDef
  <1> QED BY <1>1, <1>2, <1>3

LEMMA SetClaimType ==
  ASSUME queue \in Seq(QueueEntry), NEW rows,
         NEW claim \in {"free", "held", "expired"}
  PROVE  /\ SetClaim(rows, claim) \in Seq(QueueEntry)
         /\ DOMAIN SetClaim(rows, claim) = DOMAIN queue
  <1>1. queue \in [1..Len(queue) -> QueueEntry] /\ DOMAIN queue = 1..Len(queue)
    OBVIOUS
  <1>2. SetClaim(rows, claim) \in [1..Len(queue) -> QueueEntry]
    BY <1>1 DEF SetClaim, QueueEntry
  <1>3. SetClaim(rows, claim) \in Seq(QueueEntry)
    BY <1>2, SeqDef
  <1> QED BY <1>1, <1>2, <1>3

----------------------------------------------------------------------------
(* TypeInv is inductive *)

\* A step that changes the locals of one process, to good ones.
LEMMA FlowUpdate ==
  ASSUME TypeInv, NEW p \in Procs, NEW f \in Flow, GoodLocals(f),
         flow' = [flow EXCEPT ![p] = f],
         f.rows \subseteq DOMAIN queue', DOMAIN queue \subseteq DOMAIN queue'
  PROVE  flow' \in [Procs -> Flow] /\ LocalsOK'
  BY DEF TypeInv, TypeOK, LocalsOK, GoodLocals

LEMMA GotoUpdate ==
  ASSUME TypeInv, NEW p \in Procs, NEW step \in Steps, Goto(p, step),
         step \in TargetSteps => flow[p].target \in Agents,
         step \in LoadSteps => flow[p].load \in Nat,
         step = "writeFrom" => flow[p].from \in Agents,
         DOMAIN queue \subseteq DOMAIN queue'
  PROVE  flow' \in [Procs -> Flow] /\ LocalsOK'
  <1> DEFINE f == At(flow[p], step)
  <1>1. flow[p] \in Flow /\ flow[p].rows \subseteq DOMAIN queue
    BY DEF TypeInv, TypeOK, LocalsOK
  <1>2. f \in Flow /\ f.at = step /\ f.rows \subseteq flow[p].rows
    BY <1>1, AtType
  <1>3. GoodLocals(f)
    <2>1. CASE step \in {"idle", "done", "next"}
      BY <1>2, <2>1 DEF GoodLocals, TargetSteps, LoadSteps
    <2>2. CASE step \notin {"idle", "done", "next"}
      <3>1. f.target = flow[p].target /\ f.load = flow[p].load /\ f.from = flow[p].from
        BY <1>1, <2>2, AtType
      <3> QED BY <1>2, <3>1 DEF GoodLocals
    <2> QED BY <2>1, <2>2
  <1>4. flow' = [flow EXCEPT ![p] = f]
    BY DEF Goto
  <1>5. f.rows \subseteq DOMAIN queue'
    BY <1>1, <1>2
  <1> HIDE DEF f
  <1> QED BY <1>2, <1>3, <1>4, <1>5, FlowUpdate

LEMMA EnterTransferUpdate ==
  ASSUME TypeInv, NEW p \in Procs, NEW s \in Sessions, NEW seen \in Session,
         NEW a \in Agents, flow' = EnterTransfer(p, s, seen, a), UNCHANGED queue
  PROVE  flow' \in [Procs -> Flow] /\ LocalsOK'
  <1> DEFINE g == [flow[p] EXCEPT !.session = s, !.seen = seen, !.target = a]
             step == CASE seen.status = "ended" -> AfterFailure(p)
                       [] seen.status # "ended" /\ seen.agent = a -> AfterTransfer(p)
                       [] OTHER -> "commit"
             f == At(g, step)
  <1>1. flow \in [Procs -> Flow] /\ flow[p] \in Flow /\ flow[p].rows \subseteq DOMAIN queue
    BY DEF TypeInv, TypeOK, LocalsOK
  <1>2. g \in Flow /\ g.target = a /\ g.rows = flow[p].rows
    BY <1>1 DEF Flow, MaybeAgent
  <1>3. step \in {"next", "done", "release", "commit"}
    BY DEF AfterFailure, AfterTransfer
  <1>4. step \in Steps
    BY <1>3 DEF Steps
  <1>5. flow' = [flow EXCEPT ![p] = f]
    <2>1. [flow EXCEPT ![p].session = s, ![p].seen = seen, ![p].target = a]
            = [flow EXCEPT ![p] = g]
      BY <1>1
    <2> QED BY <1>1, <2>1 DEF EnterTransfer
  <1> HIDE DEF g, step
  <1>6. f \in Flow /\ f.at = step /\ f.rows \subseteq g.rows
    BY <1>2, <1>4, AtType
  <1>7. GoodLocals(f)
    <2>1. CASE step = "commit"
      <3>1. f.target = a
        BY <1>2, <1>4, <2>1, AtType
      <3> QED BY <1>6, <2>1, <3>1 DEF GoodLocals, TargetSteps, LoadSteps
    <2>2. CASE step # "commit"
      BY <1>3, <1>6, <2>2 DEF GoodLocals, TargetSteps, LoadSteps
    <2> QED BY <2>1, <2>2
  <1> HIDE DEF f
  <1> QED BY <1>1, <1>2, <1>5, <1>6, <1>7, FlowUpdate

LEMMA OnlyFlow ==
  ASSUME TypeInv, UNCHANGED <<db, registry, joining, crashes>>,
         flow' \in [Procs -> Flow] /\ LocalsOK'
  PROVE  TypeInv'
  BY DEF TypeInv, TypeOK, db

LEMMA HumanLoadType ==
  ASSUME TypeInv, NEW c \in Callers, NEW s \in Sessions, HumanLoad(c, s)
  PROVE  TypeInv'
  <1>1. c \in Procs /\ UNCHANGED queue
    BY DEF Procs, HumanLoad, db
  <1>2. CASE Goto(c, "done")
    <2>1. flow' \in [Procs -> Flow] /\ LocalsOK'
      BY <1>1, <1>2, GotoUpdate DEF Steps, TargetSteps, LoadSteps
    <2> QED BY <2>1, OnlyFlow DEF HumanLoad
  <1>3. CASE ~Goto(c, "done")
    <2> DEFINE f == [flow[c] EXCEPT !.session = s, !.seen = session[s], !.at = "select"]
    <2>1. flow \in [Procs -> Flow] /\ flow[c] \in Flow /\ session[s] \in Session
          /\ flow[c].rows \subseteq DOMAIN queue
      BY <1>1 DEF TypeInv, TypeOK, LocalsOK
    <2>2. f \in Flow /\ f.at = "select" /\ f.rows = flow[c].rows
      BY <2>1 DEF Flow, Steps
    <2>3. flow' = [flow EXCEPT ![c] = f]
      BY <1>3, <2>1 DEF HumanLoad
    <2>4. GoodLocals(f)
      BY <2>2 DEF GoodLocals, TargetSteps, LoadSteps
    <2> HIDE DEF f
    <2>5. flow' \in [Procs -> Flow] /\ LocalsOK'
      BY <1>1, <2>1, <2>2, <2>3, <2>4, FlowUpdate
    <2> QED BY <2>5, OnlyFlow DEF HumanLoad
  <1> QED BY <1>2, <1>3

LEMMA HumanSelectType ==
  ASSUME TypeInv, NEW c \in Procs, HumanSelect(c)
  PROVE  TypeInv'
  <1>1. UNCHANGED queue
    BY DEF HumanSelect, db
  <1>2. flow[c] \in Flow
    BY DEF TypeInv, TypeOK
  <1>3. CASE Goto(c, "done") \/ Goto(c, "recheck")
    <2>1. flow' \in [Procs -> Flow] /\ LocalsOK'
      BY <1>1, <1>3, GotoUpdate DEF Steps, TargetSteps, LoadSteps
    <2> QED BY <2>1, OnlyFlow DEF HumanSelect
  <1>4. CASE \E a \in Candidates(flow[c].session) :
               flow' = EnterTransfer(c, flow[c].session, flow[c].seen, a)
    <2>1. flow[c].session \in Sessions /\ flow[c].seen \in Session
      BY <1>2 DEF Flow
    <2>2. PICK a \in Agents : flow' = EnterTransfer(c, flow[c].session, flow[c].seen, a)
      BY <1>4, <2>1, HandoffAssumption DEF Candidates
    <2>3. flow' \in [Procs -> Flow] /\ LocalsOK'
      BY <1>1, <2>1, <2>2, EnterTransferUpdate
    <2> QED BY <2>3, OnlyFlow DEF HumanSelect
  <1> QED BY <1>3, <1>4 DEF HumanSelect

LEMMA EnqueueRecheckType ==
  ASSUME TypeInv, NEW c \in Procs, EnqueueRecheck(c)
  PROVE  TypeInv'
  <1>1. UNCHANGED queue /\ (Goto(c, "done") \/ Goto(c, "enqueue"))
    BY DEF EnqueueRecheck, db
  <1>2. flow' \in [Procs -> Flow] /\ LocalsOK'
    BY <1>1, GotoUpdate DEF Steps, TargetSteps, LoadSteps
  <1> QED BY <1>2, OnlyFlow DEF EnqueueRecheck

LEMMA EnqueueType ==
  ASSUME TypeInv, NEW c \in Procs, Enqueue(c)
  PROVE  TypeInv'
  <1> DEFINE s == flow[c].session
             row == [session |-> s, status |-> "waiting", claim |-> "free"]
  <1>1. s \in Sessions
    BY DEF TypeInv, TypeOK, Flow
  <1>2. row \in QueueEntry
    BY <1>1 DEF QueueEntry
  <1>3. queue \in Seq(QueueEntry) /\ queue' = Append(queue, row)
    BY DEF TypeInv, TypeOK, Enqueue
  <1> HIDE DEF row
  <1>4. queue' \in Seq(QueueEntry) /\ DOMAIN queue \subseteq DOMAIN queue'
    BY <1>2, <1>3
  <1>5. session' \in [Sessions -> Session]
    BY <1>1 DEF TypeInv, TypeOK, Enqueue, Unassigned, Session, MaybeAgent
  <1>6. flow' \in [Procs -> Flow] /\ LocalsOK'
    BY <1>4, GotoUpdate DEF Enqueue, Steps, TargetSteps, LoadSteps
  <1> QED BY <1>4, <1>5, <1>6 DEF Enqueue, TypeInv, TypeOK, agentVars

LEMMA AgentLoadType ==
  ASSUME TypeInv, NEW c \in Callers, NEW s \in Sessions, NEW a \in Agents,
         AgentLoad(c, s, a)
  PROVE  TypeInv'
  <1>1. c \in Procs /\ UNCHANGED queue /\ session[s] \in Session
    BY DEF Procs, AgentLoad, db, TypeInv, TypeOK
  <1>2. flow' \in [Procs -> Flow] /\ LocalsOK'
    <2>1. CASE Goto(c, "done")
      BY <1>1, <2>1, GotoUpdate DEF Steps, TargetSteps, LoadSteps
    <2>2. CASE flow' = EnterTransfer(c, s, session[s], a)
      BY <1>1, <2>2, EnterTransferUpdate
    <2> QED BY <2>1, <2>2 DEF AgentLoad
  <1> QED BY <1>2, OnlyFlow DEF AgentLoad

LEMMA TransferSourceType ==
  ASSUME TypeInv, NEW p \in Procs
  PROVE  TransferSource(p) \in MaybeAgent
  <1>1. flow[p].session \in Sessions
    BY DEF TypeInv, TypeOK, Flow
  <1>2. session[flow[p].session].agent \in MaybeAgent
    BY <1>1 DEF TypeInv, TypeOK, Session
  <1> QED BY <1>2 DEF TransferSource, MaybeAgent

LEMMA DecrementType == \A n \in Nat : Decrement(n) \in Nat
  BY DEF Decrement

LEMMA TransferCommitType ==
  ASSUME TypeInv, NEW p \in Procs, TransferCommit(p)
  PROVE  TypeInv'
  <1> DEFINE s == flow[p].session
             a == flow[p].target
             from == TransferSource(p)
             record == [session |-> s, from |-> from, to |-> a]
             f == [flow[p] EXCEPT !.at = "apply", !.from = from]
  <1>1. flow \in [Procs -> Flow] /\ flow[p] \in Flow /\ s \in Sessions /\ from \in MaybeAgent
    BY TransferSourceType DEF TypeInv, TypeOK, Flow
  <1>2. a \in Agents /\ flow[p].rows \subseteq DOMAIN queue
    BY DEF TypeInv, LocalsOK, GoodLocals, TransferCommit, TargetSteps
  <1>3. session' \in [Sessions -> Session]
    BY <1>1, <1>2 DEF TypeInv, TypeOK, TransferCommit, Overwrite, Session, MaybeAgent
  <1>4. load' \in [Agents -> Nat]
    BY <1>2, DecrementType DEF TypeInv, TypeOK, TransferCommit, TransferredLoad
  <1>5. record \in TransferRecord
    BY <1>1, <1>2 DEF TransferRecord
  <1>6. transfers \in Seq(TransferRecord) /\ transfers' = Append(transfers, record)
    BY DEF TypeInv, TypeOK, TransferCommit
  <1>7. queue' \in Seq(QueueEntry) /\ DOMAIN queue' = DOMAIN queue
    BY SetStatusType DEF TypeInv, TypeOK, TransferCommit
  <1>8. f \in Flow /\ f.at = "apply" /\ f.target = a /\ f.rows = flow[p].rows
    BY <1>1 DEF Flow, Steps
  <1>9. flow' = [flow EXCEPT ![p] = f]
    BY <1>1 DEF TransferCommit
  <1> HIDE DEF record, f
  <1>10. GoodLocals(f)
    BY <1>2, <1>8 DEF GoodLocals, LoadSteps
  <1>11. flow' \in [Procs -> Flow] /\ LocalsOK'
    BY <1>2, <1>7, <1>8, <1>9, <1>10, FlowUpdate
  <1>12. transfers' \in Seq(TransferRecord)
    BY <1>5, <1>6
  <1> QED BY <1>3, <1>4, <1>7, <1>11, <1>12 DEF TypeInv, TypeOK, TransferCommit

LEMMA TransferFailsType ==
  ASSUME TypeInv, NEW p \in Procs, TransferFails(p)
  PROVE  TypeInv'
  <1>1. UNCHANGED queue /\ (Goto(p, "release") \/ Goto(p, "done"))
    BY DEF TransferFails, AfterFailure, db
  <1>2. flow' \in [Procs -> Flow] /\ LocalsOK'
    BY <1>1, GotoUpdate DEF Steps, TargetSteps, LoadSteps
  <1> QED BY <1>2, OnlyFlow DEF TransferFails

LEMMA ApplyTransferType ==
  ASSUME TypeInv, NEW p \in Procs, ApplyTransfer(p)
  PROVE  TypeInv'
  <1>1. registry' \in [Agents -> Nat \cup {Absent}]
    BY DecrementType DEF TypeInv, TypeOK, ApplyTransfer, Absent
  <1>2. flow[p].target \in Agents
    BY DEF TypeInv, LocalsOK, GoodLocals, ApplyTransfer, TargetSteps
  <1>3. flow' \in [Procs -> Flow] /\ LocalsOK'
    BY <1>2, GotoUpdate DEF ApplyTransfer, Steps, TargetSteps, LoadSteps, db
  <1> QED BY <1>1, <1>3 DEF TypeInv, TypeOK, ApplyTransfer, db

\* A load read from the registry, which the step after it writes.
LEMMA LoadRead ==
  ASSUME TypeInv, NEW p \in Procs, NEW n \in Nat \cup {Absent},
         NEW step \in {"writeTo", "writeFrom", "readFrom"},
         step # "readFrom" => n # Absent,
         step = "writeTo" => flow[p].target \in Agents,
         step = "writeFrom" => flow[p].from \in Agents,
         flow' = [flow EXCEPT ![p].load = n, ![p].at = step],
         UNCHANGED queue
  PROVE  flow' \in [Procs -> Flow] /\ LocalsOK'
  <1> DEFINE f == [flow[p] EXCEPT !.load = n, !.at = step]
  <1>1. flow \in [Procs -> Flow] /\ flow[p] \in Flow /\ flow[p].rows \subseteq DOMAIN queue
    BY DEF TypeInv, TypeOK, LocalsOK
  <1>2. /\ f \in Flow /\ f.at = step /\ f.load = n /\ f.rows = flow[p].rows
        /\ f.target = flow[p].target /\ f.from = flow[p].from
    <2>1. n \in Int /\ step \in Steps
      BY DEF Steps, Absent
    <2> QED BY <1>1, <2>1 DEF Flow
  <1>3. flow' = [flow EXCEPT ![p] = f]
    BY <1>1
  <1> HIDE DEF f
  <1>4. GoodLocals(f)
    BY <1>2 DEF GoodLocals, TargetSteps, LoadSteps
  <1> QED BY <1>1, <1>2, <1>3, <1>4, FlowUpdate

LEMMA ReadToType ==
  ASSUME TypeInv, NEW p \in Procs, ReadTo(p)
  PROVE  TypeInv'
  <1> DEFINE n == registry[flow[p].target]
             step == IF n = Absent THEN "readFrom" ELSE "writeTo"
  <1>1. flow[p].target \in Agents
    BY DEF TypeInv, LocalsOK, GoodLocals, ReadTo, TargetSteps
  <1>2. n \in Nat \cup {Absent} /\ UNCHANGED queue
    BY <1>1 DEF TypeInv, TypeOK, ReadTo, db
  <1>3. flow' = [flow EXCEPT ![p].load = n, ![p].at = step]
    BY DEF ReadTo
  <1>4. step \in {"writeTo", "writeFrom", "readFrom"} /\ step # "writeFrom"
        /\ (step # "readFrom" => n # Absent)
    OBVIOUS
  <1> HIDE DEF n, step
  <1>5. flow' \in [Procs -> Flow] /\ LocalsOK'
    BY <1>1, <1>2, <1>3, <1>4, LoadRead
  <1> QED BY <1>5, OnlyFlow DEF ReadTo

LEMMA WriteToType ==
  ASSUME TypeInv, NEW p \in Procs, WriteTo(p)
  PROVE  TypeInv'
  <1>1. flow[p].target \in Agents /\ flow[p].load \in Nat
    BY DEF TypeInv, LocalsOK, GoodLocals, WriteTo, TargetSteps, LoadSteps
  <1>2. load' \in [Agents -> Nat]
    BY <1>1 DEF TypeInv, TypeOK, WriteTo
  <1>3. flow' \in [Procs -> Flow] /\ LocalsOK'
    BY GotoUpdate DEF WriteTo, Steps, TargetSteps, LoadSteps
  <1> QED BY <1>2, <1>3 DEF TypeInv, TypeOK, WriteTo

LEMMA ReadFromType ==
  ASSUME TypeInv, NEW p \in Procs, ReadFrom(p)
  PROVE  TypeInv'
  <1> DEFINE from == flow[p].from
             n == IF from = NoAgent THEN Absent ELSE registry[from]
  <1>1. UNCHANGED queue /\ from \in MaybeAgent
    BY DEF ReadFrom, db, TypeInv, TypeOK, Flow
  <1>2. flow' \in [Procs -> Flow] /\ LocalsOK'
    <2>1. CASE n = Absent
      <3>1. Goto(p, "next") \/ Goto(p, "done")
        BY <2>1 DEF ReadFrom, AfterTransfer
      <3> QED BY <1>1, <3>1, GotoUpdate DEF Steps, TargetSteps, LoadSteps
    <2>2. CASE n # Absent
      <3>1. from \in Agents /\ n \in Nat
        BY <1>1, <2>2 DEF MaybeAgent, TypeInv, TypeOK
      <3>2. flow' = [flow EXCEPT ![p].load = n, ![p].at = "writeFrom"]
        BY <2>2 DEF ReadFrom
      <3> HIDE DEF n
      <3> QED BY <1>1, <2>2, <3>1, <3>2, LoadRead
    <2> QED BY <2>1, <2>2
  <1> QED BY <1>2, OnlyFlow DEF ReadFrom

LEMMA WriteFromType ==
  ASSUME TypeInv, NEW p \in Procs, WriteFrom(p)
  PROVE  TypeInv'
  <1>1. flow[p].from \in Agents /\ flow[p].load \in Nat
    BY DEF TypeInv, LocalsOK, GoodLocals, WriteFrom, LoadSteps
  <1>2. load' \in [Agents -> Nat]
    BY <1>1 DEF TypeInv, TypeOK, WriteFrom
  <1>3. Goto(p, "next") \/ Goto(p, "done")
    BY DEF WriteFrom, AfterTransfer
  <1>4. flow' \in [Procs -> Flow] /\ LocalsOK'
    BY <1>3, GotoUpdate DEF WriteFrom, Steps, TargetSteps, LoadSteps
  <1> QED BY <1>2, <1>4 DEF TypeInv, TypeOK, WriteFrom

LEMMA BatchInQueue == NextBatch \subseteq DOMAIN queue
  BY DEF NextBatch, Claimable

\* A run takes rows of the table.
LEMMA TakeRows ==
  ASSUME TypeInv, NEW w \in Procs, NEW step \in {"next", "claiming"},
         NEW rows \in SUBSET DOMAIN queue,
         flow' = [flow EXCEPT ![w].at = step, ![w].rows = rows],
         DOMAIN queue' = DOMAIN queue
  PROVE  flow' \in [Procs -> Flow] /\ LocalsOK'
  <1> DEFINE f == [flow[w] EXCEPT !.at = step, !.rows = rows]
  <1>1. flow \in [Procs -> Flow] /\ flow[w] \in Flow /\ DOMAIN queue \subseteq Nat
    BY DEF TypeInv, TypeOK
  <1>2. f \in Flow /\ f.at = step /\ f.rows = rows
    BY <1>1 DEF Flow, Steps
  <1>3. flow' = [flow EXCEPT ![w] = f]
    BY <1>1
  <1> HIDE DEF f
  <1>4. GoodLocals(f)
    BY <1>2 DEF GoodLocals, TargetSteps, LoadSteps
  <1> QED BY <1>2, <1>3, <1>4, FlowUpdate

LEMMA ClaimType ==
  ASSUME TypeInv, NEW w \in Procs, Claim(w)
  PROVE  TypeInv'
  <1>1. queue' \in Seq(QueueEntry) /\ DOMAIN queue' = DOMAIN queue
    BY SetClaimType DEF TypeInv, TypeOK, Claim
  <1>2. flow' \in [Procs -> Flow] /\ LocalsOK'
    BY <1>1, BatchInQueue, TakeRows DEF Claim
  <1> QED BY <1>1, <1>2 DEF TypeInv, TypeOK, Claim, agentVars

LEMMA ClaimReadType ==
  ASSUME TypeInv, NEW w \in Procs, ClaimRead(w)
  PROVE  TypeInv'
  <1>1. flow' \in [Procs -> Flow] /\ LocalsOK'
    BY BatchInQueue, TakeRows DEF ClaimRead, db
  <1> QED BY <1>1, OnlyFlow DEF ClaimRead

LEMMA ClaimWriteType ==
  ASSUME TypeInv, NEW w \in Procs, ClaimWrite(w)
  PROVE  TypeInv'
  <1>1. queue' \in Seq(QueueEntry) /\ DOMAIN queue' = DOMAIN queue
    BY SetClaimType DEF TypeInv, TypeOK, ClaimWrite
  <1>2. flow' \in [Procs -> Flow] /\ LocalsOK'
    BY <1>1, GotoUpdate DEF ClaimWrite, Steps, TargetSteps, LoadSteps
  <1> QED BY <1>1, <1>2 DEF TypeInv, TypeOK, ClaimWrite, agentVars

LEMMA WorkerLoadType ==
  ASSUME TypeInv, NEW w \in Procs, WorkerLoad(w)
  PROVE  TypeInv'
  <1>1. flow \in [Procs -> Flow] /\ flow[w] \in Flow /\ flow[w].rows \subseteq DOMAIN queue
        /\ queue \in Seq(QueueEntry)
    BY DEF TypeInv, TypeOK, LocalsOK
  <1>2. CASE flow[w].rows = {}
    <2>1. flow' \in [Procs -> Flow] /\ LocalsOK'
      BY <1>2, GotoUpdate DEF WorkerLoad, Steps, TargetSteps, LoadSteps, db
    <2> QED BY <2>1, OnlyFlow DEF WorkerLoad
  <1>3. CASE flow[w].rows # {}
    <2>1. PICK r \in flow[w].rows :
            flow' = [flow EXCEPT ![w].at = "select", ![w].row = r,
                                 ![w].session = queue[r].session,
                                 ![w].seen = session[queue[r].session]]
      BY <1>3 DEF WorkerLoad
    <2> DEFINE s == queue[r].session
               f == [flow[w] EXCEPT !.at = "select", !.row = r, !.session = s,
                                    !.seen = session[s]]
    <2>2. r \in Nat /\ s \in Sessions /\ session[s] \in Session
      <3>1. r \in DOMAIN queue
        BY <1>1
      <3>2. queue[r] \in QueueEntry
        BY <1>1, <3>1
      <3> QED BY <1>1, <3>1, <3>2 DEF QueueEntry, TypeInv, TypeOK
    <2>3. f \in Flow /\ f.at = "select" /\ f.rows = flow[w].rows
      BY <1>1, <2>2 DEF Flow, Steps
    <2>4. flow' = [flow EXCEPT ![w] = f]
      BY <1>1, <2>1
    <2> HIDE DEF f
    <2>5. GoodLocals(f)
      BY <2>3 DEF GoodLocals, TargetSteps, LoadSteps
    <2>6. UNCHANGED queue
      BY DEF WorkerLoad, db
    <2>7. flow' \in [Procs -> Flow] /\ LocalsOK'
      BY <1>1, <2>3, <2>4, <2>5, <2>6, FlowUpdate
    <2> QED BY <2>7, OnlyFlow DEF WorkerLoad
  <1> QED BY <1>2, <1>3

LEMMA WorkerSelectType ==
  ASSUME TypeInv, NEW w \in Procs, WorkerSelect(w)
  PROVE  TypeInv'
  <1>1. UNCHANGED queue /\ flow[w].session \in Sessions /\ flow[w].seen \in Session
    BY DEF WorkerSelect, db, TypeInv, TypeOK, Flow
  <1>2. flow' \in [Procs -> Flow] /\ LocalsOK'
    <2>1. CASE Goto(w, "release")
      BY <1>1, <2>1, GotoUpdate DEF Steps, TargetSteps, LoadSteps
    <2>2. CASE \E a \in Candidates(flow[w].session) :
                 flow' = EnterTransfer(w, flow[w].session, flow[w].seen, a)
      <3>1. PICK a \in Agents : flow' = EnterTransfer(w, flow[w].session, flow[w].seen, a)
        BY <1>1, <2>2, HandoffAssumption DEF Candidates
      <3> QED BY <1>1, <3>1, EnterTransferUpdate
    <2> QED BY <2>1, <2>2 DEF WorkerSelect
  <1> QED BY <1>2, OnlyFlow DEF WorkerSelect

LEMMA ReleaseType ==
  ASSUME TypeInv, NEW w \in Procs, Release(w)
  PROVE  TypeInv'
  <1>1. queue' \in Seq(QueueEntry) /\ DOMAIN queue' = DOMAIN queue
    BY SetClaimType DEF TypeInv, TypeOK, Release, Returned
  <1>2. flow' \in [Procs -> Flow] /\ LocalsOK'
    BY <1>1, GotoUpdate DEF Release, Steps, TargetSteps, LoadSteps
  <1> QED BY <1>1, <1>2 DEF TypeInv, TypeOK, Release, agentVars

LEMMA LeaseExpiresType ==
  ASSUME TypeInv, NEW r \in DOMAIN queue, LeaseExpires(r)
  PROVE  TypeInv'
  <1> DEFINE row == [queue[r] EXCEPT !.claim = "expired"]
  <1>1. queue \in Seq(QueueEntry) /\ queue[r] \in QueueEntry
    BY DEF TypeInv, TypeOK
  <1>2. row \in QueueEntry
    BY <1>1 DEF QueueEntry
  <1>3. queue' = [queue EXCEPT ![r] = row]
    BY <1>1 DEF LeaseExpires
  <1> HIDE DEF row
  <1>4. queue' \in Seq(QueueEntry) /\ DOMAIN queue' = DOMAIN queue
    BY <1>1, <1>2, <1>3
  <1>5. LocalsOK'
    BY <1>4 DEF LeaseExpires, TypeInv, LocalsOK
  <1> QED BY <1>4, <1>5 DEF LeaseExpires, TypeInv, TypeOK, agentVars

LEMMA CancelType ==
  ASSUME TypeInv, NEW c \in Callers, NEW s \in Sessions, Cancel(c, s)
  PROVE  TypeInv'
  <1>1. queue' \in Seq(QueueEntry) /\ DOMAIN queue' = DOMAIN queue
    BY SetStatusType DEF TypeInv, TypeOK, Cancel, Cancelled
  <1>2. session' \in [Sessions -> Session]
    BY DEF TypeInv, TypeOK, Cancel, Cancelled, Overwrite, Session
  <1>3. flow' \in [Procs -> Flow] /\ LocalsOK'
    BY <1>1, GotoUpdate DEF Cancel, Procs, Steps, TargetSteps, LoadSteps
  <1> QED BY <1>1, <1>2, <1>3 DEF TypeInv, TypeOK, Cancel, agentVars

LEMMA CancelBeginType ==
  ASSUME TypeInv, NEW c \in Callers, NEW s \in Sessions, CancelBegin(c, s)
  PROVE  TypeInv'
  <1> DEFINE f == [flow[c] EXCEPT !.at = "cancelling", !.session = s,
                                  !.seen = session[s], !.rows = Rows(s)]
  <1>1. /\ flow \in [Procs -> Flow] /\ flow[c] \in Flow /\ session[s] \in Session
        /\ c \in Procs /\ queue \in Seq(QueueEntry)
    BY DEF Procs, TypeInv, TypeOK
  <1>2. Rows(s) \subseteq DOMAIN queue /\ DOMAIN queue \subseteq Nat
    BY <1>1 DEF Rows
  <1>3. f \in Flow /\ f.at = "cancelling" /\ f.rows = Rows(s)
    BY <1>1, <1>2 DEF Flow, Steps
  <1>4. flow' = [flow EXCEPT ![c] = f] /\ UNCHANGED queue
    BY <1>1 DEF CancelBegin, db
  <1> HIDE DEF f
  <1>5. GoodLocals(f)
    BY <1>3 DEF GoodLocals, TargetSteps, LoadSteps
  <1>6. flow' \in [Procs -> Flow] /\ LocalsOK'
    BY <1>1, <1>2, <1>3, <1>4, <1>5, FlowUpdate
  <1> QED BY <1>6, OnlyFlow DEF CancelBegin

LEMMA CancelCommitType ==
  ASSUME TypeInv, NEW c \in Procs, CancelCommit(c)
  PROVE  TypeInv'
  <1>1. queue' \in Seq(QueueEntry) /\ DOMAIN queue' = DOMAIN queue
    BY SetStatusType DEF TypeInv, TypeOK, CancelCommit, Cancelled
  <1>2. flow[c].session \in Sessions /\ flow[c].seen \in Session
    BY DEF TypeInv, TypeOK, Flow
  <1>3. session' \in [Sessions -> Session]
    BY <1>2 DEF TypeInv, TypeOK, CancelCommit, Cancelled, Overwrite, Session
  <1>4. flow' \in [Procs -> Flow] /\ LocalsOK'
    BY <1>1, GotoUpdate DEF CancelCommit, Steps, TargetSteps, LoadSteps
  <1> QED BY <1>1, <1>3, <1>4 DEF TypeInv, TypeOK, CancelCommit, agentVars

LEMMA ReadConversationType ==
  ASSUME TypeInv, NEW c \in Procs, NEW s \in Sessions, NEW a \in MaybeAgent,
         NEW step \in {"ingesting", "closing", "assigning", "transferring"},
         step \in {"assigning", "transferring"} => a \in Agents,
         ReadConversation(c, s, a, step)
  PROVE  TypeInv'
  <1> DEFINE f == [flow[c] EXCEPT !.session = s, !.target = a,
                                  !.seen = session[s], !.at = step]
  <1>1. flow \in [Procs -> Flow] /\ flow[c] \in Flow /\ session[s] \in Session
        /\ flow[c].rows \subseteq DOMAIN queue /\ step \in Steps
    BY DEF TypeInv, TypeOK, LocalsOK, Steps
  <1>2. f \in Flow /\ f.at = step /\ f.rows = flow[c].rows /\ f.target = a
    BY <1>1 DEF Flow
  <1>3. flow' = [flow EXCEPT ![c] = f] /\ UNCHANGED queue
    BY <1>1 DEF ReadConversation, db
  <1> HIDE DEF f
  <1>4. GoodLocals(f)
    BY <1>2 DEF GoodLocals, TargetSteps, LoadSteps
  <1>5. flow' \in [Procs -> Flow] /\ LocalsOK'
    BY <1>1, <1>2, <1>3, <1>4, FlowUpdate
  <1> QED BY <1>5, OnlyFlow DEF ReadConversation

LEMMA ConversationBeginType ==
  ASSUME TypeInv, NEW c \in Callers, NEW s \in Sessions,
         \/ Message(c, s) \/ Close(c, s)
         \/ \E a \in Agents : ConversationAssign(c, s, a) \/ ConversationTransfer(c, s, a)
  PROVE  TypeInv'
  <1>1. c \in Procs /\ NoAgent \in MaybeAgent /\ Agents \subseteq MaybeAgent
    BY DEF Procs, MaybeAgent
  <1>2. CASE Message(c, s) \/ Close(c, s)
    BY <1>1, <1>2, ReadConversationType DEF Message, Close
  <1>3. CASE \E a \in Agents : ConversationAssign(c, s, a) \/ ConversationTransfer(c, s, a)
    BY <1>1, <1>3, ReadConversationType DEF ConversationAssign, ConversationTransfer
  <1> QED BY <1>2, <1>3

LEMMA WriteBackType ==
  ASSUME TypeInv, NEW s, NEW status \in {"active", "transferred", "ended"},
         NEW a \in MaybeAgent, NEW ended \in BOOLEAN, WriteBack(s, status, a, ended)
  PROVE  session' \in [Sessions -> Session]
  BY DEF TypeInv, TypeOK, WriteBack, Overwrite, Session

LEMMA ConversationWriteType ==
  ASSUME TypeInv, NEW c \in Procs, ConversationWrite(c)
  PROVE  TypeInv'
  <1>1. flow[c].seen \in Session /\ flow[c].target \in MaybeAgent
    BY DEF TypeInv, TypeOK, Flow
  <1>2. session' \in [Sessions -> Session]
    <2>1. flow[c].seen.agent \in MaybeAgent /\ flow[c].seen.ended \in BOOLEAN
      BY <1>1 DEF Session
    <2> QED BY <1>1, <2>1, WriteBackType DEF ConversationWrite
  <1>3. UNCHANGED queue /\ (Goto(c, "ingest") \/ Goto(c, "done"))
    BY DEF ConversationWrite
  <1>4. flow' \in [Procs -> Flow] /\ LocalsOK'
    BY <1>3, GotoUpdate DEF Steps, TargetSteps, LoadSteps
  <1> QED BY <1>2, <1>4 DEF TypeInv, TypeOK, ConversationWrite, agentVars

LEMMA IngestReadType ==
  ASSUME TypeInv, NEW c \in Procs, IngestRead(c)
  PROVE  TypeInv'
  <1>1. flow[c].session \in Sessions /\ NoAgent \in MaybeAgent
    BY DEF TypeInv, TypeOK, Flow, MaybeAgent
  <1> QED BY <1>1, ReadConversationType DEF IngestRead

LEMMA IngestWriteType ==
  ASSUME TypeInv, NEW c \in Procs, IngestWrite(c)
  PROVE  TypeInv'
  <1>1. flow[c].seen \in Session
    BY DEF TypeInv, TypeOK, Flow
  <1>2. session' \in [Sessions -> Session]
    BY <1>1, WriteBackType DEF IngestWrite, Session
  <1>3. flow' \in [Procs -> Flow] /\ LocalsOK'
    BY GotoUpdate DEF IngestWrite, Steps, TargetSteps, LoadSteps
  <1> QED BY <1>2, <1>3 DEF TypeInv, TypeOK, IngestWrite, agentVars

LEMMA AssignType ==
  ASSUME TypeInv, NEW c \in Callers, NEW s \in Sessions, NEW a \in Agents,
         Assign(c, s, a)
  PROVE  TypeInv'
  <1>1. c \in Procs /\ UNCHANGED queue
    BY DEF Procs, Assign, db
  <1>2. flow' \in [Procs -> Flow] /\ LocalsOK'
    <2>1. CASE Goto(c, "done")
      BY <1>1, <2>1, GotoUpdate DEF Steps, TargetSteps, LoadSteps
    <2>2. CASE flow' = [flow EXCEPT ![c].session = s, ![c].target = a,
                                    ![c].load = load[a], ![c].at = "register"]
      <3> DEFINE f == [flow[c] EXCEPT !.session = s, !.target = a,
                                      !.load = load[a], !.at = "register"]
      <3>1. flow \in [Procs -> Flow] /\ flow[c] \in Flow /\ load[a] \in Nat
            /\ flow[c].rows \subseteq DOMAIN queue
        BY <1>1 DEF TypeInv, TypeOK, LocalsOK
      <3>2. f \in Flow /\ f.at = "register" /\ f.rows = flow[c].rows
            /\ f.target = a /\ f.load = load[a]
        <4>1. a \in MaybeAgent /\ "register" \in Steps /\ load[a] \in Int
          BY <3>1 DEF MaybeAgent, Steps
        <4> QED BY <3>1, <4>1 DEF Flow
      <3>3. flow' = [flow EXCEPT ![c] = f]
        BY <2>2, <3>1
      <3> HIDE DEF f
      <3>4. GoodLocals(f)
        BY <3>1, <3>2 DEF GoodLocals
      <3> QED BY <1>1, <3>1, <3>2, <3>3, <3>4, FlowUpdate
    <2> QED BY <2>1, <2>2 DEF Assign
  <1> QED BY <1>2, OnlyFlow DEF Assign

LEMMA AssignRegisterType ==
  ASSUME TypeInv, NEW c \in Procs, AssignRegister(c)
  PROVE  TypeInv'
  <1> DEFINE a == flow[c].target
             counted == registry[a] # Absent /\ registry[a] < MaxConcurrent
             n == IF counted THEN registry[a] + 1 ELSE flow[c].load + 1
             f == [flow[c] EXCEPT !.load = n, !.at = "assignRow"]
  <1>1. flow \in [Procs -> Flow] /\ flow[c] \in Flow /\ UNCHANGED queue
        /\ flow[c].rows \subseteq DOMAIN queue
    BY DEF TypeInv, TypeOK, LocalsOK, AssignRegister, db
  <1>2. a \in Agents /\ flow[c].load \in Nat
    BY DEF TypeInv, LocalsOK, GoodLocals, AssignRegister, TargetSteps, LoadSteps
  <1>3. registry[a] \in Nat \cup {Absent}
    BY <1>2 DEF TypeInv, TypeOK
  <1>4. n \in Nat
    BY <1>2, <1>3
  <1>5. registry' \in [Agents -> Nat \cup {Absent}]
    <2>1. CASE counted
      <3>1. registry' = [registry EXCEPT ![a] = @ + 1]
        BY <2>1 DEF AssignRegister
      <3>2. registry[a] + 1 \in Nat
        BY <1>3, <2>1
      <3> QED BY <1>2, <3>1, <3>2 DEF TypeInv, TypeOK
    <2>2. CASE ~counted
      BY <2>2 DEF TypeInv, TypeOK, AssignRegister
    <2> QED BY <2>1, <2>2
  <1>6. flow' = [flow EXCEPT ![c] = f]
    <2>1. flow' = [flow EXCEPT ![c].load = n, ![c].at = "assignRow"]
      BY DEF AssignRegister
    <2> QED BY <1>1, <2>1
  <1> HIDE DEF n
  <1>7. f \in Flow /\ f.at = "assignRow" /\ f.rows = flow[c].rows
        /\ f.target = a /\ f.load = n
    <2>1. n \in Int /\ "assignRow" \in Steps
      BY <1>4 DEF Steps
    <2> QED BY <1>1, <2>1 DEF Flow
  <1> HIDE DEF f
  <1>8. GoodLocals(f)
    BY <1>2, <1>4, <1>7 DEF GoodLocals
  <1>9. flow' \in [Procs -> Flow] /\ LocalsOK'
    BY <1>1, <1>6, <1>7, <1>8, FlowUpdate
  <1> QED BY <1>5, <1>9 DEF TypeInv, TypeOK, AssignRegister, db

LEMMA AssignRowType ==
  ASSUME TypeInv, NEW c \in Procs, AssignRow(c)
  PROVE  TypeInv'
  <1>1. flow[c].target \in Agents /\ flow[c].load \in Nat
    BY DEF TypeInv, LocalsOK, GoodLocals, AssignRow, TargetSteps, LoadSteps
  <1>2. session' \in [Sessions -> Session]
    BY <1>1 DEF TypeInv, TypeOK, AssignRow, Session, MaybeAgent
  <1>3. flow' \in [Procs -> Flow] /\ LocalsOK'
    BY <1>1, GotoUpdate DEF AssignRow, Steps, TargetSteps, LoadSteps
  <1> QED BY <1>2, <1>3 DEF TypeInv, TypeOK, AssignRow, agentVars

LEMMA WriteLoadType ==
  ASSUME TypeInv, NEW c \in Procs, WriteLoad(c)
  PROVE  TypeInv'
  <1>1. flow[c].target \in Agents /\ flow[c].load \in Nat
    BY DEF TypeInv, LocalsOK, GoodLocals, WriteLoad, TargetSteps, LoadSteps
  <1>2. load' \in [Agents -> Nat]
    BY <1>1 DEF TypeInv, TypeOK, WriteLoad
  <1>3. flow' \in [Procs -> Flow] /\ LocalsOK'
    BY GotoUpdate DEF WriteLoad, Steps, TargetSteps, LoadSteps
  <1> QED BY <1>2, <1>3 DEF TypeInv, TypeOK, WriteLoad

LEMMA ReleaseSessionType ==
  ASSUME TypeInv, NEW c \in Callers, NEW s \in Sessions, NEW a \in Agents,
         ReleaseSession(c, s, a)
  PROVE  TypeInv'
  <1>1. c \in Procs /\ UNCHANGED queue
    BY DEF Procs, ReleaseSession
  <1>2. session' \in [Sessions -> Session]
    <2>1. session \in [Sessions -> Session]
      BY DEF TypeInv, TypeOK
    <2>2. CASE session' = [session EXCEPT ![s].status = "ended", ![s].ended = TRUE]
      <3> DEFINE row == [session[s] EXCEPT !.status = "ended", !.ended = TRUE]
      <3>1. row \in Session
        BY <2>1 DEF Session
      <3>2. session' = [session EXCEPT ![s] = row]
        BY <2>1, <2>2
      <3> HIDE DEF row
      <3> QED BY <2>1, <3>1, <3>2
    <2> QED BY <2>1, <2>2 DEF ReleaseSession
  <1>3. flow' \in [Procs -> Flow] /\ LocalsOK'
    <2>1. CASE Goto(c, "done")
      BY <1>1, <2>1, GotoUpdate DEF Steps, TargetSteps, LoadSteps
    <2>2. CASE flow' = [flow EXCEPT ![c].target = a, ![c].at = "released"]
      <3> DEFINE f == [flow[c] EXCEPT !.target = a, !.at = "released"]
      <3>1. flow \in [Procs -> Flow] /\ flow[c] \in Flow
            /\ flow[c].rows \subseteq DOMAIN queue
        BY <1>1 DEF TypeInv, TypeOK, LocalsOK
      <3>2. f \in Flow /\ f.at = "released" /\ f.rows = flow[c].rows /\ f.target = a
        <4>1. a \in MaybeAgent /\ "released" \in Steps
          BY DEF MaybeAgent, Steps
        <4> QED BY <3>1, <4>1 DEF Flow
      <3>3. flow' = [flow EXCEPT ![c] = f]
        BY <2>2, <3>1
      <3> HIDE DEF f
      <3>4. GoodLocals(f)
        BY <3>2 DEF GoodLocals, LoadSteps
      <3> QED BY <1>1, <3>1, <3>2, <3>3, <3>4, FlowUpdate
    <2> QED BY <2>1, <2>2 DEF ReleaseSession
  <1> QED BY <1>2, <1>3 DEF TypeInv, TypeOK, ReleaseSession, agentVars

LEMMA ReleaseRegisterType ==
  ASSUME TypeInv, NEW c \in Procs, ReleaseRegister(c)
  PROVE  TypeInv'
  <1> DEFINE a == flow[c].target
             entered == registry[a] # Absent
             n == Decrement(IF entered THEN registry[a] ELSE load[a])
             f == [flow[c] EXCEPT !.load = n, !.at = "writeLoad"]
  <1>1. flow \in [Procs -> Flow] /\ flow[c] \in Flow /\ UNCHANGED queue
        /\ flow[c].rows \subseteq DOMAIN queue
    BY DEF TypeInv, TypeOK, LocalsOK, ReleaseRegister, db
  <1>2. a \in Agents
    BY DEF TypeInv, LocalsOK, GoodLocals, ReleaseRegister, TargetSteps
  <1>3. n \in Nat
    BY <1>2, DecrementType DEF TypeInv, TypeOK
  <1>4. registry' \in [Agents -> Nat \cup {Absent}]
    BY <1>2, <1>3 DEF TypeInv, TypeOK, ReleaseRegister
  <1>5. flow' \in [Procs -> Flow] /\ LocalsOK'
    <2>1. CASE Goto(c, "done")
      BY <1>1, <2>1, GotoUpdate DEF Steps, TargetSteps, LoadSteps
    <2>2. CASE flow' = [flow EXCEPT ![c].load = n, ![c].at = "writeLoad"]
      <3>1. flow' = [flow EXCEPT ![c] = f]
        BY <1>1, <2>2
      <3> HIDE DEF n
      <3>2. f \in Flow /\ f.at = "writeLoad" /\ f.rows = flow[c].rows
            /\ f.target = a /\ f.load = n
        <4>1. n \in Int /\ "writeLoad" \in Steps
          BY <1>3 DEF Steps
        <4> QED BY <1>1, <4>1 DEF Flow
      <3> HIDE DEF f
      <3>3. GoodLocals(f)
        BY <1>2, <1>3, <3>2 DEF GoodLocals
      <3> QED BY <1>1, <3>1, <3>2, <3>3, FlowUpdate
    <2> QED BY <2>1, <2>2 DEF ReleaseRegister
  <1> QED BY <1>4, <1>5 DEF TypeInv, TypeOK, ReleaseRegister, db

LEMMA PresenceType ==
  ASSUME TypeInv, NEW a \in Agents, Presence(a)
  PROVE  TypeInv'
  <1>1. CASE GoOnlineRead(a)
    BY <1>1 DEF TypeInv, TypeOK, LocalsOK, GoOnlineRead, db
  <1>2. CASE GoOnline(a)
    BY <1>2 DEF TypeInv, TypeOK, LocalsOK, GoOnline
  <1>3. CASE GoOffline(a)
    BY <1>3 DEF TypeInv, TypeOK, LocalsOK, GoOffline
  <1>4. CASE MarkBusy(a)
    BY <1>4 DEF TypeInv, TypeOK, LocalsOK, MarkBusy
  <1> QED BY <1>1, <1>2, <1>3, <1>4 DEF Presence

LEMMA CrashType ==
  ASSUME TypeInv, Crash
  PROVE  TypeInv'
  <1>1. /\ Fresh.rows = {} /\ Fresh.at = "idle"
        /\ [Fresh EXCEPT !.at = "done"] \in Flow
        /\ [Fresh EXCEPT !.at = "done"].at = "done"
        /\ [Fresh EXCEPT !.at = "done"].rows = {}
    BY FreshType DEF Fresh, Flow, Steps
  <1>2. \A p \in Procs : flow'[p] \in {Fresh, [Fresh EXCEPT !.at = "done"]}
    BY DEF Crash, Procs
  <1>3. flow' \in [Procs -> Flow]
    BY <1>1, FreshType DEF Crash
  <1>4. LocalsOK'
    BY <1>1, <1>2 DEF LocalsOK, GoodLocals, TargetSteps, LoadSteps
  <1>5. registry' \in [Agents -> Nat \cup {Absent}] /\ joining' \in [Agents -> Nat \cup {Absent}]
    BY DEF Crash
  <1>6. crashes' \in Nat
    BY DEF TypeInv, TypeOK, Crash
  <1>7. UNCHANGED db
    BY DEF Crash
  <1> QED BY <1>3, <1>4, <1>5, <1>6, <1>7 DEF TypeInv, TypeOK, db

LEMMA TransferType ==
  ASSUME TypeInv, NEW p \in Procs, Transfer(p)
  PROVE  TypeInv'
  BY TransferCommitType, TransferFailsType, ApplyTransferType, ReadToType, WriteToType,
     ReadFromType, WriteFromType DEF Transfer

\* Every step of the hand-over keeps the types.
LEMMA TypeStep ==
  ASSUME TypeInv, [Next]_vars
  PROVE  TypeInv'
  <1>1. CASE UNCHANGED vars
    BY <1>1 DEF vars, TypeInv, TypeOK, LocalsOK
  <1>2. ASSUME NEW c \in Callers, Begin(c)
        PROVE  TypeInv'
    BY <1>2, HumanLoadType, CancelType, CancelBeginType, ConversationBeginType,
       AgentLoadType, AssignType, ReleaseSessionType DEF Begin
  <1>3. ASSUME NEW c \in Callers, Continue(c)
        PROVE  TypeInv'
    <2>1. c \in Procs
      BY DEF Procs
    <2> QED BY <1>3, <2>1, HumanSelectType, EnqueueRecheckType, EnqueueType, TransferType,
               CancelCommitType, ConversationWriteType, IngestReadType, IngestWriteType,
               AssignRegisterType, AssignRowType, WriteLoadType, ReleaseRegisterType
            DEF Continue
  <1>4. ASSUME NEW w \in Workers, Round(w)
        PROVE  TypeInv'
    <2>1. w \in Procs
      BY DEF Procs
    <2> QED BY <1>4, <2>1, ClaimType, ClaimReadType, ClaimWriteType, WorkerLoadType,
               WorkerSelectType, TransferType, ReleaseType DEF Round
  <1>5. CASE Rested
    BY <1>1, <1>5 DEF Rested
  <1> QED BY <1>1, <1>2, <1>3, <1>4, <1>5, LeaseExpiresType, PresenceType, CrashType DEF Next

LEMMA TypeInit == Init => TypeInv
  <1> SUFFICES ASSUME Init PROVE TypeInv
    OBVIOUS
  <1>1. Fresh.rows = {} /\ Fresh.at = "idle"
    BY DEF Fresh
  <1>2. LocalsOK
    BY <1>1 DEF Init, LocalsOK, GoodLocals, TargetSteps, LoadSteps
  <1>3. queue \in Seq(QueueEntry) /\ transfers \in Seq(TransferRecord)
    BY DEF Init
  <1>4. session \in [Sessions -> Session]
    BY DEF Init, Session, MaybeAgent
  <1>5. flow \in [Procs -> Flow]
    BY FreshType DEF Init
  <1> QED BY <1>2, <1>3, <1>4, <1>5 DEF Init, TypeInv, TypeOK, Absent

\* The tables, the registry and the locals of every process keep their types:
\* no load turns negative or is written from an absent entry, and no transfer
\* is recorded without a target.
THEOREM TypeCorrect == Spec => []TypeOK
  <1>1. Spec => []TypeInv
    BY TypeInit, TypeStep, PTL DEF Spec
  <1>2. TypeInv => TypeOK
    BY DEF TypeInv
  <1> QED BY <1>1, <1>2, PTL

----------------------------------------------------------------------------
(* Safety: who owns a session, what the transfer records say, and that     *)
(* rounds do not share waiting records.                                     *)

\* The step an operation or a run is at belongs to an operation of this
\* configuration.
Allowed(step) ==
    /\ step = "claiming" => Postgres
    /\ step = "cancelling" => Postgres /\ "cancel" \in Operations
    /\ step = "closing" => "close" \in Operations
    /\ step = "assigning" => "assignConv" \in Operations
    /\ step = "transferring" => "transferConv" \in Operations
    /\ step \in {"ingest", "ingesting"} =>
         Operations \cap {"message", "close", "transferConv"} # {}
    /\ step \in {"register", "assignRow"} => "assign" \in Operations
    /\ step = "released" => "release" \in Operations

OperationsOK == \A p \in Procs : Allowed(flow[p].at)

LEMMA GotoAt ==
  ASSUME TypeInv, NEW p \in Procs, NEW step \in Steps, Goto(p, step)
  PROVE  /\ flow'[p].at = step
         /\ \A q \in Procs \ {p} : flow'[q] = flow[q]
         /\ flow'[p] = At(flow[p], step)
  <1>1. flow \in [Procs -> Flow] /\ flow[p] \in Flow
    BY DEF TypeInv, TypeOK
  <1>2. At(flow[p], step).at = step
    BY <1>1, AtType
  <1>3. flow' = [flow EXCEPT ![p] = At(flow[p], step)]
    BY DEF Goto
  <1> QED BY <1>1, <1>2, <1>3

LEMMA EnterTransferAt ==
  ASSUME TypeInv, NEW p \in Procs, NEW s \in Sessions, NEW seen \in Session,
         NEW a \in Agents, flow' = EnterTransfer(p, s, seen, a)
  PROVE  /\ flow'[p].at \in {"commit", "release", "next", "done"}
         /\ \A q \in Procs \ {p} : flow'[q] = flow[q]
         /\ flow'[p].rows \subseteq flow[p].rows
         /\ flow'[p].at \in {"commit", "release"} =>
              /\ flow'[p].session = s /\ flow'[p].row = flow[p].row
              /\ flow'[p].rows = flow[p].rows
         /\ \/ flow'[p].session = s /\ flow'[p].seen = seen
            \/ flow'[p].seen.agent = NoAgent
  <1> DEFINE g == [flow[p] EXCEPT !.session = s, !.seen = seen, !.target = a]
             step == CASE seen.status = "ended" -> AfterFailure(p)
                       [] seen.status # "ended" /\ seen.agent = a -> AfterTransfer(p)
                       [] OTHER -> "commit"
  <1>1. flow \in [Procs -> Flow] /\ flow[p] \in Flow
    BY DEF TypeInv, TypeOK
  <1>2. /\ g \in Flow /\ g.session = s /\ g.seen = seen
        /\ g.row = flow[p].row /\ g.rows = flow[p].rows
    BY <1>1 DEF Flow, MaybeAgent
  <1>3. step \in {"next", "done", "release", "commit"}
    BY DEF AfterFailure, AfterTransfer
  <1>4. step \in Steps
    BY <1>3 DEF Steps
  <1>5. flow' = [flow EXCEPT ![p] = At(g, step)]
    <2>1. [flow EXCEPT ![p].session = s, ![p].seen = seen, ![p].target = a]
            = [flow EXCEPT ![p] = g]
      BY <1>1
    <2> QED BY <1>1, <2>1 DEF EnterTransfer
  <1> HIDE DEF g, step
  <1>6. At(g, step).at = step /\ At(g, step).rows \subseteq g.rows
    BY <1>2, <1>4, AtType
  <1>7. step \in {"commit", "release"} =>
          At(g, step).session = s /\ At(g, step).row = flow[p].row /\ At(g, step).rows = g.rows
    BY <1>2 DEF At, Flow
  <1>8. IF step \in {"commit", "release"}
        THEN At(g, step).session = s /\ At(g, step).seen = seen
        ELSE At(g, step).seen.agent = NoAgent
    <2>1. CASE step \in {"commit", "release"}
      BY <1>2, <1>4, <2>1, AtType
    <2>2. CASE step \in {"next", "done"}
      BY <2>2 DEF At, Fresh
    <2> QED BY <1>3, <2>1, <2>2
  <1> QED BY <1>1, <1>2, <1>3, <1>5, <1>6, <1>7, <1>8

----------------------------------------------------------------------------
(* The tables change in few steps only *)

\* A step that touches none of session, queue and transfers, or one of these.
TableSteps ==
    \/ UNCHANGED <<session, queue, transfers>>
    \/ \E p \in Procs : \/ TransferCommit(p) \/ Enqueue(p) \/ CancelCommit(p)
                        \/ ConversationWrite(p) \/ IngestWrite(p) \/ AssignRow(p)
    \/ \E w \in Workers : Claim(w) \/ ClaimWrite(w) \/ Release(w)
    \/ \E c \in Callers, s \in Sessions : Cancel(c, s)
    \/ \E c \in Callers, s \in Sessions, a \in Agents : ReleaseSession(c, s, a)
    \/ \E r \in DOMAIN queue : LeaseExpires(r)

LEMMA StepsOnTables == [Next]_vars => TableSteps
  <1> SUFFICES ASSUME [Next]_vars PROVE TableSteps
    OBVIOUS
  <1>1. ASSUME NEW p \in Procs, Transfer(p)
        PROVE  TransferCommit(p) \/ UNCHANGED <<session, queue, transfers>>
    BY <1>1 DEF Transfer, TransferFails, ApplyTransfer, ReadTo, WriteTo, ReadFrom,
                WriteFrom, db
  <1>2. ASSUME NEW c \in Callers, Begin(c)
        PROVE  TableSteps
    <2>1. PICK s \in Sessions :
            \/ HumanLoad(c, s) \/ Cancel(c, s) \/ CancelBegin(c, s)
            \/ Message(c, s) \/ Close(c, s)
            \/ \E a \in Agents : \/ AgentLoad(c, s, a) \/ Assign(c, s, a)
                                 \/ ReleaseSession(c, s, a)
                                 \/ ConversationAssign(c, s, a)
                                 \/ ConversationTransfer(c, s, a)
      BY <1>2 DEF Begin
    <2>2. CASE HumanLoad(c, s) \/ CancelBegin(c, s) \/ Message(c, s) \/ Close(c, s)
      BY <2>2 DEF HumanLoad, CancelBegin, Message, Close, ReadConversation, db, TableSteps
    <2>3. CASE Cancel(c, s)
      BY <2>3 DEF TableSteps
    <2>4. ASSUME NEW a \in Agents,
                 \/ AgentLoad(c, s, a) \/ Assign(c, s, a)
                 \/ ConversationAssign(c, s, a) \/ ConversationTransfer(c, s, a)
          PROVE  UNCHANGED <<session, queue, transfers>>
      BY <2>4 DEF AgentLoad, Assign, ConversationAssign, ConversationTransfer,
                  ReadConversation, db
    <2>5. ASSUME NEW a \in Agents, ReleaseSession(c, s, a)
          PROVE  TableSteps
      BY <2>5 DEF TableSteps
    <2> QED BY <2>1, <2>2, <2>3, <2>4, <2>5 DEF TableSteps
  <1>3. ASSUME NEW c \in Callers, Continue(c)
        PROVE  TableSteps
    <2>1. c \in Procs
      BY DEF Procs
    <2> QED BY <1>1, <1>3, <2>1 DEF Continue, HumanSelect, EnqueueRecheck, IngestRead,
            ReadConversation, AssignRegister, WriteLoad, ReleaseRegister, db, TableSteps
  <1>4. ASSUME NEW w \in Workers, Round(w)
        PROVE  TableSteps
    <2>1. w \in Procs
      BY DEF Procs
    <2> QED BY <1>1, <1>4, <2>1 DEF Round, ClaimRead, WorkerLoad, WorkerSelect, db,
            TableSteps
  <1>5. ASSUME NEW a \in Agents, Presence(a)
        PROVE  UNCHANGED <<session, queue, transfers>>
    BY <1>5 DEF Presence, GoOnlineRead, GoOnline, GoOffline, MarkBusy, db
  <1>6. CASE Crash \/ Rested \/ UNCHANGED vars
    BY <1>6 DEF Crash, Rested, vars, db, TableSteps
  <1> QED BY <1>2, <1>3, <1>4, <1>5, <1>6 DEF Next, TableSteps

LEMMA WaitAfterStatus ==
  ASSUME TypeInv, NEW rows, NEW s,
         NEW status \in {"transferred", "cancelled"},
         queue' = SetStatus(rows, status)
  PROVE  WaitingRows(s)' = WaitingRows(s) \ rows
  <1>1. queue \in Seq(QueueEntry) /\ DOMAIN queue' = DOMAIN queue
    BY SetStatusType DEF TypeInv, TypeOK
  <1>2. \A r \in DOMAIN queue : queue[r] \in QueueEntry
    BY <1>1
  <1>3. \A r \in DOMAIN queue : /\ queue'[r].session = queue[r].session
                                /\ r \in rows => queue'[r].status = status
                                /\ r \notin rows => queue'[r] = queue[r]
    BY <1>1, <1>2 DEF SetStatus, QueueEntry
  <1> QED BY <1>1, <1>3 DEF WaitingRows, Rows

LEMMA WaitAfterClaim ==
  ASSUME TypeInv, NEW rows, NEW s, NEW claim \in {"free", "held", "expired"},
         queue' = SetClaim(rows, claim)
  PROVE  WaitingRows(s)' = WaitingRows(s)
  <1>1. queue \in Seq(QueueEntry) /\ DOMAIN queue' = DOMAIN queue
    BY SetClaimType DEF TypeInv, TypeOK
  <1>2. \A r \in DOMAIN queue : queue[r] \in QueueEntry
    BY <1>1
  <1>3. \A r \in DOMAIN queue : /\ queue'[r].session = queue[r].session
                                /\ queue'[r].status = queue[r].status
    BY <1>1, <1>2 DEF SetClaim, QueueEntry
  <1> QED BY <1>1, <1>3 DEF WaitingRows, Rows

LEMMA WaitAfterAppend ==
  ASSUME TypeInv, NEW c \in Procs, NEW s, Enqueue(c)
  PROVE  WaitingRows(s)' = IF s = flow[c].session
                           THEN WaitingRows(s) \cup {Len(queue) + 1} ELSE WaitingRows(s)
  <1> DEFINE row == [session |-> flow[c].session, status |-> "waiting", claim |-> "free"]
  <1>1. queue \in Seq(QueueEntry) /\ queue' = Append(queue, row)
    BY DEF TypeInv, TypeOK, Enqueue
  <1>2. row.session = flow[c].session /\ row.status = "waiting"
    OBVIOUS
  <1> HIDE DEF row
  <1>3. DOMAIN queue = 1..Len(queue) /\ DOMAIN queue' = 1..(Len(queue) + 1)
        /\ Len(queue) \in Nat
    BY <1>1
  <1>4. queue'[Len(queue) + 1] = row /\ \A r \in 1..Len(queue) : queue'[r] = queue[r]
    BY <1>1, <1>3
  <1> QED BY <1>2, <1>3, <1>4 DEF WaitingRows, Rows

\* LeaseExpires is a SetClaim of one row.
LEMMA ExpiryIsClaim ==
  ASSUME TypeInv, NEW r \in DOMAIN queue, LeaseExpires(r)
  PROVE  queue' = SetClaim({r}, "expired")
  BY DEF LeaseExpires, SetClaim, TypeInv, TypeOK

----------------------------------------------------------------------------
(* Transfer records and the queue *)

LEMMA OneWayStep ==
  ASSUME TypeInv, TableSteps, NEW r \in DOMAIN queue, queue[r].status # "waiting"
  PROVE  queue'[r].status # "waiting"
  <1>1. queue \in Seq(QueueEntry) /\ queue[r] \in QueueEntry
    BY DEF TypeInv, TypeOK
  <1>2. ASSUME NEW rows, NEW claim, queue' = SetClaim(rows, claim)
        PROVE  queue'[r].status # "waiting"
    BY <1>1, <1>2 DEF SetClaim, QueueEntry
  <1>3. ASSUME NEW rows, NEW status, status # "waiting", queue' = SetStatus(rows, status)
        PROVE  queue'[r].status # "waiting"
    BY <1>1, <1>3 DEF SetStatus, QueueEntry
  <1>4. ASSUME NEW c \in Procs, Enqueue(c)
        PROVE  queue'[r].status # "waiting"
    BY <1>1, <1>4 DEF Enqueue
  <1>5. CASE \E rr \in DOMAIN queue : LeaseExpires(rr)
    BY <1>2, <1>5, ExpiryIsClaim
  <1>6. CASE UNCHANGED queue
    BY <1>6
  <1>7. CASE \E p \in Procs : \/ TransferCommit(p) \/ CancelCommit(p) \/ Claim(p)
                              \/ ClaimWrite(p) \/ Release(p)
    BY <1>2, <1>3, <1>7 DEF TransferCommit, CancelCommit, Cancelled, Claim, ClaimWrite,
                            Release, Returned, Procs
  <1>8. CASE \E c \in Callers, s \in Sessions : Cancel(c, s)
    BY <1>3, <1>8 DEF Cancel, Cancelled
  <1> QED BY <1>4, <1>5, <1>6, <1>7, <1>8
          DEF TableSteps, ConversationWrite, IngestWrite, AssignRow, ReleaseSession, Procs

\* A record that was dispatched or cancelled is never claimed or shown again.
THEOREM QueueNeverTurnsBack == Spec => QueueIsOneWay
  <1>1. TypeInv /\ [Next]_vars =>
          [\A r \in DOMAIN queue :
             queue[r].status # "waiting" => queue'[r].status # "waiting"]_vars
    BY StepsOnTables, OneWayStep
  <1> QED BY <1>1, TypeInit, TypeStep, PTL DEF Spec, QueueIsOneWay

----------------------------------------------------------------------------
(* Which operations put a process at which step *)

LEMMA MoveAllowed ==
  ASSUME OperationsOK, NEW p \in Procs, \A q \in Procs \ {p} : flow'[q] = flow[q],
         Allowed(flow'[p].at)
  PROVE  OperationsOK'
  BY DEF OperationsOK

\* Steps that belong to no operation in particular.
Common == {"idle", "select", "recheck", "enqueue", "commit", "apply", "readTo", "writeTo",
           "readFrom", "writeFrom", "next", "release", "writeLoad", "done"}

LEMMA CommonAllowed == \A step \in Common : Allowed(step)
  BY DEF Common, Allowed

LEMMA GotoAllowed ==
  ASSUME TypeInv, OperationsOK, NEW p \in Procs, NEW step \in Steps, Goto(p, step),
         Allowed(step)
  PROVE  OperationsOK'
  BY GotoAt, MoveAllowed

LEMMA EnterTransferAllowed ==
  ASSUME TypeInv, OperationsOK, NEW p \in Procs, NEW s \in Sessions, NEW seen \in Session,
         NEW a \in Agents, flow' = EnterTransfer(p, s, seen, a)
  PROVE  OperationsOK'
  BY EnterTransferAt, MoveAllowed, CommonAllowed DEF Common

LEMMA TransferAllowed ==
  ASSUME TypeInv, OperationsOK, NEW p \in Procs, Transfer(p)
  PROVE  OperationsOK'
  <1>1. flow \in [Procs -> Flow] /\ flow[p] \in Flow
    BY DEF TypeInv, TypeOK
  <1>2. CASE TransferCommit(p)
    <2>1. flow'[p].at = "apply" /\ \A q \in Procs \ {p} : flow'[q] = flow[q]
      BY <1>1, <1>2 DEF TransferCommit, Flow
    <2> QED BY <2>1, MoveAllowed, CommonAllowed DEF Common
  <1>3. CASE TransferFails(p)
    BY <1>3, GotoAllowed, CommonAllowed DEF TransferFails, AfterFailure, Common, Steps
  <1>4. CASE ApplyTransfer(p)
    BY <1>4, GotoAllowed, CommonAllowed DEF ApplyTransfer, Common, Steps
  <1>5. CASE ReadTo(p)
    <2>1. flow'[p].at \in {"readFrom", "writeTo"} /\ \A q \in Procs \ {p} : flow'[q] = flow[q]
      BY <1>1, <1>5 DEF ReadTo, Flow
    <2> QED BY <2>1, MoveAllowed, CommonAllowed DEF Common
  <1>6. CASE WriteTo(p)
    BY <1>6, GotoAllowed, CommonAllowed DEF WriteTo, Common, Steps
  <1>7. CASE ReadFrom(p)
    <2>1. CASE Goto(p, "next") \/ Goto(p, "done")
      BY <2>1, GotoAllowed, CommonAllowed DEF Common, Steps
    <2>2. CASE ~(Goto(p, "next") \/ Goto(p, "done"))
      <3>1. PICK n : flow' = [flow EXCEPT ![p].load = n, ![p].at = "writeFrom"]
        BY <1>7, <2>2 DEF ReadFrom, AfterTransfer
      <3>2. flow'[p].at = "writeFrom" /\ \A q \in Procs \ {p} : flow'[q] = flow[q]
        BY <1>1, <3>1 DEF Flow
      <3> QED BY <3>2, MoveAllowed, CommonAllowed DEF Common
    <2> QED BY <2>1, <2>2
  <1>8. CASE WriteFrom(p)
    BY <1>8, GotoAllowed, CommonAllowed DEF WriteFrom, AfterTransfer, Common, Steps
  <1> QED BY <1>2, <1>3, <1>4, <1>5, <1>6, <1>7, <1>8 DEF Transfer

LEMMA BeginAllowed ==
  ASSUME TypeInv, OperationsOK, NEW c \in Callers, Begin(c)
  PROVE  OperationsOK'
  <1>1. flow \in [Procs -> Flow] /\ flow[c] \in Flow /\ c \in Procs
    BY DEF TypeInv, TypeOK, Procs
  <1>2. ASSUME Goto(c, "done")
        PROVE  OperationsOK'
    BY <1>1, <1>2, GotoAllowed, CommonAllowed DEF Common, Steps
  <1>3. ASSUME NEW s \in Sessions, NEW a, NEW step, ReadConversation(c, s, a, step),
               Allowed(step)
        PROVE  OperationsOK'
    <2>1. flow'[c].at = step /\ \A q \in Procs \ {c} : flow'[q] = flow[q]
      BY <1>1, <1>3 DEF ReadConversation, Flow
    <2> QED BY <1>1, <1>3, <2>1, MoveAllowed
  <1>4. ASSUME NEW s \in Sessions, HumanLoad(c, s)
        PROVE  OperationsOK'
    <2>1. CASE Goto(c, "done")
      BY <1>2, <2>1
    <2>2. CASE ~Goto(c, "done")
      <3>1. flow'[c].at = "select" /\ \A q \in Procs \ {c} : flow'[q] = flow[q]
        BY <1>1, <1>4, <2>2 DEF HumanLoad, Flow
      <3> QED BY <1>1, <3>1, MoveAllowed, CommonAllowed DEF Common
    <2> QED BY <2>1, <2>2
  <1>5. ASSUME NEW s \in Sessions, Cancel(c, s)
        PROVE  OperationsOK'
    BY <1>2, <1>5 DEF Cancel
  <1>6. ASSUME NEW s \in Sessions, CancelBegin(c, s)
        PROVE  OperationsOK'
    <2>1. flow'[c].at = "cancelling" /\ \A q \in Procs \ {c} : flow'[q] = flow[q]
      BY <1>1, <1>6 DEF CancelBegin, Flow
    <2>2. Allowed("cancelling")
      BY <1>6 DEF CancelBegin, Begins, Allowed
    <2> QED BY <1>1, <2>1, <2>2, MoveAllowed
  <1>7. ASSUME NEW s \in Sessions, Message(c, s) \/ Close(c, s)
        PROVE  OperationsOK'
    <2>1. CASE Message(c, s)
      <3>1. Allowed("ingesting")
        BY <2>1 DEF Message, Begins, Allowed
      <3> QED BY <1>3, <2>1, <3>1 DEF Message
    <2>2. CASE Close(c, s)
      <3>1. Allowed("closing")
        BY <2>2 DEF Close, Begins, Allowed
      <3> QED BY <1>3, <2>2, <3>1 DEF Close
    <2> QED BY <1>7, <2>1, <2>2
  <1>8. ASSUME NEW s \in Sessions, NEW a \in Agents, AgentLoad(c, s, a)
        PROVE  OperationsOK'
    <2>1. CASE Goto(c, "done")
      BY <1>2, <2>1
    <2>2. CASE flow' = EnterTransfer(c, s, session[s], a)
      <3>1. session[s] \in Session
        BY DEF TypeInv, TypeOK
      <3> QED BY <1>1, <2>2, <3>1, EnterTransferAllowed
    <2> QED BY <1>8, <2>1, <2>2 DEF AgentLoad
  <1>9. ASSUME NEW s \in Sessions, NEW a \in Agents, Assign(c, s, a)
        PROVE  OperationsOK'
    <2>1. CASE Goto(c, "done")
      BY <1>2, <2>1
    <2>2. CASE ~Goto(c, "done")
      <3>1. flow'[c].at = "register" /\ \A q \in Procs \ {c} : flow'[q] = flow[q]
        BY <1>1, <1>9, <2>2 DEF Assign, Flow
      <3>2. Allowed("register")
        BY <1>9 DEF Assign, Begins, Allowed
      <3> QED BY <1>1, <3>1, <3>2, MoveAllowed
    <2> QED BY <2>1, <2>2
  <1>10. ASSUME NEW s \in Sessions, NEW a \in Agents, ReleaseSession(c, s, a)
         PROVE  OperationsOK'
    <2>1. CASE Goto(c, "done")
      BY <1>2, <2>1
    <2>2. CASE ~Goto(c, "done")
      <3>1. flow'[c].at = "released" /\ \A q \in Procs \ {c} : flow'[q] = flow[q]
        BY <1>1, <1>10, <2>2 DEF ReleaseSession, Flow
      <3>2. Allowed("released")
        BY <1>10 DEF ReleaseSession, Begins, Allowed
      <3> QED BY <1>1, <3>1, <3>2, MoveAllowed
    <2> QED BY <2>1, <2>2
  <1>11. ASSUME NEW s \in Sessions, NEW a \in Agents,
                ConversationAssign(c, s, a) \/ ConversationTransfer(c, s, a)
         PROVE  OperationsOK'
    <2>1. CASE ConversationAssign(c, s, a)
      <3>1. Allowed("assigning")
        BY <2>1 DEF ConversationAssign, Begins, Allowed
      <3> QED BY <1>3, <2>1, <3>1 DEF ConversationAssign
    <2>2. CASE ConversationTransfer(c, s, a)
      <3>1. Allowed("transferring")
        BY <2>2 DEF ConversationTransfer, Begins, Allowed
      <3> QED BY <1>3, <2>2, <3>1 DEF ConversationTransfer
    <2> QED BY <1>11, <2>1, <2>2
  <1> QED BY <1>4, <1>5, <1>6, <1>7, <1>8, <1>9, <1>10, <1>11 DEF Begin

LEMMA SelectAllowed ==
  ASSUME TypeInv, OperationsOK, NEW p \in Procs, HumanSelect(p) \/ WorkerSelect(p)
  PROVE  OperationsOK'
  <1>1. flow[p].session \in Sessions /\ flow[p].seen \in Session
    BY DEF TypeInv, TypeOK, Flow
  <1>2. CASE Goto(p, "done") \/ Goto(p, "recheck") \/ Goto(p, "release")
    BY <1>2, GotoAllowed, CommonAllowed DEF Common, Steps
  <1>3. CASE \E a \in Candidates(flow[p].session) :
               flow' = EnterTransfer(p, flow[p].session, flow[p].seen, a)
    <2>1. PICK a \in Agents : flow' = EnterTransfer(p, flow[p].session, flow[p].seen, a)
      BY <1>1, <1>3, HandoffAssumption DEF Candidates
    <2> QED BY <1>1, <2>1, EnterTransferAllowed
  <1> QED BY <1>2, <1>3 DEF HumanSelect, WorkerSelect

LEMMA ContinueAllowed ==
  ASSUME TypeInv, OperationsOK, NEW c \in Callers, Continue(c)
  PROVE  OperationsOK'
  <1>1. flow \in [Procs -> Flow] /\ flow[c] \in Flow /\ c \in Procs
    BY DEF TypeInv, TypeOK, Procs
  <1>2. Allowed(flow[c].at)
    BY <1>1 DEF OperationsOK
  <1>3. CASE \/ EnqueueRecheck(c) \/ Enqueue(c) \/ CancelCommit(c) \/ IngestWrite(c)
             \/ AssignRow(c) \/ WriteLoad(c)
    <2>1. Goto(c, "done") \/ Goto(c, "enqueue") \/ Goto(c, "writeLoad")
      BY <1>3 DEF EnqueueRecheck, Enqueue, CancelCommit, IngestWrite, AssignRow, WriteLoad
    <2> QED BY <1>1, <2>1, GotoAllowed, CommonAllowed DEF Common, Steps
  <1>4. CASE ConversationWrite(c)
    <2>1. CASE Goto(c, "done")
      BY <1>1, <2>1, GotoAllowed, CommonAllowed DEF Common, Steps
    <2>2. CASE ~Goto(c, "done")
      <3>1. flow[c].at \in {"closing", "transferring"} /\ Goto(c, "ingest")
        BY <1>4, <2>2 DEF ConversationWrite
      <3>2. Allowed("ingest")
        BY <1>2, <3>1 DEF Allowed
      <3> QED BY <1>1, <3>1, <3>2, GotoAllowed DEF Steps
    <2> QED BY <2>1, <2>2
  <1>5. CASE IngestRead(c)
    <2>1. flow'[c].at = "ingesting" /\ \A q \in Procs \ {c} : flow'[q] = flow[q]
      BY <1>1, <1>5 DEF IngestRead, ReadConversation, Flow
    <2>2. Allowed("ingesting")
      BY <1>2, <1>5 DEF IngestRead, Allowed
    <2> QED BY <1>1, <2>1, <2>2, MoveAllowed
  <1>6. CASE AssignRegister(c)
    <2>1. flow'[c].at = "assignRow" /\ \A q \in Procs \ {c} : flow'[q] = flow[q]
      BY <1>1, <1>6 DEF AssignRegister, Flow
    <2>2. Allowed("assignRow")
      BY <1>2, <1>6 DEF AssignRegister, Allowed
    <2> QED BY <1>1, <2>1, <2>2, MoveAllowed
  <1>7. CASE ReleaseRegister(c)
    <2>1. CASE Goto(c, "done")
      BY <1>1, <2>1, GotoAllowed, CommonAllowed DEF Common, Steps
    <2>2. CASE ~Goto(c, "done")
      <3>1. flow'[c].at = "writeLoad" /\ \A q \in Procs \ {c} : flow'[q] = flow[q]
        BY <1>1, <1>7, <2>2 DEF ReleaseRegister, Flow
      <3> QED BY <1>1, <3>1, MoveAllowed, CommonAllowed DEF Common
    <2> QED BY <2>1, <2>2
  <1> QED BY <1>1, <1>3, <1>4, <1>5, <1>6, <1>7, SelectAllowed, TransferAllowed DEF Continue

LEMMA RoundAllowed ==
  ASSUME TypeInv, OperationsOK, NEW w \in Workers, Round(w)
  PROVE  OperationsOK'
  <1>1. flow \in [Procs -> Flow] /\ flow[w] \in Flow /\ w \in Procs
    BY DEF TypeInv, TypeOK, Procs
  <1>2. CASE Claim(w)
    <2>1. flow'[w].at = "next" /\ \A q \in Procs \ {w} : flow'[q] = flow[q]
      BY <1>1, <1>2 DEF Claim, Flow
    <2> QED BY <1>1, <2>1, MoveAllowed, CommonAllowed DEF Common
  <1>3. CASE ClaimRead(w)
    <2>1. flow'[w].at = "claiming" /\ \A q \in Procs \ {w} : flow'[q] = flow[q]
      BY <1>1, <1>3 DEF ClaimRead, Flow
    <2>2. Allowed("claiming")
      BY <1>3 DEF ClaimRead, Allowed
    <2> QED BY <1>1, <2>1, <2>2, MoveAllowed
  <1>4. CASE ClaimWrite(w) \/ Release(w)
    <2>1. Goto(w, "next")
      BY <1>4 DEF ClaimWrite, Release
    <2> QED BY <1>1, <2>1, GotoAllowed, CommonAllowed DEF Common, Steps
  <1>5. CASE WorkerLoad(w)
    <2>1. CASE flow[w].rows = {}
      <3>1. Goto(w, "idle")
        BY <1>5, <2>1 DEF WorkerLoad
      <3> QED BY <1>1, <3>1, GotoAllowed, CommonAllowed DEF Common, Steps
    <2>2. CASE flow[w].rows # {}
      <3>1. PICK r \in flow[w].rows :
              flow' = [flow EXCEPT ![w].at = "select", ![w].row = r,
                                   ![w].session = queue[r].session,
                                   ![w].seen = session[queue[r].session]]
        BY <1>5, <2>2 DEF WorkerLoad
      <3>2. flow'[w].at = "select" /\ \A q \in Procs \ {w} : flow'[q] = flow[q]
        BY <1>1, <3>1 DEF Flow
      <3> QED BY <1>1, <3>2, MoveAllowed, CommonAllowed DEF Common
    <2> QED BY <2>1, <2>2
  <1> QED BY <1>1, <1>2, <1>3, <1>4, <1>5, SelectAllowed, TransferAllowed DEF Round

LEMMA OperationsStep ==
  ASSUME TypeInv, OperationsOK, [Next]_vars
  PROVE  OperationsOK'
  <1>1. CASE \/ UNCHANGED vars \/ Rested \/ \E r \in DOMAIN queue : LeaseExpires(r)
             \/ \E a \in Agents : Presence(a)
    BY <1>1 DEF vars, Rested, LeaseExpires, Presence, GoOnlineRead, GoOnline, GoOffline,
                MarkBusy, OperationsOK
  <1>2. CASE Crash
    <2>1. \A p \in Procs : flow'[p] \in {Fresh, [Fresh EXCEPT !.at = "done"]}
      BY <1>2 DEF Crash, Procs
    <2>2. \A p \in Procs : flow'[p].at \in {"idle", "done"}
      BY <2>1 DEF Fresh
    <2> QED BY <2>2, CommonAllowed DEF OperationsOK, Common
  <1> QED BY <1>1, <1>2, BeginAllowed, ContinueAllowed, RoundAllowed DEF Next

LEMMA OperationsInit == Init => OperationsOK
  BY DEF Init, OperationsOK, Allowed, Fresh

----------------------------------------------------------------------------
(* The operations of the routing module *)

\* The configuration the next two theorems are about: agents may release sessions
\* as well, and nobody cancels where a cancellation is more than one step.
RoutingOnly ==
    /\ Operations \subseteq {"human", "agent", "cancel", "release"}
    /\ Postgres => "cancel" \notin Operations

\* Its steps on the tables.
LEMMA RoutingSteps ==
  ASSUME RoutingOnly, TypeInv, OperationsOK, TableSteps
  PROVE  \/ UNCHANGED <<session, queue, transfers>>
         \/ \E p \in Procs : \/ TransferCommit(p) \/ Enqueue(p) \/ Claim(p)
                             \/ ClaimWrite(p) \/ Release(p)
         \/ \E c \in Callers, s \in Sessions : Cancel(c, s)
         \/ \E c \in Callers, s \in Sessions, a \in Agents : ReleaseSession(c, s, a)
         \/ \E r \in DOMAIN queue : LeaseExpires(r)
  <1>1. \A p \in Procs : flow[p].at \notin {"cancelling", "closing", "assigning",
                                            "transferring", "ingesting", "assignRow"}
    BY DEF RoutingOnly, OperationsOK, Allowed
  <1>2. ASSUME NEW p \in Procs
        PROVE  ~CancelCommit(p) /\ ~ConversationWrite(p) /\ ~IngestWrite(p) /\ ~AssignRow(p)
    BY <1>1 DEF CancelCommit, ConversationWrite, IngestWrite, AssignRow
  <1> QED BY <1>2 DEF TableSteps, Procs

\* ReleaseSession ends the session and leaves its agent.
LEMMA ReleaseKeepsAgents ==
  ASSUME TypeInv, NEW c \in Callers, NEW s \in Sessions, NEW a \in Agents,
         ReleaseSession(c, s, a)
  PROVE  \A t \in Sessions : session'[t].agent = session[t].agent
  <1>1. session \in [Sessions -> Session]
    BY DEF TypeInv, TypeOK
  <1> QED BY <1>1 DEF ReleaseSession, Session

LEMMA WaitingStep ==
  ASSUME RoutingOnly, TypeInv, OperationsOK, WaitingIsUnassigned, TableSteps
  PROVE  WaitingIsUnassigned'
  <1> SUFFICES ASSUME NEW s \in Sessions, WaitingRows(s)' # {}
               PROVE  session'[s].agent = NoAgent
    BY DEF WaitingIsUnassigned
  <1>1. session \in [Sessions -> Session] /\ flow \in [Procs -> Flow]
    BY DEF TypeInv, TypeOK
  <1>2. CASE UNCHANGED <<session, queue, transfers>>
    BY <1>2 DEF WaitingIsUnassigned, WaitingRows, Rows
  <1>3. ASSUME NEW p \in Procs, TransferCommit(p)
        PROVE  session'[s].agent = NoAgent
    <2>1. flow[p].session \in Sessions
      BY <1>1 DEF Flow
    <2>2. WaitingRows(s)' = WaitingRows(s) \ WaitingRows(flow[p].session)
      BY <1>3, WaitAfterStatus DEF TransferCommit
    <2>3. s # flow[p].session /\ WaitingRows(s) # {}
      BY <2>2
    <2>4. session'[s] = session[s]
      BY <1>1, <1>3, <2>1, <2>3 DEF TransferCommit
    <2> QED BY <2>3, <2>4 DEF WaitingIsUnassigned
  <1>4. ASSUME NEW p \in Procs, Enqueue(p)
        PROVE  session'[s].agent = NoAgent
    <2>1. flow[p].session \in Sessions
      BY <1>1 DEF Flow
    <2>2. CASE s = flow[p].session
      BY <1>1, <1>4, <2>1, <2>2 DEF Enqueue, Unassigned, Session
    <2>3. CASE s # flow[p].session
      <3>1. WaitingRows(s) # {}
        BY <1>4, <2>3, WaitAfterAppend
      <3>2. session'[s] = session[s]
        BY <1>1, <1>4, <2>1, <2>3 DEF Enqueue
      <3> QED BY <3>1, <3>2 DEF WaitingIsUnassigned
    <2> QED BY <2>2, <2>3
  <1>5. ASSUME NEW p \in Procs, Claim(p) \/ ClaimWrite(p) \/ Release(p)
        PROVE  session'[s].agent = NoAgent
    <2>1. WaitingRows(s)' = WaitingRows(s)
      BY <1>5, WaitAfterClaim DEF Claim, ClaimWrite, Release, Returned
    <2> QED BY <1>5, <2>1 DEF Claim, ClaimWrite, Release, WaitingIsUnassigned
  <1>6. ASSUME NEW c \in Callers, NEW t \in Sessions, Cancel(c, t)
        PROVE  session'[s].agent = NoAgent
    <2>1. WaitingRows(s)' = WaitingRows(s) \ Rows(t)
      BY <1>6, WaitAfterStatus DEF Cancel, Cancelled
    <2>2. s # t /\ WaitingRows(s) # {}
      BY <2>1 DEF WaitingRows
    <2>3. session'[s] = session[s]
      BY <1>1, <1>6, <2>2 DEF Cancel, Cancelled
    <2> QED BY <2>2, <2>3 DEF WaitingIsUnassigned
  <1>7. ASSUME NEW r \in DOMAIN queue, LeaseExpires(r)
        PROVE  session'[s].agent = NoAgent
    <2>1. WaitingRows(s)' = WaitingRows(s)
      BY <1>7, ExpiryIsClaim, WaitAfterClaim
    <2> QED BY <1>7, <2>1 DEF LeaseExpires, WaitingIsUnassigned
  <1>8. ASSUME NEW c \in Callers, NEW t \in Sessions, NEW a \in Agents, ReleaseSession(c, t, a)
        PROVE  session'[s].agent = NoAgent
    <2>1. session'[s].agent = session[s].agent /\ WaitingRows(s)' = WaitingRows(s)
      BY <1>8, ReleaseKeepsAgents DEF ReleaseSession, WaitingRows, Rows
    <2> QED BY <2>1 DEF WaitingIsUnassigned
  <1> QED BY <1>2, <1>3, <1>4, <1>5, <1>6, <1>7, <1>8, RoutingSteps

LEMMA WaitingInit == Init => WaitingIsUnassigned
  BY DEF Init, WaitingIsUnassigned, WaitingRows, Rows

\* A session with a waiting record has no agent, whatever the interleaving of
\* requests, transfers, cancellations (on sqlite), releases and rounds, and whatever
\* a crash leaves: the queue never takes a session away from an agent who has it.
THEOREM WaitingSessionsAreNobodys ==
  ASSUME RoutingOnly
  PROVE  Spec => []WaitingIsUnassigned
  <1>1. TypeInv /\ OperationsOK /\ WaitingIsUnassigned /\ [Next]_vars
          => TypeInv' /\ OperationsOK' /\ WaitingIsUnassigned'
    BY TypeStep, OperationsStep, StepsOnTables, WaitingStep
  <1>2. Init => TypeInv /\ OperationsOK /\ WaitingIsUnassigned
    BY TypeInit, OperationsInit, WaitingInit
  <1> QED BY <1>1, <1>2, PTL DEF Spec

----------------------------------------------------------------------------
(* The hand-over implements SessionOwnership *)

\* The refinement mapping, as in Ownership.
Owner == [s \in Sessions |-> session[s].agent]
Waiting == {s \in Sessions : WaitingRows(s) # {}}

OwnershipStep == [Ownership!Next]_<<Owner, Waiting, transfers>>

\* Only the row of s may have a new agent.
LEMMA OwnerAfter ==
  ASSUME TypeInv, NEW s \in Sessions, NEW row,
         session' = [session EXCEPT ![s] = row]
  PROVE  Owner' = [Owner EXCEPT ![s] = row.agent]
  BY DEF TypeInv, TypeOK, Owner

LEMMA TransferAssigns ==
  ASSUME TypeInv, NEW p \in Procs, TransferCommit(p)
  PROVE  OwnershipStep
  <1> DEFINE s == flow[p].session
             a == flow[p].target
  <1>1. flow[p] \in Flow /\ s \in Sessions /\ a \in Agents
    <2>1. flow[p] \in Flow /\ GoodLocals(flow[p]) /\ flow[p].at = "commit"
      BY DEF TypeInv, TypeOK, LocalsOK, TransferCommit
    <2> QED BY <2>1 DEF GoodLocals, TargetSteps, Flow
  <1>2. Owner' = [Owner EXCEPT ![s] = a]
    <2>1. session' = [session EXCEPT ![s] = Overwrite(session[s], "active", a, FALSE)]
      BY DEF TransferCommit
    <2>2. Overwrite(session[s], "active", a, FALSE).agent = a
      BY <1>1, HandoffAssumption DEF Overwrite
    <2> QED BY <1>1, <2>1, <2>2, OwnerAfter
  <1>3. Waiting' = Waiting \ {s}
    <2>1. \A t \in Sessions : WaitingRows(t)' = WaitingRows(t) \ WaitingRows(s)
      BY WaitAfterStatus DEF TransferCommit
    <2>2. \A t \in Sessions : t # s => WaitingRows(t) \cap WaitingRows(s) = {}
      BY DEF WaitingRows, Rows
    <2>3. \A t \in Sessions : WaitingRows(t)' # {} <=> t # s /\ WaitingRows(t) # {}
      BY <2>1, <2>2
    <2> QED BY <2>3 DEF Waiting
  <1>4. transfers' = Append(transfers, [session |-> s,
                                        from |-> IF Owner[s] = a THEN NoAgent ELSE Owner[s],
                                        to |-> a])
    BY <1>1 DEF TransferCommit, TransferSource, Owner
  <1> QED BY <1>1, <1>2, <1>3, <1>4 DEF OwnershipStep, Ownership!Next, Ownership!Assign,
                                        Owner, Waiting

LEMMA EnqueueWaits ==
  ASSUME TypeInv, NEW p \in Procs, Enqueue(p)
  PROVE  OwnershipStep
  <1> DEFINE s == flow[p].session
  <1>1. s \in Sessions
    BY DEF TypeInv, TypeOK, Flow
  <1>2. Owner' = [Owner EXCEPT ![s] = NoAgent]
    <2>1. session' = [session EXCEPT ![s] = Unassigned(session[s])]
      BY DEF Enqueue
    <2>2. Unassigned(session[s]).agent = NoAgent
      BY <1>1 DEF TypeInv, TypeOK, Session, Unassigned
    <2> QED BY <1>1, <2>1, <2>2, OwnerAfter
  <1>3. Waiting' = Waiting \cup {s}
    BY <1>1, WaitAfterAppend DEF Waiting
  <1> QED BY <1>1, <1>2, <1>3 DEF OwnershipStep, Ownership!Next, Ownership!Wait, Enqueue,
                                  Owner, Waiting

LEMMA CancelWithdraws ==
  ASSUME TypeInv, NEW c \in Callers, NEW s \in Sessions, Cancel(c, s)
  PROVE  OwnershipStep
  <1>1. Owner' = Owner
    <2>1. session' = [session EXCEPT ![s] =
                         Overwrite(session[s], "active", session[s].agent, session[s].ended)]
      BY DEF Cancel, Cancelled
    <2>2. Overwrite(session[s], "active", session[s].agent, session[s].ended).agent
            = session[s].agent
      BY DEF Overwrite
    <2> QED BY <2>1, <2>2, OwnerAfter DEF Owner
  <1>2. Waiting' = Waiting \ {s}
    <2>1. \A t \in Sessions : WaitingRows(t)' = WaitingRows(t) \ Rows(s)
      BY WaitAfterStatus DEF Cancel, Cancelled
    <2>2. \A t \in Sessions : t # s => WaitingRows(t) \cap Rows(s) = {}
      BY DEF WaitingRows, Rows
    <2>3. WaitingRows(s) \subseteq Rows(s)
      BY DEF WaitingRows
    <2>4. \A t \in Sessions : WaitingRows(t)' # {} <=> t # s /\ WaitingRows(t) # {}
      BY <2>1, <2>2, <2>3
    <2> QED BY <2>4 DEF Waiting
  <1>3. transfers' = transfers
    BY DEF Cancel
  <1> QED BY <1>1, <1>2, <1>3 DEF OwnershipStep, Ownership!Next, Ownership!Withdraw,
                                  Owner, Waiting

LEMMA RefinementStep ==
  ASSUME RoutingOnly, TypeInv, OperationsOK, TableSteps
  PROVE  OwnershipStep
  <1>1. ASSUME session' = session, transfers' = transfers,
               \A s \in Sessions : WaitingRows(s)' = WaitingRows(s)
        PROVE  OwnershipStep
    BY <1>1 DEF OwnershipStep, Owner, Waiting
  <1>2. CASE UNCHANGED <<session, queue, transfers>>
    BY <1>1, <1>2 DEF WaitingRows, Rows
  <1>3. ASSUME NEW p \in Procs, Claim(p) \/ ClaimWrite(p) \/ Release(p)
        PROVE  OwnershipStep
    BY <1>1, <1>3, WaitAfterClaim DEF Claim, ClaimWrite, Release, Returned
  <1>4. ASSUME NEW r \in DOMAIN queue, LeaseExpires(r)
        PROVE  OwnershipStep
    BY <1>1, <1>4, ExpiryIsClaim, WaitAfterClaim DEF LeaseExpires
  <1>5. ASSUME NEW c \in Callers, NEW s \in Sessions, NEW a \in Agents, ReleaseSession(c, s, a)
        PROVE  OwnershipStep
    <2>1. Owner' = Owner
      BY <1>5, ReleaseKeepsAgents DEF Owner
    <2>2. UNCHANGED <<queue, transfers>>
      BY <1>5 DEF ReleaseSession
    <2> QED BY <2>1, <2>2 DEF OwnershipStep, Waiting, WaitingRows, Rows
  <1> QED BY <1>2, <1>3, <1>4, <1>5, RoutingSteps, TransferAssigns, EnqueueWaits, CancelWithdraws

LEMMA RefinementInit == Init => Ownership!Init
  BY DEF Init, Ownership!Init, WaitingRows, Rows

\* Requests for a human, transfers to a named agent, cancellations (on sqlite),
\* releases and rounds of any number of workers, with crashes and rollbacks in between, implement
\* SessionOwnership: each of their steps assigns, queues or withdraws one
\* session or changes nothing of it.
THEOREM HandoffImplementsOwnership ==
  ASSUME RoutingOnly
  PROVE  Spec => OwnershipHolds
  <1>1. TypeInv /\ OperationsOK /\ [Next]_vars
          => /\ TypeInv' /\ OperationsOK'
             /\ [Ownership!Next]_<<[s \in Sessions |-> session[s].agent],
                                   {s \in Sessions : WaitingRows(s) # {}}, transfers>>
    BY TypeStep, OperationsStep, StepsOnTables, RefinementStep
       DEF OwnershipStep, Owner, Waiting
  <1>2. Init => TypeInv /\ OperationsOK /\ Ownership!Init
    BY TypeInit, OperationsInit, RefinementInit
  <1> QED BY <1>1, <1>2, PTL DEF Spec, OwnershipHolds, Ownership!Spec
----------------------------------------------------------------------------
(* What SessionOwnership implies: the records tell the story of a session *)

StoryOK == OwnerIsLatest /\ RecordsChain

LEMMA StoryStep ==
  ASSUME TypeInv, TypeInv', StoryOK, OwnershipStep
  PROVE  StoryOK'
  <1>1. /\ session \in [Sessions -> Session] /\ session' \in [Sessions -> Session]
        /\ transfers \in Seq(TransferRecord)
    BY DEF TypeInv, TypeOK
  <1>2. ASSUME transfers' = transfers,
               \A s \in Sessions : session'[s].agent \in {NoAgent, session[s].agent}
        PROVE  StoryOK'
    BY <1>2 DEF StoryOK, OwnerIsLatest, RecordsChain, NewestBefore
  <1>3. CASE UNCHANGED <<Owner, Waiting, transfers>>
    <2>1. \A s \in Sessions : session'[s].agent = session[s].agent
      <3>1. \A s \in Sessions : Owner'[s] = Owner[s]
        BY <1>3
      <3> QED BY <3>1 DEF Owner
    <2> QED BY <1>2, <1>3, <2>1
  <1>4. ASSUME NEW t \in Sessions, Ownership!Wait(t) \/ Ownership!Withdraw(t)
        PROVE  StoryOK'
    <2>1. \A s \in Sessions : Owner'[s] \in {NoAgent, Owner[s]}
      BY <1>4 DEF Ownership!Wait, Ownership!Withdraw, Owner
    <2>2. \A s \in Sessions : session'[s].agent \in {NoAgent, session[s].agent}
      BY <2>1 DEF Owner
    <2> QED BY <1>2, <1>4, <2>2 DEF Ownership!Wait, Ownership!Withdraw
  <1>5. ASSUME NEW t \in Sessions, NEW a \in Agents, Ownership!Assign(t, a)
        PROVE  StoryOK'
    <2> DEFINE n == Len(transfers) + 1
               holder == session[t].agent
    <2>1. PICK record : /\ record.session = t /\ record.to = a
                        /\ record.from \in {NoAgent, holder}
                        /\ transfers' = Append(transfers, record)
      BY <1>5 DEF Ownership!Assign, Owner
    <2>2. /\ DOMAIN transfers = 1..Len(transfers) /\ Len(transfers) \in Nat
          /\ DOMAIN transfers' = 1..n /\ Len(transfers') = n
          /\ transfers'[n] = record
          /\ \A i \in 1..Len(transfers) : transfers'[i] = transfers[i]
      BY <1>1, <2>1
    <2>3. session'[t].agent = a /\ \A s \in Sessions \ {t} : session'[s].agent = session[s].agent
      <3>1. Owner'[t] = a /\ \A s \in Sessions \ {t} : Owner'[s] = Owner[s]
        BY <1>5 DEF Ownership!Assign, Owner
      <3> QED BY <3>1 DEF Owner
    <2>4. OwnerIsLatest'
      BY <2>1, <2>2, <2>3 DEF StoryOK, OwnerIsLatest, NewestBefore
    <2>5. RecordsChain'
      <3> SUFFICES ASSUME NEW m \in 1..n, transfers'[m].from # NoAgent
                   PROVE  \E i \in 1..n :
                            /\ i < m /\ transfers'[i].session = transfers'[m].session
                            /\ \A j \in 1..n :
                                 j < m /\ transfers'[j].session = transfers'[m].session => j <= i
                            /\ transfers'[i].to = transfers'[m].from
        BY <2>2 DEF RecordsChain, NewestBefore
      <3>1. CASE m = n
        <4>1. holder # NoAgent /\ record.from = holder
          BY <2>1, <2>2, <3>1
        <4>2. PICK i \in 1..Len(transfers) : /\ transfers[i].session = t
                                             /\ \A j \in 1..Len(transfers) :
                                                  transfers[j].session = t => j <= i
                                             /\ transfers[i].to = holder
          BY <2>2, <4>1 DEF StoryOK, OwnerIsLatest, NewestBefore
        <4> QED BY <2>1, <2>2, <3>1, <4>1, <4>2
      <3>2. CASE m # n
        <4>1. m \in 1..Len(transfers)
          BY <2>2, <3>2
        <4> QED BY <2>2, <4>1 DEF StoryOK, RecordsChain, NewestBefore
      <3> QED BY <3>1, <3>2
    <2> QED BY <2>4, <2>5 DEF StoryOK
  <1> QED BY <1>3, <1>4, <1>5 DEF OwnershipStep, Ownership!Next, Owner, Waiting

LEMMA StoryInit == Init => StoryOK
  BY DEF Init, StoryOK, OwnerIsLatest, RecordsChain

\* Whoever has a session has it by its newest transfer record, and whomever a record
\* took it from had it by the record before: no transfer of executeTransfer is missing
\* from the records, and none took a session from an agent who had lost it.
THEOREM RecordsTellTheStory ==
  ASSUME RoutingOnly
  PROVE  Spec => [](OwnerIsLatest /\ RecordsChain)
  <1>1. TypeInv /\ OperationsOK /\ StoryOK /\ [Next]_vars
          => TypeInv' /\ OperationsOK' /\ StoryOK'
    BY TypeStep, OperationsStep, StepsOnTables, RefinementStep, StoryStep
  <1>2. Init => TypeInv /\ OperationsOK /\ StoryOK
    BY TypeInit, OperationsInit, StoryInit
  <1>3. StoryOK => OwnerIsLatest /\ RecordsChain
    BY DEF StoryOK
  <1> QED BY <1>1, <1>2, <1>3, PTL DEF Spec

----------------------------------------------------------------------------
(* Every agent of a session was given it by a recorded transfer *)

\* The configuration: whoever assigns agents records a transfer.
RecordingOnly == Operations \cap {"assign", "assignConv", "transferConv"} = {}

Recorded(s, a) ==
    a = NoAgent \/ \E i \in DOMAIN transfers : /\ transfers[i].session = s
                                               /\ transfers[i].to = a

\* Conversations are written back as they were read, so what a process has read
\* must be on record as well.
RecordedOK ==
    /\ \A s \in Sessions : Recorded(s, session[s].agent)
    /\ \A p \in Procs : Recorded(flow[p].session, flow[p].seen.agent)

\* What process p has read, after a step: as before, nothing, or a session as it
\* is now.
SeenStep(p) ==
    \/ flow'[p].session = flow[p].session /\ flow'[p].seen = flow[p].seen
    \/ flow'[p].seen.agent = NoAgent
    \/ flow'[p].session \in Sessions /\ flow'[p].seen = session[flow'[p].session]

LEMMA MoveSeen ==
  ASSUME NEW p \in Procs, \A q \in Procs \ {p} : flow'[q] = flow[q], SeenStep(p)
  PROVE  \A q \in Procs : SeenStep(q)
  BY DEF SeenStep

LEMMA GotoSeen ==
  ASSUME TypeInv, NEW p \in Procs, NEW step \in Steps, Goto(p, step)
  PROVE  \A q \in Procs : SeenStep(q)
  <1>1. flow[p] \in Flow /\ flow'[p] = At(flow[p], step)
    BY GotoAt DEF TypeInv, TypeOK
  <1>2. CASE step \in {"idle", "done", "next"}
    <2>1. flow'[p].seen.agent = NoAgent
      BY <1>1, <1>2 DEF At, Fresh
    <2> QED BY <2>1, GotoAt, MoveSeen DEF SeenStep
  <1>3. CASE step \notin {"idle", "done", "next"}
    <2>1. flow'[p].session = flow[p].session /\ flow'[p].seen = flow[p].seen
      BY <1>1, <1>3, AtType
    <2> QED BY <2>1, GotoAt, MoveSeen DEF SeenStep
  <1> QED BY <1>2, <1>3

LEMMA EnterTransferSeen ==
  ASSUME TypeInv, NEW p \in Procs, NEW s \in Sessions, NEW seen \in Session,
         NEW a \in Agents, flow' = EnterTransfer(p, s, seen, a),
         (s = flow[p].session /\ seen = flow[p].seen) \/ seen = session[s]
  PROVE  \A q \in Procs : SeenStep(q)
  BY EnterTransferAt, MoveSeen DEF SeenStep

LEMMA SelectSeen ==
  ASSUME TypeInv, NEW p \in Procs, HumanSelect(p) \/ WorkerSelect(p)
  PROVE  \A q \in Procs : SeenStep(q)
  <1>1. flow[p].session \in Sessions /\ flow[p].seen \in Session
    BY DEF TypeInv, TypeOK, Flow
  <1>2. CASE Goto(p, "done") \/ Goto(p, "recheck") \/ Goto(p, "release")
    BY <1>2, GotoSeen DEF Steps
  <1>3. CASE \E a \in Candidates(flow[p].session) :
               flow' = EnterTransfer(p, flow[p].session, flow[p].seen, a)
    <2>1. PICK a \in Agents : flow' = EnterTransfer(p, flow[p].session, flow[p].seen, a)
      BY <1>1, <1>3, HandoffAssumption DEF Candidates
    <2> QED BY <1>1, <2>1, EnterTransferSeen
  <1> QED BY <1>2, <1>3 DEF HumanSelect, WorkerSelect

LEMMA TransferSeen ==
  ASSUME TypeInv, NEW p \in Procs, Transfer(p)
  PROVE  \A q \in Procs : SeenStep(q)
  <1>1. flow \in [Procs -> Flow] /\ flow[p] \in Flow
    BY DEF TypeInv, TypeOK
  <1>2. CASE \E step \in Steps : Goto(p, step)
    BY <1>2, GotoSeen
  <1>3. CASE TransferCommit(p)
    <2>1. /\ flow'[p].session = flow[p].session /\ flow'[p].seen = flow[p].seen
          /\ \A q \in Procs \ {p} : flow'[q] = flow[q]
      BY <1>1, <1>3 DEF TransferCommit, Flow
    <2> QED BY <2>1, MoveSeen DEF SeenStep
  <1>4. CASE ReadTo(p)
    <2>1. /\ flow'[p].session = flow[p].session /\ flow'[p].seen = flow[p].seen
          /\ \A q \in Procs \ {p} : flow'[q] = flow[q]
      BY <1>1, <1>4 DEF ReadTo, Flow
    <2> QED BY <2>1, MoveSeen DEF SeenStep
  <1>5. CASE ReadFrom(p)
    <2>1. CASE Goto(p, "next") \/ Goto(p, "done")
      BY <1>2, <2>1 DEF Steps
    <2>2. CASE ~(Goto(p, "next") \/ Goto(p, "done"))
      <3>1. PICK n : flow' = [flow EXCEPT ![p].load = n, ![p].at = "writeFrom"]
        BY <1>5, <2>2 DEF ReadFrom, AfterTransfer
      <3>2. /\ flow'[p].session = flow[p].session /\ flow'[p].seen = flow[p].seen
            /\ \A q \in Procs \ {p} : flow'[q] = flow[q]
        BY <1>1, <3>1 DEF Flow
      <3> QED BY <3>2, MoveSeen DEF SeenStep
    <2> QED BY <2>1, <2>2
  <1>6. CASE TransferFails(p) \/ ApplyTransfer(p) \/ WriteTo(p) \/ WriteFrom(p)
    BY <1>2, <1>6 DEF TransferFails, ApplyTransfer, WriteTo, WriteFrom, AfterFailure,
                      AfterTransfer, Steps
  <1> QED BY <1>3, <1>4, <1>5, <1>6 DEF Transfer

LEMMA BeginSeen ==
  ASSUME RecordingOnly, TypeInv, NEW c \in Callers, Begin(c)
  PROVE  \A q \in Procs : SeenStep(q)
  <1>1. flow \in [Procs -> Flow] /\ flow[c] \in Flow /\ c \in Procs
    BY DEF TypeInv, TypeOK, Procs
  <1>2. session \in [Sessions -> Session]
    BY DEF TypeInv, TypeOK
  <1>3. ASSUME Goto(c, "done")
        PROVE  \A q \in Procs : SeenStep(q)
    BY <1>1, <1>3, GotoSeen DEF Steps
  <1>4. PICK s \in Sessions :
          \/ HumanLoad(c, s) \/ Cancel(c, s) \/ CancelBegin(c, s)
          \/ Message(c, s) \/ Close(c, s)
          \/ \E a \in Agents : \/ AgentLoad(c, s, a) \/ Assign(c, s, a)
                               \/ ReleaseSession(c, s, a)
                               \/ ConversationAssign(c, s, a)
                               \/ ConversationTransfer(c, s, a)
    BY DEF Begin
  <1>5. ASSUME flow'[c].session = s, flow'[c].seen = session[s],
               \A q \in Procs \ {c} : flow'[q] = flow[q]
        PROVE  \A q \in Procs : SeenStep(q)
    BY <1>1, <1>5, MoveSeen DEF SeenStep
  <1>6. CASE HumanLoad(c, s)
    <2>1. CASE ~Goto(c, "done")
      <3>1. flow' = [flow EXCEPT ![c].session = s, ![c].seen = session[s], ![c].at = "select"]
        BY <1>6, <2>1 DEF HumanLoad
      <3> QED BY <1>1, <1>2, <1>5, <3>1 DEF Flow
    <2> QED BY <1>3, <2>1
  <1>7. CASE Cancel(c, s)
    BY <1>3, <1>7 DEF Cancel
  <1>8. CASE CancelBegin(c, s)
    <2>1. flow'[c].session = s /\ flow'[c].seen = session[s]
          /\ \A q \in Procs \ {c} : flow'[q] = flow[q]
      BY <1>1, <1>8 DEF CancelBegin, Flow
    <2> QED BY <1>5, <2>1
  <1>9. CASE Message(c, s) \/ Close(c, s)
    <2>1. PICK step : ReadConversation(c, s, NoAgent, step)
      BY <1>9 DEF Message, Close
    <2>2. flow'[c].session = s /\ flow'[c].seen = session[s]
          /\ \A q \in Procs \ {c} : flow'[q] = flow[q]
      BY <1>1, <2>1 DEF ReadConversation, Flow
    <2> QED BY <1>5, <2>2
  <1>10. ASSUME NEW a \in Agents, AgentLoad(c, s, a)
         PROVE  \A q \in Procs : SeenStep(q)
    <2>1. CASE flow' = EnterTransfer(c, s, session[s], a)
      BY <1>1, <1>2, <2>1, EnterTransferSeen
    <2> QED BY <1>3, <1>10, <2>1 DEF AgentLoad
  <1>11. ASSUME NEW a \in Agents, ReleaseSession(c, s, a)
         PROVE  \A q \in Procs : SeenStep(q)
    <2>1. CASE ~Goto(c, "done")
      <3>1. flow' = [flow EXCEPT ![c].target = a, ![c].at = "released"]
        BY <1>11, <2>1 DEF ReleaseSession
      <3>2. /\ flow'[c].session = flow[c].session /\ flow'[c].seen = flow[c].seen
            /\ \A q \in Procs \ {c} : flow'[q] = flow[q]
        BY <1>1, <3>1 DEF Flow
      <3> QED BY <1>1, <3>2, MoveSeen DEF SeenStep
    <2> QED BY <1>3, <2>1
  <1>12. ~\E a \in Agents : \/ Assign(c, s, a) \/ ConversationAssign(c, s, a)
                            \/ ConversationTransfer(c, s, a)
    BY DEF RecordingOnly, Assign, ConversationAssign, ConversationTransfer, Begins
  <1> QED BY <1>4, <1>6, <1>7, <1>8, <1>9, <1>10, <1>11, <1>12

LEMMA ContinueSeen ==
  ASSUME TypeInv, NEW c \in Callers, Continue(c)
  PROVE  \A q \in Procs : SeenStep(q)
  <1>1. flow \in [Procs -> Flow] /\ flow[c] \in Flow /\ c \in Procs
    BY DEF TypeInv, TypeOK, Procs
  <1>2. CASE \E step \in Steps : Goto(c, step)
    BY <1>1, <1>2, GotoSeen
  <1>3. CASE \/ EnqueueRecheck(c) \/ Enqueue(c) \/ CancelCommit(c) \/ ConversationWrite(c)
             \/ IngestWrite(c) \/ AssignRow(c) \/ WriteLoad(c)
    <2>1. \/ Goto(c, "done") \/ Goto(c, "enqueue") \/ Goto(c, "writeLoad")
          \/ Goto(c, "ingest")
      BY <1>3 DEF EnqueueRecheck, Enqueue, CancelCommit, ConversationWrite, IngestWrite,
                  AssignRow, WriteLoad
    <2> QED BY <1>2, <2>1 DEF Steps
  <1>4. CASE IngestRead(c)
    <2>1. /\ flow'[c].session = flow[c].session
          /\ flow'[c].seen = session[flow[c].session]
          /\ \A q \in Procs \ {c} : flow'[q] = flow[q]
      BY <1>1, <1>4 DEF IngestRead, ReadConversation, Flow
    <2>2. flow[c].session \in Sessions
      BY <1>1 DEF Flow
    <2> QED BY <1>1, <2>1, <2>2, MoveSeen DEF SeenStep
  <1>5. CASE AssignRegister(c)
    <2>1. /\ flow'[c].session = flow[c].session /\ flow'[c].seen = flow[c].seen
          /\ \A q \in Procs \ {c} : flow'[q] = flow[q]
      BY <1>1, <1>5 DEF AssignRegister, Flow
    <2> QED BY <1>1, <2>1, MoveSeen DEF SeenStep
  <1>6. CASE ReleaseRegister(c)
    <2>1. CASE Goto(c, "done")
      BY <1>2, <2>1 DEF Steps
    <2>2. CASE ~Goto(c, "done")
      <3>1. /\ flow'[c].session = flow[c].session /\ flow'[c].seen = flow[c].seen
            /\ \A q \in Procs \ {c} : flow'[q] = flow[q]
        BY <1>1, <1>6, <2>2 DEF ReleaseRegister, Flow
      <3> QED BY <1>1, <3>1, MoveSeen DEF SeenStep
    <2> QED BY <2>1, <2>2
  <1> QED BY <1>1, <1>3, <1>4, <1>5, <1>6, SelectSeen, TransferSeen DEF Continue

LEMMA RoundSeen ==
  ASSUME TypeInv, NEW w \in Workers, Round(w)
  PROVE  \A q \in Procs : SeenStep(q)
  <1>1. flow \in [Procs -> Flow] /\ flow[w] \in Flow /\ w \in Procs
    BY DEF TypeInv, TypeOK, Procs
  <1>2. CASE Claim(w) \/ ClaimRead(w)
    <2>1. /\ flow'[w].session = flow[w].session /\ flow'[w].seen = flow[w].seen
          /\ \A q \in Procs \ {w} : flow'[q] = flow[q]
      BY <1>1, <1>2 DEF Claim, ClaimRead, Flow
    <2> QED BY <1>1, <2>1, MoveSeen DEF SeenStep
  <1>3. CASE ClaimWrite(w) \/ Release(w)
    BY <1>1, <1>3, GotoSeen DEF ClaimWrite, Release, Steps
  <1>4. CASE WorkerLoad(w)
    <2>1. CASE flow[w].rows = {}
      BY <1>1, <1>4, <2>1, GotoSeen DEF WorkerLoad, Steps
    <2>2. CASE flow[w].rows # {}
      <3>1. PICK r \in flow[w].rows :
              flow' = [flow EXCEPT ![w].at = "select", ![w].row = r,
                                   ![w].session = queue[r].session,
                                   ![w].seen = session[queue[r].session]]
        BY <1>4, <2>2 DEF WorkerLoad
      <3>2. queue[r].session \in Sessions
        <4>1. queue \in Seq(QueueEntry) /\ r \in DOMAIN queue
          BY <1>1 DEF TypeInv, TypeOK, LocalsOK
        <4>2. queue[r] \in QueueEntry
          BY <4>1
        <4> QED BY <4>2 DEF QueueEntry
      <3>3. /\ flow'[w].session = queue[r].session
            /\ flow'[w].seen = session[queue[r].session]
            /\ \A q \in Procs \ {w} : flow'[q] = flow[q]
        BY <1>1, <3>1 DEF Flow
      <3> QED BY <1>1, <3>2, <3>3, MoveSeen DEF SeenStep
    <2> QED BY <2>1, <2>2
  <1> QED BY <1>1, <1>2, <1>3, <1>4, SelectSeen, TransferSeen DEF Round

LEMMA SeenSteps ==
  ASSUME RecordingOnly, TypeInv, [Next]_vars
  PROVE  \A p \in Procs : SeenStep(p)
  <1>1. CASE \/ UNCHANGED vars \/ Rested \/ \E r \in DOMAIN queue : LeaseExpires(r)
             \/ \E a \in Agents : Presence(a)
    <2>1. flow' = flow
      BY <1>1 DEF vars, Rested, LeaseExpires, Presence, GoOnlineRead, GoOnline, GoOffline,
                  MarkBusy
    <2> QED BY <2>1 DEF SeenStep
  <1>2. CASE Crash
    <2>1. \A p \in Procs : flow'[p] \in {Fresh, [Fresh EXCEPT !.at = "done"]}
      BY <1>2 DEF Crash, Procs
    <2>2. Fresh.seen.agent = NoAgent /\ [Fresh EXCEPT !.at = "done"].seen = Fresh.seen
      BY DEF Fresh
    <2> QED BY <2>1, <2>2 DEF SeenStep
  <1> QED BY <1>1, <1>2, BeginSeen, ContinueSeen, RoundSeen DEF Next

\* What is on record stays on record.
LEMMA RecordsStay ==
  ASSUME TypeInv, TableSteps, NEW s, NEW a, Recorded(s, a)
  PROVE  Recorded(s, a)'
  <1>1. CASE UNCHANGED transfers
    BY <1>1 DEF Recorded
  <1>2. ASSUME NEW p \in Procs, TransferCommit(p)
        PROVE  Recorded(s, a)'
    <2>1. PICK record : transfers' = Append(transfers, record)
      BY <1>2 DEF TransferCommit
    <2>2. transfers \in Seq(TransferRecord)
      BY DEF TypeInv, TypeOK
    <2>3. \A i \in DOMAIN transfers : i \in DOMAIN transfers' /\ transfers'[i] = transfers[i]
      BY <2>1, <2>2
    <2> QED BY <2>3 DEF Recorded
  <1> QED BY <1>1, <1>2 DEF TableSteps, Enqueue, CancelCommit, ConversationWrite, IngestWrite,
        AssignRow, Claim, ClaimWrite, Release, Cancel, ReleaseSession, LeaseExpires

\* Writing a conversation back as it was read.
LEMMA WriteRecorded ==
  ASSUME TypeInv, RecordedOK, NEW t \in Sessions, NEW status, NEW a, NEW ended,
         \/ a = session[t].agent
         \/ \E p \in Procs : flow[p].session = t /\ flow[p].seen.agent = a,
         session' = [session EXCEPT ![t] = Overwrite(@, status, a, ended)]
  PROVE  \A s \in Sessions : Recorded(s, session'[s].agent)
  <1>1. session \in [Sessions -> Session]
    BY DEF TypeInv, TypeOK
  <1>2. Recorded(t, a)
    BY DEF RecordedOK
  <1>3. session'[t].agent \in {a, session[t].agent}
    BY <1>1 DEF Overwrite
  <1>4. \A s \in Sessions \ {t} : session'[s] = session[s]
    BY <1>1
  <1> QED BY <1>2, <1>3, <1>4 DEF RecordedOK

LEMMA RecordedStep ==
  ASSUME RecordingOnly, TypeInv, OperationsOK, RecordedOK, [Next]_vars
  PROVE  RecordedOK'
  <1>1. TableSteps
    BY StepsOnTables
  <1>2. session \in [Sessions -> Session] /\ flow \in [Procs -> Flow]
        /\ transfers \in Seq(TransferRecord)
    BY DEF TypeInv, TypeOK
  <1>3. ASSUME NEW p \in Procs
        PROVE  Recorded(flow[p].session, flow[p].seen.agent)'
    <2>1. SeenStep(p)
      BY SeenSteps
    <2>2. Recorded(flow'[p].session, flow'[p].seen.agent)
      BY <2>1 DEF SeenStep, RecordedOK, Recorded
    <2>3. PICK s, a : s = flow'[p].session /\ a = flow'[p].seen.agent
      OBVIOUS
    <2>4. Recorded(s, a)'
      BY <1>1, <2>2, <2>3, RecordsStay
    <2> QED BY <2>3, <2>4 DEF Recorded
  <1>4. ASSUME \A s \in Sessions : Recorded(s, session'[s].agent)
        PROVE  \A s \in Sessions : Recorded(s, session[s].agent)'
    <2> SUFFICES ASSUME NEW s \in Sessions
                 PROVE  Recorded(s, session[s].agent)'
      OBVIOUS
    <2>1. PICK a : a = session'[s].agent
      OBVIOUS
    <2>2. Recorded(s, a)'
      BY <1>1, <1>4, <2>1, RecordsStay
    <2> QED BY <2>1, <2>2 DEF Recorded
  <1>5. ASSUME UNCHANGED session
        PROVE  \A s \in Sessions : Recorded(s, session[s].agent)'
    BY <1>4, <1>5 DEF RecordedOK
  <1>6. ASSUME NEW p \in Procs, TransferCommit(p)
        PROVE  \A s \in Sessions : Recorded(s, session[s].agent)'
    <2>1. PICK t \in Sessions, a \in Agents : t = flow[p].session /\ a = flow[p].target
      BY <1>2, <1>6 DEF TransferCommit, TypeInv, LocalsOK, GoodLocals, TargetSteps, Flow
    <2>2. session'[t].agent = a
      BY <1>2, <1>6, <2>1, HandoffAssumption DEF TransferCommit, Overwrite
    <2>3. PICK record : /\ record.session = t /\ record.to = a
                        /\ transfers' = Append(transfers, record)
      BY <1>6, <2>1 DEF TransferCommit
    <2>4. Len(transfers) + 1 \in DOMAIN transfers' /\ transfers'[Len(transfers) + 1] = record
      BY <1>2, <2>3
    <2>5. Recorded(t, session[t].agent)'
      BY <2>2, <2>3, <2>4 DEF Recorded
    <2>6. ASSUME NEW s \in Sessions, s # t
          PROVE  Recorded(s, session[s].agent)'
      <3>1. session'[s] = session[s]
        BY <1>2, <1>6, <2>1, <2>6 DEF TransferCommit
      <3>2. PICK b : b = session[s].agent
        OBVIOUS
      <3>3. Recorded(s, b)'
        BY <1>1, <3>2, RecordsStay DEF RecordedOK
      <3> QED BY <3>1, <3>2, <3>3 DEF Recorded
    <2> QED BY <2>5, <2>6
  <1>7. ASSUME NEW p \in Procs, Enqueue(p)
        PROVE  \A s \in Sessions : Recorded(s, session'[s].agent)
    <2>1. \A s \in Sessions : session'[s].agent \in {NoAgent, session[s].agent}
      BY <1>2, <1>7 DEF Enqueue, Unassigned, Session
    <2> QED BY <2>1 DEF RecordedOK, Recorded
  <1>8. ASSUME NEW p \in Procs,
               CancelCommit(p) \/ ConversationWrite(p) \/ IngestWrite(p)
        PROVE  \A s \in Sessions : Recorded(s, session'[s].agent)
    <2>1. flow[p].at \notin {"assigning", "transferring"}
      BY DEF OperationsOK, Allowed, RecordingOnly
    <2>2. flow[p].session \in Sessions
      BY <1>2 DEF Flow
    <2>3. PICK status, ended :
            session' = [session EXCEPT ![flow[p].session] =
                           Overwrite(@, status, flow[p].seen.agent, ended)]
      BY <1>8, <2>1 DEF CancelCommit, Cancelled, ConversationWrite, IngestWrite, WriteBack
    <2> QED BY <2>2, <2>3, WriteRecorded
  <1>9. ASSUME NEW p \in Procs
        PROVE  ~AssignRow(p)
    BY DEF AssignRow, OperationsOK, Allowed, RecordingOnly
  <1>10. ASSUME NEW c \in Callers, NEW s \in Sessions, Cancel(c, s)
         PROVE  \A u \in Sessions : Recorded(u, session'[u].agent)
    BY <1>10, WriteRecorded DEF Cancel, Cancelled
  <1>11. ASSUME NEW c \in Callers, NEW s \in Sessions, NEW a \in Agents, ReleaseSession(c, s, a)
         PROVE  \A u \in Sessions : Recorded(u, session'[u].agent)
    BY <1>11, ReleaseKeepsAgents DEF RecordedOK
  <1>12. \A s \in Sessions : Recorded(s, session[s].agent)'
    BY <1>1, <1>4, <1>5, <1>6, <1>7, <1>8, <1>9, <1>10, <1>11
       DEF TableSteps, Claim, ClaimWrite, Release, LeaseExpires
  <1> QED BY <1>3, <1>12 DEF RecordedOK

LEMMA RecordedInit == Init => RecordedOK
  BY DEF Init, RecordedOK, Recorded, Fresh

\* When requests, transfers, cancellations, messages, closures and releases are
\* all that runs, on either database, whoever holds a session was given it by a
\* committed transfer, and a write-back of a stale read never names another agent.
THEOREM AssignmentsAreOnRecord ==
  ASSUME RecordingOnly
  PROVE  Spec => []AssignmentsAreRecorded
  <1>1. TypeInv /\ OperationsOK /\ RecordedOK /\ [Next]_vars
          => TypeInv' /\ OperationsOK' /\ RecordedOK'
    BY TypeStep, OperationsStep, RecordedStep
  <1>2. Init => TypeInv /\ OperationsOK /\ RecordedOK
    BY TypeInit, OperationsInit, RecordedInit
  <1>3. RecordedOK => AssignmentsAreRecorded
    BY DEF RecordedOK, Recorded, AssignmentsAreRecorded
  <1> QED BY <1>1, <1>2, <1>3, PTL DEF Spec

=============================================================================
