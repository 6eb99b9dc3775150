--------------------------- MODULE RealtimeHubProofs ---------------------------
(***************************************************************************)
(* Proofs about RealtimeHub, for any number of connections and questions    *)
(* and channels of any capacity.                                           *)
(***************************************************************************)
EXTENDS RealtimeHub, SequenceTheorems, TLAPS

ReaderAt == {"none", "registering", "reading", "echo", "answer", "leaving", "closing", "done"}
AnswerAt == {"none", "look", "transfer", "stream", "end", "break", "query", "give", "done"}

PumpsOK ==
    /\ conn \in [Clients -> {"none", "open", "closed"}]
    /\ reader \in [Clients -> ReaderAt] /\ writer \in [Clients -> BOOLEAN]
    /\ \A c \in Clients : conn[c] = "none" => reader[c] = "none"
AnswersOK == answer \in [Questions -> [pc : AnswerAt, deltas : 0..MaxDeltas]]
CountsOK == said \in Nat /\ extras \in 0..MaxExtras

\* No channel holds more than its capacity.
QueuesOK ==
    /\ queue \in [Clients -> Seq(Nat)]
    /\ \A c \in Clients : Len(queue[c]) <= Buffer

\* Only listed clients are sent to, and their channels are open: a channel is closed
\* in the step that takes its client off the list, and one that is not listed yet has
\* never been closed.
ChannelsOK ==
    /\ clients \subseteq Clients /\ hub \in clients \cup {NoClient}
    /\ open \in [Clients -> BOOLEAN] /\ \A c \in clients : open[c]
    /\ \A c \in Clients : reader[c] \in {"none", "registering"} => open[c] /\ c \notin clients
    /\ crashed \in {"nobody", "reader"}

HubInv == PumpsOK /\ AnswersOK /\ CountsOK /\ QueuesOK /\ ChannelsOK

LEMMA InitEstablishes == Init => HubInv
<1> SUFFICES ASSUME Init PROVE HubInv
  OBVIOUS
<1>1. PumpsOK /\ CountsOK
  BY HubAssumption, SMT DEF Init, PumpsOK, ReaderAt, CountsOK
<1>2. AnswersOK
  BY HubAssumption, SMT DEF Init, AnswersOK, AnswerAt, Answering
<1>3. QueuesOK
  <2>1. <<>> \in Seq(Nat) /\ Len(<<>>) = 0
    BY EmptySeq
  <2> QED BY <2>1, HubAssumption, SMT DEF Init, QueuesOK
<1>4. ChannelsOK
  BY SMT DEF Init, ChannelsOK
<1> QED BY <1>1, <1>2, <1>3, <1>4 DEF HubInv

----------------------------------------------------------------------------
(* The sends and the broadcast *)

\* A channel with room takes one more frame.
LEMMA RoomForOne ==
    ASSUME NEW s \in Seq(Nat), NEW frame \in Nat, Len(s) < Buffer
    PROVE  Append(s, frame) \in Seq(Nat) /\ Len(Append(s, frame)) <= Buffer
<1>1. Append(s, frame) \in Seq(Nat) /\ Len(Append(s, frame)) = Len(s) + 1
  BY AppendProperties
<1> QED BY <1>1, HubAssumption, LenProperties, SMT

\* A send that does not wait overfills no channel, and one to an open channel is safe.
LEMMA TrySendKeeps ==
    ASSUME HubInv, NEW c \in Clients, TrySend(c, Direct)
    PROVE  QueuesOK' /\ (open[c] => crashed' = crashed)
<1>1. QueuesOK'
  <2>1. CASE open[c] /\ Len(queue[c]) < Buffer
    <3>1. queue[c] \in Seq(Nat) /\ Direct \in Nat
      BY DEF HubInv, QueuesOK, Direct
    <3>2. Append(queue[c], Direct) \in Seq(Nat) /\ Len(Append(queue[c], Direct)) <= Buffer
      BY <2>1, <3>1, RoomForOne
    <3> DEFINE s == Append(queue[c], Direct)
    <3>3. queue' = [queue EXCEPT ![c] = s]
      BY <2>1 DEF TrySend
    <3>4. s \in Seq(Nat) /\ Len(s) <= Buffer
      BY <3>2
    <3> HIDE DEF s
    <3> QED BY <3>3, <3>4, SMT DEF HubInv, QueuesOK
  <2>2. CASE ~(open[c] /\ Len(queue[c]) < Buffer)
    BY <2>2 DEF TrySend, HubInv, QueuesOK
  <2> QED BY <2>1, <2>2
<1> QED BY <1>1 DEF TrySend

\* A broadcast throws out whoever has no room, in one step off the list and out of
\* its channel; everybody else has room.
LEMMA BroadcastKeeps ==
    ASSUME HubInv, Broadcast, UNCHANGED hub, UNCHANGED <<conn, writer>>,
           \/ UNCHANGED reader
           \/ \E c \in Clients : reader[c] = "echo" /\ reader' = [reader EXCEPT ![c] = "reading"]
    PROVE  PumpsOK' /\ QueuesOK' /\ ChannelsOK' /\ said' \in Nat
<1>1. said' \in Nat /\ said + 1 \in Nat
  BY SMT DEF HubInv, CountsOK, Broadcast
<1>2. PumpsOK'
  BY SMT DEF HubInv, PumpsOK, ReaderAt
<1>3. QueuesOK'
  <2> DEFINE n == said + 1
             q(c) == IF c \in clients \ Slow THEN Append(queue[c], n) ELSE queue[c]
  <2>1. queue' = [c \in Clients |-> q(c)]
    BY DEF Broadcast
  <2>2. \A c \in Clients : q(c) \in Seq(Nat) /\ Len(q(c)) <= Buffer
    <3> SUFFICES ASSUME NEW c \in Clients PROVE q(c) \in Seq(Nat) /\ Len(q(c)) <= Buffer
      OBVIOUS
    <3>1. queue[c] \in Seq(Nat) /\ Len(queue[c]) <= Buffer
      BY DEF HubInv, QueuesOK
    <3>2. CASE c \in clients \ Slow
      <4>1. Len(queue[c]) # Buffer
        BY <3>2 DEF Slow
      <4>2. Len(queue[c]) < Buffer
        BY <3>1, <4>1, HubAssumption, LenProperties, SMT
      <4> QED BY <1>1, <3>1, <3>2, <4>2, RoomForOne
    <3>3. CASE c \notin clients \ Slow
      BY <3>1, <3>3
    <3> QED BY <3>2, <3>3
  <2> HIDE DEF q
  <2> QED BY <2>1, <2>2, SMT DEF QueuesOK
<1>4. ChannelsOK'
  <2>1. hub = NoClient /\ clients' = clients \ Slow /\ crashed' = crashed
    BY DEF HubInv, ChannelsOK, Broadcast
  <2>2. \A c \in Clients : open'[c] = (open[c] /\ c \notin Slow)
    BY DEF Broadcast
  <2>3. open' \in [Clients -> BOOLEAN]
    BY Zenon DEF Broadcast
  <2>4. \A c \in clients' : open'[c]
    BY <2>1, <2>2 DEF HubInv, ChannelsOK
  <2>5. \A c \in Clients :
          reader'[c] \in {"none", "registering"} => open'[c] /\ c \notin clients'
    <3>1. \A c \in Clients : reader'[c] \in {"none", "registering"} => reader'[c] = reader[c]
      BY DEF HubInv, PumpsOK
    <3>2. Slow \subseteq clients
      BY DEF Slow
    <3> QED BY <2>1, <2>2, <3>1, <3>2 DEF HubInv, ChannelsOK
  <2> QED BY <2>1, <2>3, <2>4, <2>5 DEF HubInv, ChannelsOK
<1> QED BY <1>1, <1>2, <1>3, <1>4
----------------------------------------------------------------------------
(* The steps *)

LEMMA RegisterKeeps ==
    ASSUME HubInv, NEW c \in Clients, Register(c) PROVE HubInv'
<1>1. PumpsOK'
  BY SMT DEF HubInv, PumpsOK, ReaderAt, Register
<1>2. AnswersOK' /\ CountsOK' /\ QueuesOK'
  BY DEF HubInv, AnswersOK, CountsOK, QueuesOK, Register, channels
<1>3. ChannelsOK'
  BY HubAssumption, SMT DEF HubInv, PumpsOK, ReaderAt, ChannelsOK, Register, channels
<1> QED BY <1>1, <1>2, <1>3 DEF HubInv

LEMMA SendICEConfigKeeps ==
    ASSUME HubInv, SendICEConfig PROVE HubInv'
<1>1. hub \in Clients /\ open[hub]
  BY DEF HubInv, ChannelsOK, SendICEConfig
<1>2. QueuesOK' /\ crashed' = crashed
  BY <1>1, TrySendKeeps DEF SendICEConfig, HubInv, QueuesOK
<1> QED BY <1>2 DEF HubInv, PumpsOK, AnswersOK, CountsOK, ChannelsOK, SendICEConfig, pumps, history

LEMMA UnregisterKeeps ==
    ASSUME HubInv, NEW c \in Clients, Unregister(c) PROVE HubInv'
<1>1. PumpsOK'
  BY SMT DEF HubInv, PumpsOK, ReaderAt, Unregister
<1>2. AnswersOK' /\ CountsOK' /\ QueuesOK'
  BY DEF HubInv, AnswersOK, CountsOK, QueuesOK, Unregister, history
<1>3. ChannelsOK'
  <2>1. CASE c \in clients
    <3>1. open[c] /\ crashed' = crashed /\ clients' = clients \ {c} /\ hub' = NoClient
      BY <2>1 DEF HubInv, ChannelsOK, Unregister
    <3>2. open' \in [Clients -> BOOLEAN]
      BY <2>1, Zenon DEF HubInv, ChannelsOK, Unregister
    <3>3. \A d \in Clients \ {c} : open'[d] = open[d] /\ reader'[d] = reader[d]
      BY <2>1, Zenon DEF HubInv, PumpsOK, ChannelsOK, Unregister
    <3>4. reader'[c] = "closing"
      BY DEF HubInv, PumpsOK, Unregister
    <3> QED BY <3>1, <3>2, <3>3, <3>4 DEF HubInv, ChannelsOK
  <2>2. CASE c \notin clients
    BY <2>2, SMT DEF HubInv, PumpsOK, ReaderAt, ChannelsOK, Unregister
  <2> QED BY <2>1, <2>2
<1> QED BY <1>1, <1>2, <1>3 DEF HubInv

LEMMA SendToClientKeeps ==
    ASSUME HubInv, NEW c \in Clients, SendToClient(c) PROVE HubInv'
<1>1. QueuesOK' /\ crashed' = crashed
  BY TrySendKeeps DEF SendToClient, HubInv, ChannelsOK
<1>2. CountsOK'
  BY HubAssumption, SMT DEF SendToClient, Extra, HubInv, CountsOK
<1> QED BY <1>1, <1>2 DEF HubInv, PumpsOK, AnswersOK, ChannelsOK, SendToClient, pumps

LEMMA SendToSessionKeeps ==
    ASSUME HubInv, SendToSession PROVE HubInv'
<1>1. PumpsOK' /\ QueuesOK' /\ ChannelsOK' /\ said' \in Nat
  BY BroadcastKeeps DEF SendToSession, pumps
<1>2. extras' \in 0..MaxExtras
  BY HubAssumption, SMT DEF SendToSession, Extra, HubInv, CountsOK
<1> QED BY <1>1, <1>2 DEF HubInv, AnswersOK, CountsOK, SendToSession

LEMMA EchoKeeps ==
    ASSUME HubInv, NEW c \in Clients, Echo(c) PROVE HubInv'
<1>1. PumpsOK' /\ QueuesOK' /\ ChannelsOK' /\ said' \in Nat
  BY BroadcastKeeps DEF Echo
<1> QED BY <1>1 DEF HubInv, AnswersOK, CountsOK, Echo

\* What a pump does without the hub: a step of a reader that stays started, of a
\* writer, or of the connection.
LEMMA PumpKeeps ==
    ASSUME HubInv, UNCHANGED <<clients, hub, open, crashed, said>>, PumpsOK', AnswersOK',
           QueuesOK', extras' \in 0..MaxExtras,
           \A c \in Clients : reader'[c] \in {"none", "registering"} => reader[c] \in {"none", "registering"}
    PROVE  HubInv'
BY DEF HubInv, CountsOK, ChannelsOK

LEMMA ConnectionKeeps ==
    ASSUME HubInv, NEW c \in Clients, Connect(c) \/ PeerLeaves(c) \/ ReadFails(c) \/ CloseByReader(c)
    PROVE  HubInv'
<1>1. UNCHANGED <<clients, hub, open, crashed, said>> /\ UNCHANGED <<queue, answer, extras>>
  BY DEF Connect, PeerLeaves, ReadFails, CloseByReader, channels, history
<1>2. AnswersOK' /\ QueuesOK' /\ extras' \in 0..MaxExtras
  BY <1>1 DEF HubInv, AnswersOK, QueuesOK, CountsOK
<1>3. PumpsOK'
  BY SMT DEF HubInv, PumpsOK, ReaderAt, Connect, PeerLeaves, ReadFails, CloseByReader
<1>4. CASE Connect(c)
  <2>1. reader' = [reader EXCEPT ![c] = "registering"] /\ conn[c] = "none"
    BY <1>4 DEF Connect
  <2>2. reader[c] = "none"
    BY <2>1 DEF HubInv, PumpsOK
  <2> QED BY <1>1, <1>2, <1>3, <2>1, <2>2, PumpKeeps DEF HubInv, PumpsOK
<1>5. CASE PeerLeaves(c) \/ ReadFails(c) \/ CloseByReader(c)
  <2>1. \A d \in Clients : reader'[d] \in {"none", "registering"} => reader[d] \in {"none", "registering"}
    BY <1>5, SMT DEF HubInv, PumpsOK, PeerLeaves, ReadFails, CloseByReader
  <2> QED BY <1>1, <1>2, <1>3, <2>1, PumpKeeps
<1> QED BY <1>4, <1>5

LEMMA ReadKeeps ==
    ASSUME HubInv, NEW c \in Clients, ReadOffer(c) \/ \E q \in Questions : ReadText(c, q)
    PROVE  HubInv'
<1>1. CASE ReadOffer(c)
  <2>1. extras' \in 0..MaxExtras
    BY <1>1, HubAssumption, SMT DEF ReadOffer, Extra, HubInv, CountsOK
  <2>2. PumpsOK'
    BY <1>1, SMT DEF ReadOffer, HubInv, PumpsOK, ReaderAt
  <2>3. \A d \in Clients : reader'[d] \in {"none", "registering"} => reader[d] \in {"none", "registering"}
    BY <1>1, SMT DEF ReadOffer, HubInv, PumpsOK
  <2>4. UNCHANGED <<clients, hub, open, crashed, said>> /\ UNCHANGED answer /\ UNCHANGED queue
    BY <1>1 DEF ReadOffer, channels
  <2>5. AnswersOK' /\ QueuesOK'
    BY <2>4 DEF HubInv, AnswersOK, QueuesOK
  <2> QED BY <2>1, <2>2, <2>3, <2>4, <2>5, PumpKeeps
<1>2. ASSUME NEW q \in Questions, ReadText(c, q) PROVE HubInv'
  <2>1. extras' \in 0..MaxExtras
    BY <1>2 DEF ReadText, history, HubInv, CountsOK
  <2>2. PumpsOK'
    BY <1>2, SMT DEF ReadText, HubInv, PumpsOK, ReaderAt
  <2>3. \A d \in Clients : reader'[d] \in {"none", "registering"} => reader[d] \in {"none", "registering"}
    BY <1>2, SMT DEF ReadText, HubInv, PumpsOK
  <2>4. UNCHANGED <<clients, hub, open, crashed, said>> /\ UNCHANGED queue
    BY <1>2 DEF ReadText, channels, history
  <2>5. QueuesOK'
    BY <2>4 DEF HubInv, QueuesOK
  <2>6. AnswersOK'
    BY <1>2, HubAssumption, SMT DEF ReadText, HubInv, AnswersOK, AnswerAt, Answering
  <2> QED BY <2>1, <2>2, <2>3, <2>4, <2>5, <2>6, PumpKeeps
<1> QED BY <1>1, <1>2

\* A panic of the reader changes nothing else.
LEMMA SendAnswerKeeps ==
    ASSUME HubInv, NEW c \in Clients, SendAnswer(c) PROVE HubInv'
<1>1. CASE /\ Len(queue[c]) < Buffer /\ queue' = [queue EXCEPT ![c] = Append(queue[c], Direct)]
           /\ reader' = [reader EXCEPT ![c] = "reading"] /\ UNCHANGED crashed
  <2> DEFINE s == Append(queue[c], Direct)
  <2>1. s \in Seq(Nat) /\ Len(s) <= Buffer
    <3>1. queue[c] \in Seq(Nat) /\ Direct \in Nat
      BY DEF HubInv, QueuesOK, Direct
    <3> QED BY <1>1, <3>1, RoomForOne
  <2>2. queue' = [queue EXCEPT ![c] = s]
    BY <1>1
  <2> HIDE DEF s
  <2>3. QueuesOK'
    BY <2>1, <2>2, SMT DEF HubInv, QueuesOK
  <2>4. PumpsOK'
    BY <1>1, SMT DEF HubInv, PumpsOK, ReaderAt, SendAnswer
  <2>5. \A d \in Clients : reader'[d] \in {"none", "registering"} => reader[d] \in {"none", "registering"}
    BY <1>1, SMT DEF HubInv, PumpsOK
  <2>6. UNCHANGED <<clients, hub, open, crashed, said>> /\ AnswersOK' /\ extras' \in 0..MaxExtras
    BY <1>1 DEF SendAnswer, history, HubInv, AnswersOK, CountsOK
  <2> QED BY <2>3, <2>4, <2>5, <2>6, PumpKeeps
<1>2. CASE crashed' = "reader" /\ UNCHANGED <<queue, reader>>
  BY <1>2 DEF SendAnswer, HubInv, PumpsOK, AnswersOK, CountsOK, QueuesOK, ChannelsOK, history
<1> QED BY <1>1, <1>2 DEF SendAnswer

LEMMA WriterKeeps ==
    ASSUME HubInv, NEW c \in Clients, Write(c) \/ WriteFails(c) \/ SeesClose(c)
    PROVE  HubInv'
<1>1. UNCHANGED <<clients, hub, open, reader, answer, crashed, said, extras>>
  BY DEF Write, WriteFails, SeesClose, pumps, channels, history
<1>2. PumpsOK'
  <2>1. CASE Write(c)
    BY <2>1 DEF HubInv, PumpsOK, Write, pumps
  <2>2. CASE WriteFails(c) \/ SeesClose(c)
    <3>1. /\ writer' = [writer EXCEPT ![c] = FALSE] /\ conn' = [conn EXCEPT ![c] = "closed"]
          /\ UNCHANGED reader
      BY <2>2 DEF WriteFails, SeesClose
    <3>2. writer' \in [Clients -> BOOLEAN]
      BY <3>1, Zenon DEF HubInv, PumpsOK
    <3> QED BY <3>1, <3>2, SMT DEF HubInv, PumpsOK
  <2> QED BY <2>1, <2>2
<1>3. QueuesOK'
  <2>1. CASE queue[c] # <<>> /\ queue' = [queue EXCEPT ![c] = Tail(queue[c])]
    <3> DEFINE s == Tail(queue[c])
    <3>1. queue[c] \in Seq(Nat) /\ Len(queue[c]) <= Buffer
      BY DEF HubInv, QueuesOK
    <3>2. s \in Seq(Nat) /\ Len(s) = Len(queue[c]) - 1
      BY <2>1, <3>1, HeadTailProperties
    <3>3. Len(s) <= Buffer
      BY <3>1, <3>2, HubAssumption, LenProperties, SMT
    <3>4. queue' = [queue EXCEPT ![c] = s]
      BY <2>1
    <3> HIDE DEF s
    <3> QED BY <3>2, <3>3, <3>4, SMT DEF HubInv, QueuesOK
  <2>2. CASE UNCHANGED queue
    BY <2>2 DEF HubInv, QueuesOK
  <2> QED BY <2>1, <2>2 DEF Write, WriteFails, SeesClose, channels
<1>4. AnswersOK' /\ extras' \in 0..MaxExtras
  BY <1>1 DEF HubInv, AnswersOK, CountsOK
<1>5. UNCHANGED <<clients, hub, open, crashed, said>>
  BY <1>1
<1>6. \A d \in Clients : reader'[d] \in {"none", "registering"} => reader[d] \in {"none", "registering"}
  BY <1>1
<1> QED BY <1>2, <1>3, <1>4, <1>5, <1>6, PumpKeeps

\* An answer moves on, in silence or with a broadcast.
LEMMA TurnKeeps ==
    ASSUME HubInv, NEW q \in Questions, NEW pc \in AnswerAt, Turn(q, pc) PROVE AnswersOK'
BY HubAssumption, SMT DEF HubInv, AnswersOK, AnswerAt, Turn, Answering

LEMMA AnswerKeeps ==
    ASSUME HubInv, NEW q \in Questions, Answer(q) PROVE HubInv'
<1>1. CASE ProcessMessageWithAI(q) \/ TransferToHuman(q) \/ StreamEnds(q) \/ ProcessQuery(q)
  <2>1. AnswersOK'
    BY <1>1, TurnKeeps DEF ProcessMessageWithAI, TransferToHuman, StreamEnds, ProcessQuery, AnswerAt
  <2>2. Quiet
    BY <1>1 DEF ProcessMessageWithAI, TransferToHuman, StreamEnds, ProcessQuery
  <2> QED
    BY <2>1, <2>2 DEF HubInv, PumpsOK, CountsOK, QueuesOK, ChannelsOK, Quiet, pumps, channels, history
<1>2. CASE SendDelta(q) \/ SendDone(q) \/ GiveAnswer(q)
  <2>1. PumpsOK' /\ QueuesOK' /\ ChannelsOK' /\ said' \in Nat
    BY <1>2, BroadcastKeeps DEF SendDelta, SendDone, GiveAnswer, pumps
  <2>2. AnswersOK'
    <3>1. CASE SendDelta(q)
      BY <3>1, HubAssumption, SMT DEF SendDelta, HubInv, AnswersOK, AnswerAt, Answering
    <3>2. CASE SendDone(q) \/ GiveAnswer(q)
      BY <3>2, TurnKeeps DEF SendDone, GiveAnswer, AnswerAt
    <3> QED BY <1>2, <3>1, <3>2
  <2>3. UNCHANGED extras
    BY <1>2 DEF SendDelta, SendDone, GiveAnswer
  <2> QED BY <2>1, <2>2, <2>3 DEF HubInv, CountsOK
<1> QED BY <1>1, <1>2 DEF Answer

LEMMA StepKeeps == HubInv /\ [Next]_vars => HubInv'
<1> SUFFICES ASSUME HubInv, [Next]_vars PROVE HubInv'
  OBVIOUS
<1>1. CASE UNCHANGED vars
  BY <1>1 DEF HubInv, PumpsOK, AnswersOK, CountsOK, QueuesOK, ChannelsOK, vars
<1>2. ASSUME NEW c \in Clients, Handler(c) \/ ReadPump(c) \/ WritePump(c) PROVE HubInv'
  BY <1>2, RegisterKeeps, EchoKeeps, SendAnswerKeeps, ConnectionKeeps, UnregisterKeeps, WriterKeeps
     DEF Handler, ReadPump, WritePump
<1>3. ASSUME NEW q \in Questions, Answer(q) PROVE HubInv'
  BY <1>3, AnswerKeeps
<1>4. CASE SendICEConfig
  BY <1>4, SendICEConfigKeeps
<1>5. CASE Outside
  BY <1>5, ConnectionKeeps, ReadKeeps, SendToClientKeeps, SendToSessionKeeps DEF Outside
<1> QED BY <1>1, <1>2, <1>3, <1>4, <1>5 DEF Next

LEMMA Always == Spec => []HubInv
<1> QED BY InitEstablishes, StepKeeps, PTL DEF Spec

----------------------------------------------------------------------------
(* What a channel holds *)

\* Direct frames do not count.
LEMMA AppendDirect ==
    ASSUME NEW s \in Seq(Nat), Ordered(s)
    PROVE  LET t == Append(s, Direct)
           IN Ordered(t) /\ Waiting(t) = Waiting(s)
<1> DEFINE t == Append(s, Direct)
<1>1. /\ DOMAIN t = 1..(Len(s) + 1) /\ DOMAIN s = 1..Len(s) /\ Len(s) \in Nat
      /\ \A i \in 1..Len(s) : t[i] = s[i]
      /\ t[Len(s) + 1] = Direct
  BY AppendProperties, LenProperties DEF Direct
<1> HIDE DEF t
<1>2. Ordered(t)
  BY <1>1 DEF Ordered
<1>3. Waiting(t) = Waiting(s)
  BY <1>1 DEF Waiting
<1> QED BY <1>2, <1>3 DEF t

\* A broadcast goes to the end, with the highest number.
LEMMA AppendFrame ==
    ASSUME NEW s \in Seq(Nat), Ordered(s), NEW n \in Nat, n # Direct,
           \A m \in Waiting(s) : m < n
    PROVE  Ordered(Append(s, n)) /\ Waiting(Append(s, n)) = Waiting(s) \cup {n}
<1> DEFINE t == Append(s, n)
<1>1. /\ DOMAIN t = 1..(Len(s) + 1) /\ DOMAIN s = 1..Len(s) /\ Len(s) \in Nat
      /\ \A i \in 1..Len(s) : t[i] = s[i]
      /\ t[Len(s) + 1] = n
  BY AppendProperties, LenProperties
<1> HIDE DEF t
<1>2. Ordered(t)
  BY <1>1 DEF Ordered, Waiting
<1>3. Waiting(t) = Waiting(s) \cup {n}
  BY <1>1 DEF Waiting
<1> QED BY <1>2, <1>3 DEF t

\* A channel without its first frame.
LEMMA DropFirst ==
    ASSUME NEW n \in Nat \ {0}, NEW s \in [1..n -> Nat], Ordered(s),
           NEW t \in [1..(n - 1) -> Nat], \A i \in 1..(n - 1) : t[i] = s[i + 1]
    PROVE  /\ Ordered(t) /\ Waiting(t) = Waiting(s) \ {s[1]}
           /\ s[1] # Direct => s[1] \in Waiting(s) /\ \A m \in Waiting(s) : s[1] <= m
<1>1. \A i, j \in 1..n : i < j /\ s[i] # Direct /\ s[j] # Direct => s[i] < s[j]
  BY DEF Ordered
<1>2. Ordered(t)
  <2> SUFFICES ASSUME NEW i \in 1..(n - 1), NEW j \in 1..(n - 1), i < j,
                      t[i] # Direct, t[j] # Direct
               PROVE  t[i] < t[j]
    BY DEF Ordered
  <2>1. i + 1 \in 1..n /\ j + 1 \in 1..n /\ i + 1 < j + 1
    OBVIOUS
  <2> QED BY <1>1, <2>1
<1>3. ASSUME NEW i \in 2..n, s[i] # Direct PROVE s[i] # s[1]
  <2>1. 1 \in 1..n /\ i \in 1..n /\ 1 < i
    OBVIOUS
  <2>2. s[1] \in Nat /\ s[i] \in Nat
    BY <2>1
  <2> QED BY <1>1, <1>3, <2>1, <2>2
<1>4. ASSUME NEW i \in 1..(n - 1), t[i] # Direct PROVE t[i] \in Waiting(s) \ {s[1]}
  <2>1. i + 1 \in 2..n /\ i + 1 \in 1..n /\ t[i] = s[i + 1]
    OBVIOUS
  <2>2. s[i + 1] \in Waiting(s)
    BY <1>4, <2>1 DEF Waiting
  <2> QED BY <1>3, <1>4, <2>1, <2>2
<1>5. ASSUME NEW i \in 1..n, s[i] # s[1], s[i] # Direct PROVE s[i] \in Waiting(t)
  <2>1. i - 1 \in 1..(n - 1) /\ t[i - 1] = s[i]
    BY <1>5
  <2> QED BY <1>5, <2>1 DEF Waiting
<1>6. Waiting(t) = Waiting(s) \ {s[1]}
  <2>1. Waiting(t) \subseteq Waiting(s) \ {s[1]}
    BY <1>4 DEF Waiting
  <2>2. Waiting(s) \ {s[1]} \subseteq Waiting(t)
    BY <1>5 DEF Waiting
  <2> QED BY <2>1, <2>2
<1>7. ASSUME s[1] # Direct PROVE s[1] \in Waiting(s) /\ \A m \in Waiting(s) : s[1] <= m
  <2>1. 1 \in 1..n
    OBVIOUS
  <2>2. s[1] \in Waiting(s)
    BY <1>7, <2>1 DEF Waiting
  <2>3. ASSUME NEW m \in Waiting(s) PROVE s[1] <= m
    <3>1. PICK i \in 1..n : m = s[i] /\ m # Direct
      BY <2>3 DEF Waiting
    <3>2. s[1] \in Nat /\ s[i] \in Nat
      BY <2>1
    <3> QED BY <1>1, <1>7, <2>1, <3>1, <3>2
  <2> QED BY <2>2, <2>3
<1> QED BY <1>2, <1>6, <1>7

\* The head of a channel, when it was broadcast, is the lowest number in it.
LEMMA HeadIsNext ==
    ASSUME NEW s \in Seq(Nat), Ordered(s), s # <<>>
    PROVE  /\ Head(s) \in Nat /\ Ordered(Tail(s))
           /\ Waiting(Tail(s)) = Waiting(s) \ {Head(s)}
           /\ Head(s) # Direct => Head(s) \in Waiting(s) /\ \A m \in Waiting(s) : Head(s) <= m
<1> DEFINE n == Len(s)
           t == Tail(s)
<1>1. n \in Nat \ {0} /\ s \in [1..n -> Nat]
  BY LenProperties, EmptySeq
<1>2. t \in Seq(Nat) /\ Len(t) = n - 1 /\ \A i \in 1..Len(t) : t[i] = s[i + 1]
  BY HeadTailProperties
<1>3. \A i \in 1..(n - 1) : t[i] = s[i + 1]
  BY <1>2
<1>4. t \in [1..(n - 1) -> Nat]
  BY <1>2, LenProperties
<1>5. Head(s) = s[1] /\ Head(s) \in Nat
  BY HeadTailProperties
<1> HIDE DEF n, t
<1>6. /\ Ordered(t) /\ Waiting(t) = Waiting(s) \ {s[1]}
      /\ s[1] # Direct => s[1] \in Waiting(s) /\ \A m \in Waiting(s) : s[1] <= m
  BY ONLY <1>1, <1>3, <1>4, DropFirst, Ordered(s), Zenon
<1> QED BY <1>5, <1>6 DEF t

----------------------------------------------------------------------------
(* What a client is sent *)

Starting == {"none", "registering"}

\* A client has got its frames up to some number, and those that follow wait in its
\* channel: all of them if it is listed, up to some moment if it was thrown out.
StreamOK(c) ==
    /\ joined[c] + Len(got[c]) <= said
    /\ \A i \in 1..Len(got[c]) : got[c][i] = joined[c] + i
    /\ reader[c] \in Starting => queue[c] = <<>> /\ got[c] = <<>>
    /\ conn[c] = "open" =>
         /\ Ordered(queue[c])
         /\ \E last \in (joined[c] + Len(got[c]))..said :
              /\ Waiting(queue[c]) = (joined[c] + Len(got[c]) + 1)..last
              /\ c \in clients => last = said

StreamInv ==
    /\ got \in [Clients -> Seq(Nat)] /\ joined \in [Clients -> Nat]
    /\ \A c \in Clients : StreamOK(c)

LEMMA NothingWaits == Waiting(<<>>) = {} /\ Ordered(<<>>) /\ Len(<<>>) = 0
BY EmptySeq DEF Waiting, Ordered

LEMMA StreamInit == Init => StreamInv
<1> SUFFICES ASSUME Init PROVE StreamInv
  OBVIOUS
<1>1. got \in [Clients -> Seq(Nat)] /\ joined \in [Clients -> Nat]
  BY EmptySeq DEF Init
<1>2. ASSUME NEW c \in Clients PROVE StreamOK(c)
  BY NothingWaits DEF Init, StreamOK
<1> QED BY <1>1, <1>2 DEF StreamInv

\* A client whose frames nobody touches.
LEMMA StreamSame ==
    ASSUME HubInv, StreamInv, NEW c \in Clients,
           UNCHANGED <<said, got[c], joined[c], queue[c]>>,
           c \in clients' => c \in clients,
           reader'[c] \in Starting => reader[c] \in Starting,
           conn'[c] = "open" => conn[c] # "closed"
    PROVE  StreamOK(c)'
<1>1. StreamOK(c) /\ got[c] \in Seq(Nat) /\ joined[c] \in Nat /\ said \in Nat
  BY DEF StreamInv, HubInv, CountsOK
<1>2. CASE conn[c] = "open" \/ conn'[c] # "open"
  BY <1>1, <1>2 DEF StreamOK
<1>3. CASE conn[c] = "none"
  <2>1. reader[c] \in Starting /\ c \notin clients
    BY <1>3 DEF HubInv, PumpsOK, ChannelsOK, Starting
  <2>2. queue[c] = <<>> /\ got[c] = <<>>
    BY <1>1, <2>1 DEF StreamOK
  <2>3. Len(got[c]) = 0 /\ Waiting(queue[c]) = {} /\ Ordered(queue[c])
    BY <2>2, NothingWaits
  <2>4. joined[c] <= said
    BY <1>1, <2>3 DEF StreamOK
  <2>5. (joined[c] + Len(got[c]) + 1)..joined[c] = {}
        /\ joined[c] \in (joined[c] + Len(got[c]))..said
    BY <1>1, <2>3, <2>4
  <2> QED BY <1>1, <2>1, <2>2, <2>3, <2>5 DEF StreamOK
<1> QED BY <1>2, <1>3 DEF HubInv, PumpsOK

\* A client to which a direct frame is sent.
LEMMA StreamDirect ==
    ASSUME HubInv, StreamInv, NEW c \in Clients,
           UNCHANGED <<said, got[c], joined[c], conn[c], clients>>,
           queue'[c] = Append(queue[c], Direct),
           reader[c] \notin Starting, reader'[c] \notin Starting
    PROVE  StreamOK(c)'
<1>1. StreamOK(c) /\ queue[c] \in Seq(Nat)
  BY DEF StreamInv, HubInv, QueuesOK
<1>2. Ordered(queue[c]) => Ordered(queue'[c]) /\ Waiting(queue'[c]) = Waiting(queue[c])
  BY <1>1, AppendDirect
<1> QED BY <1>1, <1>2 DEF StreamOK

\* A broadcast goes to whoever has room, and takes the others off the list.
LEMMA StreamBroadcast ==
    ASSUME HubInv, StreamInv, Broadcast, UNCHANGED <<got, joined, conn>>,
           \A c \in Clients : reader'[c] \in Starting => reader[c] \in Starting
    PROVE  StreamInv'
<1>1. said \in Nat /\ said' = said + 1 /\ clients' = clients \ Slow
  BY DEF HubInv, CountsOK, Broadcast
<1>2. ASSUME NEW c \in Clients PROVE StreamOK(c)'
  <2> DEFINE n == said + 1
             low == joined[c] + Len(got[c])
  <2>1. /\ StreamOK(c) /\ got[c] \in Seq(Nat) /\ joined[c] \in Nat /\ queue[c] \in Seq(Nat)
        /\ Len(got[c]) \in Nat
    BY LenProperties DEF StreamInv, HubInv, QueuesOK
  <2>2. queue'[c] = IF c \in clients \ Slow THEN Append(queue[c], n) ELSE queue[c]
    BY DEF Broadcast
  <2>3. reader'[c] \in Starting => queue'[c] = <<>> /\ got'[c] = <<>>
    BY <2>1, <2>2 DEF StreamOK, HubInv, ChannelsOK, Starting
  <2>4. CASE c \in clients \ Slow /\ conn[c] = "open"
    <3>1. Ordered(queue[c]) /\ Waiting(queue[c]) = (low + 1)..said /\ low <= said /\ low \in Nat
      BY <2>1, <2>4 DEF StreamOK
    <3>2. n \in Nat /\ n # Direct /\ \A m \in Waiting(queue[c]) : m < n
      BY <1>1, <3>1 DEF Direct
    <3>3. Ordered(Append(queue[c], n)) /\ Waiting(Append(queue[c], n)) = Waiting(queue[c]) \cup {n}
      BY <2>1, <3>1, <3>2, AppendFrame
    <3>4. ((low + 1)..said) \cup {n} = (low + 1)..n /\ n \in low..n
      BY <1>1, <3>1
    <3>5. Ordered(queue'[c]) /\ Waiting(queue'[c]) = (low + 1)..n
      BY <2>2, <2>4, <3>1, <3>3, <3>4
    <3>6. /\ joined'[c] + Len(got'[c]) = low /\ low <= n /\ said' = n
          /\ \A i \in 1..Len(got'[c]) : got'[c][i] = joined'[c] + i
      BY <1>1, <2>1, <3>1 DEF StreamOK
    <3> HIDE DEF n, low
    <3> QED BY <2>3, <3>4, <3>5, <3>6 DEF StreamOK
  <2>5. CASE c \notin clients \ Slow \/ conn[c] # "open"
    <3>1. /\ joined'[c] + Len(got'[c]) = low /\ low <= said /\ low \in Nat
          /\ \A i \in 1..Len(got'[c]) : got'[c][i] = joined'[c] + i
      BY <2>1 DEF StreamOK
    <3>2. conn'[c] = "open" => c \notin clients' /\ queue'[c] = queue[c]
      BY <1>1, <2>2, <2>5
    <3>3. conn[c] = "open" =>
            Ordered(queue[c]) /\ \E last \in low..said : Waiting(queue[c]) = (low + 1)..last
      BY <2>1 DEF StreamOK
    <3>4. low..said \subseteq low..said' /\ low <= said'
      BY <1>1, <3>1
    <3> HIDE DEF low
    <3> QED BY <2>3, <3>1, <3>2, <3>3, <3>4 DEF StreamOK
  <2> QED BY <2>4, <2>5
<1> QED BY <1>2 DEF StreamInv

\* The lowest number of an interval is its first.
LEMMA Lowest ==
    ASSUME NEW low \in Nat, NEW last \in Nat, NEW h \in (low + 1)..last,
           \A m \in (low + 1)..last : h <= m
    PROVE  h = low + 1 /\ low + 1 <= last /\ ((low + 1)..last) \ {h} = (low + 1 + 1)..last
<1>1. low + 1 <= last /\ low + 1 \in (low + 1)..last
  OBVIOUS
<1>2. h <= low + 1
  BY <1>1
<1>3. h = low + 1
  BY <1>2
<1> QED BY <1>1, <1>3

\* The numbers go on.
LEMMA NextNumber ==
    ASSUME NEW s \in Seq(Nat), NEW start \in Nat, \A i \in 1..Len(s) : s[i] = start + i,
           NEW h \in Nat, h = start + Len(s) + 1
    PROVE  /\ Append(s, h) \in Seq(Nat) /\ Len(Append(s, h)) = Len(s) + 1
           /\ \A i \in 1..Len(Append(s, h)) : Append(s, h)[i] = start + i
<1> DEFINE g == Append(s, h)
<1>1. /\ g \in Seq(Nat) /\ Len(g) = Len(s) + 1 /\ Len(s) \in Nat
      /\ \A i \in 1..Len(s) : g[i] = s[i]
      /\ g[Len(s) + 1] = h
  BY AppendProperties, LenProperties
<1> HIDE DEF g
<1>2. ASSUME NEW i \in 1..Len(g) PROVE g[i] = start + i
  <2>1. CASE i = Len(s) + 1
    BY <1>1, <2>1
  <2>2. CASE i # Len(s) + 1
    <3>1. i \in 1..Len(s)
      BY <1>1, <2>2
    <3> QED BY <1>1, <3>1
  <2> QED BY <2>1, <2>2
<1> QED BY <1>1, <1>2 DEF g

\* The next frame is written.
LEMMA StreamWrite ==
    ASSUME HubInv, StreamInv, NEW c \in Clients, Write(c)
    PROVE  StreamInv'
<1> DEFINE h == Head(queue[c])
           low == joined[c] + Len(got[c])
<1>1. /\ StreamOK(c) /\ got[c] \in Seq(Nat) /\ joined[c] \in Nat /\ queue[c] \in Seq(Nat)
      /\ Len(got[c]) \in Nat /\ said \in Nat /\ got \in [Clients -> Seq(Nat)]
      /\ queue \in [Clients -> Seq(Nat)]
  BY LenProperties DEF StreamInv, HubInv, QueuesOK, CountsOK
<1>2. /\ queue[c] # <<>> /\ conn[c] = "open" /\ reader[c] \notin Starting
      /\ queue' = [queue EXCEPT ![c] = Tail(queue[c])]
      /\ UNCHANGED <<clients, conn, reader, said, joined>>
  BY <1>1 DEF Write, pumps, StreamOK
<1>3. /\ h \in Nat /\ Ordered(Tail(queue[c]))
      /\ Waiting(Tail(queue[c])) = Waiting(queue[c]) \ {h}
      /\ h # Direct => h \in Waiting(queue[c]) /\ \A m \in Waiting(queue[c]) : h <= m
  BY <1>1, <1>2, HeadIsNext DEF StreamOK
<1>4. PICK last \in low..said :
        Waiting(queue[c]) = (low + 1)..last /\ (c \in clients => last = said)
  BY <1>1, <1>2 DEF StreamOK
<1>5. queue'[c] = Tail(queue[c]) /\ \A d \in Clients \ {c} : queue'[d] = queue[d]
  BY <1>1, <1>2
<1>6. got' = IF h = Direct THEN got ELSE [got EXCEPT ![c] = Append(got[c], h)]
  BY DEF Write
<1>7. ASSUME NEW d \in Clients, d # c PROVE StreamOK(d)'
  <2>1. got'[d] = got[d]
    BY <1>1, <1>6, <1>7
  <2> QED BY <1>2, <1>5, <1>7, <2>1, StreamSame DEF HubInv, PumpsOK
<1>8. CASE h = Direct
  <2>1. got' = got /\ Waiting(queue'[c]) = Waiting(queue[c]) /\ Ordered(queue'[c])
    BY <1>3, <1>5, <1>6, <1>8 DEF Waiting
  <2>2. StreamOK(c)'
    BY <1>1, <1>2, <2>1 DEF StreamOK
  <2> QED BY <1>1, <1>2, <1>7, <2>1, <2>2 DEF StreamInv
<1>9. CASE h # Direct
  <2>1. h = low + 1 /\ low + 1 <= last /\ ((low + 1)..last) \ {h} = (low + 1 + 1)..last
    <3>1. low \in Nat /\ last \in Nat
      BY <1>1
    <3>2. h \in (low + 1)..last /\ \A m \in (low + 1)..last : h <= m
      BY <1>3, <1>4, <1>9
    <3> HIDE DEF low, h
    <3> QED BY <3>1, <3>2, Lowest
  <2> DEFINE g == Append(got[c], h)
  <2>2. /\ g \in Seq(Nat) /\ Len(g) = Len(got[c]) + 1
        /\ \A i \in 1..Len(g) : g[i] = joined[c] + i
    <3>1. \A i \in 1..Len(got[c]) : got[c][i] = joined[c] + i
      BY <1>1 DEF StreamOK
    <3>2. h = joined[c] + Len(got[c]) + 1
      BY <2>1
    <3> HIDE DEF h
    <3> QED BY <1>1, <1>3, <3>1, <3>2, NextNumber
  <2>3. got' = [got EXCEPT ![c] = g]
    BY <1>6, <1>9
  <2> HIDE DEF g, h
  <2>4. got'[c] = g /\ got' \in [Clients -> Seq(Nat)]
    BY <1>1, <2>2, <2>3
  <2>5. joined[c] + Len(g) = low + 1 /\ low + 1 <= said /\ last \in (low + 1)..said
    BY <1>1, <1>4, <2>1, <2>2
  <2> HIDE DEF low
  <2>6. Waiting(queue'[c]) = (low + 1 + 1)..last /\ Ordered(queue'[c])
    BY <1>3, <1>4, <1>5, <2>1
  <2>7. StreamOK(c)'
    BY <1>2, <1>4, <2>2, <2>4, <2>5, <2>6 DEF StreamOK
  <2> QED BY <1>1, <1>2, <1>7, <2>4, <2>7 DEF StreamInv
<1> QED BY <1>8, <1>9

\* writePump ends: what it has not written is lost with the connection.
LEMMA StreamWriteFails ==
    ASSUME HubInv, StreamInv, NEW c \in Clients, WriteFails(c)
    PROVE  StreamInv'
<1>1. /\ UNCHANGED <<clients, reader, said, joined, got>>
      /\ conn \in [Clients -> {"none", "open", "closed"}]
      /\ conn' = [conn EXCEPT ![c] = "closed"]
      /\ queue' = IF queue[c] = <<>> THEN queue ELSE [queue EXCEPT ![c] = Tail(queue[c])]
      /\ queue \in [Clients -> Seq(Nat)]
  BY DEF WriteFails, history, HubInv, PumpsOK, QueuesOK
<1>2. ASSUME NEW d \in Clients, d # c PROVE StreamOK(d)'
  <2>1. queue'[d] = queue[d] /\ conn'[d] = conn[d]
    BY <1>1, <1>2
  <2> QED BY <1>1, <2>1, StreamSame DEF HubInv, PumpsOK
<1>3. StreamOK(c)'
  <2>1. StreamOK(c) /\ conn'[c] = "closed"
    BY <1>1 DEF StreamInv
  <2>2. reader[c] \in Starting => queue'[c] = <<>>
    BY <1>1, <2>1 DEF StreamOK
  <2> QED BY <1>1, <2>1, <2>2 DEF StreamOK
<1> QED BY <1>1, <1>2, <1>3 DEF StreamInv

\* A client that is taken on has missed nothing yet.
LEMMA StreamRegister ==
    ASSUME HubInv, StreamInv, NEW c \in Clients, Register(c)
    PROVE  StreamInv'
<1>1. /\ UNCHANGED <<conn, queue, said, got>> /\ said \in Nat
      /\ joined \in [Clients -> Nat] /\ joined' = [joined EXCEPT ![c] = said]
      /\ reader \in [Clients -> ReaderAt] /\ reader[c] \in Starting
      /\ reader' = [reader EXCEPT ![c] = "reading"] /\ clients' = clients \cup {c}
  BY DEF Register, channels, HubInv, PumpsOK, CountsOK, StreamInv, Starting
<1>2. ASSUME NEW d \in Clients, d # c PROVE StreamOK(d)'
  <2>1. joined'[d] = joined[d] /\ reader'[d] = reader[d] /\ (d \in clients' => d \in clients)
    BY <1>1, <1>2
  <2> QED BY <1>1, <2>1, StreamSame
<1>3. StreamOK(c)'
  <2>1. queue'[c] = <<>> /\ got'[c] = <<>> /\ joined'[c] = said /\ reader'[c] \notin Starting
    BY <1>1 DEF StreamInv, StreamOK, Starting
  <2>2. Waiting(queue'[c]) = {} /\ Ordered(queue'[c]) /\ Len(got'[c]) = 0
    BY <2>1, NothingWaits
  <2>3. /\ joined'[c] + Len(got'[c]) = said /\ said \in said..said'
        /\ (joined'[c] + Len(got'[c]) + 1)..said = {}
    BY <1>1, <2>1, <2>2
  <2>4. \E last \in (joined'[c] + Len(got'[c]))..said' :
          /\ Waiting(queue'[c]) = (joined'[c] + Len(got'[c]) + 1)..last
          /\ c \in clients' => last = said'
    <3>1. /\ Waiting(queue'[c]) = (joined'[c] + Len(got'[c]) + 1)..said'
          /\ said' \in (joined'[c] + Len(got'[c]))..said'
      BY <1>1, <2>2, <2>3
    <3> QED BY <3>1
  <2>5. joined'[c] + Len(got'[c]) <= said' /\ 1..Len(got'[c]) = {}
    BY <1>1, <2>2, <2>3
  <2> QED BY <2>1, <2>2, <2>4, <2>5 DEF StreamOK
<1> QED BY <1>1, <1>2, <1>3 DEF StreamInv

\* A frame for one client only.
LEMMA StreamDirectStep ==
    ASSUME HubInv, StreamInv, NEW c \in Clients, reader[c] \notin Starting,
           UNCHANGED <<said, got, joined, conn, clients>>,
           queue' \in {queue, [queue EXCEPT ![c] = Append(queue[c], Direct)]},
           \A d \in Clients : reader'[d] \in Starting => reader[d] \in Starting
    PROVE  StreamInv'
<1>1. queue \in [Clients -> Seq(Nat)] /\ conn \in [Clients -> {"none", "open", "closed"}]
  BY DEF HubInv, QueuesOK, PumpsOK
<1>2. ASSUME NEW d \in Clients PROVE StreamOK(d)'
  <2>1. CASE queue'[d] = queue[d]
    BY <1>1, <2>1, StreamSame
  <2>2. CASE queue'[d] # queue[d]
    <3>1. d = c /\ queue'[c] = Append(queue[c], Direct)
      BY <1>1, <2>2
    <3> QED BY <3>1, StreamDirect
  <2> QED BY <2>1, <2>2
<1> QED BY <1>2 DEF StreamInv

\* A step that sends nothing.
LEMMA StreamQuiet ==
    ASSUME HubInv, StreamInv, UNCHANGED <<said, got, joined, queue>>, clients' \subseteq clients,
           \A c \in Clients : /\ reader'[c] \in Starting => reader[c] \in Starting
                              /\ conn'[c] = "open" => conn[c] # "closed"
    PROVE  StreamInv'
<1>1. ASSUME NEW c \in Clients PROVE StreamOK(c)'
  <2>1. UNCHANGED <<said, got[c], joined[c], queue[c]>> /\ (c \in clients' => c \in clients)
    OBVIOUS
  <2> QED BY <2>1, StreamSame
<1> QED BY <1>1 DEF StreamInv

LEMMA StreamReadPump ==
    ASSUME HubInv, StreamInv, NEW c \in Clients, ReadPump(c)
    PROVE  StreamInv'
<1>1. reader \in [Clients -> ReaderAt] /\ conn \in [Clients -> {"none", "open", "closed"}]
  BY DEF HubInv, PumpsOK
<1>2. CASE Echo(c)
  <2>1. \A d \in Clients : reader'[d] \in Starting => reader[d] \in Starting
    BY <1>1, <1>2 DEF Echo, Starting
  <2> QED BY <1>2, <2>1, StreamBroadcast DEF Echo
<1>3. CASE SendAnswer(c)
  <2>1. \A d \in Clients : reader'[d] \in Starting => reader[d] \in Starting
    BY <1>1, <1>3 DEF SendAnswer, Starting
  <2>2. /\ reader[c] \notin Starting /\ UNCHANGED <<said, got, joined, conn, clients>>
        /\ queue' \in {queue, [queue EXCEPT ![c] = Append(queue[c], Direct)]}
    BY <1>3 DEF SendAnswer, Starting, history
  <2> QED BY <2>1, <2>2, StreamDirectStep
<1>4. CASE ReadFails(c) \/ CloseByReader(c)
  <2>1. /\ UNCHANGED <<said, got, joined, queue, clients>>
        /\ \A d \in Clients : /\ reader'[d] \in Starting => reader[d] \in Starting
                              /\ conn'[d] = "open" => conn[d] # "closed"
    BY <1>1, <1>4 DEF ReadFails, CloseByReader, Starting, channels, history
  <2> QED BY <2>1, StreamQuiet
<1>5. CASE Unregister(c)
  <2>1. /\ UNCHANGED <<said, got, joined, queue, conn>> /\ clients' \subseteq clients
        /\ \A d \in Clients : reader'[d] \in Starting => reader[d] \in Starting
    BY <1>1, <1>5 DEF Unregister, Starting, history
  <2>2. \A d \in Clients : conn'[d] = "open" => conn[d] # "closed"
    BY <1>1, <2>1
  <2> QED BY <2>1, <2>2, StreamQuiet
<1> QED BY <1>2, <1>3, <1>4, <1>5 DEF ReadPump

LEMMA StreamWritePump ==
    ASSUME HubInv, StreamInv, NEW c \in Clients, WritePump(c)
    PROVE  StreamInv'
<1>1. CASE SeesClose(c)
  <2>1. /\ UNCHANGED <<said, got, joined, queue, clients, reader>>
        /\ \A d \in Clients : conn'[d] = "open" => conn[d] # "closed"
    BY <1>1 DEF SeesClose, channels, history, HubInv, PumpsOK
  <2> QED BY <2>1, StreamQuiet
<1> QED BY <1>1, StreamWrite, StreamWriteFails DEF WritePump

LEMMA StreamAnswer ==
    ASSUME HubInv, StreamInv, NEW q \in Questions, Answer(q)
    PROVE  StreamInv'
<1>1. CASE ProcessMessageWithAI(q) \/ TransferToHuman(q) \/ StreamEnds(q) \/ ProcessQuery(q)
  <2>1. UNCHANGED <<said, got, joined, queue, clients, reader, conn>>
    BY <1>1 DEF ProcessMessageWithAI, TransferToHuman, StreamEnds, ProcessQuery, Quiet,
                pumps, channels, history
  <2>2. \A c \in Clients : conn'[c] = "open" => conn[c] # "closed"
    BY <2>1
  <2> QED BY <2>1, <2>2, StreamQuiet
<1>2. CASE SendDelta(q) \/ SendDone(q) \/ GiveAnswer(q)
  <2>1. Broadcast /\ UNCHANGED <<got, joined, conn, reader>>
    BY <1>2 DEF SendDelta, SendDone, GiveAnswer, pumps
  <2> QED BY <2>1, StreamBroadcast
<1> QED BY <1>1, <1>2 DEF Answer

LEMMA StreamOutside ==
    ASSUME HubInv, StreamInv, Outside
    PROVE  StreamInv'
<1>1. reader \in [Clients -> ReaderAt] /\ conn \in [Clients -> {"none", "open", "closed"}]
  BY DEF HubInv, PumpsOK
<1>2. ASSUME NEW c \in Clients, Connect(c) PROVE StreamInv'
  <2>1. reader[c] = "none"
    BY <1>2 DEF Connect, HubInv, PumpsOK
  <2>2. /\ UNCHANGED <<said, got, joined, queue, clients>>
        /\ \A d \in Clients : /\ reader'[d] \in Starting => reader[d] \in Starting
                              /\ conn'[d] = "open" => conn[d] # "closed"
    BY <1>1, <1>2, <2>1 DEF Connect, Starting, channels, history
  <2> QED BY <2>2, StreamQuiet
<1>3. ASSUME NEW c \in Clients, PeerLeaves(c) \/ ReadOffer(c) \/ \E q \in Questions : ReadText(c, q)
      PROVE  StreamInv'
  <2>1. /\ UNCHANGED <<said, got, joined, queue, clients>>
        /\ \A d \in Clients : /\ reader'[d] \in Starting => reader[d] \in Starting
                              /\ conn'[d] = "open" => conn[d] # "closed"
    BY <1>1, <1>3 DEF PeerLeaves, ReadOffer, ReadText, Starting, channels, history
  <2> QED BY <2>1, StreamQuiet
<1>4. ASSUME NEW c \in Clients, SendToClient(c) PROVE StreamInv'
  <2>1. reader[c] \notin Starting
    BY <1>4 DEF SendToClient, HubInv, ChannelsOK, Starting
  <2>2. /\ UNCHANGED <<said, got, joined, conn, clients, reader>>
        /\ queue' \in {queue, [queue EXCEPT ![c] = Append(queue[c], Direct)]}
    BY <1>4 DEF SendToClient, TrySend, pumps
  <2> QED BY <2>1, <2>2, StreamDirectStep
<1>5. CASE SendToSession
  <2>1. Broadcast /\ UNCHANGED <<got, joined, conn, reader>>
    BY <1>5 DEF SendToSession, pumps
  <2> QED BY <2>1, StreamBroadcast
<1> QED BY <1>2, <1>3, <1>4, <1>5 DEF Outside

LEMMA StreamStep == HubInv /\ StreamInv /\ [Next]_vars => StreamInv'
<1> SUFFICES ASSUME HubInv, StreamInv, [Next]_vars PROVE StreamInv'
  OBVIOUS
<1>1. CASE UNCHANGED vars
  <2>1. /\ UNCHANGED <<said, got, joined, queue, clients, reader, conn>>
        /\ \A c \in Clients : conn'[c] = "open" => conn[c] # "closed"
    BY <1>1 DEF vars
  <2> QED BY <2>1, StreamQuiet
<1>2. ASSUME NEW c \in Clients, Handler(c) \/ ReadPump(c) \/ WritePump(c) PROVE StreamInv'
  BY <1>2, StreamRegister, StreamReadPump, StreamWritePump DEF Handler
<1>3. ASSUME NEW q \in Questions, Answer(q) PROVE StreamInv'
  BY <1>3, StreamAnswer
<1>4. CASE SendICEConfig
  <2>1. hub \in Clients /\ reader[hub] \notin Starting
    BY <1>4 DEF SendICEConfig, HubInv, ChannelsOK, Starting
  <2>2. /\ UNCHANGED <<said, got, joined, conn, clients, reader>>
        /\ queue' \in {queue, [queue EXCEPT ![hub] = Append(queue[hub], Direct)]}
    BY <1>4 DEF SendICEConfig, TrySend, pumps, history
  <2> QED BY <2>1, <2>2, StreamDirectStep
<1>5. CASE Outside
  BY <1>5, StreamOutside
<1> QED BY <1>1, <1>2, <1>3, <1>4, <1>5 DEF Next

----------------------------------------------------------------------------
(* Theorems *)

\* Every variable is well typed, and no channel holds more than its capacity.
THEOREM TypesHold == Spec => []TypeOK
<1>1. HubInv => TypeOK
  <2> SUFFICES ASSUME HubInv PROVE TypeOK
    OBVIOUS
  <2>1. \A q \in Questions : answer[q].pc \in AnswerAt /\ answer[q].deltas \in 0..MaxDeltas
    BY SMT DEF HubInv, AnswersOK
  <2>2. \A c \in Clients : reader[c] \in ReaderAt /\ Len(queue[c]) <= Buffer
    BY DEF HubInv, PumpsOK, QueuesOK
  <2> QED BY <2>1, <2>2 DEF HubInv, PumpsOK, CountsOK, ChannelsOK, TypeOK, ReaderAt, AnswerAt
<1> QED BY <1>1, Always, PTL

\* However many clients come, go, are thrown out and are signalled to at once, the
\* loop and SendToClient neither send to nor close a channel that is closed.
THEOREM SendsAreSafe == Spec => []HubSendsAreSafe
<1>1. HubInv => HubSendsAreSafe
  BY DEF HubInv, ChannelsOK, HubSendsAreSafe
<1> QED BY <1>1, Always, PTL

\* Every client gets the frames that follow on its registration, each once and in
\* order, and for one that is connected all of them are written or wait in its
\* channel: whatever the capacity, and however many clients are slow, thrown out or
\* signalled to.
THEOREM FramesReachClients == Spec => []FramesAreWhole
<1>1. HubInv /\ StreamInv => FramesAreWhole
  <2> SUFFICES ASSUME HubInv, StreamInv, NEW c \in Clients
               PROVE  /\ joined[c] + Len(got[c]) <= said
                      /\ \A i \in DOMAIN got[c] : got[c][i] = joined[c] + i
                      /\ c \in clients /\ conn[c] = "open" =>
                           /\ Waiting(queue[c]) = (joined[c] + Len(got[c]) + 1)..said
                           /\ Ordered(queue[c])
    BY DEF FramesAreWhole
  <2>1. StreamOK(c) /\ got[c] \in Seq(Nat)
    BY DEF StreamInv
  <2>2. DOMAIN got[c] = 1..Len(got[c])
    BY <2>1, LenProperties
  <2> QED BY <2>1, <2>2 DEF StreamOK
<1> QED BY <1>1, Always, StreamInit, StreamStep, PTL DEF Spec
=============================================================================
