------------------------------ MODULE RealtimeHub ------------------------------
(***************************************************************************)
(* The websocket hub: the goroutines of each connection, the loop that     *)
(* owns the connections and their send channels, and the goroutines that   *)
(* answer a visitor's questions, by the AI or by handing the session over. *)
(*                                                                         *)
(* The model is of the connections of one session; other sessions share    *)
(* only the loop, which waits for nobody.  register, unregister and        *)
(* broadcast are unbuffered channels: a send to them and Run's receive are *)
(* one step.  Every connection is made once.                               *)
(***************************************************************************)
EXTENDS Integers, Sequences, FiniteSets

CONSTANTS
    Clients,    \* connections of the session
    NoClient,
    Questions,  \* text messages the visitor sends
    Buffer,     \* capacity of a send channel
    MaxDeltas,  \* bound: increments of a streamed answer
    MaxExtras   \* bound: offers, signals and notices

ASSUME HubAssumption ==
    /\ NoClient \notin Clients /\ Buffer \in Nat \ {0}
    /\ MaxDeltas \in Nat /\ MaxExtras \in Nat

VARIABLES
    clients,  \* the hub's map
    hub,      \* the client Run is about to send its ICE configuration to, or NoClient
    conn,     \* [Clients -> the websocket connection: "none", "open", "closed"]
    reader,   \* [Clients -> program counter of the handler, then of readPump]
    writer,   \* [Clients -> whether writePump is running]
    open,     \* [Clients -> whether the send channel is not closed]
    queue,    \* [Clients -> frames in the send channel: what is broadcast is numbered]
    answer,   \* [Questions -> program counter of the goroutine that answers, and deltas sent]
    said,     \* history: how many frames were broadcast to the session
    joined,   \* history: [Clients -> how many there were when the client was registered]
    got,      \* history: [Clients -> broadcast frames written to its connection]
    extras,   \* history: how many extras there have been
    crashed   \* whose panic has ended the process: "nobody", "hub" or "reader"

vars == <<clients, hub, conn, reader, writer, open, queue, answer,
          said, joined, got, extras, crashed>>
channels == <<open, queue>>
pumps == <<conn, reader, writer>>
history == <<said, joined, got, extras>>

Direct == 0    \* a frame to one client only: ICE, signalling
Answering(pc, deltas) == [pc |-> pc, deltas |-> deltas]

Init ==
    /\ clients = {} /\ hub = NoClient
    /\ conn = [c \in Clients |-> "none"] /\ reader = [c \in Clients |-> "none"]
    /\ writer = [c \in Clients |-> FALSE]
    /\ open = [c \in Clients |-> TRUE] /\ queue = [c \in Clients |-> <<>>]
    /\ answer = [q \in Questions |-> Answering("none", 0)]
    /\ said = 0 /\ joined = [c \in Clients |-> 0] /\ got = [c \in Clients |-> <<>>]
    /\ extras = 0 /\ crashed = "nobody"

Extra == extras < MaxExtras /\ extras' = extras + 1

----------------------------------------------------------------------------
(* The loop *)

\* A send that gives up if the channel is full; a send to a closed channel panics.
TrySend(c, frame) ==
    /\ crashed' = IF open[c] THEN crashed ELSE "hub"
    /\ queue' = IF open[c] /\ Len(queue[c]) < Buffer
                THEN [queue EXCEPT ![c] = Append(queue[c], frame)] ELSE queue

\* The handler has upgraded the request and waits for Run to take the client; then
\* it starts the two pumps.
Connect(c) ==
    /\ conn[c] = "none" /\ conn' = [conn EXCEPT ![c] = "open"]
    /\ reader' = [reader EXCEPT ![c] = "registering"]
    /\ UNCHANGED <<clients, hub, writer, channels, answer, history, crashed>>

Register(c) ==
    /\ hub = NoClient /\ reader[c] = "registering"
    /\ clients' = clients \cup {c} /\ hub' = c
    /\ reader' = [reader EXCEPT ![c] = "reading"] /\ writer' = [writer EXCEPT ![c] = TRUE]
    /\ joined' = [joined EXCEPT ![c] = said]
    /\ UNCHANGED <<conn, channels, answer, said, got, extras, crashed>>

\* The lock is released by then.  Without STUN and TURN there is nothing to send.
SendICEConfig ==
    /\ hub # NoClient /\ hub' = NoClient
    /\ TrySend(hub, Direct) \/ UNCHANGED <<queue, crashed>>
    /\ UNCHANGED <<clients, pumps, open, answer, history>>

\* Mutant: the channel is closed without a look at the map.
UnregisterAlways(c) ==
    /\ hub = NoClient /\ reader[c] = "leaving"
    /\ reader' = [reader EXCEPT ![c] = "closing"]
    /\ clients' = clients \ {c} /\ open' = [open EXCEPT ![c] = FALSE]
    /\ crashed' = IF open[c] THEN crashed ELSE "hub"
    /\ UNCHANGED <<hub, conn, writer, queue, answer, history>>

Unregister(c) ==
    /\ hub = NoClient /\ reader[c] = "leaving"
    /\ reader' = [reader EXCEPT ![c] = "closing"]
    /\ IF c \in clients
       THEN /\ clients' = clients \ {c} /\ open' = [open EXCEPT ![c] = FALSE]
            /\ crashed' = IF open[c] THEN crashed ELSE "hub"
       ELSE UNCHANGED <<clients, open, crashed>>
    /\ UNCHANGED <<hub, conn, writer, queue, answer, history>>

Slow == {c \in clients : Len(queue[c]) = Buffer}

\* Mutants: a slow client only misses the frame, or its channel stays open.
BroadcastSkips ==
    /\ hub = NoClient /\ said' = said + 1
    /\ queue' = [c \in Clients |->
         IF c \in clients \ Slow THEN Append(queue[c], said + 1) ELSE queue[c]]
    /\ UNCHANGED <<clients, open, crashed>>
BroadcastLeavesOpen ==
    /\ hub = NoClient /\ said' = said + 1
    /\ clients' = clients \ Slow
    /\ queue' = [c \in Clients |->
         IF c \in clients \ Slow THEN Append(queue[c], said + 1) ELSE queue[c]]
    /\ UNCHANGED <<open, crashed>>

\* Mutant: the send has no default, so the loop waits until every channel has room.
BroadcastWaits ==
    /\ hub = NoClient /\ said' = said + 1 /\ Slow = {}
    /\ crashed' = IF \A c \in clients : open[c] THEN crashed ELSE "hub"
    /\ queue' = [c \in Clients |-> IF c \in clients THEN Append(queue[c], said + 1) ELSE queue[c]]
    /\ UNCHANGED <<clients, open>>

\* Run takes a frame from whoever waits to broadcast it.  A client whose channel is
\* full is thrown out.
Broadcast ==
    /\ hub = NoClient /\ said' = said + 1
    /\ crashed' = IF \A c \in clients : open[c] THEN crashed ELSE "hub"
    /\ clients' = clients \ Slow
    /\ open' = [c \in Clients |-> open[c] /\ c \notin Slow]
    /\ queue' = [c \in Clients |->
         IF c \in clients \ Slow THEN Append(queue[c], said + 1) ELSE queue[c]]

\* A callback of a peer connection signals to the client that owns it, under the
\* lock of the map, at any moment.
SendToClient(c) ==
    /\ Extra /\ c \in clients /\ TrySend(c, Direct)
    /\ UNCHANGED <<clients, hub, pumps, open, answer, said, joined, got>>

\* Any other goroutine that has something for the session: an agent's message, a
\* notification, a translation.
SendToSession ==
    /\ Extra /\ Broadcast
    /\ UNCHANGED <<hub, pumps, answer, joined, got>>

----------------------------------------------------------------------------
(* The pumps of a connection *)

\* The peer goes away, or the network does.
PeerLeaves(c) ==
    /\ conn[c] = "open" /\ conn' = [conn EXCEPT ![c] = "closed"]
    /\ UNCHANGED <<clients, hub, reader, writer, channels, answer, history, crashed>>

\* A text message: the goroutine that answers it starts before it is echoed.
ReadText(c, q) ==
    /\ reader[c] = "reading" /\ conn[c] = "open" /\ answer[q].pc = "none"
    /\ reader' = [reader EXCEPT ![c] = "echo"]
    /\ answer' = [answer EXCEPT ![q] = Answering("look", 0)]
    /\ UNCHANGED <<clients, hub, conn, writer, channels, history, crashed>>

Echo(c) ==
    /\ reader[c] = "echo" /\ Broadcast
    /\ reader' = [reader EXCEPT ![c] = "reading"]
    /\ UNCHANGED <<hub, conn, writer, answer, joined, got, extras>>

\* An offer has been handled; what remains is to send the answer, on the channel and
\* without the lock: this waits for room, and panics if the channel is closed.
ReadOffer(c) ==
    /\ reader[c] = "reading" /\ conn[c] = "open" /\ Extra
    /\ reader' = [reader EXCEPT ![c] = "answer"]
    /\ UNCHANGED <<clients, hub, conn, writer, channels, answer, said, joined, got, crashed>>

SendAnswer(c) ==
    /\ reader[c] = "answer"
    /\ \/ /\ open[c] /\ Len(queue[c]) < Buffer
          /\ queue' = [queue EXCEPT ![c] = Append(queue[c], Direct)]
          /\ reader' = [reader EXCEPT ![c] = "reading"] /\ UNCHANGED crashed
       \/ /\ ~open[c] /\ crashed' = "reader" /\ UNCHANGED <<queue, reader>>
    /\ UNCHANGED <<clients, hub, conn, writer, open, answer, history>>

\* The read fails: the connection is closed, or has been silent for too long.
ReadFails(c) ==
    /\ reader[c] = "reading" /\ conn[c] = "closed"
    /\ reader' = [reader EXCEPT ![c] = "leaving"]
    /\ UNCHANGED <<clients, hub, conn, writer, channels, answer, history, crashed>>

CloseByReader(c) ==
    /\ reader[c] = "closing" /\ reader' = [reader EXCEPT ![c] = "done"]
    /\ conn' = [conn EXCEPT ![c] = "closed"]
    /\ UNCHANGED <<clients, hub, writer, channels, answer, history, crashed>>

\* writePump writes the next frame.
Write(c) ==
    /\ writer[c] /\ queue[c] # <<>> /\ conn[c] = "open"
    /\ queue' = [queue EXCEPT ![c] = Tail(queue[c])]
    /\ got' = IF Head(queue[c]) = Direct THEN got
              ELSE [got EXCEPT ![c] = Append(got[c], Head(queue[c]))]
    /\ UNCHANGED <<clients, hub, pumps, open, answer, said, joined, extras, crashed>>

\* The write of a frame or of a ping fails, or the peer takes no more for ten seconds:
\* writePump ends, and with it the connection.
WriteFails(c) ==
    /\ writer[c] /\ writer' = [writer EXCEPT ![c] = FALSE]
    /\ conn[c] = "closed" \/ queue[c] # <<>>
    /\ queue' = IF queue[c] = <<>> THEN queue ELSE [queue EXCEPT ![c] = Tail(queue[c])]
    /\ conn' = [conn EXCEPT ![c] = "closed"]
    /\ UNCHANGED <<clients, hub, reader, open, answer, history, crashed>>

\* The channel is closed and drained.
SeesClose(c) ==
    /\ writer[c] /\ queue[c] = <<>> /\ ~open[c]
    /\ writer' = [writer EXCEPT ![c] = FALSE] /\ conn' = [conn EXCEPT ![c] = "closed"]
    /\ UNCHANGED <<clients, hub, reader, channels, answer, history, crashed>>

----------------------------------------------------------------------------
(* The answer to a question *)

Turn(q, pc) == answer' = [answer EXCEPT ![q] = Answering(pc, 0)]
Quiet == UNCHANGED <<clients, hub, pumps, channels, history, crashed>>

\* The AI is silent if an agent has the session (which the database knows, and may
\* change at once); it hands the session over if the visitor asks for it; otherwise a
\* stream starts, or the answer has to come in one piece.
ProcessMessageWithAI(q) ==
    /\ answer[q].pc = "look" /\ Quiet
    /\ \/ Turn(q, "done") \/ Turn(q, "transfer")
       \/ Turn(q, "stream") \/ Turn(q, "query")

\* Whatever the hand-over comes to, the visitor is told.
TransferToHuman(q) ==
    /\ answer[q].pc = "transfer" /\ Turn(q, "give") /\ Quiet

SendDelta(q) ==
    /\ answer[q].pc = "stream" /\ answer[q].deltas < MaxDeltas
    /\ Broadcast
    /\ answer' = [answer EXCEPT ![q] = Answering("stream", answer[q].deltas + 1)]
    /\ UNCHANGED <<hub, pumps, joined, got, extras>>

\* The stream ends with a whole answer, or it breaks: then the visitor keeps what has
\* been sent, and the query is made again only if that is nothing.
StreamEnds(q) ==
    /\ answer[q].pc = "stream" /\ Quiet
    /\ \/ Turn(q, "end")
       \/ IF answer[q].deltas > 0 THEN Turn(q, "break") ELSE Turn(q, "query")

\* The last increment, empty and marked as done.
SendDone(q) ==
    /\ answer[q].pc \in {"end", "break"} /\ Broadcast
    /\ Turn(q, IF answer[q].pc = "end" THEN "give" ELSE "done")
    /\ UNCHANGED <<hub, pumps, joined, got, extras>>

ProcessQuery(q) ==
    /\ answer[q].pc = "query" /\ Quiet
    /\ Turn(q, "give") \/ Turn(q, "done")

GiveAnswer(q) ==
    /\ answer[q].pc = "give" /\ Turn(q, "done") /\ Broadcast
    /\ UNCHANGED <<hub, pumps, joined, got, extras>>

----------------------------------------------------------------------------

Alive == crashed = "nobody"

Handler(c) == Alive /\ Register(c)
ReadPump(c) ==
    /\ Alive
    /\ Echo(c) \/ SendAnswer(c) \/ ReadFails(c) \/ Unregister(c) \/ CloseByReader(c)
WritePump(c) == Alive /\ (Write(c) \/ WriteFails(c) \/ SeesClose(c))
Answer(q) ==
    /\ Alive
    /\ \/ ProcessMessageWithAI(q) \/ TransferToHuman(q)
       \/ SendDelta(q) \/ StreamEnds(q) \/ SendDone(q) \/ ProcessQuery(q) \/ GiveAnswer(q)
Outside ==
    /\ Alive
    /\ \/ \E c \in Clients : Connect(c) \/ PeerLeaves(c) \/ ReadOffer(c) \/ SendToClient(c)
       \/ \E c \in Clients, q \in Questions : ReadText(c, q)
       \/ SendToSession

Next ==
    \/ \E c \in Clients : Handler(c) \/ ReadPump(c) \/ WritePump(c)
    \/ \E q \in Questions : Answer(q)
    \/ Alive /\ SendICEConfig
    \/ Outside

\* Goroutines are scheduled, and calls to the AI and to the connection time out.
Fairness ==
    /\ \A c \in Clients : WF_vars(Handler(c)) /\ WF_vars(ReadPump(c)) /\ WF_vars(WritePump(c))
    /\ \A q \in Questions : WF_vars(Answer(q))
    /\ WF_vars(Alive /\ SendICEConfig)

Spec == Init /\ [][Next]_vars /\ Fairness

----------------------------------------------------------------------------
(* Properties *)

\* Types; no channel ever holds more than its capacity.
TypeOK ==
    /\ clients \subseteq Clients /\ hub \in Clients \cup {NoClient}
    /\ conn \in [Clients -> {"none", "open", "closed"}]
    /\ \A c \in Clients :
         /\ reader[c] \in {"none", "registering", "reading", "echo", "answer", "leaving",
                              "closing", "done"}
         /\ Len(queue[c]) <= Buffer
    /\ writer \in [Clients -> BOOLEAN] /\ open \in [Clients -> BOOLEAN]
    /\ \A q \in Questions :
         /\ answer[q].pc \in {"none", "look", "transfer", "stream", "end", "break",
                              "query", "give", "done"}
         /\ answer[q].deltas \in 0..MaxDeltas
    /\ extras \in 0..MaxExtras
    /\ crashed \in {"nobody", "hub", "reader"}

\* websocket_hub.go:569-571: whoever registers, leaves, is thrown out or is signalled
\* to at the same time, the loop and SendToClient never send to, or close, a channel
\* that is closed already.
HubSendsAreSafe == crashed # "hub"

\* The broadcast frames in a channel, and that they are in the order of their numbers.
Waiting(s) == {s[i] : i \in DOMAIN s} \ {Direct}
Ordered(s) == \A i, j \in DOMAIN s : i < j /\ s[i] # Direct /\ s[j] # Direct => s[i] < s[j]

\* A client has got the frames that follow on its registration, each once and in
\* order; for one that is connected the rest waits in its channel, however slow it is
\* and whatever is sent to it alone, and one that was thrown out has seen everything
\* up to some moment (sdk/PROTOCOL.md:118-119).
FramesAreWhole ==
    \A c \in Clients :
        /\ joined[c] + Len(got[c]) <= said
        /\ \A i \in DOMAIN got[c] : got[c][i] = joined[c] + i
        /\ c \in clients /\ conn[c] = "open" =>
             /\ Waiting(queue[c]) = (joined[c] + Len(got[c]) + 1) .. said
             /\ Ordered(queue[c])

\* The reader waits for room that nobody will make.
Stuck(c) == reader[c] = "answer" /\ ~writer[c] /\ Len(queue[c]) = Buffer

\* In the end the hub lists the connections that are open and no others: one that was
\* thrown out is closed, and one that is closed is forgotten, unless its reader is
\* stuck with an answer to an offer.  A client that takes nothing, even one that is
\* stuck so, holds up nobody else (websocket_hub.go:279-285): the questions are
\* answered, and no reader waits for the loop.
HubSettles ==
    <>[](Alive => /\ \A c \in Clients :
                       /\ conn[c] # "none" => (c \in clients <=> conn[c] = "open") \/ Stuck(c)
                       /\ reader[c] \notin {"registering", "echo", "leaving"}
                  /\ \A q \in Questions : answer[q].pc \in {"none", "done"})

\* sdk/PROTOCOL.md:118: a client that is too slow is thrown out and connects again.
\* Nothing worse happens, in particular no send on the channel that was closed, which
\* ends the process with every connection (voice_hub_test.go:544-547).
NeverPanics == crashed = "nobody"
=============================================================================
