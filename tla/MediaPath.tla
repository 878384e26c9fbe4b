----------------------------- MODULE MediaPath -----------------------------
(***************************************************************************)
(* The way of an encoded frame from the host's capture chain to the        *)
(* client's receive chain (host/src/engine_adapters.rs,                    *)
(* host/src/webrtc_transport.rs, client/src/webrtc_transport.rs,           *)
(* client/src/signaling.rs, client/src/engine_adapters.rs).                *)
(*                                                                         *)
(* The capture chain offers each frame to a bounded queue and never waits; *)
(* a drain task sends what is in it over an unordered data channel that    *)
(* does not retransmit.  At the client the reader of that channel and the  *)
(* relay loop of the signalling, which may be given frames over the        *)
(* WebSocket, put frames into one bounded queue and do wait.  The receive  *)
(* chain takes them out.  The chains themselves are tasks of               *)
(* PipelineEngine; here they run until a shutdown ends them.               *)
(***************************************************************************)
EXTENDS Naturals, FiniteSets, SequencesExt, Subsequences

CONSTANTS
    SinkCap,        \* capacity of the host's queue (4 in the code)
    FrameCap,       \* capacity of the client's queue (10 in the code)
    None,           \* no frame
    MaxFrames,      \* bound: frames the host captures
    MaxRelayed      \* bound: frames that come over the WebSocket

ASSUME MediaConstantsOK ==
    /\ SinkCap \in Nat \ {0} /\ FrameCap \in Nat \ {0}
    /\ MaxFrames \in Nat /\ MaxRelayed \in Nat

Captured(n) == {"captured"} \X (1..n)
Relayed(n) == {"relayed"} \X (1..n)
Frame == Captured(MaxFrames) \cup Relayed(MaxRelayed)
ASSUME NoneIsNoFrame == None \notin Frame

VARIABLES
    capture,    \* the host's capture chain
    captured,   \* frames it has produced
    sinkQueue,  \* WebrtcOutputSink's queue
    drain,      \* the task that empties it
    sending,    \* the frame that task holds
    channel,    \* the data channel
    wire,       \* frames on their way
    events,     \* what the client's reader has yet to hear: frames, Closed
    arrived,    \* history: frames the client's end of the channel was given
    reader,     \* the reader of the data channel
    relayed,    \* frames the relay loop has received
    hand,       \* hand[s]: the frame that sender s waits to put into the queue
    waiting,    \* senders that found no room, in order
    granted,    \* senders for which a place in the queue is kept
    frameQueue, \* the client's queue
    receive,    \* the client's receive chain
    decoded     \* frames given to the decoder; the place is the time stamp

host    == <<capture, captured, sinkQueue, drain, sending>>
network == <<channel, wire, events, arrived>>
senders == <<reader, relayed, hand, waiting, granted>>
vars    == <<host, network, senders, frameQueue, receive, decoded>>

Senders == {"reader", "relay"}
Closed == <<"closed", 0>>     \* the event that ends a channel

HostOK ==
    /\ capture \in {"running", "ended"} /\ drain \in {"running", "ended"}
    /\ captured \in 0..MaxFrames
    /\ sinkQueue \in Seq(Captured(captured)) /\ Len(sinkQueue) <= SinkCap
    /\ sending \in Captured(captured) \cup {None}

NetworkOK ==
    /\ channel \in {"connecting", "open", "closed"}
    /\ wire \subseteq Captured(captured)
    /\ events \in Seq(Captured(captured) \cup {Closed})
    /\ arrived \in Seq(Captured(captured))

SendersOK ==
    /\ reader \in {"none", "running", "ended"}
    /\ relayed \in 0..MaxRelayed
    /\ hand \in [Senders -> Captured(captured) \cup Relayed(relayed) \cup {None}]
    /\ waiting \in Seq(Senders)
    /\ granted \subseteq {s \in Senders : hand[s] # None}

QueueOK ==
    /\ receive \in {"running", "ended"}
    /\ frameQueue \in Seq(Captured(captured) \cup Relayed(relayed))
    /\ Len(frameQueue) + Cardinality(granted) <= FrameCap
    /\ decoded \in Seq(Captured(captured) \cup Relayed(relayed))

TypeOK == HostOK /\ NetworkOK /\ SendersOK /\ QueueOK

Init ==
    /\ capture = "running" /\ captured = 0
    /\ sinkQueue = <<>> /\ drain = "running" /\ sending = None
    /\ channel = "connecting" /\ wire = {} /\ events = <<>> /\ arrived = <<>>
    /\ reader = "none" /\ relayed = 0
    /\ hand = [s \in Senders |-> None]
    /\ waiting = <<>> /\ granted = {}
    /\ frameQueue = <<>> /\ receive = "running" /\ decoded = <<>>

-----------------------------------------------------------------------------
\* The host

\* The sink offers the frame to its queue; where there is no room it is the
\* new frame that goes.
Capture ==
    /\ capture = "running" /\ captured < MaxFrames
    /\ captured' = captured + 1
    /\ sinkQueue' = IF Len(sinkQueue) < SinkCap
                    THEN Append(sinkQueue, <<"captured", captured + 1>>)
                    ELSE sinkQueue
    /\ UNCHANGED <<capture, drain, sending, network, senders, frameQueue, receive, decoded>>

\* The engine stops: the chain's sink is dropped, and the queue's sender with it.
CaptureEnds ==
    /\ capture = "running"
    /\ capture' = "ended"
    /\ UNCHANGED <<captured, sinkQueue, drain, sending, network, senders, frameQueue, receive, decoded>>

DrainTakes ==
    /\ drain = "running" /\ sending = None /\ sinkQueue # <<>>
    /\ sending' = Head(sinkQueue)
    /\ sinkQueue' = Tail(sinkQueue)
    /\ UNCHANGED <<capture, captured, drain, network, senders, frameQueue, receive, decoded>>

\* Mutation: the frame is kept for another attempt when the channel took it.
SendAgain ==
    /\ sending # None
    /\ wire' = IF channel = "open" THEN wire \cup {sending} ELSE wire
    /\ sending' \in {sending, None}
    /\ UNCHANGED <<capture, captured, sinkQueue, drain, channel, events, arrived,
                   senders, frameQueue, receive, decoded>>

\* send_frame does nothing unless the channel is open; whether it fails is
\* ignored.
DrainSends ==
    /\ sending # None
    /\ \/ channel = "open" /\ wire' = wire \cup {sending}
       \/ UNCHANGED wire
    /\ sending' = None
    /\ UNCHANGED <<capture, captured, sinkQueue, drain, channel, events, arrived,
                   senders, frameQueue, receive, decoded>>

\* Mutation: the task ends with the channel, not with its queue.
DrainStops ==
    /\ drain = "running" /\ sending = None
    /\ channel = "closed"
    /\ drain' = "ended"
    /\ UNCHANGED <<capture, captured, sinkQueue, sending, network, senders, frameQueue, receive, decoded>>

\* The queue has no sender any more and is empty.
DrainEnds ==
    /\ drain = "running" /\ sending = None
    /\ capture = "ended" /\ sinkQueue = <<>>
    /\ drain' = "ended"
    /\ UNCHANGED <<capture, captured, sinkQueue, sending, network, senders, frameQueue, receive, decoded>>

-----------------------------------------------------------------------------
\* The data channel

\* on_data_channel spawns the reader.
ChannelOpens ==
    /\ channel = "connecting"
    /\ channel' = "open"
    /\ reader' = "running"
    /\ UNCHANGED <<host, wire, events, arrived, relayed, hand, waiting, granted,
                   frameQueue, receive, decoded>>

\* In any order, and not all of them; the channel's callback does not wait.
Arrive(f) ==
    /\ channel = "open" /\ f \in wire
    /\ wire' = wire \ {f}
    /\ \/ events' = Append(events, f) /\ arrived' = Append(arrived, f)
       \/ UNCHANGED <<events, arrived>>
    /\ UNCHANGED <<host, channel, senders, frameQueue, receive, decoded>>

ChannelCloses ==
    /\ channel = "open"
    /\ channel' = "closed"
    /\ events' = Append(events, Closed)
    /\ UNCHANGED <<host, wire, arrived, senders, frameQueue, receive, decoded>>

-----------------------------------------------------------------------------
\* The two senders at the client

\* The reader takes the next event; having heard Closed it ends.
ReaderTakes ==
    /\ reader = "running" /\ hand["reader"] = None /\ events # <<>>
    /\ events' = Tail(events)
    /\ IF Head(events) = Closed
       THEN reader' = "ended" /\ UNCHANGED hand
       ELSE hand' = [hand EXCEPT !["reader"] = Head(events)] /\ UNCHANGED reader
    /\ UNCHANGED <<host, channel, wire, arrived, relayed, waiting, granted,
                   frameQueue, receive, decoded>>

\* A frame over the WebSocket; until it is in the queue the relay loop reads
\* nothing else.
RelayTakes ==
    /\ hand["relay"] = None /\ relayed < MaxRelayed
    /\ relayed' = relayed + 1
    /\ hand' = [hand EXCEPT !["relay"] = <<"relayed", relayed + 1>>]
    /\ UNCHANGED <<host, network, reader, waiting, granted, frameQueue, receive, decoded>>

HasRoom == Len(frameQueue) + Cardinality(granted) < FrameCap

Unserved(s) == hand[s] # None /\ s \notin granted /\ ~Contains(waiting, s)

\* Mutation: a sender that finds no room drops its frame.
ReserveOrDrop(s) ==
    /\ Unserved(s)
    /\ IF receive = "running" /\ HasRoom
       THEN granted' = granted \cup {s} /\ UNCHANGED hand
       ELSE hand' = [hand EXCEPT ![s] = None] /\ UNCHANGED granted
    /\ UNCHANGED <<host, network, reader, relayed, waiting, frameQueue, receive, decoded>>

\* send: a place is kept for the sender, or it has to wait in turn, or there
\* is no receiver and the frame is dropped.
Reserve(s) ==
    /\ Unserved(s)
    /\ IF receive = "ended"
       THEN hand' = [hand EXCEPT ![s] = None] /\ UNCHANGED <<waiting, granted>>
       ELSE /\ UNCHANGED hand
            /\ IF HasRoom /\ waiting = <<>>
               THEN granted' = granted \cup {s} /\ UNCHANGED waiting
               ELSE waiting' = Append(waiting, s) /\ UNCHANGED granted
    /\ UNCHANGED <<host, network, reader, relayed, frameQueue, receive, decoded>>

Put(s) ==
    /\ s \in granted
    /\ frameQueue' = Append(frameQueue, hand[s])
    /\ hand' = [hand EXCEPT ![s] = None]
    /\ granted' = granted \ {s}
    /\ UNCHANGED <<host, network, reader, relayed, waiting, receive, decoded>>

\* The reader is aborted, with what it holds; a place kept for it goes to the
\* relay loop if that waits.
ReaderAborted ==
    /\ reader = "running"
    /\ reader' = "ended"
    /\ hand' = [hand EXCEPT !["reader"] = None]
    /\ IF "reader" \in granted /\ waiting # <<>>
       THEN granted' = {Head(waiting)} /\ waiting' = <<>>
       ELSE granted' = granted \ {"reader"} /\ waiting' = Within(waiting, {"relay"})
    /\ UNCHANGED <<host, network, relayed, frameQueue, receive, decoded>>

-----------------------------------------------------------------------------
\* The receive chain

\* poll_fragment takes a frame, numbers it, and the sink gives it to the
\* decoder; the place that is free goes to whoever waits first.
Poll ==
    /\ receive = "running" /\ frameQueue # <<>>
    /\ decoded' = Append(decoded, Head(frameQueue))
    /\ frameQueue' = Tail(frameQueue)
    /\ IF waiting = <<>>
       THEN UNCHANGED <<waiting, granted>>
       ELSE granted' = granted \cup {Head(waiting)} /\ waiting' = Tail(waiting)
    /\ UNCHANGED <<host, network, reader, relayed, hand, receive>>

\* Mutation: the chain ends and its source, with the queue, is kept.
StopReceiving ==
    /\ receive = "running"
    /\ receive' = "ended"
    /\ UNCHANGED <<host, network, senders, frameQueue, decoded>>

\* The engine stops: the chain's source is dropped, and with it the queue;
\* senders that wait get an error.
ReceiveEnds ==
    /\ receive = "running"
    /\ receive' = "ended"
    /\ frameQueue' = <<>>
    /\ hand' = [s \in Senders |-> IF Contains(waiting, s) \/ s \in granted THEN None ELSE hand[s]]
    /\ waiting' = <<>> /\ granted' = {}
    /\ UNCHANGED <<host, network, reader, relayed, decoded>>

-----------------------------------------------------------------------------
Scheduled ==
    \/ DrainTakes \/ DrainSends \/ DrainEnds
    \/ ReaderTakes \/ (\E s \in Senders : Reserve(s) \/ Put(s)) \/ Poll

Next ==
    \/ Scheduled
    \/ Capture \/ CaptureEnds
    \/ ChannelOpens \/ (\E f \in wire : Arrive(f)) \/ ChannelCloses
    \/ RelayTakes \/ ReaderAborted \/ ReceiveEnds

Spec == Init /\ [][Next]_vars

\* Every task runs while it can; nothing has to be captured, to arrive or to
\* stop.
Fairness ==
    /\ WF_vars(DrainTakes) /\ WF_vars(DrainSends) /\ WF_vars(DrainEnds)
    /\ WF_vars(ReaderTakes) /\ WF_vars(Poll)
    /\ \A s \in Senders : WF_vars(Reserve(s)) /\ WF_vars(Put(s))

FairSpec == Spec /\ Fairness

-----------------------------------------------------------------------------
\* Properties

\* The client loses and reorders no frame that reached it: while its reader
\* and its chain run, what arrived is, in order, what was decoded, what is
\* queued, what the reader holds and what it has yet to hear, although the
\* relay loop puts frames into the same queue and both wait for room.
FromChannel(seq) == Within(seq, Captured(MaxFrames))
InHand(s) == IF hand[s] = None THEN <<>> ELSE <<hand[s]>>
ClientKeepsOrder ==
    (reader = "running" /\ receive = "running") =>
        arrived = FromChannel(decoded \o frameQueue) \o InHand("reader")
                      \o FromChannel(events)

\* No frame is invented or shown twice on the way.
Way == INSTANCE LossyChannel WITH
    Frames  <- Frame,
    offered <- Captured(captured) \cup Relayed(relayed),
    shown   <- decoded
RefinesLossyChannel == Way!Spec

\* The relay loop, which takes neither offers nor candidates while it waits
\* to hand over a frame, always comes back to the signalling: because the
\* chain takes a frame, or because it ends.
SignallingGoesOn == hand["relay"] # None ~> hand["relay"] = None

\* A sink that is dropped and a channel that is closed leave no task behind:
\* the drain task and the reader end, whoever is behind by how much.
TasksEnd ==
    /\ capture = "ended" ~> drain = "ended"
    /\ channel = "closed" ~> reader = "ended"

\* Neither full queues nor shutdowns leave a task waiting for ever, at either
\* end of the path (host and client engine_adapters.rs, client signaling.rs:211).
NobodyIsStuck == SignallingGoesOn /\ TasksEnd
=============================================================================
