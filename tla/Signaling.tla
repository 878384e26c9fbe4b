----------------------------- MODULE Signaling -----------------------------
(***************************************************************************)
(* The signaling server's connection handler (server/src/signaling.rs),    *)
(* composed with the room registry of Rooms.                               *)
(*                                                                         *)
(* handle_socket runs once per WebSocket connection: authentication, the   *)
(* wait for RoomJoin, join_room, the RoomJoined ack, the subscription to   *)
(* the room's broadcast channel, a spawned relay task (channel to socket)  *)
(* beside the forward loop (socket to channel), and the teardown.  One     *)
(* action is what runs between two points where another connection's task  *)
(* can run.                                                                *)
(*                                                                         *)
(* A room's channel is a tokio broadcast channel: the messages ever sent,  *)
(* of which only the last Capacity can still be read; a receiver that is   *)
(* further behind gets Lagged and skips to the oldest one left.  Channels  *)
(* are never removed from the map, so a room's channel outlives the room.  *)
(***************************************************************************)
EXTENDS Rooms, Naturals, Sequences

CONSTANTS
    PskSet,     \* whether the server has a pre-shared key
    Capacity,   \* messages the broadcast channel retains (4096 in the code)
    Kinds,      \* kinds of text message a client sends after joining
    Relayed,    \* those the server relays (Sdp, RTCIceCandidate, frames)
    MaxSends    \* bound: text messages clients send after joining

ASSUME SignalingConstantsOK ==
    /\ PskSet \in BOOLEAN
    /\ Capacity \in Nat \ {0}
    /\ Relayed \subseteq Kinds
    /\ {"bye", "left", "nothing"} \cap Kinds = {}
    /\ MaxSends \in Nat

VARIABLES
    phase,      \* where handle_socket stands
    conn,       \* the client's side of the socket still exists
    log,        \* log[r]: everything sent to the room's broadcast channel
    relay,      \* the relay task: "none", "running", "aborted", "stopped"
    pos,        \* the relay task's position in log
    out,        \* the message the relay task last sent to the socket
    sends       \* text messages received from clients

sigVars == <<phase, conn, log, relay, pos, out, sends>>
allVars == <<vars, sigVars>>

Phases == {"auth", "await", "join", "subscribe", "relay", "leave", "announce", "closed"}

\* A message on a channel: a client's, its RoomLeave ("bye"), or the RoomLeave
\* the server itself broadcasts when the handler ends ("left").
Message == [kind : Relayed \cup {"bye", "left"}, from : Peers]
Nothing == [kind |-> "nothing", from |-> NoPeer]

SigTypeOK ==
    /\ TypeOK
    /\ phase \in [Peers -> Phases]
    /\ conn \in [Peers -> BOOLEAN]
    /\ log \in [RoomIds -> Seq(Message)]
    /\ relay \in [Peers -> {"none", "running", "aborted", "stopped"}]
    /\ pos \in [Peers -> Nat]
    /\ out \in [Peers -> Message \cup {Nothing}]
    /\ sends \in 0..MaxSends

RoomOf(p) == want[p].room

To(p, ph) == phase' = [phase EXCEPT ![p] = ph]

SigInit ==
    /\ Init
    /\ phase = [p \in Peers |-> IF PskSet THEN "auth" ELSE "await"]
    /\ conn = [p \in Peers |-> TRUE]
    /\ log = [r \in RoomIds |-> <<>>]
    /\ relay = [p \in Peers |-> "none"]
    /\ pos = [p \in Peers |-> 0]
    /\ out = [p \in Peers |-> Nothing]
    /\ sends = 0

-----------------------------------------------------------------------------
\* The broadcast channel

\* A receiver exists from subscribe until the relay task is dropped.
Receiving(p, r) == RoomOf(p) = r /\ relay[p] \in {"running", "aborted"}

\* tx.send: without a receiver the message is dropped.
Broadcast(r, m) ==
    log' = IF \E q \in Peers : Receiving(q, r)
           THEN [log EXCEPT ![r] = Append(@, m)]
           ELSE log

-----------------------------------------------------------------------------
\* Connecting and joining

\* The first message is the right key, or the handler answers 4003 and ends.
Authenticate(p) ==
    /\ phase[p] = "auth"
    /\ To(p, "await") \/ To(p, "closed")
    /\ UNCHANGED <<vars, conn, log, relay, pos, out, sends>>

\* RoomJoin ends the loop that skips every other message.
AwaitJoin(p) ==
    /\ phase[p] = "await"
    /\ To(p, "join")
    /\ UNCHANGED <<vars, conn, log, relay, pos, out, sends>>

\* Where the handler goes with the answer of join_room.
AfterJoin(p) ==
    CASE pc'[p] = "in"      -> To(p, "subscribe")
      [] pc'[p] = "refused" -> To(p, "closed")
      [] OTHER              -> UNCHANGED phase

JoinRoom(p) ==
    /\ phase[p] = "join"
    /\ Join(p)
    /\ AfterJoin(p)
    /\ UNCHANGED <<conn, log, relay, pos, out, sends>>

\* Mutation: the receiver starts at the oldest message of the channel.
SubscribeFromStart(p) ==
    /\ phase[p] = "subscribe"
    /\ To(p, "relay")
    /\ relay' = [relay EXCEPT ![p] = "running"]
    /\ UNCHANGED <<vars, conn, log, pos, out, sends>>

\* RoomJoined is sent to the client (a failed send is ignored); only when it
\* is out does the connection subscribe, and the relay task starts.
Subscribe(p) ==
    /\ phase[p] = "subscribe"
    /\ To(p, "relay")
    /\ relay' = [relay EXCEPT ![p] = "running"]
    /\ pos' = [pos EXCEPT ![p] = Len(log[RoomOf(p)])]
    /\ UNCHANGED <<vars, conn, log, out, sends>>

-----------------------------------------------------------------------------
\* The forward loop

\* A text message that is not RoomLeave: relayed if it is of a relayed kind.
Forward(p, kind) ==
    /\ phase[p] = "relay"
    /\ sends < MaxSends
    /\ sends' = sends + 1
    /\ IF kind \in Relayed
       THEN Broadcast(RoomOf(p), [kind |-> kind, from |-> p])
       ELSE UNCHANGED log
    /\ UNCHANGED <<vars, phase, conn, relay, pos, out>>

\* Mutation: the spawned relay task is left to itself.
ForgetRelay(p) == UNCHANGED relay

\* What follows the forward loop: the relay task is aborted.
AbortRelay(p) == relay' = [relay EXCEPT ![p] = IF @ = "running" THEN "aborted" ELSE @]

\* RoomLeave from the client is passed on at once, then the loop ends.
ForwardLeave(p) ==
    /\ phase[p] = "relay"
    /\ Broadcast(RoomOf(p), [kind |-> "bye", from |-> p])
    /\ To(p, "leave")
    /\ AbortRelay(p)
    /\ UNCHANGED <<vars, conn, pos, out, sends>>

\* Before the join, Close or the end of the stream makes the handler return.
HangUp(p) ==
    /\ phase[p] \in {"auth", "await"}
    /\ ~conn[p]
    /\ To(p, "closed")
    /\ UNCHANGED <<vars, conn, log, relay, pos, out, sends>>

\* Mutation: the forward loop returns instead of breaking.
ReturnOnClose(p) ==
    /\ phase[p] = "relay"
    /\ ~conn[p]
    /\ To(p, "closed")
    /\ AbortRelay(p)
    /\ UNCHANGED <<vars, conn, log, pos, out, sends>>

\* In the forward loop Close, a receive error or the end of the stream lead
\* on to the teardown.
Disconnected(p) ==
    /\ phase[p] = "relay"
    /\ ~conn[p]
    /\ To(p, "leave")
    /\ AbortRelay(p)
    /\ UNCHANGED <<vars, conn, log, pos, out, sends>>

\* The client closes the socket, or the connection breaks, before the server
\* has closed it.
ClientGone(p) ==
    /\ conn[p]
    /\ phase[p] # "closed"
    /\ conn' = [conn EXCEPT ![p] = FALSE]
    /\ UNCHANGED <<vars, phase, log, relay, pos, out, sends>>

-----------------------------------------------------------------------------
\* The relay task

Unread(p) == Len(log[RoomOf(p)]) - pos[p]

\* recv answers Lagged: the task goes on from the oldest message retained.
RelayLagged(p) ==
    /\ relay[p] \in {"running", "aborted"}
    /\ Unread(p) > Capacity
    /\ pos' = [pos EXCEPT ![p] = Len(log[RoomOf(p)]) - Capacity]
    /\ UNCHANGED <<vars, phase, conn, log, relay, out, sends>>

\* recv answers a message: it is sent on, or the send fails and the task
\* ends.  An aborted task runs on until its next await lets go of it.
RelayOne(p) ==
    /\ relay[p] \in {"running", "aborted"}
    /\ Unread(p) \in 1..Capacity
    /\ IF conn[p]
       THEN /\ out' = [out EXCEPT ![p] = log[RoomOf(p)][pos[p] + 1]]
            /\ pos' = [pos EXCEPT ![p] = @ + 1]
            /\ UNCHANGED relay
       ELSE /\ relay' = [relay EXCEPT ![p] = "stopped"]
            /\ UNCHANGED <<out, pos>>
    /\ UNCHANGED <<vars, phase, conn, log, sends>>

RelayDropped(p) ==
    /\ relay[p] = "aborted"
    /\ relay' = [relay EXCEPT ![p] = "stopped"]
    /\ UNCHANGED <<vars, phase, conn, log, pos, out, sends>>

-----------------------------------------------------------------------------
\* Teardown

\* Mutation: the announcement is sent before leave_room has run.
LeaveAnnounced(p) ==
    /\ phase[p] = "leave"
    /\ Leave(p)
    /\ IF pc'[p] = "left" THEN To(p, "closed") ELSE UNCHANGED phase
    /\ IF pc[p] = "in" THEN Broadcast(RoomOf(p), [kind |-> "left", from |-> p])
                       ELSE UNCHANGED log
    /\ UNCHANGED <<conn, relay, pos, out, sends>>

LeaveRoom(p) ==
    /\ phase[p] = "leave"
    /\ Leave(p)
    /\ IF pc'[p] = "left" THEN To(p, "announce") ELSE UNCHANGED phase
    /\ UNCHANGED <<conn, log, relay, pos, out, sends>>

\* Mutation: the announcement ends up inside "if room_removed".
AnnounceIfRemoved(p) ==
    /\ phase[p] = "announce"
    /\ IF gone[p] THEN Broadcast(RoomOf(p), [kind |-> "left", from |-> p]) ELSE UNCHANGED log
    /\ To(p, "closed")
    /\ UNCHANGED <<vars, conn, relay, pos, out, sends>>

\* The server's own RoomLeave; then the handler ends and the socket closes.
Announce(p) ==
    /\ phase[p] = "announce"
    /\ Broadcast(RoomOf(p), [kind |-> "left", from |-> p])
    /\ To(p, "closed")
    /\ UNCHANGED <<vars, conn, relay, pos, out, sends>>

-----------------------------------------------------------------------------
Handler(p) ==
    \/ HangUp(p) \/ JoinRoom(p) \/ Subscribe(p) \/ Disconnected(p)
    \/ LeaveRoom(p) \/ Announce(p)

RelayTask(p) == RelayLagged(p) \/ RelayOne(p) \/ RelayDropped(p)

Client(p) ==
    \/ Authenticate(p) \/ AwaitJoin(p) \/ ForwardLeave(p) \/ ClientGone(p)
    \/ \E kind \in Kinds : Forward(p, kind)

SigNext == \E p \in Peers : Handler(p) \/ RelayTask(p) \/ Client(p)

SigSpec == SigInit /\ [][SigNext]_allVars

\* The runtime polls every task that can run; nothing obliges a client to
\* speak, to leave or to stay.
SigFairness == \A p \in Peers : WF_allVars(Handler(p)) /\ WF_allVars(RelayTask(p))
SigFairSpec == SigSpec /\ SigFairness

-----------------------------------------------------------------------------
\* Properties

\* A handler is admitted to its room exactly from the answer of join_room to
\* the first step of leave_room, and has ended only where no slot can be its
\* own: no exit of handle_socket skips the teardown.
RegistryFollowsHandler ==
    \A p \in Peers :
        /\ phase[p] \in {"subscribe", "relay"} => pc[p] = "in"
        /\ phase[p] = "closed" => pc[p] \in {"new", "refused", "left"}

\* Where the server's own RoomLeave is on the channel or with a peer, the
\* peer it names has finished leave_room, so that somebody who reacts by
\* joining does not find the slot taken by the peer that was announced gone.
Said(r) == {log[r][i] : i \in DOMAIN log[r]}
ServerAnnouncesAfterLeaving ==
    \A m \in UNION {Said(r) : r \in RoomIds} :
        m.kind = "left" => pc[m.from] = "left"

\* The teardown is complete and in order, however the handler's loop was left:
\* no slot without a handler, no announcement before the slot is free.
TeardownIsComplete == RegistryFollowsHandler /\ ServerAnnouncesAfterLeaving

\* The relay implements RoomRelay: in order, at most once, nothing from
\* before the subscription, nothing from another room, nothing lost short of
\* Capacity unread messages, and nobody speaks after the handler's last word.
StageOf(p) ==
    CASE phase[p] \in {"relay", "leave", "announce"} -> "in"
      [] phase[p] = "closed" -> "gone"
      [] OTHER -> "out"
Relay == INSTANCE RoomRelay WITH
    Messages <- Message,
    room  <- [p \in Peers |-> RoomOf(p)],
    stage <- [p \in Peers |-> StageOf(p)],
    said  <- log,
    at    <- pos,
    heard <- out,
    Nothing <- Nothing,
    Window <- Capacity
RefinesRoomRelay == Relay!Spec

\* When the server learns that a client is gone, or the client says RoomLeave
\* and keeps the socket, its handler ends, its slot is free and its relay task
\* has stopped: nothing is kept for it.
DisconnectedIsCleanedUp ==
    \A p \in Peers :
        (~conn[p] \/ phase[p] = "leave") ~>
            /\ phase[p] = "closed"
            /\ relay[p] \in {"none", "stopped"}
            /\ \A r \in RoomIds, role \in Roles : ~Holds(p, r, role)

\* However a connection ended, every peer of its room whose relay task lives
\* gets as far as the announcement of the departure; by RefinesRoomRelay it
\* is then given the announcement, unless it is Capacity messages behind.
Reached(q, m) == \E i \in 1..pos[q] : log[RoomOf(q)][i] = m
DepartureIsReached ==
    \A p \in Peers : \A q \in Peers \ {p} :
        (RoomOf(p) = RoomOf(q) /\ phase[p] = "announce" /\ relay[q] = "running")
            ~> (Reached(q, [kind |-> "left", from |-> p]) \/ relay[q] # "running")

\* A departure is completed on both sides: the peer's own handler ends and frees
\* what it held, and those who stay are given the news as far as they read.
DeparturesAreCompleted == DisconnectedIsCleanedUp /\ DepartureIsReached
=============================================================================
