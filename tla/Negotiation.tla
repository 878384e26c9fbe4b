----------------------------- MODULE Negotiation -----------------------------
(***************************************************************************)
(* How a host and a client agree on a peer connection through a room       *)
(* (host/src/main.rs, host/src/signaling.rs, host/src/webrtc_transport.rs, *)
(* client/src/main.rs, client/src/signaling.rs,                            *)
(* client/src/webrtc_transport.rs).                                        *)
(*                                                                         *)
(* A session is one run of the host or of the client program.  The host    *)
(* makes one peer connection and sends one offer; the client makes a peer  *)
(* connection for each offer it hears, and replaces the one it had.  A     *)
(* peer connection of the client is therefore named by the host session    *)
(* whose offer it answers.                                                 *)
(*                                                                         *)
(* The server is what Rooms and Signaling show of it: the messages of one  *)
(* session reach every subscriber of the room's channel in one order, its  *)
(* own included.  A session holds its role until it can say no more, or    *)
(* until a session that found no room inserts it late (JoinCreate of       *)
(* Rooms): then those that came in between lose their roles to it and to   *)
(* later ones, and go on listening and speaking.                           *)
(* Each peer connection finds at most one ICE candidate here.              *)
(***************************************************************************)
EXTENDS Naturals, Sequences, FiniteSets

CONSTANTS
    Hosts, Clients,     \* sessions of the two programs
    None,               \* no session, no answer
    MaxRetries,         \* attempts to connect (5 in the code)
    MaxIce              \* bound: candidates that are found

Sessions == Hosts \cup Clients
Pcs == Clients \X Hosts

Message ==
    [kind : {"offer", "answer", "ice"}, from : Sessions, pc : Hosts]

ASSUME NegotiationConstantsOK ==
    /\ Hosts \cap Clients = {}
    /\ None \notin Sessions \cup Message
    /\ MaxRetries \in Nat \ {0}
    /\ MaxIce \in Nat

VARIABLES
    stage,      \* where a session's program stands
    tries,      \* failed attempts, while it tries to connect
    holder,     \* the server: which session holds a role
    creating,   \* the server: sessions that found no room and will insert it
    evicted,    \* the server: sessions that lost their role to one of these
    listening,  \* the server: sessions subscribed to the room's channel
    log,        \* everything sent to that channel
    at,         \* how far a session has read it
    remote,     \* remote[h]: the answer the host's peer connection took
    open,       \* the clients' peer connections that are not closed
    stored,     \* stored[c]: the one WebrtcTransport keeps
    serving,    \* serving[c]: the one handle_offer is making
    failed,     \* those of a handle_offer that failed: dropped, not closed
    gathered,   \* sessions and peer connections that found their candidate
    iceQueue,   \* iceQueue[c]: candidates on their way to the relay loop
    added,      \* added[s]: candidates given to its peer connections, by which
    reader,     \* the task that reads a peer connection's data channel
    dcTask      \* dcTask[c]: the reader WebrtcTransport can abort

program == <<stage, tries>>
registry == <<holder, creating, evicted>>
server  == <<registry, listening>>
channel == <<log, at>>
clientPcs == <<open, stored, serving, failed>>
ice     == <<gathered, iceQueue, added>>
readers == <<reader, dcTask>>
vars == <<program, server, channel, remote, clientPcs, ice, readers>>

Role(s) == IF s \in Hosts THEN "host" ELSE "remote"

ProgramOK ==
    /\ stage \in [Sessions -> {"down", "joined", "offering", "loop", "answering", "cut", "gone"}]
    /\ tries \in [Sessions -> 0..(MaxRetries - 1)]

ServerOK ==
    /\ holder \in [{"host", "remote"} -> Sessions \cup {None}]
    /\ creating \subseteq Sessions
    /\ evicted \subseteq Sessions
    /\ listening \subseteq Sessions

ChannelOK ==
    /\ log \in Seq(Message)
    /\ at \in [Sessions -> Nat]
    /\ \A s \in Sessions : at[s] <= Len(log)

PcsOK ==
    /\ remote \in [Hosts -> Message \cup {None}]
    /\ stored \in [Clients -> Hosts \cup {None}]
    /\ serving \in [Clients -> Hosts \cup {None}]
    /\ open \subseteq Pcs /\ failed \subseteq Pcs

IceOK ==
    /\ gathered \subseteq Hosts \cup Pcs
    /\ iceQueue \in [Clients -> Seq(Hosts)]
    /\ added \in [Sessions -> SUBSET (Hosts \X Message)]

ReadersOK ==
    /\ reader \in [Pcs -> {"none", "opening", "running", "ended"}]
    /\ dcTask \in [Clients -> Hosts \cup {None}]

ServingOK == \A c \in Clients : stage[c] = "answering" <=> serving[c] # None

TypeOK ==
    ProgramOK /\ ServerOK /\ ChannelOK /\ PcsOK /\ IceOK /\ ReadersOK /\ ServingOK

Init ==
    /\ stage = [s \in Sessions |-> "down"]
    /\ tries = [s \in Sessions |-> 0]
    /\ holder = [role \in {"host", "remote"} |-> None]
    /\ creating = {} /\ evicted = {}
    /\ listening = {}
    /\ log = <<>>
    /\ at = [s \in Sessions |-> 0]
    /\ remote = [h \in Hosts |-> None]
    /\ open = {} /\ failed = {}
    /\ stored = [c \in Clients |-> None]
    /\ serving = [c \in Clients |-> None]
    /\ gathered = {}
    /\ iceQueue = [c \in Clients |-> <<>>]
    /\ added = [s \in Sessions |-> {}]
    /\ reader = [x \in Pcs |-> "none"]
    /\ dcTask = [c \in Clients |-> None]

To(s, st) == stage' = [stage EXCEPT ![s] = st]

\* The server forwards a session's messages once it has subscribed it.
Send(s, kind, h) ==
    /\ s \in listening
    /\ log' = Append(log, [kind |-> kind, from |-> s, pc |-> h])

\* The next message of the channel, read by the session.
Hear(s, m) ==
    /\ s \in listening
    /\ at[s] < Len(log)
    /\ m = log[at[s] + 1]
    /\ at' = [at EXCEPT ![s] = @ + 1]
    /\ UNCHANGED log

-----------------------------------------------------------------------------
\* Connecting, joining, leaving

\* An attempt to connect failed; after MaxRetries the program gives up.
GiveUpOrRetry(s) ==
    IF tries[s] + 1 = MaxRetries
    THEN To(s, "gone") /\ tries' = [tries EXCEPT ![s] = 0]
    ELSE UNCHANGED stage /\ tries' = [tries EXCEPT ![s] = @ + 1]

\* RoomJoined arrives: the host sleeps two seconds, the client enters its loop.
Joined(s) ==
    /\ To(s, IF s \in Hosts THEN "joined" ELSE "loop")
    /\ tries' = [tries EXCEPT ![s] = 0]

\* connect() fails before or in the join, or is refused because the role is
\* taken.  The server may have given the slot away already when the connection
\* breaks.
ConnectFails(s) ==
    /\ stage[s] = "down" /\ s \notin creating
    /\ GiveUpOrRetry(s)
    /\ \/ UNCHANGED holder
       \/ holder[Role(s)] = None /\ holder' = [holder EXCEPT ![Role(s)] = s]
    /\ UNCHANGED <<creating, evicted, listening, channel, remote, clientPcs, ice, readers>>

Join(s) ==
    /\ stage[s] = "down" /\ s \notin creating
    /\ holder[Role(s)] = None
    /\ holder' = [holder EXCEPT ![Role(s)] = s]
    /\ Joined(s)
    /\ UNCHANGED <<creating, evicted, listening, channel, remote, clientPcs, ice, readers>>

\* join_room finds no room, and others come before it inserts one.
FindNoRoom(s) ==
    /\ stage[s] = "down" /\ s \notin creating
    /\ \A role \in DOMAIN holder : holder[role] = None
    /\ creating' = creating \cup {s}
    /\ UNCHANGED <<program, holder, evicted, listening, channel, remote, clientPcs, ice, readers>>

\* The room it inserts has no place for those who hold one in the room it
\* replaces.  The connection may have broken since, and s tries again; so may
\* another's that held a slot: there is nobody then to lose it.
CreateLate(s) ==
    /\ s \in creating /\ stage[s] = "down"
    /\ creating' = creating \ {s}
    /\ holder' = [role \in DOMAIN holder |-> IF role = Role(s) THEN s ELSE None]
    /\ evicted' = evicted \cup {x \in Sessions : holder[Role(x)] = x /\ stage[x] # "down"}
    /\ Joined(s) \/ GiveUpOrRetry(s)
    /\ UNCHANGED <<listening, channel, remote, clientPcs, ice, readers>>

\* The server subscribes a session after its RoomJoined is out.
Subscribe(s) ==
    /\ stage[s] # "down" /\ s \notin listening
    /\ holder[Role(s)] = s \/ (s \in evicted /\ stage[s] \notin {"cut", "gone"})
    /\ listening' = listening \cup {s}
    /\ at' = [at EXCEPT ![s] = Len(log)]
    /\ UNCHANGED <<program, registry, log, remote, clientPcs, ice, readers>>

\* The server has torn down a connection that ended on the session's side;
\* leave_room clears the slot of its own peer only.
ServerForgets(s) ==
    /\ stage[s] \in {"down", "cut", "gone"}
    /\ holder[Role(s)] = s \/ s \in listening
    /\ holder' = [role \in DOMAIN holder |-> IF holder[role] = s THEN None ELSE holder[role]]
    /\ listening' = listening \ {s}
    /\ at' = [at EXCEPT ![s] = 0]
    /\ UNCHANGED <<program, creating, evicted, log, remote, clientPcs, ice, readers>>

-----------------------------------------------------------------------------
\* The host

\* WebrtcTransport::new makes the peer connection and its data channel and
\* sets the local description, from where candidates are gathered; an error
\* ends the program.
CreateOffer(h) ==
    /\ stage[h] = "joined"
    /\ To(h, "offering") \/ To(h, "gone")
    /\ UNCHANGED <<tries, server, channel, remote, clientPcs, ice, readers>>

\* The offer goes out, whoever is in the room.
SendOffer(h) ==
    /\ stage[h] = "offering"
    /\ Send(h, "offer", h)
    /\ To(h, "loop")
    /\ UNCHANGED <<tries, server, at, remote, clientPcs, ice, readers>>

\* The candidate callback uses the socket beside the program: a candidate may
\* be sent before the offer, and it is sent as long as there is a socket.
HostCandidate(h) ==
    /\ stage[h] \in {"offering", "loop"}
    /\ h \notin gathered /\ Cardinality(gathered) < MaxIce
    /\ Send(h, "ice", h)
    /\ gathered' = gathered \cup {h}
    /\ UNCHANGED <<program, server, at, remote, clientPcs, iceQueue, added, readers>>

\* A candidate is given to a peer connection, or lost where there is none that
\* could take it.  The relay returns its own candidates to a session, and they
\* are taken too.
AddCandidate(s, pc, m) ==
    added' = IF m.kind = "ice" /\ pc # None
             THEN [added EXCEPT ![s] = @ \cup {<<pc, m>>}]
             ELSE added

\* Mutation: the filter on the kind of SDP is the wrong way round.
TakeOffer(h, m) ==
    IF m.kind = "offer" /\ remote[h] = None
    THEN remote' = [remote EXCEPT ![h] = m]
    ELSE UNCHANGED remote

\* handle_answer: set_remote_description succeeds once; an SDP that is not an
\* answer is ignored.
TakeAnswer(h, m) ==
    IF m.kind = "answer" /\ remote[h] = None
    THEN remote' = [remote EXCEPT ![h] = m]
    ELSE UNCHANGED remote

\* The receive loop; a peer connection takes candidates once it has a remote
\* description.
HostHears(h) ==
    /\ stage[h] = "loop"
    /\ \E m \in {log[i] : i \in DOMAIN log} :
          /\ Hear(h, m)
          /\ TakeAnswer(h, m)
          /\ AddCandidate(h, IF remote[h] = None THEN None ELSE h, m)
    /\ UNCHANGED <<program, server, clientPcs, gathered, iceQueue, readers>>

\* The receive loop ends with the socket; nothing else of the host does, and
\* nothing connects again.
HostCut(h) ==
    /\ stage[h] = "loop"
    /\ To(h, "cut")
    /\ UNCHANGED <<tries, server, channel, remote, clientPcs, ice, readers>>

HostExits(h) ==
    /\ stage[h] \in {"joined", "offering", "loop", "cut"}
    /\ To(h, "gone")
    /\ remote' = [remote EXCEPT ![h] = None]
    /\ UNCHANGED <<tries, server, channel, clientPcs, ice, readers>>

-----------------------------------------------------------------------------
\* The client

\* handle_offer begins: a new peer connection takes the offer, sets the local
\* description and starts to gather.
ReceiveOffer(c) ==
    /\ stage[c] = "loop"
    /\ \E m \in {log[i] : i \in DOMAIN log} :
          /\ Hear(c, m) /\ m.kind = "offer"
          /\ open' = open \cup {<<c, m.pc>>}
          /\ serving' = [serving EXCEPT ![c] = m.pc]
    /\ To(c, "answering")
    /\ UNCHANGED <<tries, server, remote, stored, failed, ice, readers>>

\* A step of handle_offer fails, logged: there is no peer connection, or it is
\* dropped unclosed.  With the local description set nothing more can fail.
OfferFails(c) ==
    /\ stage[c] = "answering"
    /\ <<c, serving[c]>> \notin gathered
    /\ open' \in {open, open \ {<<c, serving[c]>>}}
    /\ failed' = failed \cup {<<c, serving[c]>>}
    /\ serving' = [serving EXCEPT ![c] = None]
    /\ To(c, "loop")
    /\ UNCHANGED <<tries, server, channel, remote, stored, ice, readers>>

\* Mutation: the peer connection that is replaced stays open.
KeepOld(c) == open' = open

\* The peer connection that was kept is closed.
CloseOld(c) == open' = open \ {<<c, stored[c]>>}

\* Mutation: what is kept stays, whatever is answered later.
AnswerKeepFirst(c) ==
    /\ stage[c] = "answering"
    /\ stored' = [stored EXCEPT ![c] = IF @ = None THEN serving[c] ELSE @]
    /\ serving' = [serving EXCEPT ![c] = None]
    /\ Send(c, "answer", serving[c])
    /\ To(c, "loop")
    /\ UNCHANGED <<tries, server, at, remote, open, failed, ice, readers>>

\* The new peer connection is kept and the answer goes out.
SendAnswer(c) ==
    /\ stage[c] = "answering"
    /\ CloseOld(c)
    /\ stored' = [stored EXCEPT ![c] = serving[c]]
    /\ serving' = [serving EXCEPT ![c] = None]
    /\ Send(c, "answer", serving[c])
    /\ To(c, "loop")
    /\ UNCHANGED <<tries, server, at, remote, failed, ice, readers>>

\* handle_ice: the candidate goes to the peer connection that is kept; other
\* messages change nothing.
ReceiveOther(c) ==
    /\ stage[c] = "loop"
    /\ \E m \in {log[i] : i \in DOMAIN log} :
          /\ Hear(c, m) /\ m.kind # "offer"
          /\ AddCandidate(c, stored[c], m)
    /\ UNCHANGED <<program, server, remote, clientPcs, gathered, iceQueue, readers>>

\* A peer connection with a local description finds its candidate.
ClientGathers(c, h) ==
    /\ h = serving[c] \/ h = stored[c]
    /\ <<c, h>> \in open \ (failed \cup gathered)
    /\ Cardinality(gathered) < MaxIce
    /\ gathered' = gathered \cup {<<c, h>>}
    /\ iceQueue' = [iceQueue EXCEPT ![c] = Append(@, h)]
    /\ UNCHANGED <<program, server, channel, remote, clientPcs, added, readers>>

\* Mutation: a candidate is sent while the offer is being handled.
ClientCandidateAtOnce(c) ==
    /\ stage[c] \in {"loop", "answering"}
    /\ iceQueue[c] # <<>>
    /\ Send(c, "ice", Head(iceQueue[c]))
    /\ iceQueue' = [iceQueue EXCEPT ![c] = Tail(@)]
    /\ UNCHANGED <<program, server, at, remote, clientPcs, gathered, added, readers>>

\* The relay loop takes a candidate from the queue between two messages.
ClientCandidate(c) ==
    /\ stage[c] = "loop"
    /\ iceQueue[c] # <<>>
    /\ Send(c, "ice", Head(iceQueue[c]))
    /\ iceQueue' = [iceQueue EXCEPT ![c] = Tail(@)]
    /\ UNCHANGED <<program, server, at, remote, clientPcs, gathered, added, readers>>

\* Mutation: only the reader is aborted when the transport is dropped.
DropReader(c) ==
    /\ reader' = [x \in Pcs |-> IF x = <<c, dcTask[c]>> THEN "ended" ELSE reader[x]]
    /\ dcTask' = [dcTask EXCEPT ![c] = None]
    /\ serving' = [serving EXCEPT ![c] = None]
    /\ UNCHANGED <<open, stored>>

\* Drop for WebrtcTransport: the peer connection that is kept is closed, the
\* reader that is known is aborted.  A peer connection whose answer is on its
\* way is kept already, the one it replaces closed.
DropTransport(c) ==
    /\ reader' = [x \in Pcs |-> IF x = <<c, dcTask[c]>> THEN "ended" ELSE reader[x]]
    /\ dcTask' = [dcTask EXCEPT ![c] = None]
    /\ open' = open \ {<<c, stored[c]>>, <<c, serving[c]>>}
    /\ stored' = [stored EXCEPT ![c] = None]
    /\ serving' = [serving EXCEPT ![c] = None]

\* The relay loop ends with the socket, be it at the write of an answer; what
\* waits in its queue is lost, and connect() returns Ok, after which the client
\* does not connect again.
ClientLeaves(c) ==
    /\ stage[c] \in {"loop", "answering"}
    /\ To(c, "gone")
    /\ DropTransport(c)
    /\ iceQueue' = [iceQueue EXCEPT ![c] = <<>>]
    /\ UNCHANGED <<tries, server, channel, remote, failed, gathered, added>>

-----------------------------------------------------------------------------
\* Data channels

\* The host's data channel appears at the client: the two peer connections
\* have each other's description and are both there.
Connected(c, h) ==
    /\ stage[h] \in {"loop", "cut"}
    /\ <<c, h>> \in open
    /\ remote[h] = [kind |-> "answer", from |-> c, pc |-> h]

\* on_data_channel aborts the reader it finds.
DataChannelOpens(c, h) ==
    /\ Connected(c, h)
    /\ reader[<<c, h>>] = "none"
    /\ reader' = [x \in Pcs |-> IF x = <<c, h>> THEN "opening"
                                ELSE IF x = <<c, dcTask[c]>> THEN "ended" ELSE reader[x]]
    /\ dcTask' = [dcTask EXCEPT ![c] = None]
    /\ UNCHANGED <<program, server, channel, remote, clientPcs, ice>>

\* Having awaited the channel it spawns the new reader and records it, over
\* whatever another callback has recorded meanwhile.
ReaderStarts(c, h) ==
    /\ reader[<<c, h>>] = "opening"
    /\ reader' = [reader EXCEPT ![<<c, h>>] = "running"]
    /\ dcTask' = [dcTask EXCEPT ![c] = h]
    /\ UNCHANGED <<program, server, channel, remote, clientPcs, ice>>

\* The reader hears that its channel is closed.
ReaderEnds(c, h) ==
    /\ reader[<<c, h>>] = "running"
    /\ <<c, h>> \notin open \/ stage[h] = "gone"
    /\ reader' = [reader EXCEPT ![<<c, h>>] = "ended"]
    /\ UNCHANGED <<dcTask, program, server, channel, remote, clientPcs, ice>>

-----------------------------------------------------------------------------
Scheduled ==
    \/ \E s \in Sessions : Subscribe(s) \/ ServerForgets(s)
    \/ \E h \in Hosts : HostHears(h)
    \/ \E c \in Clients :
          \/ ReceiveOffer(c) \/ ReceiveOther(c)
          \/ SendAnswer(c) \/ ClientCandidate(c)
    \/ \E c \in Clients, h \in Hosts : ReaderStarts(c, h) \/ ReaderEnds(c, h)

Next ==
    \/ Scheduled
    \/ \E s \in Sessions : ConnectFails(s) \/ Join(s) \/ FindNoRoom(s) \/ CreateLate(s)
    \/ \E h \in Hosts :
          \/ CreateOffer(h) \/ SendOffer(h) \/ HostCandidate(h)
          \/ HostCut(h) \/ HostExits(h)
    \/ \E c \in Clients : OfferFails(c) \/ ClientLeaves(c)
    \/ \E c \in Clients, h \in Hosts : ClientGathers(c, h) \/ DataChannelOpens(c, h)

Spec == Init /\ [][Next]_vars

\* The runtimes run what can run and the server relays; nobody has to join, to
\* offer, to find a candidate or to stay.
Fairness ==
    /\ \A s \in Sessions : WF_vars(Subscribe(s))
    /\ \A h \in Hosts : WF_vars(HostHears(h))
    /\ \A c \in Clients : WF_vars(ReceiveOffer(c) \/ ReceiveOther(c)) /\ WF_vars(SendAnswer(c))
    /\ \A c \in Clients, h \in Hosts : WF_vars(ReaderStarts(c, h)) /\ WF_vars(ReaderEnds(c, h))

FairSpec == Spec /\ Fairness

-----------------------------------------------------------------------------
\* Properties

\* A host never loses a client's candidate for coming early: by the time it
\* reads one that is meant for its peer connection it has read an answer.
ClientCandidatesArrive ==
    \A h \in Hosts : \A i \in 1..at[h] :
        (log[i].kind = "ice" /\ log[i].from \in Clients /\ log[i].pc = h)
            => <<h, log[i]>> \in added[h]

\* The peer connections a client has not closed are the one it keeps, the one
\* it is making, and those whose offer it failed to answer.
NoOpenPcIsForgotten ==
    \A c \in Clients, h \in Hosts :
        <<c, h>> \in open => h \in {stored[c], serving[c]} \/ <<c, h>> \in failed

\* A host's candidate that comes after its offer is not given to the peer
\* connection of another host, however sessions follow one another; unless
\* the client failed to answer that offer, or one of the two hosts had lost
\* its role to a late creator, so that both spoke at once.
CandidateFindsItsPc ==
    \A c \in Clients : \A x \in added[c] :
        LET h == x[2].from IN
        (h \in Hosts /\ x[1] # h) =>
            \/ <<c, h>> \in failed
            \/ h \in evicted \/ x[1] \in evicted
            \/ \E i \in DOMAIN log :
                  /\ log[i] = x[2]
                  /\ \A j \in 1..i : log[j] # [x[2] EXCEPT !.kind = "offer"]

\* Candidates, which race the descriptions they belong to, are neither lost on
\* their way to the host nor given to the wrong peer connection at the client.
CandidatesReachTheirPc == ClientCandidatesArrive /\ CandidateFindsItsPc

\* An offer that a client has yet to read, while its host has no answer, leads
\* to an answer the host takes, if neither of them goes and the client does
\* not fail to answer.
OfferIsAnswered ==
    \A c \in Clients, h \in Hosts :
        (/\ stage[h] = "loop" /\ c \in listening /\ h \in listening
         /\ \E i \in (at[c] + 1)..Len(log) : log[i].kind = "offer" /\ log[i].from = h)
            ~> \/ remote[h] # None /\ remote[h].kind = "answer"
               \/ stage[h] # "loop" \/ stage[c] = "gone" \/ <<c, h>> \in failed

\* When a client's signalling has ended, its peer connections and the readers
\* of their channels end too, those whose callback was still under way and
\* those whose handle was overwritten included.
NothingOutlivesSignalling ==
    \A c \in Clients :
        stage[c] = "gone" ~>
            \A h \in Hosts : /\ reader[<<c, h>>] \notin {"opening", "running"}
                             /\ <<c, h>> \in open => <<c, h>> \in failed
=============================================================================
