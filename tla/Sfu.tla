-------------------------------- MODULE Sfu --------------------------------
(***************************************************************************)
(* The SFU side of one room (server/src/sfu.rs), as the connections'       *)
(* handlers drive it (handle_sfu_message and the teardown of handle_socket *)
(* in server/src/signaling.rs); built with the feature sfu-mediasoup.      *)
(*                                                                         *)
(* SfuManager keeps a DashMap of rooms.  A call on it takes the map's      *)
(* shard lock and, while somebody else holds that lock, blocks the worker  *)
(* thread of the runtime it runs on.  create_producer and create_consumer  *)
(* keep the lock while they await mediasoup.  A step of a task therefore   *)
(* needs a worker thread, and a task that waits for the lock keeps one.    *)
(*                                                                         *)
(* create_webrtc_transport takes the room and the peer id from the         *)
(* client's message, and the other requests take the room from it and the  *)
(* peer id of the connection; nothing compares them with the room the      *)
(* connection is in or with its id.  The teardown uses the connection's    *)
(* own room and id.  The model therefore follows one room of the map, the  *)
(* connections inside it and those of other rooms that name it, and lets a *)
(* request name any id.                                                    *)
(*                                                                         *)
(* mediasoup itself is external: each request to it succeeds or fails.     *)
(* The room registry is represented by the connections it has in the room  *)
(* and by the answer of leave_room (see RemovalIsReported in Rooms).  A    *)
(* connection that found no room inserts one late and takes the place of   *)
(* those that came in between (see OnlyLateCreatorEvicts in Rooms).        *)
(***************************************************************************)
EXTENDS FiniteSets, Naturals

CONSTANTS
    Peers,      \* connections, and the peer ids they are given
    Names,      \* the peer ids a message may carry
    NoPeer,     \* no peer id, and nobody holds the lock
    NoRoom,     \* the map has no entry for the room
    Workers,    \* worker threads of the runtime
    MaxCalls    \* bound: SFU requests one connection makes

\* The shapes of an SfuPeer (its transports, by the router they were made on,
\* 0 for none, and what it produces and consumes) and of an SfuRoom, over the
\* routers R.
SfuPeer(R) == [send : R \cup {0}, recv : R \cup {0}, produces : BOOLEAN, consumes : SUBSET Names]
SfuRoom(R) == [router : R, peers : UNION {[S -> SfuPeer(R)] : S \in SUBSET Names}]

ASSUME SfuConstantsOK ==
    /\ Peers \subseteq Names
    /\ NoPeer \notin Names
    /\ NoRoom \notin SfuRoom(Nat \ {0})
    /\ Workers \in Nat \ {0}
    /\ MaxCalls \in Nat

VARIABLES
    room,       \* the SfuRoom: its router and its peers, or NoRoom
    routers,    \* routers created so far; they are numbered from 1
    at,         \* where each connection's handler stands
    inside,     \* the connections whose own room this is
    name,       \* the peer id a running create_webrtc_transport was sent
    router,     \* the router it holds
    target,     \* the producer (by its peer) a running create_consumer found
    lock,       \* who holds the shard lock across an await
    blocked,    \* the tasks that wait for the lock, each on a worker thread
    admitted,   \* the connections the room registry has in the room
    calls       \* SFU requests made by each connection

\* What only a join or a leave changes, and what only a creation changes.
registry == <<inside, admitted>>
creation == <<name, router>>

vars == <<room, routers, at, creation, target, lock, blocked, registry, calls>>

Directions == {"send", "recv"}

NewPeer == [send |-> 0, recv |-> 0, produces |-> FALSE, consumes |-> {}]

Stages == {"out", "create", "idle", "getSend", "getRecv", "routerSend", "routerRecv", "send", "recv",
           "produce", "producing", "find", "consume", "consuming",
           "remove", "drop", "leave", "destroy", "gone"}

TypeOK ==
    /\ routers \in Nat
    /\ room \in SfuRoom(1..routers) \cup {NoRoom}
    /\ at \in [Peers -> Stages]
    /\ inside \subseteq Peers
    /\ name \in [Peers -> Names \cup {NoPeer}]
    /\ router \in [Peers -> 0..routers]
    /\ target \in [Peers -> Names \cup {NoPeer}]
    /\ lock \in Peers \cup {NoPeer}
    /\ blocked \subseteq Peers \ {lock}
    /\ admitted \subseteq inside
    /\ calls \in [Peers -> 0..MaxCalls]

Init ==
    /\ room = NoRoom
    /\ routers = 0
    /\ at = [p \in Peers |-> "out"]
    /\ inside = {}
    /\ name = [p \in Peers |-> NoPeer]
    /\ router = [p \in Peers |-> 0]
    /\ target = [p \in Peers |-> NoPeer]
    /\ lock = NoPeer
    /\ blocked = {}
    /\ admitted = {}
    /\ calls = [p \in Peers |-> 0]

-----------------------------------------------------------------------------
\* Tasks, worker threads and the lock

OnWorker(p) == p \in blocked \/ Cardinality(blocked) < Workers

\* The stages whose next step takes the shard lock.
LockStages == {"getSend", "getRecv", "routerSend", "routerRecv", "send", "recv",
               "produce", "find", "consume", "remove", "drop", "destroy"}

Goto(p, stage) == at' = [at EXCEPT ![p] = stage]

\* p runs its next step, from a stage, without the lock being in the way.
Step(p, stage) ==
    /\ at[p] = stage
    /\ OnWorker(p)
    /\ stage \in LockStages => lock = NoPeer
    /\ blocked' = blocked \ {p}

\* p gets a worker thread and finds the lock taken.
Block(p) ==
    /\ at[p] \in LockStages
    /\ lock # NoPeer
    /\ p \notin blocked
    /\ OnWorker(p)
    /\ blocked' = blocked \cup {p}
    /\ UNCHANGED <<room, routers, at, creation, target, lock, registry, calls>>

Has(n) == room # NoRoom /\ n \in DOMAIN room.peers

\* The room with the entry of peer id n set.
With(n, entry) ==
    [room EXCEPT !.peers = [q \in DOMAIN @ \cup {n} |-> IF q = n THEN entry ELSE @[q]]]

-----------------------------------------------------------------------------
\* The handler outside the SFU calls

\* The connection joins: a room of its own choosing, or this one, with those
\* that are there.  One that finds no room is to insert it.
Join(p) ==
    /\ Step(p, "out")
    /\ \/ Goto(p, "idle") /\ UNCHANGED registry
       \/ /\ inside' = inside \cup {p}
          /\ IF admitted = {} THEN Goto(p, "create") /\ UNCHANGED admitted
             ELSE Goto(p, "idle") /\ admitted' = admitted \cup {p}
    /\ UNCHANGED <<room, routers, creation, target, lock, calls>>

\* The insert of join_room, without another look: it takes the place of a
\* room that has come up since the lookup.
Create(p) ==
    /\ Step(p, "create")
    /\ admitted' = {p}
    /\ Goto(p, "idle")
    /\ UNCHANGED <<room, routers, creation, target, lock, inside, calls>>

\* The client sends an SFU request: to create a transport, under any peer id;
\* to produce or to consume, under its own.
Request(p) ==
    /\ Step(p, "idle")
    /\ calls[p] < MaxCalls
    /\ calls' = [calls EXCEPT ![p] = @ + 1]
    /\ \/ /\ \E call \in {"getSend", "getRecv"} : Goto(p, call)
          /\ \E n \in Names : name' = [name EXCEPT ![p] = n]
       \/ /\ \E call \in {"produce", "find"} : Goto(p, call)
          /\ UNCHANGED name
    /\ UNCHANGED <<room, routers, router, target, lock, registry>>

\* Mutation: the teardown does not call remove_peer.
DisconnectOnly(p) ==
    /\ Step(p, "idle")
    /\ Goto(p, "leave")
    /\ UNCHANGED <<room, routers, creation, target, lock, registry, calls>>

Disconnect(p) ==
    /\ Step(p, "idle")
    /\ Goto(p, "remove")
    /\ UNCHANGED <<room, routers, creation, target, lock, registry, calls>>

-----------------------------------------------------------------------------
\* create_webrtc_transport

\* The room's router, if the room is there; else a router is asked for.
GetRouter(p) ==
    \E d \in Directions :
        /\ Step(p, IF d = "send" THEN "getSend" ELSE "getRecv")
        /\ IF room # NoRoom
           THEN router' = [router EXCEPT ![p] = room.router] /\ Goto(p, d)
           ELSE Goto(p, IF d = "send" THEN "routerSend" ELSE "routerRecv") /\ UNCHANGED router
        /\ UNCHANGED <<room, routers, name, target, lock, registry, calls>>

\* The new router comes with a new SfuRoom, which replaces one that another
\* connection has inserted during the await.
RouterMade(p) ==
    \E d \in Directions :
        /\ Step(p, IF d = "send" THEN "routerSend" ELSE "routerRecv")
        /\ routers' = routers + 1
        /\ room' = [router |-> routers + 1, peers |-> [q \in {} |-> NewPeer]]
        /\ router' = [router EXCEPT ![p] = routers + 1]
        /\ Goto(p, d)
        /\ UNCHANGED <<name, target, lock, registry, calls>>

\* The call is over; what it held is dropped.
CreateEnds(p) ==
    /\ Goto(p, "idle")
    /\ name' = [name EXCEPT ![p] = NoPeer]
    /\ router' = [router EXCEPT ![p] = 0]

\* Mutation: insert of a new SfuPeer instead of entry().or_insert_with().
StoreAfresh(p) ==
    \E d \in Directions :
        /\ Step(p, d)
        /\ room' = IF room = NoRoom THEN room
                   ELSE With(name[p], [NewPeer EXCEPT ![d] = router[p]])
        /\ CreateEnds(p)
        /\ UNCHANGED <<routers, target, lock, registry, calls>>

\* The transport is stored, under the peer id of the message, if the room is
\* still there; the answer is Ok in either case.
TransportMade(p) ==
    \E d \in Directions :
        /\ Step(p, d)
        /\ room' = IF room = NoRoom THEN room
                   ELSE With(name[p], [(IF Has(name[p]) THEN room.peers[name[p]] ELSE NewPeer)
                                         EXCEPT ![d] = router[p]])
        /\ CreateEnds(p)
        /\ UNCHANGED <<routers, target, lock, registry, calls>>

\* mediasoup refuses the router or the transport (a blocked task has already
\* been given it).
CreateFailed(p) ==
    /\ at[p] \in {"routerSend", "routerRecv", "send", "recv"}
    /\ p \notin blocked
    /\ OnWorker(p)
    /\ CreateEnds(p)
    /\ UNCHANGED <<room, routers, target, lock, blocked, registry, calls>>

-----------------------------------------------------------------------------
\* create_producer

\* Without room, peer and send transport the call fails at once; with them
\* it awaits mediasoup, holding the lock.
Produce(p) ==
    /\ Step(p, "produce")
    /\ IF Has(p) /\ room.peers[p].send # 0
       THEN lock' = p /\ Goto(p, "producing")
       ELSE Goto(p, "idle") /\ UNCHANGED lock
    /\ UNCHANGED <<room, routers, creation, target, registry, calls>>

Produced(p) ==
    /\ Step(p, "producing")
    /\ lock' = NoPeer
    /\ room' \in {room, With(p, [room.peers[p] EXCEPT !.produces = TRUE])}
    /\ Goto(p, "idle")
    /\ UNCHANGED <<routers, creation, target, registry, calls>>

-----------------------------------------------------------------------------
\* create_consumer

\* Mutation: the guard of the lookup lives until the end of the call.
FindKeepingGuard(p) ==
    /\ Step(p, "find")
    /\ \E n \in Names : /\ Has(n) /\ room.peers[n].produces
                        /\ target' = [target EXCEPT ![p] = n]
    /\ lock' = p
    /\ Goto(p, "consume")
    /\ UNCHANGED <<room, routers, creation, registry, calls>>

\* Look the producer up; the guard is released before the next lookup.
FindProducer(p) ==
    /\ Step(p, "find")
    /\ \/ \E n \in Names : /\ Has(n) /\ room.peers[n].produces
                           /\ target' = [target EXCEPT ![p] = n]
                           /\ Goto(p, "consume")
       \/ Goto(p, "idle") /\ UNCHANGED target
    /\ UNCHANGED <<room, routers, creation, lock, registry, calls>>

\* The consumer's own transport, which is there or the call fails.
Consume(p) ==
    /\ Step(p, "consume")
    /\ IF Has(p) /\ room.peers[p].recv # 0
       THEN lock' = p /\ Goto(p, "consuming") /\ UNCHANGED target
       ELSE Goto(p, "idle") /\ UNCHANGED lock /\ target' = [target EXCEPT ![p] = NoPeer]
    /\ UNCHANGED <<room, routers, creation, registry, calls>>

Consumed(p) ==
    /\ Step(p, "consuming")
    /\ lock' = NoPeer
    /\ room' \in {room, With(p, [room.peers[p] EXCEPT !.consumes = @ \cup {target[p]}])}
    /\ target' = [target EXCEPT ![p] = NoPeer]
    /\ Goto(p, "idle")
    /\ UNCHANGED <<routers, creation, registry, calls>>

-----------------------------------------------------------------------------
\* Teardown

\* remove_peer, of the connection's own room and id, drops that entry; when it
\* was the last one the lock is released and remove_room is called.
RemovePeer(p) ==
    /\ Step(p, "remove")
    /\ IF p \in inside /\ Has(p)
       THEN LET left == DOMAIN room.peers \ {p}
            IN  /\ room' = [room EXCEPT !.peers = [q \in left |-> @[q]]]
                /\ Goto(p, IF left = {} THEN "drop" ELSE "leave")
       ELSE Goto(p, "leave") /\ UNCHANGED room
    /\ UNCHANGED <<routers, creation, target, lock, registry, calls>>

\* remove_room, from remove_peer.
DropRoom(p) ==
    /\ Step(p, "drop")
    /\ room' = NoRoom
    /\ Goto(p, "leave")
    /\ UNCHANGED <<routers, creation, target, lock, registry, calls>>

\* Mutation: the answer of leave_room is not looked at.
LeaveOnly(p) ==
    /\ Step(p, "leave")
    /\ admitted' = admitted \ {p}
    /\ Goto(p, "gone")
    /\ UNCHANGED <<room, routers, creation, target, lock, inside, calls>>

\* leave_room; its answer says whether the registry has no such room now, the
\* room of a connection that has lost its place to a late creator included.
LeaveRoom(p) ==
    /\ Step(p, "leave")
    /\ admitted' = admitted \ {p}
    /\ Goto(p, IF p \in inside /\ admitted' = {} THEN "destroy" ELSE "gone")
    /\ UNCHANGED <<room, routers, creation, target, lock, inside, calls>>

\* remove_room, because the registry's room is gone.
DestroyRoom(p) ==
    /\ Step(p, "destroy")
    /\ room' = NoRoom
    /\ Goto(p, "gone")
    /\ UNCHANGED <<routers, creation, target, lock, registry, calls>>

-----------------------------------------------------------------------------
\* What the runtime and mediasoup bring about once a request is made.
Running(p) ==
    \/ Create(p) \/ Block(p) \/ GetRouter(p) \/ RouterMade(p) \/ TransportMade(p) \/ CreateFailed(p)
    \/ Produce(p) \/ Produced(p) \/ FindProducer(p) \/ Consume(p) \/ Consumed(p)
    \/ RemovePeer(p) \/ DropRoom(p) \/ LeaveRoom(p) \/ DestroyRoom(p)

Next == \E p \in Peers : Running(p) \/ Join(p) \/ Request(p) \/ Disconnect(p)

Spec == Init /\ [][Next]_vars

\* Tasks that can run do, and mediasoup answers; clients do as they like.
FairSpec == Spec /\ \A p \in Peers : WF_vars(Running(p))

-----------------------------------------------------------------------------
\* Properties

\* Past remove_peer a connection removes no entry any more.
Past == {"drop", "leave", "destroy", "gone"}

\* An entry no connection is going to remove: under an id nobody in the room
\* has, or has any more.
Ghost(n) == Has(n) /\ ~(n \in inside /\ at[n] \notin Past)

\* A room nobody in it is going to remove.
Abandoned == room # NoRoom /\ \A p \in inside : at[p] = "gone"

\* Some connection's transport has just been made and stored under n, which is
\* not its own id in its own room.
Lent(n) == \E p \in Peers : /\ at[p] \in Directions /\ at'[p] = "idle" /\ name[p] = n
                            /\ ~(p = n /\ p \in inside)

\* A connection of another room has just made the room's router.
Strayed == \E p \in Peers \ inside : at[p] \in {"routerSend", "routerRecv"} /\ at'[p] \in Directions

\* No departure leaves anything behind, whichever teardowns, late inserts and
\* evictions it meets: neither an entry with its transports and producers, nor
\* the room with its router.  Only a request that names what is not the
\* sender's own makes an entry or a room that nobody will remove.
DeparturesLeaveNothing ==
    [][/\ \A n \in Names : Ghost(n)' => Ghost(n) \/ Lent(n)
       /\ Abandoned' => Abandoned \/ Strayed]_vars

\* What costs peer id n its entry: its own connection's teardown, or a
\* connection that inserts its own SfuRoom late or removes the room late.
Late == {"routerSend", "routerRecv", "drop", "destroy"}
Undone(n) ==
    \/ n \in inside /\ at[n] = "remove" /\ at'[n] # "remove"
    \/ \E q \in Peers : at[q] \in Late /\ at'[q] # at[q]

\* A transport for direction d has just been made under n's id.
Renewed(n, d) == \E q \in Peers : at[q] = d /\ at'[q] # d /\ name[q] = n

\* What is stored under a peer id - its transports, that it produces, what it
\* consumes - is lost in no other way: no request under another id and no
\* other peer's departure costs it any of them, and a new transport under its
\* own id, whoever asked for it, replaces that one transport only.
StoredIsKept ==
    [][\A n \in Names : Has(n) /\ ~Undone(n) =>
          /\ Has(n)'
          /\ room.peers[n].produces => room'.peers[n].produces
          /\ room.peers[n].consumes \subseteq room'.peers[n].consumes
          /\ \A d \in Directions :
                room.peers[n][d] = 0 \/ Renewed(n, d) \/ room'.peers[n][d] = room.peers[n][d]]_vars

\* With a worker thread to spare for every waiting connection, no request
\* and no teardown hangs, although locks are held across awaits.
CallsFinish ==
    \A p \in Peers : at[p] \notin {"out", "idle", "gone"} ~> at[p] \in {"idle", "gone"}

=============================================================================
