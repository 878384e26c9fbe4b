------------------------------ MODULE SfuProofs ------------------------------
(***************************************************************************)
(* Proofs about Sfu, for every set of connections, every number of worker  *)
(* threads and every bound on the requests: the types, the discipline of   *)
(* the lock that is held across an await, and DeparturesLeaveNothing and   *)
(* StoredIsKept from it.                                                   *)
(***************************************************************************)
EXTENDS Sfu, FiniteSetTheorems, TLAPS

USE DEF Directions, registry, creation

-----------------------------------------------------------------------------
\* The room and its entries

\* A room record in full.
LEMMA SfuRoomShape ==
    ASSUME NEW R, NEW r \in SfuRoom(R)
    PROVE  /\ r.router \in R
           /\ DOMAIN r.peers \subseteq Names
           /\ \A p \in DOMAIN r.peers : r.peers[p] \in SfuPeer(R)
           /\ r = [router |-> r.router, peers |-> r.peers]
           /\ r.peers = [p \in DOMAIN r.peers |-> r.peers[p]]
  <1>1. PICK S \in SUBSET Names : r.peers \in [S -> SfuPeer(R)]
    BY DEF SfuRoom
  <1>2. QED
    BY <1>1 DEF SfuRoom

\* A record is a room when its parts are.
LEMMA SfuRoomOf ==
    ASSUME NEW R, NEW n \in R, NEW S \in SUBSET Names, NEW f \in [S -> SfuPeer(R)]
    PROVE  [router |-> n, peers |-> f] \in SfuRoom(R)
  <1>1. f \in UNION {[T -> SfuPeer(R)] : T \in SUBSET Names}
    OBVIOUS
  <1>2. QED
    BY <1>1 DEF SfuRoom

\* A router more makes no entry and no room ill-formed.
LEMMA SfuRoomGrows ==
    ASSUME NEW R, NEW T, R \subseteq T
    PROVE  SfuRoom(R) \subseteq SfuRoom(T)
  <1>1. SfuPeer(R) \subseteq SfuPeer(T)
    BY DEF SfuPeer
  <1> SUFFICES ASSUME NEW r \in SfuRoom(R)
               PROVE  r \in SfuRoom(T)
    OBVIOUS
  <1>2. /\ r.router \in T
        /\ DOMAIN r.peers \in SUBSET Names
        /\ r.peers \in [DOMAIN r.peers -> SfuPeer(T)]
    BY <1>1, SfuRoomShape
  <1>3. [router |-> r.router, peers |-> r.peers] \in SfuRoom(T)
    BY <1>2, SfuRoomOf
  <1>4. QED
    BY <1>3, SfuRoomShape

\* With sets the entry of one peer id and leaves the router and the others alone.
LEMMA WithSets ==
    ASSUME NEW R, room \in SfuRoom(R), NEW n \in Names, NEW entry \in SfuPeer(R)
    PROVE  /\ With(n, entry) \in SfuRoom(R)
           /\ With(n, entry).router = room.router
           /\ DOMAIN With(n, entry).peers = DOMAIN room.peers \cup {n}
           /\ With(n, entry).peers[n] = entry
           /\ \A q \in DOMAIN room.peers : q # n => With(n, entry).peers[q] = room.peers[q]
  <1> DEFINE f == [q \in DOMAIN room.peers \cup {n} |-> IF q = n THEN entry ELSE room.peers[q]]
  <1>1. /\ room.router \in R
        /\ DOMAIN room.peers \subseteq Names
        /\ \A q \in DOMAIN room.peers : room.peers[q] \in SfuPeer(R)
        /\ room = [router |-> room.router, peers |-> room.peers]
    BY SfuRoomShape
  <1>2. With(n, entry) = [router |-> room.router, peers |-> f]
    <2> HIDE DEF f
    <2>1. With(n, entry) = [room EXCEPT !.peers = f]
      BY DEF With, f
    <2>2. QED
      BY <1>1, <2>1
  <1>3. DOMAIN room.peers \cup {n} \in SUBSET Names /\ f \in [DOMAIN room.peers \cup {n} -> SfuPeer(R)]
    BY <1>1
  <1>4. With(n, entry) \in SfuRoom(R)
    <2> HIDE DEF f
    <2>1. QED
      BY <1>1, <1>2, <1>3, SfuRoomOf
  <1>5. QED
    BY <1>2, <1>4

\* An absent room is no room: the answer of a lookup is never mistaken.
LEMMA RoomIsThere ==
    ASSUME NEW n \in Nat, NEW r \in SfuRoom(1..n)
    PROVE  r # NoRoom
  <1>1. 1..n \subseteq Nat \ {0}
    OBVIOUS
  <1>2. r \in SfuRoom(Nat \ {0})
    BY <1>1, SfuRoomGrows
  <1>3. QED
    BY <1>2, SfuConstantsOK

-----------------------------------------------------------------------------
\* The inductive invariant

\* A call that awaits mediasoup with the lock in its hands: it holds the
\* lock, nobody else does, and the entry it looked up is still there.
HeldAcrossAwait ==
    /\ \A p \in Peers : at[p] \in {"producing", "consuming"} => lock = p /\ Has(p)
    /\ lock # NoPeer => at[lock] \in {"producing", "consuming"}

\* A create_consumer past its lookup has a producer to consume, and a running
\* create_webrtc_transport the peer id it was sent.
Creating == {"getSend", "getRecv", "routerSend", "routerRecv", "send", "recv"}
NamesAreKnown ==
    \A p \in Peers : /\ at[p] \in {"consume", "consuming"} => target[p] \in Names
                     /\ at[p] \in Creating => name[p] \in Names

\* The registry gives up a connection no later than its leave_room, and who is
\* about to insert the room into it is in that room.
AdmittedAreServed ==
    /\ \A p \in admitted : at[p] \notin {"destroy", "gone"}
    /\ \A p \in Peers : at[p] = "create" => p \in inside

SfuInv ==
    /\ TypeOK
    /\ HeldAcrossAwait
    /\ NamesAreKnown
    /\ AdmittedAreServed

-----------------------------------------------------------------------------
\* What a step of p's connection can do to the room: nothing, take it down,
\* replace it by a new one, set the entry of a peer id, or drop p's entry.

Replaced == room'.router = routers' /\ room'.peers = [q \in {} |-> NewPeer] /\ routers' = routers + 1

\* What new leaves of old: all but the transports for the directions D.
KeepsBut(old, new, D) ==
    /\ old.produces => new.produces
    /\ old.consumes \subseteq new.consumes
    /\ \A d \in Directions \ D : new[d] = old[d]

EntrySet(n, D) ==
    /\ room # NoRoom /\ room' # NoRoom
    /\ room'.router = room.router
    /\ DOMAIN room'.peers = DOMAIN room.peers \cup {n}
    /\ \A q \in DOMAIN room.peers : q # n => room'.peers[q] = room.peers[q]
    /\ Has(n) => KeepsBut(room.peers[n], room'.peers[n], D)

EntryDropped(p) ==
    /\ room # NoRoom /\ room' # NoRoom
    /\ room'.router = room.router
    /\ DOMAIN room'.peers = DOMAIN room.peers \ {p}
    /\ \A q \in DOMAIN room'.peers : room'.peers[q] = room.peers[q]

\* Storing an entry of SfuPeer's shape is an EntrySet, if it keeps what it
\* should of the old one.
LEMMA StoredEntry ==
    ASSUME TypeOK, room # NoRoom, NEW n \in Names, NEW entry \in SfuPeer(1..routers), NEW D,
           room' = With(n, entry), Has(n) => KeepsBut(room.peers[n], entry, D)
    PROVE  EntrySet(n, D) /\ room' \in SfuRoom(1..routers)
  <1>1. room \in SfuRoom(1..routers) /\ routers \in Nat
    BY DEF TypeOK
  <1>2. With(n, entry) \in SfuRoom(1..routers) /\ With(n, entry) # NoRoom
    BY <1>1, WithSets, RoomIsThere
  <1>3. QED
    BY <1>1, <1>2, WithSets DEF EntrySet, Has

\* The entry of a peer that has one.
LEMMA EntryOf ==
    ASSUME TypeOK, NEW p, Has(p)
    PROVE  room \in SfuRoom(1..routers) /\ room.peers[p] \in SfuPeer(1..routers)
  <1>1. room \in SfuRoom(1..routers)
    BY DEF TypeOK, Has
  <1>2. QED
    BY <1>1, SfuRoomShape DEF Has

\* create_webrtc_transport stores its transport, under the id it was sent,
\* beside what is there.
LEMMA TransportMadeStores ==
    ASSUME TypeOK, NamesAreKnown, NEW p \in Peers, TransportMade(p)
    PROVE  /\ \/ room = NoRoom /\ room' = room
              \/ \E d \in Directions : at[p] = d /\ EntrySet(name[p], {d})
           /\ room' \in SfuRoom(1..routers) \cup {NoRoom}
           /\ name[p] \in Names
  <1> DEFINE n == name[p]
  <1>1. PICK d \in Directions :
            /\ at[p] = d
            /\ room' = IF room = NoRoom THEN room
                       ELSE With(n, [(IF Has(n) THEN room.peers[n] ELSE NewPeer) EXCEPT ![d] = router[p]])
    BY DEF TransportMade, Step
  <1>2. n \in Names
    BY <1>1 DEF NamesAreKnown, Creating
  <1>3. CASE room = NoRoom
    BY <1>1, <1>2, <1>3
  <1>4. CASE room # NoRoom
    <2> DEFINE old == IF Has(n) THEN room.peers[n] ELSE NewPeer
               new == [old EXCEPT ![d] = router[p]]
    <2>1. NewPeer \in SfuPeer(1..routers)
      BY DEF NewPeer, SfuPeer
    <2>2. old \in SfuPeer(1..routers)
      BY <2>1, EntryOf
    <2>3. router[p] \in 1..routers \cup {0}
      BY DEF TypeOK
    <2>4. new \in SfuPeer(1..routers) /\ KeepsBut(old, new, {d})
      <3> HIDE DEF old
      <3>1. CASE d = "send"
        BY <2>2, <2>3, <3>1 DEF SfuPeer, KeepsBut
      <3>2. CASE d = "recv"
        BY <2>2, <2>3, <3>2 DEF SfuPeer, KeepsBut
      <3>3. QED
        BY <3>1, <3>2
    <2>5. Has(n) => KeepsBut(room.peers[n], new, {d})
      BY <2>4
    <2>6. room' = With(n, new)
      BY <1>1, <1>4
    <2>7. EntrySet(n, {d}) /\ room' \in SfuRoom(1..routers)
      <3> HIDE DEF new, n
      <3>1. QED
        BY <1>2, <1>4, <2>4, <2>5, <2>6, StoredEntry
    <2>8. QED
      BY <1>1, <1>2, <2>7
  <1>5. QED
    BY <1>3, <1>4

\* create_producer, done: refused, or the entry it kept the lock for produces.
LEMMA ProducedStores ==
    ASSUME TypeOK, HeldAcrossAwait, NEW p \in Peers, Produced(p)
    PROVE  /\ Has(p)
           /\ room' = room \/ EntrySet(p, {})
           /\ room' \in SfuRoom(1..routers) \cup {NoRoom}
  <1>1. Has(p) /\ room # NoRoom /\ p \in Names
    BY SfuConstantsOK DEF Produced, Step, HeldAcrossAwait, Has
  <1>2. CASE room' = room
    BY <1>1, <1>2 DEF TypeOK
  <1>3. CASE room' = With(p, [room.peers[p] EXCEPT !.produces = TRUE])
    <2> DEFINE new == [room.peers[p] EXCEPT !.produces = TRUE]
    <2>1. room.peers[p] \in SfuPeer(1..routers)
      BY <1>1, EntryOf
    <2>2. new \in SfuPeer(1..routers) /\ KeepsBut(room.peers[p], new, {})
      BY <2>1 DEF SfuPeer, KeepsBut
    <2>3. QED
      <3> HIDE DEF new
      <3>1. room' = With(p, new)
        BY <1>3 DEF new
      <3>2. QED
        BY <1>1, <2>2, <3>1, StoredEntry
  <1>4. QED
    BY <1>2, <1>3 DEF Produced

\* create_consumer, done: refused, or the entry consumes one producer more.
LEMMA ConsumedStores ==
    ASSUME TypeOK, HeldAcrossAwait, NamesAreKnown, NEW p \in Peers, Consumed(p)
    PROVE  /\ Has(p)
           /\ room' = room \/ EntrySet(p, {})
           /\ room' \in SfuRoom(1..routers) \cup {NoRoom}
  <1>1. Has(p) /\ room # NoRoom /\ target[p] \in Names /\ p \in Names
    BY SfuConstantsOK DEF Consumed, Step, HeldAcrossAwait, NamesAreKnown, Has
  <1>2. CASE room' = room
    BY <1>1, <1>2 DEF TypeOK
  <1>3. CASE room' = With(p, [room.peers[p] EXCEPT !.consumes = @ \cup {target[p]}])
    <2> DEFINE new == [room.peers[p] EXCEPT !.consumes = @ \cup {target[p]}]
    <2>1. room.peers[p] \in SfuPeer(1..routers)
      BY <1>1, EntryOf
    <2>2. new \in SfuPeer(1..routers) /\ KeepsBut(room.peers[p], new, {})
      BY <1>1, <2>1 DEF SfuPeer, KeepsBut
    <2>3. QED
      <3> HIDE DEF new
      <3>1. room' = With(p, new)
        BY <1>3 DEF new
      <3>2. QED
        BY <1>1, <2>2, <3>1, StoredEntry
  <1>4. QED
    BY <1>2, <1>3 DEF Consumed

\* remove_peer drops one entry, and a peer without one has none to drop.
LEMMA RemovePeerDrops ==
    ASSUME TypeOK, NEW p \in Peers, RemovePeer(p)
    PROVE  /\ (~(p \in inside /\ Has(p)) /\ room' = room) \/ (p \in inside /\ EntryDropped(p))
           /\ room' \in SfuRoom(1..routers) \cup {NoRoom}
  <1>1. CASE ~(p \in inside /\ Has(p))
    BY <1>1 DEF RemovePeer, TypeOK
  <1>2. CASE p \in inside /\ Has(p)
    <2> DEFINE left == DOMAIN room.peers \ {p}
               f == [q \in left |-> room.peers[q]]
    <2>1. room' = [room EXCEPT !.peers = f]
      BY <1>2 DEF RemovePeer
    <2>2. room \in SfuRoom(1..routers) /\ room # NoRoom /\ routers \in Nat
      BY <1>2, EntryOf DEF Has, TypeOK
    <2>3. /\ room.router \in 1..routers
          /\ left \in SUBSET Names
          /\ f \in [left -> SfuPeer(1..routers)]
          /\ room = [router |-> room.router, peers |-> room.peers]
      BY <2>2, SfuRoomShape
    <2>4. room' = [router |-> room.router, peers |-> f]
      <3> HIDE DEF f
      <3>1. QED
        BY <2>1, <2>3
    <2>5. room' \in SfuRoom(1..routers)
      <3> HIDE DEF f, left
      <3>1. QED
        BY <2>3, <2>4, SfuRoomOf
    <2>6. room' # NoRoom
      BY <2>2, <2>5, RoomIsThere
    <2>7. QED
      BY <1>2, <2>2, <2>4, <2>5, <2>6 DEF EntryDropped
  <1>3. QED
    BY <1>1, <1>2

\* A new router comes with an empty room, whatever room was there.
LEMMA RouterMadeReplaces ==
    ASSUME TypeOK, NEW p \in Peers, RouterMade(p)
    PROVE  Replaced /\ room' \in SfuRoom(1..routers') /\ room' # NoRoom
  <1> DEFINE f == [q \in {} |-> NewPeer]
  <1>1. routers' = routers + 1 /\ room' = [router |-> routers + 1, peers |-> f]
    BY DEF RouterMade
  <1>2. routers' \in Nat /\ routers + 1 \in 1..routers'
    BY <1>1 DEF TypeOK
  <1>3. f \in [{} -> SfuPeer(1..routers')] /\ {} \in SUBSET Names
    OBVIOUS
  <1>4. room' \in SfuRoom(1..routers')
    <2> HIDE DEF f
    <2>1. QED
      BY <1>1, <1>2, <1>3, SfuRoomOf
  <1>5. QED
    BY <1>1, <1>2, <1>4, RoomIsThere DEF Replaced

\* The room after any step, in one place.
RoomMoves(p) ==
    \/ room' = room
    \/ room' = NoRoom /\ at[p] \in {"drop", "destroy"} /\ at'[p] # at[p] /\ lock = NoPeer
    \/ /\ Replaced /\ room' # NoRoom /\ lock = NoPeer
       /\ at[p] \in {"routerSend", "routerRecv"} /\ at'[p] \in Directions
    \/ EntrySet(p, {}) /\ Has(p) /\ lock = p
    \/ \E d \in Directions : /\ EntrySet(name[p], {d}) /\ name[p] \in Names
                             /\ at[p] = d /\ at'[p] = "idle" /\ lock = NoPeer
    \/ EntryDropped(p) /\ p \in inside /\ at[p] = "remove" /\ at'[p] # "remove" /\ lock = NoPeer

LEMMA RoomStep ==
    ASSUME TypeOK, HeldAcrossAwait, NamesAreKnown, NEW p \in Peers,
           Running(p) \/ Join(p) \/ Request(p) \/ Disconnect(p)
    PROVE  /\ RoomMoves(p) /\ at' = [at EXCEPT ![p] = at'[p]]
           /\ room' \in SfuRoom(1..routers') \cup {NoRoom}
  <1> USE DEF RoomMoves, Step, Goto, LockStages
  <1>1. at \in [Peers -> Stages] /\ room \in SfuRoom(1..routers) \cup {NoRoom}
    BY DEF TypeOK
  <1>2. ASSUME room' = room, routers' = routers, at' = at \/ \E stage : at' = [at EXCEPT ![p] = stage]
        PROVE  /\ RoomMoves(p) /\ at' = [at EXCEPT ![p] = at'[p]]
               /\ room' \in SfuRoom(1..routers') \cup {NoRoom}
    BY <1>1, <1>2
  <1>3. CASE Join(p)
    BY <1>2, <1>3 DEF Join
  <1>4. CASE Request(p)
    BY <1>2, <1>4 DEF Request
  <1>5. CASE Disconnect(p)
    BY <1>2, <1>5 DEF Disconnect
  <1>6. CASE Block(p)
    BY <1>2, <1>6 DEF Block
  <1>7. CASE GetRouter(p)
    BY <1>2, <1>7 DEF GetRouter
  <1>8. CASE RouterMade(p)
    BY <1>1, <1>8, RouterMadeReplaces DEF RouterMade
  <1>9. CASE TransportMade(p)
    BY <1>1, <1>9, TransportMadeStores DEF TransportMade, CreateEnds
  <1>10. CASE CreateFailed(p)
    BY <1>2, <1>10 DEF CreateFailed, CreateEnds
  <1>11. CASE Produce(p)
    BY <1>2, <1>11 DEF Produce
  <1>12. CASE Produced(p)
    <2>1. lock = p
      BY <1>12 DEF Produced, HeldAcrossAwait
    <2>2. QED
      BY <1>1, <1>12, <2>1, ProducedStores DEF Produced
  <1>13. CASE FindProducer(p)
    BY <1>2, <1>13 DEF FindProducer
  <1>14. CASE Consume(p)
    BY <1>2, <1>14 DEF Consume
  <1>15. CASE Consumed(p)
    <2>1. lock = p
      BY <1>15 DEF Consumed, HeldAcrossAwait
    <2>2. QED
      BY <1>1, <1>15, <2>1, ConsumedStores DEF Consumed
  <1>16. CASE RemovePeer(p)
    BY <1>1, <1>16, RemovePeerDrops DEF RemovePeer
  <1>17. CASE DropRoom(p)
    BY <1>1, <1>17 DEF DropRoom
  <1>18. CASE LeaveRoom(p)
    BY <1>2, <1>18 DEF LeaveRoom
  <1>19. CASE DestroyRoom(p)
    BY <1>1, <1>19 DEF DestroyRoom
  <1>20. CASE Create(p)
    BY <1>2, <1>20 DEF Create
  <1>21. QED
    BY <1>3, <1>4, <1>5, <1>6, <1>7, <1>8, <1>9, <1>10, <1>11, <1>12, <1>13, <1>14, <1>15,
       <1>16, <1>17, <1>18, <1>19, <1>20 DEF Running

-----------------------------------------------------------------------------
\* Each part of the invariant is kept

LEMMA TypeStep ==
    ASSUME TypeOK, HeldAcrossAwait, NamesAreKnown, AdmittedAreServed, NEW p \in Peers,
           Running(p) \/ Join(p) \/ Request(p) \/ Disconnect(p)
    PROVE  TypeOK'
  <1>1. room' \in SfuRoom(1..routers') \cup {NoRoom}
    BY RoomStep
  <1>2. routers' \in Nat /\ routers <= routers'
    BY DEF TypeOK, Running, Block, GetRouter, RouterMade, TransportMade, CreateFailed, CreateEnds, Create, Produce,
           Produced, FindProducer, Consume, Consumed, RemovePeer, DropRoom, LeaveRoom, DestroyRoom,
           Join, Request, Disconnect
  <1>3. at' \in [Peers -> Stages]
    BY DEF TypeOK, Stages, Goto, Running, Block, GetRouter, RouterMade, TransportMade, CreateFailed, CreateEnds, Create,
           Produce, Produced, FindProducer, Consume, Consumed, RemovePeer, DropRoom, LeaveRoom,
           DestroyRoom, Join, Request, Disconnect
  <1>4. router' \in [Peers -> 0..routers']
    <2>1. router \in [Peers -> 0..routers]
      BY DEF TypeOK
    <2>2. CASE GetRouter(p)
      <3>1. room # NoRoom => room.router \in 1..routers
        BY SfuRoomShape DEF TypeOK
      <3>2. QED
        BY <2>1, <2>2, <3>1 DEF GetRouter
    <2>3. CASE RouterMade(p)
      BY <2>1, <2>3 DEF RouterMade, TypeOK
    <2>4. CASE ~GetRouter(p) /\ ~RouterMade(p)
      <3>1. router' \in {router, [router EXCEPT ![p] = 0]}
        BY <2>4
           DEF Running, Block, TransportMade, CreateFailed, CreateEnds, Create, Produce, Produced, FindProducer,
             Consume, Consumed, RemovePeer, DropRoom, LeaveRoom, DestroyRoom, Join, Request,
             Disconnect
      <3>2. router' \in [Peers -> 0..routers]
        BY <2>1, <3>1 DEF TypeOK
      <3>3. 0..routers \subseteq 0..routers'
        BY <1>2 DEF TypeOK
      <3>4. QED
        BY <3>2, <3>3
    <2>5. QED
      BY <2>2, <2>3, <2>4
  <1>5. /\ target' \in [Peers -> Names \cup {NoPeer}]
        /\ lock' \in Peers \cup {NoPeer}
    <2>1. target \in [Peers -> Names \cup {NoPeer}] /\ lock \in Peers \cup {NoPeer}
      BY DEF TypeOK
    <2>2. CASE FindProducer(p)
      BY <2>1, <2>2 DEF FindProducer
    <2>3. CASE ~FindProducer(p)
      <3>1. target' \in {target, [target EXCEPT ![p] = NoPeer]} /\ lock' \in {lock, p, NoPeer}
        BY <2>3 DEF Running, Block, GetRouter, RouterMade, TransportMade, CreateFailed, CreateEnds, Create,
             Produce, Produced, Consume, Consumed, RemovePeer, DropRoom, LeaveRoom, DestroyRoom, Join,
             Request, Disconnect
      <3>2. QED
        BY <2>1, <3>1
    <2>4. QED
      BY <2>2, <2>3
  <1>6. blocked' \subseteq Peers \ {lock'}
    <2>1. CASE Block(p)
      <3>1. p # lock
        BY <2>1 DEF Block, HeldAcrossAwait, LockStages
      <3>2. QED
        BY <2>1, <3>1 DEF Block, TypeOK
    <2>2. CASE ~Block(p)
      <3>1. /\ blocked' \in {blocked, blocked \ {p}}
            /\ lock' \in {lock, NoPeer} \/ (lock' = p /\ blocked' = blocked \ {p})
        BY <2>2
           DEF Step, Running, GetRouter, RouterMade, TransportMade, CreateFailed, CreateEnds, Create, Produce,
             Produced, FindProducer, Consume, Consumed, RemovePeer, DropRoom, LeaveRoom,
             DestroyRoom, Join, Request, Disconnect
      <3>2. QED
        BY <3>1, SfuConstantsOK DEF TypeOK
    <2>3. QED
      BY <2>1, <2>2
  <1>7. /\ inside' \subseteq Peers /\ admitted' \subseteq inside'
        /\ name' \in [Peers -> Names \cup {NoPeer}]
        /\ calls' \in [Peers -> 0..MaxCalls]
    <2>1. inside' \subseteq Peers /\ admitted' \subseteq inside'
      <3>1. inside \subseteq Peers /\ admitted \subseteq inside
        BY DEF TypeOK
      <3>2. CASE Create(p)
        BY <3>1, <3>2 DEF Create, Step, AdmittedAreServed
      <3>3. CASE ~Create(p)
        BY <3>1, <3>3
           DEF Running, Block, GetRouter, RouterMade, TransportMade, CreateFailed, CreateEnds, Produce,
             Produced, FindProducer, Consume, Consumed, RemovePeer, DropRoom, LeaveRoom,
             DestroyRoom, Join, Request, Disconnect
      <3>4. QED
        BY <3>2, <3>3
    <2>2. calls' = calls \/ Request(p)
      BY DEF Running, Block, GetRouter, RouterMade, TransportMade, CreateFailed, CreateEnds, Create,
           Produce, Produced, FindProducer, Consume, Consumed, RemovePeer, DropRoom, LeaveRoom,
           DestroyRoom, Join, Disconnect
    <2>3. calls' \in [Peers -> 0..MaxCalls]
      <3>1. calls \in [Peers -> 0..MaxCalls] /\ MaxCalls \in Nat
        BY SfuConstantsOK DEF TypeOK
      <3>2. CASE Request(p)
        <4>1. calls[p] + 1 \in 0..MaxCalls /\ calls' = [calls EXCEPT ![p] = calls[p] + 1]
          BY <3>1, <3>2 DEF Request
        <4>2. QED
          BY <3>1, <4>1
      <3>3. QED
        BY <2>2, <3>1, <3>2
    <2>4. name' \in [Peers -> Names \cup {NoPeer}]
      <3>1. name \in [Peers -> Names \cup {NoPeer}]
        BY DEF TypeOK
      <3>2. CASE Request(p)
        BY <3>1, <3>2 DEF Request
      <3>3. CASE ~Request(p)
        <4>1. name' \in {name, [name EXCEPT ![p] = NoPeer]}
          BY <3>3 DEF Running, Block, GetRouter, RouterMade, TransportMade, CreateFailed, CreateEnds,
               Create, Produce, Produced, FindProducer, Consume, Consumed, RemovePeer, DropRoom,
               LeaveRoom, DestroyRoom, Join, Disconnect
        <4>2. QED
          BY <3>1, <4>1
      <3>4. QED
        BY <3>2, <3>3
    <2>5. QED
      BY <2>1, <2>3, <2>4
  <1>8. QED
    BY <1>1, <1>2, <1>3, <1>4, <1>5, <1>6, <1>7 DEF TypeOK

\* Whoever else moves, the entry a held lock protects stays.
LEMMA HeldStep ==
    ASSUME TypeOK, HeldAcrossAwait, NamesAreKnown, NEW p \in Peers,
           Running(p) \/ Join(p) \/ Request(p) \/ Disconnect(p)
    PROVE  HeldAcrossAwait'
  <1> DEFINE Held == {"producing", "consuming"}
  <1>1. at \in [Peers -> Stages] /\ lock \in Peers \cup {NoPeer}
    BY DEF TypeOK
  <1>2. \/ lock' = lock /\ (at'[p] \in Held <=> at[p] \in Held)
        \/ lock = NoPeer /\ lock' = p /\ at'[p] \in Held /\ room' = room /\ Has(p)
        \/ at[p] \in Held /\ lock' = NoPeer /\ at'[p] \notin Held
    BY <1>1 DEF HeldAcrossAwait, Step, Goto, LockStages, Running, Block, GetRouter, RouterMade,
           TransportMade, CreateFailed, CreateEnds, Create, Produce, Produced, FindProducer, Consume, Consumed,
           RemovePeer, DropRoom, LeaveRoom, DestroyRoom, Join, Request, Disconnect
  <1>3. at' = [at EXCEPT ![p] = at'[p]] /\ RoomMoves(p)
    BY RoomStep
  <1>4. ASSUME NEW q \in Peers, at'[q] \in Held
        PROVE  lock' = q /\ Has(q)'
    <2>1. CASE q = p /\ at[p] \notin Held
      BY <1>2, <1>4, <2>1 DEF Has
    <2>2. CASE at[q] \in Held
      <3>1. lock = q /\ Has(q) /\ q # NoPeer
        BY <2>2, SfuConstantsOK DEF HeldAcrossAwait
      <3>2. lock' = q
        BY <1>1, <1>2, <1>3, <1>4, <2>2, <3>1 DEF HeldAcrossAwait
      <3>3. Has(q)'
        BY <1>3, <1>4, <2>2, <3>1 DEF RoomMoves, EntrySet, Has
      <3>4. QED
        BY <3>2, <3>3
    <2>3. QED
      BY <1>1, <1>3, <1>4, <2>1, <2>2
  <1>5. lock' # NoPeer => at'[lock'] \in Held
    BY <1>1, <1>2, <1>3 DEF HeldAcrossAwait
  <1>6. QED
    BY <1>4, <1>5 DEF HeldAcrossAwait

\* The lookup of create_consumer yields a peer id and a message carries one;
\* only the end of the call forgets it.
LEMMA NamesStep ==
    ASSUME TypeOK, NamesAreKnown, NEW p \in Peers,
           Running(p) \/ Join(p) \/ Request(p) \/ Disconnect(p)
    PROVE  NamesAreKnown'
  <1> DEFINE Consuming == {"consume", "consuming"}
  <1>1. /\ at \in [Peers -> Stages]
        /\ target \in [Peers -> Names \cup {NoPeer}]
        /\ name \in [Peers -> Names \cup {NoPeer}]
    BY DEF TypeOK
  <1>2. \A q \in Peers \ {p} : at'[q] = at[q] /\ target'[q] = target[q] /\ name'[q] = name[q]
    BY <1>1 DEF Step, Goto, Running, Block, Create, GetRouter, RouterMade, TransportMade, CreateFailed,
         CreateEnds, Produce, Produced, FindProducer, Consume, Consumed, RemovePeer, DropRoom,
         LeaveRoom, DestroyRoom, Join, Request, Disconnect
  <1>3. at'[p] \in Consuming => target'[p] \in Names
    <2>1. CASE FindProducer(p)
      BY <1>1, <2>1 DEF FindProducer, Goto
    <2>2. CASE Consume(p)
      BY <1>1, <2>2 DEF Consume, Step, Goto, NamesAreKnown
    <2>3. CASE ~FindProducer(p) /\ ~Consume(p)
      <3>1. at'[p] \notin Consuming \/ (at' = at /\ target' = target)
        BY <1>1, <2>3 DEF Step, Goto, Running, Block, Create, GetRouter, RouterMade, TransportMade,
             CreateFailed, CreateEnds, Produce, Produced, Consumed, RemovePeer, DropRoom, LeaveRoom,
             DestroyRoom, Join, Request, Disconnect
      <3>2. QED
        BY <3>1 DEF NamesAreKnown
    <2>4. QED
      BY <2>1, <2>2, <2>3
  <1>4. at'[p] \in Creating => name'[p] \in Names
    <2>1. CASE Request(p)
      BY <1>1, <2>1 DEF Request, Goto, Creating
    <2>2. CASE ~Request(p)
      <3>1. \/ at'[p] \notin Creating
            \/ at[p] \in Creating /\ name' = name
        BY <1>1, <2>2 DEF Creating, Step, Goto, Running, Block, Create, GetRouter, RouterMade,
             TransportMade, CreateFailed, CreateEnds, Produce, Produced, FindProducer, Consume,
             Consumed, RemovePeer, DropRoom, LeaveRoom, DestroyRoom, Join, Disconnect
      <3>2. QED
        BY <3>1 DEF NamesAreKnown
    <2>3. QED
      BY <2>1, <2>2
  <1>5. QED
    BY <1>2, <1>3, <1>4 DEF NamesAreKnown

\* The registry and the handlers agree on who is served.
LEMMA AdmittedStep ==
    ASSUME TypeOK, AdmittedAreServed, NEW p \in Peers,
           Running(p) \/ Join(p) \/ Request(p) \/ Disconnect(p)
    PROVE  AdmittedAreServed'
  <1>1. at \in [Peers -> Stages] /\ admitted \subseteq inside /\ inside \subseteq Peers
    BY DEF TypeOK
  <1>2. CASE Join(p)
    BY <1>1, <1>2 DEF Join, Step, Goto, AdmittedAreServed
  <1>3. CASE Create(p)
    BY <1>1, <1>3 DEF Create, Step, Goto, AdmittedAreServed
  <1>4. CASE LeaveRoom(p)
    BY <1>1, <1>4 DEF LeaveRoom, Step, Goto, AdmittedAreServed
  <1>5. CASE DestroyRoom(p)
    BY <1>1, <1>5 DEF DestroyRoom, Step, Goto, AdmittedAreServed
  <1>6. CASE ~Join(p) /\ ~Create(p) /\ ~LeaveRoom(p) /\ ~DestroyRoom(p)
    <2>1. /\ admitted' = admitted /\ inside' = inside
          /\ at' = at \/ at'[p] \notin {"create", "destroy", "gone"}
          /\ \A q \in Peers \ {p} : at'[q] = at[q]
      BY <1>1, <1>6 DEF Step, Goto, Running, Block, GetRouter, RouterMade, TransportMade, CreateFailed,
           CreateEnds, Produce, Produced, FindProducer, Consume, Consumed, RemovePeer, DropRoom,
           Request, Disconnect
    <2>2. QED
      BY <1>1, <2>1 DEF AdmittedAreServed
  <1>7. QED
    BY <1>2, <1>3, <1>4, <1>5, <1>6

-----------------------------------------------------------------------------
\* What a departure leaves behind

\* Who is in the room stays in it to the end.
LEMMA InsideGrows ==
    ASSUME NEW p \in Peers, Running(p) \/ Join(p) \/ Request(p) \/ Disconnect(p)
    PROVE  inside \subseteq inside' /\ (at[p] # "out" => inside' = inside)
  BY DEF Step, Running, Block, Create, GetRouter, RouterMade, TransportMade, CreateFailed, Produce,
         Produced, FindProducer, Consume, Consumed, RemovePeer, DropRoom, LeaveRoom, DestroyRoom,
         Join, Request, Disconnect

\* A connection leaves by remove_peer, and for good by leave_room, when the
\* registry has others in the room, or by remove_room.
LEMMA Leaving ==
    ASSUME TypeOK, NEW p \in Peers, Running(p) \/ Join(p) \/ Request(p) \/ Disconnect(p)
    PROVE  /\ at'[p] \in Past => at[p] \in Past \/ RemovePeer(p)
           /\ at'[p] = "gone" => at[p] = "gone" \/ LeaveRoom(p) \/ DestroyRoom(p)
  <1>1. at \in [Peers -> Stages]
    BY DEF TypeOK
  <1>2. CASE RemovePeer(p)
    BY <1>1, <1>2 DEF RemovePeer, Goto
  <1>3. CASE DropRoom(p) \/ LeaveRoom(p) \/ DestroyRoom(p)
    BY <1>1, <1>3 DEF DropRoom, LeaveRoom, DestroyRoom, Step, Goto, Past
  <1>4. CASE ~RemovePeer(p) /\ ~DropRoom(p) /\ ~LeaveRoom(p) /\ ~DestroyRoom(p)
    <2>1. at' = at \/ at'[p] \notin Past
      BY <1>1, <1>4 DEF Past, Step, Goto, Running, Block, Create, GetRouter, RouterMade, TransportMade,
           CreateFailed, CreateEnds, Produce, Produced, FindProducer, Consume, Consumed, Join,
           Request, Disconnect
    <2>2. QED
      BY <2>1 DEF Past
  <1>5. QED
    BY <1>2, <1>3, <1>4

\* An entry becomes a ghost only when it is made: its own connection's
\* remove_peer drops it.
LEMMA GhostStep ==
    ASSUME SfuInv, NEW p \in Peers, Running(p) \/ Join(p) \/ Request(p) \/ Disconnect(p),
           NEW n \in Names, Ghost(n)', ~Ghost(n)
    PROVE  Lent(n)
  <1>1. /\ at \in [Peers -> Stages] /\ at' = [at EXCEPT ![p] = at'[p]] /\ RoomMoves(p)
        /\ inside \subseteq inside' /\ (at[p] # "out" => inside' = inside)
        /\ inside \subseteq Peers
    BY RoomStep, InsideGrows DEF SfuInv, TypeOK
  <1>2. CASE ~Has(n)
    <2>1. PICK d \in Directions : at[p] = d /\ at'[p] = "idle" /\ name[p] = n
      BY <1>1, <1>2 DEF Ghost, Has, RoomMoves, Replaced, EntrySet, EntryDropped
    <2>2. ~(p = n /\ p \in inside)
      BY <1>1, <2>1 DEF Ghost, Past
    <2>3. QED
      BY <2>1, <2>2 DEF Lent
  <1>3. CASE Has(n)
    <2>1. n \in inside /\ at[n] \notin Past /\ at'[n] \in Past /\ n \in Peers
      BY <1>1, <1>3 DEF Ghost
    <2>2. n = p
      BY <1>1, <2>1
    <2>3. RemovePeer(p)
      BY <2>1, <2>2, Leaving DEF SfuInv
    <2>4. ~Has(p)'
      BY <1>3, <2>1, <2>2, <2>3, RemovePeerDrops DEF EntryDropped, Has, SfuInv
    <2>5. QED
      BY <2>2, <2>4 DEF Ghost
  <1>4. QED
    BY <1>2, <1>3

\* A room is abandoned only when it is made: the last of its connections to
\* go finds the registry empty and removes it.
LEMMA AbandonedStep ==
    ASSUME SfuInv, NEW p \in Peers, Running(p) \/ Join(p) \/ Request(p) \/ Disconnect(p),
           Abandoned', ~Abandoned
    PROVE  Strayed
  <1>1. /\ at \in [Peers -> Stages] /\ at' = [at EXCEPT ![p] = at'[p]] /\ RoomMoves(p)
        /\ inside \subseteq inside' /\ (at[p] # "out" => inside' = inside)
        /\ inside \subseteq Peers /\ admitted \subseteq inside
    BY RoomStep, InsideGrows DEF SfuInv, TypeOK
  <1>2. CASE room = NoRoom
    <2>1. at[p] \in {"routerSend", "routerRecv"} /\ at'[p] \in Directions
      BY <1>1, <1>2 DEF Abandoned, RoomMoves, EntrySet, EntryDropped
    <2>2. p \notin inside
      BY <1>1, <2>1 DEF Abandoned
    <2>3. QED
      BY <2>1, <2>2 DEF Strayed
  <1>3. CASE room # NoRoom
    <2>1. p \in inside /\ at[p] # "gone" /\ at'[p] = "gone"
      <3>1. PICK q \in inside : at[q] # "gone"
        BY <1>3 DEF Abandoned
      <3>2. at'[q] = "gone"
        BY <1>1, <3>1 DEF Abandoned
      <3>3. QED
        BY <1>1, <3>1, <3>2
    <2>2. CASE DestroyRoom(p)
      BY <2>2 DEF DestroyRoom, Abandoned
    <2>3. CASE LeaveRoom(p)
      <3>1. PICK q \in admitted : q # p
        BY <1>1, <2>1, <2>3 DEF LeaveRoom, Goto
      <3>2. at'[q] # "gone" /\ q \in inside'
        BY <1>1, <3>1 DEF SfuInv, AdmittedAreServed
      <3>3. QED
        BY <3>2 DEF Abandoned
    <2>4. QED
      BY <2>1, <2>2, <2>3, Leaving DEF SfuInv
  <1>4. QED
    BY <1>2, <1>3

-----------------------------------------------------------------------------
\* The theorems

\* SfuInv is inductive: types, the lock's discipline, what a lookup found and
\* a message named, and whom the registry serves.
THEOREM SfuInvariant == Spec => []SfuInv
  <1>1. Init => SfuInv
    <2> SUFFICES ASSUME Init
                 PROVE  SfuInv
      OBVIOUS
    <2>1. TypeOK
      BY SfuConstantsOK DEF Init, TypeOK, Stages
    <2>2. HeldAcrossAwait /\ NamesAreKnown /\ AdmittedAreServed
      BY DEF Init, HeldAcrossAwait, NamesAreKnown, AdmittedAreServed, Creating
    <2>3. QED
      BY <2>1, <2>2 DEF SfuInv
  <1>2. SfuInv /\ [Next]_vars => SfuInv'
    <2> SUFFICES ASSUME SfuInv, [Next]_vars
                 PROVE  SfuInv'
      OBVIOUS
    <2>1. CASE Next
      <3>1. PICK p \in Peers : Running(p) \/ Join(p) \/ Request(p) \/ Disconnect(p)
        BY <2>1 DEF Next
      <3>2. QED
        BY <3>1, TypeStep, HeldStep, NamesStep, AdmittedStep DEF SfuInv
    <2>2. CASE UNCHANGED vars
      BY <2>2 DEF vars, SfuInv, TypeOK, HeldAcrossAwait, NamesAreKnown, AdmittedAreServed, Has
    <2>3. QED
      BY <2>1, <2>2
  <1>3. QED
    BY <1>1, <1>2, PTL DEF Spec

\* The variables of the SFU manager and its callers keep their types, and no
\* entry names a router that was never made.
THEOREM SfuTypes == Spec => []TypeOK
  <1>1. SfuInv => TypeOK
    BY DEF SfuInv
  <1>2. QED
    BY <1>1, SfuInvariant, PTL

\* No departure, however it meets late inserts, evictions and the teardowns of
\* others, leaves an entry or a room that nobody will remove: these come only
\* from requests that name an id or a room of somebody else (remove_peer and
\* leave_room's answer in signaling.rs, the stores of sfu.rs).
THEOREM SfuReclaims == Spec => DeparturesLeaveNothing
  <1> DEFINE Reclaims == /\ \A n \in Names : Ghost(n)' => Ghost(n) \/ Lent(n)
                         /\ Abandoned' => Abandoned \/ Strayed
  <1>1. SfuInv /\ [Next]_vars => [Reclaims]_vars
    <2> SUFFICES ASSUME SfuInv, Next
                 PROVE  Reclaims
      OBVIOUS
    <2>1. PICK p \in Peers : Running(p) \/ Join(p) \/ Request(p) \/ Disconnect(p)
      BY DEF Next
    <2>2. QED
      BY <2>1, GhostStep, AbandonedStep
  <1>2. QED
    BY <1>1, SfuInvariant, PTL DEF Spec, DeparturesLeaveNothing

\* What is stored under a peer id, transports included, is lost only to its
\* connection's remove_peer, to a late insert or removal of the room, and, one
\* transport, to a new one under the same id (create_webrtc_transport,
\* remove_peer and remove_room in sfu.rs).
THEOREM SfuKeepsStored == Spec => StoredIsKept
  <1> DEFINE Kept ==
        \A n \in Names : Has(n) /\ ~Undone(n) =>
          /\ Has(n)'
          /\ room.peers[n].produces => room'.peers[n].produces
          /\ room.peers[n].consumes \subseteq room'.peers[n].consumes
          /\ \A d \in Directions :
                room.peers[n][d] = 0 \/ Renewed(n, d) \/ room'.peers[n][d] = room.peers[n][d]
  <1>1. SfuInv /\ [Next]_vars => [Kept]_vars
    <2> SUFFICES ASSUME SfuInv, Next, NEW n \in Names, Has(n), ~Undone(n)
                 PROVE  /\ Has(n)'
                        /\ \E D \in SUBSET Directions :
                             /\ KeepsBut(room.peers[n], room'.peers[n], D)
                             /\ \A d \in D : Renewed(n, d)
      BY DEF KeepsBut
    <2>1. PICK p \in Peers : Running(p) \/ Join(p) \/ Request(p) \/ Disconnect(p)
      BY DEF Next
    <2>2. RoomMoves(p)
      BY <2>1, RoomStep DEF SfuInv
    <2>3. CASE room' = room \/ EntrySet(p, {}) \/ EntryDropped(p)
      <3>1. Has(n)' /\ (room'.peers[n] = room.peers[n] \/ KeepsBut(room.peers[n], room'.peers[n], {}))
        BY <2>2, <2>3 DEF RoomMoves, EntrySet, EntryDropped, Replaced, Has, Undone, Late
      <3>2. KeepsBut(room.peers[n], room'.peers[n], {})
        BY <3>1 DEF KeepsBut
      <3>3. QED
        BY <3>1, <3>2
    <2>4. ASSUME NEW d \in Directions, EntrySet(name[p], {d}), at[p] = d, at'[p] = "idle"
          PROVE  /\ Has(n)'
                 /\ \E D \in SUBSET Directions :
                      /\ KeepsBut(room.peers[n], room'.peers[n], D)
                      /\ \A e \in D : Renewed(n, e)
      <3>1. CASE name[p] = n
        <4>1. Has(n)' /\ KeepsBut(room.peers[n], room'.peers[n], {d})
          BY <2>4, <3>1 DEF EntrySet, Has
        <4>2. Renewed(n, d)
          BY <2>4, <3>1 DEF Renewed
        <4>3. QED
          BY <4>1, <4>2
      <3>2. CASE name[p] # n
        <4>1. Has(n)' /\ room'.peers[n] = room.peers[n]
          BY <2>4, <3>2 DEF EntrySet, Has
        <4>2. KeepsBut(room.peers[n], room'.peers[n], {})
          BY <4>1 DEF KeepsBut
        <4>3. QED
          BY <4>1, <4>2
      <3>3. QED
        BY <3>1, <3>2
    <2>5. QED
      BY <2>2, <2>3, <2>4 DEF RoomMoves, Undone, Late
  <1>2. QED
    BY <1>1, SfuInvariant, PTL DEF Spec, StoredIsKept
=============================================================================
