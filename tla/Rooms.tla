------------------------------- MODULE Rooms -------------------------------
(***************************************************************************)
(* The signaling server's room registry (server/src/room.rs).              *)
(*                                                                         *)
(* RoomManager keeps one DashMap from room id to Room.  Each DashMap call  *)
(* holds one shard lock and is atomic; join_room and leave_room make       *)
(* several such calls, so the connections of a multi-threaded server       *)
(* interleave between them.  One action below is one DashMap call.         *)
(*                                                                         *)
(* A peer id is a fresh uuid per connection: each member of Peers joins    *)
(* and leaves at most once.  What a connection asks for (its RoomJoin      *)
(* message) is fixed in want.                                              *)
(***************************************************************************)
EXTENDS FiniteSets

CONSTANTS
    Peers,      \* connections, by their server-generated id
    RoomIds,    \* room names clients ask for
    NoPeer,     \* an empty slot (None)
    NoRoom      \* the map has no entry for the room

Roles == {"host", "remote"}
Room  == [Roles -> Peers \cup {NoPeer}]

ASSUME ConstantsOK ==
    /\ NoPeer \notin Peers
    /\ NoRoom \notin Room

VARIABLES
    rooms,      \* the DashMap: RoomIds -> Room, or NoRoom when there is no entry
    want,       \* the room and role each connection asks for
    pc,         \* where each connection is in join_room / leave_room
    sweep,      \* the rooms a running leave_room has still to visit in retain
    gone        \* what leave_room answered: the room was removed

vars == <<rooms, want, pc, sweep, gone>>

Stages == {"new", "creating", "in", "sweeping", "checking", "left", "refused"}

TypeOK ==
    /\ rooms \in [RoomIds -> Room \cup {NoRoom}]
    /\ want  \in [Peers -> [room : RoomIds, role : Roles]]
    /\ pc    \in [Peers -> Stages]
    /\ sweep \in [Peers -> SUBSET RoomIds]
    /\ gone  \in [Peers -> BOOLEAN]

Vacant == [role \in Roles |-> NoPeer]

IsEmpty(room) == \A role \in Roles : room[role] = NoPeer

Goto(p, stage) == pc' = [pc EXCEPT ![p] = stage]

Init ==
    /\ rooms = [r \in RoomIds |-> NoRoom]
    /\ want \in [Peers -> [room : RoomIds, role : Roles]]
    /\ pc    = [p \in Peers |-> "new"]
    /\ sweep = [p \in Peers |-> {}]
    /\ gone  = [p \in Peers |-> FALSE]

-----------------------------------------------------------------------------
\* join_room

\* get_mut finds the room and, still under the shard lock, takes the slot.
JoinTake(p) ==
    LET r == want[p].room
        role == want[p].role
    IN  /\ pc[p] = "new"
        /\ rooms[r] # NoRoom
        /\ rooms[r][role] = NoPeer
        /\ rooms' = [rooms EXCEPT ![r] = [rooms[r] EXCEPT ![role] = p]]
        /\ Goto(p, "in")
        /\ UNCHANGED <<want, sweep, gone>>

\* get_mut finds the room and the slot is taken: RoomFull.
JoinRefused(p) ==
    /\ pc[p] = "new"
    /\ rooms[want[p].room] # NoRoom
    /\ rooms[want[p].room][want[p].role] # NoPeer
    /\ Goto(p, "refused")
    /\ UNCHANGED <<rooms, want, sweep, gone>>

\* get_mut finds no room; the shard lock is released before the insert.
JoinAbsent(p) ==
    /\ pc[p] = "new"
    /\ rooms[want[p].room] = NoRoom
    /\ Goto(p, "creating")
    /\ UNCHANGED <<rooms, want, sweep, gone>>

\* insert replaces whatever another connection put there in between.
JoinCreate(p) ==
    /\ pc[p] = "creating"
    /\ rooms' = [rooms EXCEPT ![want[p].room] = [Vacant EXCEPT ![want[p].role] = p]]
    /\ Goto(p, "in")
    /\ UNCHANGED <<want, sweep, gone>>

-----------------------------------------------------------------------------
\* leave_room

\* The entry with the peer's own slots emptied; unchanged if it holds none.
Without(room, p) == [role \in Roles |-> IF room[role] = p THEN NoPeer ELSE room[role]]

\* get_mut clears the peer's slots; a missing room is skipped.
LeaveClear(p) ==
    LET r == want[p].room
    IN  /\ pc[p] = "in"
        /\ rooms' = IF rooms[r] = NoRoom
                    THEN rooms
                    ELSE [rooms EXCEPT ![r] = Without(rooms[r], p)]
        /\ sweep' = [sweep EXCEPT ![p] = RoomIds]
        /\ Goto(p, "sweeping")
        /\ UNCHANGED <<want, gone>>

\* Mutations: retain's condition with && for ||, and with its sense inverted.
HalfEmpty(room) == room # NoRoom /\ \E role \in Roles : room[role] = NoPeer
Inverted(room)  == room # NoRoom /\ ~IsEmpty(room)

\* Which entries retain drops.
Droppable(room) == room # NoRoom /\ IsEmpty(room)

\* retain visits every entry, one shard lock at a time, in any order.
LeaveSweep(p, r) ==
    /\ pc[p] = "sweeping"
    /\ r \in sweep[p]
    /\ rooms' = IF Droppable(rooms[r]) THEN [rooms EXCEPT ![r] = NoRoom] ELSE rooms
    /\ sweep' = [sweep EXCEPT ![p] = @ \ {r}]
    /\ IF sweep[p] = {r} THEN Goto(p, "checking") ELSE UNCHANGED pc
    /\ UNCHANGED <<want, gone>>

\* Mutation: the negation before contains_key is lost.
CheckContains(p) ==
    /\ pc[p] = "checking"
    /\ gone' = [gone EXCEPT ![p] = rooms[want[p].room] # NoRoom]
    /\ Goto(p, "left")
    /\ UNCHANGED <<rooms, want, sweep>>

\* contains_key, a lookup of its own, decides the answer.
LeaveCheck(p) ==
    /\ pc[p] = "checking"
    /\ gone' = [gone EXCEPT ![p] = rooms[want[p].room] = NoRoom]
    /\ Goto(p, "left")
    /\ UNCHANGED <<rooms, want, sweep>>

-----------------------------------------------------------------------------
Join(p)  == JoinTake(p) \/ JoinRefused(p) \/ JoinAbsent(p) \/ JoinCreate(p)
Sweep(p) == \E r \in RoomIds : LeaveSweep(p, r)
Leave(p) == LeaveClear(p) \/ Sweep(p) \/ LeaveCheck(p)

Next == \E p \in Peers : Join(p) \/ Leave(p)

Spec == Init /\ [][Next]_vars

\* A call that has begun is run to its end by its thread; a client need not
\* ask to join, and one that has joined need not leave.
Fairness ==
    \A p \in Peers : WF_vars(JoinCreate(p)) /\ WF_vars(Sweep(p)) /\ WF_vars(LeaveCheck(p))

FairSpec == Spec /\ Fairness

-----------------------------------------------------------------------------
\* Properties

Holds(p, r, role) == rooms[r] # NoRoom /\ rooms[r][role] = p

Admitted(p) == pc[p] = "in"

\* The connections that asked for room r.
OwnPeers(r) == {p \in Peers : want[p].room = r}

\* Whoever holds a slot was admitted to that room in that role and has not
\* begun to leave: no departed or refused peer keeps a slot, so RoomFull is
\* only ever answered because of a peer that is still there.
OccupantIsAdmitted ==
    \A p \in Peers, r \in RoomIds, role \in Roles :
        Holds(p, r, role) =>
            /\ Admitted(p)
            /\ want[p] = [room |-> r, role |-> role]

\* An entry with no occupant is still to be visited by the leave_room of one
\* of the room's own peers: the registry does not accumulate empty rooms,
\* whatever interleaving of leaving and joining connections ran.
EmptyRoomIsBeingSwept ==
    \A r \in RoomIds :
        (rooms[r] # NoRoom /\ IsEmpty(rooms[r])) =>
            \E p \in OwnPeers(r) : pc[p] = "sweeping" /\ r \in sweep[p]

\* A peer is put out of its slot, other than by its own leave_room, only by
\* a connection whose lookup found the room absent and whose insert comes
\* late; in particular no sweep removes a room somebody is in.
OnlyLateCreatorEvicts ==
    [][\A p \in Peers, r \in RoomIds, role \in Roles :
          (Holds(p, r, role) /\ ~Holds(p, r, role)' /\ pc'[p] = "in")
            => \E q \in Peers \ {p} : /\ pc[q] = "creating" /\ pc'[q] = "in"
                                      /\ want[q].room = r]_vars

\* When the last connection of a room has left, at least one of the leavers
\* was told "removed": the caller tears down the room's SFU only then, so an
\* answer lost between concurrent leavers would leak the SFU room.
Deserted(r) ==
    /\ \A p \in OwnPeers(r) : pc[p] \in {"new", "refused", "left"}
    /\ \E p \in OwnPeers(r) : pc[p] = "left"
Told(r) == \E p \in OwnPeers(r) : gone[p]
RemovalIsReported == \A r \in RoomIds : Deserted(r) => Told(r)

\* The registry implements the slot discipline of RoomSlots.
SlotView == [r \in RoomIds |-> IF rooms[r] = NoRoom THEN Vacant ELSE rooms[r]]
Slots == INSTANCE RoomSlots WITH slots <- SlotView, inside <- {p \in Peers : Admitted(p)}
RefinesRoomSlots == Slots!Spec

\* Once every connection of a room has gone for good, its entry is removed
\* for good.
RoomReclaimed ==
    \A r \in RoomIds :
        (<>[](\A p \in Peers : want[p].room = r => pc[p] \notin {"creating", "in"}))
            => <>[](rooms[r] = NoRoom)

\* room.rs:7 and room.rs:29: "A room with at most one Host and one Remote
\* peer."; "Returns error if the slot is already taken."  The check of the
\* slot and the insert of a new room are two steps, so this is not kept.
AtMostOnePeerPerRole ==
    \A p, q \in Peers : (Admitted(p) /\ Admitted(q) /\ want[p] = want[q]) => p = q
=============================================================================
