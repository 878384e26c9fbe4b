--------------------------- MODULE SignalingProofs ---------------------------
(***************************************************************************)
(* Theorems about the room registry (Rooms), for any connections and any   *)
(* rooms, and about the server that drives it (Signaling), for any channel *)
(* capacity and message kinds besides.  What is proved of the registry     *)
(* alone holds under the server too.                                       *)
(***************************************************************************)
EXTENDS Signaling, TLAPS

-----------------------------------------------------------------------------
(* The registry *)

USE DEF Roles

\* Rewriting one slot of a room leaves a room.
LEMMA RoomUpdate ==
    ASSUME NEW room \in Room, NEW role \in Roles, NEW p \in Peers
    PROVE  /\ [room EXCEPT ![role] = p] \in Room
           /\ [Vacant EXCEPT ![role] = p] \in Room
           /\ Without(room, p) \in Room
           /\ Vacant \in Room
BY DEF Room, Vacant, Without

\* Every operation keeps the registry and the connections well formed.
LEMMA TypeStep == TypeOK /\ [Next]_vars => TypeOK'
<1> SUFFICES ASSUME TypeOK, [Next]_vars PROVE TypeOK'
  OBVIOUS
<1> USE DEF TypeOK, Stages, Goto
<1>1. ASSUME NEW p \in Peers, JoinTake(p) PROVE TypeOK'
  <2>1. rooms[want[p].room] \in Room
    BY <1>1 DEF JoinTake
  <2>2. [rooms[want[p].room] EXCEPT ![want[p].role] = p] \in Room
    BY <2>1, RoomUpdate
  <2> QED
    BY <1>1, <2>2 DEF JoinTake
<1>2. ASSUME NEW p \in Peers, JoinRefused(p) PROVE TypeOK'
  BY <1>2 DEF JoinRefused
<1>3. ASSUME NEW p \in Peers, JoinAbsent(p) PROVE TypeOK'
  BY <1>3 DEF JoinAbsent
<1>4. ASSUME NEW p \in Peers, JoinCreate(p) PROVE TypeOK'
  <2>1. [Vacant EXCEPT ![want[p].role] = p] \in Room
    BY DEF Room, Vacant
  <2> QED
    BY <1>4, <2>1 DEF JoinCreate
<1>5. ASSUME NEW p \in Peers, LeaveClear(p) PROVE TypeOK'
  <2>1. rooms[want[p].room] # NoRoom => Without(rooms[want[p].room], p) \in Room
    BY RoomUpdate
  <2> QED
    BY <1>5, <2>1 DEF LeaveClear
<1>6. ASSUME NEW p \in Peers, NEW r \in RoomIds, LeaveSweep(p, r) PROVE TypeOK'
  BY <1>6 DEF LeaveSweep
<1>7. ASSUME NEW p \in Peers, LeaveCheck(p) PROVE TypeOK'
  BY <1>7 DEF LeaveCheck
<1>8. CASE UNCHANGED vars
  BY <1>8 DEF vars
<1> QED
  BY <1>1, <1>2, <1>3, <1>4, <1>5, <1>6, <1>7, <1>8 DEF Next, Join, Leave, Sweep

\* Type correctness of the room registry.
THEOREM TypeCorrect == Spec => []TypeOK
<1>1. Init => TypeOK
  BY DEF Init, TypeOK, Stages
<1> QED
  BY <1>1, TypeStep, PTL DEF Spec

-----------------------------------------------------------------------------
(* Who is in the map was admitted *)

\* A step keeps OccupantIsAdmitted.  The registry changes in four places: a
\* slot is taken, a room is (re)created around its creator, a leaver's slots
\* are cleared, an entry is dropped.
LEMMA OccupantStep ==
    TypeOK /\ OccupantIsAdmitted /\ [Next]_vars => OccupantIsAdmitted'
<1> SUFFICES ASSUME TypeOK, OccupantIsAdmitted, [Next]_vars,
                    NEW q \in Peers, NEW r \in RoomIds, NEW role \in Roles,
                    Holds(q, r, role)'
             PROVE  /\ Admitted(q)'
                    /\ want'[q] = [room |-> r, role |-> role]
  BY DEF OccupantIsAdmitted
<1> USE DEF TypeOK, Stages, Goto, Admitted, Holds, OccupantIsAdmitted
<1>0. q # NoPeer /\ NoRoom \notin Room
  BY ConstantsOK
<1>1. ASSUME NEW p \in Peers, JoinTake(p)
      PROVE  Admitted(q)' /\ want'[q] = [room |-> r, role |-> role]
  <2>1. CASE r = want[p].room /\ role = want[p].role
    BY <1>1, <2>1 DEF JoinTake, Room
  <2>2. CASE ~(r = want[p].room /\ role = want[p].role)
    <3>1. Holds(q, r, role)
      BY <1>1, <2>2 DEF JoinTake, Room
    <3> QED
      BY <1>1, <3>1 DEF JoinTake
  <2> QED
    BY <2>1, <2>2
<1>2. ASSUME NEW p \in Peers, JoinRefused(p)
      PROVE  Admitted(q)' /\ want'[q] = [room |-> r, role |-> role]
  BY <1>2 DEF JoinRefused
<1>3. ASSUME NEW p \in Peers, JoinAbsent(p)
      PROVE  Admitted(q)' /\ want'[q] = [room |-> r, role |-> role]
  BY <1>3 DEF JoinAbsent
<1>4. ASSUME NEW p \in Peers, JoinCreate(p)
      PROVE  Admitted(q)' /\ want'[q] = [room |-> r, role |-> role]
  <2>1. CASE r = want[p].room
    <3>1. q = p /\ role = want[p].role
      BY <1>0, <1>4, <2>1 DEF JoinCreate, Vacant
    <3> QED
      BY <1>4, <2>1, <3>1 DEF JoinCreate
  <2>2. CASE r # want[p].room
    BY <1>4, <2>2 DEF JoinCreate
  <2> QED
    BY <2>1, <2>2
<1>5. ASSUME NEW p \in Peers, LeaveClear(p)
      PROVE  Admitted(q)' /\ want'[q] = [room |-> r, role |-> role]
  <2>1. Holds(q, r, role) /\ (r = want[p].room => q # p)
    BY <1>0, <1>5 DEF LeaveClear, Without
  <2>2. q # p
    BY <2>1
  <2> QED
    BY <1>5, <2>1, <2>2 DEF LeaveClear
<1>6. ASSUME NEW p \in Peers, NEW s \in RoomIds, LeaveSweep(p, s)
      PROVE  Admitted(q)' /\ want'[q] = [room |-> r, role |-> role]
  <2>1. Holds(q, r, role)
    BY <1>6 DEF LeaveSweep
  <2> QED
    BY <1>6, <2>1 DEF LeaveSweep
<1>7. ASSUME NEW p \in Peers, LeaveCheck(p)
      PROVE  Admitted(q)' /\ want'[q] = [room |-> r, role |-> role]
  BY <1>7 DEF LeaveCheck
<1>8. CASE UNCHANGED vars
  BY <1>8 DEF vars
<1> QED
  BY <1>1, <1>2, <1>3, <1>4, <1>5, <1>6, <1>7, <1>8 DEF Next, Join, Leave, Sweep

\* Whoever holds a slot was admitted to it and has not begun to leave.
THEOREM OccupantCorrect == Spec => []OccupantIsAdmitted
<1>1. Init => OccupantIsAdmitted
  BY DEF Init, OccupantIsAdmitted, Holds
<1> QED
  BY <1>1, TypeCorrect, OccupantStep, PTL DEF Spec

-----------------------------------------------------------------------------
(* Empty entries and the leavers' answers *)

\* A step keeps EmptyRoomIsBeingSwept: an entry becomes empty only when its
\* last occupant clears it, and that occupant's sweep is then still to come.
LEMMA EmptyStep ==
    TypeOK /\ OccupantIsAdmitted /\ EmptyRoomIsBeingSwept /\ [Next]_vars
        => EmptyRoomIsBeingSwept'
<1> DEFINE Sweeper(p, r) == want[p].room = r /\ pc[p] = "sweeping" /\ r \in sweep[p]
<1> SUFFICES ASSUME TypeOK, OccupantIsAdmitted, EmptyRoomIsBeingSwept, [Next]_vars,
                    NEW r \in RoomIds,
                    rooms'[r] # NoRoom, IsEmpty(rooms'[r])
             PROVE  \E x \in Peers : Sweeper(x, r)'
  BY DEF EmptyRoomIsBeingSwept, IsEmpty, OwnPeers
<1> USE DEF TypeOK, Stages, Goto
<1>0. (rooms[r] # NoRoom /\ IsEmpty(rooms[r])) => \E x \in Peers : Sweeper(x, r)
  BY DEF EmptyRoomIsBeingSwept, OwnPeers
<1>1. ASSUME NEW p \in Peers, JoinTake(p)
      PROVE  \E x \in Peers : Sweeper(x, r)'
  <2>1. r # want[p].room
    BY <1>1, ConstantsOK DEF JoinTake, IsEmpty, Room
  <2>2. rooms'[r] = rooms[r] /\ \A x \in Peers : Sweeper(x, r) => Sweeper(x, r)'
    BY <1>1, <2>1 DEF JoinTake
  <2> QED
    BY <1>0, <2>2
<1>2. ASSUME NEW p \in Peers, JoinRefused(p)
      PROVE  \E x \in Peers : Sweeper(x, r)'
  <2>1. rooms'[r] = rooms[r] /\ \A x \in Peers : Sweeper(x, r) => Sweeper(x, r)'
    BY <1>2 DEF JoinRefused
  <2> QED
    BY <1>0, <2>1
<1>3. ASSUME NEW p \in Peers, JoinAbsent(p)
      PROVE  \E x \in Peers : Sweeper(x, r)'
  <2>1. rooms'[r] = rooms[r] /\ \A x \in Peers : Sweeper(x, r) => Sweeper(x, r)'
    BY <1>3 DEF JoinAbsent
  <2> QED
    BY <1>0, <2>1
<1>4. ASSUME NEW p \in Peers, JoinCreate(p)
      PROVE  \E x \in Peers : Sweeper(x, r)'
  <2>1. r # want[p].room
    BY <1>4, ConstantsOK DEF JoinCreate, IsEmpty, Vacant
  <2>2. rooms'[r] = rooms[r] /\ \A x \in Peers : Sweeper(x, r) => Sweeper(x, r)'
    BY <1>4, <2>1 DEF JoinCreate
  <2> QED
    BY <1>0, <2>2
<1>5. ASSUME NEW p \in Peers, LeaveClear(p)
      PROVE  \E x \in Peers : Sweeper(x, r)'
  <2>1. CASE r = want[p].room
    BY <1>5, <2>1 DEF LeaveClear
  <2>2. CASE r # want[p].room
    <3>1. rooms'[r] = rooms[r] /\ \A x \in Peers : Sweeper(x, r) => Sweeper(x, r)'
      BY <1>5, <2>2 DEF LeaveClear
    <3> QED
      BY <1>0, <3>1
  <2> QED
    BY <2>1, <2>2
<1>6. ASSUME NEW p \in Peers, NEW s \in RoomIds, LeaveSweep(p, s)
      PROVE  \E x \in Peers : Sweeper(x, r)'
  <2>1. r # s
    BY <1>6 DEF LeaveSweep, Droppable
  <2>2. rooms'[r] = rooms[r]
    BY <1>6, <2>1 DEF LeaveSweep
  <2>3. ASSUME NEW x \in Peers, Sweeper(x, r) PROVE Sweeper(x, r)'
    BY <1>6, <2>1, <2>3 DEF LeaveSweep
  <2> QED
    BY <1>0, <2>2, <2>3
<1>7. ASSUME NEW p \in Peers, LeaveCheck(p)
      PROVE  \E x \in Peers : Sweeper(x, r)'
  <2>1. rooms'[r] = rooms[r] /\ \A x \in Peers : Sweeper(x, r) => Sweeper(x, r)'
    BY <1>7 DEF LeaveCheck
  <2> QED
    BY <1>0, <2>1
<1>8. CASE UNCHANGED vars
  BY <1>0, <1>8 DEF vars
<1> QED
  BY <1>1, <1>2, <1>3, <1>4, <1>5, <1>6, <1>7, <1>8 DEF Next, Join, Leave, Sweep

\* The registry does not accumulate empty rooms.
THEOREM NoLeakedRoom == Spec => []EmptyRoomIsBeingSwept
<1>1. Init => EmptyRoomIsBeingSwept
  BY DEF Init, EmptyRoomIsBeingSwept
<1> QED
  BY <1>1, TypeCorrect, OccupantCorrect, EmptyStep, PTL DEF Spec

\* While none of a room's own peers is in it or sweeping it, the map has no
\* entry for it.  This is what makes the last leaver's lookup say "removed".
LEMMA NobodyMeansNoRoom ==
    ASSUME TypeOK, OccupantIsAdmitted, EmptyRoomIsBeingSwept, NEW r \in RoomIds,
           \A p \in Peers : want[p].room = r => pc[p] \notin {"in", "sweeping"}
    PROVE  rooms[r] = NoRoom
<1> SUFFICES ASSUME rooms[r] # NoRoom PROVE FALSE
  OBVIOUS
<1>1. ~IsEmpty(rooms[r])
  BY DEF EmptyRoomIsBeingSwept, OwnPeers
<1>2. PICK role \in Roles : rooms[r][role] \in Peers
  BY <1>1 DEF IsEmpty, TypeOK, Room
<1>3. Holds(rooms[r][role], r, role)
  BY <1>2 DEF Holds
<1>4. /\ Admitted(rooms[r][role])
      /\ want[rooms[r][role]] = [room |-> r, role |-> role]
  BY <1>2, <1>3 DEF OccupantIsAdmitted
<1>5. want[rooms[r][role]].room = r
  BY <1>4
<1> QED
  BY <1>2, <1>4, <1>5 DEF Admitted

\* A step keeps RemovalIsReported.
LEMMA RemovalStep ==
    TypeOK /\ OccupantIsAdmitted /\ EmptyRoomIsBeingSwept /\ RemovalIsReported /\ [Next]_vars
        => RemovalIsReported'
<1> SUFFICES ASSUME TypeOK, OccupantIsAdmitted, EmptyRoomIsBeingSwept,
                    RemovalIsReported, [Next]_vars, NEW r \in RoomIds,
                    Deserted(r)'
             PROVE  Told(r)'
  BY DEF RemovalIsReported
<1> USE DEF TypeOK, Stages, Goto, Deserted, OwnPeers, Told
<1>0. Deserted(r) => Told(r)
  BY DEF RemovalIsReported
<1>1. ASSUME NEW p \in Peers, JoinTake(p) \/ JoinCreate(p) \/ LeaveClear(p) \/ JoinAbsent(p)
      PROVE  Told(r)'
  <2>1. want[p].room # r
    BY <1>1 DEF JoinTake, JoinCreate, LeaveClear, JoinAbsent
  <2>2. Deserted(r)
    BY <1>1, <2>1 DEF JoinTake, JoinCreate, LeaveClear, JoinAbsent
  <2>3. Told(r)
    BY <1>0, <2>2
  <2> QED
    BY <1>1, <2>3 DEF JoinTake, JoinCreate, LeaveClear, JoinAbsent
<1>2. ASSUME NEW p \in Peers, JoinRefused(p) PROVE Told(r)'
  <2>1. Deserted(r)
    BY <1>2 DEF JoinRefused
  <2>2. Told(r)
    BY <1>0, <2>1
  <2> QED
    BY <1>2, <2>2 DEF JoinRefused
<1>3. ASSUME NEW p \in Peers, NEW s \in RoomIds, LeaveSweep(p, s) PROVE Told(r)'
  <2>1. want[p].room # r
    BY <1>3 DEF LeaveSweep
  <2>2. Deserted(r)
    BY <1>3, <2>1 DEF LeaveSweep
  <2>3. Told(r)
    BY <1>0, <2>2
  <2> QED
    BY <1>3, <2>3 DEF LeaveSweep
<1>4. ASSUME NEW p \in Peers, LeaveCheck(p) PROVE Told(r)'
  <2>1. CASE want[p].room = r
    <3>1. \A x \in Peers : want[x].room = r => pc[x] \notin {"in", "sweeping"}
      BY <1>4, <2>1 DEF LeaveCheck
    <3>2. rooms[r] = NoRoom
      BY <3>1, NobodyMeansNoRoom
    <3> QED
      BY <1>4, <2>1, <3>2 DEF LeaveCheck
  <2>2. CASE want[p].room # r
    <3>1. Deserted(r)
      BY <1>4, <2>2 DEF LeaveCheck
    <3>2. Told(r)
      BY <1>0, <3>1
    <3> QED
      BY <1>4, <2>2, <3>2 DEF LeaveCheck
  <2> QED
    BY <2>1, <2>2
<1>5. CASE UNCHANGED vars
  BY <1>0, <1>5 DEF vars
<1> QED
  BY <1>1, <1>2, <1>3, <1>4, <1>5 DEF Next, Join, Leave, Sweep

\* When a room's last connection has left, some leaver was told "removed".
THEOREM RemovalReported == Spec => []RemovalIsReported
<1>1. Init => RemovalIsReported
  BY DEF Init, RemovalIsReported, Deserted, OwnPeers
<1> QED
  BY <1>1, TypeCorrect, OccupantCorrect, NoLeakedRoom, RemovalStep, PTL DEF Spec

-----------------------------------------------------------------------------
(* Eviction *)

\* A peer that is still admitted loses its slot only to a late creator.
THEOREM EvictionByCreatorOnly == Spec => OnlyLateCreatorEvicts
<1> DEFINE LateCreator(p, r) ==
              \E q \in Peers \ {p} : /\ pc[q] = "creating" /\ pc'[q] = "in"
                                     /\ want[q].room = r
<1>1. ASSUME TypeOK, OccupantIsAdmitted, [Next]_vars,
             NEW p \in Peers, NEW r \in RoomIds, NEW role \in Roles,
             Holds(p, r, role), ~Holds(p, r, role)', pc'[p] = "in"
      PROVE  LateCreator(p, r)
  <2> USE DEF TypeOK, Stages, Goto, Holds
  <2>0. p # NoPeer /\ pc[p] = "in"
    BY <1>1, ConstantsOK DEF OccupantIsAdmitted, Admitted
  <2>1. ASSUME NEW q \in Peers, JoinTake(q) PROVE FALSE
    BY <1>1, <2>0, <2>1, ConstantsOK, RoomUpdate DEF JoinTake, Room
  <2>2. ASSUME NEW q \in Peers, JoinRefused(q) \/ JoinAbsent(q) \/ LeaveCheck(q) PROVE FALSE
    BY <1>1, <2>2 DEF JoinRefused, JoinAbsent, LeaveCheck
  <2>3. ASSUME NEW q \in Peers, JoinCreate(q) PROVE LateCreator(p, r)
    BY <1>1, <2>0, <2>3 DEF JoinCreate
  <2>4. ASSUME NEW q \in Peers, LeaveClear(q) PROVE FALSE
    <3>1. q # p
      BY <1>1, <2>4 DEF LeaveClear
    <3>2. rooms[r] # NoRoom => Without(rooms[r], q) \in Room
      BY <1>1, <2>4, RoomUpdate
    <3> QED
      BY <1>1, <2>4, <3>1, <3>2, ConstantsOK DEF LeaveClear, Without
  <2>5. ASSUME NEW q \in Peers, NEW s \in RoomIds, LeaveSweep(q, s) PROVE FALSE
    <3>1. ~Droppable(rooms[r])
      BY <1>1, <2>0 DEF Droppable, IsEmpty
    <3> QED
      BY <1>1, <2>5, <3>1 DEF LeaveSweep
  <2>6. CASE UNCHANGED vars
    BY <1>1, <2>6 DEF vars
  <2> QED
    BY <1>1, <2>1, <2>2, <2>3, <2>4, <2>5, <2>6 DEF Next, Join, Leave, Sweep
<1>2. TypeOK /\ OccupantIsAdmitted /\ [Next]_vars =>
         [\A p \in Peers, r \in RoomIds, role \in Roles :
             (Holds(p, r, role) /\ ~Holds(p, r, role)' /\ pc'[p] = "in")
               => LateCreator(p, r)]_vars
  BY <1>1
<1> QED
  BY <1>2, TypeCorrect, OccupantCorrect, PTL DEF Spec, OnlyLateCreatorEvicts

-----------------------------------------------------------------------------
(* The registry implements RoomSlots *)

\* A registry without entries shows every slot free and nobody inside.
LEMMA InitSlots == Init => Slots!Init
BY DEF Init, Slots!Init, Slots!Free, SlotView, Vacant, Admitted

\* Every step of the registry is a step of the slot discipline: taking a
\* slot, starting the room afresh and clearing are its three steps, and
\* everything else, the sweep included, changes no slot.
LEMMA StepSlots ==
    TypeOK /\ OccupantIsAdmitted /\ [Next]_vars
        => [Slots!Next]_<<SlotView, {p \in Peers : Admitted(p)}>>
<1> DEFINE Inside == {p \in Peers : Admitted(p)}
<1> SUFFICES ASSUME TypeOK, OccupantIsAdmitted, [Next]_vars
             PROVE  Slots!Next \/ (SlotView' = SlotView /\ Inside' = Inside)
  OBVIOUS
<1> USE DEF TypeOK, Stages, Goto, Admitted
<1>1. ASSUME NEW p \in Peers, JoinTake(p) PROVE Slots!Next
  <2>1. want[p].room \in RoomIds /\ want[p].role \in Roles
    OBVIOUS
  <2>2. Slots!Take(p, want[p].room, want[p].role)
    <3>1. p \notin Inside
      BY <1>1 DEF JoinTake
    <3>2. SlotView[want[p].room][want[p].role] = NoPeer
      BY <1>1, <2>1 DEF JoinTake, SlotView
    <3>3. SlotView' = [SlotView EXCEPT ![want[p].room] =
                          [SlotView[want[p].room] EXCEPT ![want[p].role] = p]]
      <4>1. [rooms[want[p].room] EXCEPT ![want[p].role] = p] \in Room
        BY <1>1, <2>1, RoomUpdate DEF JoinTake
      <4>2. [rooms[want[p].room] EXCEPT ![want[p].role] = p] # NoRoom
        BY <4>1, ConstantsOK
      <4> QED
        BY <1>1, <2>1, <4>2 DEF JoinTake, SlotView
    <3>4. Inside' = Inside \cup {p}
      BY <1>1 DEF JoinTake
    <3> QED
      BY <3>1, <3>2, <3>3, <3>4 DEF Slots!Take
  <2> QED
    BY <2>1, <2>2 DEF Slots!Next, Slots!Take
<1>2. ASSUME NEW p \in Peers, JoinRefused(p)
      PROVE  SlotView' = SlotView /\ Inside' = Inside
  BY <1>2 DEF JoinRefused, SlotView
<1>3. ASSUME NEW p \in Peers, JoinAbsent(p)
      PROVE  SlotView' = SlotView /\ Inside' = Inside
  BY <1>3 DEF JoinAbsent, SlotView
<1>4. ASSUME NEW p \in Peers, JoinCreate(p) PROVE Slots!Next
  <2>1. want[p].room \in RoomIds /\ want[p].role \in Roles
    OBVIOUS
  <2>2. [Vacant EXCEPT ![want[p].role] = p] # NoRoom
    BY <2>1, ConstantsOK DEF Room, Vacant
  <2>3. SlotView' = [SlotView EXCEPT ![want[p].room] = [Vacant EXCEPT ![want[p].role] = p]]
    BY <1>4, <2>1, <2>2 DEF JoinCreate, SlotView
  <2>4. p \notin Inside /\ Inside' = Inside \cup {p}
    BY <1>4 DEF JoinCreate
  <2>5. Slots!StartAfresh(p, want[p].room, want[p].role)
    BY <2>3, <2>4 DEF Slots!StartAfresh, Slots!Free, Vacant
  <2> QED
    BY <2>1, <2>5 DEF Slots!Next, Slots!StartAfresh
<1>5. ASSUME NEW p \in Peers, LeaveClear(p) PROVE Slots!Next
  <2> DEFINE r == want[p].room
  <2>1. r \in RoomIds
    OBVIOUS
  <2>2. p \in Inside /\ Inside' = Inside \ {p}
    BY <1>5 DEF LeaveClear
  <2>3. SlotView' = [SlotView EXCEPT ![r] = Without(SlotView[r], p)]
    <3>1. CASE rooms[r] = NoRoom
      <4>1. SlotView[r] = Vacant
        BY <2>1, <3>1 DEF SlotView
      <4>2. Without(Vacant, p) = Vacant
        BY ConstantsOK DEF Without, Vacant
      <4>3. SlotView' = SlotView
        BY <1>5, <3>1 DEF LeaveClear, SlotView
      <4> QED
        BY <2>1, <4>1, <4>2, <4>3 DEF SlotView
    <3>2. CASE rooms[r] # NoRoom
      <4>1. Without(rooms[r], p) \in Room
        BY <2>1, <3>2, RoomUpdate DEF TypeOK, Without, Room
      <4>2. Without(rooms[r], p) # NoRoom
        BY <4>1, ConstantsOK
      <4> QED
        BY <1>5, <2>1, <3>2, <4>2 DEF LeaveClear, SlotView
    <3> QED
      BY <3>1, <3>2
  <2>4. Slots!GiveUp(p, r)
    BY <2>2, <2>3 DEF Slots!GiveUp, Without
  <2> QED
    BY <2>1, <2>4 DEF Slots!Next, Slots!GiveUp
<1>6. ASSUME NEW p \in Peers, NEW r \in RoomIds, LeaveSweep(p, r)
      PROVE  SlotView' = SlotView /\ Inside' = Inside
  <2>1. Inside' = Inside
    BY <1>6 DEF LeaveSweep
  <2>2. Droppable(rooms[r]) => rooms[r] = Vacant
    BY DEF Droppable, IsEmpty, Vacant, Room
  <2>3. SlotView' = SlotView
    BY <1>6, <2>2 DEF LeaveSweep, SlotView
  <2> QED
    BY <2>1, <2>3
<1>7. ASSUME NEW p \in Peers, LeaveCheck(p)
      PROVE  SlotView' = SlotView /\ Inside' = Inside
  BY <1>7 DEF LeaveCheck, SlotView
<1>8. CASE UNCHANGED vars
  BY <1>8 DEF vars, SlotView
<1> QED
  BY <1>1, <1>2, <1>3, <1>4, <1>5, <1>6, <1>7, <1>8 DEF Next, Join, Leave, Sweep

\* The registry implements the slot discipline.
THEOREM Refinement == Spec => RefinesRoomSlots
BY InitSlots, StepSlots, TypeCorrect, OccupantCorrect, PTL DEF Spec, RefinesRoomSlots, Slots!Spec

-----------------------------------------------------------------------------
(* The server drives the registry *)

\* Every step of the server is a call of the registry or leaves it alone.
LEMMA ServerStep == [SigNext]_allVars => [Next]_vars
<1> SUFFICES ASSUME [SigNext]_allVars PROVE Next \/ UNCHANGED vars
  OBVIOUS
<1>1. ASSUME NEW p \in Peers, Handler(p) PROVE Next \/ UNCHANGED vars
  <2>1. CASE JoinRoom(p)
    BY <2>1 DEF JoinRoom, Next
  <2>2. CASE LeaveRoom(p)
    BY <2>2 DEF LeaveRoom, Next
  <2>3. CASE HangUp(p) \/ Subscribe(p) \/ Disconnected(p) \/ Announce(p)
    BY <2>3 DEF HangUp, Subscribe, Disconnected, Announce
  <2> QED
    BY <1>1, <2>1, <2>2, <2>3 DEF Handler
<1>2. ASSUME NEW p \in Peers, RelayTask(p) PROVE UNCHANGED vars
  BY <1>2 DEF RelayTask, RelayLagged, RelayOne, RelayDropped
<1>3. ASSUME NEW p \in Peers, Client(p) PROVE UNCHANGED vars
  BY <1>3 DEF Client, Authenticate, AwaitJoin, ForwardLeave, ClientGone, Forward
<1>4. CASE UNCHANGED allVars
  BY <1>4 DEF allVars
<1> QED
  BY <1>1, <1>2, <1>3, <1>4 DEF SigNext

\* Under the connection handlers the registry behaves as Rooms says: joins and
\* leaves come in the order Rooms allows, whatever clients do.
THEOREM ServerDrivesRegistry == SigSpec => Spec
<1>1. SigInit => Init
  BY DEF SigInit
<1> QED
  BY <1>1, ServerStep, PTL DEF SigSpec, Spec

\* So the registry of a running server leaks no room and keeps no slot for a
\* peer that was refused or has left.
THEOREM RegistryUnderServer ==
    SigSpec => [](TypeOK /\ OccupantIsAdmitted /\ EmptyRoomIsBeingSwept /\ RemovalIsReported)
BY ServerDrivesRegistry, TypeCorrect, OccupantCorrect, NoLeakedRoom, RemovalReported, PTL

-----------------------------------------------------------------------------
(* Types *)

LEMMA RoomOfType == ASSUME TypeOK, NEW p \in Peers PROVE RoomOf(p) \in RoomIds
BY DEF TypeOK, RoomOf

\* A broadcast keeps the channels sequences of messages.
LEMMA BroadcastType ==
    ASSUME SigTypeOK, NEW r \in RoomIds, NEW m \in Message, Broadcast(r, m)
    PROVE  log' \in [RoomIds -> Seq(Message)]
<1>1. Append(log[r], m) \in Seq(Message)
  BY DEF SigTypeOK
<1> QED
  BY <1>1 DEF SigTypeOK, Broadcast

\* A handler's jump keeps the phases typed.
LEMMA ToType ==
    ASSUME SigTypeOK, NEW p \in Peers, NEW ph \in Phases, To(p, ph)
    PROVE  phase' \in [Peers -> Phases]
BY DEF SigTypeOK, To

LEMMA SigInitTyped == SigInit => SigTypeOK
<1> SUFFICES ASSUME SigInit PROVE SigTypeOK
  OBVIOUS
<1>1. TypeOK
  BY DEF SigInit, Init, TypeOK, Stages
<1>2. phase \in [Peers -> Phases]
  BY SignalingConstantsOK DEF SigInit, Phases
<1>3. log \in [RoomIds -> Seq(Message)]
  BY DEF SigInit
<1>4. sends \in 0..MaxSends
  BY SignalingConstantsOK DEF SigInit
<1> QED
  BY <1>1, <1>2, <1>3, <1>4 DEF SigInit, SigTypeOK

\* Every step of the server keeps it well typed.
LEMMA SigTypeStep == SigTypeOK /\ [SigNext]_allVars => SigTypeOK'
<1> SUFFICES ASSUME SigTypeOK, [SigNext]_allVars PROVE SigTypeOK'
  OBVIOUS
<1>0. TypeOK' /\ (\A p \in Peers : RoomOf(p) \in RoomIds)
  BY ServerStep, TypeStep, RoomOfType DEF SigTypeOK
<1>1. ASSUME NEW p \in Peers, Handler(p) PROVE SigTypeOK'
  <2>1. CASE JoinRoom(p)
    <3>1. phase' \in [Peers -> Phases]
      BY <2>1 DEF JoinRoom, AfterJoin, To, SigTypeOK, Phases
    <3> QED
      BY <1>0, <2>1, <3>1 DEF JoinRoom, SigTypeOK
  <2>2. CASE LeaveRoom(p)
    <3>1. phase' \in [Peers -> Phases]
      BY <2>2 DEF LeaveRoom, To, SigTypeOK, Phases
    <3> QED
      BY <1>0, <2>2, <3>1 DEF LeaveRoom, SigTypeOK
  <2>3. CASE HangUp(p)
    BY <1>0, <2>3 DEF HangUp, To, SigTypeOK, Phases
  <2>4. CASE Subscribe(p)
    <3>1. Len(log[RoomOf(p)]) \in Nat
      BY <1>0 DEF SigTypeOK
    <3> QED
      BY <1>0, <2>4, <3>1 DEF Subscribe, To, SigTypeOK, Phases
  <2>5. CASE Disconnected(p)
    BY <1>0, <2>5 DEF Disconnected, AbortRelay, To, SigTypeOK, Phases
  <2>6. CASE Announce(p)
    <3>1. log' \in [RoomIds -> Seq(Message)]
      BY <1>0, <2>6, BroadcastType DEF Announce, Message
    <3> QED
      BY <1>0, <2>6, <3>1 DEF Announce, To, SigTypeOK, Phases
  <2> QED
    BY <1>1, <2>1, <2>2, <2>3, <2>4, <2>5, <2>6 DEF Handler
<1>2. ASSUME NEW p \in Peers, RelayTask(p) PROVE SigTypeOK'
  <2>0. log[RoomOf(p)] \in Seq(Message) /\ Len(log[RoomOf(p)]) \in Nat /\ pos[p] \in Nat
    BY <1>0 DEF SigTypeOK
  <2>1. CASE RelayLagged(p)
    <3>1. Len(log[RoomOf(p)]) - Capacity \in Nat
      BY <2>0, <2>1, SignalingConstantsOK DEF RelayLagged, Unread
    <3> QED
      BY <1>0, <2>1, <3>1 DEF RelayLagged, SigTypeOK
  <2>2. CASE RelayOne(p)
    <3>1. log[RoomOf(p)][pos[p] + 1] \in Message
      <4>1. pos[p] + 1 \in 1..Len(log[RoomOf(p)])
        BY <2>0, <2>2, SignalingConstantsOK DEF RelayOne, Unread
      <4> QED
        BY <2>0, <4>1
    <3>2. CASE conn[p]
      <4>1. out' \in [Peers -> Message \cup {Nothing}]
        BY <2>2, <3>1, <3>2 DEF RelayOne, SigTypeOK
      <4>2. pos' \in [Peers -> Nat]
        BY <2>0, <2>2, <3>2 DEF RelayOne, SigTypeOK
      <4> QED
        BY <1>0, <2>2, <3>2, <4>1, <4>2 DEF RelayOne, SigTypeOK
    <3>3. CASE ~conn[p]
      BY <1>0, <2>2, <3>3 DEF RelayOne, SigTypeOK
    <3> QED
      BY <3>2, <3>3
  <2>3. CASE RelayDropped(p)
    BY <1>0, <2>3 DEF RelayDropped, SigTypeOK
  <2> QED
    BY <1>2, <2>1, <2>2, <2>3 DEF RelayTask
<1>3. ASSUME NEW p \in Peers, Client(p) PROVE SigTypeOK'
  <2>1. CASE Authenticate(p)
    BY <1>0, <2>1 DEF Authenticate, To, SigTypeOK, Phases
  <2>2. CASE AwaitJoin(p)
    BY <1>0, <2>2 DEF AwaitJoin, To, SigTypeOK, Phases
  <2>3. CASE ForwardLeave(p)
    <3>1. log' \in [RoomIds -> Seq(Message)]
      BY <1>0, <2>3, BroadcastType DEF ForwardLeave, Message
    <3> QED
      BY <1>0, <2>3, <3>1 DEF ForwardLeave, AbortRelay, To, SigTypeOK, Phases
  <2>4. CASE ClientGone(p)
    BY <1>0, <2>4 DEF ClientGone, SigTypeOK
  <2>5. ASSUME NEW kind \in Kinds, Forward(p, kind) PROVE SigTypeOK'
    <3>1. log' \in [RoomIds -> Seq(Message)]
      <4>1. CASE kind \in Relayed
        BY <1>0, <2>5, <4>1, BroadcastType DEF Forward, Message
      <4>2. CASE kind \notin Relayed
        BY <2>5, <4>2 DEF Forward, SigTypeOK
      <4> QED
        BY <4>1, <4>2
    <3>2. sends' \in 0..MaxSends
      BY <2>5, SignalingConstantsOK DEF Forward, SigTypeOK
    <3> QED
      BY <1>0, <2>5, <3>1, <3>2 DEF Forward, SigTypeOK
  <2> QED
    BY <1>3, <2>1, <2>2, <2>3, <2>4, <2>5 DEF Client
<1>4. CASE UNCHANGED allVars
  BY <1>4 DEF allVars, sigVars, vars, SigTypeOK, TypeOK
<1> QED
  BY <1>1, <1>2, <1>3, <1>4 DEF SigNext

\* Every reachable state of the server is well typed.
THEOREM SigTypeCorrect == SigSpec => []SigTypeOK
BY SigInitTyped, SigTypeStep, PTL DEF SigSpec

-----------------------------------------------------------------------------
(* The teardown *)

\* Where the registry has each connection, seen from where its handler stands,
\* and that a relay task exists only beside or after a forward loop.
HandlerAgrees ==
    \A p \in Peers :
        /\ phase[p] \in {"auth", "await"} => pc[p] = "new"
        /\ phase[p] = "join" => pc[p] \in {"new", "creating"}
        /\ phase[p] \in {"subscribe", "relay"} => pc[p] = "in"
        /\ phase[p] = "leave" => pc[p] \in {"in", "sweeping", "checking"}
        /\ phase[p] = "announce" => pc[p] = "left"
        /\ phase[p] = "closed" => pc[p] \in {"new", "refused", "left"}
        /\ relay[p] # "none" => phase[p] \in {"relay", "leave", "announce", "closed"}

\* A step of join_room, seen from outside the registry.
LEMMA JoinMoves ==
    ASSUME TypeOK, NEW p \in Peers, Join(p)
    PROVE  /\ pc[p] \in {"new", "creating"} /\ pc'[p] \in {"in", "refused", "creating"}
           /\ \A q \in Peers \ {p} : pc'[q] = pc[q]
BY DEF TypeOK, Join, JoinTake, JoinRefused, JoinAbsent, JoinCreate, Goto

\* A step of leave_room, seen from outside the registry.
LEMMA LeaveMoves ==
    ASSUME TypeOK, NEW p \in Peers, Leave(p)
    PROVE  /\ pc[p] \in {"in", "sweeping", "checking"}
           /\ pc'[p] \in {"sweeping", "checking", "left"}
           /\ \A q \in Peers \ {p} : pc'[q] = pc[q]
<1>1. CASE LeaveClear(p)
  BY <1>1 DEF TypeOK, LeaveClear, Goto
<1>2. ASSUME NEW r \in RoomIds, LeaveSweep(p, r)
      PROVE  /\ pc[p] = "sweeping" /\ pc'[p] \in {"sweeping", "checking"}
             /\ \A q \in Peers \ {p} : pc'[q] = pc[q]
  BY <1>2 DEF TypeOK, LeaveSweep, Goto
<1>3. CASE LeaveCheck(p)
  BY <1>3 DEF TypeOK, LeaveCheck, Goto
<1> QED
  BY <1>1, <1>2, <1>3 DEF Leave, Sweep

\* A handler and the registry keep agreeing, whatever its connection does.
LEMMA AgreesStep == SigTypeOK /\ HandlerAgrees /\ [SigNext]_allVars => HandlerAgrees'
<1> SUFFICES ASSUME SigTypeOK, HandlerAgrees, [SigNext]_allVars PROVE HandlerAgrees'
  OBVIOUS
<1> USE DEF HandlerAgrees, SigTypeOK, To, Phases
<1>1. ASSUME NEW p \in Peers, Handler(p) PROVE HandlerAgrees'
  <2>1. CASE JoinRoom(p)
    <3>1. /\ pc[p] \in {"new", "creating"} /\ pc'[p] \in {"in", "refused", "creating"}
          /\ \A q \in Peers \ {p} : pc'[q] = pc[q]
      BY <2>1, JoinMoves DEF JoinRoom
    <3>2. CASE pc'[p] = "in"
      BY <2>1, <3>1, <3>2 DEF JoinRoom, AfterJoin
    <3>3. CASE pc'[p] = "refused"
      BY <2>1, <3>1, <3>3 DEF JoinRoom, AfterJoin
    <3>4. CASE pc'[p] = "creating"
      BY <2>1, <3>1, <3>4 DEF JoinRoom, AfterJoin
    <3> QED
      BY <3>1, <3>2, <3>3, <3>4
  <2>2. CASE LeaveRoom(p)
    <3>1. /\ pc'[p] \in {"sweeping", "checking", "left"}
          /\ \A q \in Peers \ {p} : pc'[q] = pc[q]
      BY <2>2, LeaveMoves DEF LeaveRoom
    <3> QED
      BY <2>2, <3>1 DEF LeaveRoom
  <2>3. CASE HangUp(p) \/ Announce(p)
    BY <2>3 DEF HangUp, Announce, vars
  <2>4. CASE Subscribe(p)
    BY <2>4 DEF Subscribe, vars
  <2>5. CASE Disconnected(p)
    BY <2>5 DEF Disconnected, AbortRelay, vars
  <2> QED
    BY <1>1, <2>1, <2>2, <2>3, <2>4, <2>5 DEF Handler
<1>2. ASSUME NEW p \in Peers, RelayTask(p) PROVE HandlerAgrees'
  BY <1>2 DEF RelayTask, RelayLagged, RelayOne, RelayDropped, vars
<1>3. ASSUME NEW p \in Peers, Client(p) PROVE HandlerAgrees'
  <2>1. CASE Authenticate(p) \/ AwaitJoin(p)
    BY <2>1 DEF Authenticate, AwaitJoin, vars
  <2>2. CASE ForwardLeave(p)
    BY <2>2 DEF ForwardLeave, AbortRelay, vars
  <2>3. ASSUME ClientGone(p) \/ \E kind \in Kinds : Forward(p, kind) PROVE HandlerAgrees'
    BY <2>3 DEF ClientGone, Forward, vars
  <2> QED
    BY <1>3, <2>1, <2>2, <2>3 DEF Client
<1>4. CASE UNCHANGED allVars
  BY <1>4 DEF allVars, sigVars, vars
<1> QED
  BY <1>1, <1>2, <1>3, <1>4 DEF SigNext

\* At every point of handle_socket the registry has the connection where the
\* handler takes it to be, until the handler has ended.
THEOREM HandlersAgree == SigSpec => []HandlerAgrees
<1>1. SigInit => HandlerAgrees
  BY DEF SigInit, Init, HandlerAgrees
<1> QED
  BY <1>1, SigTypeCorrect, AgreesStep, PTL DEF SigSpec

\* What a broadcast adds to the channels is at most the message broadcast.
LEMMA BroadcastSays ==
    ASSUME SigTypeOK, NEW r \in RoomIds, NEW m \in Message, Broadcast(r, m),
           NEW s \in RoomIds, NEW x \in Said(s)'
    PROVE  x = m \/ x \in Said(s)
<1>1. CASE log' = log
  BY <1>1 DEF Said
<1>2. CASE log' = [log EXCEPT ![r] = Append(@, m)]
  <2>1. log[s] \in Seq(Message) /\ log[r] \in Seq(Message)
    BY DEF SigTypeOK
  <2>2. PICK i \in DOMAIN log'[s] : x = log'[s][i]
    BY DEF Said
  <2>3. CASE s = r
    <3>1. log'[s] = Append(log[s], m)
      BY <1>2, <2>3 DEF SigTypeOK
    <3>2. i = Len(log[s]) + 1 \/ i \in DOMAIN log[s]
      BY <2>1, <2>2, <3>1
    <3> QED
      BY <2>1, <2>2, <3>1, <3>2 DEF Said
  <2>4. CASE s # r
    BY <1>2, <2>2, <2>4 DEF Said, SigTypeOK
  <2> QED
    BY <2>3, <2>4
<1> QED
  BY <1>1, <1>2 DEF Broadcast

\* No step puts an announcement on a channel before its peer has left, and
\* nobody who has left comes back.
LEMMA AnnouncedStep ==
    SigTypeOK /\ HandlerAgrees /\ ServerAnnouncesAfterLeaving /\ [SigNext]_allVars
        => ServerAnnouncesAfterLeaving'
<1> SUFFICES ASSUME SigTypeOK, HandlerAgrees, ServerAnnouncesAfterLeaving, [SigNext]_allVars,
                    NEW s \in RoomIds, NEW x \in Said(s)', x.kind = "left"
             PROVE  pc'[x.from] = "left"
  BY DEF ServerAnnouncesAfterLeaving
<1>1. SigTypeOK'
  BY SigTypeStep
<1>2. x \in Message /\ x.from \in Peers
  <2>1. PICK i \in DOMAIN log'[s] : x = log'[s][i]
    BY DEF Said
  <2>2. log'[s] \in Seq(Message)
    BY <1>1 DEF SigTypeOK
  <2>3. x \in Message
    BY <2>1, <2>2
  <2> QED
    BY <2>3 DEF Message
<1>3. x \in Said(s) => pc[x.from] = "left"
  BY DEF ServerAnnouncesAfterLeaving
<1>4. \A q \in Peers : pc[q] = "left" => pc'[q] = "left"
  <2> SUFFICES ASSUME NEW q \in Peers, pc[q] = "left" PROVE pc'[q] = "left"
    OBVIOUS
  <2>1. ASSUME NEW p \in Peers, Join(p) PROVE pc'[q] = "left"
    BY <2>1, JoinMoves DEF SigTypeOK
  <2>2. ASSUME NEW p \in Peers, Leave(p) PROVE pc'[q] = "left"
    BY <2>2, LeaveMoves DEF SigTypeOK
  <2> QED
    BY <2>1, <2>2, ServerStep DEF Next, vars
<1>5. ASSUME Said(s)' \subseteq Said(s) PROVE pc'[x.from] = "left"
  BY <1>2, <1>3, <1>4, <1>5
<1>6. ASSUME NEW p \in Peers, NEW kind \in Relayed \cup {"bye", "left"},
             Broadcast(RoomOf(p), [kind |-> kind, from |-> p]), kind = "left" => pc[p] = "left"
      PROVE  pc'[x.from] = "left"
  <2>1. RoomOf(p) \in RoomIds /\ [kind |-> kind, from |-> p] \in Message
    BY RoomOfType DEF SigTypeOK, Message
  <2>2. x = [kind |-> kind, from |-> p] \/ x \in Said(s)
    BY <1>6, <2>1, BroadcastSays
  <2> QED
    BY <1>2, <1>3, <1>4, <1>6, <2>2
<1>7. ASSUME NEW p \in Peers, Handler(p) PROVE pc'[x.from] = "left"
  <2>1. CASE Announce(p)
    BY <1>6, <2>1 DEF Announce, HandlerAgrees
  <2>2. CASE HangUp(p) \/ JoinRoom(p) \/ Subscribe(p) \/ Disconnected(p) \/ LeaveRoom(p)
    BY <1>5, <2>2 DEF HangUp, JoinRoom, Subscribe, Disconnected, LeaveRoom, Said
  <2> QED
    BY <1>7, <2>1, <2>2 DEF Handler
<1>8. ASSUME NEW p \in Peers, RelayTask(p) PROVE pc'[x.from] = "left"
  BY <1>5, <1>8 DEF RelayTask, RelayLagged, RelayOne, RelayDropped, Said
<1>9. ASSUME NEW p \in Peers, Client(p) PROVE pc'[x.from] = "left"
  <2>1. CASE Authenticate(p) \/ AwaitJoin(p) \/ ClientGone(p)
    BY <1>5, <2>1 DEF Authenticate, AwaitJoin, ClientGone, Said
  <2>2. CASE ForwardLeave(p)
    BY <1>6, <2>2 DEF ForwardLeave
  <2>3. ASSUME NEW kind \in Kinds, Forward(p, kind) PROVE pc'[x.from] = "left"
    <3>1. kind # "left"
      BY SignalingConstantsOK
    <3> QED
      BY <1>5, <1>6, <2>3, <3>1 DEF Forward, Said
  <2> QED
    BY <1>9, <2>1, <2>2, <2>3 DEF Client
<1>10. CASE UNCHANGED allVars
  BY <1>5, <1>10 DEF allVars, sigVars, Said
<1> QED
  BY <1>7, <1>8, <1>9, <1>10 DEF SigNext

\* However a connection ends, its handler gives the slot back and announces
\* the departure only then.
THEOREM TeardownCorrect == SigSpec => []TeardownIsComplete
<1>1. SigInit => ServerAnnouncesAfterLeaving
  BY DEF SigInit, ServerAnnouncesAfterLeaving, Said
<1>2. HandlerAgrees => RegistryFollowsHandler
  BY DEF HandlerAgrees, RegistryFollowsHandler
<1> QED
  BY <1>1, <1>2, SigTypeCorrect, HandlersAgree, AnnouncedStep, PTL
  DEF SigSpec, TeardownIsComplete

-----------------------------------------------------------------------------
(* The relay implements RoomRelay *)

\* The server starts with empty rooms and nobody attached.
LEMMA InitRelay == SigInit => Relay!Init
BY DEF SigInit, Init, Relay!Init, StageOf, RoomOf

\* What is put on a channel is said by a peer that is attached.
LEMMA BroadcastIsSay ==
    ASSUME SigTypeOK, NEW p \in Peers, NEW kind \in Relayed \cup {"bye", "left"},
           phase[p] \in {"relay", "announce"},
           Broadcast(RoomOf(p), [kind |-> kind, from |-> p]), UNCHANGED <<pos, out>>,
           log' # log
    PROVE  \E m \in Message : m.from = p /\ Relay!Say(m)
<1> DEFINE m == [kind |-> kind, from |-> p]
<1>1. m \in Message /\ m.from = p
  BY DEF Message
<1>2. log' = [log EXCEPT ![RoomOf(p)] = Append(@, m)]
  BY DEF Broadcast
<1>3. StageOf(p) = "in"
  BY DEF StageOf
<1>4. Relay!Say(m)
  BY <1>1, <1>2, <1>3 DEF Relay!Say
<1> QED
  BY <1>1, <1>4

\* Every step of the server is a step of the abstract relay, or changes
\* nothing of what it shows.
LEMMA StepRelay ==
    SigTypeOK /\ HandlerAgrees /\ [SigNext]_allVars => [Relay!Next]_(Relay!relayVars)
<1> DEFINE stage == [p \in Peers |-> StageOf(p)]
           room == [p \in Peers |-> RoomOf(p)]
           Stutter == UNCHANGED Relay!relayVars
<1> SUFFICES ASSUME SigTypeOK, HandlerAgrees, [SigNext]_allVars
             PROVE  Relay!Next \/ Stutter
  OBVIOUS
<1>0. want' = want /\ room' = room
  <2>1. want' = want
    BY ServerStep DEF Next, Join, JoinTake, JoinRefused, JoinAbsent, JoinCreate, Leave, Sweep,
       LeaveClear, LeaveSweep, LeaveCheck, vars
  <2> QED
    BY <2>1 DEF RoomOf
\* A jump of one handler moves one peer's stage.
<1>1. ASSUME NEW p \in Peers, NEW ph \in Phases, To(p, ph)
      PROVE  stage' = [stage EXCEPT ![p] = IF ph \in {"relay", "leave", "announce"} THEN "in"
                                           ELSE IF ph = "closed" THEN "gone" ELSE "out"]
  BY <1>1 DEF To, StageOf, SigTypeOK
<1>2. ASSUME UNCHANGED <<phase, log, pos, out>> PROVE Stutter
  BY <1>0, <1>2 DEF StageOf, Relay!relayVars
<1>3. ASSUME UNCHANGED <<log, pos, out>>, stage' = stage PROVE Stutter
  BY <1>0, <1>3 DEF Relay!relayVars
<1>4. ASSUME UNCHANGED <<log, pos, out>>, NEW p \in Peers, To(p, "closed"), phase[p] # "closed"
      PROVE  Relay!Next
  <2>1. stage' = [stage EXCEPT ![p] = "gone"] /\ stage[p] # "gone"
    BY <1>1, <1>4 DEF Phases, StageOf
  <2>2. Relay!Depart(p)
    BY <1>4, <2>1 DEF Relay!Depart, Relay!Go
  <2> QED
    BY <1>0, <2>2 DEF Relay!Next
<1>5. ASSUME NEW p \in Peers, Handler(p) PROVE Relay!Next \/ Stutter
  <2>1. CASE HangUp(p)
    BY <1>4, <2>1 DEF HangUp
  <2>2. CASE JoinRoom(p)
    <3>1. CASE pc'[p] = "in"
      <4>1. stage' = stage
        BY <1>1, <2>2, <3>1 DEF JoinRoom, AfterJoin, StageOf, Phases, To, SigTypeOK
      <4> QED
        BY <1>3, <2>2, <4>1 DEF JoinRoom
    <3>2. CASE pc'[p] = "refused"
      BY <1>4, <2>2, <3>2 DEF JoinRoom, AfterJoin
    <3>3. CASE pc'[p] \notin {"in", "refused"}
      BY <1>2, <2>2, <3>3 DEF JoinRoom, AfterJoin
    <3> QED
      BY <3>1, <3>2, <3>3
  <2>3. CASE Subscribe(p)
    <3>1. stage' = [stage EXCEPT ![p] = "in"] /\ stage[p] = "out"
      BY <1>1, <2>3 DEF Subscribe, StageOf, Phases
    <3>2. Relay!Attach(p)
      BY <2>3, <3>1 DEF Subscribe, Relay!Attach
    <3> QED
      BY <1>0, <3>2 DEF Relay!Next
  <2>4. CASE Disconnected(p)
    <3>1. stage' = stage
      BY <2>4 DEF Disconnected, To, StageOf, SigTypeOK
    <3> QED
      BY <1>3, <2>4, <3>1 DEF Disconnected
  <2>5. CASE LeaveRoom(p)
    <3>1. stage' = stage
      BY <2>5 DEF LeaveRoom, To, StageOf, SigTypeOK
    <3> QED
      BY <1>3, <2>5, <3>1 DEF LeaveRoom
  <2>6. CASE Announce(p)
    <3>1. CASE log' = log
      BY <1>4, <2>6, <3>1 DEF Announce
    <3>2. CASE log' # log
      <4>1. PICK m \in Message : m.from = p /\ Relay!Say(m)
        BY <2>6, <3>2, BroadcastIsSay DEF Announce
      <4>2. stage' = [stage EXCEPT ![p] = "gone"] /\ stage[p] = "in"
        BY <1>1, <2>6 DEF Announce, StageOf, Phases
      <4>3. Relay!LastWord(m)
        BY <4>1, <4>2 DEF Relay!LastWord, Relay!Go
      <4> QED
        BY <1>0, <4>3 DEF Relay!Next
    <3> QED
      BY <3>1, <3>2
  <2> QED
    BY <1>5, <2>1, <2>2, <2>3, <2>4, <2>5, <2>6 DEF Handler
<1>6. ASSUME NEW p \in Peers, RelayTask(p) PROVE Relay!Next \/ Stutter
  <2>1. CASE RelayLagged(p)
    <3>1. stage' = stage
      BY <2>1 DEF RelayLagged, StageOf
    <3>2. Relay!Skip(p)
      BY <2>1, <3>1 DEF RelayLagged, Unread, Relay!Skip
    <3> QED
      BY <1>0, <3>2 DEF Relay!Next
  <2>2. CASE RelayOne(p) /\ conn[p]
    <3>1. stage' = stage
      BY <2>2 DEF RelayOne, StageOf
    <3>2. stage[p] # "out"
      BY <2>2 DEF RelayOne, StageOf, HandlerAgrees
    <3>3. Relay!Hear(p)
      BY <2>2, <3>1, <3>2 DEF RelayOne, Unread, Relay!Hear
    <3> QED
      BY <1>0, <3>3 DEF Relay!Next
  <2>3. CASE (RelayOne(p) /\ ~conn[p]) \/ RelayDropped(p)
    BY <1>2, <2>3 DEF RelayOne, RelayDropped
  <2> QED
    BY <1>6, <2>1, <2>2, <2>3 DEF RelayTask
<1>7. ASSUME NEW p \in Peers, Client(p) PROVE Relay!Next \/ Stutter
  <2>1. CASE Authenticate(p)
    <3>1. CASE To(p, "await")
      <4>1. stage' = stage
        BY <2>1, <3>1 DEF Authenticate, To, StageOf, SigTypeOK
      <4> QED
        BY <1>3, <2>1, <4>1 DEF Authenticate
    <3> QED
      BY <1>4, <2>1, <3>1 DEF Authenticate
  <2>2. CASE AwaitJoin(p)
    <3>1. stage' = stage
      BY <2>2 DEF AwaitJoin, To, StageOf, SigTypeOK
    <3> QED
      BY <1>3, <2>2, <3>1 DEF AwaitJoin
  <2>3. CASE ForwardLeave(p)
    <3>1. stage' = stage
      BY <2>3 DEF ForwardLeave, To, StageOf, SigTypeOK
    <3>2. CASE log' = log
      BY <1>3, <2>3, <3>1, <3>2 DEF ForwardLeave
    <3>3. CASE log' # log
      <4>1. PICK m \in Message : m.from = p /\ Relay!Say(m)
        BY <2>3, <3>3, BroadcastIsSay DEF ForwardLeave
      <4> QED
        BY <1>0, <3>1, <4>1 DEF Relay!Next
    <3> QED
      BY <3>2, <3>3
  <2>4. CASE ClientGone(p)
    BY <1>2, <2>4 DEF ClientGone
  <2>5. ASSUME NEW kind \in Kinds, Forward(p, kind) PROVE Relay!Next \/ Stutter
    <3>1. CASE log' = log
      BY <1>2, <2>5, <3>1 DEF Forward
    <3>2. CASE log' # log
      <4>1. PICK m \in Message : m.from = p /\ Relay!Say(m)
        BY <2>5, <3>2, BroadcastIsSay DEF Forward
      <4>2. stage' = stage
        BY <2>5 DEF Forward, StageOf
      <4> QED
        BY <1>0, <4>1, <4>2 DEF Relay!Next
    <3> QED
      BY <3>1, <3>2
  <2> QED
    BY <1>7, <2>1, <2>2, <2>3, <2>4, <2>5 DEF Client
<1>8. CASE UNCHANGED allVars
  BY <1>2, <1>8 DEF allVars, sigVars
<1> QED
  BY <1>5, <1>6, <1>7, <1>8 DEF SigNext

\* The server's relay implements RoomRelay.
THEOREM RelayRefinement == SigSpec => RefinesRoomRelay
BY InitRelay, StepRelay, SigTypeCorrect, HandlersAgree, PTL
DEF SigSpec, RefinesRoomRelay, Relay!Spec
=============================================================================
