\* Three connections are enough for a late creator, the peer it evicts and a
\* third peer that joins or leaves around them; two rooms let a sweep started
\* in one room meet the other.
CONSTANTS
    Peers = {p1, p2, p3}
    RoomIds = {r1, r2}
    NoPeer = NoPeer
    NoRoom = NoRoom
SPECIFICATION FairSpec
CHECK_DEADLOCK FALSE
INVARIANTS EmptyRoomIsBeingSwept RemovalIsReported
PROPERTIES OnlyLateCreatorEvicts RefinesRoomSlots RoomReclaimed
