CONSTANTS
    Peers = {p1, p2, p3}
    RoomIds = {r1}
    NoPeer = NoPeer
    NoRoom = NoRoom
SPECIFICATION Spec
INVARIANT AtMostOnePeerPerRole
CHECK_DEADLOCK FALSE
