\* Two connections to one room meet in every stage of their handlers.  One
\* relayed message, the clients' own RoomLeave and the server's announcements
\* make up to five messages on a channel that retains two, so relay tasks lag.
CONSTANTS
    Peers = {p1, p2}
    RoomIds = {r1}
    NoPeer = NoPeer
    NoRoom = NoRoom
    PskSet = TRUE
    Capacity = 2
    Kinds = {"relayed", "other"}
    Relayed = {"relayed"}
    MaxSends = 1
SPECIFICATION SigSpec
SYMMETRY Symmetry
CHECK_DEADLOCK FALSE
INVARIANT TeardownIsComplete
PROPERTY RefinesRoomRelay
