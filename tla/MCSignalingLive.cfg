\* The same two connections without a key and without relayed messages: what
\* is on the channel are the departures, and one is enough to lag behind.
CONSTANTS
    Peers = {p1, p2}
    RoomIds = {r1}
    NoPeer = NoPeer
    NoRoom = NoRoom
    PskSet = FALSE
    Capacity = 1
    Kinds = {"relayed"}
    Relayed = {"relayed"}
    MaxSends = 0
SPECIFICATION LiveSpec
PROPERTY DeparturesAreCompleted
CHECK_DEADLOCK FALSE
