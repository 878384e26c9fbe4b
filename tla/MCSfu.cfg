\* Two connections, each of this room or of another, and one peer id more than
\* they have; two requests each: enough for a transport and a producer or a
\* consumer, for two creators of the room, for a request under the other's id
\* and for a teardown that meets a newcomer.  One worker thread per connection.
CONSTANTS
    Peers = {p1, p2}
    Names = {p1, p2, n1}
    NoPeer = NoPeer
    NoRoom = NoRoom
    Workers = 2
    MaxCalls = 2
SPECIFICATION FairSpec
CHECK_DEADLOCK FALSE
PROPERTIES DeparturesLeaveNothing StoredIsKept CallsFinish
