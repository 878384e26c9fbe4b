----------------------------- MODULE RoomRelay -----------------------------
(***************************************************************************)
(* What the signaling relay promises, with sockets, tasks and the broadcast *)
(* ring hidden.  Every room has one log of what was said in it.  A peer    *)
(* that attaches hears what its room says from then on, in order, each     *)
(* message at most once and as it was said; only one that is more than     *)
(* Window messages behind loses any, and then the oldest ones; only a peer *)
(* that is attached speaks.  Signaling.tla is shown to implement this.     *)
(***************************************************************************)
EXTENDS Naturals, Sequences

CONSTANTS
    Peers,
    RoomIds,
    Nothing,
    Window,     \* how many messages behind a peer may be and lose none
    Messages    \* records with a field from, the speaker

VARIABLES
    room,       \* room[p]: the room of peer p, fixed
    stage,      \* stage[p]: "out", "in" or "gone"
    said,       \* said[r]: the messages of room r, in order
    at,         \* at[p]: how far in its room's log peer p has got
    heard       \* heard[p]: the message peer p was given last

relayVars == <<room, stage, said, at, heard>>

Init ==
    /\ room \in [Peers -> RoomIds]
    /\ stage = [p \in Peers |-> "out"]
    /\ said  = [r \in RoomIds |-> <<>>]
    /\ at    = [p \in Peers |-> 0]
    /\ heard = [p \in Peers |-> Nothing]

\* A peer attaches to its room; what was said before is not for it.
Attach(p) ==
    /\ stage[p] = "out"
    /\ stage' = [stage EXCEPT ![p] = "in"]
    /\ at' = [at EXCEPT ![p] = Len(said[room[p]])]
    /\ UNCHANGED <<said, heard>>

\* Only a peer that has attached says something, and only in its own room.
Say(m) ==
    /\ stage[m.from] = "in"
    /\ said' = [said EXCEPT ![room[m.from]] = Append(@, m)]
    /\ UNCHANGED <<at, heard>>

\* A peer that is not too far behind hears the next message of its room.
Hear(p) ==
    /\ stage[p] # "out"
    /\ Len(said[room[p]]) - at[p] \in 1..Window
    /\ at' = [at EXCEPT ![p] = @ + 1]
    /\ heard' = [heard EXCEPT ![p] = said[room[p]][at[p] + 1]]
    /\ UNCHANGED <<stage, said>>

\* One that is loses what is in excess.
Skip(p) ==
    /\ Len(said[room[p]]) - at[p] > Window
    /\ at' = [at EXCEPT ![p] = Len(said[room[p]]) - Window]
    /\ UNCHANGED <<stage, said, heard>>

Go(p) ==
    /\ stage[p] # "gone"
    /\ stage' = [stage EXCEPT ![p] = "gone"]

\* A peer is gone, possibly with a last word.
Depart(p) == Go(p) /\ UNCHANGED <<said, at, heard>>
LastWord(m) == Go(m.from) /\ Say(m)

Next ==
    /\ UNCHANGED room
    /\ \/ \E p \in Peers : Attach(p) \/ Hear(p) \/ Skip(p) \/ Depart(p)
       \/ \E m \in Messages : LastWord(m) \/ (Say(m) /\ UNCHANGED stage)

Spec == Init /\ [][Next]_relayVars
=============================================================================
