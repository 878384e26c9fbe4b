----------------------------- MODULE RoomSlots -----------------------------
(***************************************************************************)
(* What the room registry promises, with the map of rooms hidden: every    *)
(* room has one slot per role; a peer that is admitted takes a slot, and   *)
(* it alone gives that slot up, when it leaves.  The one exception is a    *)
(* racing first joiner, which starts the room afresh over whoever came in  *)
(* between.  Rooms.tla is shown to implement this module.                  *)
(***************************************************************************)
CONSTANTS Peers, RoomIds, Roles, NoPeer

VARIABLES
    slots,      \* slots[r][role]: who holds the slot, NoPeer if it is free
    inside      \* the peers admitted and not yet left

Free == [role \in Roles |-> NoPeer]

Init ==
    /\ slots = [r \in RoomIds |-> Free]
    /\ inside = {}

\* A peer takes a slot that nobody holds; the other slot is not disturbed.
Take(p, r, role) ==
    /\ p \notin inside
    /\ slots[r][role] = NoPeer
    /\ slots' = [slots EXCEPT ![r] = [slots[r] EXCEPT ![role] = p]]
    /\ inside' = inside \cup {p}

\* A first joiner starts the room afresh, over whoever came in between.
StartAfresh(p, r, role) ==
    /\ p \notin inside
    /\ slots' = [slots EXCEPT ![r] = [Free EXCEPT ![role] = p]]
    /\ inside' = inside \cup {p}

\* A peer leaves and gives up what it holds in its room, and nothing else.
GiveUp(p, r) ==
    /\ p \in inside
    /\ slots' = [slots EXCEPT ![r] =
                    [role \in Roles |-> IF slots[r][role] = p THEN NoPeer ELSE slots[r][role]]]
    /\ inside' = inside \ {p}

Next ==
    \E p \in Peers, r \in RoomIds :
        \/ \E role \in Roles : Take(p, r, role) \/ StartAfresh(p, r, role)
        \/ GiveUp(p, r)

Spec == Init /\ [][Next]_<<slots, inside>>
=============================================================================
