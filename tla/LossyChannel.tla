---------------------------- MODULE LossyChannel ----------------------------
(***************************************************************************)
(* What the way of a frame promises, seen from its two ends: a frame that  *)
(* is shown was offered before, and no frame is shown twice.  It may be    *)
(* lost, and it may overtake others.                                       *)
(***************************************************************************)
EXTENDS Sequences

CONSTANT Frames

VARIABLES
    offered,    \* the frames given to the channel
    shown       \* the frames that came out of it, in their order

Init == offered = {} /\ shown = <<>>

Offer(f) ==
    /\ f \notin offered
    /\ offered' = offered \cup {f}
    /\ UNCHANGED shown

Show(f) ==
    /\ f \in offered
    /\ \A i \in DOMAIN shown : shown[i] # f
    /\ shown' = Append(shown, f)
    /\ UNCHANGED offered

Next == \E f \in Frames : Offer(f) \/ Show(f)

Spec == Init /\ [][Next]_<<offered, shown>>
=============================================================================
