------------------------------ MODULE MCRooms ------------------------------
(* Rooms with three connections and two room names. *)
EXTENDS Rooms, TLC
=============================================================================
