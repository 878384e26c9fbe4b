---------------------------- MODULE MCMediaPath ----------------------------
(* Both queues with room for fewer frames than are under way. *)
EXTENDS MediaPath
=============================================================================
