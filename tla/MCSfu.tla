------------------------------- MODULE MCSfu -------------------------------
(* One SFU room and two connections. *)
EXTENDS Sfu, TLC
=============================================================================
