----------------------------- MODULE MCChannel -----------------------------
(***************************************************************************)
(* A data channel by itself: three spools are two that overlap and one     *)
(* after, before or between them.                                          *)
(***************************************************************************)
EXTENDS DataChannelApi
============================================================================
