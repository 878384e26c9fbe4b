--------------------------- MODULE MCNegotiation ---------------------------
(* Two host sessions, one after the other or at once, and a client. *)
EXTENDS Negotiation, TLC

Symmetry == Permutations(Hosts)
=============================================================================
