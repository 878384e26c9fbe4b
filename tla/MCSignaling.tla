---------------------------- MODULE MCSignaling ----------------------------
(* The signaling server with two connections to one room. *)
EXTENDS Signaling, TLC

Symmetry == Permutations(Peers)

\* The server treats the two roles alike, so one of the peers may be taken to
\* be a host.
LiveInit == SigInit /\ want[CHOOSE p \in Peers : TRUE].role = "host"
LiveSpec == LiveInit /\ [][SigNext]_allVars /\ SigFairness
=============================================================================
