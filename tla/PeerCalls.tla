----------------------------- MODULE PeerCalls -----------------------------
(***************************************************************************)
(* RTCPeerConnection (webrtc/src/peer_connection.rs) over its backends: a  *)
(* table of tracks in the wrapper, and calls that the stack below answers. *)
(* webrtc-rs awaits the stack; webrtc-sys hands it a callback that sends   *)
(* the answer through a one-shot channel.  Either way the stack acts at    *)
(* some moment between the call and the answer, one call at a time.        *)
(* The stub answers by itself.  The stack's signalling state follows the   *)
(* W3C table (external).                                                   *)
(***************************************************************************)
EXTENDS Naturals, FiniteSets

CONSTANTS
    Callers,    \* tasks that hold the connection
    Tracks,     \* track ids
    MaxTracks,  \* MAX_TRACKS, 8 in the code
    Idle,       \* no call in progress
    MaxCalls    \* bound: asynchronous calls

ASSUME CallConstantsOK == MaxTracks \in Nat \ {0} /\ MaxCalls \in Nat

VARIABLES
    kind,       \* the backend; never changes
    sig,        \* the stack's signalling state
    call,       \* call[c]: what c awaits
    table,      \* tracks of the wrapper
    made        \* asynchronous calls made

callVars == <<kind, sig, call, table, made>>

Types == {"offer", "answer", "pranswer", "rollback"}
Op == [op : {"setLocal", "setRemote"}, type : Types] \cup [op : {"createOffer", "createAnswer", "addIce", "dataChannel"}]

CallTypeOK ==
    /\ kind \in {"rs", "sys", "stub"}
    /\ sig \in {"stable", "haveLocalOffer", "haveRemoteOffer", "haveLocalPrAnswer",
                "haveRemotePrAnswer", "closed"}
    /\ call \in [Callers -> Op \cup {Idle}]
    /\ table \subseteq Tracks /\ Cardinality(table) <= MaxTracks
    /\ made \in 0..MaxCalls

CallInit ==
    /\ kind \in {"rs", "sys", "stub"}
    /\ sig = "stable" /\ call = [c \in Callers |-> Idle]
    /\ table = {} /\ made = 0

Room == Cardinality(table) < MaxTracks

\* add_track: the limit comes first, so that adding a known id to a full table
\* fails.  register_track, the default in every backend, tells the stack nothing.
AddTrack(t) ==
    /\ Room /\ table' = table \cup {t}
    /\ UNCHANGED <<kind, sig, call, made>>

RemoveTrack(t) ==
    /\ t \in table /\ table' = table \ {t}
    /\ UNCHANGED <<kind, sig, call, made>>

\* Mutation: the stack is asked for every type.
AllReach(op) == TRUE

\* webrtc-rs refuses provisional answers and rollbacks before the stack is asked.
Reaches(op) == kind = "rs" /\ op.op \in {"setLocal", "setRemote"} => op.type \in {"offer", "answer"}

Calls(c) ==
    /\ call[c] = Idle /\ made < MaxCalls /\ made' = made + 1
    /\ \E op \in Op : call' = [call EXCEPT ![c] = IF Reaches(op) THEN op ELSE Idle]
    /\ UNCHANGED <<kind, sig, table>>

\* The W3C signalling state after a description; the same state for a refused one.
LocalNext == [offer |-> [stable |-> "haveLocalOffer", haveLocalOffer |-> "haveLocalOffer"],
              answer |-> [haveRemoteOffer |-> "stable", haveLocalPrAnswer |-> "stable"],
              pranswer |-> [haveRemoteOffer |-> "haveLocalPrAnswer", haveLocalPrAnswer |-> "haveLocalPrAnswer"],
              rollback |-> [haveLocalOffer |-> "stable"]]
RemoteNext == [offer |-> [stable |-> "haveRemoteOffer", haveRemoteOffer |-> "haveRemoteOffer"],
               answer |-> [haveLocalOffer |-> "stable", haveRemotePrAnswer |-> "stable"],
               pranswer |-> [haveLocalOffer |-> "haveRemotePrAnswer", haveRemotePrAnswer |-> "haveRemotePrAnswer"],
               rollback |-> [haveRemoteOffer |-> "stable"]]
Moved(moves) == IF sig \in DOMAIN moves THEN moves[sig] ELSE sig

\* The stack answers: with an offer, after taking a description, or in any other
\* way; a closed stack refuses.  The stub takes descriptions without a trace.
Answered(c) ==
    LET op == call[c]
    IN  /\ op # Idle /\ call' = [call EXCEPT ![c] = Idle]
        /\ sig' = CASE kind = "stub" \/ sig = "closed" -> sig
                    [] op.op = "setLocal" -> Moved(LocalNext[op.type])
                    [] op.op = "setRemote" -> Moved(RemoteNext[op.type])
                    [] OTHER -> sig
        /\ UNCHANGED <<kind, table, made>>

ClosePeer ==
    /\ sig # "closed" /\ sig' = "closed"
    /\ UNCHANGED <<kind, call, table, made>>

CallNext ==
    \/ \E t \in Tracks : AddTrack(t) \/ RemoveTrack(t)
    \/ \E c \in Callers : Calls(c) \/ Answered(c)
    \/ ClosePeer
CallSpec == CallInit /\ [][CallNext]_callVars

-----------------------------------------------------------------------------
\* What signaling_state() says: webrtc-rs has three states only.
Reported ==
    IF kind = "rs" /\ sig \notin {"haveLocalOffer", "closed"} THEN "stable" ELSE sig

\* However the calls of several tasks interleave, the state that is reported is
\* the stack's, but for one: webrtc-rs says "stable" of a connection that has an
\* offer to answer (webrtc_rs.rs:215).  The provisional states, which it could
\* not name either, are not reached because it refuses such descriptions.
ReportHidesOneState == Reported # sig => sig = "haveRemoteOffer"
=============================================================================
