---------------------------- MODULE TrackReader ----------------------------
(***************************************************************************)
(* A remote video track (set_on_track and run_decode_pipeline of           *)
(* webrtc/src/backend/webrtc_rs.rs, the observer of webrtc_sys.rs, on_track*)
(* and set_frame_sink of the API).  The track is announced once, to the    *)
(* callback registered by then.  With webrtc-rs a task is spawned for it   *)
(* that reads RTP packets, puts the fragments of a unit together, decodes  *)
(* units and hands pictures to the sink that is set at that moment.  With  *)
(* webrtc-sys libwebrtc decodes, and a sink is attached only if one was set*)
(* by the time the callback returned.                                      *)
(*                                                                         *)
(* The network loses packets, and may deliver one before its predecessor.  *)
(***************************************************************************)
EXTENDS Naturals, FiniteSets, SequencesExt, Subsequences

CONSTANTS
    Units,      \* bound: units (pictures) the sender sends
    Singles     \* those that fit into one packet

ASSUME ReaderConstantsOK == Units \in Nat \ {0} /\ Singles \subseteq 1..Units

VARIABLES
    peer,       \* what was built, the decoder's quality; never changes
    callback,   \* set_on_track: none, registered, and whether it has run
    sink,       \* the receiver's frame sink has been set
    attached,   \* webrtc-sys: the sink was given to libwebrtc
    reader,     \* the decode pipeline's task
    open,       \* the remote track has not ended
    network,    \* packets under way, in the order of sending
    unsent,     \* units that are yet to be sent
    auBuffer,   \* au_buffer: the packets whose payloads it holds
    decoder,    \* units the decoder has taken and given no picture of
    shown,      \* pictures given to the sink, in order
    fed,        \* history: the packets given to push_packet, and the unit of the last
    heard,      \* history: packets the reader was given
    watched,    \* history: units read to the end while the sink was there
    overtaken   \* history: a packet was delivered before its predecessor

readerVars == <<peer, callback, sink, attached, reader, open, network, unsent, auBuffer, decoder,
                shown, fed, heard, watched, overtaken>>

Unit == 1..Units
Packet == Unit \X {"single", "start", "middle", "end"}
PacketsOf(u) == IF u \in Singles THEN << <<u, "single">> >>
                ELSE << <<u, "start">>, <<u, "middle">>, <<u, "end">> >>

\* A damaged unit may give a picture too, of no particular unit.
Damaged == 0
Picture == Unit \cup {Damaged}

Peers == [backend : {"rs", "sys"}, prompt : BOOLEAN]

ReaderTypeOK ==
    /\ peer \in Peers
    /\ callback \in {"none", "registered", "running", "done"}
    /\ sink \in BOOLEAN /\ attached \in BOOLEAN /\ open \in BOOLEAN /\ overtaken \in BOOLEAN
    /\ reader \in {"none", "running", "ended"}
    /\ network \in Seq(Packet) /\ unsent \in 0..Units
    /\ auBuffer \subseteq Packet /\ decoder \in Seq(Picture) /\ shown \in Seq(Picture)
    /\ fed \subseteq [unit : Unit, of : SUBSET Packet]
    /\ heard \subseteq Packet /\ watched \subseteq Unit

Unheard ==
    /\ callback = "none" /\ sink = FALSE /\ attached = FALSE /\ reader = "none" /\ open = TRUE
    /\ network = <<>> /\ unsent = Units /\ auBuffer = {} /\ decoder = <<>> /\ shown = <<>>
    /\ fed = {} /\ heard = {} /\ watched = {} /\ overtaken = FALSE

history == <<fed, heard, watched, overtaken>>
pipeline == <<auBuffer, decoder, shown>>

\* on_track: later the track is announced to this callback.
Register ==
    /\ callback = "none" /\ callback' = "registered"
    /\ UNCHANGED <<peer, sink, attached, reader, open, network, unsent, pipeline, history>>

\* The track arrives.  Without a callback webrtc-rs does nothing at all and the
\* observer of webrtc-sys attaches nothing; neither looks again.
Announce ==
    /\ callback \in {"none", "registered"} /\ reader = "none"
    /\ IF callback = "registered"
         THEN callback' = "running" /\ UNCHANGED reader
         ELSE callback' = "done" /\ reader' = "ended"
    /\ UNCHANGED <<peer, sink, attached, open, network, unsent, pipeline, history>>

\* The callback returns, maybe having set a sink; then the task is spawned, or
\* libwebrtc is given the sink that is there.
Serves(set) == peer.backend = "rs" \/ set

Return ==
    /\ callback = "running" /\ callback' = "done"
    /\ \E set \in BOOLEAN :
         /\ sink' = (sink \/ set)
         /\ attached' = Serves(sink')
    /\ reader' = "running"
    /\ UNCHANGED <<peer, open, network, unsent, pipeline, history>>

\* set_frame_sink on a clone of the receiver, whenever its owner likes.
SetSink ==
    /\ callback \in {"running", "done"} /\ ~sink /\ reader # "ended"
    /\ sink' = TRUE
    /\ UNCHANGED <<peer, callback, attached, reader, open, network, unsent, pipeline, history>>

\* The sender (external): the packets of the next unit.
SendUnit ==
    /\ unsent > 0 /\ reader = "running" /\ open
    /\ unsent' = unsent - 1
    /\ network' = network \o PacketsOf(Units - unsent + 1)
    /\ UNCHANGED <<peer, callback, sink, attached, reader, open, pipeline, history>>

LosePacket ==
    /\ network # <<>> /\ network' = Tail(network)
    /\ UNCHANGED <<peer, callback, sink, attached, reader, open, unsent, pipeline, history>>

\* Mutations: the buffer goes on growing; a start fragment's payload is dropped.
NeverCleared(p) == auBuffer \cup {p}
StartDropped(p) == IF p[2] = "start" THEN {} ELSE auBuffer \cup {p}

\* What the buffer holds once a fragment has been appended.
Appended(p) == IF p[2] = "start" THEN {p} ELSE auBuffer \cup {p}

Complete(au) == \E u \in Unit : au = Range(PacketsOf(u))
UnitOf(au) == CHOOSE u \in Unit : au = Range(PacketsOf(u))
PicturesOf(au) == IF Complete(au) THEN {<<UnitOf(au)>>} ELSE {<<>>, <<Damaged>>}

\* Mutation: pull_frame hands out a picture without taking it off the buffer.
AllKept(pictures, n) == pictures

LeftAfter(pictures, n) == SubSeq(pictures, n + 1, Len(pictures))

\* push_packet and the pull loop of feed_and_drain: what comes out in time is
\* popped from the end.  A damaged unit may be refused; then nothing is pulled.
Feed(au) ==
    \/ ~Complete(au) /\ UNCHANGED <<decoder, shown>>
    \/ \E more \in PicturesOf(au) :
         LET in == decoder \o more
         IN  \E n \in IF peer.prompt THEN {Len(in)} ELSE 0..Len(in) :
               /\ decoder' = LeftAfter(in, n)
               /\ shown' = shown \o (IF sink THEN Reverse(SubSeq(in, 1, n)) ELSE <<>>)

\* One turn of the loop of run_decode_pipeline.  A packet that is a unit of its
\* own leaves the buffer alone, and feeding the buffer does not clear it.
ReadPacket(i) ==
    /\ peer.backend = "rs" /\ reader = "running" /\ i \in DOMAIN network
    /\ network' = RemoveAt(network, i) /\ overtaken' = (overtaken \/ i > 1)
    /\ LET p == network[i]
           au == IF p[2] = "single" THEN {p} ELSE Appended(p)
       IN  /\ heard' = heard \cup {p}
           /\ auBuffer' = IF p[2] = "single" THEN auBuffer ELSE au
           /\ IF p[2] \in {"start", "middle"}
                THEN UNCHANGED <<decoder, shown, fed, watched>>
                ELSE /\ Feed(au)
                     /\ fed' = fed \cup {[unit |-> p[1], of |-> au]}
                     /\ watched' = IF sink THEN watched \cup {p[1]} ELSE watched
    /\ UNCHANGED <<peer, callback, sink, attached, reader, open, unsent>>

\* libwebrtc decodes (external): VideoSinkAdapter hands the picture on.
NativeFrame ==
    /\ peer.backend = "sys" /\ reader = "running" /\ network # <<>>
    /\ LET u == network[1][1]
       IN  /\ network' = Within(network, {p \in Packet : p[1] # u})
           /\ shown' = IF attached THEN Append(shown, u) ELSE shown
           /\ watched' = IF sink THEN watched \cup {u} ELSE watched
    /\ UNCHANGED <<peer, callback, sink, attached, reader, open, unsent, auBuffer, decoder, fed, heard, overtaken>>

\* The connection is closed: read_rtp fails from then on.
EndTrack ==
    /\ open /\ callback = "done" /\ open' = FALSE
    /\ UNCHANGED <<peer, callback, sink, attached, reader, network, unsent, pipeline, history>>

StopReading ==
    /\ reader = "running" /\ ~open /\ reader' = "ended"
    /\ UNCHANGED <<peer, callback, sink, attached, open, network, unsent, pipeline, history>>

ReadNext == (\E i \in {1, 2} : ReadPacket(i)) \/ NativeFrame
ReaderInit == peer \in Peers /\ Unheard
ReaderNext == Register \/ Announce \/ Return \/ SetSink \/ SendUnit \/ LosePacket \/ ReadNext
                \/ EndTrack \/ StopReading
ReaderSpec == ReaderInit /\ [][ReaderNext]_readerVars

-----------------------------------------------------------------------------
\* Losses do not leak from one unit into the next: as long as packets stay in
\* order, a unit whose start was read is fed with packets of that unit only,
\* whatever was lost of it and of those before, although the buffer is never
\* cleared after it was fed (run_decode_pipeline).
DamageStaysInOneUnit ==
    ~overtaken =>
        \A f \in fed : <<f.unit, "start">> \in heard \/ f.unit \in Singles
                           => f.of \subseteq Range(PacketsOf(f.unit))

Whole(u) == Range(PacketsOf(u)) \subseteq heard

\* Each unit once and in the order of sending, damaged pictures aside.
InOrder(pictures) ==
    \A i, j \in DOMAIN pictures :
        i < j /\ Damaged \notin {pictures[i], pictures[j]} => pictures[i] < pictures[j]

\* A unit of which every packet was read in order while a sink was set is shown,
\* however late the sink came and whatever was lost before (feed_and_drain); no
\* picture is shown twice or after a later one, although each drain empties the
\* decoder's buffer from its end; and libwebrtc's pictures are shown if the sink
\* was there when on_track returned.
WholeUnitIsShown ==
    /\ peer = [backend |-> "rs", prompt |-> TRUE] /\ ~overtaken
         => \A u \in watched : Whole(u) => u \in Range(shown)
    /\ peer.prompt /\ ~overtaken => InOrder(shown)
    /\ peer.backend = "sys" /\ attached => watched \subseteq Range(shown)

\* A remote track is shown as it came: damage stays where the loss was, and what
\* came whole is shown, once and in order.
UnitsAreShown == DamageStaysInOneUnit /\ WholeUnitIsShown
=============================================================================
