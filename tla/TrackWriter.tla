---------------------------- MODULE TrackWriter ----------------------------
(***************************************************************************)
(* TrackSender::write_raw_i420 (webrtc/src/track.rs and the backends): raw *)
(* frames go through an encoder that the first call makes, and its packets *)
(* to the local track.  Calls may overlap, on one handle or on clones of   *)
(* it: a clone shares the track but starts without an encoder.             *)
(*                                                                         *)
(* The encoder's lock is taken and let go several times in a call: to look *)
(* for an encoder, to install one, to push the frame, and for each packet. *)
(* The GStreamer encoder waits 5 ms for a frame's packet; one that takes   *)
(* longer comes out with a later frame's.                                  *)
(***************************************************************************)
EXTENDS Naturals, FiniteSets, SequencesExt

CONSTANTS
    Writers,    \* callers of write_raw_i420
    NoEncoder,  \* a handle whose encoder has not been made
    MaxWrites   \* bound: calls of write_raw_i420

Frame == 1..MaxWrites
Encoder == [inside : Seq(Frame), ready : Seq(Frame)]

ASSUME WriterConstantsOK ==
    Writers # {} /\ IsFiniteSet(Writers) /\ NoEncoder \notin Encoder /\ MaxWrites \in Nat

VARIABLES
    stack,      \* what was built and how it is used; never changes
    at,         \* at[w]: the place of w in write_raw_i420
    frame,      \* frame[w]: the frame w writes, by its place in the order of the calls
    packet,     \* packet[w]: the packet w has pulled, 0 for none
    encoder,    \* encoder[h]: the encoder of handle h
    calls,      \* calls made so far
    track,      \* packets written to the local track, in order
    accepted,   \* history: frames an encoder has taken
    spilt,      \* history: frames whose packet was pulled and not written
    gone,       \* history: frames that an encoder held when another replaced it
    overlapped  \* history: two calls were in progress at the same time

writerVars == <<stack, at, frame, packet, encoder, calls, track, accepted, spilt, gone, overlapped>>

Fresh == [inside |-> <<>>, ready |-> <<>>]

\* One handle for all, or a clone for each.
Handles == {[w \in Writers |-> w], [w \in Writers |-> CHOOSE h \in Writers : TRUE]}

\* attached: the sender comes from create_video_track, not from TrackSender::new.
\* prompt: the encoder gives each frame's packet within its time-out.
Stacks == [backend : {"rs", "sys"}, attached : BOOLEAN, prompt : BOOLEAN, handle : Handles]

Handle(w) == stack.handle[w]

WriterTypeOK ==
    /\ stack \in Stacks
    /\ at \in [Writers -> {"idle", "look", "init", "push", "pull", "send"}]
    /\ frame \in [Writers -> Frame \cup {0}] /\ packet \in [Writers -> Frame \cup {0}]
    /\ encoder \in [Writers -> Encoder \cup {NoEncoder}]
    /\ calls \in 0..MaxWrites /\ track \in Seq(Frame)
    /\ accepted \cup spilt \cup gone \subseteq Frame
    /\ overlapped \in BOOLEAN

Unused ==
    /\ at = [w \in Writers |-> "idle"]
    /\ frame = [w \in Writers |-> 0] /\ packet = [w \in Writers |-> 0]
    /\ encoder = [h \in Writers |-> NoEncoder]
    /\ calls = 0 /\ track = <<>> /\ accepted = {} /\ spilt = {} /\ gone = {}
    /\ overlapped = FALSE

Goes(w, place) == at' = [at EXCEPT ![w] = place]

\* What an encoder holds, none included.
Held(e) == IF e = NoEncoder THEN {} ELSE Range(e.inside) \cup Range(e.ready)

Call(w) ==
    /\ at[w] = "idle" /\ calls < MaxWrites
    /\ calls' = calls + 1 /\ frame' = [frame EXCEPT ![w] = calls + 1]
    /\ overlapped' = (overlapped \/ \E v \in Writers : at[v] # "idle")
    /\ Goes(w, "look")
    /\ UNCHANGED <<stack, packet, encoder, track, accepted, spilt, gone>>

\* webrtc-sys has no encoder here: libwebrtc's source takes the frame, when the
\* sender has one and the data is long enough.
Capture(w) ==
    /\ stack.backend = "sys" /\ at[w] = "look"
    /\ \/ stack.attached /\ track' = Append(track, frame[w])
       \/ UNCHANGED track
    /\ Goes(w, "idle")
    /\ UNCHANGED <<stack, frame, packet, encoder, calls, accepted, spilt, gone, overlapped>>

\* Mutation: the encoder is made anew for each frame.
AlwaysInit(e) == "init"

AfterLook(e) == IF e = NoEncoder THEN "init" ELSE "push"

Look(w) ==
    /\ stack.backend = "rs" /\ at[w] = "look"
    /\ Goes(w, AfterLook(encoder[Handle(w)]))
    /\ UNCHANGED <<stack, frame, packet, encoder, calls, track, accepted, spilt, gone, overlapped>>

\* The encoder is made outside the lock and replaces whatever is there by then.
InitEncoder(w) ==
    /\ at[w] = "init"
    /\ encoder' = [encoder EXCEPT ![Handle(w)] = Fresh]
    /\ gone' = gone \cup Held(encoder[Handle(w)])
    /\ Goes(w, "push")
    /\ UNCHANGED <<stack, frame, packet, calls, track, accepted, spilt, overlapped>>

\* The codec cannot be made or configured; or the data is too short, which is
\* noticed after the encoder was made; or the encoder refuses the frame.
Fails(w) ==
    /\ at[w] \in {"init", "push"}
    /\ Goes(w, "idle")
    /\ UNCHANGED <<stack, frame, packet, encoder, calls, track, accepted, spilt, gone, overlapped>>

\* push_frame: the frame goes in, and what comes out in time joins the buffer.
Encoded(e, f, n) ==
    LET in == Append(e.inside, f)
    IN  [inside |-> SubSeq(in, n + 1, Len(in)), ready |-> e.ready \o SubSeq(in, 1, n)]

\* Mutation: the packets are polled for without waiting.
Polled(e) == 0..(Len(e.inside) + 1)

InTime(e) == IF stack.prompt THEN {Len(e.inside) + 1} ELSE 0..(Len(e.inside) + 1)

Push(w) ==
    /\ at[w] = "push"
    /\ \E n \in InTime(encoder[Handle(w)]) :
         encoder' = [encoder EXCEPT ![Handle(w)] = Encoded(@, frame[w], n)]
    /\ accepted' = accepted \cup {frame[w]}
    /\ Goes(w, "pull")
    /\ UNCHANGED <<stack, frame, packet, calls, track, spilt, gone, overlapped>>

\* pull_packet is Vec::pop: the latest first, whoever's frame it was.
Popped(e) == [e EXCEPT !.ready = Front(@)]

Pull(w) ==
    LET e == encoder[Handle(w)]
    IN  /\ at[w] = "pull"
        /\ \/ /\ e.ready = <<>> /\ Goes(w, "idle") /\ UNCHANGED <<packet, encoder>>
           \/ /\ e.ready # <<>>
              /\ packet' = [packet EXCEPT ![w] = Last(e.ready)]
              /\ encoder' = [encoder EXCEPT ![Handle(w)] = Popped(@)]
              /\ Goes(w, "send")
        /\ UNCHANGED <<stack, frame, calls, track, accepted, spilt, gone, overlapped>>

\* write_frame: without a track the packet is dropped and the call goes on; a
\* failed write ends the call and leaves the rest in the encoder's buffer.
Send(w) ==
    /\ at[w] = "send" /\ packet' = [packet EXCEPT ![w] = 0]
    /\ \/ stack.attached /\ track' = Append(track, packet[w]) /\ Goes(w, "pull") /\ UNCHANGED spilt
       \/ ~stack.attached /\ spilt' = spilt \cup {packet[w]} /\ Goes(w, "pull") /\ UNCHANGED track
       \/ stack.attached /\ spilt' = spilt \cup {packet[w]} /\ Goes(w, "idle") /\ UNCHANGED track
    /\ UNCHANGED <<stack, frame, encoder, calls, accepted, gone, overlapped>>

WriterInit == stack \in Stacks /\ Unused
WriterNext ==
    \E w \in Writers :
        Call(w) \/ Capture(w) \/ Look(w) \/ InitEncoder(w) \/ Fails(w) \/ Push(w) \/ Pull(w) \/ Send(w)
WriterSpec == WriterInit /\ [][WriterNext]_writerVars

-----------------------------------------------------------------------------
InEncoders == UNION {Held(encoder[h]) : h \in Writers}
InHands == {packet[w] : w \in Writers} \ {0}

\* No place holds a frame twice.
Once(e) == IsInjective(e.inside) /\ IsInjective(e.ready) /\ Range(e.inside) \cap Range(e.ready) = {}

EachOnce ==
    /\ IsInjective(track)
    /\ \A v, w \in Writers : v # w /\ packet[v] # 0 => packet[v] # packet[w]
    /\ \A g, h \in Writers : g # h => Held(encoder[g]) \cap Held(encoder[h]) = {}
    /\ \A h \in Writers : encoder[h] # NoEncoder => Once(encoder[h])

\* A frame the encoder took is in exactly one place: in an encoder, in the hand
\* of one writer, on the track, or known to be lost; it is written at most once;
\* and an encoder that still holds frames is replaced only when calls overlap
\* (write_raw_i420 looks for the encoder and installs it under separate locks).
FramesAreConserved ==
    stack.backend = "rs" =>
        /\ accepted = InEncoders \cup InHands \cup Range(track) \cup spilt \cup gone
        /\ InHands \cap InEncoders = {}
        /\ Range(track) \cap (InEncoders \cup InHands) = {}
        /\ spilt \cap (InEncoders \cup InHands \cup Range(track)) = {}
        /\ gone \cap (InEncoders \cup InHands \cup Range(track) \cup spilt) = {}
        /\ EachOnce
        /\ gone # {} => overlapped

\* As long as no two calls overlap and each packet comes out in time, the track
\* is given the frames in the order of the calls, although the buffer is emptied
\* from its end, writes fail and clones have encoders of their own.
LoneWriterKeepsOrder ==
    ~overlapped /\ stack.prompt => \A i, j \in DOMAIN track : i < j => track[i] < track[j]

\* A frame given to write_raw_i420 is on the track, in an encoder, or lost where
\* the code can lose it; and a lone writer's frames are on the track in order.
FramesReachTheTrack == FramesAreConserved /\ LoneWriterKeepsOrder
=============================================================================
