------------------------------ MODULE MCVideo ------------------------------
(***************************************************************************)
(* Parts of the WebRTC crate and of the media crate's fan-out that no path *)
(* of this program joins: a local track (which no backend attaches to a    *)
(* connection), a remote track (which comes from another program), the     *)
(* calls of a connection, the wants of sinks, and streams of fragments;    *)
(* the capture source of the host, before any queue; and the workbench of  *)
(* pictures, here of a few samples, with glyphs of two by two and a viewer *)
(* whose window is eight by four.  Each behaviour is one of one part; the  *)
(* others stay as they began.                                              *)
(***************************************************************************)
EXTENDS TrackWriter, TrackReader, PeerCalls, SinkWants,
        FragmentStreams, CaptureSource, Workbench

VARIABLE part   \* the part that moves

TrackIdle == stack = (CHOOSE s \in Stacks : TRUE) /\ Unused
ReceiverIdle == peer = [backend |-> "rs", prompt |-> TRUE] /\ Unheard
CallsIdle == kind = "stub" /\ CallInit
FanOutIdle == WantsInit /\ StreamInit /\ CaptureInit
BenchIdle == backend = "native" /\ app = "library" /\ WorkInit

\* SPS with zeros up to an emulation prevention byte, PPS whose payload looks
\* like an IDR header, an IDR frame and a slice of a single byte.
TestUnits == {<<103, 0, 0, 3>>, <<104, 101>>, <<101, 0, 1>>, <<65>>}

MCSizes == {<<4, 4>>, <<6, 4>>, <<2, 2>>, <<5, 3>>, <<1, 2>>}
MCImages == {<<8, 8>>, <<16, 8>>, <<12, 8>>, <<4, 8>>}
MCFallback == <<4, 4>>
MCWindow == <<8, 4>>
MCThumbSizes == {3, 6}
MCFrameSize == <<4, 4>>
MCLit == {<<0, 0>>, <<1, 1>>}
MCLines == {<< <<TRUE, FALSE>>, <<TRUE>> >>}
MCAnchors == {BottomLeft, At(4, 2), At(1, 0)}

Init ==
    \/ part = "writer" /\ WriterInit /\ ReceiverIdle /\ CallsIdle /\ FanOutIdle /\ BenchIdle
    \/ part = "reader" /\ ReaderInit /\ TrackIdle /\ CallsIdle /\ FanOutIdle /\ BenchIdle
    \/ part = "workbench" /\ WorkInit /\ TrackIdle /\ ReceiverIdle /\ CallsIdle /\ FanOutIdle
    \/ part = "calls" /\ CallInit /\ TrackIdle /\ ReceiverIdle /\ FanOutIdle /\ BenchIdle
    \/ part \in {"wants", "streams", "capture"} /\ TrackIdle /\ ReceiverIdle /\ CallsIdle /\ FanOutIdle /\ BenchIdle

trackVars == <<writerVars, readerVars>>
fanOutVars == <<wantsVars, streamVars, captureVars>>

Next ==
    /\ part' = part
    /\ \/ part = "writer" /\ WriterNext /\ UNCHANGED <<readerVars, callVars, fanOutVars, workVars>>
       \/ part = "reader" /\ ReaderNext /\ UNCHANGED <<writerVars, callVars, fanOutVars, workVars>>
       \/ part = "workbench" /\ WorkNext /\ UNCHANGED <<trackVars, callVars, fanOutVars>>
       \/ part = "calls" /\ CallNext /\ UNCHANGED <<trackVars, fanOutVars, workVars>>
       \/ part = "wants" /\ WantsNext /\ UNCHANGED <<trackVars, callVars, streamVars, captureVars, workVars>>
       \/ part = "streams" /\ StreamNext /\ UNCHANGED <<trackVars, callVars, wantsVars, captureVars, workVars>>
       \/ part = "capture" /\ CaptureNext /\ UNCHANGED <<trackVars, callVars, wantsVars, streamVars, workVars>>

vars == <<part, trackVars, callVars, fanOutVars, workVars>>
Spec == Init /\ [][Next]_vars

TypeOK ==
    /\ WriterTypeOK /\ ReaderTypeOK /\ CallTypeOK
    /\ WantsTypeOK /\ StreamTypeOK /\ CaptureTypeOK
============================================================================
