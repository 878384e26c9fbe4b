---------------------------- MODULE CaptureSource ----------------------------
(***************************************************************************)
(* The host's GstCaptureSource and its reading of H.264 byte streams        *)
(* (host/src/engine_adapters.rs; the client's engine_adapters.rs scans the  *)
(* same way for key frames).                                               *)
(*                                                                         *)
(* What the GStreamer pipeline hands over is external: a sample is a        *)
(* sequence of NAL units, each behind a start code of three or four bytes.  *)
(* Indexes are one greater than in the code.                               *)
(***************************************************************************)
EXTENDS Naturals, Sequences, FiniteSetsExt, SequencesExt

CONSTANTS
    NalUnits,    \* NAL units: header byte and payload, as the encoder may emit them
    MaxNalUnits, \* bound: units in one sample
    MaxSamples   \* bound: samples the encoder produces

Short == <<0, 0, 1>>
Long  == <<0, 0, 0, 1>>

\* No start code is in a unit or begins in its last bytes: that is what the
\* encoder's emulation prevention is for.
ASSUME CaptureConstantsOK ==
    /\ \A u \in NalUnits : /\ u \in Seq(0..255) /\ Len(u) > 0 /\ Last(u) # 0
                           /\ \A i \in 1..(Len(u) - 2) : SubSeq(u, i, i + 2) # Short
    /\ MaxNalUnits \in Nat \ {0} /\ MaxSamples \in Nat

\* The first n of some sequences joined, and all of them.
JointFirst(seqs) ==
    LET joint[n \in 0..Len(seqs)] == IF n = 0 THEN <<>> ELSE joint[n - 1] \o seqs[n]
    IN  joint

Joint(seqs) == JointFirst(seqs)[Len(seqs)]

\* A sample as the encoder means it, and the bytes of it.
Sample == UNION {[1..n -> [code : {Short, Long}, unit : NalUnits]] : n \in 1..MaxNalUnits}
Coded(s) == [i \in DOMAIN s |-> s[i].code \o s[i].unit]
Bytes(s) == Joint(Coded(s))

\* The five low bits of the header byte.
Type(header) == header % 32
Slice == 1
Idr   == 5
Sps   == 7
Pps   == 8

-----------------------------------------------------------------------------
\* Scanning

StartsWith(data, o, code) ==
    o + Len(code) - 1 <= Len(data) /\ SubSeq(data, o, o + Len(code) - 1) = code

\* Mutation: the search for the next start code ends a byte early.
EarlyEnd(data, o) ==
    LET next == {i \in (o + 1)..(Len(data) - 4) :
                    StartsWith(data, i, Short) \/ StartsWith(data, i, Long)}
    IN  IF next = {} THEN Len(data) + 1 ELSE Min(next)

\* Where the unit whose header is at o ends: at the next start code, which is
\* looked for from behind the header to where no unit fits behind it.
UnitEnd(data, o) ==
    LET next == {i \in (o + 1)..(Len(data) - 3) :
                    StartsWith(data, i, Short) \/ StartsWith(data, i, Long)}
    IN  IF next = {} THEN Len(data) + 1 ELSE Min(next)

CodeLength(data, o) ==
    IF StartsWith(data, o, Long) THEN 4 ELSE IF StartsWith(data, o, Short) THEN 3 ELSE 0

\* Whether scan_nal_header finds a unit at o.
UnitAt(data, o) ==
    /\ o + 3 <= Len(data)
    /\ CodeLength(data, o) > 0
    /\ o + CodeLength(data, o) <= Len(data)

\* What scan_nal_header says of the unit at o: its type, where its start code is
\* and where the next one begins.
UnitFrom(data, o) ==
    LET header == o + CodeLength(data, o)
    IN  [type |-> Type(data[header]), first |-> o, end |-> UnitEnd(data, header)]

\* What the three loops over scan_nal_header see.
ScanFrom(data) ==
    LET from[o \in 1..(Len(data) + 1)] ==
            IF ~UnitAt(data, o) THEN <<>>
            ELSE <<UnitFrom(data, o)>> \o from[UnitFrom(data, o).end]
    IN  from

Scan(data) == ScanFrom(data)[1]

IsKeyframe(data) == \E u \in Range(Scan(data)) : u.type = Idr
HasDataNal(data) == \E u \in Range(Scan(data)) : u.type \in {Slice, Idr}
ExtractSpsPps(data) ==
    LET found == Scan(data)
    IN  Joint([i \in DOMAIN found |->
                 IF found[i].type \in {Sps, Pps} THEN SubSeq(data, found[i].first, found[i].end - 1) ELSE <<>>])

-----------------------------------------------------------------------------
VARIABLES
    sample,     \* the sample pulled last
    spsPpsBuf,  \* the parameter sets kept for the next coded frame; <<>> for None
    fragment,   \* the fragment emitted last: keyframe flag and init_data
    samples,    \* samples so far
    given,      \* history: the init_data of all fragments, in order
    sent        \* history: the parameter sets of all samples, in order

captureVars == <<sample, spsPpsBuf, fragment, samples, given, sent>>

\* The parameter sets of a sample, as the encoder means it.
IsSet(c) == Type(c.unit[1]) \in {Sps, Pps}
ParameterSets(s) == Joint([i \in DOMAIN s |-> IF IsSet(s[i]) THEN Coded(s)[i] ELSE <<>>])
HasFrame(s) == \E i \in DOMAIN s : Type(s[i].unit[1]) \in {Slice, Idr}

CaptureTypeOK ==
    /\ sample \in Sample \cup {<<>>}
    /\ spsPpsBuf \in Seq(0..255) /\ given \in Seq(0..255) /\ sent \in Seq(0..255)
    /\ fragment \in [keyframe : BOOLEAN, init : Seq(0..255)]
    /\ samples \in 0..MaxSamples

CaptureInit ==
    /\ sample = <<>> /\ spsPpsBuf = <<>> /\ given = <<>> /\ sent = <<>>
    /\ fragment = [keyframe |-> FALSE, init |-> <<>>]
    /\ samples = 0

Describe(data, init) ==
    /\ fragment' = [keyframe |-> IsKeyframe(data), init |-> init]
    /\ given' = given \o init

\* Mutation: the buffer is handed over before the frame's own sets are added.
PollTakesFirst(s) ==
    LET data == Bytes(s) IN
    /\ samples < MaxSamples
    /\ sample' = s /\ sent' = sent \o ParameterSets(s)
    /\ samples' = samples + 1
    /\ IF HasDataNal(data)
       THEN Describe(data, spsPpsBuf) /\ spsPpsBuf' = ExtractSpsPps(data)
       ELSE Describe(data, <<>>) /\ spsPpsBuf' = spsPpsBuf \o ExtractSpsPps(data)

\* poll_fragment with a sample: parameter sets are kept until a frame comes,
\* which they go with, those of its own sample included.  Without a sample, or
\* with an error from the pipeline, it answers None and changes nothing.
PollSample(s) ==
    LET data == Bytes(s)
        buf == spsPpsBuf \o ExtractSpsPps(data)
    IN  /\ samples < MaxSamples
        /\ sample' = s /\ sent' = sent \o ParameterSets(s)
        /\ samples' = samples + 1
        /\ IF HasDataNal(data)
           THEN Describe(data, buf) /\ spsPpsBuf' = <<>>
           ELSE Describe(data, <<>>) /\ spsPpsBuf' = buf

CaptureNext == \E s \in Sample : PollSample(s)
CaptureSpec == CaptureInit /\ [][CaptureNext]_captureVars

-----------------------------------------------------------------------------
\* The scan finds the units of a sample as they are, one for one, whatever their
\* start codes and lengths: none is missed at the end, none split or merged, no
\* payload byte taken for a header.
UnitsAreFound ==
    LET data == Bytes(sample)
        found == Scan(data)
    IN  /\ Len(found) = Len(sample)
        /\ \A i \in DOMAIN sample :
              /\ found[i].type = Type(sample[i].unit[1])
              /\ SubSeq(data, found[i].first, found[i].end - 1) = Coded(sample)[i]

\* Parameter sets reach the fragments' init_data each once and in order, those
\* that came before or with a frame no later than with that frame; and a
\* fragment is marked a key frame exactly if its sample has an IDR unit.
SetsGoWithTheirFrame ==
    /\ given \o spsPpsBuf = sent
    /\ HasFrame(sample) => spsPpsBuf = <<>>
    /\ ~HasFrame(sample) => fragment.init = <<>>
    /\ fragment.keyframe <=> \E i \in DOMAIN sample : Type(sample[i].unit[1]) = Idr

\* A frame is described as it is by its fragment, the sets before it included.
FramesAreDescribed == UnitsAreFound /\ SetsGoWithTheirFrame
=============================================================================
