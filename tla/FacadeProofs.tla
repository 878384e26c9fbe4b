---------------------------- MODULE FacadeProofs ----------------------------
(***************************************************************************)
(* Theorems about the facade of the WebRTC crate and the media crate's     *)
(* engine and fan-out: PeerCalls (the calls of a connection),              *)
(* DataChannelApi (a channel's spools), FragmentStreams (subscribers that  *)
(* poll), TrackWriter (raw frames on their way to a local track),          *)
(* TrackReader (a remote track on its way to a sink), SinkWants (the wants *)
(* of many sinks as one), CaptureSource (the host's reading of an H.264    *)
(* byte stream) and PipelineEngine (the tasks of its chains), for any      *)
(* number of callers, tracks, messages, packets, subscribers, writers,     *)
(* units, sinks, samples and chains.                                       *)
(***************************************************************************)
EXTENDS PeerCalls, DataChannelApi, FragmentStreams, TrackWriter, TrackReader, SinkWants,
        CaptureSource, PipelineEngine, SequenceLemmas, FiniteSetTheorems, TLAPS

-----------------------------------------------------------------------------
(* PeerCalls: a connection's calls. *)

\* The wrapper's table is a finite set of no more than MaxTracks ids.
TableOK == table \subseteq Tracks /\ IsFiniteSet(table) /\ Cardinality(table) <= MaxTracks

CallsOK ==
    /\ kind \in {"rs", "sys", "stub"}
    /\ call \in [Callers -> Op \cup {Idle}]
    /\ made \in 0..MaxCalls

SigOK == sig \in {"stable", "haveLocalOffer", "haveRemoteOffer", "haveLocalPrAnswer",
                  "haveRemotePrAnswer", "closed"}

LEMMA MovedTyped ==
    ASSUME SigOK, NEW t \in Types
    PROVE  /\ Moved(LocalNext[t]) \in {sig, "haveLocalOffer", "stable", "haveLocalPrAnswer"}
           /\ Moved(RemoteNext[t]) \in {sig, "haveRemoteOffer", "stable", "haveRemotePrAnswer"}
           /\ t \in {"offer", "answer"} =>
                 /\ Moved(LocalNext[t]) \in {sig, "haveLocalOffer", "stable"}
                 /\ Moved(RemoteNext[t]) \in {sig, "haveRemoteOffer", "stable"}
  <1>1. CASE t = "offer"
    BY <1>1 DEF Moved, LocalNext, RemoteNext, SigOK
  <1>2. CASE t = "answer"
    BY <1>2 DEF Moved, LocalNext, RemoteNext, SigOK
  <1>3. CASE t = "pranswer"
    BY <1>3 DEF Moved, LocalNext, RemoteNext, SigOK
  <1>4. CASE t = "rollback"
    BY <1>4 DEF Moved, LocalNext, RemoteNext, SigOK
  <1> QED
    BY <1>1, <1>2, <1>3, <1>4 DEF Types

\* What the stack of webrtc-rs is asked, and where that can take it.
KnownTypes == \A c \in Callers : call[c] # Idle => Reaches(call[c])
KnownStates == kind = "rs" => sig \in {"stable", "haveLocalOffer", "haveRemoteOffer", "closed"}

ReportInv == TableOK /\ CallsOK /\ SigOK /\ KnownTypes /\ KnownStates

LEMMA InitReport == CallInit => ReportInv
  BY FS_EmptySet, CallConstantsOK
     DEF CallInit, ReportInv, TableOK, CallsOK, SigOK, KnownTypes, KnownStates

LEMMA AddTrackReport ==
    ASSUME ReportInv, NEW t \in Tracks, AddTrack(t)
    PROVE  ReportInv'
  <1>1. /\ IsFiniteSet(table') /\ Cardinality(table) \in Nat
        /\ Cardinality(table') = IF t \in table THEN Cardinality(table) ELSE Cardinality(table) + 1
    BY FS_AddElement, FS_CardinalityType DEF ReportInv, TableOK, AddTrack
  <1>2. TableOK'
    BY <1>1, CallConstantsOK DEF ReportInv, TableOK, AddTrack, Room
  <1> QED
    BY <1>2 DEF AddTrack, ReportInv, CallsOK, SigOK, KnownTypes, KnownStates, Reaches

LEMMA RemoveTrackReport ==
    ASSUME ReportInv, NEW t \in Tracks, RemoveTrack(t)
    PROVE  ReportInv'
  <1>1. /\ IsFiniteSet(table') /\ Cardinality(table) \in Nat
        /\ Cardinality(table') = IF t \in table THEN Cardinality(table) - 1 ELSE Cardinality(table)
    BY FS_RemoveElement, FS_CardinalityType DEF ReportInv, TableOK, RemoveTrack
  <1>2. TableOK'
    BY <1>1, CallConstantsOK DEF ReportInv, TableOK, RemoveTrack
  <1> QED
    BY <1>2 DEF RemoveTrack, ReportInv, CallsOK, SigOK, KnownTypes, KnownStates, Reaches

LEMMA CallsReport ==
    ASSUME ReportInv, NEW c \in Callers, Calls(c)
    PROVE  ReportInv'
  <1>1. PICK op \in Op : call' = [call EXCEPT ![c] = IF Reaches(op) THEN op ELSE Idle]
    BY DEF Calls
  <1>2. CallsOK'
    BY <1>1, CallConstantsOK DEF Calls, ReportInv, CallsOK
  <1>3. KnownTypes'
    BY <1>1 DEF Calls, ReportInv, KnownTypes, CallsOK, Reaches
  <1> QED
    BY <1>2, <1>3 DEF Calls, ReportInv, TableOK, SigOK, KnownStates

LEMMA AnsweredReport ==
    ASSUME ReportInv, NEW c \in Callers, Answered(c)
    PROVE  ReportInv'
  <1> DEFINE op == call[c]
  <1>1. op \in Op /\ Reaches(op) /\ kind \in {"rs", "sys", "stub"}
    BY DEF Answered, ReportInv, CallsOK, KnownTypes
  <1>2. CallsOK' /\ KnownTypes'
    BY DEF Answered, ReportInv, CallsOK, KnownTypes, Reaches
  <1>3. op.op \in {"setLocal", "setRemote"} => op.type \in Types
    BY <1>1 DEF Op
  <1>4. SigOK' /\ KnownStates'
    <2>1. CASE sig' = sig
      BY <2>1 DEF Answered, ReportInv, SigOK, KnownStates
    <2>2. CASE op.op = "setLocal" /\ sig' = Moved(LocalNext[op.type])
      BY <1>1, <1>3, <2>2, MovedTyped DEF Answered, Reaches, ReportInv, SigOK, KnownStates
    <2>3. CASE op.op = "setRemote" /\ sig' = Moved(RemoteNext[op.type])
      BY <1>1, <1>3, <2>3, MovedTyped DEF Answered, Reaches, ReportInv, SigOK, KnownStates
    <2> QED
      BY <2>1, <2>2, <2>3 DEF Answered
  <1> QED
    BY <1>2, <1>4 DEF Answered, ReportInv, TableOK

LEMMA NextReport == ReportInv /\ [CallNext]_callVars => ReportInv'
  <1> SUFFICES ASSUME ReportInv, [CallNext]_callVars PROVE ReportInv'
    OBVIOUS
  <1>1. ASSUME NEW t \in Tracks, AddTrack(t) \/ RemoveTrack(t) PROVE ReportInv'
    BY <1>1, AddTrackReport, RemoveTrackReport
  <1>2. ASSUME NEW c \in Callers, Calls(c) \/ Answered(c) PROVE ReportInv'
    BY <1>2, CallsReport, AnsweredReport
  <1>3. CASE ClosePeer
    BY <1>3 DEF ClosePeer, ReportInv, TableOK, CallsOK, SigOK, KnownTypes, KnownStates, Reaches
  <1>4. CASE UNCHANGED callVars
    BY <1>4 DEF callVars, ReportInv, TableOK, CallsOK, SigOK, KnownTypes, KnownStates, Reaches
  <1> QED
    BY <1>1, <1>2, <1>3, <1>4 DEF CallNext

\* Type correctness of the connection's calls; the table keeps to MAX_TRACKS.
THEOREM TypeCorrect == CallSpec => []CallTypeOK
  <1>1. ReportInv => CallTypeOK
    BY DEF ReportInv, TableOK, CallsOK, SigOK, CallTypeOK
  <1> QED
    BY <1>1, InitReport, NextReport, PTL DEF CallSpec

\* However the calls interleave, the reported state hides one state of the stack
\* only (webrtc_rs.rs, signaling_state).
THEOREM ReportHidesOne == CallSpec => []ReportHidesOneState
  <1>1. ReportInv => ReportHidesOneState
    BY DEF ReportInv, SigOK, KnownStates, ReportHidesOneState, Reported
  <1> QED
    BY <1>1, InitReport, NextReport, PTL DEF CallSpec

-----------------------------------------------------------------------------
(* DataChannelApi: spools share the messages. *)

LEMMA ChannelEvents ==
    /\ Messages \subseteq Event /\ Opened \in Event /\ Ended \in Event
    /\ Opened \notin Messages /\ Ended \notin Messages
    /\ \A n \in 1..MaxMessages : Message(n) \in Messages
  BY DEF Messages, Event, Opened, Ended, Message

\* One more of a session's events.
LEMMA ToldTyped ==
    ASSUME ChannelTypeOK, NEW k \in {"open", "close", "message"}, NEW event \in Event,
           Tell(k, event)
    PROVE  queue' \in [Spools -> Seq(Event)]
  BY DEF ChannelTypeOK, Tell, Spools

\* The handlers by their kinds.
LEMMA HandlersTyped ==
    ASSUME ChannelTypeOK
    PROVE  /\ handlers.open \in 0..MaxSpools /\ handlers.close \in 0..MaxSpools
           /\ handlers.message \in 0..MaxSpools /\ handlers.error \in 0..MaxSpools
  BY DEF ChannelTypeOK

\* One of them is replaced.
LEMMA HandlersKept ==
    ASSUME ChannelTypeOK, NEW s \in 0..MaxSpools
    PROVE  /\ [handlers EXCEPT !.open = s].message = handlers.message
           /\ [handlers EXCEPT !.close = s].message = handlers.message
           /\ [handlers EXCEPT !.message = s].message = s
           /\ [handlers EXCEPT !.error = s].message = handlers.message
           /\ \A h \in {[handlers EXCEPT !.open = s], [handlers EXCEPT !.close = s],
                        [handlers EXCEPT !.message = s], [handlers EXCEPT !.error = s]} :
                 h \in [open : 0..MaxSpools, close : 0..MaxSpools,
                        message : 0..MaxSpools, error : 0..MaxSpools]
  BY DEF ChannelTypeOK

LEMMA ChannelTypeStep == ChannelTypeOK /\ [ChannelNext]_channelVars => ChannelTypeOK'
<1> SUFFICES ASSUME ChannelTypeOK, [ChannelNext]_channelVars PROVE ChannelTypeOK'
  OBVIOUS
<1> USE ChannelConstantsOK
<1>0. /\ MaxMessages \in 0..MaxMessages /\ arrived \in 0..MaxMessages
      /\ 0 \in 0..MaxSpools /\ Spools \subseteq 0..MaxSpools
  BY DEF ChannelTypeOK, Spools
<1>1. ASSUME NEW s \in Spools, Spool(s) PROVE ChannelTypeOK'
  <2>1. loop' \in [Spools -> {"none", "open", "close", "message", "error", "waiting", "ended"}]
    <3> DEFINE S == {"none", "open", "close", "message", "error", "waiting", "ended"}
               x == IF binding = "rs" THEN "open" ELSE "waiting"
    <3>1. x \in S
      OBVIOUS
    <3>2. loop \in [Spools -> S] /\ loop' = [loop EXCEPT ![s] = x]
      BY <1>1 DEF Spool, ChannelTypeOK
    <3> HIDE DEF S, x
    <3>3. loop' \in [Spools -> S]
      BY <3>1, <3>2
    <3> QED
      BY <3>3 DEF S
  <2>2. followed' \subseteq Spools
    BY <1>1 DEF Spool, ChannelTypeOK
  <2> QED
    BY <1>1, <2>1, <2>2 DEF Spool, ChannelTypeOK
<1>2. ASSUME NEW s \in Spools, RegisterOpen(s) PROVE ChannelTypeOK'
  <2>1. queue' \in [Spools -> Seq(Event)]
    <3>1. queue' = queue \/ queue' = [queue EXCEPT ![s] = Append(@, Opened)]
      BY <1>2 DEF RegisterOpen
    <3>2. Append(queue[s], Opened) \in Seq(Event)
      BY ChannelEvents DEF ChannelTypeOK
    <3> QED
      BY <3>1, <3>2 DEF ChannelTypeOK
  <2>2. handlers' \in [open : 0..MaxSpools, close : 0..MaxSpools,
                       message : 0..MaxSpools, error : 0..MaxSpools]
    BY <1>0, <1>2, HandlersKept DEF RegisterOpen, Registered
  <2> QED
    BY <1>2, <2>1, <2>2 DEF RegisterOpen, Registers, ChannelTypeOK
<1>3. ASSUME NEW s \in Spools, RegisterClose(s) \/ RegisterError(s) PROVE ChannelTypeOK'
  <2>1. handlers' \in [open : 0..MaxSpools, close : 0..MaxSpools,
                       message : 0..MaxSpools, error : 0..MaxSpools]
    BY <1>0, <1>3, HandlersKept DEF RegisterClose, RegisterError, Registered
  <2> QED
    BY <1>3, <2>1 DEF RegisterClose, RegisterError, Registers, ChannelTypeOK
<1>4. ASSUME NEW s \in Spools, RegisterMessage(s) PROVE ChannelTypeOK'
  <2>1. handlers' \in [open : 0..MaxSpools, close : 0..MaxSpools,
                       message : 0..MaxSpools, error : 0..MaxSpools]
    BY <1>0, <1>4, HandlersKept DEF RegisterMessage, Registered
  <2>2. span' \in [Spools -> (0..MaxMessages) \X (0..MaxMessages)]
    <3> DEFINE Ns == 0..MaxMessages
    <3>1. /\ arrived \in Ns /\ MaxMessages \in Ns
          /\ \A t \in Spools : span[t][1] \in Ns /\ span[t] \in Ns \X Ns
      BY <1>0 DEF ChannelTypeOK
    <3> HIDE DEF Ns
    <3>2. span' \in [Spools -> Ns \X Ns]
      BY <1>4, <3>1 DEF RegisterMessage
    <3> QED
      BY <3>2 DEF Ns
  <2> QED
    BY <1>4, <2>1, <2>2 DEF RegisterMessage, Registers, ChannelTypeOK
<1>5. CASE Open
  <2>1. queue' \in [Spools -> Seq(Event)]
    BY <1>5, ToldTyped, ChannelEvents DEF Open
  <2>2. handlers' \in [open : 0..MaxSpools, close : 0..MaxSpools,
                       message : 0..MaxSpools, error : 0..MaxSpools]
    BY <1>0, <1>5, HandlersKept DEF Open
  <2> QED
    BY <1>5, <2>1, <2>2 DEF Open, spoolHistory, ChannelTypeOK
<1>6. CASE Close
  <2>1. queue' \in [Spools -> Seq(Event)]
    BY <1>6, ToldTyped, ChannelEvents DEF Close, ChannelTypeOK
  <2>2. onClose' \subseteq Spools
    <3>1. {handlers.close} \ {0} \subseteq Spools
      BY <1>0, HandlersTyped DEF Spools
    <3> QED
      BY <1>6, <3>1 DEF Close, ChannelTypeOK
  <2> QED
    BY <1>6, <2>1, <2>2 DEF Close, spoolHistory, ChannelTypeOK
<1>7. CASE Arrive
  <2>1. arrived + 1 \in 1..MaxMessages
    BY <1>0, <1>7 DEF Arrive
  <2>2. queue' \in [Spools -> Seq(Event)]
    BY <1>7, <2>1, ToldTyped, ChannelEvents DEF Arrive
  <2> QED
    BY <1>7, <2>1, <2>2 DEF Arrive, spoolHistory, ChannelTypeOK
<1>8. ASSUME NEW s \in Spools, Recv(s) PROVE ChannelTypeOK'
  <2>1. queue[s] \in Seq(Event) /\ queue[s] # <<>> /\ got[s] \in Seq(Messages)
    BY <1>8 DEF Recv, ChannelTypeOK
  <2>2. Tail(queue[s]) \in Seq(Event)
    BY <2>1
  <2>3. Joined(got[s], Head(queue[s]), Messages) \in Seq(Messages)
    BY <2>1 DEF Joined
  <2> QED
    BY <1>8, <2>2, <2>3 DEF Recv, spoolHistory, ChannelTypeOK
<1>9. ASSUME NEW s \in Spools, RecvNone(s) PROVE ChannelTypeOK'
  BY <1>9 DEF RecvNone, spoolHistory, ChannelTypeOK
<1>10. CASE UNCHANGED channelVars
  BY <1>10 DEF channelVars, spoolHistory, ChannelTypeOK
<1> QED
  BY <1>1, <1>2, <1>3, <1>4, <1>5, <1>6, <1>7, <1>8, <1>9, <1>10
     DEF ChannelNext, SpoolGoesOn, LoopGoesOn

LEMMA ChannelInitTyped == ChannelInit => ChannelTypeOK
  BY ChannelConstantsOK DEF ChannelInit, Unspooled, ChannelTypeOK

\* A loop's share: what it has and what its queue holds for it.
Share(s) == got[s] \o Within(queue[s], Messages)

LEMMA ShareTaken ==
    ASSUME NEW g \in Seq(Messages), NEW q \in Seq(Event), q # <<>>
    PROVE  Joined(g, Head(q), Messages) \o Within(Tail(q), Messages) = g \o Within(q, Messages)
<1>1. Tail(q) \in Seq(Event)
  OBVIOUS
<1>2. Within(Tail(q), Messages) \in Seq(Messages)
  BY <1>1, WithinType
<1>3. Within(q, Messages) = IF Head(q) \in Messages THEN <<Head(q)>> \o Within(Tail(q), Messages)
                            ELSE Within(Tail(q), Messages)
  BY WithinHeadTail
<1>4. ASSUME NEW w \in Seq(Messages), NEW x \in Messages
      PROVE  Append(g, x) \o w = g \o (<<x>> \o w)
  OBVIOUS
<1> DEFINE w == Within(Tail(q), Messages)
           x == Head(q)
<1> HIDE DEF w, x
<1>5. CASE x \in Messages
  <2>1. Append(g, x) \o w = g \o (<<x>> \o w)
    BY <1>2, <1>4, <1>5 DEF w
  <2> QED
    BY <1>3, <1>5, <2>1 DEF w, x, Joined
<1>6. CASE x \notin Messages
  BY <1>3, <1>6 DEF w, x, Joined
<1> QED
  BY <1>5, <1>6

LEMMA ShareGrows ==
    ASSUME NEW g \in Seq(Messages), NEW q \in Seq(Event), NEW x \in Messages
    PROVE  g \o Within(Append(q, x), Messages) = Append(g \o Within(q, Messages), x)
<1>1. Within(q, Messages) \in Seq(Messages)
  BY WithinType
<1>2. x \in Event
  BY ChannelEvents
<1>3. Within(Append(q, x), Messages) = Append(Within(q, Messages), x)
  BY <1>2, WithinAppend DEF Joined
<1>4. ASSUME NEW w \in Seq(Messages) PROVE g \o Append(w, x) = Append(g \o w, x)
  OBVIOUS
<1> QED
  BY <1>1, <1>3, <1>4

LEMMA ShareSame ==
    ASSUME NEW q \in Seq(Event), NEW x \in Event \ Messages
    PROVE  Within(Append(q, x), Messages) = Within(q, Messages)
<1>1. Within(Append(q, x), Messages) = Joined(Within(q, Messages), x, Messages)
  BY WithinAppend
<1> QED
  BY <1>1 DEF Joined

UnheardYet(s) == loop[s] \in {"none", "open", "close", "message"}

\* A spool that has not registered for messages has none; the one that is
\* registered goes on to be, and the others are over.
SpansOK ==
    LET h == handlers.message
    IN  /\ \A s \in Spools :
              /\ UnheardYet(s) => got[s] = <<>> /\ Within(queue[s], Messages) = <<>> /\ s # h
              /\ s # h => span[s][2] <= arrived
              /\ UnheardYet(s) => span[s] = <<0, 0>>
        /\ h # 0 => span[h][1] <= arrived /\ span[h][2] = MaxMessages

\* A step that registers no message handler and takes no message.
LEMMA SpansStay ==
    ASSUME ChannelTypeOK, SpansOK, UNCHANGED <<arrived, got, span>>,
           handlers'.message = handlers.message,
           \A s \in Spools :
              /\ UnheardYet(s)' => UnheardYet(s)
              /\ UnheardYet(s) => Within(queue'[s], Messages) = Within(queue[s], Messages)
    PROVE  SpansOK'
  BY DEF SpansOK

LEMMA SpansStep ==
    ASSUME ChannelTypeOK, SpansOK, [ChannelNext]_channelVars PROVE SpansOK'
<1> USE ChannelConstantsOK
<1>0. /\ handlers.message \in 0..MaxSpools /\ arrived \in 0..MaxMessages
      /\ 0 \in 0..MaxSpools /\ Spools \subseteq 0..MaxSpools /\ 0 \notin Spools
      /\ \A s \in Spools : span[s][1] \in 0..MaxMessages /\ span[s][2] \in 0..MaxMessages
      /\ queue \in [Spools -> Seq(Event)] /\ got \in [Spools -> Seq(Messages)]
      /\ DOMAIN loop = Spools
  BY HandlersTyped DEF ChannelTypeOK, Spools
<1>1. ASSUME NEW s \in Spools, Spool(s) PROVE SpansOK'
  <2>1. \A t \in Spools : UnheardYet(t)' => UnheardYet(t)
    BY <1>0, <1>1 DEF Spool, UnheardYet, Spools
  <2> QED
    BY <1>1, <2>1, SpansStay DEF Spool
<1>2. ASSUME NEW s \in Spools, RegisterOpen(s) \/ RegisterClose(s) \/ RegisterError(s)
      PROVE  SpansOK'
  <2>1. \A t \in Spools : UnheardYet(t)' => UnheardYet(t)
    <3>1. CASE RegisterOpen(s)
      BY <1>0, <3>1 DEF RegisterOpen, Registers, UnheardYet
    <3>2. CASE RegisterClose(s)
      BY <1>0, <3>2 DEF RegisterClose, Registers, UnheardYet
    <3>3. CASE RegisterError(s)
      BY <1>0, <3>3 DEF RegisterError, Registers, UnheardYet
    <3> QED
      BY <1>2, <3>1, <3>2, <3>3
  <2>2. handlers'.message = handlers.message
    <3>1. /\ [handlers EXCEPT !.open = 0].message = handlers.message
          /\ [handlers EXCEPT !.open = s].message = handlers.message
          /\ [handlers EXCEPT !.close = s].message = handlers.message
          /\ [handlers EXCEPT !.error = s].message = handlers.message
      BY <1>0, HandlersKept
    <3> QED
      BY <1>2, <3>1 DEF RegisterOpen, RegisterClose, RegisterError, Registered
  <2>3. ASSUME NEW t \in Spools PROVE Within(queue'[t], Messages) = Within(queue[t], Messages)
    <3>1. queue'[t] = queue[t] \/ queue'[t] = Append(queue[t], Opened)
      BY <1>0, <1>2 DEF RegisterOpen, RegisterClose, RegisterError
    <3>2. Opened \in Event \ Messages /\ queue[t] \in Seq(Event)
      BY <1>0, ChannelEvents
    <3> QED
      BY <3>1, <3>2, ShareSame
  <2>4. UNCHANGED <<arrived, got, span>>
    BY <1>2 DEF RegisterOpen, RegisterClose, RegisterError, Registers
  <2> QED
    BY <2>1, <2>2, <2>3, <2>4, SpansStay
<1>3. ASSUME NEW s \in Spools, RegisterMessage(s) PROVE SpansOK'
  <2>1. handlers'.message = s /\ UNCHANGED <<arrived, got, queue>>
    BY <1>0, <1>3, HandlersKept DEF RegisterMessage, Registers, Registered
  <2>2. UnheardYet(s) /\ s # handlers.message /\ s # 0
    BY <1>0, <1>3 DEF RegisterMessage, Registers, UnheardYet, SpansOK
  <2>3. /\ ~ UnheardYet(s)'
        /\ \A t \in Spools \ {s} : UnheardYet(t)' <=> UnheardYet(t)
    BY <1>0, <1>3 DEF RegisterMessage, Registers, UnheardYet
  <2>4. /\ span'[s][1] = arrived /\ span'[s][2] = MaxMessages
        /\ \A t \in Spools \ {s} :
              /\ t # handlers.message => span'[t] = span[t]
              /\ t = handlers.message => span'[t][2] = arrived
    BY <1>0, <1>3, <2>2 DEF RegisterMessage
  <2>5. \A t \in Spools \ {s} :
            /\ UnheardYet(t)' => got'[t] = <<>> /\ Within(queue'[t], Messages) = <<>> /\ t # s
            /\ span'[t][2] <= arrived'
            /\ UnheardYet(t)' => span'[t] = <<0, 0>>
    <3> SUFFICES ASSUME NEW t \in Spools \ {s}
                 PROVE  /\ UnheardYet(t)' => got'[t] = <<>> /\ Within(queue'[t], Messages) = <<>> /\ t # s
                        /\ span'[t][2] <= arrived'
                        /\ UnheardYet(t)' => span'[t] = <<0, 0>>
      OBVIOUS
    <3>1. CASE t = handlers.message
      <4>1. ~ UnheardYet(t)
        BY <3>1 DEF SpansOK
      <4> QED
        BY <1>0, <2>1, <2>3, <2>4, <3>1, <4>1
    <3>2. CASE t # handlers.message
      <4>1. /\ UnheardYet(t) => got[t] = <<>> /\ Within(queue[t], Messages) = <<>> /\ span[t] = <<0, 0>>
            /\ span[t][2] <= arrived
        BY <3>2 DEF SpansOK
      <4> QED
        BY <2>1, <2>3, <2>4, <3>2, <4>1
    <3> QED
      BY <3>1, <3>2
  <2>6. span'[s][1] <= arrived'
    BY <1>0, <2>1, <2>4
  <2> QED
    BY <2>1, <2>3, <2>4, <2>5, <2>6 DEF SpansOK
<1>4. CASE Open \/ Close
  <2>1. handlers'.message = handlers.message /\ UNCHANGED <<arrived, got, span, loop>>
    <3>1. [handlers EXCEPT !.open = 0].message = handlers.message
      BY <1>0, HandlersKept
    <3> QED
      BY <1>4, <3>1 DEF Open, Close, spoolHistory
  <2>2. ASSUME NEW t \in Spools PROVE Within(queue'[t], Messages) = Within(queue[t], Messages)
    <3>1. \/ queue'[t] = queue[t] \/ queue'[t] = Append(queue[t], Opened)
          \/ queue'[t] = Append(queue[t], Ended)
      <4>1. queue' = queue \/ Tell("open", Opened) \/ Tell("close", Ended)
        BY <1>4 DEF Open, Close
      <4> QED
        BY <1>0, <4>1 DEF Tell
    <3>2. Opened \in Event \ Messages /\ Ended \in Event \ Messages /\ queue[t] \in Seq(Event)
      BY <1>0, ChannelEvents
    <3> QED
      BY <3>1, <3>2, ShareSame
  <2> QED
    BY <2>1, <2>2, SpansStay DEF UnheardYet
<1>5. CASE Arrive
  <2>1. /\ arrived' = arrived + 1 /\ arrived + 1 <= MaxMessages
        /\ UNCHANGED <<handlers, loop, got, span>>
    BY <1>0, <1>5 DEF Arrive, spoolHistory
  <2>2. \A t \in Spools : t # handlers.message => queue'[t] = queue[t]
    BY <1>0, <1>5 DEF Arrive, Tell
  <2>3. ASSUME NEW t \in Spools
        PROVE  /\ UnheardYet(t)' => /\ got'[t] = <<>> /\ Within(queue'[t], Messages) = <<>>
                                   /\ t # handlers'.message /\ span'[t] = <<0, 0>>
               /\ t # handlers'.message => span'[t][2] <= arrived'
    <3>1. UnheardYet(t)' <=> UnheardYet(t)
      BY <2>1 DEF UnheardYet
    <3>2. /\ UnheardYet(t) => /\ got[t] = <<>> /\ Within(queue[t], Messages) = <<>>
                             /\ t # handlers.message /\ span[t] = <<0, 0>>
          /\ t # handlers.message => span[t][2] <= arrived
      BY DEF SpansOK
    <3>3. span[t][2] \in Nat /\ arrived \in Nat
      BY <1>0
    <3> QED
      BY <2>1, <2>2, <3>1, <3>2, <3>3
  <2>4. handlers'.message # 0 =>
            span'[handlers'.message][1] <= arrived' /\ span'[handlers'.message][2] = MaxMessages
    <3>1. handlers.message # 0 => /\ span[handlers.message][1] <= arrived
                                  /\ span[handlers.message][2] = MaxMessages
                                  /\ handlers.message \in Spools
      BY <1>0 DEF SpansOK, Spools
    <3> QED
      BY <1>0, <2>1, <3>1
  <2> QED
    BY <2>3, <2>4 DEF SpansOK
<1>6. ASSUME NEW s \in Spools, Recv(s) PROVE SpansOK'
  <2>1. /\ UNCHANGED <<arrived, span, handlers>>
        /\ \A t \in Spools : /\ UnheardYet(t)' <=> UnheardYet(t)
                             /\ UnheardYet(t) => got'[t] = got[t] /\ queue'[t] = queue[t]
    BY <1>0, <1>6 DEF Recv, UnheardYet, spoolHistory
  <2> QED
    BY <2>1 DEF SpansOK
<1>7. ASSUME NEW s \in Spools, RecvNone(s) PROVE SpansOK'
  <2>1. /\ UNCHANGED <<arrived, span, handlers, got, queue>>
        /\ \A t \in Spools : UnheardYet(t)' <=> UnheardYet(t)
    BY <1>0, <1>7 DEF RecvNone, UnheardYet, spoolHistory
  <2> QED
    BY <2>1 DEF SpansOK
<1>8. CASE UNCHANGED channelVars
  BY <1>8 DEF channelVars, spoolHistory, SpansOK, UnheardYet
<1> QED
  BY <1>1, <1>2, <1>3, <1>4, <1>5, <1>6, <1>7, <1>8 DEF ChannelNext, SpoolGoesOn, LoopGoesOn

\* What is due to a spool whose handlers are registered grows by each message.
LEMMA DueGrows ==
    ASSUME NEW from \in Nat, NEW n \in Nat, from <= n
    PROVE  Append([i \in 1..(n - from) |-> Message(from + i)], Message(n + 1))
             = [i \in 1..((n + 1) - from) |-> Message(from + i)]
<1> DEFINE s == [i \in 1..(n - from) |-> Message(from + i)]
           t == [i \in 1..((n + 1) - from) |-> Message(from + i)]
           a == Append(s, Message(n + 1))
<1>1. n - from \in Nat /\ (n + 1) - from = (n - from) + 1
  OBVIOUS
<1>2. PICK S : s \in Seq(S) /\ Len(s) = n - from
  <2> DEFINE S == {Message(from + i) : i \in 1..(n - from)}
             k == n - from
  <2>1. s \in [1..k -> S] /\ k \in Nat
    BY <1>1
  <2> HIDE DEF S, k, s
  <2>2. s \in Seq(S) /\ Len(s) = k
    BY <2>1
  <2> QED
    BY <2>2 DEF k
<1>3. DOMAIN a = 1..((n - from) + 1) /\ DOMAIN t = 1..((n - from) + 1)
  BY <1>1, <1>2
<1>4. ASSUME NEW i \in 1..((n - from) + 1) PROVE a[i] = t[i]
  <2>1. CASE i = (n - from) + 1
    <3>1. from + i = n + 1
      BY <2>1
    <3>2. a[i] = Message(n + 1)
      BY <1>1, <1>2, <2>1
    <3> QED
      BY <1>1, <3>1, <3>2
  <2>2. CASE i # (n - from) + 1
    <3>1. i \in 1..(n - from)
      BY <1>1, <2>2
    <3>2. a[i] = s[i]
      BY <1>1, <1>2, <3>1
    <3> QED
      BY <1>1, <3>1, <3>2
  <2> QED
    BY <2>1, <2>2
<1>5. a = [i \in 1..((n - from) + 1) |-> a[i]] /\ t = [i \in 1..((n - from) + 1) |-> t[i]]
  BY <1>3
<1> QED
  BY <1>4, <1>5

LEMMA SharesStep ==
    ASSUME ChannelTypeOK, SpansOK, SpoolsShareTheMessages, [ChannelNext]_channelVars
    PROVE  SpoolsShareTheMessages'
<1> USE ChannelConstantsOK
<1>0. /\ handlers.message \in 0..MaxSpools /\ arrived \in 0..MaxMessages
      /\ 0 \in 0..MaxSpools /\ Spools \subseteq 0..MaxSpools
      /\ \A s \in Spools : /\ span[s][1] \in 0..MaxMessages /\ span[s][2] \in 0..MaxMessages
                           /\ queue[s] \in Seq(Event) /\ got[s] \in Seq(Messages)
      /\ queue \in [Spools -> Seq(Event)] /\ got \in [Spools -> Seq(Messages)]
      /\ DOMAIN loop = Spools
  BY HandlersTyped DEF ChannelTypeOK, Spools
<1> SUFFICES ASSUME binding = "rs", NEW s \in Spools PROVE Share(s)' = Due(s)'
  <2>1. binding' = binding
    BY DEF ChannelNext, SpoolGoesOn, LoopGoesOn, Spool, RegisterOpen, RegisterClose,
           RegisterMessage, RegisterError, Registers, Open, Arrive, Close, Recv, RecvNone, channelVars
  <2> QED
    BY <2>1 DEF SpoolsShareTheMessages, Share
<1>1. Share(s) = Due(s)
  BY DEF SpoolsShareTheMessages, Share
<1>2. s # 0 /\ (handlers.message = 0 \/ handlers.message \in Spools)
  BY <1>0 DEF Spools
\* A step that touches neither the share of s nor what is due to it.
<1>3. ASSUME UNCHANGED <<arrived, span, got>>, Within(queue'[s], Messages) = Within(queue[s], Messages)
      PROVE  Share(s)' = Due(s)'
  <2>1. Share(s)' = Share(s) /\ Due(s)' = Due(s)
    BY <1>3 DEF Share, Due
  <2> QED
    BY <1>1, <2>1
<1>4. ASSUME NEW n \in Spools, Spool(n) PROVE Share(s)' = Due(s)'
  BY <1>3, <1>4 DEF Spool
<1>5. ASSUME NEW n \in Spools, RegisterOpen(n) PROVE Share(s)' = Due(s)'
  <2>1. queue'[s] = queue[s] \/ queue'[s] = Append(queue[s], Opened)
    BY <1>0, <1>5 DEF RegisterOpen
  <2>2. Within(queue'[s], Messages) = Within(queue[s], Messages)
    BY <1>0, <2>1, ShareSame, ChannelEvents
  <2> QED
    BY <1>3, <1>5, <2>2 DEF RegisterOpen, Registers
<1>6. ASSUME NEW n \in Spools, RegisterClose(n) \/ RegisterError(n) PROVE Share(s)' = Due(s)'
  BY <1>3, <1>6 DEF RegisterClose, RegisterError, Registers
<1>7. ASSUME NEW n \in Spools, RegisterMessage(n) PROVE Share(s)' = Due(s)'
  <2>1. /\ UnheardYet(n) /\ UNCHANGED <<arrived, queue, got>>
        /\ span' = [t \in Spools |->
                      IF t = n THEN <<arrived, MaxMessages>>
                      ELSE IF t = handlers.message THEN <<span[t][1], arrived>> ELSE span[t]]
    BY <1>7 DEF RegisterMessage, Registers, UnheardYet
  <2>2. Share(s)' = Share(s)
    BY <2>1 DEF Share
  <2>3. CASE s = n
    <3>1. Share(s) = <<>>
      BY <2>1, <2>3 DEF SpansOK, Share
    <3>2. span'[s][1] = arrived /\ span'[s][2] = MaxMessages /\ arrived' = arrived
      BY <2>1, <2>3
    <3>3. Due(s)' = [i \in 1..(arrived - arrived) |-> Message(arrived + i)]
      BY <1>0, <3>2 DEF Due
    <3>4. 1..(arrived - arrived) = {}
      BY <1>0
    <3> QED
      BY <2>2, <3>1, <3>3, <3>4
  <2>4. CASE s # n
    <3>1. Due(s)' = Due(s)
      <4>1. CASE s = handlers.message
        <5>1. span'[s][1] = span[s][1] /\ span'[s][2] = arrived /\ span[s][2] = MaxMessages
          BY <1>2, <2>1, <2>4, <4>1 DEF SpansOK
        <5> QED
          BY <1>0, <2>1, <5>1 DEF Due
      <4>2. CASE s # handlers.message
        <5>1. span'[s] = span[s]
          BY <2>1, <2>4, <4>2
        <5> QED
          BY <2>1, <5>1 DEF Due
      <4> QED
        BY <4>1, <4>2
    <3> QED
      BY <1>1, <2>2, <3>1
  <2> QED
    BY <2>3, <2>4
<1>8. CASE Open \/ Close
  <2>1. queue'[s] = queue[s] \/ \E x \in {Opened, Ended} : queue'[s] = Append(queue[s], x)
    <3>1. queue' = queue \/ Tell("open", Opened) \/ Tell("close", Ended)
      BY <1>8 DEF Open, Close
    <3> QED
      BY <1>0, <3>1 DEF Tell
  <2>2. Within(queue'[s], Messages) = Within(queue[s], Messages)
    BY <1>0, <2>1, ShareSame, ChannelEvents
  <2> QED
    BY <1>3, <1>8, <2>2 DEF Open, Close, spoolHistory
<1>9. CASE Arrive
  <2>1. /\ arrived' = arrived + 1 /\ arrived + 1 \in 1..MaxMessages
        /\ Tell("message", Message(arrived + 1)) /\ UNCHANGED <<loop, got, span>>
    BY <1>0, <1>9 DEF Arrive, spoolHistory
  <2>2. CASE s = handlers.message
    <3>1. span[s][1] <= arrived /\ span[s][2] = MaxMessages
      BY <1>2, <2>2 DEF SpansOK
    <3>2. queue'[s] = Append(queue[s], Message(arrived + 1))
      BY <1>0, <1>2, <2>1, <2>2 DEF Tell
    <3>3. Share(s)' = Append(Share(s), Message(arrived + 1))
      <4>1. got[s] \in Seq(Messages) /\ queue[s] \in Seq(Event)
        BY <1>0
      <4>2. Message(arrived + 1) \in Messages
        BY <2>1 DEF Messages
      <4>3. got[s] \o Within(Append(queue[s], Message(arrived + 1)), Messages)
              = Append(got[s] \o Within(queue[s], Messages), Message(arrived + 1))
        BY <4>1, <4>2, ShareGrows
      <4>4. got'[s] = got[s]
        BY <2>1
      <4> QED
        BY <3>2, <4>3, <4>4 DEF Share
    <3>4. Due(s) = [i \in 1..(arrived - span[s][1]) |-> Message(span[s][1] + i)]
      BY <1>0, <3>1 DEF Due
    <3>5. Due(s)' = [i \in 1..((arrived + 1) - span[s][1]) |-> Message(span[s][1] + i)]
      BY <1>0, <2>1, <3>1 DEF Due
    <3>6. span[s][1] \in Nat /\ arrived \in Nat
      BY <1>0
    <3>7. Append(Due(s), Message(arrived + 1)) = Due(s)'
      <4>1. Append([i \in 1..(arrived - span[s][1]) |-> Message(span[s][1] + i)], Message(arrived + 1))
              = [i \in 1..((arrived + 1) - span[s][1]) |-> Message(span[s][1] + i)]
        BY <3>1, <3>6, DueGrows
      <4> QED
        BY <3>4, <3>5, <4>1, Zenon
    <3> HIDE DEF Share
    <3> QED
      BY <1>1, <3>3, <3>7, Zenon
  <2>3. CASE s # handlers.message
    <3>1. queue'[s] = queue[s]
      BY <1>0, <2>1, <2>3 DEF Tell
    <3>2. span[s][2] <= arrived
      BY <2>3 DEF SpansOK
    <3>3. Due(s)' = Due(s)
      BY <1>0, <2>1, <3>2 DEF Due
    <3>4. Share(s)' = Share(s)
      BY <2>1, <3>1 DEF Share
    <3> QED
      BY <1>1, <3>3, <3>4
  <2> QED
    BY <2>2, <2>3
<1>10. ASSUME NEW n \in Spools, Recv(n) PROVE Share(s)' = Due(s)'
  <2>1. /\ queue[n] # <<>> /\ queue' = [queue EXCEPT ![n] = Tail(@)]
        /\ got' = [got EXCEPT ![n] = Joined(@, Head(queue[n]), Messages)]
        /\ UNCHANGED <<arrived, span>>
    BY <1>10 DEF Recv, spoolHistory
  <2>2. Due(s)' = Due(s)
    BY <2>1 DEF Due
  <2>3. Share(s)' = Share(s)
    <3>1. CASE s = n
      <4>1. got'[s] = Joined(got[s], Head(queue[s]), Messages) /\ queue'[s] = Tail(queue[s])
        BY <1>0, <2>1, <3>1
      <4> QED
        BY <1>0, <2>1, <3>1, <4>1, ShareTaken DEF Share
    <3>2. CASE s # n
      BY <1>0, <2>1, <3>2 DEF Share
    <3> QED
      BY <3>1, <3>2
  <2> QED
    BY <1>1, <2>2, <2>3
<1>11. ASSUME NEW n \in Spools, RecvNone(n) PROVE Share(s)' = Due(s)'
  BY <1>3, <1>11 DEF RecvNone, spoolHistory
<1>12. CASE UNCHANGED channelVars
  BY <1>3, <1>12 DEF channelVars, spoolHistory
<1> QED
  BY <1>4, <1>5, <1>6, <1>7, <1>8, <1>9, <1>10, <1>11, <1>12 DEF ChannelNext, SpoolGoesOn, LoopGoesOn

\* The state of a data channel is well typed under any use of its API.
THEOREM ChannelTypes == ChannelSpec => []ChannelTypeOK
  BY ChannelInitTyped, ChannelTypeStep, PTL DEF ChannelSpec

\* Each loop gets exactly the messages of its time, for any number of spools
\* and of messages: a later spool takes over at once.
THEOREM SpoolsShare == ChannelSpec => []SpoolsShareTheMessages
<1>1. ChannelInit => SpansOK /\ SpoolsShareTheMessages
  <2> SUFFICES ASSUME ChannelInit PROVE SpansOK /\ SpoolsShareTheMessages
    OBVIOUS
  <2>1. \A s \in Spools : /\ got[s] = <<>> /\ queue[s] = <<>> /\ span[s] = <<0, 0>> /\ s # 0
    BY DEF ChannelInit, Unspooled, Spools
  <2>2. Within(<<>>, Messages) = <<>>
    BY WithinEmpty
  <2>3. arrived = 0 /\ handlers.message = 0
    BY DEF ChannelInit, Unspooled
  <2>4. ASSUME NEW s \in Spools PROVE got[s] \o Within(queue[s], Messages) = Due(s)
    <3>1. Due(s) = [i \in 1..(0 - 0) |-> Message(0 + i)]
      BY <2>1, <2>3 DEF Due
    <3>2. 1..(0 - 0) = {}
      OBVIOUS
    <3>3. Due(s) = <<>>
      BY <3>1, <3>2
    <3> QED
      BY <2>1, <2>2, <3>3
  <2>5. SpansOK
    BY <2>1, <2>2, <2>3 DEF SpansOK
  <2> QED
    BY <2>4, <2>5 DEF SpoolsShareTheMessages
<1> QED
  BY <1>1, ChannelInitTyped, ChannelTypeStep, SpansStep, SharesStep, PTL DEF ChannelSpec

-----------------------------------------------------------------------------
(* FragmentStreams: subscribers that poll. *)

LEMMA OldestOf ==
    ASSUME NEW n \in 0..MaxPackets
    PROVE  /\ Oldest(n) \in 1..(n + 1) /\ (n > 0 => Oldest(n) <= n)
           /\ (n + 1 <= MaxPackets => Oldest(n) <= Oldest(n + 1))
  BY StreamConstantsOK DEF Oldest

LEMMA StreamInitTyped == StreamInit => StreamTypeOK
  BY StreamConstantsOK DEF StreamInit, StreamTypeOK, Cursor, Unsubscribed, Packets

\* A reader at its place in a stream.
ReadingOK(c, n, missed) ==
    /\ c.from < c.next /\ c.next <= n + 1
    /\ missed \subseteq 1..(Oldest(n) - 1)
    /\ c.next .. (Oldest(n) - 1) \subseteq missed

KeepsOrder(c, missed) ==
    /\ \A i, j \in DOMAIN c.got : i < j => c.got[i] < c.got[j]
    /\ Range(c.got) = ((c.from + 1) .. (c.next - 1)) \ missed

ReadersInPlace ==
    \A r \in Readers :
        /\ cursor[r].of = 0 => cursor[r] = Unsubscribed /\ passed[r] = {}
        /\ cursor[r].of # 0 => ReadingOK(cursor[r], said[cursor[r].of], passed[r])

LEMMA CursorOf ==
    ASSUME StreamTypeOK, NEW r \in Readers
    PROVE  /\ cursor[r].of \in 0..MaxStreams /\ cursor[r].from \in 0..MaxPackets
           /\ cursor[r].next \in 1..(MaxPackets + 1) /\ cursor[r].got \in Seq(Packets)
           /\ cursor[r] = [of |-> cursor[r].of, from |-> cursor[r].from, next |-> cursor[r].next, got |-> cursor[r].got]
           /\ passed[r] \subseteq Packets
           /\ cursor[r].of # 0 => cursor[r].of \in Streams /\ said[cursor[r].of] \in 0..MaxPackets
  BY DEF StreamTypeOK, Cursor, Streams

\* What a poll makes of a cursor in a stream of n packets.
Polled1(c, n, d) ==
    IF c.next < Oldest(n) THEN d = [c EXCEPT !.next = Resumed(n)]
    ELSE d = IF c.next > n THEN c ELSE [c EXCEPT !.next = @ + 1, !.got = Append(@, c.next)]

LEMMA PollKeeps ==
    ASSUME NEW c \in Cursor, NEW n \in 0..MaxPackets, NEW missed \in SUBSET Packets, NEW d,
           ReadingOK(c, n, missed), KeepsOrder(c, missed), Polled1(c, n, d)
    PROVE  d \in Cursor /\ d.of = c.of /\ ReadingOK(d, n, missed) /\ KeepsOrder(d, missed)
<1> USE StreamConstantsOK
<1>0. /\ c.of \in 0..MaxStreams /\ c.from \in 0..MaxPackets
      /\ c.next \in 1..(MaxPackets + 1) /\ c.got \in Seq(Packets)
      /\ Oldest(n) \in 1..(n + 1) /\ (n > 0 => Oldest(n) <= n)
  BY OldestOf DEF Cursor
<1>1. CASE c.next < Oldest(n)
  <2>1. d = [of |-> c.of, from |-> c.from, next |-> Oldest(n), got |-> c.got]
    BY <1>1 DEF Polled1, Resumed, Cursor
  <2>2. Oldest(n) \in 1..(MaxPackets + 1)
    BY <1>0
  <2>3. d \in Cursor
    BY <1>0, <2>1, <2>2 DEF Cursor
  <2>4. ReadingOK(d, n, missed)
    BY <1>0, <1>1, <2>1 DEF ReadingOK
  <2>5. ((c.from + 1) .. (c.next - 1)) \ missed = ((c.from + 1) .. (Oldest(n) - 1)) \ missed
    <3>1. c.from \in Nat /\ c.next \in Nat /\ Oldest(n) \in Nat /\ c.from < c.next
      BY <1>0 DEF ReadingOK
    <3>2. \A i \in (c.from + 1) .. (Oldest(n) - 1) :
             i \in (c.from + 1) .. (c.next - 1) \/ i \in c.next .. (Oldest(n) - 1)
      BY <3>1
    <3>3. (c.from + 1) .. (c.next - 1) \subseteq (c.from + 1) .. (Oldest(n) - 1)
      BY <1>1, <3>1
    <3>4. c.next .. (Oldest(n) - 1) \subseteq missed
      BY DEF ReadingOK
    <3> QED
      BY <3>2, <3>3, <3>4, Zenon
  <2>6. KeepsOrder(d, missed)
    BY <2>1, <2>5 DEF KeepsOrder
  <2> QED
    BY <2>1, <2>3, <2>4, <2>6
<1>2. CASE c.next >= Oldest(n) /\ c.next > n
  BY <1>0, <1>2 DEF Polled1
<1>3. CASE c.next >= Oldest(n) /\ c.next <= n
  <2> DEFINE grown == Append(c.got, c.next)
  <2>1. d = [of |-> c.of, from |-> c.from, next |-> c.next + 1, got |-> grown]
    <3>1. c = [of |-> c.of, from |-> c.from, next |-> c.next, got |-> c.got]
      BY DEF Cursor
    <3>2. d = [c EXCEPT !.next = c.next + 1, !.got = grown]
      BY <1>0, <1>3 DEF Polled1
    <3> HIDE DEF grown
    <3> QED
      BY <3>1, <3>2
  <2>2. c.next \in Packets
    BY <1>0, <1>3 DEF Packets
  <2>3. /\ grown \in Seq(Packets) /\ Len(grown) = Len(c.got) + 1 /\ Len(c.got) \in Nat
        /\ DOMAIN grown = 1..(Len(c.got) + 1) /\ DOMAIN c.got = 1..Len(c.got)
        /\ grown[Len(c.got) + 1] = c.next
        /\ \A i \in 1..Len(c.got) : grown[i] = c.got[i]
    BY <1>0, <2>2
  <2> HIDE DEF grown
  <2>4. \A i \in DOMAIN c.got : c.got[i] \in Nat /\ c.got[i] < c.next
    <3>1. \A i \in DOMAIN c.got : c.got[i] \in Range(c.got)
      BY DEF Range
    <3>2. \A x \in Range(c.got) : x \in Nat /\ x < c.next
      <4>1. \A x \in Range(c.got) : x \in (c.from + 1) .. (c.next - 1)
        BY DEF KeepsOrder
      <4>2. c.from \in Nat /\ c.next \in Nat
        BY <1>0
      <4> QED
        BY <4>1, <4>2
    <3> QED
      BY <3>1, <3>2
  <2>5. \A i, j \in DOMAIN grown : i < j => grown[i] < grown[j]
    <3> SUFFICES ASSUME NEW i \in DOMAIN grown, NEW j \in DOMAIN grown, i < j PROVE grown[i] < grown[j]
      OBVIOUS
    <3>1. i \in DOMAIN c.got /\ grown[i] = c.got[i]
      BY <2>3
    <3>2. CASE j \in DOMAIN c.got
      BY <2>3, <3>1, <3>2 DEF KeepsOrder
    <3>3. CASE j = Len(c.got) + 1
      BY <2>3, <2>4, <3>1, <3>3
    <3> QED
      BY <2>3, <3>2, <3>3
  <2>6. Range(grown) = Range(c.got) \cup {c.next}
    <3>1. Range(grown) = {grown[i] : i \in 1..(Len(c.got) + 1)} /\ Range(c.got) = {c.got[i] : i \in 1..Len(c.got)}
      BY <2>3 DEF Range
    <3>2. Len(c.got) + 1 \in 1..(Len(c.got) + 1) /\ 1..Len(c.got) \subseteq 1..(Len(c.got) + 1)
      BY <2>3
    <3>3. \A i \in 1..(Len(c.got) + 1) : i \in 1..Len(c.got) \/ i = Len(c.got) + 1
      BY <2>3
    <3> QED
      BY <2>3, <3>1, <3>2, <3>3
  <2>7. ((c.from + 1) .. ((c.next + 1) - 1)) \ missed = (((c.from + 1) .. (c.next - 1)) \ missed) \cup {c.next}
    <3>1. c.next \notin missed
      BY <1>0, <1>3 DEF ReadingOK
    <3>2. (c.from + 1) .. ((c.next + 1) - 1) = ((c.from + 1) .. (c.next - 1)) \cup {c.next}
      BY <1>0 DEF ReadingOK
    <3> QED
      BY <3>1, <3>2
  <2>8. KeepsOrder(d, missed)
    BY <2>1, <2>5, <2>6, <2>7 DEF KeepsOrder
  <2>9. c.next + 1 \in 1..(MaxPackets + 1)
    BY <1>0, <1>3
  <2>10. d \in Cursor
    BY <1>0, <2>1, <2>3, <2>9 DEF Cursor
  <2>11. ReadingOK(d, n, missed)
    <3>1. d.from = c.from /\ d.next = c.next + 1
      BY <2>1
    <3>2. c.from \in Nat /\ c.next \in Nat /\ n \in Nat /\ Oldest(n) \in Nat
      BY <1>0
    <3>3. c.from < c.next + 1 /\ c.next + 1 <= n + 1
      BY <1>3, <3>2 DEF ReadingOK
    <3>4. (c.next + 1) .. (Oldest(n) - 1) \subseteq c.next .. (Oldest(n) - 1)
      BY <3>2
    <3> QED
      BY <3>1, <3>3, <3>4 DEF ReadingOK
  <2> QED
    BY <2>1, <2>8, <2>10, <2>11
<1> QED
  BY <1>0, <1>1, <1>2, <1>3

\* A packet that is emitted pushes out at most what is before the reader.
LEMMA EmitKeeps ==
    ASSUME NEW c \in Cursor, NEW n \in 0..MaxPackets, n + 1 <= MaxPackets,
           NEW missed \in SUBSET Packets, NEW later, later = missed \cup (c.next .. (Oldest(n + 1) - 1)),
           ReadingOK(c, n, missed), KeepsOrder(c, missed)
    PROVE  later \in SUBSET Packets /\ ReadingOK(c, n + 1, later) /\ KeepsOrder(c, later)
<1> USE StreamConstantsOK
<1>0. /\ c.from \in 0..MaxPackets /\ c.next \in 1..(MaxPackets + 1) /\ n + 1 \in 0..MaxPackets
      /\ Oldest(n) \in 1..(n + 1) /\ Oldest(n) <= Oldest(n + 1) /\ Oldest(n + 1) \in 1..(n + 1)
  <2>1. n + 1 \in 0..MaxPackets
    OBVIOUS
  <2>2. Oldest(n + 1) \in 1..((n + 1) + 1) /\ Oldest(n + 1) <= n + 1
    BY <2>1, OldestOf
  <2>3. Oldest(n + 1) \in 1..(n + 1)
    BY <2>2
  <2> QED
    BY <2>1, <2>3, OldestOf DEF Cursor
<1>1. later \in SUBSET Packets
  <2>1. \A x \in c.next .. (Oldest(n + 1) - 1) : x \in Packets
    BY <1>0 DEF Packets
  <2> QED
    BY <2>1
<1>2. ReadingOK(c, n + 1, later)
  <2>1. c.from < c.next /\ c.next <= (n + 1) + 1
    BY <1>0 DEF ReadingOK
  <2>2. \A x \in missed : x \in 1..(Oldest(n + 1) - 1)
    BY <1>0 DEF ReadingOK
  <2>3. \A x \in c.next .. (Oldest(n + 1) - 1) : x \in 1..(Oldest(n + 1) - 1)
    BY <1>0
  <2> QED
    BY <2>1, <2>2, <2>3 DEF ReadingOK
<1>3. ((c.from + 1) .. (c.next - 1)) \ missed = ((c.from + 1) .. (c.next - 1)) \ later
  BY <1>0
<1>4. KeepsOrder(c, later)
  BY <1>3 DEF KeepsOrder
<1> QED
  BY <1>1, <1>2, <1>4

StreamInv == StreamTypeOK /\ ReadersInPlace /\ StreamsKeepOrder

LEMMA StreamsAt ==
    StreamsKeepOrder <=> \A r \in Readers : KeepsOrder(cursor[r], passed[r])
  BY DEF StreamsKeepOrder, KeepsOrder

\* A new subscriber, or none.
LEMMA FreshKeeps ==
    ASSUME NEW b \in 0..MaxStreams, NEW n \in 0..MaxPackets
    PROVE  LET c == [of |-> b, from |-> n, next |-> n + 1, got |-> <<>>]
           IN  c \in Cursor /\ ReadingOK(c, n, {}) /\ KeepsOrder(c, {})
<1> USE StreamConstantsOK
<1> DEFINE c == [of |-> b, from |-> n, next |-> n + 1, got |-> <<>>]
<1>1. c \in Cursor
  BY DEF Cursor
<1>2. ReadingOK(c, n, {})
  BY OldestOf DEF ReadingOK
<1>3. KeepsOrder(c, {})
  <2>1. Range(<<>>) = {}
    BY DEF Range
  <2>2. (n + 1) .. ((n + 1) - 1) = {}
    OBVIOUS
  <2>3. c.got = <<>> /\ c.from = n /\ c.next = n + 1 /\ DOMAIN c.got = {}
    OBVIOUS
  <2> HIDE DEF c
  <2> QED
    BY <2>1, <2>2, <2>3 DEF KeepsOrder
<1> QED
  BY <1>1, <1>2, <1>3

LEMMA UnsubscribedKeeps ==
    Unsubscribed \in Cursor /\ KeepsOrder(Unsubscribed, {}) /\ Unsubscribed.of = 0
<1>1. 0 \in 0..MaxStreams /\ 0 \in 0..MaxPackets
  BY StreamConstantsOK
<1>2. [of |-> 0, from |-> 0, next |-> 0 + 1, got |-> <<>>] = Unsubscribed
  BY DEF Unsubscribed
<1>3. Unsubscribed \in Cursor /\ KeepsOrder(Unsubscribed, {})
  BY <1>1, <1>2, FreshKeeps
<1> QED
  BY <1>3 DEF Unsubscribed

LEMMA StreamStep == StreamInv /\ [StreamNext]_streamVars => StreamInv'
<1> SUFFICES ASSUME StreamInv, [StreamNext]_streamVars PROVE StreamInv'
  OBVIOUS
<1> USE StreamConstantsOK
<1>0. StreamTypeOK /\ ReadersInPlace /\ \A r \in Readers : KeepsOrder(cursor[r], passed[r])
  BY StreamsAt DEF StreamInv
<1>1. ASSUME UNCHANGED <<said, cursor, passed, again>>, registry' \in 0..MaxStreams, streams' \in 0..MaxStreams,
             holds' \in [Producers -> 0..MaxStreams]
      PROVE  StreamInv'
  BY <1>1 DEF StreamInv, StreamTypeOK, ReadersInPlace, StreamsKeepOrder
<1>2. ASSUME NEW p \in Producers, Acquire(p) \/ Release(p) PROVE StreamInv'
  BY <1>0, <1>1, <1>2 DEF Acquire, Release, StreamTypeOK
<1>3. CASE Unregister \/ UNCHANGED streamVars
  BY <1>0, <1>1, <1>3 DEF Unregister, streamVars, StreamTypeOK
\* One reader's cursor changes.
<1>4. ASSUME NEW r \in Readers, NEW d \in Cursor, cursor' = [cursor EXCEPT ![r] = d],
             NEW missed \in SUBSET Packets, passed' = [passed EXCEPT ![r] = missed],
             again' \subseteq Readers, UNCHANGED <<registry, streams, holds, said>>,
             d.of = 0 => d = Unsubscribed /\ missed = {},
             d.of # 0 => ReadingOK(d, said[d.of], missed),
             KeepsOrder(d, missed)
      PROVE  StreamInv'
  <2>1. cursor' \in [Readers -> Cursor] /\ passed' \in [Readers -> SUBSET Packets]
    BY <1>0, <1>4 DEF StreamTypeOK
  <2>2. StreamTypeOK'
    BY <1>0, <1>4, <2>1 DEF StreamTypeOK
  <2>3. \A q \in Readers : \/ q = r /\ cursor'[q] = d /\ passed'[q] = missed
                           \/ cursor'[q] = cursor[q] /\ passed'[q] = passed[q]
    BY <1>0, <1>4 DEF StreamTypeOK
  <2>4. ReadersInPlace'
    BY <1>0, <1>4, <2>3 DEF ReadersInPlace
  <2>5. \A q \in Readers : KeepsOrder(cursor'[q], passed'[q])
    BY <1>0, <1>4, <2>3
  <2>6. StreamsKeepOrder'
    BY <2>5 DEF StreamsKeepOrder, KeepsOrder
  <2> QED
    BY <2>2, <2>4, <2>6 DEF StreamInv
<1>5. ASSUME NEW p \in Producers, NEW r \in Readers, Subscribe(p, r) PROVE StreamInv'
  <2> DEFINE b == holds[p]
             n == said[b]
             d == [of |-> b, from |-> n, next |-> n + 1, got |-> <<>>]
  <2>1. b \in Streams /\ n \in 0..MaxPackets /\ b \in 0..MaxStreams /\ b # 0
    BY <1>0, <1>5 DEF Subscribe, StreamTypeOK, Streams
  <2>2. d \in Cursor /\ ReadingOK(d, n, {}) /\ KeepsOrder(d, {})
    BY <2>1, FreshKeeps
  <2>3. cursor' = [cursor EXCEPT ![r] = d] /\ passed' = [passed EXCEPT ![r] = {}]
        /\ UNCHANGED <<registry, streams, holds, said, again>>
    BY <1>5 DEF Subscribe
  <2>4. d.of = b
    OBVIOUS
  <2>5. {} \in SUBSET Packets /\ again \subseteq Readers
    BY <1>0 DEF StreamTypeOK
  <2> HIDE DEF d, b
  <2> QED
    BY <1>4, <2>1, <2>2, <2>3, <2>4, <2>5
<1>6. ASSUME NEW r \in Readers, Unsubscribe(r) PROVE StreamInv'
  <2>1. Unsubscribed \in Cursor /\ KeepsOrder(Unsubscribed, {}) /\ Unsubscribed.of = 0
    BY UnsubscribedKeeps
  <2>2. again' \subseteq Readers
    BY <1>0, <1>6 DEF Unsubscribe, StreamTypeOK
  <2>3. {} \in SUBSET Packets
    OBVIOUS
  <2> QED
    BY <1>4, <1>6, <2>1, <2>2, <2>3 DEF Unsubscribe
<1>7. ASSUME NEW r \in Readers, Poll(r) PROVE StreamInv'
  <2> DEFINE c == cursor[r]
             n == said[c.of]
             missed == passed[r]
  <2>1. c \in Cursor /\ n \in 0..MaxPackets /\ missed \in SUBSET Packets /\ c.of # 0
    BY <1>0, <1>7, CursorOf DEF Poll, StreamTypeOK
  <2>2. PICK d : cursor' = [cursor EXCEPT ![r] = d] /\ Polled1(c, n, d)
    <3>1. cursor \in [Readers -> Cursor]
      BY <1>0 DEF StreamTypeOK
    <3>2. CASE c.next < Oldest(n)
      <4>1. cursor' = [cursor EXCEPT ![r] = [c EXCEPT !.next = Resumed(n)]]
        BY <1>7, <3>1, <3>2 DEF Poll
      <4> QED
        BY <3>2, <4>1 DEF Polled1
    <3>3. CASE ~(c.next < Oldest(n))
      <4>1. cursor' = [cursor EXCEPT ![r] = IF c.next > n THEN c ELSE [c EXCEPT !.next = @ + 1, !.got = Append(@, c.next)]]
        BY <1>7, <3>3 DEF Poll
      <4> QED
        BY <3>3, <4>1 DEF Polled1
    <3> QED
      BY <3>2, <3>3
  <2>3. ReadingOK(c, n, missed) /\ KeepsOrder(c, missed)
    BY <1>0, <2>1 DEF ReadersInPlace
  <2>4. d \in Cursor /\ d.of = c.of /\ ReadingOK(d, n, missed) /\ KeepsOrder(d, missed)
    <3> HIDE DEF c, n, missed
    <3> QED
      BY <2>1, <2>2, <2>3, PollKeeps
  <2>5. again' \subseteq Readers /\ UNCHANGED <<registry, streams, holds, said, passed>>
    BY <1>0, <1>7 DEF Poll, StreamTypeOK
  <2>6. passed' = [passed EXCEPT ![r] = missed]
    BY <1>0, <2>5 DEF StreamTypeOK
  <2> QED
    BY <1>4, <2>1, <2>2, <2>4, <2>5, <2>6
<1>8. ASSUME NEW p \in Producers, Emit(p) PROVE StreamInv'
  <2> DEFINE b == holds[p]
             n == said[b]
             listeners == {r \in Readers : cursor[r].of = b}
  <2>1. b \in Streams /\ b # 0 /\ n \in 0..MaxPackets /\ n + 1 \in 0..MaxPackets
    BY <1>0, <1>8 DEF Emit, StreamTypeOK, Streams
  <2>2. CASE listeners = {}
    <3>1. said' = said /\ UNCHANGED <<registry, streams, holds, cursor, again>>
      BY <1>8, <2>2 DEF Emit
    <3>2. passed' = passed
      BY <1>0, <1>8, <2>2 DEF Emit, StreamTypeOK
    <3> QED
      BY <1>0, <1>1, <3>1, <3>2 DEF StreamTypeOK
  <2>3. CASE listeners # {}
    <3>1. said' = [said EXCEPT ![b] = n + 1] /\ UNCHANGED <<registry, streams, holds, cursor, again>>
      BY <1>8, <2>3 DEF Emit
    <3>2. said' \in [Streams -> 0..MaxPackets] /\ said'[b] = n + 1
          /\ \A a \in Streams : a # b => said'[a] = said[a]
      BY <1>0, <2>1, <3>1 DEF StreamTypeOK
    <3>3. passed' = [r \in Readers |->
               IF r \in listeners THEN passed[r] \cup (cursor[r].next .. (Oldest(n + 1) - 1)) ELSE passed[r]]
      BY <1>8, <3>2 DEF Emit
    <3>4. ASSUME NEW r \in Readers
          PROVE  /\ passed'[r] \in SUBSET Packets /\ KeepsOrder(cursor[r], passed'[r])
                 /\ cursor[r].of = 0 => passed'[r] = passed[r]
                 /\ cursor[r].of # 0 => ReadingOK(cursor[r], said'[cursor[r].of], passed'[r])
      <4>1. CASE r \in listeners
        <5>1. cursor[r] \in Cursor /\ passed[r] \in SUBSET Packets /\ cursor[r].of = b
          BY <1>0, <4>1 DEF StreamTypeOK
        <5>2. ReadingOK(cursor[r], n, passed[r]) /\ KeepsOrder(cursor[r], passed[r])
          BY <1>0, <2>1, <5>1 DEF ReadersInPlace
        <5>3. passed'[r] = passed[r] \cup (cursor[r].next .. (Oldest(n + 1) - 1)) /\ n + 1 <= MaxPackets
          BY <2>1, <3>3, <4>1
        <5>4. /\ passed'[r] \in SUBSET Packets /\ ReadingOK(cursor[r], n + 1, passed'[r])
              /\ KeepsOrder(cursor[r], passed'[r])
          <6> HIDE DEF n
          <6> QED
            BY <2>1, <5>1, <5>2, <5>3, EmitKeeps
        <5> QED
          BY <2>1, <3>2, <5>1, <5>4
      <4>2. CASE r \notin listeners
        <5>1. passed'[r] = passed[r] /\ cursor[r].of # b
          BY <3>3, <4>2
        <5>2. cursor[r].of # 0 => said'[cursor[r].of] = said[cursor[r].of]
          BY <1>0, <3>2, <5>1, CursorOf
        <5>3. passed[r] \in SUBSET Packets
          BY <1>0 DEF StreamTypeOK
        <5> QED
          BY <1>0, <5>1, <5>2, <5>3 DEF ReadersInPlace
      <4> QED
        BY <4>1, <4>2
    <3>5. StreamTypeOK'
      <4>1. passed' \in [Readers -> SUBSET Packets]
        BY <3>3, <3>4
      <4> QED
        BY <1>0, <3>1, <3>2, <4>1 DEF StreamTypeOK
    <3>6. ReadersInPlace'
      BY <1>0, <3>1, <3>4 DEF ReadersInPlace
    <3>7. StreamsKeepOrder'
      BY <3>1, <3>4 DEF StreamsKeepOrder, KeepsOrder
    <3> QED
      BY <3>5, <3>6, <3>7 DEF StreamInv
  <2> QED
    BY <2>2, <2>3
<1> QED
  BY <1>2, <1>3, <1>5, <1>6, <1>7, <1>8 DEF StreamNext

LEMMA StreamsBegin == StreamInit => StreamInv
<1> SUFFICES ASSUME StreamInit PROVE StreamInv
  OBVIOUS
<1>1. \A r \in Readers : cursor[r] = Unsubscribed /\ passed[r] = {}
  BY DEF StreamInit
<1>2. KeepsOrder(Unsubscribed, {}) /\ Unsubscribed.of = 0
  BY UnsubscribedKeeps
<1>3. ReadersInPlace
  BY <1>1, <1>2 DEF ReadersInPlace
<1>4. StreamsKeepOrder
  BY <1>1, <1>2, StreamsAt
<1> QED
  BY <1>3, <1>4, StreamInitTyped DEF StreamInv

\* A subscriber has each packet since it subscribed once and in order, but for
\* those the channel had pushed out, for any size of the channel, any number of
\* broadcasters, packets and readers.
THEOREM StreamsInOrder == StreamSpec => []StreamsKeepOrder
<1>1. StreamInv => StreamsKeepOrder
  BY DEF StreamInv
<1> QED
  BY <1>1, StreamsBegin, StreamStep, PTL DEF StreamSpec

\* Registry, channels and cursors stay within their types and bounds.
THEOREM StreamTypes == StreamSpec => []StreamTypeOK
<1>1. StreamInv => StreamTypeOK
  BY DEF StreamInv
<1> QED
  BY <1>1, StreamsBegin, StreamStep, PTL DEF StreamSpec

-----------------------------------------------------------------------------
(* TrackWriter: where the frames are. *)

\* What an encoder holds after a frame went in and n packets came out.
LEMMA EncodedHolds ==
    ASSUME NEW e \in Encoder, NEW f \in Frame, NEW n \in 0..(Len(e.inside) + 1)
    PROVE  LET d == Encoded(e, f, n)
           IN  /\ d \in Encoder
               /\ Range(d.inside) \cup Range(d.ready) = Range(e.inside) \cup Range(e.ready) \cup {f}
               /\ Once(e) /\ f \notin Range(e.inside) \cup Range(e.ready) => Once(d)
               /\ n = Len(e.inside) + 1 => d.inside = <<>>
               /\ e.inside = <<>> /\ e.ready = <<>> /\ n = 1 => d.ready = <<f>>
<1> DEFINE in == Append(e.inside, f)
           out == SubSeq(in, 1, n)
           rest == SubSeq(in, n + 1, Len(in))
           ready == e.ready \o out
           L == Len(e.inside)
           K == Len(e.ready)
<1>0. e.inside \in Seq(Frame) /\ e.ready \in Seq(Frame) /\ L \in Nat /\ K \in Nat /\ n \in Nat
  BY DEF Encoder
<1>1. /\ in \in Seq(Frame) /\ Len(in) = L + 1 /\ in[L + 1] = f /\ DOMAIN e.inside = 1..L /\ DOMAIN e.ready = 1..K
      /\ \A i \in 1..L : in[i] = e.inside[i]
  BY <1>0
<1>2. /\ out \in Seq(Frame) /\ Len(out) = n /\ \A i \in 1..n : out[i] = in[i]
      /\ rest \in Seq(Frame) /\ Len(rest) = L + 1 - n /\ \A i \in 1..(L + 1 - n) : rest[i] = in[n + i]
  <2>1. n \in 0..(L + 1) /\ L \in Nat
    BY <1>0 DEF L
  <2>2. ASSUME NEW s \in Seq(Frame), NEW k \in Nat, k <= Len(s)
        PROVE  /\ SubSeq(s, 1, k) \in Seq(Frame) /\ Len(SubSeq(s, 1, k)) = k
               /\ \A i \in 1..k : SubSeq(s, 1, k)[i] = s[i]
               /\ SubSeq(s, k + 1, Len(s)) \in Seq(Frame) /\ Len(SubSeq(s, k + 1, Len(s))) = Len(s) - k
               /\ \A i \in 1..(Len(s) - k) : SubSeq(s, k + 1, Len(s))[i] = s[k + i]
    <3>1. Len(s) \in Nat
      OBVIOUS
    <3>2. SubSeq(s, 1, k) \in Seq(Frame) /\ Len(SubSeq(s, 1, k)) = k
      BY <2>2, <3>1
    <3>3. \A i \in 1..k : SubSeq(s, 1, k)[i] = s[i]
      BY <2>2, <3>1
    <3>4. SubSeq(s, k + 1, Len(s)) \in Seq(Frame) /\ Len(SubSeq(s, k + 1, Len(s))) = Len(s) - k
      BY <2>2, <3>1
    <3>5. \A i \in 1..(Len(s) - k) : SubSeq(s, k + 1, Len(s))[i] = s[k + i]
      BY <2>2, <3>1
    <3> QED
      BY <3>2, <3>3, <3>4, <3>5
  <2> HIDE DEF in, L
  <2>3. in \in Seq(Frame) /\ n <= Len(in) /\ Len(in) = L + 1
    BY <1>0, <1>1, <2>1
  <2>4. /\ out \in Seq(Frame) /\ Len(out) = n /\ \A i \in 1..n : out[i] = in[i]
        /\ rest \in Seq(Frame) /\ Len(rest) = Len(in) - n /\ \A i \in 1..(Len(in) - n) : rest[i] = in[n + i]
    BY <1>0, <2>2, <2>3, Zenon
  <2> HIDE DEF out, rest
  <2>5. Len(in) - n = L + 1 - n
    BY <1>0, <2>1, <2>3
  <2> QED
    BY <2>4, <2>5
<1>3. /\ ready \in Seq(Frame) /\ Len(ready) = K + n
      /\ \A i \in 1..K : ready[i] = e.ready[i]
      /\ \A i \in 1..n : ready[K + i] = in[i]
      /\ DOMAIN ready = 1..(K + n) /\ DOMAIN rest = 1..(L + 1 - n)
  <2>1. ASSUME NEW a \in Seq(Frame), NEW b \in Seq(Frame)
        PROVE  /\ a \o b \in Seq(Frame) /\ Len(a \o b) = Len(a) + Len(b)
               /\ DOMAIN (a \o b) = 1..(Len(a) + Len(b))
               /\ \A i \in 1..Len(a) : (a \o b)[i] = a[i]
               /\ \A i \in 1..Len(b) : (a \o b)[Len(a) + i] = b[i]
    OBVIOUS
  <2>2. DOMAIN rest = 1..(L + 1 - n)
    <3> HIDE DEF in, out, rest, L
    <3> QED
      BY <1>2
  <2>3. /\ e.ready \o out \in Seq(Frame) /\ Len(e.ready \o out) = Len(e.ready) + Len(out)
        /\ DOMAIN (e.ready \o out) = 1..(Len(e.ready) + Len(out))
        /\ \A i \in 1..Len(e.ready) : (e.ready \o out)[i] = e.ready[i]
        /\ \A i \in 1..Len(out) : (e.ready \o out)[Len(e.ready) + i] = out[i]
    <3> HIDE DEF out
    <3> QED
      BY <1>0, <1>2, <2>1
  <2> HIDE DEF in, out, rest
  <2>4. \A i \in 1..n : ready[K + i] = in[i]
    BY <1>2, <2>3
  <2> QED
    BY <1>2, <2>2, <2>3, <2>4
<1>4. Encoded(e, f, n) = [inside |-> rest, ready |-> ready]
  BY DEF Encoded
<1>5. n \in 0..(L + 1)
  OBVIOUS
<1> HIDE DEF in, out, rest, ready, L, K
<1> DEFINE d == [inside |-> rest, ready |-> ready]
<1>6. d \in Encoder
  BY <1>2, <1>3 DEF Encoder
\* The places of the new buffers, each by where its frame came from.
<1>7. \A i \in DOMAIN rest : n + i \in 1..(L + 1) /\ rest[i] = in[n + i]
  <2>1. \A i \in 1..(L + 1 - n) : n + i \in 1..(L + 1)
    BY <1>0, <1>5
  <2>2. DOMAIN rest = 1..(L + 1 - n) /\ \A i \in 1..(L + 1 - n) : rest[i] = in[n + i]
    BY <1>2, <1>3
  <2> QED
    BY <2>1, <2>2, Zenon
<1>8. \A i \in DOMAIN ready : \/ i \in 1..K /\ ready[i] = e.ready[i]
                              \/ i - K \in 1..n /\ i - K \in 1..(L + 1) /\ ready[i] = in[i - K]
  <2> SUFFICES ASSUME NEW i \in 1..(K + n)
               PROVE  \/ i \in 1..K /\ ready[i] = e.ready[i]
                      \/ i - K \in 1..n /\ i - K \in 1..(L + 1) /\ ready[i] = in[i - K]
    BY <1>3
  <2>1. CASE i \in 1..K
    BY <1>3, <2>1
  <2>2. CASE i \notin 1..K
    <3>1. i - K \in 1..n /\ i - K \in 1..(L + 1) /\ K + (i - K) = i
      BY <1>0, <1>5, <2>2
    <3> QED
      BY <1>3, <3>1
  <2> QED
    BY <2>1, <2>2
<1>9. \A j \in 1..(L + 1) : \/ j \in DOMAIN e.inside /\ in[j] = e.inside[j]
                            \/ j = L + 1 /\ in[j] = f
  BY <1>0, <1>1
<1>10. Range(rest) \cup Range(ready) = Range(e.inside) \cup Range(e.ready) \cup {f}
  <2>1. ASSUME NEW i \in DOMAIN rest PROVE rest[i] \in Range(e.inside) \cup {f}
    BY <1>7, <1>9 DEF Range
  <2>2. ASSUME NEW i \in DOMAIN ready PROVE ready[i] \in Range(e.inside) \cup Range(e.ready) \cup {f}
    BY <1>1, <1>8, <1>9 DEF Range
  <2>3. ASSUME NEW j \in 1..(L + 1) PROVE in[j] \in Range(rest) \cup Range(ready)
    <3>1. CASE j \in 1..n
      <4>1. K + j \in DOMAIN ready /\ ready[K + j] = in[j]
        BY <1>0, <1>3, <3>1
      <4> QED
        BY <4>1 DEF Range
    <3>2. CASE j \notin 1..n
      <4>1. j - n \in DOMAIN rest /\ n + (j - n) = j
        BY <1>0, <1>3, <3>2
      <4> QED
        BY <1>7, <4>1 DEF Range
    <3> QED
      BY <3>1, <3>2
  <2>4. ASSUME NEW j \in DOMAIN e.inside PROVE e.inside[j] \in Range(rest) \cup Range(ready)
    <3>1. j \in 1..(L + 1) /\ in[j] = e.inside[j]
      BY <1>0, <1>1
    <3> QED
      BY <2>3, <3>1
  <2>5. f \in Range(rest) \cup Range(ready)
    <3>1. L + 1 \in 1..(L + 1) /\ in[L + 1] = f
      BY <1>0, <1>1
    <3> QED
      BY <2>3, <3>1
  <2>6. ASSUME NEW j \in DOMAIN e.ready PROVE e.ready[j] \in Range(ready)
    <3>1. j \in DOMAIN ready /\ ready[j] = e.ready[j]
      BY <1>0, <1>1, <1>3
    <3> QED
      BY <3>1 DEF Range
  <2>7. Range(rest) \cup Range(ready) \subseteq Range(e.inside) \cup Range(e.ready) \cup {f}
    BY <2>1, <2>2 DEF Range
  <2>8. Range(e.inside) \cup Range(e.ready) \cup {f} \subseteq Range(rest) \cup Range(ready)
    BY <2>4, <2>5, <2>6 DEF Range
  <2> QED
    BY <2>7, <2>8
<1>11. ASSUME Once(e), f \notin Range(e.inside) \cup Range(e.ready) PROVE Once(d)
  <2>1. \A i, j \in 1..(L + 1) : in[i] = in[j] => i = j
    BY <1>9, <1>11 DEF Once, IsInjective, Range
  <2>2. \A i \in 1..(L + 1), j \in 1..K : in[i] # e.ready[j]
    <3>1. \A i \in 1..(L + 1) : in[i] \in Range(e.inside) \cup {f}
      BY <1>9 DEF Range
    <3>2. \A j \in 1..K : e.ready[j] \in Range(e.ready)
      BY <1>1 DEF Range
    <3> QED
      BY <1>11, <3>1, <3>2 DEF Once
  <2>3. \A i, j \in 1..K : e.ready[i] = e.ready[j] => i = j
    BY <1>1, <1>11 DEF Once, IsInjective
  <2>4. \A i, j \in DOMAIN rest : rest[i] = rest[j] => i = j
    <3> SUFFICES ASSUME NEW i \in DOMAIN rest, NEW j \in DOMAIN rest, rest[i] = rest[j] PROVE i = j
      OBVIOUS
    <3>1. n + i = n + j
      BY <1>7, <2>1
    <3> QED
      BY <1>0, <1>3, <3>1
  <2>5. \A i, j \in DOMAIN ready : ready[i] = ready[j] => i = j
    <3> SUFFICES ASSUME NEW i \in DOMAIN ready, NEW j \in DOMAIN ready, ready[i] = ready[j] PROVE i = j
      OBVIOUS
    <3>1. i = j \/ i - K = j - K
      BY <1>8, <2>1, <2>2, <2>3
    <3> QED
      BY <1>0, <1>3, <3>1
  <2>6. \A i \in DOMAIN rest, j \in DOMAIN ready : rest[i] # ready[j]
    <3> SUFFICES ASSUME NEW i \in DOMAIN rest, NEW j \in DOMAIN ready, rest[i] = ready[j] PROVE FALSE
      OBVIOUS
    <3>1. j - K \in 1..n /\ n + i = j - K
      BY <1>7, <1>8, <2>1, <2>2
    <3> QED
      BY <1>0, <1>3, <3>1
  <2> QED
    BY <2>4, <2>5, <2>6 DEF Once, IsInjective, Range
<1>12. n = L + 1 => rest = <<>>
  BY <1>0, <1>2
<1>13. ASSUME e.inside = <<>>, e.ready = <<>>, n = 1 PROVE ready = <<f>>
  <2>1. L = 0 /\ K = 0
    BY <1>13 DEF L, K
  <2>2. Len(ready) = 1 /\ ready[1] = f
    BY <1>1, <1>3, <1>13, <2>1
  <2>3. \A s \in Seq(Frame) : Len(s) = 1 /\ s[1] = f => s = <<f>>
    OBVIOUS
  <2> QED
    BY <1>3, <2>2, <2>3
<1> QED
  BY <1>4, <1>6, <1>10, <1>11, <1>12, <1>13 DEF L

\* What an encoder holds after its latest packet was taken.
LEMMA PoppedHolds ==
    ASSUME NEW e \in Encoder, e.ready # <<>>
    PROVE  LET d == Popped(e)
               x == Last(e.ready)
           IN  /\ d \in Encoder /\ x \in Frame
               /\ x \in Range(e.ready)
               /\ Range(d.inside) \cup Range(d.ready) \subseteq Range(e.inside) \cup Range(e.ready)
               /\ Range(e.inside) \cup Range(e.ready) \subseteq Range(d.inside) \cup Range(d.ready) \cup {x}
               /\ d.inside = e.inside
               /\ Once(e) => Once(d) /\ x \notin Range(d.inside) \cup Range(d.ready)
               /\ Len(e.ready) = 1 => d.ready = <<>>
<1> DEFINE K == Len(e.ready)
           front == SubSeq(e.ready, 1, K - 1)
           x == e.ready[K]
           d == [inside |-> e.inside, ready |-> front]
<1>0. e.inside \in Seq(Frame) /\ e.ready \in Seq(Frame) /\ K \in Nat /\ K > 0
      /\ DOMAIN e.ready = 1..K /\ K - 1 \in Nat /\ K \in 1..K
  BY DEF Encoder
<1>1. front \in Seq(Frame) /\ Len(front) = K - 1 /\ \A i \in 1..(K - 1) : front[i] = e.ready[i]
  <2> HIDE DEF K
  <2>1. K = Len(e.ready)
    BY DEF K
  <2> QED
    BY <1>0, <2>1
<1>2. DOMAIN front = 1..(K - 1)
  BY <1>1
<1>3. Popped(e) = d /\ Last(e.ready) = x
  <2>1. e = [inside |-> e.inside, ready |-> e.ready]
    BY DEF Encoder
  <2>2. Front(e.ready) = front /\ Last(e.ready) = x
    BY DEF Front, Last
  <2> HIDE DEF front
  <2>3. Popped(e) = d
    BY <2>1, <2>2 DEF Popped
  <2> QED
    BY <2>2, <2>3
<1> HIDE DEF front, K
<1>4. d \in Encoder /\ x \in Frame /\ x \in Range(e.ready)
  BY <1>0, <1>1 DEF Encoder, Range
<1>5. Range(front) \subseteq Range(e.ready) /\ Range(e.ready) \subseteq Range(front) \cup {x}
  <2>1. \A i \in 1..K : i \in 1..(K - 1) \/ i = K
    BY <1>0
  <2>2. 1..(K - 1) \subseteq 1..K
    BY <1>0
  <2> QED
    BY <1>0, <1>1, <1>2, <2>1, <2>2 DEF Range
<1>6. ASSUME Once(e) PROVE Once(d) /\ x \notin Range(e.inside) \cup Range(front)
  <2>1. \A i, j \in 1..K : e.ready[i] = e.ready[j] => i = j
    BY <1>0, <1>6 DEF Once, IsInjective
  <2>2. \A i, j \in DOMAIN front : front[i] = front[j] => i = j
    BY <1>0, <1>1, <1>2, <2>1
  <2>3. \A i \in DOMAIN front : front[i] # x
    <3> SUFFICES ASSUME NEW i \in 1..(K - 1), front[i] = x PROVE FALSE
      BY <1>2
    <3>1. i = K
      BY <1>0, <1>1, <2>1
    <3> QED
      BY <1>0, <3>1
  <2>4. x \notin Range(e.inside)
    BY <1>4, <1>6 DEF Once
  <2>5. Range(e.inside) \cap Range(front) = {}
    BY <1>5, <1>6 DEF Once
  <2> QED
    BY <1>6, <2>2, <2>3, <2>4, <2>5 DEF Once, IsInjective, Range
<1>7. K = 1 => front = <<>>
  BY <1>1
<1> QED
  BY <1>3, <1>4, <1>5, <1>6, <1>7 DEF K

LEMMA WriterInitTyped == WriterInit => WriterTypeOK
<1> SUFFICES ASSUME WriterInit PROVE WriterTypeOK
  OBVIOUS
<1>1. at \in [Writers -> {"idle", "look", "init", "push", "pull", "send"}]
  BY DEF WriterInit, Unused
<1>2. frame \in [Writers -> Frame \cup {0}] /\ packet \in [Writers -> Frame \cup {0}]
  BY DEF WriterInit, Unused
<1>3. encoder \in [Writers -> Encoder \cup {NoEncoder}]
  BY DEF WriterInit, Unused
<1>4. calls \in 0..MaxWrites
  BY WriterConstantsOK DEF WriterInit, Unused
<1>5. track \in Seq(Frame) /\ overlapped \in BOOLEAN /\ stack \in Stacks
  <2>1. track \in Seq(Frame)
    BY DEF WriterInit, Unused
  <2>2. overlapped \in BOOLEAN /\ stack \in Stacks
    BY DEF WriterInit, Unused
  <2> QED
    BY <2>1, <2>2
<1>6. accepted \cup spilt \cup gone \subseteq Frame
  BY DEF WriterInit, Unused
<1> QED
  BY <1>1, <1>2, <1>3, <1>4, <1>5, <1>6 DEF WriterTypeOK

LEMMA HandleOK ==
    ASSUME WriterTypeOK, NEW w \in Writers
    PROVE  Handle(w) \in Writers
<1>1. stack.handle \in Handles
  BY DEF WriterTypeOK, Stacks
<1>2. (CHOOSE h \in Writers : TRUE) \in Writers
  BY WriterConstantsOK
<1> QED
  BY <1>1, <1>2 DEF Handles, Handle

\* Who has what: a packet only on its way to the track, an encoder from its
\* look-up on; webrtc-sys has neither.
HandsOK ==
    /\ \A w \in Writers : packet[w] # 0 <=> at[w] = "send"
    /\ \A w \in Writers : at[w] # "idle" => frame[w] # 0
    /\ stack.backend = "rs" =>
          \A w \in Writers : at[w] \in {"push", "pull", "send"} => encoder[Handle(w)] # NoEncoder
    /\ stack.backend = "sys" =>
          \A w \in Writers : at[w] \in {"idle", "look"} /\ encoder[w] = NoEncoder

LEMMA FreshOK == Fresh \in Encoder /\ Fresh # NoEncoder /\ Held(Fresh) = {} /\ Held(NoEncoder) = {} /\ Once(Fresh)
<1>1. Fresh \in Encoder /\ Fresh.inside = <<>> /\ Fresh.ready = <<>>
  BY DEF Fresh, Encoder
<1>2. Range(<<>>) = {} /\ IsInjective(<<>>)
  BY DEF Range, IsInjective
<1> QED
  BY <1>1, <1>2, WriterConstantsOK DEF Held, Once

\* What a step finds in the encoder it works on.
LEMMA AtWork ==
    ASSUME WriterTypeOK, HandsOK, NEW w \in Writers, at[w] \in {"init", "push", "pull", "send"}
    PROVE  /\ stack.backend = "rs" /\ Handle(w) \in Writers /\ frame[w] \in Frame
           /\ at[w] # "init" => encoder[Handle(w)] \in Encoder /\ encoder[Handle(w)] # NoEncoder
<1>1. stack.backend \in {"rs", "sys"}
  BY DEF WriterTypeOK, Stacks
<1> QED
  BY <1>1, HandleOK DEF HandsOK, WriterTypeOK

LEMMA HeldOf ==
    ASSUME NEW e, e \in Encoder
    PROVE  Held(e) = Range(e.inside) \cup Range(e.ready)
  BY WriterConstantsOK DEF Held

\* The steps at an encoder, by what they change.
LEMMA PushDoes ==
    ASSUME WriterTypeOK, HandsOK, NEW w \in Writers, Push(w)
    PROVE  \E e \in Encoder :
              /\ encoder' = [encoder EXCEPT ![Handle(w)] = e] /\ e # NoEncoder
              /\ Held(e) = Held(encoder[Handle(w)]) \cup {frame[w]}
              /\ Once(encoder[Handle(w)]) /\ frame[w] \notin Held(encoder[Handle(w)]) => Once(e)
              /\ stack.prompt => e.inside = <<>>
              /\ stack.prompt /\ encoder[Handle(w)].inside = <<>> /\ encoder[Handle(w)].ready = <<>>
                    => e.ready = <<frame[w]>>
<1> DEFINE h == Handle(w)
           e0 == encoder[h]
<1>1. e0 \in Encoder /\ h \in Writers /\ frame[w] \in Frame
  BY AtWork DEF Push
<1>2. PICK n \in InTime(e0) : encoder' = [encoder EXCEPT ![h] = Encoded(@, frame[w], n)]
  BY DEF Push
<1>3. n \in 0..(Len(e0.inside) + 1) /\ (stack.prompt => n = Len(e0.inside) + 1)
  <2>1. Len(e0.inside) \in Nat
    BY <1>1 DEF Encoder
  <2> QED
    BY <1>2, <2>1 DEF InTime
<1> DEFINE e == Encoded(e0, frame[w], n)
<1>4. encoder' = [encoder EXCEPT ![h] = e]
  BY <1>1, <1>2 DEF WriterTypeOK
<1> HIDE DEF e0, h
<1>5. /\ e \in Encoder
      /\ Range(e.inside) \cup Range(e.ready) = Range(e0.inside) \cup Range(e0.ready) \cup {frame[w]}
      /\ Once(e0) /\ frame[w] \notin Range(e0.inside) \cup Range(e0.ready) => Once(e)
      /\ n = Len(e0.inside) + 1 => e.inside = <<>>
      /\ e0.inside = <<>> /\ e0.ready = <<>> /\ n = 1 => e.ready = <<frame[w]>>
  BY <1>1, <1>3, EncodedHolds
<1>6. e0.inside = <<>> => Len(e0.inside) + 1 = 1
  OBVIOUS
<1> HIDE DEF e
<1>7. Held(e) = Held(e0) \cup {frame[w]} /\ Held(e0) = Range(e0.inside) \cup Range(e0.ready) /\ e # NoEncoder
  BY <1>1, <1>5, HeldOf, WriterConstantsOK
<1> QED
  BY <1>3, <1>4, <1>5, <1>6, <1>7 DEF e0, h

LEMMA PullDoes ==
    ASSUME WriterTypeOK, HandsOK, NEW w \in Writers, Pull(w)
    PROVE  \/ UNCHANGED <<encoder, packet>> /\ Goes(w, "idle") /\ encoder[Handle(w)].ready = <<>>
           \/ \E e \in Encoder, x \in Frame :
                /\ encoder' = [encoder EXCEPT ![Handle(w)] = e] /\ e # NoEncoder
                /\ packet' = [packet EXCEPT ![w] = x] /\ Goes(w, "send")
                /\ x \in Held(encoder[Handle(w)])
                /\ Held(e) \subseteq Held(encoder[Handle(w)])
                /\ Held(encoder[Handle(w)]) \subseteq Held(e) \cup {x}
                /\ Once(encoder[Handle(w)]) => Once(e) /\ x \notin Held(e)
                /\ e.inside = encoder[Handle(w)].inside
                /\ encoder[Handle(w)].ready = <<x>> \/ Len(encoder[Handle(w)].ready) # 1
                /\ Len(encoder[Handle(w)].ready) = 1 => e.ready = <<>>
<1> DEFINE h == Handle(w)
           e0 == encoder[h]
<1>1. e0 \in Encoder /\ h \in Writers
  BY AtWork DEF Pull
<1>2. CASE e0.ready = <<>>
  BY <1>2 DEF Pull
<1>3. CASE e0.ready # <<>>
  <2> DEFINE e == Popped(e0)
             x == Last(e0.ready)
  <2>1. packet' = [packet EXCEPT ![w] = x] /\ encoder' = [encoder EXCEPT ![h] = e] /\ Goes(w, "send")
    BY <1>1, <1>3 DEF Pull, WriterTypeOK
  <2>2. Len(e0.ready) = 1 => e0.ready = <<x>>
    <3>1. e0.ready \in Seq(Frame)
      BY <1>1 DEF Encoder
    <3>2. \A s \in Seq(Frame) : Len(s) = 1 => s = <<s[Len(s)]>>
      OBVIOUS
    <3> QED
      BY <3>1, <3>2 DEF Last
  <2> HIDE DEF e0, h
  <2>3. /\ e \in Encoder /\ x \in Frame /\ x \in Range(e0.ready)
        /\ Range(e.inside) \cup Range(e.ready) \subseteq Range(e0.inside) \cup Range(e0.ready)
        /\ Range(e0.inside) \cup Range(e0.ready) \subseteq Range(e.inside) \cup Range(e.ready) \cup {x}
        /\ e.inside = e0.inside
        /\ Once(e0) => Once(e) /\ x \notin Range(e.inside) \cup Range(e.ready)
        /\ Len(e0.ready) = 1 => e.ready = <<>>
    BY <1>1, <1>3, PoppedHolds
  <2> HIDE DEF e, x
  <2>4. /\ Held(e) = Range(e.inside) \cup Range(e.ready) /\ Held(e0) = Range(e0.inside) \cup Range(e0.ready)
        /\ e # NoEncoder
    BY <1>1, <2>3, HeldOf, WriterConstantsOK
  <2>5. e.inside = e0.inside /\ (e0.ready = <<x>> \/ Len(e0.ready) # 1)
    BY <2>2, <2>3
  <2> QED
    BY <2>1, <2>3, <2>4, <2>5 DEF e0, h
<1> QED
  BY <1>2, <1>3

LEMMA WriterTypeStep == WriterTypeOK /\ HandsOK /\ [WriterNext]_writerVars => WriterTypeOK' /\ HandsOK'
<1> SUFFICES ASSUME WriterTypeOK, HandsOK, [WriterNext]_writerVars PROVE WriterTypeOK' /\ HandsOK'
  OBVIOUS
<1> DEFINE Places == {"idle", "look", "init", "push", "pull", "send"}
           Frames == Frame \cup {0}
           Encoders == Encoder \cup {NoEncoder}
<1>0. /\ at \in [Writers -> Places] /\ frame \in [Writers -> Frames] /\ packet \in [Writers -> Frames]
      /\ encoder \in [Writers -> Encoders] /\ track \in Seq(Frame)
      /\ stack.backend \in {"rs", "sys"} /\ stack \in Stacks
  BY DEF WriterTypeOK, Stacks
<1>a. ASSUME stack' = stack, at' \in [Writers -> Places], frame' \in [Writers -> Frames], packet' \in [Writers -> Frames],
             encoder' \in [Writers -> Encoders], calls' \in 0..MaxWrites, track' \in Seq(Frame),
             accepted' \cup spilt' \cup gone' \subseteq Frame, overlapped' \in BOOLEAN
      PROVE  WriterTypeOK'
  BY <1>0, <1>a DEF WriterTypeOK
<1>b. UNCHANGED stack => \A v \in Writers : Handle(v)' = Handle(v) /\ Handle(v) \in Writers
  BY HandleOK DEF Handle
<1>c. {"look", "init", "push", "pull", "send", "idle"} \subseteq Places /\ 0 \in Frames
  OBVIOUS
<1>d. calls \in 0..MaxWrites /\ accepted \cup spilt \cup gone \subseteq Frame /\ overlapped \in BOOLEAN
  BY DEF WriterTypeOK
\* A place that is left for another.
<1>e. ASSUME NEW w \in Writers, NEW st \in Places, Goes(w, st)
      PROVE  at' \in [Writers -> Places] /\ \A v \in Writers : at'[v] = IF v = w THEN st ELSE at[v]
  <2> HIDE DEF Places
  <2> QED
    BY <1>0, <1>e DEF Goes
<1>1. ASSUME NEW w \in Writers, Call(w) PROVE WriterTypeOK' /\ HandsOK'
  <2>1. calls + 1 \in 1..MaxWrites
    BY <1>1, <1>d, WriterConstantsOK DEF Call
  <2>2. frame' \in [Writers -> Frames]
    BY <1>0, <1>1, <2>1 DEF Call, Frame
  <2>3. at' \in [Writers -> Places] /\ \A v \in Writers : at'[v] = IF v = w THEN "look" ELSE at[v]
    BY <1>1, <1>c, <1>e DEF Call
  <2>4. calls' \in 0..MaxWrites /\ overlapped' \in BOOLEAN
    BY <1>1, <2>1, <1>d DEF Call
  <2>5. UNCHANGED <<stack, packet, encoder, track, accepted, spilt, gone>> /\ at[w] = "idle"
    BY <1>1 DEF Call
  <2>6. WriterTypeOK'
    BY <1>0, <1>a, <1>d, <2>2, <2>3, <2>4, <2>5
  <2>7. \A v \in Writers : frame'[v] = IF v = w THEN calls + 1 ELSE frame[v]
    BY <1>0, <1>1 DEF Call
  <2>8. calls + 1 # 0
    BY <2>1
  <2> QED
    BY <1>b, <2>3, <2>5, <2>6, <2>7, <2>8 DEF HandsOK
<1>2. ASSUME NEW w \in Writers, Capture(w) PROVE WriterTypeOK' /\ HandsOK'
  <2>1. at' \in [Writers -> Places] /\ \A v \in Writers : at'[v] = IF v = w THEN "idle" ELSE at[v]
    BY <1>2, <1>c, <1>e DEF Capture
  <2>2. UNCHANGED <<stack, frame, packet, encoder, calls, accepted, spilt, gone, overlapped>>
        /\ at[w] = "look" /\ stack.backend = "sys"
    BY <1>2 DEF Capture
  <2> HIDE DEF Places
  <2>3. CASE UNCHANGED track
    <3>1. WriterTypeOK'
      BY <1>0, <1>a, <1>d, <2>1, <2>2, <2>3
    <3> QED
      BY <2>1, <2>2, <3>1 DEF HandsOK
  <2>4. CASE track' = Append(track, frame[w]) /\ frame[w] \in Frame
    <3>1. track' \in Seq(Frame)
      BY <1>0, <2>4
    <3>2. WriterTypeOK'
      BY <1>0, <1>a, <1>d, <2>1, <2>2, <3>1
    <3> QED
      BY <2>1, <2>2, <3>2 DEF HandsOK
  <2>5. frame[w] \in Frame
    BY <1>0, <2>2 DEF HandsOK
  <2> QED
    BY <1>2, <2>3, <2>4, <2>5 DEF Capture
<1>3. ASSUME NEW w \in Writers, Look(w) \/ Fails(w) PROVE WriterTypeOK' /\ HandsOK'
  <2>1. PICK st \in {"init", "push", "idle"} :
           /\ Goes(w, st) /\ at[w] \in {"look", "init", "push"}
           /\ st = "push" => encoder[Handle(w)] # NoEncoder
           /\ stack.backend = "sys" => FALSE
    <3>1. CASE Look(w)
      BY <3>1 DEF Look, AfterLook
    <3>2. CASE Fails(w)
      BY <1>0, <3>2, AtWork DEF Fails
    <3> QED
      BY <1>3, <3>1, <3>2
  <2>2. at' \in [Writers -> Places] /\ \A v \in Writers : at'[v] = IF v = w THEN st ELSE at[v]
    BY <2>1, <1>c, <1>e
  <2>3. UNCHANGED <<stack, frame, packet, encoder, calls, track, accepted, spilt, gone, overlapped>>
    BY <1>3 DEF Look, Fails
  <2>4. WriterTypeOK'
    BY <1>0, <1>a, <1>d, <2>2, <2>3
  <2> QED
    BY <1>b, <2>1, <2>2, <2>3, <2>4 DEF HandsOK
<1>4. ASSUME NEW w \in Writers, InitEncoder(w) PROVE WriterTypeOK' /\ HandsOK'
  <2>1. at' \in [Writers -> Places] /\ \A v \in Writers : at'[v] = IF v = w THEN "push" ELSE at[v]
    BY <1>4, <1>c, <1>e DEF InitEncoder
  <2>2. UNCHANGED <<stack, frame, packet, calls, track, accepted, spilt, overlapped>> /\ at[w] = "init"
        /\ gone' = gone \cup Held(encoder[Handle(w)])
    BY <1>4 DEF InitEncoder
  <2>3. Handle(w) \in Writers /\ stack.backend = "rs"
    BY <1>4, AtWork DEF InitEncoder
  <2>4. /\ encoder' \in [Writers -> Encoders] /\ encoder'[Handle(w)] # NoEncoder
        /\ \A h \in Writers : h # Handle(w) => encoder'[h] = encoder[h]
    BY <1>0, <1>4, <2>3, FreshOK DEF InitEncoder
  <2>5. Held(encoder[Handle(w)]) \subseteq Frame
    <3>1. \A e \in Encoder : Range(e.inside) \cup Range(e.ready) \subseteq Frame
      BY DEF Encoder, Range
    <3> QED
      BY <1>0, <2>3, <3>1 DEF Held
  <2>6. WriterTypeOK'
    BY <1>0, <1>a, <1>d, <2>1, <2>2, <2>4, <2>5
  <2> QED
    <3>1. \A v \in Writers : at'[v] # "idle" => frame'[v] # 0
      BY <2>1, <2>2 DEF HandsOK
    <3>2. \A v \in Writers : packet'[v] # 0 <=> at'[v] = "send"
      BY <2>1, <2>2 DEF HandsOK
    <3>3. \A v \in Writers : at'[v] \in {"push", "pull", "send"} => encoder'[Handle(v)'] # NoEncoder
      BY <1>b, <2>1, <2>2, <2>3, <2>4 DEF HandsOK
    <3>4. stack'.backend # "sys"
      BY <2>2, <2>3
    <3>5. HandsOK'
      BY <3>1, <3>2, <3>3, <3>4 DEF HandsOK
    <3> QED
      BY <2>6, <3>5
<1>5. ASSUME NEW w \in Writers, Push(w) PROVE WriterTypeOK' /\ HandsOK'
  <2>1. at' \in [Writers -> Places] /\ \A v \in Writers : at'[v] = IF v = w THEN "pull" ELSE at[v]
    BY <1>5, <1>c, <1>e DEF Push
  <2>2. UNCHANGED <<stack, frame, packet, calls, track, spilt, gone, overlapped>> /\ at[w] = "push"
        /\ accepted' = accepted \cup {frame[w]}
    BY <1>5 DEF Push
  <2>3. Handle(w) \in Writers /\ stack.backend = "rs" /\ frame[w] \in Frame
    BY <2>2, AtWork
  <2>4. PICK e \in Encoder : encoder' = [encoder EXCEPT ![Handle(w)] = e] /\ e # NoEncoder
    BY <1>5, PushDoes
  <2>5. /\ encoder' \in [Writers -> Encoders] /\ encoder'[Handle(w)] # NoEncoder
        /\ \A h \in Writers : h # Handle(w) => encoder'[h] = encoder[h]
    BY <1>0, <2>3, <2>4
  <2>6. WriterTypeOK'
    BY <1>0, <1>a, <1>d, <2>1, <2>2, <2>3, <2>5
  <2> QED
    <3>1. \A v \in Writers : at'[v] # "idle" => frame'[v] # 0
      BY <2>1, <2>2 DEF HandsOK
    <3>2. \A v \in Writers : packet'[v] # 0 <=> at'[v] = "send"
      BY <2>1, <2>2 DEF HandsOK
    <3>3. \A v \in Writers : at'[v] \in {"push", "pull", "send"} => encoder'[Handle(v)'] # NoEncoder
      BY <1>b, <2>1, <2>2, <2>3, <2>5 DEF HandsOK
    <3>4. stack'.backend # "sys"
      BY <2>2, <2>3
    <3>5. HandsOK'
      BY <3>1, <3>2, <3>3, <3>4 DEF HandsOK
    <3> QED
      BY <2>6, <3>5
<1>6. ASSUME NEW w \in Writers, Pull(w) PROVE WriterTypeOK' /\ HandsOK'
  <2>1. UNCHANGED <<stack, frame, calls, track, accepted, spilt, gone, overlapped>> /\ at[w] = "pull"
    BY <1>6 DEF Pull
  <2>2. Handle(w) \in Writers /\ stack.backend = "rs"
    BY <2>1, AtWork
  <2>3. CASE UNCHANGED <<encoder, packet>> /\ Goes(w, "idle")
    <3>1. at' \in [Writers -> Places] /\ \A v \in Writers : at'[v] = IF v = w THEN "idle" ELSE at[v]
      BY <2>3, <1>c, <1>e
    <3>2. WriterTypeOK'
      BY <1>0, <1>a, <1>d, <2>1, <2>3, <3>1
    <3> QED
      BY <1>b, <2>1, <2>2, <2>3, <3>1, <3>2 DEF HandsOK
  <2>4. ASSUME NEW e \in Encoder, NEW x \in Frame, e # NoEncoder,
               encoder' = [encoder EXCEPT ![Handle(w)] = e],
               packet' = [packet EXCEPT ![w] = x], Goes(w, "send")
        PROVE  WriterTypeOK' /\ HandsOK'
    <3>1. at' \in [Writers -> Places] /\ \A v \in Writers : at'[v] = IF v = w THEN "send" ELSE at[v]
      BY <2>4, <1>c, <1>e
    <3>2. /\ encoder' \in [Writers -> Encoders] /\ encoder'[Handle(w)] # NoEncoder
          /\ \A h \in Writers : h # Handle(w) => encoder'[h] = encoder[h]
      BY <1>0, <2>2, <2>4
    <3>3. packet' \in [Writers -> Frames] /\ \A v \in Writers : packet'[v] = IF v = w THEN x ELSE packet[v]
      <4>1. x \in Frames
        OBVIOUS
      <4> HIDE DEF Frames
      <4> QED
        BY <1>0, <2>4, <4>1
    <3>4. WriterTypeOK'
      BY <1>0, <1>a, <1>d, <2>1, <3>1, <3>2, <3>3
    <3>5. x # 0
      BY DEF Frame
    <3> QED
      BY <1>b, <2>1, <2>2, <3>1, <3>2, <3>3, <3>4, <3>5 DEF HandsOK
  <2> QED
    BY <1>6, <2>3, <2>4, PullDoes
<1>7. ASSUME NEW w \in Writers, Send(w) PROVE WriterTypeOK' /\ HandsOK'
  <2>1. PICK st \in {"pull", "idle"} : Goes(w, st)
    BY <1>7 DEF Send
  <2>2. at' \in [Writers -> Places] /\ \A v \in Writers : at'[v] = IF v = w THEN st ELSE at[v]
    BY <2>1, <1>c, <1>e
  <2>3. UNCHANGED <<stack, frame, encoder, calls, accepted, gone, overlapped>> /\ at[w] = "send"
        /\ packet' = [packet EXCEPT ![w] = 0]
    BY <1>7 DEF Send
  <2>4. packet[w] \in Frame
    BY <1>0, <2>3 DEF HandsOK
  <2>5. packet' \in [Writers -> Frames] /\ \A v \in Writers : packet'[v] = IF v = w THEN 0 ELSE packet[v]
    <3> HIDE DEF Frames
    <3> QED
      BY <1>0, <1>c, <2>3
  <2>6. track' \in Seq(Frame) /\ spilt' \subseteq Frame
    <3>1. CASE track' = Append(track, packet[w]) /\ UNCHANGED spilt
      <4>1. track' \in Seq(Frame)
        BY <1>0, <2>4, <3>1
      <4> QED
        BY <1>d, <3>1, <4>1
    <3>2. CASE spilt' = spilt \cup {packet[w]} /\ UNCHANGED track
      BY <1>0, <1>d, <2>4, <3>2
    <3> QED
      BY <1>7, <3>1, <3>2 DEF Send
  <2>7. WriterTypeOK'
    BY <1>0, <1>a, <1>d, <2>2, <2>3, <2>5, <2>6
  <2>8. stack.backend = "rs"
    BY <2>3, AtWork
  <2> QED
    BY <1>b, <2>2, <2>3, <2>5, <2>7, <2>8 DEF HandsOK
<1>8. CASE UNCHANGED writerVars
  BY <1>8 DEF writerVars, WriterTypeOK, HandsOK, Handle
<1> QED
  BY <1>1, <1>2, <1>3, <1>4, <1>5, <1>6, <1>7, <1>8 DEF WriterNext

Busy(w) == at[w] # "idle"

\* The calls are apart: no two in progress have the same frame, and a frame on
\* its way to the encoder is one that no encoder has taken.
CallsApart ==
    /\ \A w \in Writers : frame[w] <= calls
    /\ \A w \in Writers : at[w] \in {"look", "init", "push"} => frame[w] \notin accepted
    /\ \A v, w \in Writers : v # w /\ Busy(v) /\ Busy(w) => frame[v] # frame[w]
    /\ accepted \subseteq 1..calls

\* Until calls overlap there is at most one, the latest; and it makes an encoder
\* only where there is none.
Alone ==
    ~overlapped =>
        /\ \A v, w \in Writers : Busy(v) /\ Busy(w) => v = w
        /\ \A w \in Writers : Busy(w) => frame[w] = calls
        /\ \A w \in Writers : at[w] = "init" => encoder[Handle(w)] = NoEncoder

\* The steps that neither begin a call nor give a frame to an encoder.
LEMMA Moves ==
    ASSUME WriterTypeOK, HandsOK, NEW w \in Writers,
           Capture(w) \/ Look(w) \/ InitEncoder(w) \/ Fails(w) \/ Pull(w) \/ Send(w)
    PROVE  /\ UNCHANGED <<stack, frame, calls, accepted, overlapped>> /\ Busy(w)
           /\ \E st \in {"idle", "init", "push", "pull", "send"} :
                 /\ \A v \in Writers : at'[v] = IF v = w THEN st ELSE at[v]
                 /\ st \in {"init", "push"} => at[w] \in {"look", "init", "push"}
                 /\ st = "init" => encoder[Handle(w)] = NoEncoder /\ UNCHANGED encoder
<1>1. UNCHANGED <<stack, frame, calls, accepted, overlapped>> /\ Busy(w)
  BY DEF Capture, Look, InitEncoder, Fails, Pull, Send, Busy
<1>2. ASSUME NEW st, Goes(w, st) PROVE \A v \in Writers : at'[v] = IF v = w THEN st ELSE at[v]
  BY <1>2 DEF Goes, WriterTypeOK
<1>3. PICK st \in {"idle", "init", "push", "pull", "send"} :
         /\ Goes(w, st)
         /\ st \in {"init", "push"} => at[w] \in {"look", "init", "push"}
         /\ st = "init" => encoder[Handle(w)] = NoEncoder /\ UNCHANGED encoder
  <2>1. CASE Capture(w)
    BY <2>1 DEF Capture
  <2>2. CASE Look(w)
    BY <2>2 DEF Look, AfterLook
  <2>3. CASE InitEncoder(w)
    BY <2>3 DEF InitEncoder
  <2>4. CASE Fails(w)
    BY <2>4 DEF Fails
  <2>5. CASE Pull(w)
    BY <2>5 DEF Pull
  <2>6. CASE Send(w)
    BY <2>6 DEF Send
  <2> QED
    BY <2>1, <2>2, <2>3, <2>4, <2>5, <2>6
<1> QED
  BY <1>1, <1>2, <1>3

\* What a new call changes.
LEMMA CallDoes ==
    ASSUME WriterTypeOK, NEW w \in Writers, Call(w)
    PROVE  /\ UNCHANGED <<stack, packet, encoder, track, accepted, spilt, gone>>
           /\ ~Busy(w) /\ calls' = calls + 1
           /\ \A v \in Writers : at'[v] = IF v = w THEN "look" ELSE at[v]
           /\ \A v \in Writers : frame'[v] = IF v = w THEN calls + 1 ELSE frame[v]
           /\ ~overlapped' => ~overlapped /\ \A v \in Writers : ~Busy(v)
  BY DEF Call, WriterTypeOK, Goes, Busy

\* What giving a frame to the encoder changes.
LEMMA PushMoves ==
    ASSUME WriterTypeOK, NEW w \in Writers, Push(w)
    PROVE  /\ UNCHANGED <<stack, frame, packet, calls, track, spilt, gone, overlapped>>
           /\ at[w] = "push" /\ Busy(w) /\ accepted' = accepted \cup {frame[w]}
           /\ \A v \in Writers : at'[v] = IF v = w THEN "pull" ELSE at[v]
  BY DEF Push, WriterTypeOK, Goes, Busy

LEMMA CallsApartStep ==
    WriterTypeOK /\ HandsOK /\ CallsApart /\ [WriterNext]_writerVars => CallsApart'
<1> SUFFICES ASSUME WriterTypeOK, HandsOK, CallsApart, [WriterNext]_writerVars PROVE CallsApart'
  OBVIOUS
<1>0. calls \in Nat /\ (\A w \in Writers : frame[w] \in Nat) /\ accepted \subseteq Nat
  BY WriterConstantsOK DEF WriterTypeOK, Frame
<1>1. ASSUME NEW w \in Writers, Call(w) PROVE CallsApart'
  <2>1. /\ UNCHANGED accepted /\ calls' = calls + 1
        /\ \A v \in Writers : at'[v] = IF v = w THEN "look" ELSE at[v]
        /\ \A v \in Writers : frame'[v] = IF v = w THEN calls + 1 ELSE frame[v]
    BY <1>1, CallDoes
  <2>2. \A v \in Writers : frame[v] <= calls
    BY DEF CallsApart
  <2>3. calls + 1 \notin accepted /\ accepted' \subseteq 1..calls'
    BY <1>0, <2>1 DEF CallsApart
  <2>4. \A v \in Writers : frame'[v] <= calls'
    BY <1>0, <2>1, <2>2
  <2>5. \A v \in Writers : at'[v] \in {"look", "init", "push"} => frame'[v] \notin accepted'
    BY <2>1, <2>3 DEF CallsApart
  <2>6. \A v \in Writers : frame[v] # calls + 1
    BY <1>0, <2>2
  <2>7. \A u, v \in Writers : u # v /\ Busy(u)' /\ Busy(v)' => frame'[u] # frame'[v]
    BY <2>1, <2>6 DEF CallsApart, Busy
  <2> QED
    BY <2>3, <2>4, <2>5, <2>7 DEF CallsApart
<1>2. ASSUME NEW w \in Writers, Push(w) PROVE CallsApart'
  <2>1. /\ UNCHANGED <<frame, calls>> /\ at[w] = "push" /\ accepted' = accepted \cup {frame[w]}
        /\ \A v \in Writers : at'[v] = IF v = w THEN "pull" ELSE at[v]
    BY <1>2, PushMoves
  <2>2. frame[w] \in 1..calls
    BY <1>0, <2>1 DEF CallsApart, HandsOK
  <2>3. Busy(w) /\ \A v \in Writers : Busy(v)' => Busy(v)
    BY <2>1 DEF Busy
  <2>4. \A v \in Writers : frame'[v] <= calls'
    BY <2>1 DEF CallsApart
  <2>5. ASSUME NEW v \in Writers, at'[v] \in {"look", "init", "push"} PROVE frame'[v] \notin accepted'
    <3>1. v # w /\ at[v] = at'[v]
      BY <2>1, <2>5
    <3>2. Busy(v) /\ frame[v] \notin accepted
      BY <2>5, <3>1 DEF CallsApart, Busy
    <3>3. frame[v] # frame[w]
      BY <2>3, <3>1, <3>2 DEF CallsApart
    <3> QED
      BY <2>1, <3>2, <3>3
  <2>6. \A u, v \in Writers : u # v /\ Busy(u)' /\ Busy(v)' => frame'[u] # frame'[v]
    BY <2>1, <2>3 DEF CallsApart
  <2>7. accepted' \subseteq 1..calls'
    BY <2>1, <2>2 DEF CallsApart
  <2> QED
    BY <2>4, <2>5, <2>6, <2>7 DEF CallsApart
<1>3. ASSUME NEW w \in Writers,
             Capture(w) \/ Look(w) \/ InitEncoder(w) \/ Fails(w) \/ Pull(w) \/ Send(w)
      PROVE  CallsApart'
  <2>1. UNCHANGED <<frame, calls, accepted>> /\ Busy(w)
    BY <1>3, Moves
  <2>2. PICK st : /\ \A v \in Writers : at'[v] = IF v = w THEN st ELSE at[v]
                  /\ st \in {"idle", "init", "push", "pull", "send"}
                  /\ st \in {"init", "push"} => at[w] \in {"look", "init", "push"}
    BY <1>3, Moves, Zenon
  <2>3. \A v \in Writers : Busy(v)' => Busy(v)
    BY <2>1, <2>2 DEF Busy
  <2>4. \A v \in Writers : at'[v] \in {"look", "init", "push"} => frame[v] \notin accepted
    <3>1. ASSUME NEW v \in Writers, at'[v] \in {"look", "init", "push"} PROVE at[v] \in {"look", "init", "push"}
      BY <2>2, <3>1
    <3> QED
      BY <3>1 DEF CallsApart
  <2> QED
    BY <2>1, <2>3, <2>4 DEF CallsApart
<1>4. CASE UNCHANGED writerVars
  BY <1>4 DEF CallsApart, Busy, writerVars
<1> QED
  BY <1>1, <1>2, <1>3, <1>4 DEF WriterNext

LEMMA AloneStep == WriterTypeOK /\ HandsOK /\ Alone /\ [WriterNext]_writerVars => Alone'
<1> SUFFICES ASSUME WriterTypeOK, HandsOK, Alone, [WriterNext]_writerVars, ~overlapped' PROVE Alone'
  BY DEF Alone
<1>1. ASSUME NEW w \in Writers, Call(w) PROVE Alone'
  BY <1>1, CallDoes DEF Alone, Busy
<1>2. ASSUME NEW w \in Writers, Push(w) PROVE Alone'
  BY <1>2, PushMoves DEF Alone, Busy
<1>3. ASSUME NEW w \in Writers,
             Capture(w) \/ Look(w) \/ InitEncoder(w) \/ Fails(w) \/ Pull(w) \/ Send(w)
      PROVE  Alone'
  BY <1>3, Moves DEF Alone, Busy, Handle
<1>4. CASE UNCHANGED writerVars
  BY <1>4 DEF Alone, Busy, Handle, writerVars
<1> QED
  BY <1>1, <1>2, <1>3, <1>4 DEF WriterNext

\* A writer whose frame may still come to the track.
Waiting(w) ==
    \/ at[w] \in {"look", "init", "push", "send"}
    \/ at[w] = "pull" /\ encoder[Handle(w)].ready # <<>>

Ordered == \A i, j \in DOMAIN track : i < j => track[i] < track[j]
Earlier == \A i \in DOMAIN track : track[i] < calls
PulledNow(h) == \E w \in Writers : Handle(w) = h /\ at[w] = "pull"

\* As long as no two calls overlap and each packet comes out in time, an encoder
\* has at most the latest frame, and only while that is being pulled.
LoneInOrder ==
    ~overlapped /\ stack.prompt =>
        /\ Ordered
        /\ \A i \in DOMAIN track : track[i] <= calls
        /\ \A w \in Writers : Waiting(w) => Earlier
        /\ \A h \in Writers : encoder[h] # NoEncoder =>
              /\ encoder[h].inside = <<>>
              /\ encoder[h].ready # <<>> => encoder[h].ready = <<calls>> /\ PulledNow(h)
        /\ \A w \in Writers : packet[w] \in {0, calls}

\* The latest frame goes to the track behind those of the earlier calls.
LEMMA WrittenLast ==
    ASSUME NEW s \in Seq(Nat), NEW x \in Nat,
           \A i, j \in DOMAIN s : i < j => s[i] < s[j],
           \A i \in DOMAIN s : s[i] < x
    PROVE  LET t == Append(s, x)
           IN  /\ \A i, j \in DOMAIN t : i < j => t[i] < t[j]
               /\ \A i \in DOMAIN t : t[i] <= x
<1> DEFINE t == Append(s, x)
           n == Len(s)
<1>1. /\ n \in Nat /\ DOMAIN s = 1..n /\ DOMAIN t = 1..(n + 1) /\ t[n + 1] = x
      /\ \A i \in 1..n : t[i] = s[i] /\ s[i] \in Nat
  OBVIOUS
<1> HIDE DEF t, n
<1>2. \A i \in 1..(n + 1) : i \in 1..n \/ i = n + 1
  BY <1>1
<1>3. \A i, j \in 1..(n + 1) : i < j => i \in 1..n
  BY <1>1
<1>4. \A i, j \in 1..(n + 1) : i < j => t[i] < t[j]
  BY <1>1, <1>2, <1>3
<1>5. \A i \in 1..(n + 1) : t[i] <= x
  <2>1. \A i \in 1..n : s[i] < x /\ t[i] = s[i] /\ s[i] \in Nat
    BY <1>1
  <2> QED
    BY <1>1, <1>2, <2>1
<1> QED
  BY <1>1, <1>4, <1>5 DEF t

LEMMA LoneInOrderStep ==
    WriterTypeOK /\ HandsOK /\ Alone /\ LoneInOrder /\ [WriterNext]_writerVars => LoneInOrder'
<1> SUFFICES ASSUME WriterTypeOK, HandsOK, Alone, LoneInOrder, [WriterNext]_writerVars,
                    ~overlapped', stack'.prompt
             PROVE  LoneInOrder'
  BY DEF LoneInOrder
<1>0. calls \in Nat /\ track \in Seq(Nat) /\ \A i \in DOMAIN track : track[i] \in Nat
  BY WriterConstantsOK DEF WriterTypeOK, Frame
<1>a. ASSUME UNCHANGED stack PROVE \A v \in Writers : Handle(v)' = Handle(v) /\ Handle(v) \in Writers
  BY <1>a, HandleOK DEF Handle
\* What the lone writer may rely on.
<1>b. ASSUME ~overlapped, UNCHANGED stack
      PROVE  /\ stack.prompt /\ Ordered
             /\ \A i \in DOMAIN track : track[i] <= calls
             /\ \A w \in Writers : Waiting(w) => Earlier
             /\ \A h \in Writers : encoder[h] # NoEncoder =>
                   /\ encoder[h].inside = <<>>
                   /\ encoder[h].ready # <<>> => encoder[h].ready = <<calls>> /\ PulledNow(h)
             /\ \A w \in Writers : packet[w] \in {0, calls}
  BY <1>b DEF LoneInOrder
<1>1. ASSUME NEW w \in Writers, Call(w) PROVE LoneInOrder'
  <2>1. /\ UNCHANGED <<stack, packet, encoder, track>> /\ calls' = calls + 1
        /\ ~overlapped /\ \A v \in Writers : at[v] = "idle"
    BY <1>1, CallDoes DEF Busy
  <2>2. \A v \in Writers : packet[v] = 0
    BY <2>1 DEF HandsOK
  <2>3. \A h \in Writers : encoder[h] # NoEncoder => encoder[h].inside = <<>> /\ encoder[h].ready = <<>>
    BY <1>b, <2>1 DEF PulledNow
  <2>4. (Earlier)' /\ Ordered' /\ \A i \in DOMAIN track : track[i] <= calls'
    BY <1>0, <1>b, <2>1 DEF Earlier, Ordered
  <2> QED
    BY <2>1, <2>2, <2>3, <2>4 DEF LoneInOrder
<1>2. ASSUME NEW w \in Writers, Capture(w) PROVE LoneInOrder'
  <2>1. UNCHANGED <<stack, frame, packet, encoder, calls, overlapped>> /\ at[w] = "look" /\ stack.backend = "sys"
    BY <1>2 DEF Capture
  <2>2. \A v \in Writers : at'[v] = IF v = w THEN "idle" ELSE at[v]
    BY <1>2 DEF Capture, Goes, WriterTypeOK
  <2>3. frame[w] = calls /\ \A v \in Writers : v # w => at[v] = "idle"
    BY <2>1 DEF Alone, Busy
  <2>4. Ordered' /\ \A i \in DOMAIN track' : track'[i] <= calls
    <3>1. CASE UNCHANGED track
      BY <1>b, <2>1, <3>1 DEF Ordered
    <3>2. CASE track' = Append(track, calls)
      <4>1. Ordered /\ Earlier
        BY <1>b, <2>1 DEF Waiting
      <4> QED
        BY <1>0, <3>2, <4>1, WrittenLast DEF Ordered, Earlier
    <3> QED
      BY <1>2, <2>3, <3>1, <3>2 DEF Capture
  <2>5. \A v \in Writers : ~Waiting(v)'
    BY <2>2, <2>3 DEF Waiting
  <2>6. \A h \in Writers : encoder[h] = NoEncoder
    BY <2>1 DEF HandsOK
  <2> QED
    BY <1>b, <2>1, <2>4, <2>5, <2>6 DEF LoneInOrder
<1>3. ASSUME NEW w \in Writers, Look(w) \/ Fails(w) PROVE LoneInOrder'
  <2>1. /\ UNCHANGED <<stack, frame, packet, encoder, calls, track, overlapped>>
        /\ at[w] \in {"look", "init", "push"}
    BY <1>3 DEF Look, Fails
  <2>2. \A v \in Writers : v # w => at'[v] = at[v] /\ at[v] = "idle"
    BY <1>3, <2>1 DEF Look, Fails, Goes, WriterTypeOK, Alone, Busy
  <2>3. Waiting(w) /\ Earlier
    BY <1>b, <2>1 DEF Waiting
  <2>4. \A h \in Writers : encoder[h] # NoEncoder => encoder[h].inside = <<>> /\ encoder[h].ready = <<>>
    BY <1>b, <2>1, <2>2 DEF PulledNow
  <2> QED
    BY <1>b, <2>1, <2>3, <2>4 DEF LoneInOrder, Ordered, Earlier
<1>4. ASSUME NEW w \in Writers, InitEncoder(w) PROVE LoneInOrder'
  <2>1. UNCHANGED <<stack, frame, packet, calls, track, overlapped>> /\ at[w] = "init"
    BY <1>4 DEF InitEncoder
  <2>2. \A v \in Writers : v # w => at[v] = "idle"
    BY <2>1 DEF Alone, Busy
  <2>3. Earlier
    BY <1>b, <2>1 DEF Waiting
  <2>4. \A h \in Writers : encoder[h] # NoEncoder => encoder[h].inside = <<>> /\ encoder[h].ready = <<>>
    BY <1>b, <2>1, <2>2 DEF PulledNow
  <2>5. \A h \in Writers : encoder'[h] = encoder[h] \/ encoder'[h] = Fresh
    BY <1>4 DEF InitEncoder, WriterTypeOK
  <2>6. Fresh.inside = <<>> /\ Fresh.ready = <<>>
    BY DEF Fresh
  <2> QED
    BY <1>b, <2>1, <2>3, <2>4, <2>5, <2>6 DEF LoneInOrder, Ordered, Earlier
<1>5. ASSUME NEW w \in Writers, Push(w) PROVE LoneInOrder'
  <2>1. /\ UNCHANGED <<stack, frame, packet, calls, track, overlapped>> /\ at[w] = "push"
        /\ \A v \in Writers : at'[v] = IF v = w THEN "pull" ELSE at[v]
    BY <1>5, PushMoves
  <2>2. frame[w] = calls /\ \A v \in Writers : v # w => at[v] = "idle"
    BY <2>1 DEF Alone, Busy
  <2>3. Earlier
    BY <1>b, <2>1 DEF Waiting
  <2>4. \A h \in Writers : encoder[h] # NoEncoder => encoder[h].inside = <<>> /\ encoder[h].ready = <<>>
    BY <1>b, <2>1, <2>2 DEF PulledNow
  <2>5. Handle(w) \in Writers /\ encoder[Handle(w)] # NoEncoder
    BY <2>1, AtWork
  <2>6. PICK e \in Encoder : /\ encoder' = [encoder EXCEPT ![Handle(w)] = e]
                             /\ e.inside = <<>> /\ e.ready = <<calls>>
    BY <1>b, <1>5, <2>1, <2>2, <2>4, <2>5, PushDoes
  <2>7. encoder'[Handle(w)] = e /\ \A h \in Writers : h # Handle(w) => encoder'[h] = encoder[h]
    BY <2>5, <2>6 DEF WriterTypeOK
  <2>8. \A h \in Writers : h = Handle(w) => PulledNow(h)'
    BY <1>a, <2>1 DEF PulledNow
  <2>9. \A h \in Writers : encoder'[h] # NoEncoder =>
           /\ encoder'[h].inside = <<>>
           /\ encoder'[h].ready # <<>> => encoder'[h].ready = <<calls>> /\ PulledNow(h)'
    <3> TAKE h \in Writers
    <3>1. CASE h = Handle(w)
      <4>1. encoder'[h] = e /\ PulledNow(h)' /\ calls' = calls
        BY <2>1, <2>7, <2>8, <3>1
      <4> QED
        BY <2>6, <4>1
    <3>2. CASE h # Handle(w)
      BY <2>4, <2>7, <3>2
    <3> QED
      BY <3>1, <3>2
  <2> QED
    BY <1>b, <2>1, <2>3, <2>9 DEF LoneInOrder, Ordered, Earlier
<1>6. ASSUME NEW w \in Writers, Pull(w) PROVE LoneInOrder'
  <2>1. UNCHANGED <<stack, frame, calls, track, overlapped>> /\ at[w] = "pull"
    BY <1>6 DEF Pull
  <2>2. \A v \in Writers : v # w => at[v] = "idle"
    BY <2>1 DEF Alone, Busy
  <2>3. Handle(w) \in Writers /\ encoder[Handle(w)] # NoEncoder /\ encoder[Handle(w)] \in Encoder
    BY <2>1, AtWork
  <2>4. \A h \in Writers : h # Handle(w) /\ encoder[h] # NoEncoder => encoder[h].ready = <<>>
    BY <1>b, <2>1, <2>2 DEF PulledNow
  <2>5. CASE UNCHANGED <<encoder, packet>> /\ Goes(w, "idle") /\ encoder[Handle(w)].ready = <<>>
    <3>1. \A v \in Writers : at'[v] = "idle"
      BY <2>2, <2>5 DEF Goes, WriterTypeOK
    <3>2. \A v \in Writers : ~Waiting(v)'
      BY <3>1 DEF Waiting
    <3>3. \A h \in Writers : encoder'[h] # NoEncoder => encoder'[h].inside = <<>> /\ encoder'[h].ready = <<>>
      BY <1>b, <2>1, <2>4, <2>5
    <3> QED
      BY <1>b, <2>1, <2>5, <3>2, <3>3 DEF LoneInOrder, Ordered
  <2>6. ASSUME NEW e \in Encoder, NEW x \in Frame,
               encoder' = [encoder EXCEPT ![Handle(w)] = e], packet' = [packet EXCEPT ![w] = x],
               x \in Held(encoder[Handle(w)]), e.inside = encoder[Handle(w)].inside,
               encoder[Handle(w)].ready = <<x>> \/ Len(encoder[Handle(w)].ready) # 1,
               Len(encoder[Handle(w)].ready) = 1 => e.ready = <<>>
        PROVE  LoneInOrder'
    <3>1. /\ \A h \in Writers : encoder'[h] = IF h = Handle(w) THEN e ELSE encoder[h]
          /\ \A v \in Writers : packet'[v] = IF v = w THEN x ELSE packet[v]
      BY <2>6 DEF WriterTypeOK
    <3>2. encoder[Handle(w)].inside = <<>>
      BY <1>b, <2>1, <2>3
    <3>3. encoder[Handle(w)].ready # <<>>
      <4>1. Range(<<>>) = {}
        BY DEF Range
      <4> QED
        BY <2>3, <2>6, <3>2, <4>1, HeldOf
    <3>4. encoder[Handle(w)].ready = <<calls>> /\ Waiting(w)
      BY <1>b, <2>1, <2>3, <3>3 DEF Waiting
    <3>5. x = calls /\ e.ready = <<>>
      BY <2>6, <3>4
    <3>6. \A h \in Writers : encoder'[h] # NoEncoder => encoder'[h].inside = <<>> /\ encoder'[h].ready = <<>>
      BY <1>b, <2>1, <2>4, <2>6, <3>1, <3>2, <3>5
    <3>7. Earlier
      BY <1>b, <2>1, <3>4
    <3> QED
      BY <1>b, <2>1, <3>1, <3>5, <3>6, <3>7 DEF LoneInOrder, Ordered, Earlier
  <2> QED
    BY <1>6, <2>5, <2>6, PullDoes
<1>7. ASSUME NEW w \in Writers, Send(w) PROVE LoneInOrder'
  <2>1. UNCHANGED <<stack, frame, encoder, calls, overlapped>> /\ at[w] = "send"
        /\ \A v \in Writers : packet'[v] = IF v = w THEN 0 ELSE packet[v]
    BY <1>7 DEF Send, WriterTypeOK
  <2>2. \A v \in Writers : v # w => at[v] = "idle"
    BY <2>1 DEF Alone, Busy
  <2>3. PICK st \in {"pull", "idle"} : \A v \in Writers : at'[v] = IF v = w THEN st ELSE at[v]
    BY <1>7 DEF Send, Goes, WriterTypeOK
  <2>4. \A h \in Writers : encoder[h] # NoEncoder => encoder[h].inside = <<>> /\ encoder[h].ready = <<>>
    BY <1>b, <2>1, <2>2 DEF PulledNow
  <2>5. Handle(w) \in Writers /\ encoder[Handle(w)] # NoEncoder
    BY <2>1, AtWork
  <2>6. \A v \in Writers : ~Waiting(v)'
    BY <1>a, <2>1, <2>2, <2>3, <2>4, <2>5 DEF Waiting
  <2>7. packet[w] = calls
    BY <1>b, <2>1 DEF HandsOK
  <2>8. Ordered' /\ \A i \in DOMAIN track' : track'[i] <= calls
    <3>1. CASE UNCHANGED track
      BY <1>b, <2>1, <3>1 DEF Ordered
    <3>2. CASE track' = Append(track, calls)
      <4>1. Ordered /\ Earlier
        BY <1>b, <2>1 DEF Waiting
      <4> QED
        BY <1>0, <3>2, <4>1, WrittenLast DEF Ordered, Earlier
    <3> QED
      BY <1>7, <2>7, <3>1, <3>2 DEF Send
  <2> QED
    BY <1>b, <2>1, <2>4, <2>6, <2>8 DEF LoneInOrder
<1>8. CASE UNCHANGED writerVars
  <2>1. /\ UNCHANGED <<stack, at, packet, encoder, calls, track, overlapped>>
        /\ \A v \in Writers : Handle(v)' = Handle(v)
    BY <1>8 DEF writerVars, Handle
  <2> QED
    BY <1>b, <2>1 DEF LoneInOrder, Ordered, Earlier, Waiting, PulledNow
<1> QED
  BY <1>1, <1>2, <1>3, <1>4, <1>5, <1>6, <1>7, <1>8 DEF WriterNext

\* What is in the encoders of the other handles.
Others(h) == UNION {Held(encoder[g]) : g \in Writers \ {h}}

\* One encoder changes: the encoders' contents, and that no two share a frame.
LEMMA EncoderTurns ==
    ASSUME WriterTypeOK, EachOnce, NEW h \in Writers, NEW e \in Encoder \cup {NoEncoder},
           encoder' = [encoder EXCEPT ![h] = e],
           Held(e) \cap Others(h) = {}, e # NoEncoder => Once(e)
    PROVE  /\ InEncoders = Others(h) \cup Held(encoder[h])
           /\ InEncoders' = Others(h) \cup Held(e)
           /\ Others(h) \cap Held(encoder[h]) = {}
           /\ \A f, g \in Writers : f # g => Held(encoder'[f]) \cap Held(encoder'[g]) = {}
           /\ \A g \in Writers : encoder'[g] # NoEncoder => Once(encoder'[g])
<1>1. encoder'[h] = e /\ \A g \in Writers : g # h => encoder'[g] = encoder[g]
  BY DEF WriterTypeOK
<1>2. \A f, g \in Writers : f # g => Held(encoder[f]) \cap Held(encoder[g]) = {}
  BY DEF EachOnce
<1>3. InEncoders = Others(h) \cup Held(encoder[h])
  BY DEF InEncoders, Others
<1>4. InEncoders' = UNION {Held(encoder'[g]) : g \in Writers}
  BY DEF InEncoders, Held
<1>5. InEncoders' = Others(h) \cup Held(e)
  BY <1>1, <1>4 DEF Others
<1>6. Others(h) \cap Held(encoder[h]) = {}
  BY <1>2 DEF Others
<1>7. \A g \in Writers : g # h => Held(encoder'[g]) \cap Held(e) = {}
  BY <1>1 DEF Others
<1>8. \A f, g \in Writers : f # g => Held(encoder'[f]) \cap Held(encoder'[g]) = {}
  BY <1>1, <1>2, <1>7
<1>9. \A g \in Writers : encoder'[g] # NoEncoder => Once(encoder'[g])
  BY <1>1 DEF EachOnce
<1> QED
  BY <1>3, <1>5, <1>6, <1>8, <1>9

LEMMA OthersOf ==
    ASSUME EachOnce, NEW h \in Writers
    PROVE  InEncoders = Others(h) \cup Held(encoder[h]) /\ Others(h) \cap Held(encoder[h]) = {}
  BY DEF EachOnce, InEncoders, Others

\* A packet that comes into a writer's hand, or leaves it.
LEMMA HandTakes ==
    ASSUME WriterTypeOK, NEW w \in Writers, packet[w] = 0, NEW x \in Frame, x \notin InHands,
           packet' = [packet EXCEPT ![w] = x],
           \A v, u \in Writers : v # u /\ packet[v] # 0 => packet[v] # packet[u]
    PROVE  /\ InHands' = InHands \cup {x}
           /\ \A v, u \in Writers : v # u /\ packet'[v] # 0 => packet'[v] # packet'[u]
<1>1. \A v \in Writers : packet'[v] = IF v = w THEN x ELSE packet[v]
  BY DEF WriterTypeOK
<1>2. x # 0
  BY DEF Frame
<1>3. \A v \in Writers : packet[v] # x
  BY <1>2 DEF InHands
<1>4. InHands' = {packet'[v] : v \in Writers} \ {0}
  BY DEF InHands
<1>5. InHands' = InHands \cup {x}
  BY <1>1, <1>2, <1>4 DEF InHands
<1> QED
  BY <1>1, <1>3, <1>5

LEMMA HandGives ==
    ASSUME WriterTypeOK, NEW w \in Writers, packet[w] # 0, packet' = [packet EXCEPT ![w] = 0],
           \A v, u \in Writers : v # u /\ packet[v] # 0 => packet[v] # packet[u]
    PROVE  /\ InHands' = InHands \ {packet[w]} /\ packet[w] \in InHands
           /\ \A v, u \in Writers : v # u /\ packet'[v] # 0 => packet'[v] # packet'[u]
<1>1. \A v \in Writers : packet'[v] = IF v = w THEN 0 ELSE packet[v]
  BY DEF WriterTypeOK
<1>2. InHands' = {packet'[v] : v \in Writers} \ {0}
  BY DEF InHands
<1>3. InHands' = InHands \ {packet[w]}
  BY <1>1, <1>2 DEF InHands
<1> QED
  BY <1>1, <1>3 DEF InHands

\* A packet that is written to the track.
LEMMA TrackTakes ==
    ASSUME NEW s \in Seq(Frame), NEW x \in Frame, IsInjective(s), x \notin Range(s)
    PROVE  IsInjective(Append(s, x)) /\ Range(Append(s, x)) = Range(s) \cup {x}
<1> DEFINE t == Append(s, x)
           n == Len(s)
<1>1. /\ n \in Nat /\ DOMAIN s = 1..n /\ DOMAIN t = 1..(n + 1) /\ t[n + 1] = x
      /\ \A i \in 1..n : t[i] = s[i]
  OBVIOUS
<1> HIDE DEF t, n
<1>2. \A i \in 1..(n + 1) : i \in 1..n \/ i = n + 1
  BY <1>1
<1>3. 1..n \subseteq 1..(n + 1) /\ n + 1 \in 1..(n + 1)
  BY <1>1
<1>4. Range(t) = Range(s) \cup {x}
  BY <1>1, <1>2, <1>3 DEF Range
<1>5. \A i \in 1..n : t[i] # x
  BY <1>1 DEF Range
<1>6. IsInjective(t)
  BY <1>1, <1>2, <1>5 DEF IsInjective
<1> QED
  BY <1>4, <1>6 DEF t

\* The same frames at the same places.
LEMMA NothingMoves ==
    ASSUME UNCHANGED <<stack, packet, encoder, track, accepted, spilt, gone>>,
           overlapped => overlapped', FramesAreConserved
    PROVE  FramesAreConserved'
<1>1. InEncoders' = InEncoders /\ InHands' = InHands /\ Range(track)' = Range(track)
  BY DEF InEncoders, InHands, Held
<1>2. EachOnce' = EachOnce
  BY DEF EachOnce, Held
<1> QED
  BY <1>1, <1>2 DEF FramesAreConserved

LEMMA FramesConservedStep ==
    /\ WriterTypeOK /\ HandsOK /\ CallsApart /\ Alone /\ FramesAreConserved /\ [WriterNext]_writerVars
    => FramesAreConserved'
<1> SUFFICES ASSUME WriterTypeOK, HandsOK, CallsApart, Alone, FramesAreConserved,
                    [WriterNext]_writerVars
             PROVE  FramesAreConserved'
  OBVIOUS
<1> DEFINE T == Range(track)
           Conserved(A, E, H, R, S, G) ==
               /\ A = E \cup H \cup R \cup S \cup G
               /\ H \cap E = {} /\ R \cap (E \cup H) = {}
               /\ S \cap (E \cup H \cup R) = {} /\ G \cap (E \cup H \cup R \cup S) = {}
<1>0. ASSUME stack.backend = "rs"
      PROVE  /\ Conserved(accepted, InEncoders, InHands, T, spilt, gone)
             /\ EachOnce /\ (gone # {} => overlapped)
  BY <1>0 DEF FramesAreConserved
<1>1. ASSUME NEW w \in Writers, Call(w) \/ Look(w) \/ Fails(w) PROVE FramesAreConserved'
  <2>1. UNCHANGED <<stack, packet, encoder, track, accepted, spilt, gone>> /\ (overlapped => overlapped')
    <3>1. CASE Call(w)
      BY <3>1, Zenon DEF Call
    <3>2. CASE Look(w) \/ Fails(w)
      BY <3>2 DEF Look, Fails
    <3> QED
      BY <1>1, <3>1, <3>2
  <2> QED
    BY <2>1, NothingMoves
<1>2. ASSUME NEW w \in Writers, Capture(w) PROVE FramesAreConserved'
  BY <1>2 DEF Capture, FramesAreConserved
<1>3. ASSUME NEW w \in Writers, InitEncoder(w) PROVE FramesAreConserved'
  <2> DEFINE h == Handle(w)
  <2>1. UNCHANGED <<stack, packet, track, accepted, spilt, overlapped>> /\ at[w] = "init"
        /\ encoder' = [encoder EXCEPT ![h] = Fresh] /\ gone' = gone \cup Held(encoder[h])
    BY <1>3 DEF InitEncoder
  <2>2. h \in Writers /\ stack.backend = "rs"
    BY <2>1, AtWork
  <2>3. EachOnce /\ Conserved(accepted, InEncoders, InHands, T, spilt, gone) /\ (gone # {} => overlapped)
    BY <1>0, <2>2
  <2> HIDE DEF h
  <2>4. /\ InEncoders = Others(h) \cup Held(encoder[h]) /\ InEncoders' = Others(h)
        /\ Others(h) \cap Held(encoder[h]) = {}
        /\ \A f, g \in Writers : f # g => Held(encoder'[f]) \cap Held(encoder'[g]) = {}
        /\ \A g \in Writers : encoder'[g] # NoEncoder => Once(encoder'[g])
    <3>1. Held(Fresh) = {} /\ Once(Fresh) /\ Fresh \in Encoder \cup {NoEncoder}
      BY FreshOK
    <3>2. Others(h) \cup Held(Fresh) = Others(h)
      BY <3>1
    <3> QED
      BY <2>1, <2>2, <2>3, <3>1, <3>2, EncoderTurns
  <2>5. gone' # {} => overlapped'
    BY <2>1, <2>3, FreshOK DEF Alone, h
  <2>6. EachOnce'
    BY <2>1, <2>3, <2>4 DEF EachOnce, Held
  <2>7. InHands' = InHands
    BY <2>1 DEF InHands
  <2>8. Conserved(accepted', InEncoders', InHands', T', spilt', gone')
    BY <2>1, <2>3, <2>4, <2>7
  <2> QED
    BY <2>5, <2>6, <2>8 DEF FramesAreConserved
<1>4. ASSUME NEW w \in Writers, Push(w) PROVE FramesAreConserved'
  <2> DEFINE h == Handle(w)
             f == frame[w]
  <2>1. UNCHANGED <<stack, packet, track, spilt, gone, overlapped>> /\ at[w] = "push"
        /\ accepted' = accepted \cup {f}
    BY <1>4, PushMoves
  <2>2. h \in Writers /\ stack.backend = "rs" /\ encoder[h] # NoEncoder
    BY <2>1, AtWork
  <2>3. EachOnce /\ Conserved(accepted, InEncoders, InHands, T, spilt, gone) /\ (gone # {} => overlapped)
    BY <1>0, <2>2
  <2>4. f \notin accepted
    BY <2>1 DEF CallsApart
  <2>5. PICK e \in Encoder :
           /\ encoder' = [encoder EXCEPT ![h] = e]
           /\ Held(e) = Held(encoder[h]) \cup {f}
           /\ Once(encoder[h]) /\ f \notin Held(encoder[h]) => Once(e)
    BY <1>4, PushDoes
  <2> HIDE DEF h, f
  <2>6. InEncoders = Others(h) \cup Held(encoder[h]) /\ Others(h) \cap Held(encoder[h]) = {}
    BY <2>2, <2>3, OthersOf
  <2>7. f \notin Held(encoder[h]) /\ f \notin Others(h)
    BY <2>3, <2>4, <2>6
  <2>8. Once(e) /\ Held(e) \cap Others(h) = {}
    BY <2>2, <2>3, <2>5, <2>6, <2>7 DEF EachOnce
  <2>9. /\ InEncoders' = Others(h) \cup Held(e)
        /\ \A d, g \in Writers : d # g => Held(encoder'[d]) \cap Held(encoder'[g]) = {}
        /\ \A g \in Writers : encoder'[g] # NoEncoder => Once(encoder'[g])
    BY <2>2, <2>3, <2>5, <2>8, EncoderTurns
  <2>10. EachOnce'
    BY <2>1, <2>3, <2>9 DEF EachOnce, Held
  <2>11. InHands' = InHands /\ InEncoders' = InEncoders \cup {f}
    BY <2>1, <2>5, <2>6, <2>9 DEF InHands
  <2>12. Conserved(accepted', InEncoders', InHands', T', spilt', gone')
    BY <2>1, <2>3, <2>4, <2>11
  <2> QED
    BY <2>1, <2>3, <2>10, <2>12 DEF FramesAreConserved
<1>5. ASSUME NEW w \in Writers, Pull(w) PROVE FramesAreConserved'
  <2> DEFINE h == Handle(w)
  <2>1. UNCHANGED <<stack, track, accepted, spilt, gone, overlapped>> /\ at[w] = "pull"
    BY <1>5 DEF Pull
  <2>2. h \in Writers /\ stack.backend = "rs" /\ encoder[h] # NoEncoder /\ packet[w] = 0
    BY <2>1, AtWork DEF HandsOK
  <2>3. EachOnce /\ Conserved(accepted, InEncoders, InHands, T, spilt, gone) /\ (gone # {} => overlapped)
    BY <1>0, <2>2
  <2>4. CASE UNCHANGED <<encoder, packet>>
    BY <2>1, <2>4, NothingMoves
  <2>5. ASSUME NEW e \in Encoder, NEW x \in Frame,
               encoder' = [encoder EXCEPT ![h] = e], packet' = [packet EXCEPT ![w] = x],
               x \in Held(encoder[h]), Held(e) \subseteq Held(encoder[h]),
               Held(encoder[h]) \subseteq Held(e) \cup {x},
               Once(encoder[h]) => Once(e) /\ x \notin Held(e)
        PROVE  FramesAreConserved'
    <3> HIDE DEF h
    <3>1. Once(e) /\ x \notin Held(e)
      BY <2>2, <2>3, <2>5 DEF EachOnce
    <3>2. InEncoders = Others(h) \cup Held(encoder[h]) /\ Others(h) \cap Held(encoder[h]) = {}
      BY <2>2, <2>3, OthersOf
    <3>3. Held(e) \cap Others(h) = {}
      BY <2>5, <3>2
    <3>4. /\ InEncoders' = Others(h) \cup Held(e)
          /\ \A d, g \in Writers : d # g => Held(encoder'[d]) \cap Held(encoder'[g]) = {}
          /\ \A g \in Writers : encoder'[g] # NoEncoder => Once(encoder'[g])
      BY <2>2, <2>3, <2>5, <3>1, <3>3, EncoderTurns
    <3>5. InEncoders' = InEncoders \ {x} /\ x \in InEncoders
      BY <2>5, <3>1, <3>2, <3>4
    <3>6. x \notin InHands
      BY <2>3, <3>5
    <3>7. \A v, u \in Writers : v # u /\ packet[v] # 0 => packet[v] # packet[u]
      BY <2>3 DEF EachOnce
    <3>8. /\ InHands' = InHands \cup {x}
          /\ \A v, u \in Writers : v # u /\ packet'[v] # 0 => packet'[v] # packet'[u]
      BY <2>2, <2>5, <3>6, <3>7, HandTakes
    <3>9. EachOnce'
      BY <2>1, <2>3, <3>4, <3>8 DEF EachOnce, Held
    <3>10. Conserved(accepted', InEncoders', InHands', T', spilt', gone')
      BY <2>1, <2>3, <3>5, <3>8
    <3> QED
      BY <2>1, <2>3, <3>9, <3>10 DEF FramesAreConserved
  <2> QED
    BY <1>5, <2>4, <2>5, PullDoes
<1>6. ASSUME NEW w \in Writers, Send(w) PROVE FramesAreConserved'
  <2> DEFINE x == packet[w]
  <2>1. UNCHANGED <<stack, encoder, accepted, gone, overlapped>> /\ at[w] = "send"
        /\ packet' = [packet EXCEPT ![w] = 0]
        /\ \/ track' = Append(track, x) /\ UNCHANGED spilt
           \/ spilt' = spilt \cup {x} /\ UNCHANGED track
    BY <1>6 DEF Send
  <2>2. stack.backend = "rs" /\ x # 0 /\ x \in Frame /\ track \in Seq(Frame)
    BY <2>1, AtWork DEF HandsOK, WriterTypeOK
  <2>3. EachOnce /\ Conserved(accepted, InEncoders, InHands, T, spilt, gone) /\ (gone # {} => overlapped)
    BY <1>0, <2>2
  <2>4. \A v, u \in Writers : v # u /\ packet[v] # 0 => packet[v] # packet[u]
    BY <2>3 DEF EachOnce
  <2>5. /\ InHands' = InHands \ {x} /\ x \in InHands
        /\ \A v, u \in Writers : v # u /\ packet'[v] # 0 => packet'[v] # packet'[u]
    BY <2>1, <2>2, <2>4, HandGives
  <2> HIDE DEF x
  <2>6. InEncoders' = InEncoders
    BY <2>1 DEF InEncoders, Held
  <2>7. CASE track' = Append(track, x) /\ UNCHANGED spilt
    <3>1. IsInjective(track) /\ x \notin T
      BY <2>3, <2>5 DEF EachOnce
    <3>2. IsInjective(track') /\ T' = T \cup {x}
      BY <2>2, <2>7, <3>1, TrackTakes
    <3>3. EachOnce'
      BY <2>1, <2>3, <2>5, <3>2 DEF EachOnce, Held
    <3> HIDE DEF T
    <3>4. Conserved(accepted', InEncoders', InHands', T', spilt', gone')
      BY <2>1, <2>3, <2>5, <2>6, <2>7, <3>2
    <3> QED
      BY <2>1, <2>3, <3>3, <3>4 DEF FramesAreConserved, T
  <2>8. CASE spilt' = spilt \cup {x} /\ UNCHANGED track
    <3>1. EachOnce'
      BY <2>1, <2>3, <2>5, <2>8 DEF EachOnce, Held
    <3>2. T' = T
      BY <2>8
    <3> HIDE DEF T
    <3>3. Conserved(accepted', InEncoders', InHands', T', spilt', gone')
      BY <2>1, <2>3, <2>5, <2>6, <2>8, <3>2
    <3> QED
      BY <2>1, <2>3, <3>1, <3>3 DEF FramesAreConserved, T
  <2> QED
    BY <2>1, <2>7, <2>8
<1>7. CASE UNCHANGED writerVars
  <2>1. UNCHANGED <<stack, packet, encoder, track, accepted, spilt, gone, overlapped>>
    BY <1>7 DEF writerVars
  <2> QED
    BY <2>1, NothingMoves
<1> QED
  BY <1>1, <1>2, <1>3, <1>4, <1>5, <1>6, <1>7 DEF WriterNext

\* Every frame an encoder took is in one place or known to be lost, and a lone
\* writer's frames are on the track in the order of the calls: for every number
\* of writers and of calls.
WInv == WriterTypeOK /\ HandsOK /\ CallsApart /\ Alone /\ LoneInOrder /\ FramesAreConserved

LEMMA WriterInitInv == WriterInit => WInv
<1> SUFFICES ASSUME WriterInit PROVE WInv
  OBVIOUS
<1>1. /\ at = [w \in Writers |-> "idle"] /\ frame = [w \in Writers |-> 0]
      /\ packet = [w \in Writers |-> 0] /\ encoder = [h \in Writers |-> NoEncoder]
      /\ calls = 0 /\ track = <<>> /\ accepted = {} /\ spilt = {} /\ gone = {}
  BY DEF WriterInit, Unused
<1>2. HandsOK
  BY <1>1 DEF HandsOK
<1>3. CallsApart /\ Alone
  BY <1>1 DEF CallsApart, Alone, Busy
<1>4. LoneInOrder
  BY <1>1 DEF LoneInOrder, Ordered, Waiting
<1>5. InEncoders = {} /\ InHands = {} /\ Range(track) = {}
  BY <1>1 DEF InEncoders, InHands, Held, Range
<1>6. EachOnce
  BY <1>1 DEF EachOnce, Held, IsInjective
<1>7. FramesAreConserved
  BY <1>1, <1>5, <1>6 DEF FramesAreConserved
<1> QED
  BY <1>2, <1>3, <1>4, <1>7, WriterInitTyped DEF WInv

\* A frame given to write_raw_i420 (track.rs) is in an encoder, in one writer's
\* hand, on the track once, or lost where the code can lose it; an encoder is
\* replaced with frames in it only when calls overlap; a lone writer's frames
\* are on the track in the order of the calls.
THEOREM FramesArrive == WriterSpec => []FramesReachTheTrack
<1>1. WriterInit => WInv
  BY WriterInitInv
<1>2. WInv /\ [WriterNext]_writerVars => WInv'
  BY WriterTypeStep, CallsApartStep, AloneStep, LoneInOrderStep, FramesConservedStep DEF WInv
<1>3. WInv => FramesReachTheTrack
  BY DEF WInv, LoneInOrder, Ordered, FramesReachTheTrack, LoneWriterKeepsOrder
<1> QED
  BY <1>1, <1>2, <1>3, PTL DEF WriterSpec

\* The types of the writers' state.
THEOREM WriterTypes == WriterSpec => []WriterTypeOK
<1>1. WriterInit => WriterTypeOK /\ HandsOK
  BY WriterInitInv DEF WInv
<1> QED
  BY <1>1, WriterTypeStep, PTL DEF WriterSpec

-----------------------------------------------------------------------------
(* TrackReader: a remote track is shown as it came. *)

\* The place of a packet in the order of sending.
Place(k) == IF k = "start" THEN 0 ELSE IF k = "middle" THEN 1 ELSE 2
Rank(p) == 3 * p[1] + Place(p[2])
Sent == Units - unsent
PartOf(p, u) == p \in Range(PacketsOf(u))

LEMMA RankOf ==
    ASSUME NEW p \in Packet
    PROVE  /\ p[1] \in Unit /\ p[1] \in Nat /\ Rank(p) \in Nat
           /\ 3 * p[1] <= Rank(p) /\ Rank(p) <= 3 * p[1] + 2
           /\ Rank(p) = 3 * p[1] + 2 <=> p[2] \in {"single", "end"}
<1>1. p[1] \in Unit /\ p[2] \in {"single", "start", "middle", "end"}
  BY DEF Packet
<1>2. p[1] \in Nat
  BY <1>1, ReaderConstantsOK DEF Unit
<1>3. Place(p[2]) \in 0..2 /\ (Place(p[2]) = 2 <=> p[2] \in {"single", "end"})
  BY <1>1 DEF Place
<1> QED
  BY <1>1, <1>2, <1>3 DEF Rank

\* The packets of a unit, in order.
LEMMA UnitPackets ==
    ASSUME NEW u \in Unit
    PROVE  /\ PacketsOf(u) \in Seq(Packet)
           /\ \A i \in 1..Len(PacketsOf(u)) : PacketsOf(u)[i][1] = u /\ PartOf(PacketsOf(u)[i], u)
           /\ \A i, j \in 1..Len(PacketsOf(u)) : i < j => Rank(PacketsOf(u)[i]) < Rank(PacketsOf(u)[j])
           /\ Range(PacketsOf(u)) = IF u \in Singles THEN {<<u, "single">>}
                                    ELSE {<<u, "start">>, <<u, "middle">>, <<u, "end">>}
<1>0. u \in Nat
  BY ReaderConstantsOK DEF Unit
<1>1. CASE u \in Singles
  <2>1. PacketsOf(u) = << <<u, "single">> >> /\ <<u, "single">> \in Packet
    BY <1>1 DEF PacketsOf, Packet
  <2> QED
    BY <1>1, <2>1 DEF Range, PartOf
<1>2. CASE u \notin Singles
  <2>1. /\ PacketsOf(u) = << <<u, "start">>, <<u, "middle">>, <<u, "end">> >>
        /\ <<u, "start">> \in Packet /\ <<u, "middle">> \in Packet /\ <<u, "end">> \in Packet
    BY <1>2 DEF PacketsOf, Packet
  <2>2. Len(PacketsOf(u)) = 3 /\ PacketsOf(u) \in Seq(Packet) /\ DOMAIN PacketsOf(u) = 1..3
    BY <2>1
  <2>3. PacketsOf(u)[1] = <<u, "start">> /\ PacketsOf(u)[2] = <<u, "middle">> /\ PacketsOf(u)[3] = <<u, "end">>
    BY <2>1
  <2>4. \A i \in 1..3 : i = 1 \/ i = 2 \/ i = 3
    OBVIOUS
  <2>5. Range(PacketsOf(u)) = {<<u, "start">>, <<u, "middle">>, <<u, "end">>}
    <3>1. Range(PacketsOf(u)) = {PacketsOf(u)[i] : i \in 1..3}
      BY <2>2 DEF Range
    <3>2. 1 \in 1..3 /\ 2 \in 1..3 /\ 3 \in 1..3
      OBVIOUS
    <3>3. Range(PacketsOf(u)) = {PacketsOf(u)[1], PacketsOf(u)[2], PacketsOf(u)[3]}
      BY <2>4, <3>1, <3>2, Zenon
    <3> QED
      BY <2>3, <3>3
  <2>6. Rank(<<u, "start">>) = 3 * u /\ Rank(<<u, "middle">>) = 3 * u + 1 /\ Rank(<<u, "end">>) = 3 * u + 2
    BY <1>0 DEF Rank, Place
  <2>7. \A i \in 1..3 : PacketsOf(u)[i][1] = u /\ PartOf(PacketsOf(u)[i], u)
    BY <2>2, <2>3, <2>4 DEF Range, PartOf
  <2>8. \A i, j \in 1..3 : i < j => Rank(PacketsOf(u)[i]) < Rank(PacketsOf(u)[j])
    BY <1>0, <2>3, <2>4, <2>6
  <2> QED
    BY <1>2, <2>2, <2>5, <2>7, <2>8
<1> QED
  BY <1>1, <1>2

\* Packets in the order of sending are in the order of their units.
LEMMA RankOrders ==
    ASSUME NEW p \in Packet, NEW u \in Nat
    PROVE  /\ Rank(p) < 3 * (u + 1) => p[1] <= u
           /\ Rank(p) > 3 * u + 2 => p[1] > u
           /\ p[1] <= u => Rank(p) <= 3 * u + 2
           /\ p[1] >= u => Rank(p) >= 3 * u
<1>1. p[1] \in Nat /\ Rank(p) \in Nat /\ 3 * p[1] <= Rank(p) /\ Rank(p) <= 3 * p[1] + 2
  BY RankOf
<1> QED
  BY <1>1

\* A whole unit is told from what is in the buffer.
LEMMA WholeUnits ==
    ASSUME NEW u \in Unit
    PROVE  /\ Complete(Range(PacketsOf(u))) /\ UnitOf(Range(PacketsOf(u))) = u
           /\ PicturesOf(Range(PacketsOf(u))) = {<<u>>}
<1>1. Complete(Range(PacketsOf(u)))
  BY DEF Complete
<1>2. ASSUME NEW v \in Unit, Range(PacketsOf(v)) = Range(PacketsOf(u)) PROVE v = u
  <2>1. \A w \in Unit : \A p \in Range(PacketsOf(w)) : p[1] = w
    BY UnitPackets
  <2>2. \E p : p \in Range(PacketsOf(u))
    BY UnitPackets
  <2> QED
    BY <1>2, <2>1, <2>2
<1>3. UnitOf(Range(PacketsOf(u))) = u
  BY <1>2 DEF UnitOf
<1> QED
  BY <1>1, <1>3 DEF PicturesOf

LEMMA FedPictures ==
    ASSUME NEW au, NEW more \in PicturesOf(au)
    PROVE  /\ more \in Seq(Picture)
           /\ more = <<>> \/ more = <<Damaged>> \/ \E u \in Unit : au = Range(PacketsOf(u)) /\ more = <<u>>
<1>1. CASE Complete(au)
  <2>1. PICK u \in Unit : au = Range(PacketsOf(u))
    BY <1>1 DEF Complete
  <2>2. more = <<u>>
    BY <2>1, WholeUnits
  <2>3. u \in Picture /\ \A x \in Picture : <<x>> \in Seq(Picture)
    BY DEF Picture
  <2> QED
    BY <2>1, <2>2, <2>3
<1>2. CASE ~Complete(au)
  <2>1. more = <<>> \/ more = <<Damaged>>
    BY <1>2 DEF PicturesOf
  <2>2. Damaged \in Picture /\ \A x \in Picture : <<x>> \in Seq(Picture)
    BY DEF Picture
  <2>3. <<>> \in Seq(Picture)
    OBVIOUS
  <2> QED
    BY <2>1, <2>2, <2>3
<1> QED
  BY <1>1, <1>2

-----------------------------------------------------------------------------
LEMMA ReaderInitTyped == ReaderInit => ReaderTypeOK
<1> SUFFICES ASSUME ReaderInit PROVE ReaderTypeOK
  OBVIOUS
<1>1. network \in Seq(Packet) /\ decoder \in Seq(Picture) /\ shown \in Seq(Picture)
  BY DEF ReaderInit, Unheard
<1>2. unsent \in 0..Units
  BY ReaderConstantsOK DEF ReaderInit, Unheard
<1>3. peer \in Peers /\ callback \in {"none", "registered", "running", "done"} /\ reader \in {"none", "running", "ended"}
  BY DEF ReaderInit, Unheard
<1>4. sink \in BOOLEAN /\ attached \in BOOLEAN /\ open \in BOOLEAN /\ overtaken \in BOOLEAN
  BY DEF ReaderInit, Unheard
<1>5. auBuffer \subseteq Packet /\ fed \subseteq [unit : Unit, of : SUBSET Packet] /\ heard \subseteq Packet
      /\ watched \subseteq Unit
  BY DEF ReaderInit, Unheard
<1> QED
  BY <1>1, <1>2, <1>3, <1>4, <1>5 DEF ReaderTypeOK

\* A sequence without its i-th element.
LEMMA Removed ==
    ASSUME NEW T, NEW s \in Seq(T), NEW i \in 1..Len(s)
    PROVE  /\ RemoveAt(s, i) \in Seq(T)
           /\ i = 1 => RemoveAt(s, i) = Tail(s)
<1>1. SubSeq(s, 1, i - 1) \in Seq(T) /\ SubSeq(s, i + 1, Len(s)) \in Seq(T)
  OBVIOUS
<1>2. RemoveAt(s, i) = SubSeq(s, 1, i - 1) \o SubSeq(s, i + 1, Len(s))
  BY DEF RemoveAt
<1>3. RemoveAt(s, i) \in Seq(T)
  BY <1>1, <1>2
<1>4. ASSUME i = 1 PROVE RemoveAt(s, i) = Tail(s)
  <2>1. SubSeq(s, 1, 0) = <<>> /\ SubSeq(s, 2, Len(s)) = Tail(s) /\ Tail(s) \in Seq(T)
    BY <1>4
  <2>2. \A t \in Seq(T) : <<>> \o t = t
    OBVIOUS
  <2> QED
    BY <1>2, <1>4, <2>1, <2>2
<1> QED
  BY <1>3, <1>4

\* What the decoder gives and keeps.
LEMMA FeedTyped ==
    ASSUME ReaderTypeOK, NEW au, Feed(au)
    PROVE  /\ decoder' \in Seq(Picture) /\ shown' \in Seq(Picture)
           /\ peer.prompt /\ decoder = <<>> =>
                 /\ decoder' = <<>>
                 /\ \/ UNCHANGED shown /\ (Complete(au) => ~sink)
                    \/ shown' = Append(shown, Damaged) /\ ~Complete(au)
                    \/ \E u \in Unit : au = Range(PacketsOf(u)) /\ shown' = Append(shown, u)
<1>0. decoder \in Seq(Picture) /\ shown \in Seq(Picture)
  BY DEF ReaderTypeOK
<1>1. CASE ~Complete(au) /\ UNCHANGED <<decoder, shown>>
  BY <1>0, <1>1
<1>2. ASSUME NEW more \in PicturesOf(au), NEW n,
             n \in IF peer.prompt THEN {Len(decoder \o more)} ELSE 0..Len(decoder \o more),
             decoder' = LeftAfter(decoder \o more, n),
             shown' = shown \o (IF sink THEN Reverse(SubSeq(decoder \o more, 1, n)) ELSE <<>>)
      PROVE  /\ decoder' \in Seq(Picture) /\ shown' \in Seq(Picture)
             /\ peer.prompt /\ decoder = <<>> =>
                   /\ decoder' = <<>>
                   /\ \/ UNCHANGED shown /\ (Complete(au) => ~sink)
                      \/ shown' = Append(shown, Damaged) /\ ~Complete(au)
                      \/ \E u \in Unit : au = Range(PacketsOf(u)) /\ shown' = Append(shown, u)
  <2> DEFINE in == decoder \o more
             out == SubSeq(in, 1, n)
             swept == IF sink THEN Reverse(out) ELSE <<>>
  <2>1. more \in Seq(Picture) /\ in \in Seq(Picture) /\ Len(in) \in Nat
    BY <1>0, FedPictures
  <2>2. n \in 0..Len(in)
    BY <1>2, <2>1
  <2> HIDE DEF in
  <2>3. out \in Seq(Picture) /\ SubSeq(in, n + 1, Len(in)) \in Seq(Picture)
    BY <2>1, <2>2
  <2>4. \A s \in Seq(Picture) : Reverse(s) \in Seq(Picture)
    BY DEF Reverse
  <2>5. swept \in Seq(Picture)
    <3>1. out \in Seq(Picture) /\ <<>> \in Seq(Picture)
      BY <2>3
    <3> HIDE DEF out
    <3> QED
      BY <2>4, <3>1
  <2>6. decoder' \in Seq(Picture) /\ shown' \in Seq(Picture)
    <3>1. shown' = shown \o swept
      BY <1>2 DEF in
    <3>2. decoder' = SubSeq(in, n + 1, Len(in))
      BY <1>2 DEF in, LeftAfter
    <3> HIDE DEF swept
    <3> QED
      BY <1>0, <2>3, <2>5, <3>1, <3>2
  <2>7. ASSUME peer.prompt, decoder = <<>>
        PROVE  /\ decoder' = <<>>
               /\ \/ UNCHANGED shown /\ (Complete(au) => ~sink)
                  \/ shown' = Append(shown, Damaged) /\ ~Complete(au)
                  \/ \E u \in Unit : au = Range(PacketsOf(u)) /\ shown' = Append(shown, u)
    <3>1. in = more /\ n = Len(more)
      <4>1. \A t \in Seq(Picture) : <<>> \o t = t
        OBVIOUS
      <4> QED
        BY <1>2, <2>1, <2>7, <4>1 DEF in
    <3>2. decoder' = <<>>
      <4>1. \A s \in Seq(Picture) : SubSeq(s, Len(s) + 1, Len(s)) = <<>>
        OBVIOUS
      <4> QED
        BY <1>2, <2>1, <3>1, <4>1 DEF in, LeftAfter
    <3>3. shown \o <<>> = shown
      BY <1>0
    <3>4. \A x \in Picture : Reverse(SubSeq(<<x>>, 1, 1)) = <<x>> /\ shown \o <<x>> = Append(shown, x)
      <4> TAKE x \in Picture
      <4>1. <<x>> \in Seq(Picture) /\ Len(<<x>>) = 1 /\ shown \o <<x>> = Append(shown, x)
        BY <1>0
      <4>2. \A s \in Seq(Picture) : Len(s) = 1 => SubSeq(s, 1, 1) = s
        OBVIOUS
      <4>3. \A s \in Seq(Picture) : Len(s) = 1 => Reverse(s) = s
        BY DEF Reverse
      <4> QED
        BY <4>1, <4>2, <4>3
    <3>5. Reverse(SubSeq(<<>>, 1, 0)) = <<>>
      BY DEF Reverse
    <3>6. CASE ~sink
      BY <1>2, <3>2, <3>3, <3>6
    <3>7. CASE sink
      <4>1. shown' = shown \o Reverse(SubSeq(more, 1, Len(more)))
        BY <1>2, <3>1, <3>7 DEF in
      <4>2. CASE Complete(au)
        <5>1. PICK u \in Unit : au = Range(PacketsOf(u))
          BY <4>2 DEF Complete
        <5>2. more = <<u>> /\ u \in Picture
          BY <5>1, WholeUnits DEF Picture
        <5> QED
          BY <3>2, <3>4, <4>1, <5>1, <5>2
      <4>3. CASE ~Complete(au)
        <5>1. more = <<>> \/ more = <<Damaged>>
          BY <4>3, FedPictures DEF Complete
        <5>2. Damaged \in Picture
          BY DEF Picture
        <5> QED
          BY <3>2, <3>3, <3>4, <3>5, <4>1, <4>3, <5>1, <5>2
      <4> QED
        BY <4>2, <4>3
    <3> QED
      BY <3>6, <3>7
  <2> QED
    BY <2>6, <2>7
<1> QED
  BY <1>1, <1>2 DEF Feed

\* The turn of the loop, as to its types.
LEMMA ReadTyped ==
    ASSUME ReaderTypeOK, NEW i \in {1, 2}, ReadPacket(i)
    PROVE  /\ network[i] \in Packet /\ i \in 1..Len(network)
           /\ network' \in Seq(Packet) /\ auBuffer' \subseteq Packet /\ heard' \subseteq Packet
           /\ decoder' \in Seq(Picture) /\ shown' \in Seq(Picture)
           /\ fed' \subseteq [unit : Unit, of : SUBSET Packet] /\ watched' \subseteq Unit
           /\ overtaken' \in BOOLEAN
<1> DEFINE p == network[i]
           au == IF p[2] = "single" THEN {p} ELSE Appended(p)
<1>0. /\ network \in Seq(Packet) /\ auBuffer \subseteq Packet /\ heard \subseteq Packet
      /\ decoder \in Seq(Picture) /\ shown \in Seq(Picture)
      /\ fed \subseteq [unit : Unit, of : SUBSET Packet] /\ watched \subseteq Unit
  BY DEF ReaderTypeOK
<1>1. i \in 1..Len(network) /\ p \in Packet /\ p[1] \in Unit
  BY <1>0, RankOf DEF ReadPacket
<1>2. network' \in Seq(Packet)
  BY <1>0, <1>1, Removed DEF ReadPacket
<1>3. overtaken' \in BOOLEAN
  BY Zenon DEF ReadPacket, ReaderTypeOK
<1>4. au \subseteq Packet
  BY <1>0, <1>1 DEF Appended
<1>5. heard' \subseteq Packet /\ auBuffer' \subseteq Packet
  BY <1>0, <1>1, <1>4 DEF ReadPacket
<1>6. CASE p[2] \in {"start", "middle"}
  BY <1>0, <1>1, <1>2, <1>3, <1>5, <1>6 DEF ReadPacket
<1>7. CASE p[2] \notin {"start", "middle"}
  <2>1. /\ Feed(au) /\ fed' = fed \cup {[unit |-> p[1], of |-> au]}
        /\ watched' = IF sink THEN watched \cup {p[1]} ELSE watched
    BY <1>7 DEF ReadPacket
  <2> HIDE DEF au, p
  <2>2. decoder' \in Seq(Picture) /\ shown' \in Seq(Picture)
    BY <2>1, FeedTyped
  <2>3. fed' \subseteq [unit : Unit, of : SUBSET Packet] /\ watched' \subseteq Unit
    BY <1>0, <1>1, <1>4, <2>1
  <2> QED
    BY <1>1, <1>2, <1>3, <1>5, <2>2, <2>3 DEF p
<1> QED
  BY <1>6, <1>7

\* The frame libwebrtc hands over.
LEMMA NativeTyped ==
    ASSUME ReaderTypeOK, NativeFrame
    PROVE  /\ network # <<>> /\ network[1] \in Packet /\ network[1][1] \in Unit
           /\ network' \in Seq(Packet) /\ shown' \in Seq(Picture) /\ watched' \subseteq Unit
<1> DEFINE u == network[1][1]
           S == {p \in Packet : p[1] # u}
<1>0. network \in Seq(Packet) /\ shown \in Seq(Picture) /\ watched \subseteq Unit
  BY DEF ReaderTypeOK
<1>1. network # <<>> /\ network[1] \in Packet /\ u \in Unit
  BY <1>0, RankOf DEF NativeFrame
<1>2. network' = Within(network, S)
  BY DEF NativeFrame
<1>3. Within(network, S) \in Seq(S)
  <2> HIDE DEF S
  <2> QED
    BY <1>0, WithinType
<1>4. network' \in Seq(Packet)
  <2>1. S \subseteq Packet
    OBVIOUS
  <2> HIDE DEF S
  <2>2. \A s \in Seq(S) : s \in Seq(Packet)
    BY <2>1
  <2> QED
    BY <1>2, <1>3, <2>2
<1>5. u \in Picture
  BY <1>1 DEF Picture
<1> HIDE DEF u
<1>6. shown' \in Seq(Picture) /\ watched' \subseteq Unit
  <2>1. shown' = (IF attached THEN Append(shown, u) ELSE shown)
        /\ watched' = (IF sink THEN watched \cup {u} ELSE watched)
    BY DEF NativeFrame, u
  <2> QED
    BY <1>0, <1>1, <1>5, <2>1
<1> QED
  BY <1>1, <1>4, <1>6 DEF u

LEMMA SendTyped ==
    ASSUME ReaderTypeOK, SendUnit
    PROVE  /\ Sent + 1 \in Unit /\ Sent' = Sent + 1 /\ Sent \in Nat
           /\ unsent' \in 0..Units /\ network' = network \o PacketsOf(Sent + 1)
           /\ network' \in Seq(Packet)
<1>0. unsent \in 0..Units /\ network \in Seq(Packet) /\ Units \in Nat
  BY ReaderConstantsOK DEF ReaderTypeOK
<1>1. unsent > 0 /\ unsent' = unsent - 1 /\ network' = network \o PacketsOf(Units - unsent + 1)
  BY DEF SendUnit
<1>2. Sent + 1 \in Unit /\ Sent' = Sent + 1 /\ Sent \in Nat /\ unsent' \in 0..Units
  BY <1>0, <1>1 DEF Sent, Unit
<1>3. PacketsOf(Sent + 1) \in Seq(Packet) /\ network' = network \o PacketsOf(Sent + 1)
  BY <1>1, <1>2, UnitPackets DEF Sent
<1> HIDE DEF Sent
<1>4. network' \in Seq(Packet)
  BY <1>0, <1>3
<1> QED
  BY <1>2, <1>3, <1>4

LEMMA ReaderTypeStep == ReaderTypeOK /\ [ReaderNext]_readerVars => ReaderTypeOK'
<1> SUFFICES ASSUME ReaderTypeOK, [ReaderNext]_readerVars PROVE ReaderTypeOK'
  OBVIOUS
<1>0. /\ peer \in Peers /\ callback \in {"none", "registered", "running", "done"}
      /\ sink \in BOOLEAN /\ attached \in BOOLEAN /\ open \in BOOLEAN /\ overtaken \in BOOLEAN
      /\ reader \in {"none", "running", "ended"}
      /\ network \in Seq(Packet) /\ unsent \in 0..Units /\ auBuffer \subseteq Packet
      /\ decoder \in Seq(Picture) /\ shown \in Seq(Picture)
      /\ fed \subseteq [unit : Unit, of : SUBSET Packet] /\ heard \subseteq Packet /\ watched \subseteq Unit
  BY DEF ReaderTypeOK
<1>1. CASE Register
  BY <1>0, <1>1 DEF Register, pipeline, history, ReaderTypeOK
<1>2. CASE Announce
  BY <1>0, <1>2 DEF Announce, pipeline, history, ReaderTypeOK
<1>3. CASE Return
  <2>1. sink' \in BOOLEAN /\ attached' \in BOOLEAN
    <3>1. PICK set \in BOOLEAN : sink' = (sink \/ set) /\ attached' = (peer.backend = "rs" \/ sink')
      BY <1>3, Zenon DEF Return, Serves
    <3> QED
      BY <3>1, Zenon
  <2> QED
    BY <1>0, <1>3, <2>1 DEF Return, pipeline, history, ReaderTypeOK
<1>4. CASE SetSink
  BY <1>0, <1>4 DEF SetSink, pipeline, history, ReaderTypeOK
<1>5. CASE SendUnit
  <2>1. UNCHANGED <<peer, callback, sink, attached, reader, open, pipeline, history>>
    BY <1>5 DEF SendUnit
  <2> QED
    BY <1>0, <1>5, <2>1, SendTyped DEF pipeline, history, ReaderTypeOK
<1>6. CASE LosePacket
  <2>1. network' \in Seq(Packet)
    BY <1>0, <1>6 DEF LosePacket
  <2> QED
    BY <1>0, <1>6, <2>1 DEF LosePacket, pipeline, history, ReaderTypeOK
<1>7. ASSUME NEW i \in {1, 2}, ReadPacket(i) PROVE ReaderTypeOK'
  <2>1. UNCHANGED <<peer, callback, sink, attached, reader, open, unsent>>
    BY <1>7 DEF ReadPacket
  <2> QED
    BY <1>0, <1>7, <2>1, ReadTyped DEF ReaderTypeOK
<1>8. CASE NativeFrame
  <2>1. UNCHANGED <<peer, callback, sink, attached, reader, open, unsent, auBuffer, decoder, fed, heard, overtaken>>
    BY <1>8 DEF NativeFrame
  <2> QED
    BY <1>0, <1>8, <2>1, NativeTyped DEF ReaderTypeOK
<1>9. CASE EndTrack
  BY <1>0, <1>9 DEF EndTrack, pipeline, history, ReaderTypeOK
<1>10. CASE StopReading
  BY <1>0, <1>10 DEF StopReading, pipeline, history, ReaderTypeOK
<1>11. CASE UNCHANGED readerVars
  BY <1>0, <1>11 DEF readerVars, ReaderTypeOK
<1> QED
  BY <1>1, <1>2, <1>3, <1>4, <1>5, <1>6, <1>7, <1>8, <1>9, <1>10, <1>11 DEF ReaderNext, ReadNext

\* Everything up to this place was sent, and has been read or lost since.
Past(r) == r < 3 * (Sent + 1) /\ \A i \in DOMAIN network : r < Rank(network[i])

\* The network keeps the order of sending.
NetworkInOrder ==
    /\ \A i \in DOMAIN network : PartOf(network[i], network[i][1]) /\ network[i][1] <= Sent
    /\ \A i, j \in DOMAIN network : i < j => Rank(network[i]) < Rank(network[j])

\* What was read is past.
HeardIsPast == \A p \in heard : PartOf(p, p[1]) /\ Past(Rank(p))

\* The buffer has packets that were read, from the latest start on.
BufferFromStart ==
    /\ auBuffer \subseteq heard
    /\ \A v \in Unit : <<v, "start">> \in heard =>
          /\ \A p \in auBuffer : p[1] >= v
          /\ (\A w \in Unit : w > v => <<w, "start">> \notin heard)
                => \A p \in heard : p[1] = v => p \in auBuffer

\* What a unit was fed with, whether it was watched and what is shown of it is
\* settled when its last packet is past.
FedInOneUnit ==
    \A f \in fed : /\ Past(3 * f.unit + 2)
                   /\ <<f.unit, "start">> \in heard \/ f.unit \in Singles
                         => f.of \subseteq Range(PacketsOf(f.unit))
WatchedIsShown ==
    peer.backend = "rs" =>
        \A u \in watched : Past(3 * u + 2) /\ (peer.prompt /\ Whole(u) => u \in Range(shown))
ShownInOrder ==
    peer.prompt => InOrder(shown) /\ \A u \in Range(shown) \ {Damaged} : Past(3 * u + 2)

Settled == FedInOneUnit /\ WatchedIsShown /\ ShownInOrder

\* The decoder keeps nothing that comes in time; a sink attached in time misses
\* no picture.
Attachment ==
    /\ peer.prompt => decoder = <<>>
    /\ callback # "done" => reader = "none"
    /\ reader = "none" => watched = {}
    /\ peer.backend = "sys" /\ attached => watched \subseteq Range(shown)

LEMMA AppendShown ==
    ASSUME NEW s \in Seq(Picture), NEW x \in Picture
    PROVE  /\ Range(Append(s, x)) = Range(s) \cup {x} /\ Len(Append(s, x)) = Len(s) + 1
           /\ DOMAIN Append(s, x) = 1..(Len(s) + 1) /\ DOMAIN s = 1..Len(s) /\ Len(s) \in Nat
           /\ Append(s, x)[Len(s) + 1] = x /\ \A i \in 1..Len(s) : Append(s, x)[i] = s[i]
<1> DEFINE t == Append(s, x)
<1>1. /\ Len(t) = Len(s) + 1 /\ DOMAIN t = 1..(Len(s) + 1) /\ DOMAIN s = 1..Len(s) /\ Len(s) \in Nat
      /\ t[Len(s) + 1] = x /\ \A i \in 1..Len(s) : t[i] = s[i]
  OBVIOUS
<1> HIDE DEF t
<1>2. \A i \in 1..(Len(s) + 1) : i \in 1..Len(s) \/ i = Len(s) + 1
  BY <1>1
<1>3. 1..Len(s) \subseteq 1..(Len(s) + 1) /\ Len(s) + 1 \in 1..(Len(s) + 1)
  BY <1>1
<1>4. Range(t) = Range(s) \cup {x}
  BY <1>1, <1>2, <1>3 DEF Range
<1> QED
  BY <1>1, <1>4 DEF t

LEMMA AttachmentStep == ReaderTypeOK /\ Attachment /\ [ReaderNext]_readerVars => Attachment'
<1> SUFFICES ASSUME ReaderTypeOK, Attachment, [ReaderNext]_readerVars PROVE Attachment'
  OBVIOUS
<1>0. shown \in Seq(Picture) /\ decoder \in Seq(Picture)
  BY DEF ReaderTypeOK
<1>1. CASE Register \/ Announce \/ SetSink \/ SendUnit \/ LosePacket \/ EndTrack \/ StopReading
  <2>1. UNCHANGED <<peer, attached, decoder, shown, watched>>
    BY <1>1 DEF Register, Announce, SetSink, SendUnit, LosePacket, EndTrack, StopReading, pipeline, history
  <2>2. (callback' # "done" => reader' = "none") /\ (reader' = "none" => reader = "none")
    BY <1>1 DEF Register, Announce, SetSink, SendUnit, LosePacket, EndTrack, StopReading, Attachment
  <2> QED
    BY <2>1, <2>2 DEF Attachment
<1>2. CASE Return
  <2>1. UNCHANGED <<peer, decoder, shown, watched>> /\ callback = "running" /\ callback' = "done" /\ reader' = "running"
    BY <1>2 DEF Return, pipeline, history
  <2>2. watched = {}
    BY <2>1 DEF Attachment
  <2> QED
    BY <2>1, <2>2 DEF Attachment
<1>3. ASSUME NEW i \in {1, 2}, ReadPacket(i) PROVE Attachment'
  <2>1. UNCHANGED <<peer, callback, attached, reader>> /\ peer.backend = "rs" /\ reader = "running"
    BY <1>3 DEF ReadPacket
  <2>2. peer.prompt => decoder' = <<>>
    <3>1. CASE UNCHANGED decoder
      BY <3>1 DEF Attachment
    <3>2. ASSUME NEW au, Feed(au), peer.prompt PROVE decoder' = <<>>
      BY <3>2, FeedTyped DEF Attachment
    <3> QED
      BY <1>3, <3>1, <3>2 DEF ReadPacket
  <2> QED
    BY <2>1, <2>2 DEF Attachment
<1>4. CASE NativeFrame
  <2> DEFINE u == network[1][1]
  <2>1. /\ UNCHANGED <<peer, callback, attached, reader, decoder>> /\ reader = "running"
        /\ shown' = (IF attached THEN Append(shown, u) ELSE shown)
        /\ watched' = (IF sink THEN watched \cup {u} ELSE watched)
    BY <1>4 DEF NativeFrame
  <2>2. u \in Picture
    BY <1>4, NativeTyped DEF Picture
  <2> HIDE DEF u
  <2>3. peer'.backend = "sys" /\ attached' => watched' \subseteq Range(shown')
    BY <1>0, <2>1, <2>2, AppendShown DEF Attachment
  <2> QED
    BY <2>1, <2>3 DEF Attachment
<1>5. CASE UNCHANGED readerVars
  BY <1>5 DEF readerVars, Attachment
<1> QED
  BY <1>1, <1>2, <1>3, <1>4, <1>5 DEF ReaderNext, ReadNext

-----------------------------------------------------------------------------
\* What was past stays past, when no more than the packets of later units come.
LEMMA PastStays ==
    ASSUME ReaderTypeOK, Sent' \in Nat, Sent <= Sent',
           \A j \in DOMAIN network' : \/ \E i \in DOMAIN network : network'[j] = network[i]
                                      \/ network'[j] \in Packet /\ network'[j][1] > Sent
    PROVE  \A r \in Nat : Past(r) => Past(r)'
<1> SUFFICES ASSUME NEW r \in Nat, Past(r) PROVE Past(r)'
  OBVIOUS
<1>0. Sent \in Nat
  BY ReaderConstantsOK DEF ReaderTypeOK, Sent
<1>1. r < 3 * (Sent' + 1)
  <2>1. r < 3 * (Sent + 1)
    BY DEF Past
  <2>2. \A a, b \in Nat : a <= b /\ r < 3 * (a + 1) => r < 3 * (b + 1)
    OBVIOUS
  <2> QED
    BY <1>0, <2>1, <2>2, Zenon
<1>2. ASSUME NEW j \in DOMAIN network' PROVE r < Rank(network'[j])
  <2>1. CASE \E i \in DOMAIN network : network'[j] = network[i]
    BY <2>1 DEF Past
  <2>2. CASE network'[j] \in Packet /\ network'[j][1] > Sent
    <3>1. 3 * network'[j][1] <= Rank(network'[j]) /\ network'[j][1] \in Nat /\ Rank(network'[j]) \in Nat
      BY <2>2, RankOf
    <3> QED
      BY <1>0, <2>2, <3>1 DEF Past
  <2> QED
    BY <1>2, <2>1, <2>2
<1>3. \A j \in DOMAIN network' : r < Rank(network'[j])
  BY <1>2
<1> QED
  BY <1>1, <1>3 DEF Past, Rank, Sent

\* The first packet is taken, or it and more of its unit.
LEMMA FirstGoes ==
    ASSUME ReaderTypeOK, NetworkInOrder, network # <<>>, UNCHANGED unsent,
           \/ network' = Tail(network)
           \/ network' = Within(network, {p \in Packet : p[1] # network[1][1]})
    PROVE  /\ NetworkInOrder' /\ \A r \in Nat : Past(r) => Past(r)'
           /\ \A r \in Nat : r = Rank(network[1]) => Past(r)'
           /\ network' = Within(network, {p \in Packet : p[1] # network[1][1]})
                 => \A r \in Nat : r = 3 * network[1][1] + 2 => Past(r)'
<1>0. network \in Seq(Packet) /\ Len(network) \in Nat /\ DOMAIN network = 1..Len(network) /\ 1 \in 1..Len(network)
      /\ Sent \in Nat /\ Sent' = Sent
  <2>1. network \in Seq(Packet) /\ unsent \in 0..Units /\ Units \in Nat
    BY ReaderConstantsOK DEF ReaderTypeOK
  <2> QED
    BY <2>1 DEF Sent
<1>a. \A i \in DOMAIN network : network[i] \in Packet
  BY <1>0
<1> DEFINE S == {p \in Packet : p[1] # network[1][1]}
           R == {x \in Packet \X Packet : Rank(x[1]) < Rank(x[2])}
\* Either way: the packets that stay were behind the first, in their order.
<1>1. /\ DOMAIN network' = 1..Len(network')
      /\ \A j \in DOMAIN network' : \E i \in DOMAIN network : i > 1 /\ network'[j] = network[i]
      /\ \A i, j \in DOMAIN network' : i < j => Rank(network'[i]) < Rank(network'[j])
  <2>1. CASE network' = Tail(network)
    <3>1. DOMAIN network' = 1..Len(network') /\ \A j \in DOMAIN network' : j + 1 \in DOMAIN network /\ network'[j] = network[j + 1]
      BY <1>0, <2>1
    <3>2. \A j \in DOMAIN network' : j + 1 > 1 /\ j \in Nat
      BY <3>1
    <3>3. \A i, j \in DOMAIN network' : i < j => Rank(network'[i]) < Rank(network'[j])
      <4> SUFFICES ASSUME NEW i \in DOMAIN network', NEW j \in DOMAIN network', i < j
                   PROVE  Rank(network'[i]) < Rank(network'[j])
        OBVIOUS
      <4>1. i + 1 < j + 1
        BY <3>2
      <4> QED
        BY <3>1, <4>1 DEF NetworkInOrder
    <3> QED
      BY <3>1, <3>2, <3>3
  <2>2. CASE network' = Within(network, S)
    <3> HIDE DEF S
    <3>1. network' \in Seq(S)
      BY <1>0, <2>2, WithinType
    <3>2. Comes(network', network, Len(network))
      BY <1>0, <2>2, WithinComes
    <3>3. Ascends(network, R)
      BY <1>0, <1>a DEF NetworkInOrder, Ascends
    <3>4. Ascends(network', R)
      <4> HIDE DEF R
      <4> QED
        BY <1>0, <2>2, <3>3, WithinAscends
    <3>5. DOMAIN network' = 1..Len(network') /\ \A j \in DOMAIN network' : network'[j] \in S
      BY <3>1
    <3>6. \A j \in DOMAIN network' : network'[j][1] # network[1][1]
      BY <3>5 DEF S
    <3>7. \A j \in DOMAIN network' : \E i \in DOMAIN network : i > 1 /\ network'[j] = network[i]
      <4> TAKE j \in DOMAIN network'
      <4>1. PICK i \in 1..Len(network) : network'[j] = network[i]
        BY <3>2, <3>5 DEF Comes
      <4>2. i # 1
        BY <3>6, <4>1
      <4> QED
        BY <1>0, <4>1, <4>2
    <3>8. \A i, j \in DOMAIN network' : i < j => Rank(network'[i]) < Rank(network'[j])
      BY <3>4, <3>5 DEF Ascends
    <3> QED
      BY <3>5, <3>7, <3>8
  <2> QED
    BY <2>1, <2>2
<1>2. NetworkInOrder'
  <2>1. \A j \in DOMAIN network' : PartOf(network'[j], network'[j][1]) /\ network'[j][1] <= Sent'
    BY <1>0, <1>1 DEF NetworkInOrder
  <2> QED
    BY <1>1, <2>1 DEF NetworkInOrder, PartOf, Rank, Sent
<1>3. \A r \in Nat : Past(r) => Past(r)'
  <2>1. \A j \in DOMAIN network' :
          \/ \E i \in DOMAIN network : network'[j] = network[i]
          \/ network'[j] \in Packet /\ network'[j][1] > Sent
    <3> TAKE j \in DOMAIN network'
    <3>1. PICK i \in DOMAIN network : network'[j] = network[i]
      BY <1>1
    <3> QED
      BY <3>1, Zenon
  <2>2. Sent' \in Nat /\ Sent <= Sent'
    BY <1>0
  <2> QED
    BY <2>1, <2>2, PastStays
<1>4. network[1] \in Packet /\ Rank(network[1]) \in Nat /\ network[1][1] \in Nat /\ network[1][1] <= Sent
      /\ Rank(network[1]) <= 3 * network[1][1] + 2 /\ 3 * network[1][1] <= Rank(network[1])
  BY <1>0, <1>a, RankOf DEF NetworkInOrder
<1>5. \A j \in DOMAIN network' : network'[j] \in Packet /\ Rank(network[1]) < Rank(network'[j])
  BY <1>0, <1>1, <1>a DEF NetworkInOrder
<1>6. ASSUME NEW r \in Nat, r <= 3 * network[1][1] + 2, \A j \in DOMAIN network' : r < Rank(network'[j])
      PROVE  Past(r)'
  <2>1. r < 3 * (Sent' + 1)
    BY <1>0, <1>4, <1>6
  <2> QED
    BY <1>6, <2>1 DEF Past, Rank, Sent
<1>7. ASSUME NEW r \in Nat, r = Rank(network[1]) PROVE Past(r)'
  <2>1. \A j \in DOMAIN network' : r < Rank(network'[j])
    BY <1>5, <1>7
  <2>2. r <= 3 * network[1][1] + 2
    BY <1>4, <1>7
  <2> QED
    BY <1>6, <2>1, <2>2
<1>c. ASSUME network' = Within(network, S), NEW j \in DOMAIN network' PROVE network'[j][1] # network[1][1]
  <2> HIDE DEF S
  <2>1. network' \in Seq(S)
    BY <1>0, <1>c, WithinType
  <2>2. network'[j] \in S
    BY <1>c, <2>1
  <2> QED
    BY <2>2 DEF S
<1>8. ASSUME network' = Within(network, S), NEW r \in Nat, r = 3 * network[1][1] + 2 PROVE Past(r)'
  <2> DEFINE u == network[1][1]
  <2>1. ASSUME NEW j \in DOMAIN network' PROVE 3 * u + 2 < Rank(network'[j])
    <3>1. /\ network'[j][1] # u /\ Rank(network[1]) < Rank(network'[j]) /\ network'[j] \in Packet
      BY <1>5, <1>8, <1>c, <2>1
    <3>2. network'[j][1] \in Nat /\ Rank(network'[j]) \in Nat /\ Rank(network'[j]) <= 3 * network'[j][1] + 2
          /\ 3 * network'[j][1] <= Rank(network'[j])
      BY <3>1, RankOf
    <3> DEFINE v == network'[j][1]
               q == Rank(network'[j])
    <3>3. /\ u \in Nat /\ v \in Nat /\ q \in Nat /\ v # u
          /\ 3 * u <= Rank(network[1]) /\ Rank(network[1]) < q /\ q <= 3 * v + 2 /\ 3 * v <= q
          /\ Rank(network[1]) \in Nat
      BY <1>4, <3>1, <3>2
    <3> HIDE DEF u, v, q
    <3>4. v > u
      BY <3>3
    <3> QED
      BY <3>3, <3>4 DEF q
  <2>2. r <= 3 * network[1][1] + 2 /\ \A j \in DOMAIN network' : r < Rank(network'[j])
    BY <1>4, <1>8, <2>1
  <2> QED
    BY <1>6, <2>2
<1> QED
  BY <1>2, <1>3, <1>7, <1>8

\* A unit is sent: its packets come after all others.
LEMMA UnitComes ==
    ASSUME ReaderTypeOK, NetworkInOrder, SendUnit
    PROVE  /\ NetworkInOrder' /\ \A r \in Nat : Past(r) => Past(r)'
<1> DEFINE u == Sent + 1
           s == PacketsOf(u)
<1>1. /\ u \in Unit /\ Sent' = u /\ Sent \in Nat /\ u \in Nat /\ network' = network \o s
      /\ network' \in Seq(Packet) /\ network \in Seq(Packet)
  <2>1. network \in Seq(Packet)
    BY DEF ReaderTypeOK
  <2> QED
    BY <2>1, SendTyped
<1>2. /\ s \in Seq(Packet) /\ \A k \in 1..Len(s) : s[k][1] = u /\ PartOf(s[k], u)
      /\ \A k, l \in 1..Len(s) : k < l => Rank(s[k]) < Rank(s[l])
  BY <1>1, UnitPackets
<1> HIDE DEF s
\* An element of network' is one of the network or one of the unit.
<1>3. /\ DOMAIN network = 1..Len(network) /\ DOMAIN network' = 1..Len(network') /\ Len(network) \in Nat /\ Len(s) \in Nat
      /\ Len(network') = Len(network) + Len(s)
      /\ \A j \in 1..Len(network) : network'[j] = network[j]
      /\ \A j \in 1..Len(network') : j > Len(network) => j - Len(network) \in 1..Len(s) /\ network'[j] = s[j - Len(network)]
  BY <1>1, <1>2
<1>4. ASSUME NEW j \in DOMAIN network'
      PROVE  \/ j \in DOMAIN network /\ network'[j] = network[j]
             \/ j - Len(network) \in 1..Len(s) /\ network'[j] = s[j - Len(network)] /\ j > Len(network)
  <2>1. j \in Nat /\ j >= 1
    BY <1>3, <1>4
  <2>2. j <= Len(network) \/ j > Len(network)
    BY <1>3, <2>1
  <2> QED
    BY <1>3, <1>4, <2>1, <2>2
<1>5. \A i \in DOMAIN network : network[i] \in Packet
  BY <1>1
<1>6. \A j \in DOMAIN network' : network'[j] \in Packet
  BY <1>1, <1>3
<1>7. ASSUME NEW j \in DOMAIN network' PROVE PartOf(network'[j], network'[j][1]) /\ network'[j][1] <= Sent'
  <2>1. CASE j \in DOMAIN network /\ network'[j] = network[j]
    <3>1. network[j] \in Packet /\ network[j][1] <= Sent /\ PartOf(network[j], network[j][1])
      BY <1>5, <2>1 DEF NetworkInOrder
    <3>2. network[j][1] \in Nat
      BY <3>1, RankOf
    <3> QED
      BY <1>1, <2>1, <3>1, <3>2
  <2>2. CASE j - Len(network) \in 1..Len(s) /\ network'[j] = s[j - Len(network)]
    BY <1>1, <1>2, <2>2
  <2> QED
    BY <1>4, <2>1, <2>2
\* Those of the network are of units that were sent before.
<1>8. ASSUME NEW i \in DOMAIN network, NEW k \in 1..Len(s)
      PROVE  Rank(network[i]) < Rank(s[k])
  <2>1. network[i] \in Packet /\ network[i][1] <= Sent
    BY <1>5 DEF NetworkInOrder
  <2>2. s[k] \in Packet /\ s[k][1] = u
    BY <1>2
  <2>3. Rank(network[i]) \in Nat /\ Rank(s[k]) \in Nat
    BY <2>1, <2>2, RankOf
  <2>4. Rank(network[i]) <= 3 * Sent + 2
    BY <1>1, <2>1, RankOrders
  <2>5. Rank(s[k]) >= 3 * u
    BY <2>2, RankOf
  <2>6. 3 * Sent + 2 < 3 * u /\ 3 * Sent + 2 \in Nat /\ 3 * u \in Nat
    BY <1>1
  <2> QED
    BY <2>3, <2>4, <2>5, <2>6
<1>9. ASSUME NEW i \in DOMAIN network', NEW j \in DOMAIN network', i < j
      PROVE  Rank(network'[i]) < Rank(network'[j])
  <2>0. i \in Nat /\ j \in Nat
    BY <1>3
  <2>1. CASE j \in DOMAIN network /\ network'[j] = network[j]
    <3>1. i \in DOMAIN network /\ network'[i] = network[i]
      BY <1>3, <1>9, <2>0, <2>1
    <3> QED
      BY <1>9, <2>1, <3>1 DEF NetworkInOrder
  <2>2. CASE j - Len(network) \in 1..Len(s) /\ network'[j] = s[j - Len(network)]
    <3>1. CASE i \in DOMAIN network /\ network'[i] = network[i]
      BY <1>8, <2>2, <3>1
    <3>2. CASE i - Len(network) \in 1..Len(s) /\ network'[i] = s[i - Len(network)]
      <4>1. i - Len(network) < j - Len(network)
        BY <1>3, <1>9, <2>0
      <4> QED
        BY <1>2, <2>2, <3>2, <4>1
    <3> QED
      BY <1>4, <3>1, <3>2
  <2> QED
    BY <1>4, <2>1, <2>2
<1>10. NetworkInOrder'
  BY <1>7, <1>9 DEF NetworkInOrder, PartOf, Rank, Sent
<1>11. \A r \in Nat : Past(r) => Past(r)'
  <2>1. \A j \in DOMAIN network' :
          \/ \E i \in DOMAIN network : network'[j] = network[i]
          \/ network'[j] \in Packet /\ network'[j][1] > Sent
    <3> TAKE j \in DOMAIN network'
    <3>1. CASE j \in DOMAIN network /\ network'[j] = network[j]
      BY <3>1, Zenon
    <3>2. CASE j - Len(network) \in 1..Len(s) /\ network'[j] = s[j - Len(network)]
      <4>1. network'[j][1] = u /\ network'[j] \in Packet /\ u > Sent
        BY <1>1, <1>2, <1>6, <3>2
      <4> QED
        BY <4>1, Zenon
    <3> QED
      BY <1>4, <3>1, <3>2
  <2>2. Sent' \in Nat /\ Sent <= Sent'
    BY <1>1
  <2> QED
    BY <2>1, <2>2, PastStays
<1> QED
  BY <1>10, <1>11

\* As long as no packet is overtaken, the network keeps the order of sending, and
\* what is past stays past.
LEMMA NetworkStep ==
    ASSUME ReaderTypeOK, ReaderTypeOK', [ReaderNext]_readerVars, ~overtaken => NetworkInOrder, ~overtaken'
    PROVE  ~overtaken /\ NetworkInOrder' /\ \A r \in Nat : Past(r) => Past(r)'
<1>0. ASSUME UNCHANGED <<network, unsent, overtaken>>
      PROVE  ~overtaken /\ NetworkInOrder' /\ \A r \in Nat : Past(r) => Past(r)'
  BY <1>0 DEF NetworkInOrder, Past, Rank, PartOf, Sent
<1>1. CASE Register \/ Announce \/ Return \/ SetSink \/ EndTrack \/ StopReading \/ UNCHANGED readerVars
  BY <1>0, <1>1 DEF Register, Announce, Return, SetSink, EndTrack, StopReading, readerVars, pipeline, history
<1>2. CASE SendUnit
  <2>1. UNCHANGED overtaken
    BY <1>2 DEF SendUnit, history
  <2> QED
    BY <1>2, <2>1, UnitComes
<1>3. CASE LosePacket
  <2>1. UNCHANGED <<overtaken, unsent>> /\ network' = Tail(network) /\ network # <<>>
    BY <1>3 DEF LosePacket, history
  <2> QED
    BY <2>1, FirstGoes
<1>4. ASSUME NEW i \in {1, 2}, ReadPacket(i)
      PROVE  ~overtaken /\ NetworkInOrder' /\ \A r \in Nat : Past(r) => Past(r)'
  <2>1. network' = RemoveAt(network, i) /\ overtaken' = (overtaken \/ i > 1) /\ i \in DOMAIN network /\ UNCHANGED unsent
    BY <1>4 DEF ReadPacket
  <2>2. i = 1 /\ ~overtaken
    <3>1. ~overtaken /\ ~(i > 1)
      BY <2>1, Zenon
    <3> QED
      BY <1>4, <3>1
  <2>3. network \in Seq(Packet) /\ 1 \in 1..Len(network)
    BY <2>1, <2>2 DEF ReaderTypeOK
  <2>4. network' = Tail(network) /\ network # <<>>
    BY <2>1, <2>2, <2>3, Removed
  <2> QED
    BY <2>1, <2>2, <2>4, FirstGoes
<1>5. CASE NativeFrame
  <2>1. UNCHANGED <<overtaken, unsent>> /\ network' = Within(network, {p \in Packet : p[1] # network[1][1]}) /\ network # <<>>
    BY <1>5 DEF NativeFrame
  <2> QED
    BY <2>1, FirstGoes
<1> QED
  BY <1>1, <1>2, <1>3, <1>4, <1>5 DEF ReaderNext, ReadNext

-----------------------------------------------------------------------------
\* The packet that is read comes after all that was read before.
LEMMA ReadNextPacket ==
    ASSUME ReaderTypeOK, NetworkInOrder, HeardIsPast, NEW k \in {1, 2}, ReadPacket(k), ~overtaken',
           NEW p, p = network[1]
    PROVE  /\ k = 1 /\ p \in Packet /\ PartOf(p, p[1]) /\ p[1] \in Unit /\ p[1] \in Nat /\ Rank(p) \in Nat
           /\ \A r \in Nat : Past(r) => r < Rank(p)
           /\ \A q \in heard : q \in Packet /\ Rank(q) \in Nat /\ Rank(q) < Rank(p)
           /\ heard' = heard \cup {p}
           /\ \A r \in Nat : Past(r) => Past(r)'
           /\ \A r \in Nat : r = Rank(p) => Past(r)'
<1>1. /\ network' = RemoveAt(network, k) /\ k \in DOMAIN network /\ UNCHANGED unsent
      /\ heard' = heard \cup {network[k]} /\ overtaken' = (overtaken \/ k > 1)
  BY DEF ReadPacket
<1>2. k = 1
  <2>1. ~(k > 1)
    BY <1>1, Zenon
  <2> QED
    BY <2>1
<1>3. network \in Seq(Packet) /\ 1 \in DOMAIN network /\ 1 \in 1..Len(network)
  BY <1>1, <1>2 DEF ReaderTypeOK
<1>4. network' = Tail(network) /\ network # <<>> /\ p \in Packet
  BY <1>1, <1>2, <1>3, Removed
<1>5. p[1] \in Unit /\ p[1] \in Nat /\ Rank(p) \in Nat
  BY <1>4, RankOf
<1>6. PartOf(p, p[1]) /\ \A r \in Nat : Past(r) => r < Rank(p)
  BY <1>3 DEF NetworkInOrder, Past
<1>7. ASSUME NEW q \in heard PROVE q \in Packet /\ Rank(q) \in Nat /\ Rank(q) < Rank(p)
  <2>1. q \in Packet
    BY DEF ReaderTypeOK
  <2> QED
    BY <1>6, <2>1, RankOf DEF HeardIsPast
<1>8. /\ \A r \in Nat : Past(r) => Past(r)'
      /\ \A r \in Nat : r = Rank(p) => Past(r)'
  BY <1>1, <1>4, FirstGoes
<1> QED
  BY <1>1, <1>2, <1>4, <1>5, <1>6, <1>7, <1>8

LEMMA HeardStep ==
    ASSUME ReaderTypeOK, ReaderTypeOK', NetworkInOrder, HeardIsPast, [ReaderNext]_readerVars, ~overtaken'
    PROVE  HeardIsPast'
<1>0. \A r \in Nat : Past(r) => Past(r)'
  BY NetworkStep
<1>2. \A q \in heard : PartOf(q, q[1]) /\ Past(Rank(q))'
  <2> TAKE q \in heard
  <2>1. q \in Packet /\ Rank(q) \in Nat
    BY RankOf DEF ReaderTypeOK
  <2> QED
    BY <1>0, <2>1 DEF HeardIsPast
<1>3. ASSUME UNCHANGED heard PROVE HeardIsPast'
  BY <1>2, <1>3 DEF HeardIsPast, PartOf
<1>4. CASE Register \/ Announce \/ Return \/ SetSink \/ SendUnit \/ LosePacket \/ NativeFrame \/ EndTrack \/ StopReading
           \/ UNCHANGED readerVars
  BY <1>3, <1>4 DEF Register, Announce, Return, SetSink, SendUnit, LosePacket, NativeFrame, EndTrack, StopReading,
                    readerVars, pipeline, history
<1>5. ASSUME NEW k \in {1, 2}, ReadPacket(k) PROVE HeardIsPast'
  <2>1. PICK p : p = network[1]
    OBVIOUS
  <2>2. heard' = heard \cup {p} /\ PartOf(p, p[1]) /\ Rank(p) \in Nat /\ \A r \in Nat : r = Rank(p) => Past(r)'
    BY <1>5, <2>1, ReadNextPacket
  <2>3. Past(Rank(p))'
    BY <2>2
  <2> QED
    BY <1>2, <2>2, <2>3 DEF HeardIsPast, PartOf
<1> QED
  BY <1>4, <1>5 DEF ReaderNext, ReadNext

\* The kinds of packets a unit has.
LEMMA Kinds ==
    ASSUME NEW p \in Packet, PartOf(p, p[1])
    PROVE  /\ p = <<p[1], p[2]>>
           /\ p[2] = "single" <=> p[1] \in Singles
           /\ p[2] = "start" <=> Rank(p) = 3 * p[1]
<1>1. p = <<p[1], p[2]>> /\ p[1] \in Unit /\ p[2] \in {"single", "start", "middle", "end"}
  BY DEF Packet
<1>2. p[1] \in Nat
  BY RankOf
<1>3. p[2] = "start" <=> Rank(p) = 3 * p[1]
  <2>1. Place(p[2]) \in 0..2 /\ (p[2] = "start" <=> Place(p[2]) = 0)
    BY <1>1 DEF Place
  <2> QED
    BY <1>2, <2>1 DEF Rank
<1>4. p[2] = "single" <=> p[1] \in Singles
  <2>1. Range(PacketsOf(p[1])) = IF p[1] \in Singles THEN {<<p[1], "single">>}
                                 ELSE {<<p[1], "start">>, <<p[1], "middle">>, <<p[1], "end">>}
    BY <1>1, UnitPackets
  <2>2. \A k, l : <<p[1], k>> = <<p[1], l>> => k = l
    OBVIOUS
  <2>3. p[1] \in Singles => p[2] = "single"
    BY <1>1, <2>1, <2>2 DEF PartOf
  <2>4. p[1] \notin Singles => p[2] # "single"
    BY <1>1, <2>1, <2>2 DEF PartOf
  <2> QED
    BY <2>3, <2>4
<1> QED
  BY <1>1, <1>3, <1>4

LEMMA StartRank ==
    ASSUME NEW v \in Unit
    PROVE  /\ <<v, "start">> \in Packet /\ Rank(<<v, "start">>) = 3 * v /\ v \in Nat
           /\ \A p \in Packet : p[1] = v /\ p[2] = "start" <=> p = <<v, "start">>
<1>1. v \in Nat
  BY ReaderConstantsOK DEF Unit
<1>2. <<v, "start">> \in Packet /\ <<v, "start">>[1] = v /\ <<v, "start">>[2] = "start"
  BY DEF Packet
<1>3. Rank(<<v, "start">>) = 3 * v
  BY <1>1, <1>2 DEF Rank, Place
<1>4. \A p \in Packet : p = <<p[1], p[2]>>
  BY DEF Packet
<1> QED
  BY <1>1, <1>2, <1>3, <1>4

LEMMA BufferStep ==
    ASSUME ReaderTypeOK, NetworkInOrder, HeardIsPast, BufferFromStart, [ReaderNext]_readerVars, ~overtaken'
    PROVE  BufferFromStart'
<1>1. ASSUME UNCHANGED <<heard, auBuffer>> PROVE BufferFromStart'
  BY <1>1 DEF BufferFromStart
<1>2. CASE Register \/ Announce \/ Return \/ SetSink \/ SendUnit \/ LosePacket \/ NativeFrame \/ EndTrack \/ StopReading
           \/ UNCHANGED readerVars
  BY <1>1, <1>2 DEF Register, Announce, Return, SetSink, SendUnit, LosePacket, NativeFrame, EndTrack, StopReading,
                    readerVars, pipeline, history
<1>3. ASSUME NEW k \in {1, 2}, ReadPacket(k) PROVE BufferFromStart'
  <2>0. PICK p : p = network[1]
    OBVIOUS
  <2>1. /\ k = 1 /\ p \in Packet /\ PartOf(p, p[1]) /\ p[1] \in Unit /\ p[1] \in Nat /\ Rank(p) \in Nat
        /\ \A q \in heard : q \in Packet /\ Rank(q) \in Nat /\ Rank(q) < Rank(p)
        /\ heard' = heard \cup {p}
    BY <1>3, <2>0, ReadNextPacket
  <2>2. /\ p[2] = "single" => auBuffer' = auBuffer
        /\ p[2] = "start" => auBuffer' = {p}
        /\ p[2] \notin {"single", "start"} => auBuffer' = auBuffer \cup {p}
    BY <1>3, <2>0, <2>1, Zenon DEF ReadPacket, Appended
  <2>3. auBuffer' \subseteq heard'
    BY <2>1, <2>2 DEF BufferFromStart
  <2>4. ASSUME NEW v \in Unit, <<v, "start">> \in heard' 
        PROVE  /\ \A q \in auBuffer' : q[1] >= v
               /\ (\A w \in Unit : w > v => <<w, "start">> \notin heard')
                     => \A q \in heard' : q[1] = v => q \in auBuffer'
    <3>1. v \in Nat /\ Rank(<<v, "start">>) = 3 * v /\ (p[1] = v /\ p[2] = "start" <=> p = <<v, "start">>)
      BY <2>1, StartRank
    <3>2. p[1] >= v
      <4>1. CASE <<v, "start">> \in heard
        <5>1. 3 * v < Rank(p)
          BY <2>1, <3>1, <4>1
        <5>2. Rank(p) <= 3 * p[1] + 2
          BY <2>1, RankOf
        <5> QED
          BY <2>1, <3>1, <5>1, <5>2
      <4>2. CASE <<v, "start">> = p
        BY <2>1, <3>1, <4>2
      <4> QED
        BY <2>1, <2>4, <4>1, <4>2
    <3>3. CASE p[2] = "start"
      <4>1. auBuffer' = {p}
        BY <2>2, <3>3
      <4>2. ASSUME \A w \in Unit : w > v => <<w, "start">> \notin heard', NEW q \in heard', q[1] = v
            PROVE  q = p
        <5>1. p = <<p[1], "start">> /\ Rank(p) = 3 * p[1]
          BY <2>1, <3>3, Kinds
        <5>2. ~(p[1] > v)
          BY <2>1, <4>2, <5>1
        <5>3. p[1] = v
          BY <2>1, <3>1, <3>2, <5>2
        <5>4. q \in heard => Rank(q) < 3 * v
          BY <2>1, <5>1, <5>3
        <5>5. q \in heard => 3 * v <= Rank(q) /\ Rank(q) \in Nat
          BY <2>1, <4>2, RankOf
        <5>6. q \notin heard
          BY <3>1, <5>4, <5>5
        <5> QED
          BY <2>1, <5>6
      <4> QED
        BY <3>2, <4>1, <4>2
    <3>4. CASE p[2] # "start"
      <4>1. <<v, "start">> \in heard
        BY <2>1, <2>4, <3>1, <3>4
      <4>2. /\ \A q \in auBuffer : q[1] >= v
            /\ (\A w \in Unit : w > v => <<w, "start">> \notin heard')
                  => \A q \in heard : q[1] = v => q \in auBuffer
        BY <2>1, <4>1 DEF BufferFromStart
      <4>3. CASE p[2] = "single"
        <5>1. p[1] # v
          <6>1. PartOf(<<v, "start">>, v) /\ <<v, "start">> \in Packet /\ <<v, "start">>[1] = v /\ <<v, "start">>[2] = "start"
            BY <2>1, <4>1 DEF HeardIsPast
          <6>2. v \notin Singles
            BY <6>1, Kinds
          <6>3. p[1] \in Singles
            BY <2>1, <4>3, Kinds
          <6> QED
            BY <6>2, <6>3
        <5> QED
          BY <2>1, <2>2, <4>2, <4>3, <5>1
      <4>4. CASE p[2] # "single"
        <5>1. auBuffer' = auBuffer \cup {p}
          BY <2>2, <3>4, <4>4
        <5> QED
          BY <2>1, <3>2, <4>2, <5>1
      <4> QED
        BY <4>3, <4>4
    <3> QED
      BY <3>3, <3>4
  <2> QED
    BY <2>3, <2>4 DEF BufferFromStart
<1> QED
  BY <1>2, <1>3 DEF ReaderNext, ReadNext

\* What the decoder is fed with at the end of a unit: of that unit only, if its
\* start was read; and the whole unit, if all of it was read.
LEMMA ReadLast ==
    ASSUME ReaderTypeOK, NetworkInOrder, HeardIsPast, BufferFromStart,
           NEW k \in {1, 2}, ReadPacket(k), ~overtaken', NEW p, p = network[1], p[2] \in {"single", "end"},
           NEW au, au = IF p[2] = "single" THEN {p} ELSE Appended(p)
    PROVE  /\ p \in au
           /\ <<p[1], "start">> \in heard' \/ p[1] \in Singles => au \subseteq Range(PacketsOf(p[1]))
           /\ Range(PacketsOf(p[1])) \subseteq heard' => au = Range(PacketsOf(p[1]))
           /\ \A v \in Unit : au = Range(PacketsOf(v)) => v = p[1]
<1> DEFINE u == p[1]
<1>1. /\ p \in Packet /\ PartOf(p, u) /\ u \in Unit /\ u \in Nat /\ Rank(p) \in Nat
      /\ \A q \in heard : q \in Packet /\ Rank(q) \in Nat /\ Rank(q) < Rank(p)
      /\ heard' = heard \cup {p}
  BY ReadNextPacket
<1>2. Rank(p) = 3 * u + 2 /\ (p[2] = "single" <=> u \in Singles) /\ p = <<u, p[2]>>
  BY <1>1, RankOf, Kinds
<1>3. Range(PacketsOf(u)) = IF u \in Singles THEN {<<u, "single">>}
                            ELSE {<<u, "start">>, <<u, "middle">>, <<u, "end">>}
  BY <1>1, UnitPackets
<1>4. p \in au
  BY DEF Appended
<1>5. \A v \in Unit : au = Range(PacketsOf(v)) => v = u
  <2> SUFFICES ASSUME NEW v \in Unit, au = Range(PacketsOf(v)) PROVE v = u
    OBVIOUS
  <2>1. \A q \in Range(PacketsOf(v)) : q[1] = v
    BY UnitPackets DEF Range
  <2> QED
    BY <1>4, <2>1
<1>6. CASE p[2] = "single"
  <2>1. au = {p} /\ Range(PacketsOf(u)) = {p}
    BY <1>2, <1>3, <1>6
  <2> QED
    BY <1>4, <1>5, <2>1
<1>7. CASE p[2] = "end"
  <2>1. au = auBuffer \cup {p} /\ u \notin Singles
    BY <1>2, <1>7 DEF Appended
  <2>2. ASSUME <<u, "start">> \in heard'
        PROVE  /\ \A q \in auBuffer : q[1] >= u
               /\ \A q \in heard : q[1] = u => q \in auBuffer
    <3>1. <<u, "start">> \in heard
      <4>1. <<u, "start">>[2] = "start"
        OBVIOUS
      <4> QED
        BY <1>1, <1>7, <2>2, <4>1
    <3>2. ASSUME NEW w \in Unit, w > u, <<w, "start">> \in heard PROVE FALSE
      <4>1. 3 * w < 3 * u + 2 /\ w \in Nat
        BY <1>1, <1>2, <3>2, StartRank
      <4> QED
        BY <1>1, <3>2, <4>1
    <3> QED
      BY <1>1, <3>1, <3>2 DEF BufferFromStart
  <2>3. ASSUME <<u, "start">> \in heard', NEW q \in auBuffer PROVE q \in Range(PacketsOf(u))
    <3>1. q \in heard /\ q \in Packet /\ q[1] >= u /\ PartOf(q, q[1])
      BY <1>1, <2>2, <2>3 DEF BufferFromStart, HeardIsPast
    <3>2. Rank(q) < 3 * u + 2 /\ 3 * q[1] <= Rank(q) /\ q[1] \in Nat /\ Rank(q) \in Nat
      BY <1>1, <1>2, <3>1, RankOf
    <3>3. q[1] = u
      BY <1>1, <3>1, <3>2
    <3> QED
      BY <3>1, <3>3 DEF PartOf
  <2>4. <<u, "start">> \in heard' => au \subseteq Range(PacketsOf(u))
    BY <1>1, <2>1, <2>3 DEF PartOf
  <2>5. Range(PacketsOf(u)) \subseteq heard' => au = Range(PacketsOf(u))
    <3> SUFFICES ASSUME Range(PacketsOf(u)) \subseteq heard' PROVE au = Range(PacketsOf(u))
      OBVIOUS
    <3>1. <<u, "start">> \in heard'
      BY <1>3, <2>1
    <3>2. \A q \in Range(PacketsOf(u)) : q[1] = u
      BY <1>3, <2>1
    <3>3. ASSUME NEW q \in Range(PacketsOf(u)) PROVE q \in au
      BY <1>1, <2>1, <2>2, <3>1, <3>2
    <3> QED
      BY <2>4, <3>1, <3>3
  <2> QED
    BY <1>4, <1>5, <2>1, <2>4, <2>5
<1> QED
  BY <1>6, <1>7

-----------------------------------------------------------------------------
\* One more picture in order.
LEMMA OrderedAppend ==
    ASSUME NEW s \in Seq(Picture), NEW x \in Picture, InOrder(s),
           x # Damaged => \A i \in 1..Len(s) : s[i] # Damaged => s[i] < x
    PROVE  InOrder(Append(s, x))
<1> DEFINE t == Append(s, x)
<1>1. /\ DOMAIN t = 1..(Len(s) + 1) /\ DOMAIN s = 1..Len(s) /\ Len(s) \in Nat
      /\ t[Len(s) + 1] = x /\ \A i \in 1..Len(s) : t[i] = s[i]
  BY AppendShown
<1> HIDE DEF t
<1>2. ASSUME NEW i \in DOMAIN t, NEW j \in DOMAIN t, i < j, Damaged \notin {t[i], t[j]}
      PROVE  t[i] < t[j]
  <2>1. i \in 1..Len(s) /\ t[i] = s[i]
    BY <1>1, <1>2
  <2>2. CASE j \in 1..Len(s)
    <3>1. t[j] = s[j]
      BY <1>1, <2>2
    <3> QED
      BY <1>1, <1>2, <2>1, <2>2, <3>1 DEF InOrder
  <2>3. CASE j \notin 1..Len(s)
    <3>1. j = Len(s) + 1
      BY <1>1, <1>2, <2>3
    <3> QED
      BY <1>1, <1>2, <2>1, <3>1
  <2> QED
    BY <2>2, <2>3
<1>3. InOrder(t)
  BY <1>2 DEF InOrder
<1> QED
  BY <1>3 DEF t

\* A picture of a unit that is to come is shown after all others.
LEMMA LaterShown ==
    ASSUME ReaderTypeOK, InOrder(shown), NEW u \in Unit, NEW r \in Nat, r <= 3 * u + 2,
           \A v \in Range(shown) \ {Damaged} : 3 * v + 2 < r
    PROVE  InOrder(Append(shown, u))
<1>1. shown \in Seq(Picture) /\ u \in Picture /\ u \in Nat
  BY ReaderConstantsOK DEF ReaderTypeOK, Picture, Unit
<1>2. ASSUME NEW i \in 1..Len(shown), shown[i] # Damaged PROVE shown[i] < u
  <2>1. shown[i] \in Picture /\ i \in DOMAIN shown
    BY <1>1
  <2>2. shown[i] \in Nat
    BY <1>2, <2>1, ReaderConstantsOK DEF Picture, Unit
  <2>3. 3 * shown[i] + 2 < r
    BY <1>2, <2>1 DEF Range
  <2> QED
    BY <1>1, <2>2, <2>3
<1> QED
  BY <1>1, <1>2, OrderedAppend

\* A unit whose end is past gets no packet any more.
LEMMA PastUnit ==
    ASSUME NEW p \in Packet, NEW v \in Unit, 3 * v + 2 < Rank(p)
    PROVE  /\ p[1] # v /\ p # <<v, "start">> /\ \A q \in Range(PacketsOf(v)) : q # p
<1>1. v \in Nat /\ p[1] \in Nat /\ Rank(p) <= 3 * p[1] + 2 /\ Rank(p) \in Nat
  BY RankOf, ReaderConstantsOK DEF Unit
<1>2. p[1] # v
  BY <1>1
<1>3. \A q \in Range(PacketsOf(v)) : q[1] = v
  BY UnitPackets DEF Range
<1> QED
  BY <1>2, <1>3

LEMMA SettledKept ==
    ASSUME ReaderTypeOK, Settled, \A r \in Nat : Past(r) => Past(r)', UNCHANGED <<fed, heard, peer>>
    PROVE  /\ FedInOneUnit'
           /\ UNCHANGED <<shown, watched>> => WatchedIsShown'
           /\ UNCHANGED shown => ShownInOrder'
<1>1. /\ \A f \in fed : f.unit \in Unit /\ 3 * f.unit + 2 \in Nat
      /\ \A u \in watched : u \in Unit /\ 3 * u + 2 \in Nat
      /\ \A u \in Range(shown) : 3 * u + 2 \in Nat
  <2>1. \A u \in Picture : u \in Nat /\ 3 * u + 2 \in Nat
    BY ReaderConstantsOK DEF Picture, Unit, Damaged
  <2>2. \A u \in Range(shown) : u \in Picture
    BY DEF ReaderTypeOK, Range
  <2>3. \A u \in watched : u \in Unit
    BY DEF ReaderTypeOK
  <2>4. \A f \in fed : f.unit \in Unit
    BY DEF ReaderTypeOK
  <2> QED
    BY <2>1, <2>2, <2>3, <2>4 DEF Picture
<1>2. \A f \in fed : Past(3 * f.unit + 2)' 
  <2> TAKE f \in fed
  <2> QED
    BY <1>1 DEF Settled, FedInOneUnit
<1>3. FedInOneUnit'
  BY <1>2 DEF Settled, FedInOneUnit, PacketsOf
<1>4. ASSUME UNCHANGED <<shown, watched>> PROVE WatchedIsShown'
  <2>1. \A u \in watched : peer.backend = "rs" => Past(3 * u + 2)'
    <3> TAKE u \in watched
    <3> QED
      BY <1>1 DEF Settled, WatchedIsShown
  <2> QED
    BY <1>4, <2>1 DEF Settled, WatchedIsShown, Whole
<1>5. ASSUME UNCHANGED shown PROVE ShownInOrder'
  <2>1. \A u \in Range(shown) \ {Damaged} : peer.prompt => Past(3 * u + 2)'
    <3> TAKE u \in Range(shown) \ {Damaged}
    <3> QED
      BY <1>1 DEF Settled, ShownInOrder
  <2> QED
    BY <1>5, <2>1 DEF Settled, ShownInOrder, InOrder, Range
<1> QED
  BY <1>3, <1>4, <1>5

\* What was fed, watched and shown before stays as it was when a packet of a later
\* unit is read.
LEMMA OldStays ==
    ASSUME ReaderTypeOK, NetworkInOrder, HeardIsPast, Settled, NEW k \in {1, 2}, ReadPacket(k), ~overtaken',
           NEW p, p = network[1]
    PROVE  /\ \A f \in fed : /\ \A r \in Nat : r = 3 * f.unit + 2 => Past(r)'
                             /\ <<f.unit, "start">> \in heard' \/ f.unit \in Singles
                                  => f.of \subseteq Range(PacketsOf(f.unit))
           /\ \A u \in watched : /\ \A r \in Nat : r = 3 * u + 2 => Past(r)'
                                 /\ peer.prompt /\ Range(PacketsOf(u)) \subseteq heard' => u \in Range(shown)
           /\ peer.prompt => \A u \in Range(shown) \ {Damaged} :
                                 /\ \A r \in Nat : r = 3 * u + 2 => Past(r)'
                                 /\ 3 * u + 2 < Rank(p)
<1>1. /\ p \in Packet /\ \A r \in Nat : Past(r) => r < Rank(p)
      /\ heard' = heard \cup {p} /\ \A r \in Nat : Past(r) => Past(r)'
  BY ReadNextPacket
<1>2. /\ \A f \in fed : f.unit \in Unit /\ 3 * f.unit + 2 \in Nat
      /\ \A u \in watched : u \in Unit /\ 3 * u + 2 \in Nat
      /\ \A u \in Range(shown) : 3 * u + 2 \in Nat
  <2>1. \A u \in Picture : u \in Nat /\ 3 * u + 2 \in Nat
    BY ReaderConstantsOK DEF Picture, Unit, Damaged
  <2>2. /\ \A u \in Range(shown) : u \in Picture
        /\ \A u \in watched : u \in Unit /\ u \in Picture
        /\ \A f \in fed : f.unit \in Unit /\ f.unit \in Picture
    BY DEF ReaderTypeOK, Picture, Range
  <2> QED
    BY <2>1, <2>2
<1>3. ASSUME NEW f \in fed
      PROVE  /\ \A r \in Nat : r = 3 * f.unit + 2 => Past(r)'
             /\ <<f.unit, "start">> \in heard' \/ f.unit \in Singles
                  => f.of \subseteq Range(PacketsOf(f.unit))
  <2>1. Past(3 * f.unit + 2) /\ 3 * f.unit + 2 \in Nat /\ f.unit \in Unit
    BY <1>2 DEF Settled, FedInOneUnit
  <2>2. <<f.unit, "start">> # p
    BY <1>1, <2>1, PastUnit
  <2>3. <<f.unit, "start">> \in heard \/ f.unit \in Singles => f.of \subseteq Range(PacketsOf(f.unit))
    BY DEF Settled, FedInOneUnit
  <2> QED
    BY <1>1, <2>1, <2>2, <2>3
<1>4. ASSUME NEW u \in watched
      PROVE  /\ \A r \in Nat : r = 3 * u + 2 => Past(r)'
             /\ peer.prompt /\ Range(PacketsOf(u)) \subseteq heard' => u \in Range(shown)
  <2>1. peer.backend = "rs"
    BY DEF ReadPacket
  <2>2. Past(3 * u + 2) /\ 3 * u + 2 \in Nat /\ u \in Unit /\ (peer.prompt /\ Range(PacketsOf(u)) \subseteq heard => u \in Range(shown))
    BY <1>2, <2>1 DEF Settled, WatchedIsShown, Whole
  <2>3. \A q \in Range(PacketsOf(u)) : q # p
    BY <1>1, <2>2, PastUnit
  <2> QED
    BY <1>1, <2>2, <2>3
<1>5. ASSUME peer.prompt, NEW u \in Range(shown) \ {Damaged}
      PROVE  /\ \A r \in Nat : r = 3 * u + 2 => Past(r)'
             /\ 3 * u + 2 < Rank(p)
  <2>1. Past(3 * u + 2) /\ 3 * u + 2 \in Nat
    BY <1>2, <1>5 DEF Settled, ShownInOrder
  <2> QED
    BY <1>1, <2>1
<1> QED
  BY <1>3, <1>4, <1>5

LEMMA SettledRead ==
    ASSUME ReaderTypeOK, ReaderTypeOK', Attachment, NetworkInOrder, HeardIsPast, BufferFromStart, Settled,
           NEW k \in {1, 2}, ReadPacket(k), ~overtaken'
    PROVE  Settled'
<1>0. PICK p : p = network[1]
  OBVIOUS
<1> DEFINE u == p[1]
<1>1. /\ k = 1 /\ p \in Packet /\ PartOf(p, u) /\ u \in Unit /\ u \in Nat /\ Rank(p) \in Nat
      /\ heard' = heard \cup {p} /\ \A r \in Nat : r = Rank(p) => Past(r)'
  BY <1>0, ReadNextPacket
<1>2. /\ \A f \in fed : /\ \A r \in Nat : r = 3 * f.unit + 2 => Past(r)'
                        /\ <<f.unit, "start">> \in heard' \/ f.unit \in Singles
                             => f.of \subseteq Range(PacketsOf(f.unit))
      /\ \A v \in watched : /\ \A r \in Nat : r = 3 * v + 2 => Past(r)'
                            /\ peer.prompt /\ Range(PacketsOf(v)) \subseteq heard' => v \in Range(shown)
      /\ peer.prompt => \A v \in Range(shown) \ {Damaged} :
                            /\ \A r \in Nat : r = 3 * v + 2 => Past(r)'
                            /\ 3 * v + 2 < Rank(p)
  BY <1>0, OldStays
<1>3. /\ \A f \in fed : f.unit \in Unit /\ 3 * f.unit + 2 \in Nat
      /\ \A v \in watched : v \in Unit /\ 3 * v + 2 \in Nat
      /\ \A v \in Range(shown) : 3 * v + 2 \in Nat
      /\ shown \in Seq(Picture) /\ shown' \in Seq(Picture)
  <2>1. \A v \in Picture : v \in Nat /\ 3 * v + 2 \in Nat
    BY ReaderConstantsOK DEF Picture, Unit, Damaged
  <2>2. /\ \A v \in Range(shown) : v \in Picture
        /\ \A v \in watched : v \in Unit /\ v \in Picture
        /\ \A f \in fed : f.unit \in Unit /\ f.unit \in Picture
        /\ shown \in Seq(Picture) /\ shown' \in Seq(Picture)
    BY DEF ReaderTypeOK, Picture, Range
  <2> QED
    BY <2>1, <2>2
<1>4. UNCHANGED peer /\ peer.backend = "rs" /\ peer \in Peers
  BY DEF ReadPacket, ReaderTypeOK
\* Within a unit nothing is fed.
<1>5. CASE p[2] \in {"start", "middle"}
  <2>1. UNCHANGED <<decoder, shown, fed, watched>>
    BY <1>0, <1>1, <1>5, Zenon DEF ReadPacket
  <2>2. FedInOneUnit'
    <3>1. \A f \in fed : Past(3 * f.unit + 2)'
      BY <1>2, <1>3
    <3> QED
      BY <1>2, <2>1, <3>1 DEF FedInOneUnit, PacketsOf
  <2>3. WatchedIsShown'
    <3>1. \A v \in watched : Past(3 * v + 2)'
      BY <1>2, <1>3
    <3> QED
      BY <1>2, <1>4, <2>1, <3>1 DEF WatchedIsShown, Whole, PacketsOf
  <2>4. ShownInOrder'
    <3>1. peer.prompt => \A v \in Range(shown) \ {Damaged} : Past(3 * v + 2)'
      BY <1>2, <1>3
    <3> QED
      BY <1>4, <2>1, <3>1 DEF ShownInOrder, Settled, InOrder, Range
  <2> QED
    BY <2>2, <2>3, <2>4 DEF Settled
<1>6. CASE p[2] \notin {"start", "middle"}
  <2>0. PICK au : au = IF p[2] = "single" THEN {p} ELSE Appended(p)
    OBVIOUS
  <2>1. /\ Feed(au) /\ fed' = fed \cup {[unit |-> u, of |-> au]}
        /\ watched' = IF sink THEN watched \cup {u} ELSE watched
    BY <1>0, <1>1, <1>6, <2>0, Zenon DEF ReadPacket
  <2>2. p[2] \in {"single", "end"} /\ Rank(p) = 3 * u + 2
    BY <1>1, <1>6, RankOf DEF Packet
  <2>3. /\ <<u, "start">> \in heard' \/ u \in Singles => au \subseteq Range(PacketsOf(u))
        /\ Range(PacketsOf(u)) \subseteq heard' => au = Range(PacketsOf(u))
        /\ \A v \in Unit : au = Range(PacketsOf(v)) => v = u
    BY <1>0, <2>0, <2>2, ReadLast
  <2>4. Past(3 * u + 2)'
    BY <1>1, <2>2
  <2>5. FedInOneUnit'
    <3>1. \A f \in fed : Past(3 * f.unit + 2)'
      BY <1>2, <1>3
    <3>2. \A f \in fed' : f \in fed \/ (f.unit = u /\ f.of = au)
      BY <2>1
    <3>3. \A f \in fed' : Past(3 * f.unit + 2)'
      BY <2>4, <3>1, <3>2
    <3>4. \A f \in fed' : <<f.unit, "start">> \in heard' \/ f.unit \in Singles => f.of \subseteq Range(PacketsOf(f.unit))
      BY <1>2, <2>3, <3>2
    <3> QED
      BY <3>3, <3>4 DEF FedInOneUnit, PacketsOf
  \* What is shown when everything comes in time.
  <2>6. peer.prompt =>
          \/ UNCHANGED shown /\ (Complete(au) => ~sink)
          \/ shown' = Append(shown, Damaged)  /\ ~Complete(au)
          \/ Complete(au) /\ shown' = Append(shown, u)
    <3>1. peer.prompt => decoder = <<>>
      BY DEF Attachment
    <3>2. \A v \in Unit : au = Range(PacketsOf(v)) => v = u /\ Complete(au)
      BY <2>3 DEF Complete
    <3> QED
      BY <2>1, <3>1, <3>2, FeedTyped
  <2>7. Damaged \in Picture /\ u \in Picture
    BY <1>1 DEF Picture
  <2>8. peer.prompt => Range(shown) \subseteq Range(shown')
    <3>1. \A x \in Picture : Range(Append(shown, x)) = Range(shown) \cup {x}
      BY <1>3, AppendShown
    <3>2. UNCHANGED shown => Range(shown') = Range(shown)
      BY DEF Range
    <3> QED
      BY <2>6, <2>7, <3>1, <3>2
  <2>9. WatchedIsShown'
    <3>1. ASSUME NEW v \in watched' PROVE Past(3 * v + 2)'
      BY <1>2, <1>3, <2>1, <2>4
    <3>2. ASSUME NEW v \in watched', peer.prompt, Range(PacketsOf(v)) \subseteq heard' PROVE v \in Range(shown')
      <4>1. CASE v \in watched
        BY <1>2, <2>8, <3>2, <4>1
      <4>2. CASE v \notin watched
        <5>1. v = u /\ sink
          BY <2>1, <4>2
        <5>2. au = Range(PacketsOf(u)) /\ Complete(au)
          BY <1>1, <2>3, <3>2, <5>1, WholeUnits
        <5>3. shown' = Append(shown, u)
          BY <2>6, <3>2, <5>1, <5>2
        <5> QED
          BY <1>3, <2>7, <5>1, <5>3, AppendShown
      <4> QED
        BY <4>1, <4>2
    <3> QED
      BY <1>4, <3>1, <3>2 DEF WatchedIsShown, Whole, PacketsOf
  <2>10. ShownInOrder'
    <3> SUFFICES ASSUME peer.prompt
                 PROVE  InOrder(shown)' /\ \A v \in Range(shown') \ {Damaged} : Past(3 * v + 2)'
      BY <1>4 DEF ShownInOrder, Range
    <3>1. InOrder(shown)
      BY DEF Settled, ShownInOrder
    <3>2. \A v \in Range(shown) \ {Damaged} : Past(3 * v + 2)' /\ 3 * v + 2 < 3 * u + 2
      BY <1>2, <1>3, <2>2
    <3>3. CASE UNCHANGED shown
      BY <3>1, <3>2, <3>3 DEF InOrder, Range
    <3>4. CASE shown' = Append(shown, Damaged)
      <4>1. InOrder(Append(shown, Damaged)) /\ Range(Append(shown, Damaged)) = Range(shown) \cup {Damaged}
        BY <1>3, <2>7, <3>1, OrderedAppend, AppendShown
      <4>2. InOrder(shown)'
        BY <3>4, <4>1 DEF InOrder
      <4> QED
        BY <3>2, <3>4, <4>1, <4>2
    <3>5. CASE shown' = Append(shown, u)
      <4>1. Range(Append(shown, u)) = Range(shown) \cup {u}
        BY <1>3, <2>7, AppendShown
      <4>2. InOrder(Append(shown, u))
        <5> DEFINE r == 3 * u + 2
        <5>1. r \in Nat /\ r <= 3 * u + 2 /\ \A v \in Range(shown) \ {Damaged} : 3 * v + 2 < r
          BY <1>1, <3>2
        <5> HIDE DEF r
        <5> QED
          BY <1>1, <3>1, <5>1, LaterShown
      <4>3. InOrder(shown)'
        BY <3>5, <4>2 DEF InOrder
      <4> QED
        BY <2>4, <3>2, <3>5, <4>1, <4>3
    <3> QED
      BY <2>6, <3>3, <3>4, <3>5
  <2> QED
    BY <2>5, <2>9, <2>10 DEF Settled
<1> QED
  BY <1>5, <1>6

LEMMA SettledNative ==
    ASSUME ReaderTypeOK, NetworkInOrder, Settled, NativeFrame, \A r \in Nat : Past(r) => Past(r)'
    PROVE  Settled'
<1>0. PICK u : u = network[1][1]
  OBVIOUS
<1>1. /\ network # <<>> /\ network[1] \in Packet /\ u \in Unit /\ u \in Nat /\ u \in Picture
      /\ Rank(network[1]) \in Nat /\ Rank(network[1]) <= 3 * u + 2 /\ shown \in Seq(Picture)
  BY <1>0, NativeTyped, RankOf DEF Picture, ReaderTypeOK
<1>2. /\ UNCHANGED <<peer, fed, heard, unsent>> /\ peer.backend = "sys"
      /\ network' = Within(network, {p \in Packet : p[1] # network[1][1]})
      /\ shown' = (IF attached THEN Append(shown, u) ELSE shown)
  BY <1>0 DEF NativeFrame
<1>3. FedInOneUnit' /\ (UNCHANGED shown => ShownInOrder')
  BY <1>2, SettledKept
<1>4. WatchedIsShown'
  BY <1>2 DEF WatchedIsShown
<1>5. ASSUME shown' = Append(shown, u) PROVE ShownInOrder'
  <2> SUFFICES ASSUME peer.prompt
               PROVE  InOrder(shown)' /\ \A v \in Range(shown') \ {Damaged} : Past(3 * v + 2)'
    BY <1>2 DEF ShownInOrder, Range
  <2>1. InOrder(shown) /\ \A v \in Range(shown) \ {Damaged} : Past(3 * v + 2) /\ 3 * v + 2 \in Nat
    <3>1. \A v \in Picture : v \in Nat /\ 3 * v + 2 \in Nat
      BY ReaderConstantsOK DEF Picture, Unit, Damaged
    <3>2. \A v \in Range(shown) : v \in Picture
      BY <1>1 DEF Range
    <3> QED
      BY <3>1, <3>2 DEF Settled, ShownInOrder
  <2>2. \A r \in Nat : Past(r) => r < Rank(network[1])
    BY <1>1 DEF Past, ReaderTypeOK
  <2>3. InOrder(Append(shown, u))
    <3> DEFINE r == Rank(network[1])
    <3>1. r \in Nat /\ r <= 3 * u + 2 /\ \A v \in Range(shown) \ {Damaged} : 3 * v + 2 < r
      BY <1>1, <2>1, <2>2
    <3> HIDE DEF r
    <3> QED
      BY <1>1, <2>1, <3>1, LaterShown
  <2>4. InOrder(shown)'
    BY <1>5, <2>3 DEF InOrder
  <2>5. Past(3 * u + 2)'
    <3>1. \A r \in Nat : r = 3 * u + 2 => Past(r)'
      BY <1>0, <1>1, <1>2, FirstGoes
    <3>2. 3 * u + 2 \in Nat
      BY <1>1
    <3> QED
      BY <3>1, <3>2
  <2>6. \A v \in Range(shown) \ {Damaged} : Past(3 * v + 2)'
    <3> TAKE v \in Range(shown) \ {Damaged}
    <3> QED
      BY <2>1
  <2>7. Range(Append(shown, u)) = Range(shown) \cup {u}
    BY <1>1, AppendShown
  <2> QED
    BY <1>5, <2>4, <2>5, <2>6, <2>7
<1> QED
  BY <1>2, <1>3, <1>4, <1>5 DEF Settled

LEMMA SettledStep ==
    ASSUME ReaderTypeOK, ReaderTypeOK', Attachment, NetworkInOrder, HeardIsPast, BufferFromStart, Settled,
           [ReaderNext]_readerVars, ~overtaken'
    PROVE  Settled'
<1>0. \A r \in Nat : Past(r) => Past(r)'
  BY NetworkStep
<1>1. CASE Register \/ Announce \/ Return \/ SetSink \/ SendUnit \/ LosePacket \/ EndTrack \/ StopReading
           \/ UNCHANGED readerVars
  <2>1. UNCHANGED <<peer, fed, heard, shown, watched>>
    BY <1>1 DEF Register, Announce, Return, SetSink, SendUnit, LosePacket, EndTrack, StopReading,
                readerVars, pipeline, history
  <2>2. UNCHANGED <<fed, heard, peer>> /\ UNCHANGED <<shown, watched>> /\ UNCHANGED shown
    BY <2>1
  <2>3. FedInOneUnit' /\ WatchedIsShown' /\ ShownInOrder'
    BY <1>0, <2>2, SettledKept, Zenon
  <2> QED
    BY <2>3 DEF Settled
<1>2. CASE NativeFrame
  BY <1>0, <1>2, SettledNative
<1>3. ASSUME NEW k \in {1, 2}, ReadPacket(k) PROVE Settled'
  BY <1>3, SettledRead
<1> QED
  BY <1>1, <1>2, <1>3 DEF ReaderNext, ReadNext

-----------------------------------------------------------------------------
\* As long as no packet overtakes another, packets come in the order of sending and
\* what is past a unit's end settles what becomes of it.
InOrderSoFar == NetworkInOrder /\ HeardIsPast /\ BufferFromStart /\ Settled
ReaderInv == ReaderTypeOK /\ Attachment /\ (~overtaken => InOrderSoFar)

LEMMA ReaderInitInv == ReaderInit => ReaderInv
<1> SUFFICES ASSUME ReaderInit PROVE ReaderInv
  OBVIOUS
<1>1. ReaderTypeOK
  BY ReaderInitTyped
<1>2. /\ callback = "none" /\ reader = "none" /\ attached = FALSE /\ network = <<>> /\ auBuffer = {}
      /\ decoder = <<>> /\ shown = <<>> /\ fed = {} /\ heard = {} /\ watched = {}
  BY DEF ReaderInit, Unheard
<1>3. Attachment
  BY <1>2 DEF Attachment
<1>4. NetworkInOrder /\ HeardIsPast /\ BufferFromStart
  BY <1>2 DEF NetworkInOrder, HeardIsPast, BufferFromStart
<1>5. Settled
  BY <1>2 DEF Settled, FedInOneUnit, WatchedIsShown, ShownInOrder, InOrder, Range
<1> QED
  BY <1>1, <1>3, <1>4, <1>5 DEF ReaderInv, InOrderSoFar

LEMMA ReaderInvStep == ReaderInv /\ [ReaderNext]_readerVars => ReaderInv'
<1> SUFFICES ASSUME ReaderInv, [ReaderNext]_readerVars PROVE ReaderInv'
  OBVIOUS
<1>1. ReaderTypeOK /\ Attachment /\ (~overtaken => InOrderSoFar)
  BY DEF ReaderInv
<1>2. ReaderTypeOK' /\ Attachment'
  BY <1>1, ReaderTypeStep, AttachmentStep
<1>3. ASSUME ~overtaken' PROVE InOrderSoFar'
  <2>1. ~overtaken => NetworkInOrder
    BY <1>1 DEF InOrderSoFar
  <2>2. ~overtaken /\ NetworkInOrder'
    BY <1>1, <1>2, <1>3, <2>1, NetworkStep
  <2>3. NetworkInOrder /\ HeardIsPast /\ BufferFromStart /\ Settled
    BY <1>1, <2>2 DEF InOrderSoFar
  <2>4. HeardIsPast' /\ BufferFromStart' /\ Settled'
    BY <1>1, <1>2, <1>3, <2>3, HeardStep, BufferStep, SettledStep
  <2> QED
    BY <2>2, <2>4 DEF InOrderSoFar
<1> QED
  BY <1>2, <1>3 DEF ReaderInv

LEMMA ReaderInvImplies == ReaderInv => UnitsAreShown
<1> SUFFICES ASSUME ReaderInv PROVE UnitsAreShown
  OBVIOUS
<1>1. DamageStaysInOneUnit
  BY DEF ReaderInv, InOrderSoFar, Settled, FedInOneUnit, DamageStaysInOneUnit
<1>2. peer.backend = "sys" /\ attached => watched \subseteq Range(shown)
  BY DEF ReaderInv, Attachment
<1>3. peer.prompt /\ ~overtaken => InOrder(shown)
  BY DEF ReaderInv, InOrderSoFar, Settled, ShownInOrder
<1>4. ASSUME peer = [backend |-> "rs", prompt |-> TRUE], ~overtaken, NEW u \in watched, Whole(u)
      PROVE  u \in Range(shown)
  <2>1. peer.backend = "rs" /\ peer.prompt
    BY <1>4
  <2> QED
    BY <1>4, <2>1 DEF ReaderInv, InOrderSoFar, Settled, WatchedIsShown
<1> QED
  BY <1>1, <1>2, <1>3, <1>4 DEF UnitsAreShown, WholeUnitIsShown

\* The reader's state stays of its type.
THEOREM ReaderTypes == ReaderSpec => []ReaderTypeOK
<1>1. ReaderInv => ReaderTypeOK
  BY DEF ReaderInv
<1> QED
  BY <1>1, ReaderInitInv, ReaderInvStep, PTL DEF ReaderSpec

\* A remote track is shown as it came, for any number of units: a loss does not
\* leak into the next unit through the buffer that is never cleared, a unit that
\* came whole while a sink was set is shown, and pictures stay in order although
\* every drain empties the decoder from its end (run_decode_pipeline,
\* feed_and_drain and the observer of webrtc-sys).
THEOREM UnitsShown == ReaderSpec => []UnitsAreShown
BY ReaderInitInv, ReaderInvStep, ReaderInvImplies, PTL DEF ReaderSpec

-----------------------------------------------------------------------------
(* SinkWants: the wants of many sinks put together. *)

Pairs == Number \X Number

LEMMA Remainder ==
    ASSUME NEW a \in Nat, NEW b \in Nat, b # 0
    PROVE  /\ a % b \in Nat /\ a % b < b /\ a \div b \in Nat
           /\ a = b * (a \div b) + (a % b)
  OBVIOUS

\* The recursion of gcd does what it says: n turns of the loop are enough where
\* the second number is less than n.
LEMMA GcdDef ==
    \A p \in Pairs : Gcd[p] = IF p[2] = 0 THEN p[1] ELSE Gcd[<<p[2], p[1] % p[2]>>]
  <1> DEFINE V == [Pairs -> Number]
             turn(f) == [p \in Pairs |-> IF p[2] = 0 THEN p[1] ELSE f[<<p[2], p[1] % p[2]>>]]
             step == [x \in Nat \X V |-> turn(x[2])]
             none == [p \in Pairs |-> p[1]]
  <1>1. ASSUME NEW p \in Pairs, p[2] # 0
        PROVE  <<p[2], p[1] % p[2]>> \in Pairs /\ p[1] % p[2] < p[2]
    <2>1. p[1] \in Number /\ p[2] \in Number /\ Width \in Nat
      BY WantsConstantsOK DEF Pairs
    <2>2. p[1] % p[2] \in Nat /\ p[1] % p[2] < p[2]
      BY <1>1, <2>1, Remainder DEF Number
    <2>3. p[1] % p[2] \in Number
      BY <2>1, <2>2 DEF Number
    <2> QED
      BY <2>1, <2>2, <2>3 DEF Pairs
  <1>2. ASSUME NEW f \in V
        PROVE  turn(f) \in V
    <2>1. ASSUME NEW p \in Pairs
          PROVE  (IF p[2] = 0 THEN p[1] ELSE f[<<p[2], p[1] % p[2]>>]) \in Number
      BY <1>1 DEF Pairs
    <2> QED
      BY <2>1
  <1>3. IsStep(step, V) /\ none \in V
    <2>1. none \in V
      BY DEF Pairs
    <2> HIDE DEF V, turn
    <2> QED
      BY <1>2, <2>1 DEF IsStep
  <1>4. PICK g : Unfolds(g, V, none, step)
    <2> HIDE DEF step, V, none
    <2> QED
      BY <1>3, RecursionDefines, Zenon
  <1>5. /\ g[0] = none
        /\ \A n \in Nat : g[n] \in V /\ g[n + 1] = turn(g[n])
    <2>1. \A n \in Nat : <<n, g[n]>> \in Nat \X V
      BY <1>4 DEF Unfolds
    <2> HIDE DEF turn, V
    <2> QED
      BY <1>4, <2>1 DEF Unfolds
  <1>6. ASSUME NEW n \in Nat, NEW p \in Pairs
        PROVE  g[n + 1][p] = IF p[2] = 0 THEN p[1] ELSE g[n][<<p[2], p[1] % p[2]>>]
    <2>1. g[n + 1] = turn(g[n])
      BY <1>5
    <2>2. turn(g[n])[p] = IF p[2] = 0 THEN p[1] ELSE g[n][<<p[2], p[1] % p[2]>>]
      OBVIOUS
    <2> HIDE DEF turn
    <2> QED
      BY <2>1, <2>2
  <1> DEFINE T == {n \in Nat : \A p \in Pairs : p[2] < n + 1 => g[n + 2][p] = g[n + 1][p]}
  <1>7. \A n \in Nat : n \in T
    <2>1. 0 \in T
      <3> SUFFICES ASSUME NEW p \in Pairs, p[2] < 1
                   PROVE  g[2][p] = g[1][p]
        OBVIOUS
      <3>1. p[2] = 0
        BY WantsConstantsOK DEF Pairs, Number
      <3>2. g[0 + 1][p] = p[1] /\ g[1 + 1][p] = p[1]
        BY <3>1, <1>6
      <3> QED
        BY <3>2
    <2>2. ASSUME NEW n \in Nat, n \in T
          PROVE  n + 1 \in T
      <3> SUFFICES ASSUME NEW p \in Pairs, p[2] < n + 2
                   PROVE  g[n + 3][p] = g[n + 2][p]
        OBVIOUS
      <3> DEFINE q == <<p[2], p[1] % p[2]>>
      <3>0. n + 1 \in Nat /\ n + 2 \in Nat /\ (n + 1) + 1 = n + 2 /\ (n + 2) + 1 = n + 3
        OBVIOUS
      <3>1. CASE p[2] = 0
        BY <3>0, <3>1, <1>6
      <3>2. CASE p[2] # 0
        <4>1. q \in Pairs /\ q[2] < n + 1
          <5>1. p[2] \in Nat /\ q[2] \in Nat /\ q[2] < p[2] /\ q \in Pairs
            BY <3>2, <1>1, WantsConstantsOK DEF Pairs, Number
          <5> QED
            BY <5>1
        <4>2. g[n + 2][q] = g[n + 1][q]
          <5> HIDE DEF q
          <5> QED
            BY <2>2, <4>1
        <4>3. g[(n + 2) + 1][p] = g[n + 2][q] /\ g[(n + 1) + 1][p] = g[n + 1][q]
          BY <3>0, <3>2, <1>6
        <4> QED
          BY <3>0, <4>2, <4>3
      <3> QED
        BY <3>1, <3>2
    <2> HIDE DEF T
    <2> QED
      BY <2>1, <2>2, SetInduction
  \* From where it is settled a value stays as it is.
  <1>8. ASSUME NEW p \in Pairs, NEW m \in Nat, m >= p[2] + 1
        PROVE  g[m][p] = g[p[2] + 1][p]
    <2>0. p[2] \in Nat
      BY WantsConstantsOK DEF Pairs, Number
    <2> DEFINE c == p[2]
               S == {n \in Nat : g[c + 1 + n][p] = g[c + 1][p]}
    <2>1. 0 \in S
      BY <2>0
    <2>2. ASSUME NEW n \in Nat, n \in S
          PROVE  n + 1 \in S
      <3>1. c + n \in Nat /\ p[2] < (c + n) + 1 /\ (c + n) + 1 = c + 1 + n /\ (c + n) + 2 = c + 1 + (n + 1)
        BY <2>0
      <3>2. g[(c + n) + 2][p] = g[(c + n) + 1][p]
        BY <3>1, <1>7
      <3> QED
        BY <3>1, <3>2, <2>2
    <2>3. \A n \in Nat : n \in S
      <3> HIDE DEF S
      <3> QED
        BY <2>1, <2>2, SetInduction
    <2>4. m - (c + 1) \in Nat /\ c + 1 + (m - (c + 1)) = m
      BY <1>8, <2>0
    <2> QED
      BY <2>3, <2>4
  <1> DEFINE Body(f) == [p \in Pairs |-> IF p[2] = 0 THEN p[1] ELSE f[<<p[2], p[1] % p[2]>>]]
             h == [p \in Pairs |-> g[p[2] + 1][p]]
  <1>9. h = Body(h)
    <2>1. ASSUME NEW p \in Pairs
          PROVE  h[p] = IF p[2] = 0 THEN p[1] ELSE h[<<p[2], p[1] % p[2]>>]
      <3> DEFINE q == <<p[2], p[1] % p[2]>>
      <3>0. p[2] \in Nat
        BY WantsConstantsOK DEF Pairs, Number
      <3>1. CASE p[2] = 0
        <4>1. g[p[2] + 1][p] = p[1]
          BY <3>0, <3>1, <1>6
        <4> QED
          BY <3>1, <4>1
      <3>2. CASE p[2] # 0
        <4>1. q \in Pairs /\ q[2] \in Nat /\ p[2] >= q[2] + 1
          BY <3>0, <3>2, <1>1, WantsConstantsOK DEF Pairs, Number
        <4>2. g[p[2]][q] = g[q[2] + 1][q]
          <5> HIDE DEF q
          <5> QED
            BY <3>0, <4>1, <1>8
        <4>3. g[p[2] + 1][p] = g[p[2]][q]
          BY <3>0, <3>2, <1>6
        <4> QED
          BY <3>2, <4>1, <4>2, <4>3
      <3> QED
        BY <3>1, <3>2
    <2> HIDE DEF h
    <2>2. h = [p \in Pairs |-> h[p]]
      BY DEF h
    <2> QED
      BY <2>1, <2>2
  <1> DEFINE gcd == Gcd
  <1>10. gcd = CHOOSE f : f = Body(f)
    BY DEF Gcd, Pairs
  <1>11. gcd = Body(gcd)
    <2> HIDE DEF Body, gcd, h
    <2> QED
      BY <1>9, <1>10, Zenon
  <1> HIDE DEF gcd
  <1>12. \A p \in Pairs : gcd[p] = IF p[2] = 0 THEN p[1] ELSE gcd[<<p[2], p[1] % p[2]>>]
    BY <1>11
  <1> QED
    BY <1>12 DEF gcd

\* Products that the provers do not expand when they stand in a larger step.
LEMMA Multiple ==
    ASSUME NEW g \in Int, NEW k \in Int, NEW q \in Int, NEW m \in Int
    PROVE  (g * k) * q + g * m = g * (k * q + m)
  OBVIOUS

LEMMA Bezout ==
    ASSUME NEW b \in Int, NEW q \in Int, NEW r \in Int, NEW x \in Int, NEW y \in Int
    PROVE  b * x + r * y = (b * q + r) * y + b * (x - q * y)
  OBVIOUS

LEMMA Apart ==
    ASSUME NEW a \in Int, NEW b \in Int, NEW x \in Int, NEW y \in Int,
           NEW s \in Int, NEW t \in Int
    PROVE  (a * s) * (b * y) + (b * t) * (a * x) = (a * b) * (s * y + t * x)
  OBVIOUS

Factor(d, n) == \E k \in Int : n = d * k
Combines(g, a, b) == \E x, y \in Int : g = a * x + b * y

\* What gcd returns divides both numbers and is a sum of multiples of them.
Measures(g, a, b) ==
    /\ g \in Number /\ g # 0
    /\ Factor(g, a) /\ Factor(g, b) /\ Combines(g, a, b)

LEMMA GcdMeasures ==
    ASSUME NEW a \in Number, NEW b \in Number, a # 0 \/ b # 0
    PROVE  Measures(Gcd[<<a, b>>], a, b)
  <1>0. Number \subseteq Nat /\ Number \subseteq Int
    BY WantsConstantsOK DEF Number
  <1> DEFINE T == {n \in Nat : \A c, d \in Number :
                      d <= n /\ (c # 0 \/ d # 0) => Measures(Gcd[<<c, d>>], c, d)}
  <1>1. 0 \in T
    <2> SUFFICES ASSUME NEW c \in Number, c # 0
                 PROVE  Measures(Gcd[<<c, 0>>], c, 0)
      BY <1>0
    <2>1. <<c, 0>> \in Pairs
      BY WantsConstantsOK DEF Pairs, Number
    <2>2. Gcd[<<c, 0>>] = c
      BY <2>1, GcdDef
    <2>3. c = c * 1 /\ 0 = c * 0 /\ c = c * 1 + 0 * 0
      BY <1>0
    <2>4. Factor(c, c) /\ Factor(c, 0) /\ Combines(c, c, 0)
      BY <2>3 DEF Factor, Combines
    <2> QED
      BY <2>2, <2>4 DEF Measures
  <1>2. ASSUME NEW n \in Nat, n \in T
        PROVE  n + 1 \in T
    <2> SUFFICES ASSUME NEW c \in Number, NEW d \in Number, d <= n + 1, c # 0 \/ d # 0
                 PROVE  Measures(Gcd[<<c, d>>], c, d)
      OBVIOUS
    <2>1. CASE d <= n
      BY <1>2, <2>1
    <2>2. CASE ~(d <= n)
      <3> DEFINE q == c \div d
                 r == c % d
      <3>0. c \in Nat /\ d \in Nat /\ d # 0
        BY <1>0, <2>2
      <3>1. q \in Nat /\ r \in Nat /\ r < d /\ c = d * q + r
        BY <3>0, Remainder
      <3>2. r \in Number /\ r <= n
        BY <3>0, <3>1, WantsConstantsOK DEF Number
      <3>3. Gcd[<<c, d>>] = Gcd[<<d, r>>]
        <4>1. <<c, d>> \in Pairs
          BY DEF Pairs
        <4> QED
          BY <3>0, <4>1, GcdDef
      <3> HIDE DEF q, r
      <3> DEFINE g == Gcd[<<d, r>>]
      <3>4. Measures(g, d, r)
        BY <1>2, <3>0, <3>2
      <3> HIDE DEF g
      <3>5. PICK k \in Int, m \in Int : d = g * k /\ r = g * m
        BY <3>4 DEF Measures, Factor
      <3>6. PICK x \in Int, y \in Int : g = d * x + r * y
        BY <3>4 DEF Measures, Combines
      <3>7. g \in Int /\ d \in Int /\ q \in Int /\ r \in Int
        BY <1>0, <3>1, <3>4 DEF Measures
      <3>8. Factor(g, c)
        <4>1. c = g * (k * q + m)
          BY <3>1, <3>5, <3>7, Multiple
        <4>2. k * q + m \in Int
          BY <3>7
        <4> QED
          BY <4>1, <4>2 DEF Factor
      <3>9. Combines(g, c, d)
        <4>1. g = c * y + d * (x - q * y)
          BY <3>1, <3>6, <3>7, Bezout
        <4>2. x - q * y \in Int
          BY <3>7
        <4> QED
          BY <4>1, <4>2 DEF Combines
      <3> QED
        BY <3>3, <3>4, <3>8, <3>9 DEF Measures, g
    <2> QED
      BY <2>1, <2>2
  <1>3. \A n \in Nat : n \in T
    <2> HIDE DEF T
    <2> QED
      BY <1>1, <1>2, SetInduction
  <1> QED
    BY <1>0, <1>3

LEMMA Quotient ==
    ASSUME NEW g \in Nat, NEW u \in Int, g # 0, g * u > 0
    PROVE  u > 0 /\ (g * u) \div g = u
  <1>1. u > 0
    <2>1. SUFFICES ASSUME u <= 0 PROVE g * u <= 0
      OBVIOUS
    <2> QED
      BY <2>1
  <1>2. g * u = g * ((g * u) \div g) + ((g * u) % g)
    <2>1. g * u \in Nat
      OBVIOUS
    <2> QED
      BY <2>1, Remainder
  <1> DEFINE d == (g * u) \div g
             r == (g * u) % g
  <1>3. d \in Nat /\ r \in Nat /\ r < g
    BY Remainder
  <1>4. g * (u - d) = r
    <2>1. g * u - g * d = r
      BY <1>2, <1>3
    <2>2. g * u - g * d = g * (u - d)
      BY <1>3
    <2> QED
      BY <2>1, <2>2
  <1> HIDE DEF d, r
  <1>5. u - d = 0
    <2> DEFINE e == u - d
    <2>0. e \in Int /\ g * e = r
      BY <1>3, <1>4
    <2> HIDE DEF e
    <2>1. ~(e >= 1)
      <3>1. e >= 1 => g * e >= g
        BY <2>0
      <3> QED
        BY <1>3, <2>0, <3>1
    <2>2. ~(e <= 0 - 1)
      <3>1. e <= 0 - 1 => g * e <= 0 - g
        BY <2>0
      <3> QED
        BY <1>3, <2>0, <3>1
    <2> QED
      BY <2>0, <2>1, <2>2 DEF e
  <1> QED
    BY <1>1, <1>3, <1>5 DEF d

LEMMA Cancel ==
    ASSUME NEW g \in Int, NEW n \in Int, NEW m \in Int, g # 0, g * n = g * m
    PROVE  n = m
  <1>1. g * (n - m) = 0
    OBVIOUS
  <1> QED
    BY <1>1

LEMMA Regroup ==
    ASSUME NEW g \in Int, NEW u \in Int, NEW v \in Int, NEW z \in Int
    PROVE  /\ u * (g * v) = (g * u) * v
           /\ ((g * u) * v) * z = g * ((u * v) * z)
  OBVIOUS

\* The least common multiple of two numbers other than 0 that have a common
\* multiple at all: lcm finds it, and its product has not wrapped.
LEMMA LcmIsLeast ==
    ASSUME NEW a \in Number, NEW b \in Number, NEW n \in Number, a # 0, b # 0, n # 0,
           Factor(a, n), Factor(b, n)
    PROVE  /\ Lcm(a, b) \in Number /\ Lcm(a, b) # 0
           /\ Factor(a, Lcm(a, b)) /\ Factor(b, Lcm(a, b)) /\ Factor(Lcm(a, b), n)
  <1> DEFINE g == Gcd[<<a, b>>]
  <1>1. Measures(g, a, b)
    BY GcdMeasures
  <1>2. Lcm(a, b) = ((a \div g) * b) % Width
    BY DEF Lcm
  <1> HIDE DEF g
  <1>3. a \in Nat /\ b \in Nat /\ n \in Nat /\ g \in Nat /\ g # 0 /\ Width \in Nat /\ n < Width
    BY <1>1, WantsConstantsOK DEF Number, Measures
  <1>4. PICK u \in Int, v \in Int : a = g * u /\ b = g * v
    BY <1>1 DEF Measures, Factor
  <1>5. PICK x \in Int, y \in Int : g = a * x + b * y
    BY <1>1 DEF Measures, Combines
  <1>6. PICK s \in Int, t \in Int : n = a * s /\ n = b * t
    BY DEF Factor
  <1>7. u > 0 /\ a \div g = u
    BY <1>3, <1>4, Quotient
  <1> DEFINE l == u * b
             z == s * y + t * x
  <1>8. l \in Nat /\ l > 0 /\ z \in Int
    BY <1>3, <1>7
  <1>9. n = l * z
    <2>1. n * g = (b * t) * (a * x) + (a * s) * (b * y)
      <3>1. n * g = n * (a * x) + n * (b * y)
        BY <1>3, <1>5
      <3> QED
        BY <1>6, <3>1
    <2>2. n * g = (a * b) * z
      <3>1. (a * s) * (b * y) + (b * t) * (a * x) = (a * b) * z
        BY <1>3, Apart
      <3>2. (a * s) * (b * y) \in Int /\ (b * t) * (a * x) \in Int
        BY <1>3
      <3> HIDE DEF z
      <3> QED
        BY <2>1, <3>1, <3>2
    <2> HIDE DEF z
    <2>3. (a * b) * z = g * (l * z)
      BY <1>3, <1>4, <1>8, Regroup
    <2> HIDE DEF l
    <2>4. g * n = g * (l * z)
      BY <1>3, <2>2, <2>3
    <2>5. l * z \in Int
      BY <1>8
    <2> QED
      BY <1>3, <2>4, <2>5, Cancel
  <1> HIDE DEF z
  <1>10. l = a * v /\ l = b * u
    BY <1>3, <1>4, Regroup
  <1> HIDE DEF l
  <1>11. l <= n
    <2>1. z >= 1
      <3> SUFFICES ASSUME z <= 0 PROVE FALSE
        BY <1>8
      <3>1. l * z <= 0
        BY <1>8
      <3> QED
        BY <1>3, <1>9, <3>1
    <2>2. l * z >= l
      BY <1>8, <2>1
    <2> QED
      BY <1>9, <2>2
  <1>12. Lcm(a, b) = l
    <2>1. Lcm(a, b) = l % Width
      BY <1>2, <1>7 DEF l
    <2>2. l < Width
      BY <1>3, <1>8, <1>11
    <2> QED
      BY <1>3, <1>8, <2>1, <2>2
  <1>13. l \in Number
    BY <1>3, <1>8, <1>11 DEF Number
  <1>14. Factor(a, l) /\ Factor(b, l) /\ Factor(l, n)
    BY <1>8, <1>9, <1>10 DEF Factor
  <1> QED
    BY <1>8, <1>12, <1>13, <1>14

\* Whatever it is asked, lcm answers a number.
LEMMA LcmTyped ==
    ASSUME NEW a \in Number, NEW b \in Number
    PROVE  Lcm(a, b) \in Number
  <1>1. CASE 0 \in {a, b}
    BY <1>1 DEF Lcm
  <1>2. CASE ~(0 \in {a, b})
    <2> DEFINE g == Gcd[<<a, b>>]
    <2>1. Lcm(a, b) = ((a \div g) * b) % Width
      BY <1>2 DEF Lcm
    <2>2. Measures(g, a, b)
      BY <1>2, GcdMeasures
    <2> HIDE DEF g
    <2>3. a \in Nat /\ b \in Nat /\ g \in Nat /\ g # 0 /\ Width \in Nat /\ Width # 0
      BY <2>2, WantsConstantsOK DEF Number, Measures
    <2>4. (a \div g) * b \in Nat
      <3>1. a \div g \in Nat
        BY <2>3, Remainder
      <3> QED
        BY <2>3, <3>1
    <2>5. ((a \div g) * b) % Width \in Nat /\ ((a \div g) * b) % Width < Width
      <3> DEFINE m == (a \div g) * b
      <3>1. m \in Nat
        BY <2>4
      <3> HIDE DEF m
      <3>2. m % Width \in Nat /\ m % Width < Width
        BY <2>3, <3>1, Remainder
      <3> QED
        BY <3>2 DEF m
    <2> QED
      BY <2>1, <2>3, <2>5 DEF Number
  <1> QED
    BY <1>1, <1>2

Total == [active : BOOLEAN, limit : Number, align : Number]

LEMMA WantsParts ==
    ASSUME NEW w \in Wants
    PROVE  w.active \in BOOLEAN /\ w.limit \in Number /\ w.align \in Number
  BY WantsConstantsOK DEF Wants, Number

LEMMA AddedParts ==
    ASSUME NEW all, NEW w
    PROVE  /\ Added(all, w).active = (all.active \/ w.active)
           /\ Added(all, w).limit = Narrower(all.limit, w.limit)
           /\ Added(all, w).align = Lcm(all.align, w.align)
  <1>1. /\ Added(all, w).limit = Narrower(all.limit, w.limit)
        /\ Added(all, w).align = Lcm(all.align, w.align)
    BY DEF Added
  <1>2. Added(all, w).active = (all.active \/ w.active)
    BY Zenon DEF Added
  <1> QED
    BY <1>1, <1>2

LEMMA AddedTyped ==
    ASSUME NEW all \in Total, NEW w \in Wants
    PROVE  Added(all, w) \in Total
  <1>1. all.active \in BOOLEAN /\ all.limit \in Number /\ all.align \in Number
    BY DEF Total
  <1>2. Lcm(all.align, w.align) \in Number
    BY <1>1, WantsParts, LcmTyped
  <1>3. Narrower(all.limit, w.limit) \in Number
    BY <1>1, WantsParts DEF Narrower
  <1>4. (all.active \/ w.active) \in BOOLEAN
    OBVIOUS
  <1> QED
    BY <1>2, <1>3, <1>4 DEF Added, Total

LEMMA NoWantsTyped == NoWants \in Total
  <1>1. Width - 1 \in Number /\ 1 \in Number
    BY WantsConstantsOK DEF Number
  <1> QED
    BY <1>1 DEF NoWants, Total

\* The recursion of wants does what it says.
LEMMA WantsOfFirstDef ==
    ASSUME NEW entries \in Seq(Sink)
    PROVE  /\ WantsOfFirst(entries)[0] = NoWants
           /\ \A n \in 0 .. Len(entries) : WantsOfFirst(entries)[n] \in Total
           /\ \A n \in 0 .. (Len(entries) - 1) :
                 WantsOfFirst(entries)[n + 1] = Added(WantsOfFirst(entries)[n], entries[n + 1].wants)
  <1> DEFINE L == Len(entries)
             next(n, v) == IF n < L THEN Added(v, entries[n + 1].wants) ELSE v
             step == [x \in Nat \X Total |-> next(x[1], x[2])]
             Body(f) == [n \in 0..L |-> IF n = 0 THEN NoWants ELSE Added(f[n - 1], entries[n].wants)]
  <1>0. L \in Nat /\ \A n \in 1..L : entries[n].wants \in Wants
    <2>1. L \in Nat /\ \A n \in 1..L : entries[n] \in Sink
      OBVIOUS
    <2>2. \A e \in Sink : e.wants \in Wants
      BY DEF Sink
    <2> QED
      BY <2>1, <2>2
  <1>1. \A n \in Nat, v \in Total : next(n, v) \in Total
    <2> TAKE n \in Nat, v \in Total
    <2>1. CASE n < L
      <3>1. entries[n + 1].wants \in Wants
        BY <1>0, <2>1
      <3> QED
        BY <2>1, <3>1, AddedTyped
    <2>2. CASE ~(n < L)
      BY <2>2
    <2> QED
      BY <2>1, <2>2
  <1>2. IsStep(step, Total)
    <2> HIDE DEF next
    <2> QED
      BY <1>1 DEF IsStep
  <1>3. PICK g : Unfolds(g, Total, NoWants, step)
    <2> HIDE DEF step
    <2> QED
      BY <1>2, NoWantsTyped, RecursionDefines, Zenon
  <1>4. \A n \in Nat : g[n] \in Total /\ g[n + 1] = next(n, g[n])
    <2>1. \A n \in Nat : g[n] \in Total /\ <<n, g[n]>> \in Nat \X Total
      BY <1>3 DEF Unfolds
    <2> HIDE DEF next
    <2> QED
      BY <1>3, <2>1 DEF Unfolds
  <1> DEFINE h == [n \in 0..L |-> g[n]]
  <1>5. h = Body(h)
    <2>1. ASSUME NEW n \in 0..L
          PROVE  h[n] = IF n = 0 THEN NoWants ELSE Added(h[n - 1], entries[n].wants)
      <3>1. CASE n = 0
        BY <1>3, <3>1 DEF Unfolds
      <3>2. CASE n # 0
        <4>1. n - 1 \in Nat /\ n - 1 \in 0..L /\ n - 1 < L /\ (n - 1) + 1 = n
          BY <1>0, <3>2
        <4>2. g[n] = next(n - 1, g[n - 1])
          <5> HIDE DEF next
          <5> QED
            BY <1>4, <4>1
        <4>3. h[n] = g[n] /\ h[n - 1] = g[n - 1]
          BY <4>1
        <4> HIDE DEF h
        <4> QED
          BY <3>2, <4>1, <4>2, <4>3
      <3> QED
        BY <3>1, <3>2
    <2>2. h = [n \in 0..L |-> h[n]]
      OBVIOUS
    <2> HIDE DEF h
    <2> QED
      BY <2>1, <2>2
  <1> DEFINE all == WantsOfFirst(entries)
  <1>6. all = CHOOSE f : f = Body(f)
    BY DEF WantsOfFirst
  <1>7. all = Body(all)
    <2> HIDE DEF Body, all, h
    <2> QED
      BY <1>5, <1>6, Zenon
  <1> HIDE DEF all
  <1>8. all[0] = NoWants
    BY <1>0, <1>7
  <1>9. ASSUME NEW n \in 0..(L - 1)
        PROVE  all[n + 1] = Added(all[n], entries[n + 1].wants)
    <2>1. n + 1 \in 0..L /\ n + 1 # 0 /\ (n + 1) - 1 = n
      BY <1>0
    <2> HIDE DEF L
    <2> QED
      BY <1>7, <2>1
  <1>10. \A n \in 0..L : all[n] \in Total
    <2> DEFINE T == {n \in Nat : n <= L => all[n] \in Total}
    <2>1. 0 \in T
      BY <1>8, NoWantsTyped
    <2>2. ASSUME NEW n \in Nat, n \in T
          PROVE  n + 1 \in T
      <3> SUFFICES ASSUME n + 1 <= L
                   PROVE  all[n + 1] \in Total
        OBVIOUS
      <3>1. n \in 0..(L - 1) /\ all[n] \in Total /\ entries[n + 1].wants \in Wants
        BY <1>0, <2>2
      <3> QED
        BY <1>9, <3>1, AddedTyped
    <2>3. \A n \in Nat : n \in T
      <3> HIDE DEF T
      <3> QED
        BY <2>1, <2>2, SetInduction
    <2> QED
      BY <1>0, <2>3
  <1> QED
    BY <1>8, <1>9, <1>10 DEF all

LEMMA FactorsCompose ==
    ASSUME NEW a \in Int, NEW b \in Int, NEW c \in Int, Factor(a, b), Factor(b, c)
    PROVE  Factor(a, c)
  <1>1. PICK k \in Int, m \in Int : b = a * k /\ c = b * m
    BY DEF Factor
  <1>2. c = a * (k * m) /\ k * m \in Int
    BY <1>1
  <1> QED
    BY <1>2 DEF Factor

\* For numbers other than 0, Divides says what Factor says.
LEMMA DividesIsFactor ==
    ASSUME NEW a \in Nat, NEW b \in Nat, a # 0, b # 0
    PROVE  Divides(a, b) <=> Factor(a, b)
  <1>1. Divides(a, b) => Factor(a, b)
    BY DEF Divides, Factor
  <1>2. ASSUME NEW k \in Int, b = a * k
        PROVE  k \in 0..b
    <2>1. ~(k <= 0 - 1)
      <3>1. k <= 0 - 1 => a * k <= 0 - 1
        OBVIOUS
      <3> QED
        BY <1>2, <3>1
    <2>2. k >= 0 => a * k >= k
      OBVIOUS
    <2> QED
      BY <1>2, <2>1, <2>2
  <1> QED
    BY <1>1, <1>2 DEF Divides, Factor

\* The limit that comes out binds every sink that has one, and is none only
\* where no sink is active.
LEMMA LimitsHonoured ==
    ASSUME NEW entries \in Seq(Sink)
    PROVE  LET all == WantsOfFirst(entries)[Len(entries)]
           IN  \A i \in 1..Len(entries) :
                  LET w == entries[i].wants
                  IN  /\ w.active => all.active
                      /\ w.limit # 0 => all.limit \in 1 .. w.limit
  <1> DEFINE L == Len(entries)
             all == WantsOfFirst(entries)
             w(i) == entries[i].wants
             Holds(n, i) == /\ w(i).active => all[n].active
                            /\ w(i).limit # 0 => all[n].limit <= w(i).limit
             T == {n \in Nat : n <= L => all[n].limit >= 1 /\ \A i \in 1..n : Holds(n, i)}
  <1>0. L \in Nat /\ \A n \in 1..L : w(n) \in Wants
    <2>1. L \in Nat /\ \A n \in 1..L : entries[n] \in Sink
      OBVIOUS
    <2>2. \A e \in Sink : e.wants \in Wants
      BY DEF Sink
    <2> QED
      BY <2>1, <2>2
  <1>1. /\ all[0] = NoWants
        /\ \A n \in 0..L : all[n] \in Total
        /\ \A n \in 0..(L - 1) : all[n + 1] = Added(all[n], w(n + 1))
    BY WantsOfFirstDef
  <1> HIDE DEF all, w
  <1>2. 0 \in T
    BY <1>1, WantsConstantsOK DEF NoWants
  <1>3. ASSUME NEW n \in Nat, n \in T
        PROVE  n + 1 \in T
    <2> SUFFICES ASSUME n + 1 <= L
                 PROVE  all[n + 1].limit >= 1 /\ \A i \in 1..(n + 1) : Holds(n + 1, i)
      OBVIOUS
    <2> DEFINE x == w(n + 1)
    <2>1. /\ n \in 0..(L - 1) /\ n \in 0..L /\ x \in Wants /\ all[n] \in Total
          /\ all[n].limit >= 1 /\ \A i \in 1..n : Holds(n, i)
      BY <1>0, <1>1, <1>3
    <2>2. /\ x.active \in BOOLEAN /\ x.limit \in Nat
          /\ all[n].active \in BOOLEAN /\ all[n].limit \in Nat
      BY <2>1, WantsParts, WantsConstantsOK DEF Total, Number
    <2>3. /\ all[n + 1].active = (all[n].active \/ x.active)
          /\ all[n + 1].limit = Narrower(all[n].limit, x.limit)
      <3>1. all[n + 1] = Added(all[n], x)
        BY <1>1, <2>1
      <3> HIDE DEF x
      <3> QED
        BY <3>1, AddedParts
    <2>4. /\ all[n + 1].limit >= 1 /\ all[n + 1].limit <= all[n].limit
          /\ x.limit # 0 => all[n + 1].limit <= x.limit
      BY <2>1, <2>2, <2>3 DEF Narrower
    <2>5. ASSUME NEW i \in 1..(n + 1)
          PROVE  Holds(n + 1, i)
      <3>1. CASE i = n + 1
        BY <2>2, <2>3, <2>4, <3>1
      <3>2. CASE i # n + 1
        <4>1. i \in 1..n /\ i \in 1..L
          BY <1>0, <3>2
        <4>2. Holds(n, i) /\ w(i).limit \in Nat
          BY <1>0, <2>1, <4>1, WantsParts, WantsConstantsOK DEF Number
        <4>3. all[n + 1].limit \in Nat
          BY <2>2, <2>3 DEF Narrower
        <4>4. w(i).active => all[n + 1].active
          BY <2>3, <4>2, Zenon
        <4>5. w(i).limit # 0 => all[n + 1].limit <= w(i).limit
          <5>1. w(i).limit # 0 => all[n].limit <= w(i).limit
            BY <4>2
          <5> QED
            BY <2>2, <2>4, <4>2, <4>3, <5>1
        <4> QED
          BY <4>4, <4>5
      <3> QED
        BY <3>1, <3>2
    <2> QED
      BY <2>4, <2>5
  <1>4. \A n \in Nat : n \in T
    <2> HIDE DEF T
    <2> QED
      BY <1>2, <1>3, SetInduction
  <1>5. all[L].limit >= 1 /\ \A i \in 1..L : Holds(L, i)
    BY <1>0, <1>4
  <1>6. ASSUME NEW i \in 1..L
        PROVE  w(i).limit \in Nat /\ all[L].limit \in Nat
    BY <1>0, <1>1, WantsParts, WantsConstantsOK DEF Total, Number
  <1>7. ASSUME NEW i \in 1..L
        PROVE  /\ w(i).active => all[L].active
               /\ w(i).limit # 0 => all[L].limit \in 1 .. w(i).limit
    <2>1. Holds(L, i) /\ all[L].limit >= 1
      BY <1>5
    <2> QED
      BY <1>6, <2>1
  <1> QED
    BY <1>7, Zenon DEF all, w

\* The alignment that comes out is a multiple of every sink's and divides any
\* number that every sink's divides.
CommonOf(entries, n) ==
    \A i \in 1..Len(entries) : entries[i].wants.align = 0 \/ Factor(entries[i].wants.align, n)

LEMMA AlignmentIsLeast ==
    ASSUME NEW entries \in Seq(Sink), NEW m \in Number, m # 0, CommonOf(entries, m)
    PROVE  LET align == WantsOfFirst(entries)[Len(entries)].align
           IN  /\ align \in Number /\ align # 0
               /\ CommonOf(entries, align) /\ Factor(align, m)
  <1> DEFINE L == Len(entries)
             all == WantsOfFirst(entries)
             w(i) == entries[i].wants
             Holds(n, i) == w(i).align = 0 \/ Factor(w(i).align, all[n].align)
             T == {n \in Nat : n <= L => /\ all[n].align # 0 /\ Factor(all[n].align, m)
                                         /\ \A i \in 1..n : Holds(n, i)}
  <1>0. L \in Nat /\ \A n \in 1..L : w(n) \in Wants
    <2>1. L \in Nat /\ \A n \in 1..L : entries[n] \in Sink
      OBVIOUS
    <2>2. \A e \in Sink : e.wants \in Wants
      BY DEF Sink
    <2> QED
      BY <2>1, <2>2
  <1>1. /\ all[0] = NoWants
        /\ \A n \in 0..L : all[n] \in Total
        /\ \A n \in 0..(L - 1) : all[n + 1] = Added(all[n], w(n + 1))
    BY WantsOfFirstDef
  <1>2. \A i \in 1..L : w(i).align = 0 \/ Factor(w(i).align, m)
    BY DEF CommonOf
  <1> HIDE DEF all, w
  <1>3. 0 \in T
    <2>1. all[0].align = 1 /\ m = 1 * m /\ m \in Int
      BY <1>1, WantsConstantsOK DEF NoWants, Number
    <2>2. Factor(1, m)
      BY <2>1 DEF Factor
    <2> QED
      BY <2>1, <2>2
  <1>4. ASSUME NEW n \in Nat, n \in T
        PROVE  n + 1 \in T
    <2> SUFFICES ASSUME n + 1 <= L
                 PROVE  /\ all[n + 1].align # 0 /\ Factor(all[n + 1].align, m)
                        /\ \A i \in 1..(n + 1) : Holds(n + 1, i)
      OBVIOUS
    <2> DEFINE a == all[n].align
               b == w(n + 1).align
               l == all[n + 1].align
    <2>1. /\ n \in 0..(L - 1) /\ n \in 0..L /\ n + 1 \in 1..L
          /\ a # 0 /\ Factor(a, m) /\ \A i \in 1..n : Holds(n, i)
      BY <1>0, <1>4
    <2>2. /\ a \in Number /\ b \in Number /\ l \in Number
          /\ a \in Int /\ b \in Int /\ l \in Int
      <3>1. all[n] \in Total /\ all[n + 1] \in Total /\ w(n + 1) \in Wants
        BY <1>0, <1>1, <2>1
      <3>2. a \in Number /\ b \in Number /\ l \in Number
        BY <3>1, WantsParts DEF Total
      <3> QED
        BY <3>2, WantsConstantsOK DEF Number
    <2>3. l = Lcm(a, b)
      <3>1. all[n + 1] = Added(all[n], w(n + 1))
        BY <1>1, <2>1
      <3> QED
        BY <3>1, AddedParts
    <2>4. /\ l # 0 /\ Factor(a, l) /\ Factor(l, m)
          /\ b = 0 \/ Factor(b, l)
      <3>1. CASE b = 0
        <4>1. l = a
          BY <2>1, <2>3, <3>1 DEF Lcm
        <4>2. a = a * 1
          BY <2>2
        <4>3. Factor(a, a)
          BY <4>2 DEF Factor
        <4> QED
          BY <2>1, <3>1, <4>1, <4>3
      <3>2. CASE b # 0
        <4>1. Factor(b, m)
          BY <1>2, <2>1, <3>2
        <4> HIDE DEF a, b, l
        <4> QED
          BY <2>1, <2>2, <2>3, <3>2, <4>1, LcmIsLeast
      <3> QED
        BY <3>1, <3>2
    <2>5. ASSUME NEW i \in 1..(n + 1)
          PROVE  Holds(n + 1, i)
      <3>1. CASE i = n + 1
        BY <2>4, <3>1
      <3>2. CASE i # n + 1
        <4>1. i \in 1..n /\ i \in 1..L
          BY <1>0, <3>2
        <4>2. Holds(n, i) /\ w(i).align \in Int
          <5>1. w(i).align \in Number
            BY <1>0, <4>1, WantsParts
          <5> QED
            BY <2>1, <4>1, <5>1, WantsConstantsOK DEF Number
        <4> DEFINE c == w(i).align
        <4>3. c = 0 \/ Factor(c, a)
          BY <4>2
        <4>4. c \in Int
          BY <4>2
        <4> HIDE DEF c, a, b, l
        <4>5. c = 0 \/ Factor(c, l)
          BY <2>2, <2>4, <4>3, <4>4, FactorsCompose
        <4> QED
          BY <4>5 DEF c, l
      <3> QED
        BY <3>1, <3>2
    <2> QED
      BY <2>4, <2>5
  <1>5. \A n \in Nat : n \in T
    <2> HIDE DEF T
    <2> QED
      BY <1>3, <1>4, SetInduction
  <1>6. /\ all[L].align # 0 /\ Factor(all[L].align, m)
        /\ \A i \in 1..L : Holds(L, i)
    BY <1>0, <1>5
  <1>7. all[L].align \in Number
    BY <1>0, <1>1 DEF Total
  <1> QED
    BY <1>6, <1>7 DEF all, w, CommonOf

LEMMA InitWants == WantsInit => WantsTypeOK
  BY WantsConstantsOK DEF WantsInit, WantsTypeOK

LEMMA NextWants == WantsTypeOK /\ [WantsNext]_wantsVars => WantsTypeOK'
  <1> SUFFICES ASSUME WantsTypeOK, [WantsNext]_wantsVars
               PROVE  WantsTypeOK'
    OBVIOUS
  <1> USE DEF WantsTypeOK
  <1>0. MaxSinkIds \in Nat
    BY WantsConstantsOK
  <1>1. ASSUME NEW a \in Adders, TakeId(a)
        PROVE  WantsTypeOK'
    BY <1>0, <1>1 DEF TakeId
  <1>2. ASSUME NEW a \in Adders, PushSink(a)
        PROVE  WantsTypeOK'
    <2>1. PICK w \in Wants : sinks' = Append(sinks, [id |-> adding[a], wants |-> w])
      BY <1>2 DEF PushSink
    <2>2. adding[a] \in 1..MaxSinkIds
      BY <1>0, <1>2 DEF PushSink
    <2>3. [id |-> adding[a], wants |-> w] \in Sink
      BY <2>2 DEF Sink
    <2>4. sinks' \in Seq(Sink)
      BY <2>1, <2>3
    <2>5. adding' \in [Adders -> 0..MaxSinkIds] /\ nextId' = nextId
      BY <1>0, <1>2 DEF PushSink
    <2> QED
      BY <2>4, <2>5
  <1>3. ASSUME NEW id \in 1..MaxSinkIds, RemoveSinkId(id)
        PROVE  WantsTypeOK'
    <2> DEFINE S == {e \in Sink : e.id # id}
    <2>1. Within(sinks, S) \in Seq(S)
      BY WithinType
    <2>2. Within(sinks, S) \in Seq(Sink)
      <3>1. S \subseteq Sink
        OBVIOUS
      <3> HIDE DEF S
      <3> QED
        BY <2>1, <3>1
    <2> QED
      BY <1>3, <2>2 DEF RemoveSinkId
  <1>4. CASE UNCHANGED wantsVars
    BY <1>4 DEF wantsVars
  <1> QED
    BY <1>1, <1>2, <1>3, <1>4 DEF WantsNext

LEMMA WantsAreHonoured == WantsTypeOK => WantsHonourEverySink
  <1> SUFFICES ASSUME WantsTypeOK
               PROVE  WantsHonourEverySink
    OBVIOUS
  <1> DEFINE L == Len(sinks)
             all == WantsOfFirst(sinks)[L]
  <1>1. sinks \in Seq(Sink) /\ L \in Nat /\ DOMAIN sinks = 1..L /\ L \in 0..L
    BY DEF WantsTypeOK
  <1>2. all \in Total
    BY <1>1, WantsOfFirstDef
  <1>3. ASSUME NEW i \in 1..L
        PROVE  LET w == sinks[i].wants
               IN  w.active => Aggregated.active /\ (w.limit # 0 => Aggregated.limit \in 1..w.limit)
    <2> DEFINE w == sinks[i].wants
    <2>1. (w.active => all.active) /\ (w.limit # 0 => all.limit \in 1..w.limit)
      BY <1>1, LimitsHonoured
    <2>2. sinks # <<>>
      BY <1>1
    <2>3. all.active => Aggregated = all
      BY <2>2 DEF Aggregated
    <2> HIDE DEF all
    <2> QED
      BY <2>1, <2>3
  <1>4. ASSUME sinks # <<>>, NEW n \in 1..(Width - 1),
               Common(n), \A k \in 1..(n - 1) : ~Common(k)
        PROVE  Aggregated.align = n
    <2>0. ASSUME NEW i \in 1..L
          PROVE  sinks[i].wants.align \in Nat
      <3>1. \A e \in Sink : e.wants \in Wants
        BY DEF Sink
      <3>2. sinks[i].wants \in Wants
        BY <1>1, <3>1
      <3>3. sinks[i].wants.align \in Number
        BY <3>2, WantsParts
      <3> QED
        BY <3>3, WantsConstantsOK DEF Number
    <2>1. ASSUME NEW k \in Nat, k # 0
          PROVE  Common(k) <=> CommonOf(sinks, k)
      BY <1>1, <2>0, <2>1, DividesIsFactor DEF Common, CommonOf
    <2> DEFINE a == all.align
    <2>2. /\ a \in Number /\ a # 0 /\ CommonOf(sinks, a) /\ Factor(a, n)
      <3>1. n \in Number /\ n # 0 /\ n \in Nat
        BY WantsConstantsOK DEF Number
      <3>2. CommonOf(sinks, n)
        BY <1>4, <2>1, <3>1
      <3> QED
        BY <1>1, <3>1, <3>2, AlignmentIsLeast
    <2>3. Aggregated.align = a
      BY <1>2, <1>4 DEF Aggregated, Total
    <2> HIDE DEF a
    <2>4. a \in Nat /\ n \in Nat /\ n # 0 /\ Common(a)
      BY <2>1, <2>2, WantsConstantsOK DEF Number
    <2>5. a <= n
      <3>1. Divides(a, n)
        BY <2>2, <2>4, DividesIsFactor
      <3>2. PICK k \in 0..n : n = a * k
        BY <3>1 DEF Divides
      <3>3. k # 0
        BY <2>4, <3>2
      <3>4. k >= 1 => a * k >= a
        BY <2>4
      <3> QED
        BY <2>4, <3>2, <3>3, <3>4
    <2>6. ~(a \in 1..(n - 1))
      BY <1>4, <2>4
    <2> QED
      BY <2>2, <2>3, <2>4, <2>5, <2>6
  <1> QED
    BY <1>1, <1>3, <1>4 DEF WantsHonourEverySink

\* What the aggregated wants ask of a source binds it to every active sink's
\* limit and, where a common multiple fits, to the least common multiple of all
\* alignments, whatever sinks came and went (VideoBroadcaster::wants, lcm, gcd).
THEOREM WantsBindTheSource == WantsSpec => []WantsHonourEverySink
  <1>1. WantsTypeOK /\ [WantsNext]_wantsVars => WantsTypeOK'
    BY NextWants
  <1>2. WantsInit => WantsTypeOK
    BY InitWants
  <1>3. WantsTypeOK => WantsHonourEverySink
    BY WantsAreHonoured
  <1> QED
    BY <1>1, <1>2, <1>3, PTL DEF WantsSpec

-----------------------------------------------------------------------------
(* CaptureSource: the scan of a sample and the parameter sets. *)

Byte == 0..255

\* The recursion of JointFirst does what it says.
LEMMA JointFirstDef ==
    ASSUME NEW B, NEW seqs \in Seq(Seq(B))
    PROVE  /\ JointFirst(seqs)[0] = <<>>
           /\ \A n \in 0 .. Len(seqs) : JointFirst(seqs)[n] \in Seq(B)
           /\ \A n \in 0 .. (Len(seqs) - 1) :
                 JointFirst(seqs)[n + 1] = JointFirst(seqs)[n] \o seqs[n + 1]
  <1> DEFINE V == Seq(B)
             L == Len(seqs)
             next(n, v) == IF n < L THEN v \o seqs[n + 1] ELSE v
             step == [x \in Nat \X V |-> next(x[1], x[2])]
             none == <<>>
             Body(f) == [n \in 0..L |-> IF n = 0 THEN <<>> ELSE f[n - 1] \o seqs[n]]
  <1>0. L \in Nat /\ (\A n \in 1..L : seqs[n] \in V) /\ none \in V
    OBVIOUS
  <1>1. \A n \in Nat, v \in V : next(n, v) \in V
    <2> TAKE n \in Nat, v \in V
    <2>1. CASE n < L
      <3>1. seqs[n + 1] \in V
        BY <1>0, <2>1
      <3> QED
        BY <2>1, <3>1
    <2>2. CASE ~(n < L)
      BY <2>2
    <2> QED
      BY <2>1, <2>2
  <1>2. IsStep(step, V)
    <2> HIDE DEF next, V
    <2> QED
      BY <1>1 DEF IsStep
  <1>3. PICK g : Unfolds(g, V, none, step)
    <2> HIDE DEF step, V, none
    <2> QED
      BY <1>0, <1>2, RecursionDefines, Zenon
  <1>4. \A n \in Nat : g[n] \in V /\ g[n + 1] = next(n, g[n])
    <2>1. \A n \in Nat : g[n] \in V /\ <<n, g[n]>> \in Nat \X V
      BY <1>3 DEF Unfolds
    <2> HIDE DEF next, V
    <2> QED
      BY <1>3, <2>1 DEF Unfolds
  <1> DEFINE h == [n \in 0..L |-> g[n]]
  <1>5. h = Body(h)
    <2>1. ASSUME NEW n \in 0..L
          PROVE  h[n] = IF n = 0 THEN <<>> ELSE h[n - 1] \o seqs[n]
      <3>1. CASE n = 0
        BY <1>3, <3>1 DEF Unfolds
      <3>2. CASE n # 0
        <4>1. n - 1 \in Nat /\ n - 1 \in 0..L /\ n - 1 < L /\ (n - 1) + 1 = n
          BY <1>0, <3>2
        <4>2. g[n] = next(n - 1, g[n - 1])
          <5> HIDE DEF next
          <5> QED
            BY <1>4, <4>1
        <4>3. h[n] = g[n] /\ h[n - 1] = g[n - 1]
          BY <4>1
        <4> HIDE DEF h
        <4> QED
          BY <3>2, <4>1, <4>2, <4>3
      <3> QED
        BY <3>1, <3>2
    <2>2. h = [n \in 0..L |-> h[n]]
      OBVIOUS
    <2> HIDE DEF h
    <2> QED
      BY <2>1, <2>2
  <1> DEFINE joint == JointFirst(seqs)
  <1>6. joint = CHOOSE f : f = Body(f)
    BY DEF JointFirst
  <1>7. joint = Body(joint)
    <2> HIDE DEF Body, joint, h
    <2> QED
      BY <1>5, <1>6, Zenon
  <1> HIDE DEF joint
  <1>8. joint[0] = <<>>
    BY <1>0, <1>7
  <1>9. ASSUME NEW n \in 0..(L - 1)
        PROVE  joint[n + 1] = joint[n] \o seqs[n + 1]
    <2>1. n + 1 \in 0..L /\ n + 1 # 0 /\ (n + 1) - 1 = n
      BY <1>0
    <2> HIDE DEF L
    <2> QED
      BY <1>7, <2>1
  <1>10. \A n \in 0..L : joint[n] \in V
    <2> DEFINE T == {n \in Nat : n <= L => joint[n] \in V}
    <2>1. 0 \in T
      BY <1>0, <1>8
    <2>2. ASSUME NEW n \in Nat, n \in T
          PROVE  n + 1 \in T
      <3> SUFFICES ASSUME n + 1 <= L
                   PROVE  joint[n + 1] \in V
        OBVIOUS
      <3>1. n \in 0..(L - 1) /\ joint[n] \in V /\ seqs[n + 1] \in V
        BY <1>0, <2>2
      <3>2. joint[n + 1] = joint[n] \o seqs[n + 1]
        BY <1>9, <3>1
      <3>3. \A a, b \in V : a \o b \in V
        OBVIOUS
      <3> HIDE DEF V
      <3> QED
        BY <3>1, <3>2, <3>3
    <2>3. \A n \in Nat : n \in T
      <3> HIDE DEF T
      <3> QED
        BY <2>1, <2>2, SetInduction
    <2> QED
      BY <1>0, <2>3
  <1> QED
    BY <1>8, <1>9, <1>10 DEF joint


\* How much the first n sequences come to.
At(seqs, n) == Len(JointFirst(seqs)[n])

\* What is joined is in the place where the sequences before it end.
LEMMA JointPlaces ==
    ASSUME NEW B, NEW seqs \in Seq(Seq(B))
    PROVE  /\ Joint(seqs) \in Seq(B) /\ At(seqs, 0) = 0 /\ At(seqs, Len(seqs)) = Len(Joint(seqs))
           /\ \A k \in 0 .. Len(seqs) : At(seqs, k) \in Nat /\ At(seqs, k) <= Len(Joint(seqs))
           /\ \A k \in 1 .. Len(seqs) :
                 /\ At(seqs, k) = At(seqs, k - 1) + Len(seqs[k])
                 /\ \A j \in 1 .. Len(seqs[k]) : Joint(seqs)[At(seqs, k - 1) + j] = seqs[k][j]
  <1> DEFINE L == Len(seqs)
             joint == JointFirst(seqs)
             to(n) == Len(joint[n])
             InPlace(n, k) == /\ to(k) <= to(n)
                              /\ \A j \in 1 .. Len(seqs[k]) : joint[n][to(k - 1) + j] = seqs[k][j]
             T == {n \in Nat : n <= L => \A k \in 1..n : InPlace(n, k)}
  <1>0. L \in Nat /\ \A k \in 1..L : seqs[k] \in Seq(B)
    OBVIOUS
  <1>1. /\ joint[0] = <<>>
        /\ \A n \in 0..L : joint[n] \in Seq(B)
        /\ \A n \in 0..(L - 1) : joint[n + 1] = joint[n] \o seqs[n + 1]
    BY JointFirstDef
  <1> HIDE DEF joint
  <1>2. ASSUME NEW a \in Seq(B), NEW b \in Seq(B)
        PROVE  /\ Len(a \o b) = Len(a) + Len(b) /\ Len(a) \in Nat /\ Len(b) \in Nat
               /\ \A i \in 1..Len(a) : (a \o b)[i] = a[i]
               /\ \A i \in 1..Len(b) : (a \o b)[Len(a) + i] = b[i]
    OBVIOUS
  <1>3. \A n \in 0..L : to(n) \in Nat
    BY <1>1
  <1>4. \A n \in 1..L : to(n) = to(n - 1) + Len(seqs[n]) /\ Len(seqs[n]) \in Nat
    <2> TAKE n \in 1..L
    <2>1. n - 1 \in 0..(L - 1) /\ n - 1 \in 0..L /\ (n - 1) + 1 = n
      BY <1>0
    <2>2. joint[n] = joint[n - 1] \o seqs[n] /\ joint[n - 1] \in Seq(B) /\ seqs[n] \in Seq(B)
      BY <1>0, <1>1, <2>1
    <2> QED
      BY <1>2, <2>2
  <1>5. 0 \in T
    OBVIOUS
  <1>12. \A n : At(seqs, n) = to(n)
    BY DEF At, joint
  <1>13. to(0) = 0 /\ \A n \in 0..L : to(n) = Len(joint[n])
    BY <1>1
  <1>14. Joint(seqs) = joint[L]
    BY DEF Joint, joint
  <1>15. L = Len(seqs)
    OBVIOUS
  <1> HIDE DEF to, L
  <1>6. ASSUME NEW n \in Nat, n \in T
        PROVE  n + 1 \in T
    <2> SUFFICES ASSUME n + 1 <= L, NEW k \in 1..(n + 1)
                 PROVE  InPlace(n + 1, k)
      OBVIOUS
    <2> DEFINE a == joint[n]
               b == seqs[n + 1]
    <2>0. n \in 0..L /\ n \in 0..(L - 1) /\ n + 1 \in 1..L /\ (n + 1) - 1 = n /\ n <= L /\ n + 1 \in 0..L
      BY <1>0
    <2>1. /\ joint[n + 1] = a \o b /\ a \in Seq(B) /\ b \in Seq(B)
          /\ to(n) = Len(a) /\ to(n + 1) = to(n) + Len(b)
      BY <1>0, <1>1, <1>4, <1>13, <2>0
    <2>5. \A i \in 1..n : InPlace(n, i)
      BY <1>6, <2>0
    <2> HIDE DEF a, b, InPlace
    <2>2. /\ Len(a) \in Nat /\ Len(b) \in Nat
          /\ \A i \in 1..Len(a) : joint[n + 1][i] = a[i]
          /\ \A i \in 1..Len(b) : joint[n + 1][Len(a) + i] = b[i]
      BY <1>2, <2>1
    <2>3. CASE k = n + 1
      <3>1. to(k - 1) = Len(a) /\ to(k) = to(n + 1) /\ seqs[k] = b /\ to(n + 1) \in Nat
        BY <1>3, <2>0, <2>1, <2>3 DEF b
      <3>2. \A j \in 1 .. Len(seqs[k]) : joint[n + 1][to(k - 1) + j] = seqs[k][j]
        BY <2>2, <3>1
      <3> QED
        BY <3>1, <3>2 DEF InPlace
    <2>4. CASE k # n + 1
      <3>1. k \in 1..n /\ k \in 0..L /\ k - 1 \in 0..L /\ k \in 1..L
        BY <1>0, <2>0, <2>4
      <3>2. InPlace(n, k)
        BY <2>5, <3>1
      <3>3. to(k) <= to(n) /\ to(n) <= to(n + 1) /\ to(k) \in Nat /\ to(n) \in Nat /\ to(n + 1) \in Nat
        BY <1>3, <2>0, <2>1, <2>2, <3>1, <3>2 DEF InPlace
      <3>4. ASSUME NEW j \in 1 .. Len(seqs[k])
            PROVE  joint[n + 1][to(k - 1) + j] = seqs[k][j]
        <4>1. joint[n][to(k - 1) + j] = seqs[k][j]
          BY <3>2 DEF InPlace
        <4>2. /\ to(k - 1) \in Nat /\ to(k) = to(k - 1) + Len(seqs[k]) /\ Len(seqs[k]) \in Nat
              /\ Len(a) = to(n) /\ j \in Nat /\ j >= 1 /\ j <= Len(seqs[k])
          BY <1>3, <1>4, <2>1, <3>1
        <4>3. to(k - 1) + j \in 1..Len(a)
          <5>1. \A p, q, m, r, i \in Nat : q = p + r /\ i >= 1 /\ i <= r /\ q <= m => p + i \in 1..m
            OBVIOUS
          <5>2. to(k - 1) + j \in 1..to(n)
            BY <3>3, <4>2, <5>1
          <5> QED
            BY <4>2, <5>2
        <4> QED
          BY <2>2, <4>1, <4>3 DEF a
      <3>5. to(k) <= to(n + 1)
        BY <3>3
      <3> QED
        BY <3>4, <3>5 DEF InPlace
    <2> QED
      BY <2>3, <2>4
  <1>7. \A n \in Nat : n \in T
    <2> HIDE DEF T
    <2> QED
      BY <1>5, <1>6, SetInduction
  <1>8. \A k \in 1..L : InPlace(L, k)
    <2>1. L \in T /\ L <= L
      BY <1>0, <1>7
    <2> HIDE DEF InPlace
    <2> QED
      BY <2>1
  <1>10. joint[L] \in Seq(B) /\ to(0) = 0 /\ \A k \in 0..L : to(k) <= to(L)
    <2>1. joint[L] \in Seq(B) /\ to(0) = 0
      BY <1>0, <1>1, <1>13
    <2>2. to(L) \in Nat
      BY <1>0, <1>3
    <2>3. ASSUME NEW k \in 0..L
          PROVE  to(k) <= to(L)
      <3>1. CASE k = 0
        BY <2>1, <2>2, <3>1
      <3>2. CASE k # 0
        <4>1. k \in 1..L
          BY <1>0, <3>2
        <4> QED
          BY <1>8, <4>1
      <3> QED
        BY <3>1, <3>2
    <2> QED
      BY <2>1, <2>3
  <1>11. to(L) = Len(joint[L])
    BY <1>0, <1>13
  <1>16. \A k \in 1..L : \A j \in 1 .. Len(seqs[k]) : joint[L][to(k - 1) + j] = seqs[k][j]
    BY <1>8
  <1>17. \A k \in 1..L : to(k) = to(k - 1) + Len(seqs[k])
    BY <1>4
  <1> HIDE DEF InPlace, T
  <1>18. /\ Joint(seqs) \in Seq(B) /\ At(seqs, 0) = 0 /\ At(seqs, L) = Len(Joint(seqs))
         /\ \A k \in 0..L : At(seqs, k) \in Nat /\ At(seqs, k) <= Len(Joint(seqs))
    BY <1>3, <1>10, <1>11, <1>12, <1>13, <1>14
  <1>19. ASSUME NEW k \in 1..L
         PROVE  /\ At(seqs, k) = At(seqs, k - 1) + Len(seqs[k])
                /\ \A j \in 1 .. Len(seqs[k]) : Joint(seqs)[At(seqs, k - 1) + j] = seqs[k][j]
    BY <1>12, <1>14, <1>16, <1>17, Zenon
  <1> QED
    BY <1>15, <1>18, <1>19


\* A list that goes from place to place, always further, until it stops.
Follows(h, N, F, going, unit, next) ==
    /\ h \in [1..N -> Seq(F)]
    /\ \A o \in 1..N : h[o] = IF o \in going THEN <<unit[o]>> \o h[next[o]] ELSE <<>>

LEMMA ListExists ==
    ASSUME NEW N \in Nat, NEW F, NEW going, NEW unit \in [1..N -> F], NEW next,
           \A o \in 1..N : o \in going => next[o] \in 1..N /\ next[o] > o
    PROVE  \E h : Follows(h, N, F, going, unit, next)
  <1> DEFINE D == 1..N
             V == [D -> Seq(F)]
             turn(f) == [o \in D |-> IF o \in going THEN <<unit[o]>> \o f[next[o]] ELSE <<>>]
             step == [x \in Nat \X V |-> turn(x[2])]
             none == [o \in D |-> <<>>]
  <1>1. ASSUME NEW f \in V
        PROVE  turn(f) \in V
    <2>1. ASSUME NEW o \in D
          PROVE  (IF o \in going THEN <<unit[o]>> \o f[next[o]] ELSE <<>>) \in Seq(F)
      <3>1. CASE o \in going
        <4>1. unit[o] \in F /\ f[next[o]] \in Seq(F)
          BY <3>1
        <4>2. <<unit[o]>> \o f[next[o]] \in Seq(F)
          BY <4>1
        <4> QED
          BY <3>1, <4>2
      <3>2. CASE o \notin going
        BY <3>2
      <3> QED
        BY <3>1, <3>2
    <2> QED
      BY <2>1
  <1>2. IsStep(step, V) /\ none \in V
    <2>1. none \in V
      OBVIOUS
    <2> HIDE DEF V, turn, none
    <2> QED
      BY <1>1, <2>1 DEF IsStep
  <1>3. PICK g : Unfolds(g, V, none, step)
    <2> HIDE DEF step, V, none
    <2> QED
      BY <1>2, RecursionDefines, Zenon
  <1>4. \A n \in Nat : g[n] \in V /\ g[n + 1] = turn(g[n])
    <2>1. \A n \in Nat : g[n] \in V /\ <<n, g[n]>> \in Nat \X V
      BY <1>3 DEF Unfolds
    <2> HIDE DEF turn, V
    <2> QED
      BY <1>3, <2>1 DEF Unfolds
  <1>5. ASSUME NEW n \in Nat, NEW o \in D
        PROVE  g[n + 1][o] = IF o \in going THEN <<unit[o]>> \o g[n][next[o]] ELSE <<>>
    <2>1. g[n + 1] = turn(g[n])
      BY <1>4
    <2>2. turn(g[n])[o] = IF o \in going THEN <<unit[o]>> \o g[n][next[o]] ELSE <<>>
      OBVIOUS
    <2> HIDE DEF turn
    <2> QED
      BY <2>1, <2>2
  <1> DEFINE T == {n \in Nat : \A o \in D : N - o < n => g[n + 1][o] = g[n][o]}
  <1>6. \A n \in Nat : n \in T
    <2>1. 0 \in T
      OBVIOUS
    <2>2. ASSUME NEW n \in Nat, n \in T
          PROVE  n + 1 \in T
      <3> SUFFICES ASSUME NEW o \in D, N - o < n + 1
                   PROVE  g[(n + 1) + 1][o] = g[n + 1][o]
        OBVIOUS
      <3>1. CASE o \in going
        <4>1. next[o] \in D /\ N - next[o] < n
          BY <3>1
        <4>2. g[n + 1][next[o]] = g[n][next[o]]
          BY <2>2, <4>1
        <4>3. n + 1 \in Nat
          OBVIOUS
        <4>4. g[(n + 1) + 1][o] = <<unit[o]>> \o g[n + 1][next[o]]
          BY <1>5, <3>1, <4>3
        <4>5. g[n + 1][o] = <<unit[o]>> \o g[n][next[o]]
          BY <1>5, <3>1
        <4> QED
          BY <4>2, <4>4, <4>5
      <3>2. CASE o \notin going
        <4>1. n + 1 \in Nat
          OBVIOUS
        <4>2. g[(n + 1) + 1][o] = <<>> /\ g[n + 1][o] = <<>>
          BY <1>5, <3>2, <4>1
        <4> QED
          BY <4>2
      <3> QED
        BY <3>1, <3>2
    <2> HIDE DEF T
    <2> QED
      BY <2>1, <2>2, SetInduction
  <1>7. ASSUME NEW o \in D
        PROVE  g[N][o] = IF o \in going THEN <<unit[o]>> \o g[N][next[o]] ELSE <<>>
    <2>1. g[N + 1][o] = g[N][o]
      <3>1. N \in T /\ N - o < N
        BY <1>6
      <3> QED
        BY <3>1
    <2> QED
      BY <1>5, <2>1
  <1> QED
    BY <1>4, <1>7 DEF Follows

LEMMA LeastOf ==
    ASSUME NEW S, S \subseteq Nat, S # {}
    PROVE  Min(S) \in S /\ \A y \in S : Min(S) <= y
  <1>1. PICK x \in S : \A y \in S : ~(y < x)
    BY LeastNat
  <1>2. \A y \in S : x <= y
    BY <1>1
  <1>3. \E z \in S : \A y \in S : z <= y
    BY <1>2
  <1> QED
    BY <1>3, Zenon DEF Min

Finding == [type : Nat, first : Nat, end : Nat]

\* A unit ends behind its header, and not behind the end.
LEMMA UnitEnds ==
    ASSUME NEW data \in Seq(Byte), NEW o \in 1 .. (Len(data) + 1), UnitAt(data, o)
    PROVE  /\ o + CodeLength(data, o) \in 1 .. Len(data)
           /\ UnitFrom(data, o) \in Finding
           /\ UnitFrom(data, o).end \in 1 .. (Len(data) + 1) /\ UnitFrom(data, o).end > o
  <1> DEFINE L == Len(data)
             header == o + CodeLength(data, o)
             next == {i \in (header + 1)..(L - 3) :
                         StartsWith(data, i, Short) \/ StartsWith(data, i, Long)}
             end == UnitEnd(data, header)
  <1>1. L \in Nat /\ CodeLength(data, o) \in {3, 4} /\ header <= L /\ header > o
    <2>1. L \in Nat /\ o \in Nat
      OBVIOUS
    <2>2. CodeLength(data, o) \in {3, 4}
      BY DEF UnitAt, CodeLength
    <2>3. header <= L
      BY DEF UnitAt
    <2> QED
      BY <2>1, <2>2, <2>3
  <1>2. header \in 1..L
    BY <1>1
  <1>3. end = IF next = {} THEN L + 1 ELSE Min(next)
    BY DEF UnitEnd
  <1> HIDE DEF header
  <1>4. end \in 1..(L + 1) /\ end > o
    <2>1. CASE next = {}
      <3>1. end = L + 1
        BY <1>3, <2>1
      <3>2. o \in Nat
        OBVIOUS
      <3> HIDE DEF end, next
      <3> QED
        BY <1>1, <1>2, <3>1, <3>2
    <2>2. CASE next # {}
      <3>1. next \subseteq Nat /\ \A i \in next : i \in 1..(L + 1) /\ i > o
        BY <1>1, <1>2
      <3> HIDE DEF next
      <3>2. Min(next) \in next
        BY <2>2, <3>1, LeastOf
      <3> QED
        BY <1>3, <2>2, <3>1, <3>2
    <2> QED
      BY <2>1, <2>2
  <1> HIDE DEF end, next
  <1>5. UnitFrom(data, o) = [type |-> Type(data[header]), first |-> o, end |-> end]
    BY DEF UnitFrom, header, end
  <1>6. Type(data[header]) \in Nat
    <2>1. data[header] \in Byte
      BY <1>2
    <2>2. \A b \in Byte : b \in Nat
      BY DEF Byte
    <2>3. data[header] \in Nat
      BY <2>1, <2>2
    <2> QED
      BY <2>3 DEF Type
  <1> QED
    BY <1>1, <1>2, <1>4, <1>5, <1>6 DEF Finding, header

\* The recursion of ScanFrom does what it says.
LEMMA ScanFromDef ==
    ASSUME NEW data \in Seq(Byte)
    PROVE  \A o \in 1 .. (Len(data) + 1) :
              /\ ScanFrom(data)[o] \in Seq(Finding)
              /\ ScanFrom(data)[o] = IF ~UnitAt(data, o) THEN <<>>
                                     ELSE <<UnitFrom(data, o)>> \o ScanFrom(data)[UnitFrom(data, o).end]
  <1> DEFINE N == Len(data) + 1
             going == {o \in 1..N : UnitAt(data, o)}
             some == [type |-> 0, first |-> 0, end |-> 0]
             unit == [o \in 1..N |-> IF UnitAt(data, o) THEN UnitFrom(data, o) ELSE some]
             next == [o \in 1..N |-> UnitFrom(data, o).end]
             Body(f) == [o \in 1..N |-> IF ~UnitAt(data, o) THEN <<>>
                                        ELSE <<UnitFrom(data, o)>> \o f[UnitFrom(data, o).end]]
  <1>1. N \in Nat /\ unit \in [1..N -> Finding]
    <2>1. ASSUME NEW o \in 1..N
          PROVE  (IF UnitAt(data, o) THEN UnitFrom(data, o) ELSE some) \in Finding
      <3>1. some \in Finding
        BY DEF Finding
      <3> QED
        BY <3>1, UnitEnds
    <2> QED
      BY <2>1
  <1>2. \A o \in 1..N : o \in going => next[o] \in 1..N /\ next[o] > o
    BY UnitEnds
  <1>3. PICK h : Follows(h, N, Finding, going, unit, next)
    <2> HIDE DEF N, going, unit, next
    <2> QED
      BY <1>1, <1>2, ListExists
  <1>4. ASSUME NEW f, Follows(f, N, Finding, going, unit, next)
        PROVE  f = Body(f)
    <2>1. ASSUME NEW o \in 1..N
          PROVE  f[o] = IF ~UnitAt(data, o) THEN <<>>
                        ELSE <<UnitFrom(data, o)>> \o f[UnitFrom(data, o).end]
      <3>1. f[o] = IF o \in going THEN <<unit[o]>> \o f[next[o]] ELSE <<>>
        BY <1>4 DEF Follows
      <3>2. (o \in going <=> UnitAt(data, o)) /\ next[o] = UnitFrom(data, o).end
        OBVIOUS
      <3>3. UnitAt(data, o) => unit[o] = UnitFrom(data, o)
        OBVIOUS
      <3> HIDE DEF going, unit, next
      <3> QED
        BY <3>1, <3>2, <3>3
    <2>2. f = [o \in 1..N |-> f[o]]
      BY <1>4 DEF Follows
    <2> QED
      BY <2>1, <2>2
  <1> DEFINE from == ScanFrom(data)
  <1>5. from = CHOOSE f : f = Body(f)
    BY DEF ScanFrom
  <1>6. from = Body(from)
    <2>1. h = Body(h)
      <3> HIDE DEF Body, N, going, unit, next
      <3> QED
        BY <1>3, <1>4
    <2> HIDE DEF Body, from
    <2> QED
      BY <1>5, <2>1, Zenon
  <1> HIDE DEF from
  <1>7. \A o \in 1..N : from[o] = IF ~UnitAt(data, o) THEN <<>>
                                  ELSE <<UnitFrom(data, o)>> \o from[UnitFrom(data, o).end]
    BY <1>6
  \* From the end on each list is one.
  <1> DEFINE T == {n \in Nat : \A o \in 1..N : N - o <= n => from[o] \in Seq(Finding)}
  <1>8. ASSUME NEW o \in 1..N, UnitAt(data, o),
               \A p \in 1..N : p > o => from[p] \in Seq(Finding)
        PROVE  from[o] \in Seq(Finding)
    <2> DEFINE e == UnitFrom(data, o).end
               u == UnitFrom(data, o)
    <2>1. u \in Finding /\ e \in 1..N /\ e > o
      BY <1>8, UnitEnds
    <2>2. from[o] = <<u>> \o from[e] /\ from[e] \in Seq(Finding)
      BY <1>7, <1>8, <2>1
    <2> HIDE DEF u, e
    <2> QED
      BY <2>1, <2>2
  <1>9. ASSUME NEW o \in 1..N, ~UnitAt(data, o)
        PROVE  from[o] \in Seq(Finding)
    <2>1. from[o] = <<>>
      BY <1>7, <1>9
    <2> QED
      BY <2>1
  <1>10. 0 \in T
    <2> SUFFICES ASSUME NEW o \in 1..N, N - o <= 0
                 PROVE  from[o] \in Seq(Finding)
      OBVIOUS
    <2>1. \A p \in 1..N : ~(p > o)
      BY <1>1
    <2>2. \A p \in 1..N : p > o => from[p] \in Seq(Finding)
      BY <2>1
    <2> HIDE DEF N
    <2> QED
      BY <1>8, <1>9, <2>2
  <1>11. ASSUME NEW n \in Nat, n \in T
         PROVE  n + 1 \in T
    <2> SUFFICES ASSUME NEW o \in 1..N, N - o <= n + 1
                 PROVE  from[o] \in Seq(Finding)
      OBVIOUS
    <2>1. \A p \in 1..N : p > o => N - p <= n
      BY <1>1
    <2>2. \A p \in 1..N : p > o => from[p] \in Seq(Finding)
      BY <1>11, <2>1
    <2> QED
      BY <1>8, <1>9, <2>2
  <1>12. \A n \in Nat : n \in T
    <2> HIDE DEF T
    <2> QED
      BY <1>10, <1>11, SetInduction
  <1>13. \A o \in 1..N : from[o] \in Seq(Finding)
    <2> TAKE o \in 1..N
    <2>1. N - o \in Nat /\ N - o <= N - o
      BY <1>1
    <2>2. N - o \in T
      BY <1>12, <2>1
    <2> HIDE DEF N
    <2> QED
      BY <2>1, <2>2
  <1> QED
    BY <1>7, <1>13 DEF from


LEMMA CodeStarts ==
    ASSUME NEW data \in Seq(Byte), NEW o \in Nat, o # 0
    PROVE  /\ StartsWith(data, o, Short)
                <=> o + 2 <= Len(data) /\ data[o] = 0 /\ data[o + 1] = 0 /\ data[o + 2] = 1
           /\ StartsWith(data, o, Long)
                <=> /\ o + 3 <= Len(data)
                    /\ data[o] = 0 /\ data[o + 1] = 0 /\ data[o + 2] = 0 /\ data[o + 3] = 1
  <1>0. Len(data) \in Nat /\ Len(Short) = 3 /\ Len(Long) = 4
    BY DEF Short, Long
  <1>1. ASSUME o + 2 <= Len(data)
        PROVE  SubSeq(data, o, o + 2) = <<data[o], data[o + 1], data[o + 2]>>
    <2> DEFINE x == SubSeq(data, o, o + 2)
    <2>1. x = [i \in 1..3 |-> data[o + i - 1]]
      <3>1. (o + 2) - o + 1 = 3
        OBVIOUS
      <3> QED
        BY <1>0, <1>1, <3>1
    <2>2. <<data[o], data[o + 1], data[o + 2]>> = [i \in 1..3 |-> data[o + i - 1]]
      OBVIOUS
    <2> QED
      BY <2>1, <2>2
  <1>2. ASSUME o + 3 <= Len(data)
        PROVE  SubSeq(data, o, o + 3) = <<data[o], data[o + 1], data[o + 2], data[o + 3]>>
    <2> DEFINE x == SubSeq(data, o, o + 3)
    <2>1. x = [i \in 1..4 |-> data[o + i - 1]]
      <3>1. (o + 3) - o + 1 = 4
        OBVIOUS
      <3> QED
        BY <1>0, <1>2, <3>1
    <2>2. <<data[o], data[o + 1], data[o + 2], data[o + 3]>> = [i \in 1..4 |-> data[o + i - 1]]
      OBVIOUS
    <2> QED
      BY <2>1, <2>2
  <1>3. o + 3 - 1 = o + 2 /\ o + 4 - 1 = o + 3
    OBVIOUS
  <1>4. StartsWith(data, o, Short)
            <=> o + 2 <= Len(data) /\ <<data[o], data[o + 1], data[o + 2]>> = Short
    BY <1>0, <1>1, <1>3 DEF StartsWith
  <1>5. StartsWith(data, o, Long)
            <=> o + 3 <= Len(data) /\ <<data[o], data[o + 1], data[o + 2], data[o + 3]>> = Long
    BY <1>0, <1>2, <1>3 DEF StartsWith
  <1> QED
    BY <1>4, <1>5 DEF Short, Long

LEMMA UnitBytes ==
    ASSUME NEW u \in NalUnits
    PROVE  /\ u \in Seq(Byte) /\ Len(u) \in Nat /\ Len(u) >= 1 /\ u[Len(u)] # 0
           /\ \A i \in 1..(Len(u) - 2) : ~(u[i] = 0 /\ u[i + 1] = 0 /\ u[i + 2] = 1)
  <1>1. u \in Seq(Byte) /\ Len(u) > 0 /\ u[Len(u)] # 0
    BY CaptureConstantsOK DEF Last, Byte
  <1>2. ASSUME NEW i \in 1..(Len(u) - 2)
        PROVE  ~(u[i] = 0 /\ u[i + 1] = 0 /\ u[i + 2] = 1)
    <2>1. SubSeq(u, i, i + 2) # Short
      BY CaptureConstantsOK
    <2>2. i \in Nat /\ i # 0 /\ i + 2 <= Len(u) /\ i + 3 - 1 = i + 2 /\ Len(Short) = 3
      BY <1>1 DEF Short
    <2>3. ~StartsWith(u, i, Short)
      BY <2>1, <2>2 DEF StartsWith
    <2> QED
      BY <1>1, <2>2, <2>3, CodeStarts
  <1> QED
    BY <1>1, <1>2

\* Behind the bytes before it and in front of the bytes after it, a unit is found.
LEMMA UnitFound ==
    ASSUME NEW data \in Seq(Byte), NEW code \in {Short, Long}, NEW u \in NalUnits, NEW a \in Nat,
           \A j \in 1..Len(code) : data[a + j] = code[j],
           \A j \in 1..Len(u) : data[a + Len(code) + j] = u[j],
           NEW e, e = a + Len(code) + Len(u), e <= Len(data),
           e = Len(data)
             \/ (e + 4 <= Len(data) /\ (StartsWith(data, e + 1, Short) \/ StartsWith(data, e + 1, Long)))
    PROVE  /\ UnitAt(data, a + 1)
           /\ UnitFrom(data, a + 1) = [type |-> Type(u[1]), first |-> a + 1, end |-> e + 1]
  <1> DEFINE o == a + 1
             m == Len(code)
             L == Len(data)
  <1>0. L \in Nat /\ m \in {3, 4} /\ o \in Nat /\ o # 0 /\ e \in Nat /\ e >= o + m
    <2>1. m \in {3, 4}
      BY DEF Short, Long
    <2> QED
      BY <2>1, UnitBytes
  <1>1. /\ StartsWith(data, o, Short) => m = 3
        /\ StartsWith(data, o, Long) <=> m = 4
        /\ m = 3 => StartsWith(data, o, Short)
    <2>1. CASE code = Short
      <3>1. data[a + 1] = 0 /\ data[a + 2] = 0 /\ data[a + 3] = 1 /\ m = 3
        BY <2>1 DEF Short
      <3>2. a + 2 = o + 1 /\ a + 3 = o + 2 /\ o + 2 <= L
        BY <1>0, <3>1
      <3>3. StartsWith(data, o, Short)
        BY <1>0, <3>1, <3>2, CodeStarts
      <3>4. ~StartsWith(data, o, Long)
        BY <1>0, <3>1, <3>2, CodeStarts
      <3> QED
        BY <3>1, <3>3, <3>4
    <2>2. CASE code = Long
      <3>1. data[a + 1] = 0 /\ data[a + 2] = 0 /\ data[a + 3] = 0 /\ data[a + 4] = 1 /\ m = 4
        BY <2>2 DEF Long
      <3>2. a + 2 = o + 1 /\ a + 3 = o + 2 /\ a + 4 = o + 3 /\ o + 3 <= L
        BY <1>0, <3>1
      <3>3. StartsWith(data, o, Long)
        BY <1>0, <3>1, <3>2, CodeStarts
      <3>4. ~StartsWith(data, o, Short)
        BY <1>0, <3>1, <3>2, CodeStarts
      <3> QED
        BY <3>1, <3>3, <3>4
    <2> QED
      BY <2>1, <2>2
  <1>2. CodeLength(data, o) = m
    BY <1>0, <1>1 DEF CodeLength
  <1>3. UnitAt(data, o)
    <2>0. e <= L
      OBVIOUS
    <2> HIDE DEF o, m, L
    <2>1. o + 3 <= L /\ o + m <= L /\ m > 0
      BY <1>0, <2>0
    <2> QED
      BY <1>2, <2>1 DEF UnitAt, L
  <1> DEFINE header == o + m
             next == {i \in (header + 1)..(L - 3) :
                         StartsWith(data, i, Short) \/ StartsWith(data, i, Long)}
  \* No start code begins in the unit.
  <1>4. ASSUME NEW i \in next
        PROVE  i > e
    <2>1. i \in Nat /\ i # 0 /\ i >= header + 1 /\ i <= L - 3
      <3>1. i \in (header + 1)..(L - 3)
        OBVIOUS
      <3>2. header \in Nat
        BY <1>0
      <3> HIDE DEF header, next, L
      <3> QED
        BY <1>0, <3>1, <3>2
    <2>2. /\ data[i] = 0 /\ data[i + 1] = 0
          /\ (data[i + 2] = 1 \/ (data[i + 2] = 0 /\ data[i + 3] = 1))
      <3>1. StartsWith(data, i, Short) => data[i] = 0 /\ data[i + 1] = 0 /\ data[i + 2] = 1
        BY <2>1, CodeStarts
      <3>2. StartsWith(data, i, Long) =>
               data[i] = 0 /\ data[i + 1] = 0 /\ data[i + 2] = 0 /\ data[i + 3] = 1
        BY <2>1, CodeStarts
      <3>3. StartsWith(data, i, Short) \/ StartsWith(data, i, Long)
        OBVIOUS
      <3> QED
        BY <3>1, <3>2, <3>3, Zenon
    <2> SUFFICES ASSUME i <= e
                 PROVE  FALSE
      BY <1>0, <2>1
    <2> DEFINE n == Len(u)
               j == i - (a + m)
    <2>3. /\ n \in Nat /\ n >= 1 /\ u[n] # 0
          /\ \A k \in 1..(n - 2) : ~(u[k] = 0 /\ u[k + 1] = 0 /\ u[k + 2] = 1)
          /\ \A k \in 1..n : data[a + m + k] = u[k]
      BY UnitBytes
    <2>4. j \in Nat /\ j >= 1 /\ j <= n /\ a + m + j = i
      BY <1>0, <2>1, <2>3
    <2>5. a + m + (j + 1) = i + 1 /\ a + m + (j + 2) = i + 2 /\ a + m + (j + 3) = i + 3
      BY <1>0, <2>4
    <2> HIDE DEF j, n, m, header
    <2>6. u[j] = 0 /\ j + 1 <= n
      <3>1. u[j] = 0
        BY <2>2, <2>3, <2>4
      <3> QED
        BY <2>3, <2>4, <3>1
    <2>7. u[j + 1] = 0 /\ j + 2 <= n
      <3>1. j + 1 \in 1..n
        BY <2>3, <2>4, <2>6
      <3>2. u[j + 1] = 0
        BY <2>2, <2>3, <2>5, <3>1
      <3> QED
        BY <2>3, <2>4, <2>6, <3>2
    <2>8. j + 2 \in 1..n /\ j \in 1..(n - 2)
      BY <2>3, <2>4, <2>7
    <2>9. CASE data[i + 2] = 1
      <3>1. u[j + 2] = 1
        BY <2>3, <2>5, <2>8, <2>9
      <3> QED
        BY <2>3, <2>6, <2>7, <2>8, <3>1
    <2>10. CASE data[i + 2] = 0 /\ data[i + 3] = 1
      <3>1. u[j + 2] = 0
        BY <2>3, <2>5, <2>8, <2>10
      <3>2. j + 3 <= n
        BY <2>3, <2>4, <2>8, <3>1
      <3>3. j + 3 \in 1..n /\ j + 1 \in 1..(n - 2) /\ (j + 1) + 1 = j + 2 /\ (j + 1) + 2 = j + 3
        BY <2>3, <2>4, <3>2
      <3>4. u[j + 3] = 1
        BY <2>3, <2>5, <2>10, <3>3
      <3> QED
        BY <2>3, <2>7, <3>1, <3>3, <3>4
    <2> QED
      BY <2>2, <2>9, <2>10
  <1>5. UnitEnd(data, header) = e + 1
    <2>0. UnitEnd(data, header) = IF next = {} THEN L + 1 ELSE Min(next)
      BY DEF UnitEnd
    <2>1. CASE e = L
      <3>1. \A i \in next : i <= L - 3
        OBVIOUS
      <3>2. \A i \in next : i \in Nat
        BY <1>0
      <3> HIDE DEF next
      <3>3. next = {}
        BY <1>0, <1>4, <2>1, <3>1, <3>2
      <3> QED
        BY <2>0, <2>1, <3>3
    <2>2. CASE e + 4 <= L /\ (StartsWith(data, e + 1, Short) \/ StartsWith(data, e + 1, Long))
      <3>1. e + 1 \in next
        <4>1. e >= header
          BY <1>0, UnitBytes
        <4>2. e + 1 \in (header + 1)..(L - 3)
          BY <1>0, <2>2, <4>1
        <4> QED
          BY <2>2, <4>2
      <3>2. next \subseteq Nat
        BY <1>0
      <3> HIDE DEF next
      <3>3. Min(next) \in next /\ \A y \in next : Min(next) <= y
        BY <3>1, <3>2, LeastOf
      <3>4. Min(next) > e /\ Min(next) <= e + 1 /\ Min(next) \in Nat
        BY <1>4, <3>1, <3>2, <3>3
      <3>5. Min(next) = e + 1
        <4>1. \A x \in Nat : x > e /\ x <= e + 1 => x = e + 1
          BY <1>0
        <4> QED
          BY <3>4, <4>1, Zenon
      <3> QED
        BY <2>0, <3>1, <3>5
    <2> QED
      BY <2>1, <2>2
  <1>6. data[header] = u[1]
    <2>1. 1 \in 1..Len(u) /\ a + Len(code) + 1 = header
      BY <1>0, UnitBytes
    <2> QED
      BY <2>1
  <1>7. UnitFrom(data, o) = [type |-> Type(data[header]), first |-> o, end |-> UnitEnd(data, header)]
    BY <1>2 DEF UnitFrom
  <1> HIDE DEF header
  <1> QED
    BY <1>3, <1>5, <1>6, <1>7


LEMMA CutOut ==
    ASSUME NEW B, NEW data \in Seq(B), NEW a \in Nat, NEW e \in Nat, e <= Len(data),
           NEW x \in Seq(B), e = a + Len(x), \A j \in 1..Len(x) : data[a + j] = x[j]
    PROVE  SubSeq(data, a + 1, e) = x
  <1> DEFINE y == SubSeq(data, a + 1, e)
  <1>1. /\ a + 1 \in Int /\ e \in Int /\ Len(x) \in Nat /\ Len(data) \in Nat
        /\ e - (a + 1) + 1 = Len(x) /\ (a + 1 <= e \/ Len(x) = 0)
        /\ \A j \in 1..Len(x) : (a + 1) + j - 1 = a + j
    OBVIOUS
  <1>2. \A i \in (a + 1)..e : data[i] \in B
    <2>1. \A i \in (a + 1)..e : i \in 1..Len(data)
      BY <1>1
    <2> QED
      BY <2>1
  <1>3. /\ y \in Seq(B) /\ Len(y) = IF a + 1 <= e THEN e - (a + 1) + 1 ELSE 0
        /\ \A i \in 1..(e - (a + 1) + 1) : y[i] = data[(a + 1) + i - 1]
    BY <1>1, <1>2, SubSeqProperties
  <1> HIDE DEF y
  <1>4. Len(y) = Len(x) /\ \A j \in 1..Len(x) : y[j] = x[j]
    <2>1. Len(y) = Len(x)
      BY <1>1, <1>3
    <2>2. \A j \in 1..Len(x) : y[j] = data[a + j]
      BY <1>1, <1>3
    <2> QED
      BY <2>1, <2>2
  <1>5. y = x
    <2>1. \A i \in 1..Len(y) : y[i] = x[i]
      BY <1>4
    <2> QED
      BY <1>3, <1>4, <2>1, SeqEqual, Zenon
  <1> QED
    BY <1>5 DEF y

LEMMA SampleParts ==
    ASSUME NEW s \in Sample
    PROVE  /\ Len(s) \in Nat /\ Len(s) >= 1 /\ DOMAIN s = 1..Len(s)
           /\ \A k \in 1..Len(s) : s[k].code \in {Short, Long} /\ s[k].unit \in NalUnits
  <1>1. PICK n \in 1..MaxNalUnits : s \in [1..n -> [code : {Short, Long}, unit : NalUnits]]
    BY DEF Sample
  <1>2. n \in Nat /\ n >= 1
    BY CaptureConstantsOK
  <1>3. Len(s) = n /\ DOMAIN s = 1..n
    <2> DEFINE R == [code : {Short, Long}, unit : NalUnits]
    <2>1. s \in [1..n -> R]
      BY <1>1
    <2> HIDE DEF R
    <2>2. s \in Seq(R)
      BY <1>2, <2>1
    <2> QED
      BY <1>2, <2>1, <2>2
  <1>4. \A k \in 1..n : s[k] \in [code : {Short, Long}, unit : NalUnits]
    BY <1>1
  <1> QED
    BY <1>2, <1>3, <1>4

\* The bytes of each unit with its start code.
LEMMA CodedParts ==
    ASSUME NEW s \in Sample
    PROVE  /\ Coded(s) \in Seq(Seq(Byte)) /\ Len(Coded(s)) = Len(s)
           /\ \A k \in 1..Len(s) :
                 /\ Len(Coded(s)[k]) = Len(s[k].code) + Len(s[k].unit)
                 /\ Len(s[k].code) \in {3, 4} /\ Len(s[k].unit) \in Nat /\ Len(s[k].unit) >= 1
                 /\ \A j \in 1..Len(s[k].code) : Coded(s)[k][j] = s[k].code[j]
                 /\ \A j \in 1..Len(s[k].unit) : Coded(s)[k][Len(s[k].code) + j] = s[k].unit[j]
  <1> DEFINE c == Coded(s)
             n == Len(s)
  <1>0. n \in Nat /\ DOMAIN s = 1..n /\ \A k \in 1..n : s[k].code \in {Short, Long} /\ s[k].unit \in NalUnits
    BY SampleParts
  <1>1. c = [k \in 1..n |-> s[k].code \o s[k].unit]
    BY <1>0 DEF Coded
  <1>2. \A x \in {Short, Long} : x \in Seq(Byte) /\ Len(x) \in {3, 4}
    <2>1. 0 \in Byte /\ 1 \in Byte
      BY DEF Byte
    <2>2. Short \in Seq(Byte) /\ Len(Short) = 3
      BY <2>1 DEF Short
    <2>3. Long \in Seq(Byte) /\ Len(Long) = 4
      BY <2>1 DEF Long
    <2> QED
      BY <2>2, <2>3
  <1>3. \A u \in NalUnits : u \in Seq(Byte) /\ Len(u) \in Nat /\ Len(u) >= 1
    BY UnitBytes
  <1>4. ASSUME NEW x \in Seq(Byte), NEW y \in Seq(Byte)
        PROVE  /\ x \o y \in Seq(Byte) /\ Len(x \o y) = Len(x) + Len(y)
               /\ \A i \in 1..Len(x) : (x \o y)[i] = x[i]
               /\ \A i \in 1..Len(y) : (x \o y)[Len(x) + i] = y[i]
    OBVIOUS
  <1> HIDE DEF c, n
  <1>5. ASSUME NEW k \in 1..n
        PROVE  /\ c[k] \in Seq(Byte)
               /\ Len(c[k]) = Len(s[k].code) + Len(s[k].unit)
               /\ Len(s[k].code) \in {3, 4} /\ Len(s[k].unit) \in Nat /\ Len(s[k].unit) >= 1
               /\ \A j \in 1..Len(s[k].code) : c[k][j] = s[k].code[j]
               /\ \A j \in 1..Len(s[k].unit) : c[k][Len(s[k].code) + j] = s[k].unit[j]
    <2> DEFINE x == s[k].code
               u == s[k].unit
    <2>1. x \in {Short, Long} /\ u \in NalUnits /\ c[k] = x \o u
      BY <1>0, <1>1
    <2> HIDE DEF x, u
    <2>2. /\ x \in Seq(Byte) /\ u \in Seq(Byte)
          /\ Len(x) \in {3, 4} /\ Len(u) \in Nat /\ Len(u) >= 1
      BY <1>2, <1>3, <2>1
    <2>3. /\ c[k] \in Seq(Byte) /\ Len(c[k]) = Len(x) + Len(u)
          /\ \A j \in 1..Len(x) : c[k][j] = x[j]
          /\ \A j \in 1..Len(u) : c[k][Len(x) + j] = u[j]
      BY <1>4, <2>1, <2>2
    <2> QED
      BY <2>2, <2>3 DEF x, u
  <1>6. c \in Seq(Seq(Byte)) /\ Len(c) = n
    <2>1. c \in [1..n -> Seq(Byte)]
      BY <1>1, <1>5
    <2> QED
      BY <1>0, <2>1
  <1> QED
    BY <1>5, <1>6 DEF c, n

\* The unit that stands at the k-th place of a sample.
Stands(s, k) ==
    [type |-> Type(s[k].unit[1]), first |-> At(Coded(s), k - 1) + 1, end |-> At(Coded(s), k) + 1]

LEMMA UnitsStand ==
    ASSUME NEW s \in Sample
    PROVE  /\ Bytes(s) \in Seq(Byte) /\ At(Coded(s), 0) = 0 /\ At(Coded(s), Len(s)) = Len(Bytes(s))
           /\ \A k \in 1..Len(s) :
                 /\ At(Coded(s), k - 1) \in Nat /\ At(Coded(s), k) \in Nat
                 /\ At(Coded(s), k - 1) < At(Coded(s), k) /\ At(Coded(s), k) <= Len(Bytes(s))
                 /\ UnitAt(Bytes(s), At(Coded(s), k - 1) + 1)
                 /\ UnitFrom(Bytes(s), At(Coded(s), k - 1) + 1) = Stands(s, k)
                 /\ SubSeq(Bytes(s), At(Coded(s), k - 1) + 1, At(Coded(s), k)) = Coded(s)[k]
  <1> DEFINE c == Coded(s)
             n == Len(s)
             data == Bytes(s)
             to(k) == At(c, k)
  <1>0. n \in Nat /\ \A k \in 1..n : s[k].code \in {Short, Long} /\ s[k].unit \in NalUnits
    BY SampleParts
  <1>1. /\ c \in Seq(Seq(Byte)) /\ Len(c) = n
        /\ \A k \in 1..n :
              /\ Len(c[k]) = Len(s[k].code) + Len(s[k].unit)
              /\ Len(s[k].code) \in {3, 4} /\ Len(s[k].unit) \in Nat /\ Len(s[k].unit) >= 1
              /\ \A j \in 1..Len(s[k].code) : c[k][j] = s[k].code[j]
              /\ \A j \in 1..Len(s[k].unit) : c[k][Len(s[k].code) + j] = s[k].unit[j]
    BY CodedParts
  <1>2. data = Joint(c)
    BY DEF Bytes
  <1> HIDE DEF c, n, data
  <1>3. /\ data \in Seq(Byte) /\ to(0) = 0 /\ to(n) = Len(data)
        /\ \A k \in 0..n : to(k) \in Nat /\ to(k) <= Len(data)
        /\ \A k \in 1..n : /\ to(k) = to(k - 1) + Len(c[k])
                           /\ \A j \in 1..Len(c[k]) : data[to(k - 1) + j] = c[k][j]
    <2>1. /\ Joint(c) \in Seq(Byte) /\ At(c, 0) = 0 /\ At(c, Len(c)) = Len(Joint(c))
          /\ \A k \in 0 .. Len(c) : At(c, k) \in Nat /\ At(c, k) <= Len(Joint(c))
          /\ \A k \in 1 .. Len(c) :
                /\ At(c, k) = At(c, k - 1) + Len(c[k])
                /\ \A j \in 1 .. Len(c[k]) : Joint(c)[At(c, k - 1) + j] = c[k][j]
      BY <1>1, JointPlaces
    <2>2. data = Joint(c) /\ n = Len(c)
      BY <1>1, <1>2
    <2> QED
      BY <2>1, <2>2
  <1> HIDE DEF to
  <1>4. ASSUME NEW k \in 1..n
        PROVE  /\ to(k - 1) \in Nat /\ to(k) \in Nat /\ to(k) <= Len(data) /\ Len(data) \in Nat
               /\ to(k) = to(k - 1) + Len(s[k].code) + Len(s[k].unit)
               /\ to(k) >= to(k - 1) + 4
               /\ \A j \in 1..Len(s[k].code) : data[to(k - 1) + j] = s[k].code[j]
               /\ \A j \in 1..Len(s[k].unit) : data[to(k - 1) + Len(s[k].code) + j] = s[k].unit[j]
    <2> DEFINE x == Len(s[k].code)
               y == Len(s[k].unit)
    <2>1. k - 1 \in 0..n /\ k \in 0..n
      BY <1>0
    <2>2. /\ to(k - 1) \in Nat /\ to(k) \in Nat /\ to(k) <= Len(data) /\ Len(data) \in Nat
          /\ to(k) = to(k - 1) + Len(c[k]) /\ Len(c[k]) = x + y /\ x \in {3, 4} /\ y \in Nat /\ y >= 1
      <3>1. /\ to(k - 1) \in Nat /\ to(k) \in Nat /\ to(k) <= Len(data) /\ Len(data) \in Nat
            /\ to(k) = to(k - 1) + Len(c[k])
        BY <1>3, <2>1
      <3>2. Len(c[k]) = x + y /\ x \in {3, 4} /\ y \in Nat /\ y >= 1
        BY <1>1
      <3> QED
        BY <3>1, <3>2
    <2>3. /\ \A j \in 1..x : c[k][j] = s[k].code[j]
          /\ \A j \in 1..y : c[k][x + j] = s[k].unit[j]
          /\ \A j \in 1..Len(c[k]) : data[to(k - 1) + j] = c[k][j]
      BY <1>1, <1>3
    <2> HIDE DEF x, y
    <2>4. \A j \in 1..x : j \in 1..Len(c[k])
      BY <2>2
    <2>5. \A j \in 1..y : x + j \in 1..Len(c[k]) /\ to(k - 1) + (x + j) = to(k - 1) + x + j
      <3>1. x \in Nat
        BY <2>2
      <3> QED
        BY <2>2, <3>1
    <2>6. \A j \in 1..x : data[to(k - 1) + j] = s[k].code[j]
      BY <2>3, <2>4
    <2>7. ASSUME NEW j \in 1..y
          PROVE  data[to(k - 1) + x + j] = s[k].unit[j]
      <3>1. x + j \in 1..Len(c[k]) /\ to(k - 1) + (x + j) = to(k - 1) + x + j
        BY <2>5
      <3>2. data[to(k - 1) + (x + j)] = c[k][x + j] /\ c[k][x + j] = s[k].unit[j]
        BY <2>3, <3>1
      <3> QED
        BY <3>1, <3>2
    <2>8. to(k) = to(k - 1) + x + y /\ to(k) >= to(k - 1) + 4
      <3>1. \A p, q, r, l, m \in Nat : q = p + r /\ r = l + m /\ l >= 3 /\ m >= 1 => q = p + l + m /\ q >= p + 4
        OBVIOUS
      <3>2. x \in Nat /\ x >= 3 /\ Len(c[k]) \in Nat
        BY <2>2
      <3> QED
        BY <2>2, <3>1, <3>2
    <2> QED
      BY <2>2, <2>6, <2>7, <2>8 DEF x, y
  \* Behind a unit that is not the last one comes a start code.
  <1>5. ASSUME NEW k \in 1..n, k # n
        PROVE  /\ to(k) + 4 <= Len(data)
               /\ StartsWith(data, to(k) + 1, Short) \/ StartsWith(data, to(k) + 1, Long)
    <2> DEFINE a == to(k)
               x == s[k + 1].code
    <2>1. k + 1 \in 1..n /\ (k + 1) - 1 = k
      BY <1>0, <1>5
    <2>2. /\ a \in Nat /\ to(k + 1) >= a + 4 /\ to(k + 1) <= Len(data) /\ to(k + 1) \in Nat /\ Len(data) \in Nat
          /\ \A j \in 1..Len(x) : data[a + j] = x[j]
      <3>1. to((k + 1) - 1) = a
        BY <2>1
      <3> QED
        BY <1>4, <2>1, <3>1
    <2>3. x \in {Short, Long}
      BY <1>0, <2>1
    <2> HIDE DEF a, x
    <2>4. a + 4 <= Len(data) /\ a + 1 \in Nat /\ a + 1 # 0
          /\ (a + 1) + 1 = a + 2 /\ (a + 1) + 2 = a + 3 /\ (a + 1) + 3 = a + 4
      BY <2>2
    <2>5. CASE x = Short
      <3>1. data[a + 1] = 0 /\ data[a + 2] = 0 /\ data[a + 3] = 1
        BY <2>2, <2>5 DEF Short
      <3>2. StartsWith(data, a + 1, Short)
        <4>1. (a + 1) + 2 <= Len(data)
          BY <2>2, <2>4
        <4> QED
          BY <1>3, <2>4, <3>1, <4>1, CodeStarts
      <3> QED
        BY <2>4, <3>2 DEF a
    <2>6. CASE x = Long
      <3>1. data[a + 1] = 0 /\ data[a + 2] = 0 /\ data[a + 3] = 0 /\ data[a + 4] = 1
        BY <2>2, <2>6 DEF Long
      <3>2. StartsWith(data, a + 1, Long)
        <4>1. (a + 1) + 3 <= Len(data)
          BY <2>2, <2>4
        <4> QED
          BY <1>3, <2>4, <3>1, <4>1, CodeStarts
      <3> QED
        BY <2>4, <3>2 DEF a
    <2> QED
      BY <2>3, <2>5, <2>6
  <1>6. ASSUME NEW k \in 1..n
        PROVE  /\ UnitAt(data, to(k - 1) + 1)
               /\ UnitFrom(data, to(k - 1) + 1)
                    = [type |-> Type(s[k].unit[1]), first |-> to(k - 1) + 1, end |-> to(k) + 1]
    <2> DEFINE a == to(k - 1)
               e == to(k)
               x == s[k].code
               u == s[k].unit
    <2>1. /\ a \in Nat /\ x \in {Short, Long} /\ u \in NalUnits /\ e = a + Len(x) + Len(u) /\ e <= Len(data)
          /\ \A j \in 1..Len(x) : data[a + j] = x[j]
          /\ \A j \in 1..Len(u) : data[a + Len(x) + j] = u[j]
      BY <1>0, <1>4
    <2>4. \A j \in 1..Len(u) : data[a + Len(x) + j] = u[j]
      BY <2>1
    <2>5. \A j \in 1..Len(x) : data[a + j] = x[j]
      BY <2>1
    <2>6. a \in Nat /\ x \in {Short, Long} /\ u \in NalUnits /\ e = a + Len(x) + Len(u) /\ e <= Len(data)
      BY <2>1
    <2>2. e = Len(data) \/ (e + 4 <= Len(data) /\ (StartsWith(data, e + 1, Short) \/ StartsWith(data, e + 1, Long)))
      BY <1>3, <1>5
    <2> HIDE DEF a, e, x, u
    <2>3. /\ UnitAt(data, a + 1)
          /\ UnitFrom(data, a + 1) = [type |-> Type(u[1]), first |-> a + 1, end |-> e + 1]
      <3>1. data \in Seq(Byte)
        BY <1>3
      <3> QED
        BY <2>2, <2>4, <2>5, <2>6, <3>1, UnitFound, ZenonT(40)
    <2> QED
      BY <2>3 DEF a, e, u
  <1>7. ASSUME NEW k \in 1..n
        PROVE  SubSeq(data, to(k - 1) + 1, to(k)) = c[k]
    <2> DEFINE a == to(k - 1)
               e == to(k)
               x == c[k]
    <2>1. /\ a \in Nat /\ e \in Nat /\ e <= Len(data) /\ e = a + Len(x) /\ x \in Seq(Byte)
          /\ \A j \in 1..Len(x) : data[a + j] = x[j]
      BY <1>1, <1>3, <1>4
    <2> HIDE DEF a, e, x
    <2>5. SubSeq(data, a + 1, e) = x
      BY <1>3, <2>1, CutOut
    <2> QED
      BY <2>5 DEF a, e, x
  <1>8. ASSUME NEW k \in 1..n
        PROVE  to(k - 1) < to(k)
    BY <1>4
  <1> QED
    BY <1>3, <1>4, <1>6, <1>7, <1>8 DEF to, c, n, data, Stands


\* The scan sees the units that stand in a sample, one for one.
LEMMA ScanFinds ==
    ASSUME NEW s \in Sample
    PROVE  /\ Len(Scan(Bytes(s))) = Len(s) /\ Scan(Bytes(s)) \in Seq(Finding)
           /\ \A k \in 1..Len(s) : Scan(Bytes(s))[k] = Stands(s, k)
  <1> DEFINE n == Len(s)
             data == Bytes(s)
             to(k) == At(Coded(s), k)
             from == ScanFrom(data)
             L == Len(data)
  <1>1. n \in Nat /\ n >= 1
    BY SampleParts
  <1>2. /\ data \in Seq(Byte) /\ to(0) = 0 /\ to(n) = L
        /\ \A k \in 1..n : /\ to(k - 1) \in Nat /\ to(k) \in Nat /\ to(k - 1) < to(k) /\ to(k) <= L
                           /\ UnitAt(data, to(k - 1) + 1)
                           /\ UnitFrom(data, to(k - 1) + 1) = Stands(s, k)
    BY UnitsStand
  <1>3. L \in Nat /\ \A k \in 1..n : Stands(s, k).end = to(k) + 1
    BY <1>2 DEF Stands
  <1>4. \A o \in 1..(L + 1) :
              /\ from[o] \in Seq(Finding)
              /\ from[o] = IF ~UnitAt(data, o) THEN <<>>
                           ELSE <<UnitFrom(data, o)>> \o from[UnitFrom(data, o).end]
    BY <1>2, ScanFromDef
  <1>5. Scan(data) = from[1]
    BY DEF Scan
  <1> HIDE DEF n, data, to, from, L
  <1> DEFINE Rest(k) == /\ Len(from[to(k) + 1]) = n - k
                        /\ \A i \in 1..(n - k) : from[to(k) + 1][i] = Stands(s, k + i)
             T == {d \in Nat : d <= n => Rest(n - d)}
  <1>6. 0 \in T
    <2>1. ~UnitAt(data, L + 1)
      BY <1>3 DEF UnitAt, L
    <2>2. from[L + 1] = <<>>
      <3>1. L + 1 \in 1..(L + 1)
        BY <1>3
      <3> DEFINE last == L + 1
      <3>2. last \in 1..(L + 1) /\ ~UnitAt(data, last)
        BY <2>1, <3>1
      <3> HIDE DEF last
      <3>3. from[last] = <<>>
        BY <1>4, <3>2
      <3> QED
        BY <3>3 DEF last
    <2>3. from[to(n) + 1] = <<>> /\ n - n = 0 /\ n - 0 = n
      BY <1>1, <1>2, <2>2
    <2>4. Rest(n)
      BY <2>3
    <2> QED
      BY <2>3, <2>4
  <1>7. ASSUME NEW d \in Nat, d \in T
        PROVE  d + 1 \in T
    <2> SUFFICES ASSUME d + 1 <= n
                 PROVE  Rest(n - (d + 1))
      OBVIOUS
    <2> DEFINE k == n - d
               o == to(k - 1) + 1
               u == Stands(s, k)
               tail == from[to(k) + 1]
    <2>1. k \in 1..n /\ n - (d + 1) = k - 1 /\ k - 1 \in Nat /\ n - k \in Nat /\ n - (k - 1) = (n - k) + 1
      BY <1>1
    <2>2. Len(tail) = n - k /\ \A i \in 1..(n - k) : tail[i] = Stands(s, k + i)
      BY <1>7, <1>1
    <2> HIDE DEF k
    <2>3. o \in 1..(L + 1) /\ to(k) + 1 \in 1..(L + 1)
      <3>1. /\ to(k - 1) \in Nat /\ to(k) \in Nat /\ L \in Nat
            /\ to(k - 1) < to(k) /\ to(k) <= L
        BY <1>2, <1>3, <2>1
      <3>2. \A p, q, r \in Nat : p < q /\ q <= r => p + 1 \in 1..(r + 1) /\ q + 1 \in 1..(r + 1)
        OBVIOUS
      <3> QED
        BY <3>1, <3>2
    <2>4. from[o] = <<u>> \o tail /\ tail \in Seq(Finding) /\ u \in Finding
      <3>1. UnitAt(data, o) /\ UnitFrom(data, o) = u /\ u.end = to(k) + 1
        BY <1>2, <1>3, <2>1
      <3>0. data \in Seq(Byte) /\ o \in 1..(Len(data) + 1)
        BY <1>2, <2>3 DEF L
      <3> HIDE DEF o, u
      <3>2. from[o] = <<u>> \o from[u.end]
        BY <1>4, <2>3, <3>1
      <3>3. u \in Finding
        BY <3>0, <3>1, UnitEnds
      <3> QED
        BY <1>4, <2>3, <3>1, <3>2, <3>3
    <2> HIDE DEF o, u, tail
    <2>5. /\ Len(from[o]) = (n - k) + 1 /\ from[o][1] = u
          /\ \A i \in 1..(n - k) : from[o][i + 1] = tail[i]
      <3>0. ASSUME NEW x \in Finding, NEW y \in Seq(Finding)
            PROVE  /\ Len(<<x>> \o y) = 1 + Len(y) /\ (<<x>> \o y)[1] = x
                   /\ \A i \in 1..Len(y) : (<<x>> \o y)[i + 1] = y[i]
        OBVIOUS
      <3>1. /\ Len(<<u>> \o tail) = 1 + Len(tail) /\ (<<u>> \o tail)[1] = u
            /\ \A i \in 1..Len(tail) : (<<u>> \o tail)[i + 1] = tail[i]
        BY <2>4, <3>0
      <3> QED
        BY <2>1, <2>2, <2>4, <3>1
    <2>6. ASSUME NEW i \in 1..((n - k) + 1)
          PROVE  from[o][i] = Stands(s, (k - 1) + i)
      <3>1. CASE i = 1
        <4>1. (k - 1) + i = k
          BY <2>1, <3>1
        <4> QED
          BY <2>5, <3>1, <4>1 DEF u
      <3>2. CASE i # 1
        <4>1. i - 1 \in 1..(n - k) /\ (i - 1) + 1 = i /\ k + (i - 1) = (k - 1) + i
          BY <2>1, <3>2
        <4> DEFINE j == i - 1
        <4>2. j \in 1..(n - k) /\ j + 1 = i /\ k + j = (k - 1) + i
          BY <4>1
        <4> HIDE DEF j
        <4> QED
          BY <2>2, <2>5, <4>2
      <3> QED
        BY <3>1, <3>2
    <2>7. Rest(k - 1)
      BY <2>1, <2>5, <2>6 DEF o
    <2> QED
      BY <2>1, <2>7
  <1>8. \A d \in Nat : d \in T
    <2> HIDE DEF T
    <2> QED
      BY <1>6, <1>7, SetInduction
  <1>9. Rest(0)
    <2> HIDE DEF Rest
    <2>1. n <= n => Rest(n - n)
      BY <1>1, <1>8
    <2>2. n <= n /\ n - n = 0
      BY <1>1
    <2> QED
      BY <2>1, <2>2
  <1>10. to(0) + 1 = 1 /\ n - 0 = n /\ 1 \in 1..(L + 1)
    BY <1>1, <1>2, <1>3
  <1>11. Len(from[1]) = n /\ from[1] \in Seq(Finding)
    BY <1>4, <1>9, <1>10
  <1>12. \A i \in 1..n : from[1][i] = Stands(s, i)
    <2> TAKE i \in 1..n
    <2>1. 0 + i = i
      BY <1>1
    <2> QED
      BY <1>9, <1>10, <2>1
  <1> QED
    BY <1>5, <1>11, <1>12 DEF n, data

\* What is said of the units that were found holds of those that were meant.
LEMMA FoundAsMeant ==
    ASSUME NEW s \in Sample
    PROVE  /\ DOMAIN Scan(Bytes(s)) = 1..Len(s) /\ DOMAIN s = 1..Len(s)
           /\ \A k \in 1..Len(s) :
                 LET found == Scan(Bytes(s))[k]
                 IN  /\ found.type = Type(s[k].unit[1])
                     /\ SubSeq(Bytes(s), found.first, found.end - 1) = Coded(s)[k]
  <1>1. DOMAIN Scan(Bytes(s)) = 1..Len(s) /\ DOMAIN s = 1..Len(s)
    BY ScanFinds, SampleParts
  <1>2. ASSUME NEW k \in 1..Len(s)
        PROVE  /\ Scan(Bytes(s))[k].type = Type(s[k].unit[1])
               /\ SubSeq(Bytes(s), Scan(Bytes(s))[k].first, Scan(Bytes(s))[k].end - 1) = Coded(s)[k]
    <2> DEFINE a == At(Coded(s), k - 1)
               e == At(Coded(s), k)
               found == Scan(Bytes(s))[k]
    <2>1. e \in Nat /\ SubSeq(Bytes(s), a + 1, e) = Coded(s)[k]
      BY UnitsStand
    <2>2. found = Stands(s, k)
      BY ScanFinds
    <2>3. found.type = Type(s[k].unit[1]) /\ found.first = a + 1 /\ found.end = e + 1
      BY <2>2 DEF Stands
    <2> HIDE DEF a, e, found
    <2>4. found.end - 1 = e
      BY <2>1, <2>3
    <2> QED
      BY <2>1, <2>3, <2>4 DEF found
  <1> QED
    BY <1>1, <1>2

LEMMA SetsAreExtracted ==
    ASSUME NEW s \in Sample
    PROVE  /\ ExtractSpsPps(Bytes(s)) = ParameterSets(s) /\ ParameterSets(s) \in Seq(Byte)
           /\ HasDataNal(Bytes(s)) <=> HasFrame(s)
           /\ IsKeyframe(Bytes(s)) <=> \E i \in DOMAIN s : Type(s[i].unit[1]) = Idr
  <1> DEFINE n == Len(s)
             data == Bytes(s)
             found == Scan(data)
             seen == [i \in DOMAIN found |->
                        IF found[i].type \in {Sps, Pps}
                        THEN SubSeq(data, found[i].first, found[i].end - 1) ELSE <<>>]
             meant == [i \in DOMAIN s |-> IF IsSet(s[i]) THEN Coded(s)[i] ELSE <<>>]
  <1>1. /\ DOMAIN found = 1..n /\ DOMAIN s = 1..n /\ n \in Nat
        /\ \A k \in 1..n : /\ found[k].type = Type(s[k].unit[1])
                           /\ SubSeq(data, found[k].first, found[k].end - 1) = Coded(s)[k]
    BY FoundAsMeant, SampleParts
  <1>2. ExtractSpsPps(data) = Joint(seen) /\ ParameterSets(s) = Joint(meant)
    BY DEF ExtractSpsPps, ParameterSets
  <1>3. HasDataNal(data) <=> \E i \in DOMAIN found : found[i].type \in {Slice, Idr}
    BY DEF HasDataNal, Range
  <1>4. IsKeyframe(data) <=> \E i \in DOMAIN found : found[i].type = Idr
    BY DEF IsKeyframe, Range
  <1> HIDE DEF found, data, n
  <1>5. seen = meant
    <2>1. ASSUME NEW i \in 1..n
          PROVE  (IF found[i].type \in {Sps, Pps}
                  THEN SubSeq(data, found[i].first, found[i].end - 1) ELSE <<>>)
                   = (IF IsSet(s[i]) THEN Coded(s)[i] ELSE <<>>)
      BY <1>1 DEF IsSet
    <2> QED
      BY <1>1, <2>1
  <1>6. meant \in Seq(Seq(Byte))
    <2>1. \A i \in 1..n : Coded(s)[i] \in Seq(Byte)
      <3> DEFINE c == Coded(s)
      <3>1. c \in Seq(Seq(Byte)) /\ Len(c) = n
        BY CodedParts DEF n
      <3> HIDE DEF c
      <3>2. \A i \in 1..n : c[i] \in Seq(Byte)
        BY <3>1
      <3> QED
        BY <3>2 DEF c
    <2>2. ASSUME NEW i \in 1..n
          PROVE  (IF IsSet(s[i]) THEN Coded(s)[i] ELSE <<>>) \in Seq(Byte)
      <3>1. <<>> \in Seq(Byte)
        OBVIOUS
      <3> QED
        BY <2>1, <3>1
    <2>3. meant \in [1..n -> Seq(Byte)]
      BY <1>1, <2>2
    <2> HIDE DEF meant
    <2> QED
      BY <1>1, <2>3
  <1>7. Joint(meant) \in Seq(Byte)
    <2> HIDE DEF meant
    <2> QED
      BY <1>6, JointPlaces
  <1>8. HasDataNal(data) <=> HasFrame(s)
    BY <1>1, <1>3 DEF HasFrame
  <1>9. IsKeyframe(data) <=> \E i \in DOMAIN s : Type(s[i].unit[1]) = Idr
    BY <1>1, <1>4
  <1> HIDE DEF seen, meant
  <1> QED
    BY <1>2, <1>5, <1>7, <1>8, <1>9 DEF data

LEMMA NothingFound == Bytes(<<>>) = <<>> /\ Scan(<<>>) = <<>>
  <1>1. Coded(<<>>) = <<>>
    BY DEF Coded
  <1>2. <<>> \in Seq(Seq(Byte)) /\ Len(<<>>) = 0 /\ <<>> \in Seq(Byte)
    OBVIOUS
  <1>3. JointFirst(<<>>)[0] = <<>>
    BY <1>2, JointFirstDef
  <1>4. Bytes(<<>>) = <<>>
    BY <1>1, <1>2, <1>3 DEF Bytes, Joint
  <1>5. ~UnitAt(<<>>, 1)
    BY <1>2 DEF UnitAt
  <1>6. 1 \in 1 .. (Len(<<>>) + 1)
    BY <1>2
  <1>7. ScanFrom(<<>>)[1] = <<>>
    BY <1>2, <1>5, <1>6, ScanFromDef
  <1> QED
    BY <1>4, <1>7 DEF Scan

CaptureInv == CaptureTypeOK /\ SetsGoWithTheirFrame

LEMMA InitCapture == CaptureInit => CaptureInv
  <1> SUFFICES ASSUME CaptureInit
               PROVE  CaptureInv
    OBVIOUS
  <1>1. CaptureTypeOK
    BY CaptureConstantsOK DEF CaptureInit, CaptureTypeOK
  <1>2. given \o spsPpsBuf = sent /\ fragment.keyframe = FALSE /\ fragment.init = <<>> /\ DOMAIN sample = {}
    BY DEF CaptureInit
  <1> QED
    BY <1>1, <1>2 DEF CaptureInv, SetsGoWithTheirFrame, HasFrame

LEMMA PollCapture ==
    ASSUME CaptureInv, NEW s \in Sample, PollSample(s)
    PROVE  CaptureInv'
  <1> DEFINE data == Bytes(s)
             sets == ParameterSets(s)
  <1>1. /\ ExtractSpsPps(data) = sets /\ sets \in Seq(0..255)
        /\ HasDataNal(data) <=> HasFrame(s)
        /\ IsKeyframe(data) <=> \E i \in DOMAIN s : Type(s[i].unit[1]) = Idr
    BY SetsAreExtracted DEF Byte
  <1>2. IsKeyframe(data) \in BOOLEAN
    BY DEF IsKeyframe
  <1> HIDE DEF data, sets
  <1>3. /\ spsPpsBuf \in Seq(0..255) /\ given \in Seq(0..255) /\ sent \in Seq(0..255)
        /\ samples \in 0..MaxSamples /\ MaxSamples \in Nat /\ given \o spsPpsBuf = sent
    BY CaptureConstantsOK DEF CaptureInv, CaptureTypeOK, SetsGoWithTheirFrame
  <1> DEFINE buf == spsPpsBuf \o sets
  <1>4. /\ samples < MaxSamples /\ sample' = s /\ sent' = sent \o sets /\ samples' = samples + 1
        /\ IF HasDataNal(data)
           THEN /\ fragment' = [keyframe |-> IsKeyframe(data), init |-> buf]
                /\ given' = given \o buf /\ spsPpsBuf' = <<>>
           ELSE /\ fragment' = [keyframe |-> IsKeyframe(data), init |-> <<>>]
                /\ given' = given \o <<>> /\ spsPpsBuf' = buf
    BY <1>1 DEF PollSample, Describe, data, sets
  <1>5. buf \in Seq(0..255) /\ sent' \in Seq(0..255) /\ samples' \in 0..MaxSamples
    BY <1>1, <1>3, <1>4
  <1>6. given \o buf = sent \o sets
    <2>1. given \in Seq(0..255) /\ spsPpsBuf \in Seq(0..255) /\ sets \in Seq(0..255)
      BY <1>1, <1>3
    <2>2. (given \o spsPpsBuf) \o sets = given \o (spsPpsBuf \o sets)
      <3> DEFINE B == 0..255
      <3>1. given \in Seq(B) /\ spsPpsBuf \in Seq(B) /\ sets \in Seq(B)
        BY <2>1
      <3> HIDE DEF B
      <3> QED
        BY <3>1, ConcatAssociative
    <2> QED
      BY <1>3, <2>2
  <1> HIDE DEF buf
  <1>7. CASE HasDataNal(data)
    <2>1. /\ fragment' = [keyframe |-> IsKeyframe(data), init |-> buf]
          /\ given' = given \o buf /\ spsPpsBuf' = <<>>
      BY <1>4, <1>7
    <2>2. given' \in Seq(0..255) /\ spsPpsBuf' \in Seq(0..255)
      BY <1>3, <1>5, <2>1
    <2>3. fragment' \in [keyframe : BOOLEAN, init : Seq(0..255)]
      BY <1>2, <1>5, <2>1
    <2>4. CaptureTypeOK'
      BY <1>4, <1>5, <2>2, <2>3 DEF CaptureTypeOK
    <2>5. given' \o spsPpsBuf' = sent'
      BY <1>4, <1>6, <2>1, <2>2
    <2>6. HasFrame(s) /\ fragment'.keyframe = IsKeyframe(data)
      BY <1>1, <1>7, <2>1
    <2> QED
      BY <1>1, <1>4, <2>1, <2>4, <2>5, <2>6 DEF CaptureInv, SetsGoWithTheirFrame
  <1>8. CASE ~HasDataNal(data)
    <2>1. /\ fragment' = [keyframe |-> IsKeyframe(data), init |-> <<>>]
          /\ given' = given \o <<>> /\ spsPpsBuf' = buf
      BY <1>4, <1>8
    <2>2. given' \in Seq(0..255) /\ spsPpsBuf' \in Seq(0..255) /\ given' = given
      BY <1>3, <1>5, <2>1
    <2>3. fragment' \in [keyframe : BOOLEAN, init : Seq(0..255)]
      BY <1>2, <2>1
    <2>4. CaptureTypeOK'
      BY <1>4, <1>5, <2>2, <2>3 DEF CaptureTypeOK
    <2>5. given' \o spsPpsBuf' = sent'
      BY <1>4, <1>6, <2>1, <2>2
    <2>6. ~HasFrame(s) /\ fragment'.keyframe = IsKeyframe(data) /\ fragment'.init = <<>>
      BY <1>1, <1>8, <2>1
    <2> QED
      BY <1>1, <1>4, <2>4, <2>5, <2>6 DEF CaptureInv, SetsGoWithTheirFrame
  <1> QED
    BY <1>7, <1>8

LEMMA NextCapture == CaptureInv /\ [CaptureNext]_captureVars => CaptureInv'
  <1> SUFFICES ASSUME CaptureInv, [CaptureNext]_captureVars
               PROVE  CaptureInv'
    OBVIOUS
  <1>1. CASE CaptureNext
    BY <1>1, PollCapture DEF CaptureNext
  <1>2. CASE UNCHANGED captureVars
    BY <1>2 DEF captureVars, CaptureInv, CaptureTypeOK, SetsGoWithTheirFrame
  <1> QED
    BY <1>1, <1>2

LEMMA CaptureDescribes == CaptureInv => FramesAreDescribed
  <1> SUFFICES ASSUME CaptureInv
               PROVE  UnitsAreFound
    BY DEF CaptureInv, FramesAreDescribed
  <1>1. CASE sample = <<>>
    <2>1. Scan(Bytes(sample)) = <<>> /\ Len(sample) = 0 /\ DOMAIN sample = {}
      BY <1>1, NothingFound
    <2> QED
      BY <1>1, <2>1 DEF UnitsAreFound
  <1>2. CASE sample \in Sample
    <2>1. Len(Scan(Bytes(sample))) = Len(sample)
      BY <1>2, ScanFinds
    <2> QED
      BY <1>2, <2>1, FoundAsMeant DEF UnitsAreFound
  <1> QED
    BY <1>1, <1>2 DEF CaptureInv, CaptureTypeOK

\* The capture source's state stays of its type.
THEOREM CaptureTypes == CaptureSpec => []CaptureTypeOK
  <1>1. CaptureInv => CaptureTypeOK
    BY DEF CaptureInv
  <1> QED
    BY <1>1, InitCapture, NextCapture, PTL DEF CaptureSpec

\* Whatever units the encoder emits, in samples of any length: the scan finds
\* them one for one, whatever their start codes, and parameter sets go each once
\* and in order with the next coded frame, which is marked a key frame if it has
\* an IDR unit (scan_nal_header, extract_sps_pps and poll_fragment).
THEOREM FramesDescribed == CaptureSpec => []FramesAreDescribed
  BY InitCapture, NextCapture, CaptureDescribes, PTL DEF CaptureSpec

-----------------------------------------------------------------------------
(* PipelineEngine: chains, their tasks and a stop. *)

USE EngineConstantsOK DEF EngineGoto

\* What spawn_chain does to an entry: its task is counted and its handle
\* kept, and nothing else changes.
Spawned(id) ==
    /\ chains' \in [Ids -> Entry \cup {NoChain}]
    /\ live' \in [Parts -> Nat]
    /\ late' \in [Parts -> BOOLEAN]
    /\ chains[id] \in Entry /\ chains[id].part \in Parts
    /\ chains'[id] = [part |-> chains[id].part, fresh |-> FALSE, handle |-> TRUE]
    /\ chains'[id] \in Entry /\ chains'[id] # NoChain
    /\ \A i \in Ids \ {id} : chains'[i] = chains[i]
    /\ live'[chains[id].part] = live[chains[id].part] + 1
    /\ \A n \in Parts \ {chains[id].part} : live'[n] = live[n] /\ late'[n] = late[n]
    /\ (\E c \in EngineCallers : enginePc[c] = "take") => late'[chains[id].part]

LEMMA SpawnTyped ==
    ASSUME EngineTypeOK, NEW id \in Ids, Spawnable(id), SpawnChain(id)
    PROVE  Spawned(id)
  <1>1. chains[id] \in Entry /\ chains[id].part \in Parts
    BY DEF EngineTypeOK, Spawnable, Entry
  <1>2. [part |-> chains[id].part, fresh |-> FALSE, handle |-> TRUE] \in Entry
    BY <1>1 DEF Entry
  <1> DEFINE n == chains[id].part
  <1>3. /\ chains' = [chains EXCEPT ![id] = [part |-> n, fresh |-> FALSE, handle |-> TRUE]]
        /\ live' = [live EXCEPT ![n] = @ + 1]
        /\ late' = [late EXCEPT ![n] = \E c \in EngineCallers : enginePc[c] = "take"]
    BY DEF SpawnChain
  <1> HIDE DEF n
  <1>4. n \in Parts
    BY <1>1 DEF n
  <1>5. /\ live' \in [Parts -> Nat] /\ late' \in [Parts -> BOOLEAN]
        /\ live'[n] = live[n] + 1
        /\ \A m \in Parts \ {n} : live'[m] = live[m] /\ late'[m] = late[m]
        /\ (\E c \in EngineCallers : enginePc[c] = "take") => late'[n]
    BY <1>3, <1>4 DEF EngineTypeOK
  <1>6. /\ chains' \in [Ids -> Entry \cup {NoChain}]
        /\ chains'[id] = [part |-> n, fresh |-> FALSE, handle |-> TRUE]
        /\ \A i \in Ids \ {id} : chains'[i] = chains[i]
    BY <1>2, <1>3 DEF EngineTypeOK, n
  <1> QED
    BY <1>1, <1>2, <1>5, <1>6 DEF n, Spawned

LEMMA WithoutHandle == ASSUME NEW e \in Entry PROVE [e EXCEPT !.handle = FALSE] \in Entry
  BY DEF Entry

\* Typing is inductive on its own.
LEMMA TypeStep == EngineTypeOK /\ [EngineNext]_engineVars => EngineTypeOK'
<1> SUFFICES ASSUME EngineTypeOK, [EngineNext]_engineVars PROVE EngineTypeOK'
  OBVIOUS
<1>1. ASSUME NEW c \in EngineCallers, NEW id \in Ids, AddChain(c, id) PROVE EngineTypeOK'
  <2>1. added + 1 \in Parts
    BY <1>1 DEF AddChain, EngineTypeOK, Parts
  <2>2. [part |-> added + 1, fresh |-> TRUE, handle |-> FALSE] \in Entry
    BY <2>1 DEF Entry
  <2> QED
    BY <1>1, <2>1, <2>2 DEF AddChain, EngineTypeOK
<1>2. ASSUME NEW c \in EngineCallers, SpawnAdded(c) PROVE EngineTypeOK'
  <2>1. arg[c] \in Ids
    BY <1>2 DEF SpawnAdded, EngineTypeOK
  <2>2. CASE Spawnable(arg[c])
    BY <1>2, <2>1, <2>2, SpawnTyped DEF SpawnAdded, EngineTypeOK, Spawned
  <2>3. CASE ~Spawnable(arg[c])
    BY <1>2, <2>3 DEF SpawnAdded, EngineTypeOK
  <2> QED
    BY <2>2, <2>3
<1>3. ASSUME NEW c \in EngineCallers, NEW id \in Ids, RemoveChain(c, id) PROVE EngineTypeOK'
  <2>1. chains[id].part \in Parts
    BY <1>3 DEF RemoveChain, EngineTypeOK, Entry
  <2> QED
    BY <1>3, <2>1 DEF RemoveChain, EngineTypeOK
<1>4. ASSUME NEW c \in EngineCallers, StartEngine(c) \/ StopEngine(c) PROVE EngineTypeOK'
  BY <1>4 DEF StartEngine, StopEngine, EngineTypeOK
<1>5. ASSUME NEW c \in EngineCallers, ListChains(c) PROVE EngineTypeOK'
  BY <1>5 DEF ListChains, EngineTypeOK
<1>6. ASSUME NEW c \in EngineCallers, SpawnListed(c) PROVE EngineTypeOK'
  <2>1. PICK id \in todo[c] :
           IF Spawnable(id)
           THEN /\ SpawnChain(id)
                /\ todo' = [todo EXCEPT ![c] = @ \ {id}]
                /\ IF todo[c] = {id} THEN EngineGoto(c, "idle") ELSE UNCHANGED enginePc
           ELSE /\ todo' = [todo EXCEPT ![c] = {}]
                /\ EngineGoto(c, "idle")
                /\ UNCHANGED <<chains, live, late>>
    BY <1>6 DEF SpawnListed
  <2>2. id \in Ids
    BY DEF EngineTypeOK
  <2>3. CASE Spawnable(id)
    <3>1. /\ chains' \in [Ids -> Entry \cup {NoChain}]
          /\ live' \in [Parts -> Nat] /\ late' \in [Parts -> BOOLEAN]
      BY <2>1, <2>2, <2>3, SpawnTyped DEF Spawned
    <3>2. todo' = [todo EXCEPT ![c] = @ \ {id}]
      BY <2>1, <2>3
    <3>3. CASE todo[c] = {id}
      BY <1>6, <2>1, <2>3, <3>1, <3>2, <3>3 DEF SpawnListed, EngineTypeOK
    <3>4. CASE todo[c] # {id}
      BY <1>6, <2>1, <2>3, <3>1, <3>2, <3>4 DEF SpawnListed, EngineTypeOK
    <3> QED
      BY <3>3, <3>4
  <2>4. CASE ~Spawnable(id)
    BY <1>6, <2>1, <2>4 DEF SpawnListed, EngineTypeOK
  <2> QED
    BY <2>3, <2>4
<1>7. ASSUME NEW c \in EngineCallers, SendShutdown(c) PROVE EngineTypeOK'
  BY <1>7 DEF SendShutdown, EngineTypeOK, Listening
<1>8. ASSUME NEW c \in EngineCallers, TakeHandles(c) PROVE EngineTypeOK'
  <2>1. \A id \in Ids : chains[id] # NoChain => [chains[id] EXCEPT !.handle = FALSE] \in Entry
    BY WithoutHandle DEF EngineTypeOK
  <2> QED
    BY <1>8, <2>1 DEF TakeHandles, EngineTypeOK
<1>9. ASSUME NEW c \in EngineCallers, JoinDone(c) PROVE EngineTypeOK'
  BY <1>9 DEF JoinDone, EngineTypeOK
<1>10. ASSUME NEW n \in Parts, Task(n) PROVE EngineTypeOK'
  BY <1>10 DEF Task, ChainStops, ChainDropped, EngineTypeOK
<1>11. CASE UNCHANGED engineVars
  BY <1>11 DEF engineVars, EngineTypeOK
<1> QED
  BY <1>1, <1>2, <1>3, <1>4, <1>5, <1>6, <1>7, <1>8, <1>9, <1>10, <1>11 DEF EngineNext, Begin, EngineGoesOn

LEMMA InitTyped == EngineInit => EngineTypeOK
<1> SUFFICES ASSUME EngineInit PROVE EngineTypeOK
  OBVIOUS
<1>1. chains \in [Ids -> Entry \cup {NoChain}] /\ added \in 0..MaxAdds
  BY DEF EngineInit
<1>2. live \in [Parts -> Nat] /\ aborted \in [Parts -> BOOLEAN] /\ late \in [Parts -> BOOLEAN]
  BY DEF EngineInit
<1>3. enginePc \in [EngineCallers -> {"idle", "spawnAdded", "list", "spawn", "send", "take", "join"}]
  BY DEF EngineInit
<1>4. arg \in [EngineCallers -> Ids \cup {NoChain}] /\ todo \in [EngineCallers -> SUBSET Ids]
  BY DEF EngineInit
<1> QED
  BY <1>1, <1>2, <1>3, <1>4 DEF EngineInit, EngineTypeOK

\* The state is well typed: every caller and chain is where the code puts it.
THEOREM EngineTypes == EngineSpec => []EngineTypeOK
  BY InitTyped, TypeStep, PTL DEF EngineSpec

-----------------------------------------------------------------------------
\* No two entries share a part, and a part still in its entry, or not handed
\* over yet, is run by nobody: why take() of the source admits one task only.
PartsOK ==
    /\ \A id \in Ids : chains[id] # NoChain => chains[id].part <= added
    /\ \A i, j \in Ids : (i # j /\ chains[i] # NoChain /\ chains[j] # NoChain)
                             => chains[i].part # chains[j].part
    /\ \A n \in Parts : n > added => live[n] = 0
    /\ \A id \in Ids : Spawnable(id) => live[chains[id].part] = 0

Single == PartsOK /\ NoTwinTasks

LEMMA SpawnSingle ==
    ASSUME EngineTypeOK, Single, NEW id \in Ids, Spawnable(id), SpawnChain(id), added' = added
    PROVE  Single'
  <1>0. Spawned(id)
    BY SpawnTyped
  <1> USE DEF Single, PartsOK, NoTwinTasks
  <1> DEFINE n == chains[id].part
  <1>1. live[n] = 0 /\ n \in Parts /\ n <= added /\ live'[n] = 1 /\ chains[id] # NoChain
    BY <1>0 DEF Spawned, Spawnable
  <1>2. chains'[id].part = n /\ ~chains'[id].fresh /\ \A i \in Ids \ {id} : chains'[i] = chains[i]
    BY <1>0 DEF Spawned
  <1>3. \A i \in Ids : chains'[i] # NoChain => chains[i] # NoChain /\ chains'[i].part = chains[i].part
    BY <1>1, <1>2
  <1>4. \A i, j \in Ids : (i # j /\ chains'[i] # NoChain /\ chains'[j] # NoChain)
                             => chains'[i].part # chains'[j].part
    BY <1>3
  <1>6. \A m \in Parts : live'[m] = live[m] \/ (m = n /\ live'[m] = 1)
    BY <1>0, <1>1 DEF Spawned
  <1>5. \A i \in Ids : Spawnable(i)' => live'[chains'[i].part] = 0
    <2> SUFFICES ASSUME NEW i \in Ids, Spawnable(i)' PROVE live'[chains'[i].part] = 0
      OBVIOUS
    <2>1. i # id /\ chains'[i] = chains[i] /\ Spawnable(i)
      BY <1>2 DEF Spawnable
    <2>2. chains[i].part # n /\ live[chains[i].part] = 0 /\ chains[i].part \in Parts
      BY <1>1, <2>1 DEF Spawnable, EngineTypeOK, Entry
    <2> QED
      BY <1>6, <2>1, <2>2
  <1>7. \A m \in Parts : (m > added' => live'[m] = 0) /\ live'[m] <= 1
    <2> SUFFICES ASSUME NEW m \in Parts PROVE (m > added' => live'[m] = 0) /\ live'[m] <= 1
      OBVIOUS
    <2>1. m \in Nat /\ added \in Nat /\ n \in Nat /\ n <= added /\ added' = added
      BY <1>1 DEF EngineTypeOK, Parts
    <2>2. CASE m = n
      <3> HIDE DEF n
      <3> QED
        BY <1>1, <2>1, <2>2
    <2>3. CASE m # n
      <3>1. live'[m] = live[m]
        BY <1>6, <2>3
      <3> QED
        BY <2>1, <3>1
    <2> QED
      BY <2>2, <2>3
  <1>8. \A i \in Ids : chains'[i] # NoChain => chains'[i].part <= added'
    BY <1>3
  <1> QED
    BY <1>4, <1>5, <1>7, <1>8

LEMMA SingleStep == EngineTypeOK /\ Single /\ [EngineNext]_engineVars => Single'
<1> SUFFICES ASSUME EngineTypeOK, Single, [EngineNext]_engineVars PROVE Single'
  OBVIOUS
<1> USE DEF Single, PartsOK, NoTwinTasks
<1>1. ASSUME NEW c \in EngineCallers, NEW id \in Ids, AddChain(c, id) PROVE Single'
  <2>1. /\ added' = added + 1 /\ live' = live /\ added + 1 \in Parts
        /\ chains'[id] = [part |-> added + 1, fresh |-> TRUE, handle |-> FALSE]
        /\ \A i \in Ids \ {id} : chains'[i] = chains[i]
    BY <1>1 DEF AddChain, EngineTypeOK, Parts
  <2>2. \A i \in Ids \ {id} : chains[i] # NoChain => chains[i].part \in Parts /\ chains[i].part <= added
    BY DEF EngineTypeOK, Entry
  <2>3. \A i \in Ids : chains'[i] # NoChain => chains'[i].part <= added'
    BY <2>1, <2>2 DEF EngineTypeOK, Parts
  <2>4. \A i, j \in Ids : (i # j /\ chains'[i] # NoChain /\ chains'[j] # NoChain)
                             => chains'[i].part # chains'[j].part
    <3>1. \A i \in Ids \ {id} : chains'[i] # NoChain => chains'[i].part = chains[i].part
                                                    /\ chains'[i].part # added + 1
      BY <2>1, <2>2 DEF EngineTypeOK, Parts
    <3>2. chains'[id].part = added + 1
      BY <2>1
    <3> QED
      BY <2>1, <3>1, <3>2
  <2>5. \A n \in Parts : n > added' => live'[n] = 0
    BY <2>1 DEF EngineTypeOK, Parts
  <2>6. \A i \in Ids : Spawnable(i)' => live'[chains'[i].part] = 0
    <3>1. live[added + 1] = 0
      BY <2>1 DEF EngineTypeOK, Parts
    <3> QED
      BY <2>1, <3>1 DEF Spawnable
  <2> QED
    BY <2>1, <2>3, <2>4, <2>5, <2>6
<1>2. ASSUME NEW c \in EngineCallers, SpawnAdded(c) PROVE Single'
  <2>1. arg[c] \in Ids
    BY <1>2 DEF SpawnAdded, EngineTypeOK
  <2>2. CASE Spawnable(arg[c])
    BY <1>2, <2>1, <2>2, SpawnSingle DEF SpawnAdded
  <2>3. CASE ~Spawnable(arg[c])
    BY <1>2, <2>3 DEF SpawnAdded, Spawnable
  <2> QED
    BY <2>2, <2>3
<1>3. ASSUME NEW c \in EngineCallers, NEW id \in Ids, RemoveChain(c, id) PROVE Single'
  <2>1. \A i \in Ids : chains'[i] # NoChain => chains'[i] = chains[i]
    BY <1>3 DEF RemoveChain, EngineTypeOK
  <2>2. live' = live /\ added' = added
    BY <1>3 DEF RemoveChain
  <2> QED
    BY <2>1, <2>2 DEF Spawnable
<1>4. ASSUME NEW c \in EngineCallers, SpawnListed(c) PROVE Single'
  <2>1. PICK id \in todo[c] :
           IF Spawnable(id) THEN SpawnChain(id) ELSE UNCHANGED <<chains, live, late>>
    BY <1>4 DEF SpawnListed
  <2>2. id \in Ids /\ added' = added
    BY <1>4 DEF EngineTypeOK, SpawnListed
  <2>3. CASE Spawnable(id)
    BY <2>1, <2>2, <2>3, SpawnSingle
  <2>4. CASE ~Spawnable(id)
    BY <2>1, <2>2, <2>4 DEF Spawnable
  <2> QED
    BY <2>3, <2>4
<1>5. ASSUME NEW c \in EngineCallers, TakeHandles(c) PROVE Single'
  <2>1. \A i \in Ids : chains'[i] # NoChain =>
           /\ chains[i] # NoChain
           /\ chains'[i].part = chains[i].part /\ chains'[i].fresh = chains[i].fresh
    BY <1>5 DEF TakeHandles, EngineTypeOK, Entry
  <2>2. live' = live /\ added' = added
    BY <1>5 DEF TakeHandles
  <2> QED
    BY <2>1, <2>2 DEF Spawnable
<1>6. ASSUME NEW n \in Parts, Task(n) PROVE Single'
  <2>1. /\ chains' = chains /\ added' = added
        /\ live[n] > 0 /\ live' = [live EXCEPT ![n] = @ - 1]
    BY <1>6 DEF Task, ChainStops, ChainDropped
  <2>2. \A m \in Parts : live'[m] <= live[m] /\ (live[m] = 0 => live'[m] = 0)
    BY <2>1 DEF EngineTypeOK
  <2>3. \A m \in Parts : live'[m] <= 1
    BY <2>1, <2>2 DEF EngineTypeOK
  <2>4. \A i \in Ids : Spawnable(i)' => live'[chains'[i].part] = 0
    BY <2>1, <2>2 DEF Spawnable, EngineTypeOK, Entry
  <2> QED
    BY <2>1, <2>2, <2>3, <2>4
<1>7. ASSUME NEW c \in EngineCallers,
             StartEngine(c) \/ StopEngine(c) \/ ListChains(c) \/ SendShutdown(c) \/ JoinDone(c)
      PROVE  Single'
  BY <1>7 DEF StartEngine, StopEngine, ListChains, SendShutdown, JoinDone, Spawnable
<1>8. CASE UNCHANGED engineVars
  BY <1>8 DEF engineVars, Spawnable
<1> QED
  BY <1>1, <1>2, <1>3, <1>4, <1>5, <1>6, <1>7, <1>8 DEF EngineNext, Begin, EngineGoesOn

LEMMA SingleAlways == EngineSpec => [](EngineTypeOK /\ Single)
<1>1. EngineInit => Single
  BY DEF EngineInit, Single, PartsOK, NoTwinTasks, Spawnable
<1> QED
  BY <1>1, InitTyped, TypeStep, SingleStep, PTL DEF EngineSpec

\* However add_chain and start overlap, a chain is run by at most one task.
THEOREM OneTaskPerChain == EngineSpec => []NoTwinTasks
<1>1. Single => NoTwinTasks
  BY DEF Single
<1> QED
  BY <1>1, SingleAlways, PTL

-----------------------------------------------------------------------------
\* From its signal to its collection of handles, a stop has signalled every
\* task that it does not find in the map: those that run now were told, or
\* were spawned in that window.
SignalledFirst ==
    (\E c \in EngineCallers : enginePc[c] = "take") => \A n \in Parts : live[n] > 0 => shutdown \/ late[n]

Reachable == SignalledFirst /\ TaskIsReachable

LEMMA SpawnReachable ==
    ASSUME EngineTypeOK, Single, Reachable, NEW id \in Ids, Spawnable(id), SpawnChain(id),
           UNCHANGED <<shutdown, aborted>>,
           \A c \in EngineCallers : enginePc'[c] = "take" => enginePc[c] = "take"
    PROVE  Reachable'
  <1>0. Spawned(id)
    BY SpawnTyped
  <1> DEFINE n == chains[id].part
  <1>1. \A m \in Parts \ {n} : InHand(m) => InHand(m)'
    <2> SUFFICES ASSUME NEW m \in Parts \ {n}, InHand(m) PROVE InHand(m)'
      OBVIOUS
    <2>1. PICK i \in Ids : chains[i] # NoChain /\ chains[i].part = m /\ chains[i].handle
      BY DEF InHand
    <2>2. chains'[i] = chains[i]
      BY <1>0, <2>1 DEF Spawned
    <2> QED
      BY <2>1, <2>2 DEF InHand
  <1>2. \A m \in Parts \ {n} : live'[m] = live[m] /\ late'[m] = late[m]
    BY <1>0 DEF Spawned
  <1>3. TaskIsReachable'
    <2> SUFFICES ASSUME NEW m \in Parts, live'[m] > 0
                 PROVE  InHand(m)' \/ aborted'[m] \/ shutdown' \/ late'[m]
      BY DEF TaskIsReachable
    <2>1. CASE m = n
      <3>1. chains'[id] # NoChain /\ chains'[id].part = m /\ chains'[id].handle
        BY <1>0, <2>1 DEF Spawned
      <3> QED
        BY <3>1 DEF InHand
    <2>2. CASE m # n
      <3>1. InHand(m) => InHand(m)'
        BY <1>1, <2>2
      <3>2. live[m] > 0 /\ late'[m] = late[m]
        BY <1>2, <2>2
      <3>3. InHand(m) \/ aborted[m] \/ shutdown \/ late[m]
        BY <3>2 DEF TaskIsReachable, Reachable
      <3> QED
        BY <3>1, <3>2, <3>3
    <2> QED
      BY <2>1, <2>2
  <1>4. SignalledFirst'
    <2> SUFFICES ASSUME NEW c \in EngineCallers, enginePc[c] = "take"
                 PROVE  \A m \in Parts : live'[m] > 0 => shutdown' \/ late'[m]
      BY DEF SignalledFirst
    <2>1. late'[n]
      BY <1>0 DEF Spawned
    <2> QED
      BY <1>2, <2>1 DEF SignalledFirst, Reachable
  <1> QED
    BY <1>3, <1>4 DEF Reachable

LEMMA ReachableStep == EngineTypeOK /\ Single /\ Reachable /\ [EngineNext]_engineVars => Reachable'
<1> SUFFICES ASSUME EngineTypeOK, Single, Reachable, [EngineNext]_engineVars PROVE Reachable'
  OBVIOUS
<1> USE DEF Reachable, SignalledFirst, TaskIsReachable, InHand
<1>1. ASSUME NEW c \in EngineCallers, NEW id \in Ids, AddChain(c, id) PROVE Reachable'
  <2>1. /\ UNCHANGED <<live, late, aborted, shutdown>>
        /\ \A d \in EngineCallers : enginePc'[d] = "take" => enginePc[d] = "take"
        /\ \A i \in Ids : chains[i] # NoChain => chains'[i] = chains[i]
    BY <1>1 DEF AddChain, EngineTypeOK
  <2> QED
    BY <2>1
<1>2. ASSUME NEW c \in EngineCallers, SpawnAdded(c) PROVE Reachable'
  <2>1. arg[c] \in Ids
    BY <1>2 DEF SpawnAdded, EngineTypeOK
  <2>2. UNCHANGED <<shutdown, aborted>> /\ \A d \in EngineCallers : enginePc'[d] = "take" => enginePc[d] = "take"
    BY <1>2 DEF SpawnAdded, EngineTypeOK
  <2>3. CASE Spawnable(arg[c])
    BY <1>2, <2>1, <2>2, <2>3, SpawnReachable DEF SpawnAdded
  <2>4. CASE ~Spawnable(arg[c])
    BY <1>2, <2>2, <2>4 DEF SpawnAdded
  <2> QED
    BY <2>3, <2>4
<1>3. ASSUME NEW c \in EngineCallers, NEW id \in Ids, RemoveChain(c, id) PROVE Reachable'
  <2>1. /\ UNCHANGED <<live, late, shutdown, enginePc>>
        /\ \A i \in Ids \ {id} : chains'[i] = chains[i]
        /\ chains[id].handle => aborted' = [aborted EXCEPT ![chains[id].part] = TRUE]
        /\ ~chains[id].handle => aborted' = aborted
    BY <1>3 DEF RemoveChain, EngineTypeOK
  <2>2. \A n \in Parts : aborted[n] => aborted'[n]
    BY <2>1 DEF EngineTypeOK
  <2>3. \A n \in Parts : InHand(n) => InHand(n)' \/ aborted'[n]
    <3> SUFFICES ASSUME NEW n \in Parts, InHand(n) PROVE InHand(n)' \/ aborted'[n]
      OBVIOUS
    <3>1. PICK i \in Ids : chains[i] # NoChain /\ chains[i].part = n /\ chains[i].handle
      OBVIOUS
    <3>2. CASE i = id
      BY <2>1, <3>1, <3>2 DEF EngineTypeOK
    <3>3. CASE i # id
      BY <2>1, <3>1, <3>3
    <3> QED
      BY <3>2, <3>3
  <2> QED
    BY <2>1, <2>2, <2>3
<1>4. ASSUME NEW c \in EngineCallers, SpawnListed(c) PROVE Reachable'
  <2>1. PICK id \in todo[c] :
           IF Spawnable(id) THEN SpawnChain(id) ELSE UNCHANGED <<chains, live, late>>
    BY <1>4 DEF SpawnListed
  <2>2. id \in Ids /\ UNCHANGED <<shutdown, aborted>>
    BY <1>4 DEF EngineTypeOK, SpawnListed
  <2>3. \A d \in EngineCallers : enginePc'[d] = "take" => enginePc[d] = "take"
    BY <1>4 DEF EngineTypeOK, SpawnListed
  <2>4. CASE Spawnable(id)
    BY <2>1, <2>2, <2>3, <2>4, SpawnReachable
  <2>5. CASE ~Spawnable(id)
    BY <2>1, <2>2, <2>3, <2>5
  <2> QED
    BY <2>4, <2>5
<1>5. ASSUME NEW c \in EngineCallers, SendShutdown(c) PROVE Reachable'
  <2>1. UNCHANGED <<chains, live, late, aborted>> /\ shutdown' = (shutdown \/ Listening)
    BY <1>5 DEF SendShutdown
  <2>2. \A n \in Parts : live'[n] > 0 => shutdown'
    BY <2>1 DEF Listening
  <2> QED
    BY <2>2
<1>6. ASSUME NEW c \in EngineCallers, TakeHandles(c) PROVE Reachable'
  <2>1. UNCHANGED <<live, late, shutdown>> /\ enginePc[c] = "take"
    BY <1>6 DEF TakeHandles
  <2>2. \A n \in Parts : live'[n] > 0 => shutdown' \/ late'[n]
    BY <2>1
  <2> QED
    BY <2>2
<1>7. ASSUME NEW n \in Parts, Task(n) PROVE Reachable'
  <2>1. /\ UNCHANGED <<chains, shutdown, late, aborted, enginePc>>
        /\ live[n] > 0 /\ live' = [live EXCEPT ![n] = @ - 1]
    BY <1>7 DEF Task, ChainStops, ChainDropped
  <2>2. \A m \in Parts : live'[m] > 0 => live[m] > 0
    BY <2>1 DEF EngineTypeOK
  <2> QED
    BY <2>1, <2>2
<1>8. ASSUME NEW c \in EngineCallers, StartEngine(c) \/ StopEngine(c) \/ ListChains(c) \/ JoinDone(c)
      PROVE  Reachable'
  <2>1. UNCHANGED <<chains, live, late, aborted, shutdown>>
    BY <1>8 DEF StartEngine, StopEngine, ListChains, JoinDone
  <2>2. \A d \in EngineCallers : enginePc'[d] = "take" => enginePc[d] = "take"
    BY <1>8 DEF StartEngine, StopEngine, ListChains, JoinDone, EngineTypeOK
  <2> QED
    BY <2>1, <2>2
<1>9. CASE UNCHANGED engineVars
  BY <1>9 DEF engineVars
<1> QED
  BY <1>1, <1>2, <1>3, <1>4, <1>5, <1>6, <1>7, <1>8, <1>9 DEF EngineNext, Begin, EngineGoesOn

\* A running task can still be aborted through the engine, or has been told
\* to end, unless it was spawned in the window of a stop.
THEOREM NoStrayTask == EngineSpec => []TaskIsReachable
<1>1. EngineInit => Reachable
  BY DEF EngineInit, Reachable, SignalledFirst, TaskIsReachable
<1>2. Reachable => TaskIsReachable
  BY DEF Reachable
<1> QED
  BY <1>1, <1>2, SingleAlways, ReachableStep, PTL DEF EngineSpec
=============================================================================
