-------------------------- MODULE NegotiationProofs --------------------------
(* Theorems about Negotiation, for any sets of host and client sessions. *)
EXTENDS Negotiation, TLAPS

LEMMA NoneApart ==
    /\ Hosts \cap Clients = {}
    /\ None \notin Hosts \cup Clients /\ None \notin Message
    /\ MaxRetries \in Nat \ {0} /\ MaxIce \in Nat
  BY NegotiationConstantsOK DEF Sessions

LEMMA InitTyped == Init => TypeOK
  BY NoneApart
     DEF Init, TypeOK, ProgramOK, ServerOK, ChannelOK, PcsOK, IceOK, ReadersOK, ServingOK, Sessions, Pcs

-----------------------------------------------------------------------------
\* A step keeps the type of what it leaves alone.

LEMMA SameServer == ServerOK /\ UNCHANGED server => ServerOK'
  BY DEF ServerOK, server, registry

LEMMA SameChannel == ChannelOK /\ UNCHANGED channel => ChannelOK'
  BY DEF ChannelOK, channel

LEMMA SamePcs == PcsOK /\ UNCHANGED <<remote, clientPcs>> => PcsOK'
  BY DEF PcsOK, clientPcs

LEMMA SameIce == IceOK /\ UNCHANGED ice => IceOK'
  BY DEF IceOK, ice

LEMMA SameReaders == ReadersOK /\ UNCHANGED readers => ReadersOK'
  BY DEF ReadersOK, readers

LEMMA SameProgram == ProgramOK /\ UNCHANGED program => ProgramOK'
  BY DEF ProgramOK, program

\* A session that is not in handle_offer moves to a place that is not in it.
LEMMA MoveOutside ==
    ASSUME TypeOK, NEW s \in Sessions, UNCHANGED serving, stage[s] # "answering",
           \/ UNCHANGED stage
           \/ \E st \in {"joined", "offering", "loop", "cut", "gone"} : To(s, st)
    PROVE  ServingOK'
  BY DEF TypeOK, ProgramOK, ServingOK, To, Sessions

LEMMA MoveTyped ==
    ASSUME TypeOK, NEW s \in Sessions,
           NEW st \in {"joined", "offering", "loop", "answering", "cut", "gone"},
           To(s, st), UNCHANGED tries
    PROVE  ProgramOK'
  BY DEF TypeOK, ProgramOK, To

LEMMA SendTyped ==
    ASSUME TypeOK, NEW s \in Sessions, NEW kind \in {"offer", "answer", "ice"}, NEW h \in Hosts,
           Send(s, kind, h), UNCHANGED at
    PROVE  ChannelOK'
  <1>1. [kind |-> kind, from |-> s, pc |-> h] \in Message
    BY DEF Message
  <1>2. log \in Seq(Message) /\ Len(log) \in Nat
    BY DEF TypeOK, ChannelOK
  <1>3. log' \in Seq(Message) /\ Len(log') = Len(log) + 1
    BY <1>1, <1>2 DEF Send
  <1> QED
    BY <1>2, <1>3 DEF TypeOK, ChannelOK

LEMMA HearTyped ==
    ASSUME TypeOK, NEW s \in Sessions, NEW m, Hear(s, m)
    PROVE  m \in Message /\ ChannelOK'
  <1>1. at[s] + 1 \in 1..Len(log)
    BY DEF Hear, TypeOK, ChannelOK
  <1>2. m \in Message
    BY <1>1 DEF Hear, TypeOK, ChannelOK
  <1> QED
    BY <1>1, <1>2 DEF Hear, TypeOK, ChannelOK

LEMMA AddTyped ==
    ASSUME TypeOK, NEW s \in Sessions, NEW pc \in Hosts \cup {None}, NEW m \in Message,
           AddCandidate(s, pc, m), UNCHANGED <<gathered, iceQueue>>
    PROVE  IceOK'
  <1>1. CASE pc \in Hosts
    <2>1. <<pc, m>> \in Hosts \X Message
      BY <1>1
    <2> QED
      BY <2>1 DEF AddCandidate, TypeOK, IceOK
  <1>2. CASE pc = None
    BY <1>2 DEF AddCandidate, TypeOK, IceOK
  <1> QED
    BY <1>1, <1>2

\* A function on peer connections, changed at some of them.
LEMMA ReadersTyped ==
    ASSUME TypeOK, NEW x, NEW y, NEW st \in {"none", "opening", "running", "ended"},
           \/ reader' = [z \in Pcs |-> IF z = x THEN st ELSE IF z = y THEN "ended" ELSE reader[z]]
           \/ reader' = [z \in Pcs |-> IF z = y THEN "ended" ELSE reader[z]]
           \/ reader' = [reader EXCEPT ![x] = st],
           dcTask' \in [Clients -> Hosts \cup {None}]
    PROVE  ReadersOK'
  <1> DEFINE States == {"none", "opening", "running", "ended"}
  <1>1. reader \in [Pcs -> States]
    BY DEF TypeOK, ReadersOK
  <1> HIDE DEF States
  <1>2. st \in States /\ "ended" \in States
    BY DEF States
  <1>3. reader' \in [Pcs -> States]
    <2> DEFINE P == Pcs
    <2> HIDE DEF P
    <2> QED
      BY <1>1, <1>2 DEF P
  <1> QED
    BY <1>3 DEF ReadersOK, States

-----------------------------------------------------------------------------
LEMMA TypeStep == TypeOK /\ [Next]_vars => TypeOK'
<1> SUFFICES ASSUME TypeOK, [Next]_vars PROVE TypeOK'
  OBVIOUS
<1> USE NoneApart
<1>0. ProgramOK /\ ServerOK /\ ChannelOK /\ PcsOK /\ IceOK /\ ReadersOK /\ ServingOK
  BY DEF TypeOK
<1>1. ASSUME NEW s \in Sessions, ConnectFails(s) PROVE TypeOK'
  <2>1. ProgramOK'
    BY <1>0, <1>1 DEF ConnectFails, GiveUpOrRetry, ProgramOK, To
  <2>2. ServerOK'
    BY <1>0, <1>1 DEF ConnectFails, ServerOK, Role
  <2>3. ServingOK'
    BY <1>1, MoveOutside DEF ConnectFails, GiveUpOrRetry, clientPcs
  <2> QED
    BY <1>0, <1>1, <2>1, <2>2, <2>3, SameChannel, SamePcs, SameIce, SameReaders DEF ConnectFails, TypeOK
<1>2. ASSUME NEW s \in Sessions, Join(s) PROVE TypeOK'
  <2>1. ProgramOK'
    BY <1>0, <1>2 DEF Join, Joined, ProgramOK, To
  <2>2. ServerOK'
    BY <1>0, <1>2 DEF Join, ServerOK, Role
  <2>3. ServingOK'
    BY <1>2, MoveOutside DEF Join, Joined, clientPcs
  <2> QED
    BY <1>0, <1>2, <2>1, <2>2, <2>3, SameChannel, SamePcs, SameIce, SameReaders DEF Join, TypeOK
<1>18. ASSUME NEW s \in Sessions, FindNoRoom(s) PROVE TypeOK'
  <2>1. ServerOK'
    BY <1>0, <1>18 DEF FindNoRoom, ServerOK
  <2>2. ServingOK'
    BY <1>0, <1>18 DEF FindNoRoom, ServingOK, program, clientPcs
  <2> QED
    BY <1>0, <1>18, <2>1, <2>2, SameProgram, SameChannel, SamePcs, SameIce, SameReaders DEF FindNoRoom, TypeOK
<1>19. ASSUME NEW s \in Sessions, CreateLate(s) PROVE TypeOK'
  <2>1. ProgramOK'
    BY <1>0, <1>19 DEF CreateLate, Joined, GiveUpOrRetry, ProgramOK, To
  <2>2. ServerOK'
    BY <1>0, <1>19 DEF CreateLate, ServerOK, Role
  <2>3. ServingOK'
    BY <1>19, MoveOutside DEF CreateLate, Joined, GiveUpOrRetry, clientPcs
  <2> QED
    BY <1>0, <1>19, <2>1, <2>2, <2>3, SameChannel, SamePcs, SameIce, SameReaders DEF CreateLate, TypeOK
<1>3. ASSUME NEW s \in Sessions, Subscribe(s) PROVE TypeOK'
  <2>1. ServerOK'
    BY <1>0, <1>3 DEF Subscribe, registry, ServerOK
  <2>2. ChannelOK'
    BY <1>0, <1>3 DEF Subscribe, ChannelOK
  <2>3. ServingOK'
    BY <1>0, <1>3 DEF Subscribe, ServingOK, program, clientPcs
  <2> QED
    BY <1>0, <1>3, <2>1, <2>2, <2>3, SameProgram, SamePcs, SameIce, SameReaders DEF Subscribe, TypeOK
<1>4. ASSUME NEW s \in Sessions, ServerForgets(s) PROVE TypeOK'
  <2>1. ServerOK'
    BY <1>0, <1>4 DEF ServerForgets, ServerOK, Role, Sessions
  <2>2. ChannelOK'
    BY <1>0, <1>4 DEF ServerForgets, ChannelOK
  <2>3. ServingOK'
    BY <1>0, <1>4 DEF ServerForgets, ServingOK, program, clientPcs
  <2> QED
    BY <1>0, <1>4, <2>1, <2>2, <2>3, SameProgram, SamePcs, SameIce, SameReaders DEF ServerForgets, TypeOK
<1>5. ASSUME NEW h \in Hosts, CreateOffer(h) \/ HostCut(h) \/ HostExits(h) PROVE TypeOK'
  <2>1. h \in Sessions
    BY DEF Sessions
  <2>2. ProgramOK'
    BY <1>5, <2>1, MoveTyped DEF CreateOffer, HostCut, HostExits
  <2>3. ServingOK'
    BY <1>5, <2>1, MoveOutside DEF CreateOffer, HostCut, HostExits, clientPcs
  <2>4. PcsOK'
    BY <1>0, <1>5, SamePcs DEF CreateOffer, HostCut, HostExits, PcsOK, clientPcs
  <2> QED
    BY <1>0, <1>5, <2>2, <2>3, <2>4, SameServer, SameChannel, SameIce, SameReaders
       DEF CreateOffer, HostCut, HostExits, TypeOK
<1>6. ASSUME NEW h \in Hosts, SendOffer(h) PROVE TypeOK'
  <2>1. h \in Sessions
    BY DEF Sessions
  <2>2. ChannelOK'
    BY <1>6, <2>1, SendTyped DEF SendOffer
  <2>3. ProgramOK'
    BY <1>6, <2>1, MoveTyped DEF SendOffer
  <2>4. ServingOK'
    BY <1>6, <2>1, MoveOutside DEF SendOffer, clientPcs
  <2> QED
    BY <1>0, <1>6, <2>2, <2>3, <2>4, SameServer, SamePcs, SameIce, SameReaders DEF SendOffer, TypeOK
<1>7. ASSUME NEW h \in Hosts, HostCandidate(h) PROVE TypeOK'
  <2>1. h \in Sessions
    BY DEF Sessions
  <2>2. ChannelOK'
    BY <1>7, <2>1, SendTyped DEF HostCandidate
  <2>3. IceOK'
    BY <1>0, <1>7 DEF HostCandidate, IceOK
  <2>4. ServingOK'
    BY <1>0, <1>7 DEF HostCandidate, ServingOK, program, clientPcs
  <2> QED
    BY <1>0, <1>7, <2>2, <2>3, <2>4, SameProgram, SameServer, SamePcs, SameReaders DEF HostCandidate, TypeOK
<1>8. ASSUME NEW h \in Hosts, HostHears(h) PROVE TypeOK'
  <2>1. PICK m : /\ Hear(h, m) /\ TakeAnswer(h, m)
                 /\ AddCandidate(h, IF remote[h] = None THEN None ELSE h, m)
    BY <1>8 DEF HostHears
  <2>2. h \in Sessions
    BY DEF Sessions
  <2>3. m \in Message /\ ChannelOK'
    BY <2>1, <2>2, HearTyped
  <2>4. IceOK'
    BY <1>8, <2>1, <2>2, <2>3, AddTyped DEF HostHears
  <2>5. PcsOK'
    BY <1>0, <1>8, <2>1, <2>3 DEF HostHears, TakeAnswer, PcsOK, clientPcs
  <2>6. ServingOK'
    BY <1>0, <1>8 DEF HostHears, ServingOK, program, clientPcs
  <2> QED
    BY <1>0, <1>8, <2>3, <2>4, <2>5, <2>6, SameProgram, SameServer, SameReaders DEF HostHears, TypeOK
<1>9. ASSUME NEW c \in Clients, ReceiveOffer(c) PROVE TypeOK'
  <2>1. PICK m : /\ Hear(c, m)
                 /\ open' = open \cup {<<c, m.pc>>}
                 /\ serving' = [serving EXCEPT ![c] = m.pc]
    BY <1>9 DEF ReceiveOffer
  <2>2. c \in Sessions
    BY DEF Sessions
  <2>3. m.pc \in Hosts /\ ChannelOK'
    BY <2>1, <2>2, HearTyped DEF Message
  <2>4. PcsOK'
    BY <1>0, <1>9, <2>1, <2>3 DEF ReceiveOffer, PcsOK, Pcs
  <2>5. ServingOK'
    BY <1>0, <1>9, <2>1, <2>2, <2>3 DEF ReceiveOffer, To, ServingOK, ProgramOK, PcsOK, Sessions
  <2>6. ProgramOK'
    BY <1>9, <2>2, MoveTyped DEF ReceiveOffer
  <2> QED
    BY <1>0, <1>9, <2>3, <2>4, <2>5, <2>6, SameServer, SameIce, SameReaders DEF ReceiveOffer, TypeOK
<1>10. ASSUME NEW c \in Clients, OfferFails(c) PROVE TypeOK'
  <2>1. c \in Sessions /\ serving[c] \in Hosts
    BY <1>0, <1>10 DEF OfferFails, Sessions, ServingOK, PcsOK
  <2>2. PcsOK'
    BY <1>0, <1>10, <2>1 DEF OfferFails, PcsOK, Pcs
  <2>3. ServingOK'
    BY <1>0, <1>10, <2>1 DEF OfferFails, To, ServingOK, ProgramOK, PcsOK, Sessions
  <2>4. ProgramOK'
    BY <1>10, <2>1, MoveTyped DEF OfferFails
  <2> QED
    BY <1>0, <1>10, <2>2, <2>3, <2>4, SameServer, SameChannel, SameIce, SameReaders DEF OfferFails, TypeOK
<1>11. ASSUME NEW c \in Clients, SendAnswer(c) PROVE TypeOK'
  <2>1. c \in Sessions /\ serving[c] \in Hosts
    BY <1>0, <1>11 DEF SendAnswer, Sessions, ServingOK, PcsOK
  <2>2. PcsOK'
    BY <1>0, <1>11, <2>1 DEF SendAnswer, CloseOld, PcsOK, Pcs
  <2>3. ServingOK'
    BY <1>0, <1>11, <2>1 DEF SendAnswer, To, ServingOK, ProgramOK, PcsOK, Sessions
  <2>4. ProgramOK'
    BY <1>11, <2>1, MoveTyped DEF SendAnswer
  <2>5. ChannelOK'
    BY <1>11, <2>1, SendTyped DEF SendAnswer
  <2> QED
    BY <1>0, <1>11, <2>2, <2>3, <2>4, <2>5, SameServer, SameIce, SameReaders DEF SendAnswer, TypeOK
<1>12. ASSUME NEW c \in Clients, ReceiveOther(c) PROVE TypeOK'
  <2>1. PICK m : Hear(c, m) /\ AddCandidate(c, stored[c], m)
    BY <1>12 DEF ReceiveOther
  <2>2. c \in Sessions /\ stored[c] \in Hosts \cup {None}
    BY <1>0 DEF Sessions, PcsOK
  <2>3. m \in Message /\ ChannelOK'
    BY <2>1, <2>2, HearTyped
  <2>4. IceOK'
    BY <1>12, <2>1, <2>2, <2>3, AddTyped DEF ReceiveOther
  <2>5. ServingOK'
    BY <1>0, <1>12 DEF ReceiveOther, ServingOK, program, clientPcs
  <2> QED
    BY <1>0, <1>12, <2>3, <2>4, <2>5, SameProgram, SameServer, SamePcs, SameReaders DEF ReceiveOther, TypeOK
<1>13. ASSUME NEW c \in Clients, NEW h \in Hosts, ClientGathers(c, h) PROVE TypeOK'
  <2>1. IceOK'
    BY <1>0, <1>13 DEF ClientGathers, IceOK, Pcs
  <2>2. ServingOK'
    BY <1>0, <1>13 DEF ClientGathers, ServingOK, program, clientPcs
  <2> QED
    BY <1>0, <1>13, <2>1, <2>2, SameProgram, SameServer, SameChannel, SamePcs, SameReaders
       DEF ClientGathers, TypeOK
<1>14. ASSUME NEW c \in Clients, ClientCandidate(c) PROVE TypeOK'
  <2>1. Head(iceQueue[c]) \in Hosts /\ Tail(iceQueue[c]) \in Seq(Hosts) /\ c \in Sessions
    BY <1>0, <1>14 DEF ClientCandidate, IceOK, Sessions
  <2>2. ChannelOK'
    BY <1>14, <2>1, SendTyped DEF ClientCandidate
  <2>3. IceOK'
    BY <1>0, <1>14, <2>1 DEF ClientCandidate, IceOK
  <2>4. ServingOK'
    BY <1>0, <1>14 DEF ClientCandidate, ServingOK, program, clientPcs
  <2> QED
    BY <1>0, <1>14, <2>2, <2>3, <2>4, SameProgram, SameServer, SamePcs, SameReaders
       DEF ClientCandidate, TypeOK
<1>15. ASSUME NEW c \in Clients, ClientLeaves(c) PROVE TypeOK'
  <2>1. c \in Sessions
    BY DEF Sessions
  <2>2. ProgramOK'
    BY <1>15, <2>1, MoveTyped DEF ClientLeaves
  <2>3. ServingOK'
    BY <1>0, <1>15, <2>1 DEF ClientLeaves, DropTransport, To, ProgramOK, PcsOK, ServingOK
  <2>4. PcsOK'
    BY <1>0, <1>15 DEF ClientLeaves, DropTransport, PcsOK, Pcs
  <2>5. IceOK'
    BY <1>0, <1>15 DEF ClientLeaves, IceOK
  <2>6. dcTask' \in [Clients -> Hosts \cup {None}]
    BY <1>0, <1>15 DEF ClientLeaves, DropTransport, ReadersOK
  <2>7. ReadersOK'
    BY <1>15, <2>6, ReadersTyped DEF ClientLeaves, DropTransport
  <2> QED
    BY <1>0, <1>15, <2>2, <2>3, <2>4, <2>5, <2>7, SameServer, SameChannel DEF ClientLeaves, TypeOK
<1>16. ASSUME NEW c \in Clients, NEW h \in Hosts,
              DataChannelOpens(c, h) \/ ReaderStarts(c, h) \/ ReaderEnds(c, h)
       PROVE  TypeOK'
  <2>1. dcTask' \in [Clients -> Hosts \cup {None}]
    BY <1>0, <1>16 DEF DataChannelOpens, ReaderStarts, ReaderEnds, ReadersOK
  <2>2. ReadersOK'
    <3>1. CASE DataChannelOpens(c, h)
      <4>1. reader' = [x \in Pcs |-> IF x = <<c, h>> THEN "opening"
                                     ELSE IF x = <<c, dcTask[c]>> THEN "ended" ELSE reader[x]]
        BY <3>1 DEF DataChannelOpens
      <4> QED
        BY <1>0, <2>1, <4>1 DEF ReadersOK
    <3>2. CASE ReaderStarts(c, h)
      <4>1. reader' = [x \in Pcs |-> IF x = <<c, h>> THEN "running" ELSE reader[x]]
        BY <1>0, <3>2 DEF ReaderStarts, ReadersOK
      <4> QED
        BY <1>0, <2>1, <4>1 DEF ReadersOK
    <3>3. CASE ReaderEnds(c, h)
      <4>1. reader' = [x \in Pcs |-> IF x = <<c, h>> THEN "ended" ELSE reader[x]]
        BY <1>0, <3>3 DEF ReaderEnds, ReadersOK
      <4> QED
        BY <1>0, <2>1, <4>1 DEF ReadersOK
    <3> QED
      BY <1>16, <3>1, <3>2, <3>3
  <2>3. ServingOK'
    BY <1>0, <1>16 DEF DataChannelOpens, ReaderStarts, ReaderEnds, ServingOK, program, clientPcs
  <2> QED
    BY <1>0, <1>16, <2>2, <2>3, SameProgram, SameServer, SameChannel, SamePcs, SameIce
       DEF DataChannelOpens, ReaderStarts, ReaderEnds, TypeOK
<1>17. CASE UNCHANGED vars
  <2>1. ServingOK'
    BY <1>0, <1>17 DEF vars, ServingOK, program, clientPcs
  <2> QED
    BY <1>0, <1>17, <2>1, SameProgram, SameServer, SameChannel, SamePcs, SameIce, SameReaders
       DEF vars, TypeOK
<1> QED
  BY <1>1, <1>2, <1>3, <1>4, <1>5, <1>6, <1>7, <1>8, <1>9, <1>10, <1>11, <1>12, <1>13, <1>14,
     <1>15, <1>16, <1>17, <1>18, <1>19 DEF Next, Scheduled

\* The state is well typed: a client is inside handle_offer exactly when it
\* makes a peer connection.
THEOREM TypeCorrect == Spec => []TypeOK
  BY InitTyped, TypeStep, PTL DEF Spec

-----------------------------------------------------------------------------
LEMMA OpenStep ==
    TypeOK /\ NoOpenPcIsForgotten /\ [Next]_vars => NoOpenPcIsForgotten'
<1> SUFFICES ASSUME TypeOK, NoOpenPcIsForgotten, [Next]_vars PROVE NoOpenPcIsForgotten'
  OBVIOUS
<1> USE NoneApart DEF NoOpenPcIsForgotten
<1>0. PcsOK /\ ServingOK
  BY DEF TypeOK
<1>1. ASSUME NEW c \in Clients, ReceiveOffer(c) PROVE NoOpenPcIsForgotten'
  <2>1. PICK h : /\ open' = open \cup {<<c, h>>}
                 /\ serving' = [serving EXCEPT ![c] = h]
    BY <1>1 DEF ReceiveOffer
  <2>2. serving[c] = None
    BY <1>0, <1>1 DEF ReceiveOffer, ServingOK
  <2> QED
    BY <1>0, <1>1, <2>1, <2>2 DEF ReceiveOffer, PcsOK
<1>2. ASSUME NEW c \in Clients, OfferFails(c) PROVE NoOpenPcIsForgotten'
  BY <1>0, <1>2 DEF OfferFails, PcsOK
<1>3. ASSUME NEW c \in Clients, SendAnswer(c) PROVE NoOpenPcIsForgotten'
  BY <1>0, <1>3 DEF SendAnswer, CloseOld, PcsOK
<1>4. ASSUME NEW c \in Clients, ClientLeaves(c) PROVE NoOpenPcIsForgotten'
  BY <1>0, <1>4 DEF ClientLeaves, DropTransport, PcsOK
<1>5. CASE UNCHANGED clientPcs
  BY <1>5 DEF clientPcs
<1>6. ASSUME NEW s \in Sessions, \/ ConnectFails(s) \/ Join(s) \/ FindNoRoom(s)
                                 \/ CreateLate(s) \/ Subscribe(s) \/ ServerForgets(s)
      PROVE  UNCHANGED clientPcs
  BY <1>6 DEF ConnectFails, Join, FindNoRoom, CreateLate, Subscribe, ServerForgets
<1>7. ASSUME NEW h \in Hosts, \/ CreateOffer(h) \/ SendOffer(h) \/ HostCandidate(h)
                              \/ HostHears(h) \/ HostCut(h) \/ HostExits(h)
      PROVE  UNCHANGED clientPcs
  BY <1>7 DEF CreateOffer, SendOffer, HostCandidate, HostHears, HostCut, HostExits
<1>8. ASSUME NEW c \in Clients, ReceiveOther(c) \/ ClientCandidate(c) PROVE UNCHANGED clientPcs
  BY <1>8 DEF ReceiveOther, ClientCandidate
<1>9. ASSUME NEW c \in Clients, NEW h \in Hosts, \/ ClientGathers(c, h) \/ DataChannelOpens(c, h)
                                                 \/ ReaderStarts(c, h) \/ ReaderEnds(c, h)
      PROVE  UNCHANGED clientPcs
  BY <1>9 DEF ClientGathers, DataChannelOpens, ReaderStarts, ReaderEnds
<1>10. UNCHANGED vars => UNCHANGED clientPcs
  BY DEF vars, clientPcs
<1> QED
  BY <1>1, <1>2, <1>3, <1>4, <1>5, <1>6, <1>7, <1>8, <1>9, <1>10 DEF Next, Scheduled

\* A client's open peer connections are the one it keeps, the one it makes and
\* those it failed to answer with, however offers and departures interleave.
THEOREM OpenPcsAreKnown == Spec => []NoOpenPcIsForgotten
<1>1. Init => NoOpenPcIsForgotten
  BY DEF Init, NoOpenPcIsForgotten
<1> QED
  BY <1>1, InitTyped, TypeStep, OpenStep, PTL DEF Spec
-----------------------------------------------------------------------------
(* Candidates reach their peer connection.  What the code relies on is an   *)
(* order between messages: a client's candidate comes after its answer,     *)
(* that after the offer it answers, and of two hosts the one that speaks    *)
(* second speaks alone, if neither lost its role to a late creator.         *)

OfferOf(h) == [kind |-> "offer", from |-> h, pc |-> h]
AnswerOf(c, h) == [kind |-> "answer", from |-> c, pc |-> h]
Sent(m) == \E i \in DOMAIN log : log[i] = m

RolesApart ==
    /\ holder["host"] \in Hosts \cup {None}
    /\ holder["remote"] \in Clients \cup {None}

\* No host that ended its signalling is heard again: not in its role, nor as
\* one that lost it.
Over(h) == holder["host"] # h /\ (h \in evicted => stage[h] \in {"cut", "gone"})

\* The server hears those who hold a role or lost it to a late creator.
ListenersKnown ==
    \A s \in listening : stage[s] # "down" /\ (holder[Role(s)] = s \/ s \in evicted)

\* A host speaks of its own peer connection and does not answer, a client does
\* not offer.
NamesOwn ==
    \A i \in DOMAIN log :
        /\ log[i].from \in Hosts => log[i].pc = log[i].from /\ log[i].kind # "answer"
        /\ log[i].from \in Clients => log[i].kind # "offer"

\* A host that has spoken is connected no second time.
SpeakersListen ==
    \A i \in DOMAIN log :
        log[i].from \in Hosts =>
            /\ stage[log[i].from] # "down"
            /\ log[i].from \in listening \/ Over(log[i].from)

\* When another host has spoken after it, a host says nothing more, unless one
\* of them lost its role to a late creator.
OneHostSpeaks ==
    \A i, j \in DOMAIN log :
        i < j /\ {log[i].from, log[j].from} \subseteq Hosts \ evicted /\ log[i].from # log[j].from
            => /\ log[i].from \notin listening
               /\ \A k \in DOMAIN log : j < k => log[k].from # log[i].from

PcsWhileListening ==
    \A c \in Clients :
        stored[c] # None \/ serving[c] # None =>
            c \in listening /\ stage[c] \in {"loop", "answering"}

\* The offer in hand is the last message read.
OfferInHand ==
    \A c \in Clients :
        serving[c] # None => at[c] \in DOMAIN log /\ log[at[c]] = OfferOf(serving[c])

AnswersFollowOffers ==
    \A i \in DOMAIN log : log[i].kind = "answer" => Sent(OfferOf(log[i].pc))

KeptIsAnswered ==
    \A c \in Clients : stored[c] # None => Sent(AnswerOf(c, stored[c]))

QueueIsAnswered ==
    \A c \in Clients : \A i \in DOMAIN iceQueue[c] :
        /\ <<c, iceQueue[c][i]>> \in gathered
        /\ iceQueue[c][i] = serving[c] \/ Sent(AnswerOf(c, iceQueue[c][i]))

IceFollowsAnswers ==
    \A i \in DOMAIN log :
        log[i].kind = "ice" /\ log[i].from \in Clients
            => \E j \in 1..(i - 1) : log[j] = AnswerOf(log[i].from, log[i].pc)

AnswersAreTaken ==
    \A h \in Hosts : \A i \in 1..at[h] :
        log[i].kind = "answer" /\ log[i].pc = h => remote[h] # None \/ stage[h] = "gone"

\* After an offer that was answered and is not the one kept, the client has
\* read something of the host it keeps a peer connection for.
OldOffersAreOver ==
    \A c \in Clients : \A i \in 1..at[c] :
        (/\ log[i].kind = "offer" /\ stored[c] # None
         /\ log[i].from \notin {stored[c], serving[c]} /\ <<c, log[i].from>> \notin failed)
            => \E j \in (i + 1)..at[c] : log[j].from = stored[c]

\* The strengthening, from which each step preserves the two properties.
Order ==
    /\ TypeOK /\ RolesApart /\ ListenersKnown /\ NamesOwn /\ SpeakersListen /\ OneHostSpeaks
    /\ PcsWhileListening /\ OfferInHand /\ AnswersFollowOffers

CandInv ==
    /\ Order
    /\ KeptIsAnswered /\ QueueIsAnswered /\ IceFollowsAnswers
    /\ AnswersAreTaken /\ OldOffersAreOver
    /\ ClientCandidatesArrive /\ CandidateFindsItsPc

LEMMA CandInit == Init => CandInv
<1> SUFFICES ASSUME Init PROVE CandInv
  OBVIOUS
<1>1. TypeOK
  BY InitTyped
<1>2. /\ log = <<>> /\ \A s \in Sessions : at[s] = 0
      /\ \A c \in Clients : stored[c] = None /\ serving[c] = None /\ iceQueue[c] = <<>>
      /\ \A s \in Sessions : added[s] = {}
      /\ holder["host"] = None /\ holder["remote"] = None /\ listening = {}
  BY DEF Init
<1>3. /\ RolesApart /\ ListenersKnown /\ NamesOwn /\ SpeakersListen /\ OneHostSpeaks
      /\ PcsWhileListening /\ OfferInHand /\ AnswersFollowOffers
  BY <1>2 DEF RolesApart, ListenersKnown, NamesOwn, SpeakersListen, OneHostSpeaks,
              PcsWhileListening, OfferInHand, AnswersFollowOffers
<1>4. /\ KeptIsAnswered /\ QueueIsAnswered /\ IceFollowsAnswers
      /\ AnswersAreTaken /\ OldOffersAreOver
  BY <1>2 DEF KeptIsAnswered, QueueIsAnswered, IceFollowsAnswers, AnswersAreTaken,
              OldOffersAreOver, Sessions
<1>5. ClientCandidatesArrive /\ CandidateFindsItsPc
  BY <1>2 DEF ClientCandidatesArrive, CandidateFindsItsPc, Sessions
<1> QED
  BY <1>1, <1>3, <1>4, <1>5 DEF CandInv, Order

-----------------------------------------------------------------------------
\* What a step does to the channel: nothing, or a message of a session the
\* server listens to goes to its end.
Appends(m) ==
    /\ m \in Message /\ m.from \in listening /\ stage[m.from] # "down"
    /\ log' = Append(log, m)
    /\ UNCHANGED <<server, at>>
    /\ m.from \in Hosts => m.pc = m.from /\ m.kind # "answer"
    /\ m.from \in Clients => m.kind # "offer"

LEMMA LogStep ==
    ASSUME TypeOK, [Next]_vars
    PROVE  UNCHANGED log \/ \E m : Appends(m)
<1> USE NoneApart
<1>1. ASSUME NEW h \in Hosts, SendOffer(h) PROVE \E m : Appends(m)
  <2>1. Appends(OfferOf(h))
    BY <1>1 DEF SendOffer, Send, Appends, OfferOf, Message, Sessions
  <2> QED
    BY <2>1
<1>2. ASSUME NEW h \in Hosts, HostCandidate(h) PROVE \E m : Appends(m)
  <2> DEFINE m == [kind |-> "ice", from |-> h, pc |-> h]
  <2>1. Appends(m)
    BY <1>2 DEF HostCandidate, Send, Appends, Message, Sessions
  <2> QED
    BY <2>1
<1>3. ASSUME NEW c \in Clients, SendAnswer(c) PROVE \E m : Appends(m)
  <2>1. serving[c] \in Hosts
    BY <1>3 DEF SendAnswer, TypeOK, ServingOK, PcsOK
  <2>2. Appends(AnswerOf(c, serving[c]))
    BY <1>3, <2>1 DEF SendAnswer, Send, Appends, AnswerOf, Message, Sessions
  <2> QED
    BY <2>2
<1>4. ASSUME NEW c \in Clients, ClientCandidate(c) PROVE \E m : Appends(m)
  <2> DEFINE m == [kind |-> "ice", from |-> c, pc |-> Head(iceQueue[c])]
  <2>1. Head(iceQueue[c]) \in Hosts
    BY <1>4 DEF ClientCandidate, TypeOK, IceOK
  <2>2. Appends(m)
    BY <1>4, <2>1 DEF ClientCandidate, Send, Appends, Message, Sessions
  <2> QED
    BY <2>2
<1>5. ASSUME NEW s \in Sessions, \/ ConnectFails(s) \/ Join(s) \/ FindNoRoom(s)
                                 \/ CreateLate(s) \/ Subscribe(s) \/ ServerForgets(s)
      PROVE  UNCHANGED log
  BY <1>5 DEF ConnectFails, Join, FindNoRoom, CreateLate, Subscribe, ServerForgets, channel
<1>6. ASSUME NEW h \in Hosts, CreateOffer(h) \/ HostHears(h) \/ HostCut(h) \/ HostExits(h)
      PROVE  UNCHANGED log
  BY <1>6 DEF CreateOffer, HostHears, HostCut, HostExits, Hear, channel
<1>7. ASSUME NEW c \in Clients, ReceiveOffer(c) \/ OfferFails(c) \/ ReceiveOther(c) \/ ClientLeaves(c)
      PROVE  UNCHANGED log
  BY <1>7 DEF ReceiveOffer, OfferFails, ReceiveOther, ClientLeaves, Hear, channel
<1>8. ASSUME NEW c \in Clients, NEW h \in Hosts, \/ ClientGathers(c, h) \/ DataChannelOpens(c, h)
                                                 \/ ReaderStarts(c, h) \/ ReaderEnds(c, h)
      PROVE  UNCHANGED log
  BY <1>8 DEF ClientGathers, DataChannelOpens, ReaderStarts, ReaderEnds, channel
<1>9. UNCHANGED vars => UNCHANGED log
  BY DEF vars, channel
<1> QED
  BY <1>1, <1>2, <1>3, <1>4, <1>5, <1>6, <1>7, <1>8, <1>9 DEF Next, Scheduled

LEMMA LogAfter ==
    ASSUME TypeOK, NEW m, Appends(m)
    PROVE  /\ Len(log) \in Nat /\ DOMAIN log = 1..Len(log)
           /\ DOMAIN log' = 1..(Len(log) + 1)
           /\ \A i \in 1..Len(log) : log'[i] = log[i]
           /\ log'[Len(log) + 1] = m
           /\ UNCHANGED <<holder, evicted, listening, at>>
  BY DEF TypeOK, ChannelOK, Appends, server, registry

LEMMA LogKept ==
    ASSUME TypeOK, [Next]_vars
    PROVE  /\ Len(log) \in Nat /\ DOMAIN log = 1..Len(log)
           /\ DOMAIN log \subseteq DOMAIN log'
           /\ \A i \in DOMAIN log : log'[i] = log[i]
           /\ \A s \in Sessions : at[s] \in Nat /\ at[s] <= Len(log)
<1>1. Len(log) \in Nat /\ DOMAIN log = 1..Len(log) /\ \A s \in Sessions : at[s] \in Nat /\ at[s] <= Len(log)
  BY DEF TypeOK, ChannelOK
<1>2. CASE UNCHANGED log
  BY <1>1, <1>2
<1>3. ASSUME NEW m, Appends(m) PROVE DOMAIN log \subseteq DOMAIN log' /\ \A i \in DOMAIN log : log'[i] = log[i]
  BY <1>3, LogAfter
<1> QED
  BY <1>1, <1>2, <1>3, LogStep

LEMMA SentStays ==
    ASSUME TypeOK, [Next]_vars, NEW m, Sent(m)
    PROVE  \E i \in DOMAIN log' : log'[i] = m
  BY LogKept DEF Sent

\* What a step does to a session's place at the server.
Placed(s) ==
    /\ stage[s] # "down" => stage'[s] # "down"
    /\ stage[s] = "gone" => stage'[s] = "gone"
    /\ stage[s] \in {"cut", "gone"} => stage'[s] \in {"cut", "gone"}
    /\ holder'[Role(s)] = s => holder[Role(s)] = s \/ stage[s] = "down"
    /\ s \in listening' => s \in listening \/ Subscribe(s)
    /\ s \in listening => s \in listening' \/ (ServerForgets(s) /\ holder'[Role(s)] # s)
    /\ s \in evicted => s \in evicted'
    /\ s \in evicted' => s \in evicted \/ holder[Role(s)] = s
    /\ holder[Role(s)] = s /\ stage[s] # "down"
          => holder'[Role(s)] = s \/ s \in evicted' \/ s \notin listening'

LEMMA PlaceStep ==
    ASSUME TypeOK, [Next]_vars, NEW s \in Sessions
    PROVE  Placed(s)
<1> USE NoneApart
<1>0. ProgramOK /\ ServerOK /\ s \in Hosts \cup Clients /\ s # None /\ Role(s) \in {"host", "remote"}
  BY DEF TypeOK, Sessions, Role
<1>1. ASSUME NEW x \in Sessions, ConnectFails(x) \/ Join(x)
      PROVE  Placed(s)
  <2>1. UNCHANGED <<listening, evicted>>
    BY <1>1 DEF ConnectFails, Join
  <2>2. stage[x] = "down" /\ (stage'[s] = stage[s] \/ x = s)
    BY <1>0, <1>1 DEF ConnectFails, GiveUpOrRetry, Join, Joined, To, ProgramOK
  <2>3. \/ holder'[Role(s)] = holder[Role(s)]
        \/ holder'[Role(s)] = x /\ holder[Role(s)] = None
    BY <1>0, <1>1 DEF ConnectFails, Join, ServerOK, Role
  <2> QED
    BY <1>0, <2>1, <2>2, <2>3 DEF Placed
<1>2. ASSUME NEW x \in Sessions, FindNoRoom(x)
      PROVE  Placed(s)
  BY <1>2 DEF FindNoRoom, program, Placed
<1>3. ASSUME NEW x \in Sessions, CreateLate(x)
      PROVE  Placed(s)
  <2>1. stage[x] = "down" /\ (stage'[s] = stage[s] \/ x = s)
    BY <1>0, <1>3 DEF CreateLate, GiveUpOrRetry, Joined, To, ProgramOK
  <2>2. /\ UNCHANGED listening
        /\ evicted' = evicted \cup {y \in Sessions : holder[Role(y)] = y /\ stage[y] # "down"}
        /\ holder'[Role(s)] \in {x, None}
    BY <1>0, <1>3 DEF CreateLate, ServerOK
  <2> QED
    BY <1>0, <2>1, <2>2 DEF Placed
<1>4. ASSUME NEW x \in Sessions, Subscribe(x)
      PROVE  Placed(s)
  BY <1>4 DEF Subscribe, program, registry, Placed
<1>5. ASSUME NEW x \in Sessions, ServerForgets(x)
      PROVE  Placed(s)
  <2>1. UNCHANGED <<stage, evicted>> /\ listening' = listening \ {x}
    BY <1>5 DEF ServerForgets, program
  <2>2. holder'[Role(s)] = IF holder[Role(s)] = x THEN None ELSE holder[Role(s)]
    BY <1>0, <1>5 DEF ServerForgets, ServerOK
  <2> QED
    BY <1>0, <1>5, <2>1, <2>2 DEF Placed
<1>6. ASSUME UNCHANGED server,
             \/ stage'[s] = stage[s]
             \/ stage[s] \notin {"down", "gone"} /\ stage'[s] # "down"
                /\ (stage[s] = "cut" => stage'[s] = "gone")
      PROVE  Placed(s)
  BY <1>6 DEF server, registry, Placed
<1>7. ASSUME NEW h \in Hosts, \/ CreateOffer(h) \/ SendOffer(h) \/ HostCandidate(h)
                              \/ HostHears(h) \/ HostCut(h) \/ HostExits(h)
      PROVE  Placed(s)
  <2>1. h \in Sessions
    BY DEF Sessions
  <2> QED
    BY <1>0, <1>6, <1>7, <2>1 DEF CreateOffer, SendOffer, HostCandidate, HostHears, HostCut, HostExits,
                            To, program, ProgramOK
<1>8. ASSUME NEW c \in Clients, \/ ReceiveOffer(c) \/ OfferFails(c) \/ SendAnswer(c)
                                \/ ReceiveOther(c) \/ ClientCandidate(c) \/ ClientLeaves(c)
      PROVE  Placed(s)
  <2>1. c \in Sessions
    BY DEF Sessions
  <2> QED
    BY <1>0, <1>6, <1>8, <2>1 DEF ReceiveOffer, OfferFails, SendAnswer, ReceiveOther, ClientCandidate,
                            ClientLeaves, To, program, ProgramOK
<1>9. ASSUME NEW c \in Clients, NEW h \in Hosts, \/ ClientGathers(c, h) \/ DataChannelOpens(c, h)
                                                 \/ ReaderStarts(c, h) \/ ReaderEnds(c, h)
      PROVE  Placed(s)
  BY <1>6, <1>9 DEF ClientGathers, DataChannelOpens, ReaderStarts, ReaderEnds, program
<1>10. UNCHANGED vars => Placed(s)
  BY <1>6 DEF vars, program
<1> QED
  BY <1>1, <1>2, <1>3, <1>4, <1>5, <1>7, <1>8, <1>9, <1>10 DEF Next, Scheduled

-----------------------------------------------------------------------------
\* Each step keeps the order between messages.

LEMMA RolesApartStep == ASSUME Order, [Next]_vars PROVE RolesApart'
<1> USE NoneApart DEF RolesApart
<1>0. ServerOK /\ RolesApart
  BY DEF Order, TypeOK
<1>1. ASSUME NEW s \in Sessions, \/ ConnectFails(s) \/ Join(s) \/ FindNoRoom(s)
                                 \/ CreateLate(s) \/ Subscribe(s) \/ ServerForgets(s)
      PROVE  RolesApart'
  BY <1>0, <1>1 DEF ConnectFails, Join, FindNoRoom, CreateLate, Subscribe, ServerForgets, registry,
                    Role, ServerOK, Sessions
<1>2. CASE UNCHANGED server
  BY <1>0, <1>2 DEF server, registry
<1>3. ASSUME NEW h \in Hosts, \/ CreateOffer(h) \/ SendOffer(h) \/ HostCandidate(h)
                              \/ HostHears(h) \/ HostCut(h) \/ HostExits(h)
      PROVE  UNCHANGED server
  BY <1>3 DEF CreateOffer, SendOffer, HostCandidate, HostHears, HostCut, HostExits
<1>4. ASSUME NEW c \in Clients, \/ ReceiveOffer(c) \/ OfferFails(c) \/ SendAnswer(c)
                                \/ ReceiveOther(c) \/ ClientCandidate(c) \/ ClientLeaves(c)
      PROVE  UNCHANGED server
  BY <1>4 DEF ReceiveOffer, OfferFails, SendAnswer, ReceiveOther, ClientCandidate, ClientLeaves
<1>5. ASSUME NEW c \in Clients, NEW h \in Hosts, \/ ClientGathers(c, h) \/ DataChannelOpens(c, h)
                                                 \/ ReaderStarts(c, h) \/ ReaderEnds(c, h)
      PROVE  UNCHANGED server
  BY <1>5 DEF ClientGathers, DataChannelOpens, ReaderStarts, ReaderEnds
<1>6. UNCHANGED vars => UNCHANGED server
  BY DEF vars
<1> QED
  BY <1>1, <1>2, <1>3, <1>4, <1>5, <1>6 DEF Next, Scheduled

LEMMA ListenersKnownStep == ASSUME Order, [Next]_vars PROVE ListenersKnown'
<1>0. TypeOK /\ ListenersKnown
  BY DEF Order
<1> SUFFICES ASSUME NEW s \in listening'
             PROVE  stage'[s] # "down" /\ (holder'[Role(s)] = s \/ s \in evicted')
  BY DEF ListenersKnown, Role
<1>1. s \in Sessions
  BY <1>0, TypeStep DEF TypeOK, ServerOK
<1>2. Placed(s)
  BY <1>0, <1>1, PlaceStep
<1>3. CASE Subscribe(s)
  BY <1>3 DEF Subscribe, program, registry
<1>4. CASE s \in listening
  BY <1>0, <1>2, <1>4 DEF ListenersKnown, Placed
<1> QED
  BY <1>2, <1>3, <1>4 DEF Placed

LEMMA NamesOwnStep == ASSUME Order, [Next]_vars PROVE NamesOwn'
<1>0. TypeOK /\ NamesOwn
  BY DEF Order
<1>1. CASE UNCHANGED log
  BY <1>0, <1>1 DEF NamesOwn
<1>2. ASSUME NEW m, Appends(m) PROVE NamesOwn'
  <2> SUFFICES ASSUME NEW i \in DOMAIN log'
               PROVE  /\ log'[i].from \in Hosts => log'[i].pc = log'[i].from /\ log'[i].kind # "answer"
                      /\ log'[i].from \in Clients => log'[i].kind # "offer"
    BY DEF NamesOwn
  <2>1. (i \in DOMAIN log /\ log'[i] = log[i]) \/ log'[i] = m
    BY <1>0, <1>2, LogAfter
  <2> QED
    BY <1>0, <1>2, <2>1 DEF NamesOwn, Appends
<1> QED
  BY <1>0, <1>1, <1>2, LogStep

LEMMA SpeakersListenStep == ASSUME Order, [Next]_vars PROVE SpeakersListen'
<1> USE NoneApart
<1>0. TypeOK /\ SpeakersListen
  BY DEF Order
<1> SUFFICES ASSUME NEW i \in DOMAIN log', NEW h \in Hosts, log'[i].from = h
             PROVE  stage'[h] # "down" /\ (h \in listening' \/ Over(h)')
  BY DEF SpeakersListen
<1>1. h \in Sessions /\ Role(h) = "host" /\ h # None
  BY DEF Sessions, Role
<1>2. stage[h] # "down" /\ (h \in listening \/ Over(h))
  <2>1. CASE i \in DOMAIN log /\ log'[i] = log[i]
    BY <1>0, <2>1 DEF SpeakersListen
  <2>2. CASE UNCHANGED log
    BY <2>1, <2>2
  <2>3. ASSUME NEW m, Appends(m) PROVE stage[h] # "down" /\ (h \in listening \/ Over(h))
    <3>1. (i \in DOMAIN log /\ log'[i] = log[i]) \/ log'[i] = m
      BY <1>0, <2>3, LogAfter
    <3> QED
      BY <2>1, <2>3, <3>1 DEF Appends
  <2> QED
    BY <1>0, <2>2, <2>3, LogStep
<1>3. Placed(h)
  BY <1>0, <1>1, PlaceStep
<1>4. CASE h \in listening
  <2>1. CASE ServerForgets(h) /\ holder'["host"] # h
    BY <1>2, <2>1 DEF ServerForgets, program, Over
  <2> QED
    BY <1>1, <1>2, <1>3, <1>4, <2>1 DEF Placed
<1>5. CASE Over(h)
  BY <1>1, <1>2, <1>3, <1>5 DEF Placed, Over
<1> QED
  BY <1>2, <1>4, <1>5

\* A host that has spoken is not subscribed again.
LEMMA NoNewSpeaker ==
    ASSUME Order, NEW h \in Hosts, NEW i \in DOMAIN log, log[i].from = h
    PROVE  ~ Subscribe(h)
  BY DEF Order, SpeakersListen, Subscribe, Role, Over

\* Of the hosts that did not lose their role only one is listened to.
LEMMA OneHostListens ==
    ASSUME Order, NEW g \in Hosts \cap listening, NEW h \in Hosts \cap listening,
           g \notin evicted, h \notin evicted
    PROVE  g = h
  BY DEF Order, ListenersKnown, Role

LEMMA OneHostSpeaksStep == ASSUME Order, [Next]_vars PROVE OneHostSpeaks'
<1>0. TypeOK /\ OneHostSpeaks
  BY DEF Order
<1> SUFFICES ASSUME NEW i \in DOMAIN log', NEW j \in DOMAIN log', i < j,
                    log'[i].from \in Hosts \ evicted', log'[j].from \in Hosts \ evicted',
                    log'[i].from # log'[j].from
             PROVE  /\ log'[i].from \notin listening'
                    /\ \A k \in DOMAIN log' : j < k => log'[k].from # log'[i].from
  BY DEF OneHostSpeaks
<1> DEFINE g == log'[i].from
<1>1. g \in Sessions /\ log'[j].from \in Sessions
  BY DEF Sessions
<1>4. Placed(g) /\ g \notin evicted /\ log'[j].from \notin evicted
  BY <1>0, <1>1, PlaceStep DEF Placed
<1>2. CASE UNCHANGED log
  <2>1. g \notin listening /\ \A k \in DOMAIN log : j < k => log[k].from # g
    BY <1>0, <1>2, <1>4 DEF OneHostSpeaks
  <2>2. ~ Subscribe(g)
    BY <1>2, NoNewSpeaker
  <2>3. g \notin listening'
    BY <1>4, <2>1, <2>2 DEF Placed
  <2> QED
    BY <1>2, <2>1, <2>3
<1>3. ASSUME NEW m, Appends(m)
      PROVE  /\ g \notin listening'
             /\ \A k \in DOMAIN log' : j < k => log'[k].from # g
  <2>1. /\ Len(log) \in Nat /\ DOMAIN log = 1..Len(log) /\ DOMAIN log' = 1..(Len(log) + 1)
        /\ \A n \in 1..Len(log) : log'[n] = log[n]
        /\ log'[Len(log) + 1] = m /\ listening' = listening /\ m.from \in listening
    BY <1>0, <1>3, LogAfter DEF Appends
  <2>2. i \in DOMAIN log /\ log'[i] = log[i]
    BY <2>1
  <2>3. CASE j \in DOMAIN log
    <3>1. g \notin listening /\ \A k \in DOMAIN log : j < k => log[k].from # g
      BY <1>0, <1>4, <2>1, <2>2, <2>3 DEF OneHostSpeaks
    <3> QED
      BY <2>1, <3>1
  <2>4. CASE j = Len(log) + 1
    <3>1. g \notin listening
      BY <1>4, <2>1, <2>4, OneHostListens
    <3> QED
      BY <2>1, <2>4, <3>1
  <2> QED
    BY <2>1, <2>3, <2>4
<1> QED
  BY <1>0, <1>2, <1>3, LogStep

-----------------------------------------------------------------------------
\* What a client has in hand.

\* Steps that leave a client's peer connections, place and reading alone.
LEMMA OtherClients ==
    ASSUME TypeOK, [Next]_vars, NEW c \in Clients
    PROVE  \/ stored'[c] = stored[c] /\ serving'[c] = serving[c] /\ at'[c] = at[c]
              /\ stage'[c] = stage[c] /\ iceQueue'[c] = iceQueue[c]
           \/ stored'[c] = stored[c] /\ serving'[c] = serving[c] /\ at'[c] = at[c]
              /\ iceQueue'[c] = iceQueue[c] /\ stage[c] = "down"
           \/ Subscribe(c) \/ ServerForgets(c)
           \/ ReceiveOffer(c) \/ OfferFails(c) \/ SendAnswer(c)
           \/ ReceiveOther(c) \/ ClientCandidate(c) \/ ClientLeaves(c)
           \/ \E h \in Hosts : ClientGathers(c, h)
<1> USE NoneApart
<1>0. ProgramOK /\ ChannelOK /\ PcsOK /\ IceOK /\ c \in Sessions /\ c \notin Hosts
  BY DEF TypeOK, Sessions
<1> DEFINE Alone == /\ stored'[c] = stored[c] /\ serving'[c] = serving[c] /\ at'[c] = at[c]
                    /\ stage'[c] = stage[c] /\ iceQueue'[c] = iceQueue[c]
<1>1. ASSUME NEW s \in Sessions, ConnectFails(s) \/ Join(s) \/ FindNoRoom(s) \/ CreateLate(s)
      PROVE  Alone \/
           (stored'[c] = stored[c] /\ serving'[c] = serving[c] /\ at'[c] = at[c]
              /\ iceQueue'[c] = iceQueue[c] /\ stage[c] = "down")
  <2>1. UNCHANGED <<stored, serving, at, iceQueue>> /\ stage[s] = "down"
    BY <1>1 DEF ConnectFails, Join, FindNoRoom, CreateLate, channel, clientPcs, ice
  <2>2. stage'[c] = stage[c] \/ s = c
    BY <1>0, <1>1 DEF ConnectFails, Join, FindNoRoom, CreateLate, GiveUpOrRetry, Joined, To, ProgramOK, program
  <2> QED
    BY <2>1, <2>2
<1>2. ASSUME NEW s \in Sessions, Subscribe(s) \/ ServerForgets(s), s # c PROVE Alone
  BY <1>0, <1>2 DEF Subscribe, ServerForgets, ChannelOK, clientPcs, ice, program
<1>3. ASSUME NEW h \in Hosts, \/ CreateOffer(h) \/ SendOffer(h) \/ HostCandidate(h)
                              \/ HostHears(h) \/ HostCut(h) \/ HostExits(h)
      PROVE  Alone
  <2>1. h # c
    BY <1>0
  <2> QED
    BY <1>0, <1>3, <2>1 DEF CreateOffer, SendOffer, HostCandidate, HostHears, HostCut, HostExits,
                            To, Hear, ProgramOK, ChannelOK, channel, clientPcs, ice, program
<1>4. ASSUME NEW d \in Clients, d # c,
             \/ ReceiveOffer(d) \/ OfferFails(d) \/ SendAnswer(d)
             \/ ReceiveOther(d) \/ ClientCandidate(d) \/ ClientLeaves(d)
             \/ \E h \in Hosts : ClientGathers(d, h)
      PROVE  Alone
  BY <1>0, <1>4 DEF ReceiveOffer, OfferFails, SendAnswer, ReceiveOther, ClientCandidate, ClientLeaves,
                    ClientGathers, DropTransport, To, Hear, ProgramOK, ChannelOK, PcsOK, IceOK,
                    channel, clientPcs, ice, program
<1>5. ASSUME NEW d \in Clients, NEW h \in Hosts,
             DataChannelOpens(d, h) \/ ReaderStarts(d, h) \/ ReaderEnds(d, h)
      PROVE  Alone
  BY <1>5 DEF DataChannelOpens, ReaderStarts, ReaderEnds, channel, clientPcs, ice, program
<1>6. UNCHANGED vars => Alone
  BY DEF vars, channel, clientPcs, ice, program
<1> HIDE DEF Alone
<1>7. Alone \/ (stored'[c] = stored[c] /\ serving'[c] = serving[c] /\ at'[c] = at[c]
              /\ iceQueue'[c] = iceQueue[c] /\ stage[c] = "down")
           \/ Subscribe(c) \/ ServerForgets(c)
           \/ ReceiveOffer(c) \/ OfferFails(c) \/ SendAnswer(c)
           \/ ReceiveOther(c) \/ ClientCandidate(c) \/ ClientLeaves(c)
           \/ \E h \in Hosts : ClientGathers(c, h)
  BY <1>1, <1>2, <1>3, <1>4, <1>5, <1>6 DEF Next, Scheduled
<1> QED
  BY <1>7 DEF Alone

LEMMA PcsWhileListeningStep == ASSUME Order, [Next]_vars PROVE PcsWhileListening'
<1> USE NoneApart
<1>0. TypeOK /\ PcsWhileListening /\ ProgramOK /\ PcsOK /\ ServingOK
  BY DEF Order, TypeOK
<1> SUFFICES ASSUME NEW c \in Clients, stored'[c] # None \/ serving'[c] # None
             PROVE  c \in listening' /\ stage'[c] \in {"loop", "answering"}
  BY DEF PcsWhileListening
<1>1. c \in Sessions
  BY DEF Sessions
<1> DEFINE Held == c \in listening /\ stage[c] \in {"loop", "answering"}
           Goal == c \in listening' /\ stage'[c] \in {"loop", "answering"}
<1>2. stored[c] # None \/ serving[c] # None => Held
  BY <1>0 DEF PcsWhileListening
<1>3. ASSUME Held, stage'[c] \in {"loop", "answering"} PROVE Goal
  <2>1. Placed(c)
    BY <1>0, <1>1, PlaceStep
  <2> QED
    BY <1>3, <2>1 DEF ServerForgets, Placed
<1>4. CASE Subscribe(c) \/ ServerForgets(c)
  BY <1>2, <1>4 DEF Subscribe, ServerForgets, clientPcs, program
<1>5. CASE ReceiveOffer(c)
  <2>1. c \in listening /\ stage[c] = "loop" /\ stage'[c] = "answering"
    BY <1>0, <1>1, <1>5 DEF ReceiveOffer, Hear, To, ProgramOK
  <2> QED
    BY <1>3, <2>1
<1>6. CASE OfferFails(c) \/ SendAnswer(c)
  <2>1. stage[c] = "answering" /\ stage'[c] = "loop"
    BY <1>0, <1>1, <1>6 DEF OfferFails, SendAnswer, To, ProgramOK
  <2>2. serving[c] # None
    BY <1>0, <2>1 DEF ServingOK
  <2> QED
    BY <1>2, <1>3, <2>1, <2>2
<1>7. CASE ReceiveOther(c) \/ ClientCandidate(c) \/ \E h \in Hosts : ClientGathers(c, h)
  <2>1. UNCHANGED <<stage, stored, serving>>
    BY <1>7 DEF ReceiveOther, ClientCandidate, ClientGathers, program, clientPcs
  <2> QED
    BY <1>2, <1>3, <2>1
<1>8. CASE ClientLeaves(c)
  BY <1>0, <1>8 DEF ClientLeaves, DropTransport, PcsOK
<1>9. ASSUME stored'[c] = stored[c] /\ serving'[c] = serving[c], stage'[c] = stage[c] \/ stage[c] = "down"
      PROVE  Goal
  BY <1>2, <1>3, <1>9
<1> HIDE DEF Goal
<1>10. Goal
  BY <1>0, <1>4, <1>5, <1>6, <1>7, <1>8, <1>9, OtherClients DEF Goal
<1> QED
  BY <1>10 DEF Goal

\* A client that has a peer connection reads on: it is neither subscribed nor
\* forgotten.
LEMMA ReadsOn ==
    ASSUME Order, NEW c \in Clients, stored[c] # None \/ serving[c] # None
    PROVE  ~ Subscribe(c) /\ ~ ServerForgets(c)
  BY DEF Order, PcsWhileListening, Subscribe, ServerForgets

\* The message a client reads is the next of the channel.
LEMMA ReadNext ==
    ASSUME TypeOK, NEW s \in Sessions, NEW m, Hear(s, m)
    PROVE  /\ at[s] \in Nat /\ at[s] + 1 \in DOMAIN log /\ log[at[s] + 1] = m
           /\ at'[s] = at[s] + 1 /\ log' = log
  BY DEF TypeOK, ChannelOK, Hear

\* What a client takes for an offer is one.
LEMMA OfferRead ==
    ASSUME Order, NEW i \in DOMAIN log, log[i].kind = "offer"
    PROVE  log[i] = OfferOf(log[i].pc) /\ log[i].pc \in Hosts /\ log[i].from = log[i].pc
<1>1. log[i] \in Message
  BY DEF Order, TypeOK, ChannelOK
<1>2. log[i].from \in Hosts /\ log[i].pc = log[i].from
  BY <1>1 DEF Message, Sessions, Order, NamesOwn
<1>3. log[i] = [kind |-> log[i].kind, from |-> log[i].from, pc |-> log[i].pc]
  BY <1>1 DEF Message
<1> QED
  BY <1>2, <1>3 DEF OfferOf

LEMMA OfferInHandStep == ASSUME Order, [Next]_vars PROVE OfferInHand'
<1> USE NoneApart
<1>0. TypeOK /\ OfferInHand /\ ProgramOK /\ PcsOK /\ ServingOK
  BY DEF Order, TypeOK
<1> SUFFICES ASSUME NEW c \in Clients, serving'[c] # None
             PROVE  at'[c] \in DOMAIN log' /\ log'[at'[c]] = OfferOf(serving'[c])
  BY DEF OfferInHand
<1>1. c \in Sessions
  BY DEF Sessions
<1> DEFINE Goal == at'[c] \in DOMAIN log' /\ log'[at'[c]] = OfferOf(serving'[c])
<1>2. ASSUME serving'[c] = serving[c], at'[c] = at[c] PROVE Goal
  BY <1>0, <1>2, LogKept DEF OfferInHand
<1>3. CASE Subscribe(c) \/ ServerForgets(c)
  BY <1>3, ReadsOn DEF Subscribe, ServerForgets, clientPcs
<1>4. CASE ReceiveOffer(c)
  <2>1. PICK m : Hear(c, m) /\ m.kind = "offer" /\ serving' = [serving EXCEPT ![c] = m.pc]
    BY <1>4 DEF ReceiveOffer
  <2>2. at[c] + 1 \in DOMAIN log /\ log[at[c] + 1] = m /\ at'[c] = at[c] + 1 /\ log' = log
    BY <1>0, <1>1, <2>1, ReadNext
  <2>3. m = OfferOf(m.pc)
    BY <2>1, <2>2, OfferRead
  <2>4. serving'[c] = m.pc
    BY <1>0, <2>1 DEF PcsOK
  <2> QED
    BY <2>2, <2>3, <2>4
<1>5. CASE OfferFails(c) \/ SendAnswer(c) \/ ClientLeaves(c)
  BY <1>0, <1>5 DEF OfferFails, SendAnswer, ClientLeaves, DropTransport, PcsOK
<1>6. CASE ReceiveOther(c)
  BY <1>0, <1>6 DEF ReceiveOther, ServingOK, clientPcs
<1>7. CASE ClientCandidate(c) \/ \E h \in Hosts : ClientGathers(c, h)
  BY <1>2, <1>7 DEF ClientCandidate, ClientGathers, clientPcs, channel
<1> HIDE DEF Goal
<1>8. Goal
  BY <1>0, <1>2, <1>3, <1>4, <1>5, <1>6, <1>7, OtherClients DEF Goal
<1> QED
  BY <1>8 DEF Goal

\* A step that logs an answer or a client's candidate is one of two.
LEMMA WhoAppends ==
    ASSUME Order, [Next]_vars, NEW m, Appends(m)
    PROVE  \/ m.from \in Hosts /\ m.kind \in {"offer", "ice"}
           \/ \E c \in Clients : SendAnswer(c) /\ m = AnswerOf(c, serving[c])
           \/ \E c \in Clients : ClientCandidate(c) /\ m = [kind |-> "ice", from |-> c, pc |-> Head(iceQueue[c])]
<1> USE NoneApart
<1>0. TypeOK /\ log \in Seq(Message) /\ Len(log) \in Nat /\ log' = Append(log, m) /\ m \in Message
  BY DEF Order, TypeOK, ChannelOK, Appends
<1>1. m.from \notin Hosts \/ m.kind \in {"offer", "ice"}
  BY DEF Appends, Message
<1>2. ASSUME NEW x \in Message, log' = Append(log, x) PROVE m = x
  <2>1. log'[Len(log) + 1] = x
    BY <1>0, <1>2
  <2> QED
    BY <1>0, <2>1, LogAfter
<1>3. log' # log
  BY <1>0
<1>4. ASSUME NEW h \in Hosts, SendOffer(h) \/ HostCandidate(h) PROVE m.from \in Hosts
  <2>1. CASE SendOffer(h)
    BY <1>2, <2>1 DEF SendOffer, Send, Message, Sessions
  <2>2. CASE HostCandidate(h)
    BY <1>2, <2>2 DEF HostCandidate, Send, Message, Sessions
  <2> QED
    BY <1>4, <2>1, <2>2
<1>5. ASSUME NEW c \in Clients, SendAnswer(c) PROVE m = AnswerOf(c, serving[c])
  <2>1. serving[c] \in Hosts
    BY <1>0, <1>5 DEF SendAnswer, TypeOK, ServingOK, PcsOK
  <2> QED
    BY <1>2, <1>5, <2>1 DEF SendAnswer, Send, AnswerOf, Message, Sessions
<1>6. ASSUME NEW c \in Clients, ClientCandidate(c)
      PROVE  m = [kind |-> "ice", from |-> c, pc |-> Head(iceQueue[c])]
  <2>1. Head(iceQueue[c]) \in Hosts
    BY <1>0, <1>6 DEF ClientCandidate, TypeOK, IceOK
  <2> QED
    BY <1>2, <1>6, <2>1 DEF ClientCandidate, Send, Message, Sessions
<1>7. ASSUME NEW s \in Sessions, \/ ConnectFails(s) \/ Join(s) \/ FindNoRoom(s)
                                 \/ CreateLate(s) \/ Subscribe(s) \/ ServerForgets(s)
      PROVE  FALSE
  BY <1>3, <1>7 DEF ConnectFails, Join, FindNoRoom, CreateLate, Subscribe, ServerForgets, channel
<1>8. ASSUME NEW h \in Hosts, CreateOffer(h) \/ HostHears(h) \/ HostCut(h) \/ HostExits(h)
      PROVE  FALSE
  BY <1>3, <1>8 DEF CreateOffer, HostHears, HostCut, HostExits, Hear, channel
<1>9. ASSUME NEW c \in Clients, ReceiveOffer(c) \/ OfferFails(c) \/ ReceiveOther(c) \/ ClientLeaves(c)
      PROVE  FALSE
  BY <1>3, <1>9 DEF ReceiveOffer, OfferFails, ReceiveOther, ClientLeaves, Hear, channel
<1>10. ASSUME NEW c \in Clients, NEW h \in Hosts, \/ ClientGathers(c, h) \/ DataChannelOpens(c, h)
                                                  \/ ReaderStarts(c, h) \/ ReaderEnds(c, h)
       PROVE  FALSE
  BY <1>3, <1>10 DEF ClientGathers, DataChannelOpens, ReaderStarts, ReaderEnds, channel
<1>11. ~ UNCHANGED vars
  BY <1>3 DEF vars, channel
<1> QED
  BY <1>1, <1>4, <1>5, <1>6, <1>7, <1>8, <1>9, <1>10, <1>11 DEF Next, Scheduled

LEMMA AnswersFollowOffersStep == ASSUME Order, [Next]_vars PROVE AnswersFollowOffers'
<1>0. TypeOK /\ AnswersFollowOffers /\ OfferInHand /\ ServingOK
  BY DEF Order, TypeOK
<1> SUFFICES ASSUME NEW i \in DOMAIN log', log'[i].kind = "answer"
             PROVE  \E j \in DOMAIN log' : log'[j] = OfferOf(log'[i].pc)
  BY DEF AnswersFollowOffers, Sent
<1>1. CASE i \in DOMAIN log /\ log'[i] = log[i]
  BY <1>0, <1>1, SentStays DEF AnswersFollowOffers
<1>2. ASSUME NEW m, Appends(m), log'[i] = m PROVE Sent(OfferOf(m.pc))
  <2>1. PICK c \in Clients : SendAnswer(c) /\ m = AnswerOf(c, serving[c])
    BY <1>2, WhoAppends
  <2>2. serving[c] # None
    BY <1>0, <2>1 DEF SendAnswer, ServingOK
  <2>3. m.pc = serving[c]
    BY <2>1 DEF AnswerOf
  <2> QED
    BY <1>0, <2>2, <2>3 DEF OfferInHand, Sent
<1>3. CASE UNCHANGED log
  BY <1>1, <1>3
<1>4. ASSUME NEW m, Appends(m) PROVE (i \in DOMAIN log /\ log'[i] = log[i]) \/ log'[i] = m
  BY <1>0, <1>4, LogAfter
<1> QED
  BY <1>0, <1>1, <1>2, <1>3, <1>4, LogStep, SentStays

LEMMA OrderStep == ASSUME Order, [Next]_vars PROVE Order'
  BY TypeStep, RolesApartStep, ListenersKnownStep, NamesOwnStep, SpeakersListenStep, OneHostSpeaksStep,
     PcsWhileListeningStep, OfferInHandStep, AnswersFollowOffersStep DEF Order
-----------------------------------------------------------------------------
\* A client's candidates follow its answers.

LEMMA AnswerSent ==
    ASSUME Order, [Next]_vars, NEW c \in Clients, SendAnswer(c)
    PROVE  /\ serving[c] \in Hosts /\ stored'[c] = serving[c] /\ serving'[c] = None
           /\ \E i \in DOMAIN log' : log'[i] = AnswerOf(c, serving[c])
<1>1. serving[c] \in Hosts /\ stored'[c] = serving[c] /\ serving'[c] = None
  BY DEF Order, TypeOK, PcsOK, ServingOK, SendAnswer
<1>2. log \in Seq(Message) /\ log' = Append(log, AnswerOf(c, serving[c])) /\ AnswerOf(c, serving[c]) \in Message
  BY <1>1 DEF Order, TypeOK, ChannelOK, SendAnswer, Send, AnswerOf, Message, Sessions
<1>3. Len(log) + 1 \in DOMAIN log' /\ log'[Len(log) + 1] = AnswerOf(c, serving[c])
  BY <1>2
<1> QED
  BY <1>1, <1>3

LEMMA KeptStep == ASSUME Order, KeptIsAnswered, [Next]_vars PROVE KeptIsAnswered'
<1> SUFFICES ASSUME NEW c \in Clients, stored'[c] # None
             PROVE  \E i \in DOMAIN log' : log'[i] = AnswerOf(c, stored'[c])
  BY DEF KeptIsAnswered, Sent
<1>0. TypeOK /\ PcsOK
  BY DEF Order, TypeOK
<1>1. ASSUME stored'[c] = stored[c] PROVE \E i \in DOMAIN log' : log'[i] = AnswerOf(c, stored'[c])
  BY <1>0, <1>1, SentStays DEF KeptIsAnswered
<1>2. CASE SendAnswer(c)
  BY <1>2, AnswerSent
<1>3. CASE ClientLeaves(c)
  BY <1>0, <1>3 DEF ClientLeaves, DropTransport, PcsOK
<1>4. CASE \/ Subscribe(c) \/ ServerForgets(c) \/ ReceiveOffer(c) \/ OfferFails(c)
           \/ ReceiveOther(c) \/ ClientCandidate(c) \/ \E h \in Hosts : ClientGathers(c, h)
  BY <1>1, <1>4 DEF Subscribe, ServerForgets, ReceiveOffer, OfferFails, ReceiveOther, ClientCandidate,
                    ClientGathers, clientPcs
<1> QED
  BY <1>0, <1>1, <1>2, <1>3, <1>4, OtherClients

\* What the relay loop's queue may hold.
Answered(c, h) == <<c, h>> \in gathered /\ (h = serving[c] \/ Sent(AnswerOf(c, h)))

LEMMA QueueStep ==
    ASSUME Order, KeptIsAnswered, QueueIsAnswered, [Next]_vars PROVE QueueIsAnswered'
<1> USE NoneApart
<1>0. TypeOK /\ ProgramOK /\ PcsOK /\ IceOK /\ ServingOK
  BY DEF Order, TypeOK
<1>1. gathered \subseteq gathered'
  <2>1. ASSUME NEW s \in Sessions, \/ ConnectFails(s) \/ Join(s) \/ FindNoRoom(s)
                                 \/ CreateLate(s) \/ Subscribe(s) \/ ServerForgets(s)
        PROVE  gathered' = gathered
    BY <2>1 DEF ConnectFails, Join, FindNoRoom, CreateLate, Subscribe, ServerForgets, ice
  <2>2. ASSUME NEW h \in Hosts, \/ CreateOffer(h) \/ SendOffer(h) \/ HostCandidate(h)
                                \/ HostHears(h) \/ HostCut(h) \/ HostExits(h)
        PROVE  gathered \subseteq gathered'
    BY <2>2 DEF CreateOffer, SendOffer, HostCandidate, HostHears, HostCut, HostExits, ice
  <2>3. ASSUME NEW c \in Clients, \/ ReceiveOffer(c) \/ OfferFails(c) \/ SendAnswer(c)
                                  \/ ReceiveOther(c) \/ ClientCandidate(c) \/ ClientLeaves(c)
        PROVE  gathered' = gathered
    BY <2>3 DEF ReceiveOffer, OfferFails, SendAnswer, ReceiveOther, ClientCandidate, ClientLeaves, ice
  <2>4. ASSUME NEW c \in Clients, NEW h \in Hosts, \/ ClientGathers(c, h) \/ DataChannelOpens(c, h)
                                                   \/ ReaderStarts(c, h) \/ ReaderEnds(c, h)
        PROVE  gathered \subseteq gathered'
    BY <2>4 DEF ClientGathers, DataChannelOpens, ReaderStarts, ReaderEnds, ice
  <2>5. UNCHANGED vars => gathered' = gathered
    BY DEF vars, ice
  <2> QED
    BY <2>1, <2>2, <2>3, <2>4, <2>5 DEF Next, Scheduled
<1> SUFFICES ASSUME NEW c \in Clients, NEW i \in DOMAIN iceQueue'[c]
             PROVE  /\ <<c, iceQueue'[c][i]>> \in gathered'
                    /\ \/ iceQueue'[c][i] = serving'[c]
                       \/ \E j \in DOMAIN log' : log'[j] = AnswerOf(c, iceQueue'[c][i])
  BY DEF QueueIsAnswered, Sent
<1> DEFINE g == iceQueue'[c][i]
           Goal == <<c, g>> \in gathered' /\ (g = serving'[c] \/ \E j \in DOMAIN log' : log'[j] = AnswerOf(c, g))
<1>2. c \in Sessions /\ iceQueue[c] \in Seq(Hosts)
  BY <1>0 DEF Sessions, IceOK
<1>3. \A n \in DOMAIN iceQueue[c] : Answered(c, iceQueue[c][n])
  BY DEF QueueIsAnswered, Answered
<1>4. ASSUME Answered(c, g), g = serving[c] => \/ serving'[c] = serving[c]
                                               \/ \E j \in DOMAIN log' : log'[j] = AnswerOf(c, g)
      PROVE  Goal
  BY <1>0, <1>1, <1>4, SentStays DEF Answered
<1>5. ASSUME iceQueue'[c] = iceQueue[c], serving'[c] = serving[c] PROVE Goal
  BY <1>3, <1>4, <1>5
<1>6. CASE Subscribe(c) \/ ServerForgets(c) \/ ReceiveOther(c)
  BY <1>5, <1>6 DEF Subscribe, ServerForgets, ReceiveOther, clientPcs, ice
<1>7. CASE ReceiveOffer(c)
  <2>1. iceQueue'[c] = iceQueue[c] /\ serving[c] = None
    BY <1>0, <1>7 DEF ReceiveOffer, ice, ServingOK
  <2>2. g \in Hosts
    BY <1>2, <2>1
  <2> QED
    BY <1>3, <1>4, <2>1, <2>2
<1>8. CASE OfferFails(c)
  <2>1. iceQueue'[c] = iceQueue[c] /\ <<c, serving[c]>> \notin gathered
    BY <1>8 DEF OfferFails, ice
  <2> QED
    BY <1>3, <1>4, <2>1 DEF Answered
<1>9. CASE SendAnswer(c)
  <2>1. iceQueue'[c] = iceQueue[c]
    BY <1>9 DEF SendAnswer, ice
  <2> QED
    BY <1>3, <1>4, <1>9, <2>1, AnswerSent
<1>10. CASE ClientCandidate(c)
  <2>1. iceQueue'[c] = Tail(iceQueue[c]) /\ serving'[c] = serving[c] /\ iceQueue[c] # <<>>
    BY <1>0, <1>10 DEF ClientCandidate, clientPcs, IceOK
  <2>2. i + 1 \in DOMAIN iceQueue[c] /\ g = iceQueue[c][i + 1]
    BY <1>2, <2>1
  <2> QED
    BY <1>3, <1>4, <2>1, <2>2
<1>11. CASE ClientLeaves(c)
  BY <1>0, <1>11 DEF ClientLeaves, IceOK
<1>12. ASSUME NEW h \in Hosts, ClientGathers(c, h) PROVE Goal
  <2>1. iceQueue'[c] = Append(iceQueue[c], h) /\ serving'[c] = serving[c] /\ <<c, h>> \in gathered'
    BY <1>0, <1>12 DEF ClientGathers, clientPcs, IceOK
  <2>2. \/ i \in DOMAIN iceQueue[c] /\ g = iceQueue[c][i]
        \/ g = h
    BY <1>2, <2>1
  <2>3. CASE i \in DOMAIN iceQueue[c] /\ g = iceQueue[c][i]
    BY <1>3, <1>4, <2>1, <2>3
  <2>4. CASE g = h
    <3>1. h = serving[c] \/ Sent(AnswerOf(c, h))
      BY <1>12 DEF ClientGathers, KeptIsAnswered
    <3> QED
      BY <1>0, <2>1, <2>4, <3>1, SentStays
  <2> QED
    BY <2>2, <2>3, <2>4
<1> HIDE DEF Goal
<1>13. Goal
  BY <1>0, <1>5, <1>6, <1>7, <1>8, <1>9, <1>10, <1>11, <1>12, OtherClients DEF Goal
<1> QED
  BY <1>13 DEF Goal

LEMMA IceStep ==
    ASSUME Order, QueueIsAnswered, IceFollowsAnswers, [Next]_vars PROVE IceFollowsAnswers'
<1> USE NoneApart
<1>0. TypeOK /\ ServingOK /\ IceOK
  BY DEF Order, TypeOK
<1> SUFFICES ASSUME NEW i \in DOMAIN log', log'[i].kind = "ice", log'[i].from \in Clients
             PROVE  \E j \in 1..(i - 1) : log'[j] = AnswerOf(log'[i].from, log'[i].pc)
  BY DEF IceFollowsAnswers
<1>1. ASSUME i \in DOMAIN log, log'[i] = log[i]
      PROVE  \E j \in 1..(i - 1) : log'[j] = AnswerOf(log'[i].from, log'[i].pc)
  <2>1. PICK j \in 1..(i - 1) : log[j] = AnswerOf(log[i].from, log[i].pc)
    BY <1>1 DEF IceFollowsAnswers
  <2>2. j \in DOMAIN log
    BY <1>0, <1>1, <2>1, LogKept
  <2>3. log'[j] = log[j]
    BY <1>0, <2>2, LogKept
  <2> QED
    BY <1>1, <2>1, <2>3
<1>2. CASE UNCHANGED log
  BY <1>1, <1>2
<1>3. ASSUME NEW m, Appends(m)
      PROVE  \E j \in 1..(i - 1) : log'[j] = AnswerOf(log'[i].from, log'[i].pc)
  <2>1. \/ i \in DOMAIN log /\ log'[i] = log[i]
        \/ i = Len(log) + 1 /\ log'[i] = m
    BY <1>0, <1>3, LogAfter
  <2>2. CASE i = Len(log) + 1 /\ log'[i] = m
    <3>1. PICK c \in Clients :
             ClientCandidate(c) /\ m = [kind |-> "ice", from |-> c, pc |-> Head(iceQueue[c])]
      BY <1>3, <2>2, WhoAppends DEF AnswerOf
    <3>2. iceQueue[c] \in Seq(Hosts) /\ iceQueue[c] # <<>> /\ serving[c] = None
      BY <1>0, <3>1 DEF ClientCandidate, IceOK, ServingOK
    <3>3. 1 \in DOMAIN iceQueue[c] /\ iceQueue[c][1] = Head(iceQueue[c]) /\ Head(iceQueue[c]) \in Hosts
      BY <3>2
    <3>4. Sent(AnswerOf(c, Head(iceQueue[c])))
      BY <3>2, <3>3 DEF QueueIsAnswered
    <3>5. PICK j \in DOMAIN log : log[j] = AnswerOf(c, Head(iceQueue[c]))
      BY <3>4 DEF Sent
    <3>6. log'[j] = log[j] /\ j \in 1..(i - 1)
      BY <1>0, <2>2, <3>5, LogKept
    <3> QED
      BY <2>2, <3>1, <3>5, <3>6
  <2> QED
    BY <1>1, <2>1, <2>2
<1> QED
  BY <1>0, <1>2, <1>3, LogStep

-----------------------------------------------------------------------------
\* What a host has read.

\* When a host is subscribed nobody has spoken of its peer connection.
LEMMA NoWordOfIt ==
    ASSUME Order, NEW h \in Hosts, Subscribe(h), NEW i \in DOMAIN log, log[i].kind = "answer"
    PROVE  log[i].pc # h
<1> SUFFICES ASSUME log[i].pc = h PROVE FALSE
  OBVIOUS
<1>1. PICK j \in DOMAIN log : log[j] = OfferOf(h)
  BY DEF Order, AnswersFollowOffers, Sent
<1>2. log[j].from = h
  BY <1>1 DEF OfferOf
<1> QED
  BY <1>2, NoNewSpeaker

\* Steps that leave a host's reading and its peer connection alone.
LEMMA OtherHosts ==
    ASSUME TypeOK, [Next]_vars, NEW h \in Hosts
    PROVE  \/ Subscribe(h) \/ ServerForgets(h) \/ HostHears(h)
           \/ HostExits(h) /\ at'[h] = at[h] /\ added'[h] = added[h]
           \/ at'[h] = at[h] /\ remote'[h] = remote[h] /\ added'[h] = added[h]
<1> USE NoneApart
<1>0. ProgramOK /\ ChannelOK /\ PcsOK /\ IceOK /\ h \in Sessions /\ h \notin Clients
  BY DEF TypeOK, Sessions
<1> DEFINE Alone == at'[h] = at[h] /\ remote'[h] = remote[h] /\ added'[h] = added[h]
<1>1. ASSUME NEW s \in Sessions, ConnectFails(s) \/ Join(s) \/ FindNoRoom(s) \/ CreateLate(s)
      PROVE  Alone
  BY <1>0, <1>1 DEF ConnectFails, Join, FindNoRoom, CreateLate, channel, ice
<1>2. ASSUME NEW s \in Sessions, Subscribe(s) \/ ServerForgets(s), s # h PROVE Alone
  BY <1>0, <1>2 DEF Subscribe, ServerForgets, ChannelOK, ice
<1>3. ASSUME NEW g \in Hosts, CreateOffer(g) \/ SendOffer(g) \/ HostCandidate(g) \/ HostCut(g)
      PROVE  Alone
  BY <1>0, <1>3 DEF CreateOffer, SendOffer, HostCandidate, HostCut, channel, ice
<1>4. ASSUME NEW g \in Hosts, HostHears(g), g # h PROVE Alone
  BY <1>0, <1>4 DEF HostHears, Hear, TakeAnswer, AddCandidate, ChannelOK, PcsOK, IceOK
<1>5. ASSUME NEW g \in Hosts, HostExits(g), g # h PROVE Alone
  BY <1>0, <1>5 DEF HostExits, channel, ice, PcsOK
<1>6. HostExits(h) => at'[h] = at[h] /\ added'[h] = added[h]
  BY DEF HostExits, channel, ice
<1>7. ASSUME NEW c \in Clients, OfferFails(c) \/ SendAnswer(c) \/ ClientCandidate(c) \/ ClientLeaves(c)
      PROVE  Alone
  BY <1>7 DEF OfferFails, SendAnswer, ClientCandidate, ClientLeaves, channel, ice
<1>8. ASSUME NEW c \in Clients, ReceiveOffer(c) \/ ReceiveOther(c) PROVE Alone
  <2>1. c # h
    BY <1>0
  <2> QED
    BY <1>0, <1>8, <2>1 DEF ReceiveOffer, ReceiveOther, Hear, AddCandidate, ChannelOK, IceOK, ice
<1>9. ASSUME NEW c \in Clients, NEW g \in Hosts, \/ ClientGathers(c, g) \/ DataChannelOpens(c, g)
                                                 \/ ReaderStarts(c, g) \/ ReaderEnds(c, g)
      PROVE  Alone
  BY <1>9 DEF ClientGathers, DataChannelOpens, ReaderStarts, ReaderEnds, channel, ice
<1>10. UNCHANGED vars => Alone
  BY DEF vars, channel, ice
<1> HIDE DEF Alone
<1>11. \/ Subscribe(h) \/ ServerForgets(h) \/ HostHears(h) \/ HostExits(h) \/ Alone
  BY <1>1, <1>2, <1>3, <1>4, <1>5, <1>7, <1>8, <1>9, <1>10 DEF Next, Scheduled
<1> QED
  BY <1>6, <1>11 DEF Alone

\* What a host does with the message it reads.
LEMMA HostReads ==
    ASSUME TypeOK, NEW h \in Hosts, HostHears(h)
    PROVE  /\ at[h] \in Nat /\ at[h] + 1 \in DOMAIN log /\ at'[h] = at[h] + 1 /\ log' = log
           /\ stage[h] = "loop" /\ stage' = stage
           /\ remote[h] # None => remote'[h] # None
           /\ log[at[h] + 1].kind = "answer" => remote'[h] # None
           /\ added[h] \subseteq added'[h]
           /\ log[at[h] + 1].kind = "ice" /\ remote[h] # None => <<h, log[at[h] + 1]>> \in added'[h]
<1> USE NoneApart
<1>1. PICK m : Hear(h, m) /\ TakeAnswer(h, m) /\ AddCandidate(h, IF remote[h] = None THEN None ELSE h, m)
  BY DEF HostHears
<1>2. h \in Sessions /\ h # None
  BY DEF Sessions
<1>3. /\ at[h] \in Nat /\ at[h] + 1 \in DOMAIN log /\ log[at[h] + 1] = m
      /\ at'[h] = at[h] + 1 /\ log' = log
  BY <1>1, <1>2, ReadNext
<1>4. m # None
  BY <1>1, <1>2, HearTyped
<1>5. (remote[h] # None => remote'[h] # None) /\ (m.kind = "answer" => remote'[h] # None)
  BY <1>1, <1>4 DEF TakeAnswer, TypeOK, PcsOK
<1>6. added[h] \subseteq added'[h] /\ (m.kind = "ice" /\ remote[h] # None => <<h, m>> \in added'[h])
  BY <1>1, <1>2 DEF AddCandidate, TypeOK, IceOK
<1> QED
  BY <1>3, <1>5, <1>6 DEF HostHears, program
LEMMA TakenStep ==
    ASSUME Order, AnswersAreTaken, [Next]_vars PROVE AnswersAreTaken'
<1> SUFFICES ASSUME NEW h \in Hosts, NEW i \in 1..at'[h], log'[i].kind = "answer", log'[i].pc = h
             PROVE  remote'[h] # None \/ stage'[h] = "gone"
  BY DEF AnswersAreTaken
<1>0. TypeOK /\ h \in Sessions
  BY DEF Order, Sessions
<1>1. /\ at[h] \in Nat /\ at[h] <= Len(log) /\ DOMAIN log = 1..Len(log) /\ Len(log) \in Nat
      /\ \A n \in DOMAIN log : log'[n] = log[n]
  BY <1>0, LogKept
<1>2. ASSUME i <= at[h] PROVE remote[h] # None \/ stage[h] = "gone"
  <2>1. i \in 1..at[h] /\ i \in DOMAIN log
    BY <1>1, <1>2
  <2>2. log[i].kind = "answer" /\ log[i].pc = h
    BY <1>1, <2>1
  <2> QED
    BY <2>1, <2>2 DEF AnswersAreTaken
<1>3. stage[h] = "gone" => stage'[h] = "gone"
  BY <1>0, PlaceStep DEF Placed
<1>4. CASE Subscribe(h)
  <2>1. log' = log /\ at'[h] = Len(log)
    BY <1>0, <1>4 DEF Subscribe, TypeOK, ChannelOK
  <2>2. i \in DOMAIN log
    BY <1>1, <2>1
  <2> QED
    BY <1>4, <2>1, <2>2, NoWordOfIt
<1>5. CASE ServerForgets(h)
  BY <1>0, <1>5 DEF ServerForgets, TypeOK, ChannelOK
<1>6. CASE HostHears(h)
  <2>1. /\ at[h] + 1 \in DOMAIN log /\ at'[h] = at[h] + 1 /\ log' = log /\ stage' = stage
        /\ remote[h] # None => remote'[h] # None
        /\ log[at[h] + 1].kind = "answer" => remote'[h] # None
    BY <1>0, <1>6, HostReads
  <2>2. i <= at[h] \/ i = at[h] + 1
    BY <1>1, <2>1
  <2> QED
    BY <1>2, <2>1, <2>2
<1>7. CASE HostExits(h)
  BY <1>0, <1>7 DEF HostExits, To, TypeOK, ProgramOK
<1>8. CASE at'[h] = at[h] /\ remote'[h] = remote[h]
  BY <1>2, <1>3, <1>8
<1> QED
  BY <1>0, <1>4, <1>5, <1>6, <1>7, <1>8, OtherHosts

LEMMA ArriveStep ==
    ASSUME Order, IceFollowsAnswers, AnswersAreTaken, ClientCandidatesArrive, [Next]_vars
    PROVE  ClientCandidatesArrive'
<1> SUFFICES ASSUME NEW h \in Hosts, NEW i \in 1..at'[h],
                    log'[i].kind = "ice", log'[i].from \in Clients, log'[i].pc = h
             PROVE  <<h, log'[i]>> \in added'[h]
  BY DEF ClientCandidatesArrive
<1>0. TypeOK /\ h \in Sessions
  BY DEF Order, Sessions
<1>1. /\ at[h] \in Nat /\ at[h] <= Len(log) /\ DOMAIN log = 1..Len(log) /\ Len(log) \in Nat
      /\ \A n \in DOMAIN log : log'[n] = log[n]
  BY <1>0, LogKept
<1>2. ASSUME i <= at[h] PROVE <<h, log'[i]>> \in added[h]
  <2>1. i \in 1..at[h] /\ i \in DOMAIN log
    BY <1>1, <1>2
  <2>2. log'[i] = log[i]
    BY <1>1, <2>1
  <2> QED
    BY <2>1, <2>2 DEF ClientCandidatesArrive
\* The answer that came before the candidate.
<1>3. ASSUME i \in DOMAIN log
      PROVE  \E j \in 1..(i - 1) : log[j].kind = "answer" /\ log[j].pc = h
  <2>1. log'[i] = log[i]
    BY <1>1, <1>3
  <2>2. PICK j \in 1..(i - 1) : log[j] = AnswerOf(log[i].from, log[i].pc)
    BY <1>3, <2>1 DEF IceFollowsAnswers
  <2> QED
    BY <2>1, <2>2 DEF AnswerOf
<1>4. CASE Subscribe(h)
  <2>1. log' = log /\ at'[h] = Len(log)
    BY <1>0, <1>4 DEF Subscribe, TypeOK, ChannelOK
  <2>2. i \in DOMAIN log
    BY <1>1, <2>1
  <2>3. PICK j \in 1..(i - 1) : log[j].kind = "answer" /\ log[j].pc = h
    BY <1>3, <2>2
  <2>4. j \in DOMAIN log
    BY <1>1, <2>2, <2>3
  <2> QED
    BY <1>4, <2>3, <2>4, NoWordOfIt
<1>5. CASE ServerForgets(h)
  BY <1>0, <1>5 DEF ServerForgets, TypeOK, ChannelOK
<1>6. CASE HostHears(h)
  <2>1. /\ at[h] + 1 \in DOMAIN log /\ at'[h] = at[h] + 1 /\ log' = log /\ stage[h] = "loop"
        /\ added[h] \subseteq added'[h]
        /\ log[at[h] + 1].kind = "ice" /\ remote[h] # None => <<h, log[at[h] + 1]>> \in added'[h]
    BY <1>0, <1>6, HostReads
  <2>2. CASE i <= at[h]
    BY <1>2, <2>1, <2>2
  <2>3. CASE i = at[h] + 1
    <3>1. PICK j \in 1..(i - 1) : log[j].kind = "answer" /\ log[j].pc = h
      BY <1>3, <2>1, <2>3
    <3>2. j \in 1..at[h]
      BY <1>1, <2>3, <3>1
    <3>3. remote[h] # None
      BY <2>1, <3>1, <3>2 DEF AnswersAreTaken
    <3> QED
      BY <2>1, <2>3, <3>3
  <2> QED
    BY <1>1, <2>1, <2>2, <2>3
<1>7. CASE at'[h] = at[h] /\ added'[h] = added[h]
  BY <1>2, <1>7
<1> QED
  BY <1>0, <1>4, <1>5, <1>6, <1>7, OtherHosts

-----------------------------------------------------------------------------
\* What a client has read.

LEMMA FailedGrows == ASSUME [Next]_vars PROVE failed \subseteq failed'
<1>1. ASSUME NEW s \in Sessions, \/ ConnectFails(s) \/ Join(s) \/ FindNoRoom(s)
                                 \/ CreateLate(s) \/ Subscribe(s) \/ ServerForgets(s)
      PROVE  failed' = failed
  BY <1>1 DEF ConnectFails, Join, FindNoRoom, CreateLate, Subscribe, ServerForgets, clientPcs
<1>2. ASSUME NEW h \in Hosts, \/ CreateOffer(h) \/ SendOffer(h) \/ HostCandidate(h)
                              \/ HostHears(h) \/ HostCut(h) \/ HostExits(h)
      PROVE  failed' = failed
  BY <1>2 DEF CreateOffer, SendOffer, HostCandidate, HostHears, HostCut, HostExits, clientPcs
<1>3. ASSUME NEW c \in Clients, \/ ReceiveOffer(c) \/ OfferFails(c) \/ SendAnswer(c)
                                \/ ReceiveOther(c) \/ ClientCandidate(c) \/ ClientLeaves(c)
      PROVE  failed \subseteq failed'
  BY <1>3 DEF ReceiveOffer, OfferFails, SendAnswer, ReceiveOther, ClientCandidate, ClientLeaves, clientPcs
<1>4. ASSUME NEW c \in Clients, NEW h \in Hosts, \/ ClientGathers(c, h) \/ DataChannelOpens(c, h)
                                                 \/ ReaderStarts(c, h) \/ ReaderEnds(c, h)
      PROVE  failed' = failed
  BY <1>4 DEF ClientGathers, DataChannelOpens, ReaderStarts, ReaderEnds, clientPcs
<1>5. UNCHANGED vars => failed' = failed
  BY DEF vars, clientPcs
<1> QED
  BY <1>1, <1>2, <1>3, <1>4, <1>5 DEF Next, Scheduled

LEMMA OldOffersStep ==
    ASSUME Order, OldOffersAreOver, [Next]_vars PROVE OldOffersAreOver'
<1> USE NoneApart
<1>0. TypeOK /\ PcsOK /\ ServingOK /\ ProgramOK
  BY DEF Order, TypeOK
<1> SUFFICES ASSUME NEW c \in Clients, NEW i \in 1..at'[c],
                    log'[i].kind = "offer", stored'[c] # None,
                    log'[i].from \notin {stored'[c], serving'[c]}, <<c, log'[i].from>> \notin failed'
             PROVE  \E j \in (i + 1)..at'[c] : log'[j].from = stored'[c]
  BY DEF OldOffersAreOver
<1>1. /\ c \in Sessions /\ at[c] \in Nat /\ at[c] <= Len(log)
      /\ DOMAIN log = 1..Len(log) /\ Len(log) \in Nat
      /\ \A n \in DOMAIN log : log'[n] = log[n]
  BY <1>0, LogKept DEF Sessions
<1>2. i <= at[c] => i \in 1..at[c] /\ log'[i] = log[i]
  BY <1>1
<1> DEFINE Goal == \E j \in (i + 1)..at'[c] : log'[j].from = stored'[c]
\* What was so before the step still is.
<1>3. ASSUME i <= at[c], stored'[c] = stored[c], log[i].from # serving[c],
             at'[c] \in Nat, at[c] <= at'[c]
      PROVE  Goal
  <2>1. PICK j \in (i + 1)..at[c] : log[j].from = stored[c]
    BY <1>2, <1>3, FailedGrows DEF OldOffersAreOver
  <2>2. j \in DOMAIN log /\ j \in (i + 1)..at'[c]
    BY <1>1, <1>3, <2>1
  <2> QED
    BY <1>1, <1>3, <2>1, <2>2
<1>4. CASE Subscribe(c) \/ ServerForgets(c)
  BY <1>4, ReadsOn DEF Subscribe, ServerForgets, clientPcs
<1>5. CASE ReceiveOffer(c)
  <2>1. PICK m : Hear(c, m) /\ m.kind = "offer" /\ serving' = [serving EXCEPT ![c] = m.pc]
    BY <1>5 DEF ReceiveOffer
  <2>2. at[c] + 1 \in DOMAIN log /\ log[at[c] + 1] = m /\ at'[c] = at[c] + 1 /\ log' = log
    BY <1>0, <1>1, <2>1, ReadNext
  <2>3. m.from = serving'[c]
    <3>1. m.from = m.pc
      BY <2>1, <2>2, OfferRead
    <3> QED
      BY <1>0, <2>1, <3>1 DEF PcsOK
  <2>4. i <= at[c]
    BY <1>1, <2>2, <2>3
  <2>5. serving[c] = None /\ stored'[c] = stored[c]
    BY <1>0, <1>5 DEF ReceiveOffer, ServingOK
  <2>6. log[i].from \in Sessions
    <3>1. log[i] \in Message
      BY <1>0, <1>1, <2>4 DEF TypeOK, ChannelOK
    <3> QED
      BY <3>1 DEF Message
  <2>7. log[i].from # serving[c]
    BY <2>5, <2>6 DEF Sessions
  <2>8. at'[c] \in Nat /\ at[c] <= at'[c]
    BY <1>1, <2>2
  <2> QED
    BY <1>3, <2>4, <2>5, <2>7, <2>8
<1>6. CASE OfferFails(c)
  <2>1. at'[c] = at[c] /\ stored'[c] = stored[c] /\ <<c, serving[c]>> \in failed'
    BY <1>6 DEF OfferFails, channel
  <2>2. i <= at[c] /\ log[i].from # serving[c]
    BY <1>1, <1>2, <2>1
  <2> QED
    BY <1>1, <1>3, <2>1, <2>2
<1>7. CASE SendAnswer(c)
  <2>1. at'[c] = at[c] /\ serving[c] # None /\ stored'[c] = serving[c]
    BY <1>0, <1>7 DEF SendAnswer, PcsOK, ServingOK
  <2>2. at[c] \in DOMAIN log /\ log[at[c]] = OfferOf(serving[c])
    BY <2>1 DEF Order, OfferInHand
  <2>3. log[at[c]].from = stored'[c] /\ log'[at[c]] = log[at[c]]
    BY <1>1, <2>1, <2>2 DEF OfferOf
  <2>4. i # at[c]
    BY <2>3
  <2>5. at[c] \in (i + 1)..at'[c]
    BY <1>1, <2>1, <2>4
  <2> QED
    BY <2>3, <2>5
<1>8. CASE ReceiveOther(c)
  <2>1. PICK m : Hear(c, m) /\ m.kind # "offer"
    BY <1>8 DEF ReceiveOther
  <2>2. at[c] + 1 \in DOMAIN log /\ log[at[c] + 1] = m /\ at'[c] = at[c] + 1 /\ log' = log
    BY <1>0, <1>1, <2>1, ReadNext
  <2>3. i <= at[c] /\ at'[c] \in Nat /\ at[c] <= at'[c]
    BY <1>1, <2>1, <2>2
  <2>4. stored'[c] = stored[c] /\ serving'[c] = serving[c]
    BY <1>8 DEF ReceiveOther, clientPcs
  <2> QED
    BY <1>2, <1>3, <2>3, <2>4
<1>9. CASE ClientLeaves(c)
  BY <1>0, <1>9 DEF ClientLeaves, DropTransport, PcsOK
<1>10. CASE stored'[c] = stored[c] /\ serving'[c] = serving[c] /\ at'[c] = at[c]
  <2>1. i <= at[c]
    BY <1>1, <1>10
  <2> QED
    BY <1>1, <1>2, <1>3, <1>10, <2>1
<1>11. CASE ClientCandidate(c) \/ \E h \in Hosts : ClientGathers(c, h)
  BY <1>10, <1>11 DEF ClientCandidate, ClientGathers, clientPcs, channel
<1> HIDE DEF Goal
<1>12. Goal
  BY <1>0, <1>4, <1>5, <1>6, <1>7, <1>8, <1>9, <1>10, <1>11, OtherClients DEF Goal
<1> QED
  BY <1>12 DEF Goal

\* The candidates a client's peer connections were given.
LEMMA AddedStep ==
    ASSUME TypeOK, [Next]_vars, NEW c \in Clients
    PROVE  \/ added'[c] = added[c]
           \/ ReceiveOther(c) /\ \E m : /\ Hear(c, m) /\ m.kind = "ice" /\ stored[c] # None
                                        /\ added'[c] = added[c] \cup {<<stored[c], m>>}
<1>0. IceOK /\ c \in Sessions /\ c \notin Hosts
  BY NoneApart DEF TypeOK, Sessions
<1>1. CASE ReceiveOther(c)
  BY <1>0, <1>1 DEF ReceiveOther, AddCandidate, IceOK
<1>2. ASSUME NEW s \in Sessions, \/ ConnectFails(s) \/ Join(s) \/ FindNoRoom(s)
                                 \/ CreateLate(s) \/ Subscribe(s) \/ ServerForgets(s)
      PROVE  added' = added
  BY <1>2 DEF ConnectFails, Join, FindNoRoom, CreateLate, Subscribe, ServerForgets, ice
<1>3. ASSUME NEW h \in Hosts, HostHears(h) PROVE added'[c] = added[c]
  <2>1. h # c
    BY <1>0
  <2> QED
    BY <1>0, <1>3, <2>1 DEF HostHears, AddCandidate, IceOK
<1>4. ASSUME NEW h \in Hosts, \/ CreateOffer(h) \/ SendOffer(h) \/ HostCandidate(h)
                              \/ HostCut(h) \/ HostExits(h)
      PROVE  added' = added
  BY <1>4 DEF CreateOffer, SendOffer, HostCandidate, HostCut, HostExits, ice
<1>5. ASSUME NEW d \in Clients, ReceiveOther(d), d # c PROVE added'[c] = added[c]
  BY <1>0, <1>5 DEF ReceiveOther, AddCandidate, IceOK
<1>6. ASSUME NEW d \in Clients, \/ ReceiveOffer(d) \/ OfferFails(d) \/ SendAnswer(d)
                                \/ ClientCandidate(d) \/ ClientLeaves(d)
      PROVE  added' = added
  BY <1>6 DEF ReceiveOffer, OfferFails, SendAnswer, ClientCandidate, ClientLeaves, ice
<1>7. ASSUME NEW d \in Clients, NEW h \in Hosts, \/ ClientGathers(d, h) \/ DataChannelOpens(d, h)
                                                 \/ ReaderStarts(d, h) \/ ReaderEnds(d, h)
      PROVE  added' = added
  BY <1>7 DEF ClientGathers, DataChannelOpens, ReaderStarts, ReaderEnds, ice
<1>8. UNCHANGED vars => added' = added
  BY DEF vars, ice
<1> QED
  BY <1>1, <1>2, <1>3, <1>4, <1>5, <1>6, <1>7, <1>8 DEF Next, Scheduled

\* A candidate of a host whose offer the client has read, while it keeps
\* another host's peer connection, does not come any more, unless one of the
\* two lost its role.
LEMMA NoStrayCandidate ==
    ASSUME Order, OldOffersAreOver, NEW c \in Clients, serving[c] = None,
           stored[c] \in Hosts, at[c] + 1 \in DOMAIN log,
           NEW h \in Hosts, h # stored[c], log[at[c] + 1].from = h, <<c, h>> \notin failed,
           h \notin evicted, stored[c] \notin evicted,
           NEW j \in 1..at[c], log[j] = OfferOf(h)
    PROVE  FALSE
<1>1. c \in Sessions /\ at[c] \in Nat /\ DOMAIN log = 1..Len(log) /\ Len(log) \in Nat /\ at[c] <= Len(log)
  BY DEF Order, TypeOK, ChannelOK, Sessions
<1>2. log[j].kind = "offer" /\ log[j].from = h
  BY DEF OfferOf
<1>3. h # None /\ stored[c] # None
  BY NoneApart
<1>4. PICK k \in (j + 1)..at[c] : log[k].from = stored[c]
  BY <1>2, <1>3 DEF OldOffersAreOver
<1>5. j \in DOMAIN log /\ k \in DOMAIN log /\ j < k /\ k < at[c] + 1
  BY <1>1, <1>4
<1>6. {log[j].from, log[k].from} \subseteq Hosts \ evicted /\ log[j].from # log[k].from
  BY <1>2, <1>4
<1>7. \A n \in DOMAIN log : k < n => log[n].from # log[j].from
  BY <1>5, <1>6 DEF Order, OneHostSpeaks
<1> QED
  BY <1>2, <1>5, <1>7

LEMMA FindsStep ==
    ASSUME Order, OldOffersAreOver, CandidateFindsItsPc, [Next]_vars
    PROVE  CandidateFindsItsPc'
<1> USE NoneApart
<1> SUFFICES ASSUME NEW c \in Clients, NEW x \in added'[c],
                    x[2].from \in Hosts, x[1] # x[2].from, <<c, x[2].from>> \notin failed',
                    x[2].from \notin evicted', x[1] \notin evicted'
             PROVE  \E i \in DOMAIN log' :
                        /\ log'[i] = x[2]
                        /\ \A j \in 1..i : log'[j] # [x[2] EXCEPT !.kind = "offer"]
  BY DEF CandidateFindsItsPc
<1>0. TypeOK /\ c \in Sessions
  BY DEF Order, Sessions
<1>3. \A h \in Hosts : h \in evicted => h \in evicted'
  BY <1>0, PlaceStep DEF Sessions, Placed
<1>1. CASE x \in added[c]
  <2>1. PICK i \in DOMAIN log :
             /\ log[i] = x[2]
             /\ \A j \in 1..i : log[j] # [x[2] EXCEPT !.kind = "offer"]
    <3>1. x[2].from \notin evicted
      BY <1>3
    <3>2. x[1] \in Hosts
      BY <1>0, <1>1 DEF TypeOK, IceOK
    <3>3. x[1] \notin evicted
      BY <1>3, <3>2
    <3> QED
      BY <1>1, <3>1, <3>3, FailedGrows DEF CandidateFindsItsPc
  <2>2. i \in DOMAIN log' /\ \A j \in 1..i : log'[j] = log[j]
    BY <1>0, LogKept
  <2>3. i \in 1..i
    BY <1>0, LogKept
  <2> QED
    BY <2>1, <2>2, <2>3
<1>2. ASSUME NEW m, ReceiveOther(c), Hear(c, m), m.kind = "ice", stored[c] # None, x = <<stored[c], m>>
      PROVE  \E i \in DOMAIN log' :
                 /\ log'[i] = x[2]
                 /\ \A j \in 1..i : log'[j] # [x[2] EXCEPT !.kind = "offer"]
  <2>1. /\ at[c] \in Nat /\ at[c] + 1 \in DOMAIN log /\ log[at[c] + 1] = m /\ log' = log
    BY <1>0, <1>2, ReadNext
  <2>2. m \in Message /\ m.from \in Hosts /\ m.pc = m.from /\ stored[c] \in Hosts /\ stored[c] # m.from
    <3>1. m \in Message
      BY <1>0, <1>2, HearTyped
    <3>2. m.from \in Hosts /\ stored[c] # m.from
      BY <1>2
    <3>3. m.pc = m.from
      BY <2>1, <3>2 DEF Order, NamesOwn
    <3>4. stored[c] \in Hosts
      BY <1>0, <1>2 DEF TypeOK, PcsOK
    <3> QED
      BY <3>1, <3>2, <3>3, <3>4
  <2>6. m.from \notin evicted /\ stored[c] \notin evicted
    BY <1>2, <1>3, <2>2
  <2>3. [m EXCEPT !.kind = "offer"] = OfferOf(m.from)
    BY <2>2 DEF Message, OfferOf
  <2>4. serving[c] = None /\ <<c, m.from>> \notin failed
    BY <1>0, <1>2, FailedGrows DEF ReceiveOther, TypeOK, ServingOK
  <2>5. ASSUME NEW j \in 1..(at[c] + 1), log[j] = OfferOf(m.from) PROVE FALSE
    <3>1. j # at[c] + 1
      BY <1>2, <2>1, <2>5 DEF OfferOf
    <3>2. j \in 1..at[c]
      BY <2>1, <3>1
    <3> QED
      BY <2>1, <2>2, <2>4, <2>5, <2>6, <3>2, NoStrayCandidate
  <2> QED
    BY <1>2, <2>1, <2>3, <2>5
<1> QED
  BY <1>0, <1>1, <1>2, AddedStep

LEMMA CandStep == CandInv /\ [Next]_vars => CandInv'
<1> SUFFICES ASSUME CandInv, [Next]_vars PROVE CandInv'
  OBVIOUS
<1>0. /\ Order /\ KeptIsAnswered /\ QueueIsAnswered /\ IceFollowsAnswers
      /\ AnswersAreTaken /\ OldOffersAreOver
      /\ ClientCandidatesArrive /\ CandidateFindsItsPc
  BY DEF CandInv
<1>1. Order'
  BY <1>0, OrderStep
<1>2. KeptIsAnswered' /\ QueueIsAnswered' /\ IceFollowsAnswers'
  BY <1>0, KeptStep, QueueStep, IceStep
<1>3. AnswersAreTaken' /\ ClientCandidatesArrive'
  BY <1>0, TakenStep, ArriveStep
<1>4. OldOffersAreOver' /\ CandidateFindsItsPc'
  BY <1>0, OldOffersStep, FindsStep
<1> QED
  BY <1>1, <1>2, <1>3, <1>4 DEF CandInv

\* The order between messages on which the candidates depend: answers follow
\* the offers they answer, a client's candidates its answers, and of two hosts
\* that speak, none of which lost its role to a late creator, the first has
\* fallen silent before the second begins.
THEOREM MessagesKeepOrder == Spec => []CandInv
  BY CandInit, CandStep, PTL DEF Spec

\* A client's candidate finds the host's peer connection ready for it, and a
\* host's candidate that comes after its offer goes to no other host's peer
\* connection, for any number of sessions that follow one another.
THEOREM CandidatesArrive == Spec => []CandidatesReachTheirPc
<1>1. CandInv => CandidatesReachTheirPc
  BY DEF CandInv, CandidatesReachTheirPc
<1> QED
  BY <1>1, MessagesKeepOrder, PTL
=============================================================================
