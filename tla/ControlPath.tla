---------------------------- MODULE ControlPath ----------------------------
(***************************************************************************)
(* Control commands from client to host (client/src/control.rs,            *)
(* host/src/control.rs, run_dc_event_loop of host/src/webrtc_transport.rs).*)
(*                                                                         *)
(* The client's ControlSender has two ways: send puts a command into a     *)
(* buffer that keeps the three latest, and paces its callers by sleeping   *)
(* with the buffer's lock held; nothing takes commands out of that buffer. *)
(* send_via_dc signs a command and gives it to the data channel, which is  *)
(* unordered and does not retransmit.  The host checks the signature,      *)
(* parses, and keeps the latest frames in a buffer of its own, out of      *)
(* which the program takes nothing either.                                 *)
(***************************************************************************)
EXTENDS Naturals, FiniteSets, Sequences

CONSTANTS
    Callers,     \* tasks that call send
    Nobody,      \* the buffer's lock is free
    Depth,       \* frames a buffer keeps, 3 in the code
    MaxCommands  \* bound: commands, by their order

ASSUME ControlConstantsOK == Depth \in Nat \ {0} /\ MaxCommands \in Nat /\ Nobody \notin Callers

VARIABLES
    holder,     \* who has the lock of ControlSender's buffer
    asleep,     \* callers that have put a command in and wait for the interval to pass
    outbox,     \* ControlSender's buffer
    commands,   \* commands made so far
    underWay,       \* commands on the data channel
    frames,     \* ControlHandler's buffer
    dropped,    \* frames_dropped
    accepted,   \* history: frames the host accepted, in order
    sent        \* history: commands put into outbox, in order

controlVars == <<holder, asleep, outbox, commands, underWay, frames, dropped, accepted, sent>>

Kind == {"steering", "emergency"}
Command == [n : 1..MaxCommands, kind : Kind]

ControlTypeOK ==
    /\ holder \in Callers \cup {Nobody} /\ asleep \subseteq Callers
    /\ outbox \in Seq(Command) /\ sent \in Seq(Command)
    /\ commands \in 0..MaxCommands /\ underWay \subseteq Command
    /\ frames \in Seq(Command) /\ accepted \in Seq(Command) /\ dropped \in Nat

Silent ==
    /\ holder = Nobody /\ asleep = {} /\ outbox = <<>> /\ commands = 0 /\ underWay = {}
    /\ frames = <<>> /\ dropped = 0 /\ accepted = <<>> /\ sent = <<>>

\* Mutation: a full buffer refuses the newest.
NewestDropped(buffer, x) == IF Len(buffer) >= Depth THEN buffer ELSE Append(buffer, x)

\* Both buffers make room by dropping the oldest.
Enqueued(buffer, x) == Append(IF Len(buffer) >= Depth THEN Tail(buffer) ELSE buffer, x)

\* Mutation: the lock is let go before the pause.
LetGo(c) == Nobody

HolderAsleep(c) == c

\* ControlSender::send, up to the pause: the lock stays held.
Send(c, k) ==
    /\ holder = Nobody /\ c \notin asleep /\ commands < MaxCommands
    /\ commands' = commands + 1
    /\ LET x == [n |-> commands + 1, kind |-> k]
       IN  outbox' = Enqueued(outbox, x) /\ sent' = Append(sent, x)
    /\ holder' = HolderAsleep(c) /\ asleep' = asleep \cup {c}
    /\ UNCHANGED <<underWay, frames, dropped, accepted>>

Wake(c) ==
    /\ c \in asleep /\ asleep' = asleep \ {c}
    /\ holder' = IF holder = c THEN Nobody ELSE holder
    /\ UNCHANGED <<outbox, commands, underWay, frames, dropped, accepted, sent>>

SendViaDc(k) ==
    /\ commands < MaxCommands /\ commands' = commands + 1
    /\ underWay' = underWay \cup {[n |-> commands + 1, kind |-> k]}
    /\ UNCHANGED <<holder, asleep, outbox, frames, dropped, accepted, sent>>

Lose(x) ==
    /\ x \in underWay /\ underWay' = underWay \ {x}
    /\ UNCHANGED <<holder, asleep, outbox, commands, frames, dropped, accepted, sent>>

\* parse_and_validate: both sides use one key, and the signature covers the body;
\* but the body of an emergency stop is no frame the host knows, nor JSON at all.
Parses(x) == x.kind # "emergency"

Receive(x) ==
    /\ x \in underWay /\ underWay' = underWay \ {x}
    /\ IF Parses(x)
         THEN /\ dropped' = IF Len(frames) >= Depth THEN dropped + 1 ELSE dropped
              /\ frames' = Enqueued(frames, x)
              /\ accepted' = Append(accepted, x)
         ELSE UNCHANGED <<frames, dropped, accepted>>
    /\ UNCHANGED <<holder, asleep, outbox, commands, sent>>

ControlInit == Silent
ControlNext ==
    \/ \E k \in Kind : SendViaDc(k) \/ \E c \in Callers : Send(c, k)
    \/ \E c \in Callers : Wake(c)
    \/ \E x \in underWay : Lose(x) \/ Receive(x)
ControlSpec == ControlInit /\ [][ControlNext]_controlVars

-----------------------------------------------------------------------------
Latest(events) == SubSeq(events, IF Len(events) > Depth THEN Len(events) - Depth + 1 ELSE 1, Len(events))

\* Each buffer holds the latest of what was put into it, in order, and
\* frames_dropped accounts for all the rest, however long nobody reads.
BuffersHoldTheLatest ==
    /\ frames = Latest(accepted) /\ dropped + Len(frames) = Len(accepted)
    /\ outbox = Latest(sent)

\* "Rate-limited by rate_hz" (client/src/control.rs:73) holds for all callers
\* together: no command is put in before the pause after the last has passed,
\* because that pause is made with the lock held.
OneCommandPerInterval == Cardinality(asleep) <= 1

\* Commands neither pile up nor go astray: each buffer holds the latest of what
\* was put into it, and callers of send put in one command per interval.
CommandsArePaced == BuffersHoldTheLatest /\ OneCommandPerInterval
=============================================================================
