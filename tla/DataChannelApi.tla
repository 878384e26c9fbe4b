-------------------------- MODULE DataChannelApi --------------------------
(***************************************************************************)
(* The events of a data channel: spool() of webrtc/src/data_channel.rs and *)
(* its backends.  With webrtc-rs each spool registers handlers for open,   *)
(* close, message and error, one after the other, each in place of an      *)
(* earlier one.  All four send into an unbounded queue of that spool; a    *)
(* loop like the client's takes the events out until it hears Closed or    *)
(* the queue has no sender left.  A channel is cloned and shared, so that  *)
(* spools may overlap, and each kind of event may end up with another.     *)
(* webrtc-sys and the stub return a receiver that waits for ever.          *)
(***************************************************************************)
EXTENDS Naturals, Sequences, Subsequences

CONSTANTS
    MaxSpools,   \* bound: calls of spool
    MaxMessages  \* bound: messages the other side sends

ASSUME ChannelConstantsOK == MaxSpools \in Nat \ {0} /\ MaxMessages \in Nat

VARIABLES
    binding,    \* the backend; never changes
    state,      \* the channel's state (external)
    arrived,    \* messages that have arrived
    handlers,   \* for each kind of event the spool whose handler is registered,
                \* 0 for none
    onClose,    \* the spool whose handler was told of the close
    queue,      \* queue[s]: events that spool s has yet to give its loop
    loop,       \* loop[s]: the handler that spool s registers next, and then the
                \* loop that reads it
    got,        \* got[s]: messages that loop has taken
    span,       \* history: span[s]: how many messages had arrived when the
                \* message handler of s was registered and, if it was, replaced
    followed    \* history: spools that had returned when another one began

spoolHistory == <<span, followed>>
channelVars == <<binding, state, arrived, handlers, onClose, queue, loop, got, spoolHistory>>

Spools == 1..MaxSpools
Message(n) == <<"message", n>>
Opened == <<"open", 0>>
Ended == <<"closed", 0>>
Messages == {Message(n) : n \in 1..MaxMessages}
Event == {Opened, Ended} \cup Messages

ChannelTypeOK ==
    /\ binding \in {"rs", "sys", "stub"}
    /\ state \in {"connecting", "open", "closed"}
    /\ arrived \in 0..MaxMessages
    /\ handlers \in [open : 0..MaxSpools, close : 0..MaxSpools,
                     message : 0..MaxSpools, error : 0..MaxSpools]
    /\ queue \in [Spools -> Seq(Event)]
    /\ loop \in [Spools -> {"none", "open", "close", "message", "error", "waiting", "ended"}]
    /\ got \in [Spools -> Seq(Messages)]
    /\ span \in [Spools -> (0..MaxMessages) \X (0..MaxMessages)]
    /\ onClose \subseteq Spools /\ followed \subseteq Spools

Unspooled ==
    /\ state = "connecting" /\ arrived = 0 /\ onClose = {} /\ followed = {}
    /\ handlers = [open |-> 0, close |-> 0, message |-> 0, error |-> 0]
    /\ queue = [s \in Spools |-> <<>>] /\ loop = [s \in Spools |-> "none"]
    /\ got = [s \in Spools |-> <<>>] /\ span = [s \in Spools |-> <<0, 0>>]

\* A call of spool begins; the other backends return at once.
Spool(s) ==
    /\ \A t \in Spools : loop[t] = "none" <=> t >= s
    /\ loop' = [loop EXCEPT ![s] = IF binding = "rs" THEN "open" ELSE "waiting"]
    /\ followed' = followed \cup {t \in Spools : loop[t] = "waiting"}
    /\ UNCHANGED <<binding, state, arrived, handlers, onClose, queue, got, span>>

\* Mutation: a handler that is registered already is kept.
FirstStays(kind, s) == IF handlers[kind] = 0 THEN s ELSE handlers[kind]

\* The spool that is told of such events once s has registered its handler.
Registered(kind, s) == s

Registers(s, kind, next) ==
    /\ loop[s] = kind /\ loop' = [loop EXCEPT ![s] = next]
    /\ UNCHANGED <<binding, state, arrived, onClose, got, followed>>

\* on_open fires at once on a channel that is open, and is used up by that.
RegisterOpen(s) ==
    /\ Registers(s, "open", "close")
    /\ \/ /\ state = "open"
          /\ queue' = [queue EXCEPT ![s] = Append(@, Opened)]
          /\ handlers' = [handlers EXCEPT !.open = 0]
       \/ /\ state # "open" /\ UNCHANGED queue
          /\ handlers' = [handlers EXCEPT !.open = Registered("open", s)]
    /\ UNCHANGED span

RegisterClose(s) ==
    /\ Registers(s, "close", "message")
    /\ handlers' = [handlers EXCEPT !.close = Registered("close", s)]
    /\ UNCHANGED <<queue, span>>

RegisterMessage(s) ==
    /\ Registers(s, "message", "error")
    /\ handlers' = [handlers EXCEPT !.message = Registered("message", s)]
    /\ span' = [t \in Spools |->
                  IF t = s THEN <<arrived, MaxMessages>>
                  ELSE IF t = handlers.message THEN <<span[t][1], arrived>> ELSE span[t]]
    /\ UNCHANGED queue

\* With this spool returns and its loop begins to wait.
RegisterError(s) ==
    /\ Registers(s, "error", "waiting")
    /\ handlers' = [handlers EXCEPT !.error = Registered("error", s)]
    /\ UNCHANGED <<queue, span>>

Tell(kind, event) ==
    queue' = IF handlers[kind] = 0 THEN queue
             ELSE [queue EXCEPT ![handlers[kind]] = Append(@, event)]

Open ==
    /\ state = "connecting" /\ state' = "open"
    /\ Tell("open", Opened) /\ handlers' = [handlers EXCEPT !.open = 0]
    /\ UNCHANGED <<binding, arrived, onClose, loop, got, spoolHistory>>

\* A message that arrives before the first spool is nobody's.
Arrive ==
    /\ state = "open" /\ arrived < MaxMessages
    /\ arrived' = arrived + 1 /\ Tell("message", Message(arrived + 1))
    /\ UNCHANGED <<binding, state, handlers, onClose, loop, got, spoolHistory>>

\* Either side, or close() of the API.  Of a channel that never opened nothing
\* may be told.
Close ==
    /\ state # "closed" /\ state' = "closed"
    /\ \/ Tell("close", Ended) /\ onClose' = {handlers.close} \ {0}
       \/ state = "connecting" /\ UNCHANGED <<queue, onClose>>
    /\ UNCHANGED <<binding, arrived, handlers, loop, got, spoolHistory>>

\* recv: the next event, and Closed ends the loop.
Recv(s) ==
    /\ loop[s] = "waiting" /\ queue[s] # <<>>
    /\ queue' = [queue EXCEPT ![s] = Tail(@)]
    /\ LET event == Head(queue[s])
       IN  /\ loop' = [loop EXCEPT ![s] = IF event = Ended THEN "ended" ELSE @]
           /\ got' = [got EXCEPT ![s] = Joined(@, event, Messages)]
    /\ UNCHANGED <<binding, state, arrived, handlers, onClose, spoolHistory>>

\* Mutation: one handler of an earlier spool is not replaced and keeps a sender.
NeverOrphaned(s) == FALSE

\* A queue whose senders were all replaced gives None once it is empty.
Orphaned(s) == binding = "rs" /\ \A kind \in DOMAIN handlers : handlers[kind] # s

RecvNone(s) ==
    /\ loop[s] = "waiting" /\ queue[s] = <<>> /\ Orphaned(s)
    /\ loop' = [loop EXCEPT ![s] = "ended"]
    /\ UNCHANGED <<binding, state, arrived, handlers, onClose, queue, got, spoolHistory>>

SpoolGoesOn(s) == RegisterOpen(s) \/ RegisterClose(s) \/ RegisterMessage(s) \/ RegisterError(s)
LoopGoesOn(s) == Recv(s) \/ RecvNone(s)

ChannelInit == binding \in {"rs", "sys", "stub"} /\ Unspooled
ChannelNext ==
    \/ Open \/ Arrive \/ Close
    \/ \E s \in Spools : Spool(s) \/ SpoolGoesOn(s) \/ LoopGoesOn(s)
ChannelFair == \A s \in Spools : WF_channelVars(SpoolGoesOn(s) \/ LoopGoesOn(s))
ChannelSpec == ChannelInit /\ [][ChannelNext]_channelVars /\ ChannelFair

-----------------------------------------------------------------------------
\* The messages that arrived while the message handler of s was registered.
Due(s) ==
    LET last == IF span[s][2] < arrived THEN span[s][2] ELSE arrived
    IN  [i \in 1..(last - span[s][1]) |-> Message(span[s][1] + i)]

\* Each spool's loop is given exactly the messages that arrived while its
\* message handler was registered, in their order: however spools overlap, the
\* one that registers later takes over at once, with nothing lost, doubled or
\* moved between the two (WebrtcRsDc::spool).
SpoolsShareTheMessages ==
    binding = "rs" => \A s \in Spools : got[s] \o Within(queue[s], Messages) = Due(s)

\* With webrtc-rs a loop ends if its spool was told of the close, or another
\* spool began after its own had returned: that one replaces each handler that
\* keeps a sender alive, whatever spools overlap with it.  (Of two that overlap
\* one may keep a handler and the other be told of the close.)
EventLoopsEnd ==
    \A s \in Spools :
        (loop[s] = "waiting" /\ binding = "rs" /\ s \in onClose \cup followed) ~> (loop[s] = "ended")
=============================================================================
