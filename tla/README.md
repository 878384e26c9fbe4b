# OMSPBase: a TLA+ model of its signalling, media and control

OMSPBase is a platform for remote operation in Rust. A *host* (the machine with
the camera) and a *remote* client meet in a *room* of the *server*; the server
relays their WebRTC negotiation and, built with `sfu-mediasoup`, forwards their
media itself. Host and client run their media through the same `PipelineEngine`.

This directory holds TLA+ modules of the parts of that system whose correctness
depends on the order in which threads, tasks and messages take their turns, the
TLC configurations that check them on small instances, and proofs for TLAPS; and
of the pure parts whose addressing is easy to get wrong (planes of pictures,
patterns, overlays) or whose arithmetic has a width.

    tlc  -workers 2 -config MCRooms.cfg MCRooms     # model-check one run
    tlapm SignalingProofs.tla                       # check one module's proofs

Paths below are relative to `src/crates/`; `room.rs:55` is a line of the file
named in the section.

## 1. Inventory

| Component | State it keeps | Operations | Talks to | What is hard |
|---|---|---|---|---|
| Room registry `omspbase-server/src/room.rs` | map room id -> (host, remote) | `join_room`, `leave_room` | called by every connection's handler | each call locks the map several times |
| Signalling `omspbase-server/src/signaling.rs` | a bounded broadcast channel per room; per connection a handler and a relay task | authenticate, join, relay, leave | registry, SFU, clients | interleaving, lag of the channel, ends of connections |
| SFU `omspbase-server/src/sfu.rs` | map room id -> (router, peers' transports, producers, consumers) | create transport, producer, consumer; remove peer, room | called by the handlers; mediasoup | locks held across `await`, state read before an `await` and used after it |
| Pipeline engine `omspbase-media/src/engine.rs` | chains, running flag, shutdown signal, tasks | `add_chain`, `remove_chain`, `start`, `stop` | host and client | calls that lock several times, tasks that outlive them |
| Frame generator `omspbase-media/src/pipeline/generator/mod.rs` | flag, thread handle, sinks | `start`, `stop`, sinks | sinks called from its thread | a flag outside the lock |
| Sink wants `omspbase-media/src/pipeline/broadcaster.rs` | sinks with their wants, a counter of ids | add, remove, deliver; aggregate | sources | registration in two steps, u32 arithmetic |
| Broadcast node `omspbase-media/src/pipeline/broadcast.rs` | a broadcaster per source and track, subscribers | get or create, remove, emit, subscribe, poll | sources, sinks | lag; a broadcaster that was replaced |
| Frame buffers and conversion `omspbase-media/src/base/buffer.rs`, `backend` | three planes with strides | convert, scale, crop, rotate, mirror, in two backends | viewer, generator | chroma of odd sizes, halved corners |
| Patterns and overlay `omspbase-media/src/pipeline/generator` | squares with place and speed | draw a frame, put text over it | generator | luma and chroma painted by separate loops |
| Media plugins `omspbase-media/src/plugin.rs` | factories by name | register, create | engine | none: sequential |
| Host `omspbase-host/src` | WebSocket, peer connection, queue of 4 frames | connect with retries, offer, answer, ICE, send frames | server, client | lost and reordered messages, a full queue |
| Host session and start-up `omspbase-host/src/session.rs`, `main.rs`, `emergency.rs` | the session file, a port, the emergency listener | load, save every 10 s, bind, retry, stop | disk, server | a crash inside a write, two processes |
| Control `omspbase-host/src/control.rs`, `omspbase-client/src/control.rs` | a buffer of 3 on each side, a drop counter | send with pacing, send on the data channel, verify, enqueue | each other | a full buffer, a lock kept while asleep, loss |
| Client `omspbase-client/src` | WebSocket, peer connection, data-channel reader, queue of 10 frames | join, answer, ICE, receive frames | server, host | callbacks that overlap, ICE before SDP |
| WebRTC crate `omspbase-webrtc/src` | a connection's track table, an encoder per sender, a decode pipeline per remote track, handlers of a channel | a facade over two WebRTC stacks and a stub | host, client, codec crate | locks taken several times in a call, events before a handler is there |
| Codec crate `omspbase-codec/src` | encoder and decoder contexts, a packet buffer | push, pull | FFmpeg, GStreamer | output that comes late and is popped from the end |
| Common `omspbase-common/src` | message types, errors, configuration, PSK, metrics | serialise, sign | everybody | none of its own |
| Monitor, relay, `main.rs` of the server | counters | HTTP status | registry | read only |

What makes each of them correct, and the places where it could fail, is listed
in `PROJECT.json` under `hazards`; the properties below were chosen from it.

## 2. Modules

| Module | Models | Remarks |
|---|---|---|
| `RoomSlots` | what the registry promises: a table of slots, each free or taken | abstract specification |
| `Rooms` | `room.rs` | implements `RoomSlots` |
| `RoomRelay` | what the relay promises: ordered delivery within a room, at most once, with a window | abstract specification |
| `Signaling` | `handle_socket` and its relay task in `signaling.rs` | EXTENDS `Rooms`: a handler's calls are that module's actions; implements `RoomRelay` |
| `SignalingProofs` | theorems about `Rooms` and `Signaling` | TLAPS |
| `Sfu` | `sfu.rs` and the calls `signaling.rs` makes to it | one room |
| `SfuProofs` | theorems about `Sfu` | TLAPS |
| `Negotiation` | host and client around the relay: `main.rs`, `signaling.rs`, `webrtc_transport.rs` of `omspbase-host` and `omspbase-client` | the server is abstracted to what `Rooms` and `Signaling` show of it |
| `NegotiationProofs` | theorems about `Negotiation` | TLAPS |
| `CaptureSource` | `GstCaptureSource` and the scan for NAL units in `omspbase-host/src/engine_adapters.rs` | operators and one action |
| `LossyChannel` | what the way of a frame promises: nothing invented, nothing shown twice | abstract specification |
| `MediaPath` | frames from the host's capture chain to the client's receive chain: `engine_adapters.rs` and `webrtc_transport.rs` of both, the client's `signaling.rs` | implements `LossyChannel` |
| `PipelineEngine` | `engine.rs` | |
| `FrameGenerator` | `pipeline/generator/mod.rs` | |
| `PictureProofs` | theorems about `FrameGenerator` and `Workbench` | TLAPS |
| `ColourProofs` | that colour stays in place in `Workbench` | TLAPS |
| `FrameOps` | `base/buffer.rs`, `backend/native.rs`, `backend/libyuv.rs` | operators only |
| `Patterns` | `squares.rs`, `smpte_bars.rs`, `timestamp.rs`, `fonts/` of the generator | operators; EXTENDS `FrameOps` |
| `Workbench` | who uses them: the library's callers, the squares pattern, `examples/viewer.rs` | EXTENDS `Patterns` |
| `TrackWriter` | `TrackSender::write_raw_i420` of `omspbase-webrtc` with the encoder it drives | |
| `TrackReader` | remote tracks: `set_on_track`, `run_decode_pipeline`, frame sinks | |
| `DataChannelApi` | `spool` and the event loops on it | |
| `PeerCalls` | descriptions, the signalling state as it is reported, the track table | |
| `SinkWants` | `pipeline/broadcaster.rs` | |
| `FragmentStreams` | `pipeline/broadcast.rs` | |
| `HostSession` | `session.rs`, `emergency.rs` and the start of `main.rs` of the host | |
| `ControlPath` | both `control.rs` and the host's data-channel loop | |
| `Subsequences` | the elements of a sequence that are in a set | used by `MediaPath`, `DataChannelApi`, `TrackReader` |
| `HostProofs` | theorems about `HostSession`, `MediaPath` and `ControlPath` | TLAPS |
| `FacadeProofs` | theorems about `PeerCalls`, `DataChannelApi`, `FragmentStreams`, `TrackWriter`, `TrackReader`, `SinkWants`, `CaptureSource` and `PipelineEngine` | TLAPS |
| `SequenceLemmas` | induction over the naturals, what `Subsequences` computes | TLAPS; extended by the two above |

`MCVideo`, `MCMedia` and `MCControl` put parts that do not touch one another's state into
one run: each behaviour is one of one part, chosen by `part`. The other `MC*` modules only
extend one of these for TLC (and define the symmetry of `Signaling` and `Negotiation`
and the start of the liveness run of `Signaling`); `MCVideo` also defines the small
pictures of `Workbench`.

### How state and actions correspond to the code

**Rooms.** `rooms` is the `DashMap`; `NoRoom` stands for an absent key. A call
is a process of its own between two accesses to the map. `join_room` is
`JoinTake` or `JoinRefused` where the lookup finds the room (the guard is held
to the end), else `JoinAbsent` (the lookup, room.rs:34) and later `JoinCreate`
(the insert, room.rs:55): `DashMap` is unlocked between the two. `leave_room` is
`LeaveClear` (71-79), `LeaveSweep` (81; `retain` locks one shard after the other,
so each room is a step, and `sweep` holds the rooms still to come) and
`LeaveCheck` (82), whose answer is `gone`. A connection has an id of its own
(a UUID), joins at most once and leaves at most once.

**Signaling.** `phase` is the place of a connection's `handle_socket`, `conn`
whether the client is still there, `log` the messages of a room's broadcast
channel, `pos` how far a receiver has read, `relay` its relay task, `out` the
last message it wrote. The channel keeps the last `Capacity` messages (4096 in the
code): `RelayLagged` moves a slow receiver to the oldest kept one. A task is aborted in
`Disconnected` or `ForwardLeave` and dropped where it next awaits (`RelayDropped`): it
may deliver one more message before. `Kinds` are the kinds of message as far as the handler
tells them apart: relayed (SDP, ICE, frames) or not.

**Sfu.** `room` is the map's entry for the one room, `lock` the connection that
keeps a shard guard across an `await`, `blocked` the tasks waiting for it. A
blocked task blocks its worker thread: `OnWorker` is the guard on every step of a
task. `Workers` is the size of the runtime's pool. Transports are recorded by
the router they were made on. mediasoup answers or fails (`CreateFailed` and the
failing disjuncts). `create_webrtc_transport` gets room and peer id from the client's
message (signaling.rs:348) while `remove_peer` is called with the connection's own
(signaling.rs:311), and nothing compares them: `name` is the id a running request
carries, any of `Names`, and `inside` are the connections whose own room this is; the others
reach it only by naming it. `admitted` is the registry's view, from which a late
creator (`Create`) takes those who came before it.

**Negotiation.** A session is one run of the host or client program; `stage` is
where it stands, from `down` (connecting) to `gone`. The host makes one peer
connection and sends one offer, so a client's peer connection is named by the
host session whose offer it answers. `stored`, `serving` and `open` are the one
the client's `WebrtcTransport` keeps, the one `handle_offer` is making, and those
not closed yet; `failed` those of a `handle_offer` that returned an error.
`remote[h]` is the answer the host's peer connection has taken; that it refuses a first answer,
which `main` logs and passes over (main.rs:198), is not modelled. The server is
reduced to `holder` (who has a role), `listening` (who is subscribed), `log` (the
channel) and `at` (how far each has read). A session joins where its role is free, and the role
stays taken until its handler has ended, as `RegistryFollowsHandler` of `Signaling` says;
or it finds no room (`FindNoRoom`, room.rs:34) and inserts one later (`CreateLate`,
room.rs:55), in place of any room made meanwhile. `creating` are those between the two
accesses, `evicted` the sessions that lost their role to such an insert. They are not
told: they go on to listen and to speak, on the same channel as their successor, since the
channel of a room is made once and never removed (signaling.rs:55). So two hosts, or two
clients, may be in the room at once, as the run `rooms_one_host` shows of the registry.
Every subscriber, the sender included, hears every message in order. Lag of the
channel is left to `Signaling`. The host's candidate callback shares the socket
with `main` and may overtake the offer; the client's goes through `iceQueue`, which
only the relay loop empties. `reader` is the task of a data channel and `dcTask`
the one handle the client keeps of them: two `on_data_channel` callbacks may
overlap, and the later one overwrites the earlier one's handle.

**CaptureSource.** A sample is what the encoder means (units, each behind a start code)
and `Bytes` is what the code gets; `Scan` is the loop over `scan_nal_header`, which three
functions share. `PollSample` is `poll_fragment` with a sample; without one it changes nothing.
The client's key-frame scan is the same code. `given` and `sent` are histories.

**MediaPath.** `sinkQueue` is the host's queue and `sending` what its drain task
holds; a full queue loses the new frame. `wire` is a set: the channel is unordered
and does not retransmit. At the client `events` is what the channel's callback has
queued, without bound, for `reader`. The reader and the relay loop are the two
`Senders` of `frameQueue`: `hand` is what one wants to send, `waiting` those who found
no room, in tokio's order, `granted` those who were promised a place (the permit of
`mpsc::Sender::send`). When the receive chain ends, its source and the queue go and
who waits gets an error. `arrived` is a history of what the client's end of the channel
was given; nothing in the model reads it.

**PipelineEngine.** An entry of `chains` has the part it was added with (`part`),
whether the source is still there (`fresh`) and whether a task handle is
(`handle`); `live[n]` counts tasks running part n, `aborted[n]` that one was
aborted. `EngineCallers` are threads; `enginePc`, `arg` and `todo` hold where a call stands.
`shutdown` is the value of the watch channel, which `SendShutdown` changes only
if a receiver exists, as tokio does.

**FrameGenerator.** `running` is the atomic flag, `handle` the contents of the
mutex `thread`, `starting` the caller inside `start` (which holds that mutex),
`drawing` the threads that found the flag up and are committed to one more frame,
`delivering` the generator thread that holds the sinks' mutex and `pending` the
sinks it has still to call. A new thread may die at once (`fps = 0` makes its frame
duration infinite, which panics); the flag then stays up.

**FrameOps, Patterns, Workbench.** A plane is a function from its indexes; its
sample is not a brightness but the set of points of the original scene that it
shows. So copying keeps a sample, averaging is a union, and what is checked is the
addressing of every loop. An index outside a plane does not vanish: a read gives
`Outside`, a write makes the plane too long, and `WellFormed` is false of both.
`Down` and `Up` are the two ways to halve a size (the Rust code rounds down, libyuv
up). A paint is a point of its own (`Bar(i)`, `Square(i)`, `Text`), so that one can
ask whether the chroma under it belongs to it. In `Workbench`, `app` says who
calls: a library caller that edits one picture `MaxEdits` times, the owner of the
squares pattern, or the viewer, whose buttons work on the original (`orig`).
`past` remembers odd sizes, sizes without chroma, scaling, overlays and bars or squares
too thin for a luma sample of their own, about which the properties promise less. `dead` is a panic of the Rust code, or memory that is not the
buffer's in libyuv's hands.

**TrackWriter.** `at[w]` is the place of a writer in `write_raw_i420`; each of its
places takes the encoder's lock anew. `stack` is what was built: the backend,
whether the sender has a track, whether the encoder is prompt, which writers share
a handle (a clone has an encoder of its own). `inside` is what an encoder is still
working on, `ready` its packet buffer, which `Pull` empties from the end.

**TrackReader.** `callback` is where `on_track` stands; `ReadPacket` is one turn of
the loop of `run_decode_pipeline`: an RTP packet, the reassembly in `auBuffer`, and
at the end of a unit `Feed`. `NativeFrame` is webrtc-sys, where libwebrtc decodes.
`fed`, `heard`, `watched` and `overtaken` are histories.

**DataChannelApi.** Each call of `spool` has a queue and a loop. With webrtc-rs it
registers four handlers one after the other (`RegisterOpen` to `RegisterError`); nothing
keeps a second call, on a clone of the channel, from doing so in between. `handlers` is, for
each kind of event, the spool whose handler is registered, `onClose` the one that was told
of the close. A handler for open is used up by the one call it gets. `followed` are
the spools that had returned when another began.

**PeerCalls.** `sig` is the stack's W3C state (external), `Reported` what
`signaling_state` makes of it. A description that webrtc-rs does not know never
reaches the stack (`Reaches`).

**SinkWants.** `add_or_update_sink` is `TakeId` (the atomic counter) and `PushSink`
(the lock). `Aggregated` is `wants()` with `Width` in place of 2^32.

**FragmentStreams.** `registry` is the broadcaster of one key, `holds` who has one,
`cursor` a subscriber with what it has read. A channel keeps `Kept` packets (1024).

**HostSession.** Files are inodes, since a rename moves one that another process
may still be writing to: `tmp` and `file` are what the two names refer to. `Torn` is
a file that does not parse. A save is `BeginWrite` (truncates), `EndWrite`, `Rename`;
`Tick` is ten seconds, `Stale` the age from which `load` ignores the file. An attempt to
connect is `Attempt` and, when the server answers or the connection breaks, `Connect` or
`ConnectFails`; in between the process is `awaiting`, with no timeout. `Crash`
ends a process anywhere, with its port, its tasks and its open files.

**ControlPath.** `Send` is `ControlSender::send` up to its sleep, with the lock in
`holder`; `SendViaDc` puts a command on `underWay`, a set because the channel is
unordered and does not retransmit. `Arrive` is the host's check, parse and
enqueue. An emergency stop is a command that `Parses` refuses.

## 3. Runs

| Run | Instance | Shows |
|---|---|---|
| `rooms` | 3 peers, 2 rooms | `EmptyRoomIsBeingSwept`, `RemovalIsReported`, `OnlyLateCreatorEvicts`, the refinement of `RoomSlots`, `RoomReclaimed` |
| `rooms_one_host` | 3 peers, 1 room | **violated**: two hosts in one room |
| `signaling` | 2 connections, a key, capacity 2, one message each | `TeardownIsComplete`, the refinement of `RoomRelay` |
| `signaling_live` | 2 connections, one of them a host (the roles are alike), capacity 1 | `DeparturesAreCompleted` |
| `sfu` | 2 connections, 3 peer ids, 2 workers, 2 calls each | `DeparturesLeaveNothing`, `StoredIsKept`, `CallsFinish` |
| `negotiation` | 2 host sessions, 1 client session, 2 attempts, no candidates | `NoOpenPcIsForgotten`, `OfferIsAnswered`, `NothingOutlivesSignalling` |
| `negotiation_ice` | the same sessions, 1 attempt, 1 candidate | `CandidatesReachTheirPc` |
| `media_path` | queues of one, 3 captured and 2 relayed frames | `ClientKeepsOrder`, the refinement of `LossyChannel`, `NobodyIsStuck` |
| `media` | the engine: 2 callers, 2 ids, 3 adds; the generator: 2 callers, 3 threads, 2 sinks | `TaskIsReachable`, `NoTwinTasks`, `ShutdownDrains`; `ThreadIsTracked`, `StoppedIsStopped`, `RemovedSinkIsQuiet`, `StopReturns` |
| `video` | 2 writers, 4 frames; 3 units; 2 callers; 3 sinks; 2 subscribers; samples of 3 units; pictures of 4x4, 6x4, 2x2, 5x3 and 1x2 with two edits, two squares, a viewer of 8x4 | `FramesReachTheTrack`, `UnitsAreShown`, `FramesAreDescribed`, `ReportHidesOneState`, `WantsHonourEverySink`, `StreamsKeepOrder`, `OnlyOddOrSmallPicturesFail`, `ColourStaysInPlace`, `TransformsUndoEachOther`, `SquaresMoveSteadily` |
| `channel` | 3 spools, 2 messages | `SpoolsShareTheMessages`, `EventLoopsEnd` |
| `control` | 2 processes, 2 sessions, 2 attempts; 2 callers, 4 commands | `SessionSurvives`, `StartEnds`, `CommandsArePaced` |

Several properties are conjunctions of named parts: `TeardownIsComplete` of
`RegistryFollowsHandler` and `ServerAnnouncesAfterLeaving`, `CandidatesReachTheirPc`
of `ClientCandidatesArrive` and `CandidateFindsItsPc`, `ColourStaysInPlace` of
`ChromaStaysWithLuma` and `TextHasNoColour`, `FramesReachTheTrack` of
`FramesAreConserved` and `LoneWriterKeepsOrder`, `SessionSurvives` of `TornOnlyByTwo`
and `HostStaysOnFile`, `CommandsArePaced` of `BuffersHoldTheLatest` and
`OneCommandPerInterval`, `FramesAreDescribed` of `UnitsAreFound` and
`SetsGoWithTheirFrame`, `UnitsAreShown` of `DamageStaysInOneUnit`
and `WholeUnitIsShown`. Each module has a type invariant of its own; those with proofs
are proved, the others were checked by TLC and are not part of a run.

### Bounds

Three peers are a late creator, the peer it evicts and a bystander; two rooms let
a sweep begun in one meet the other. Two connections with one message each, a
client's own leave and the server's farewells put up to six messages on a
channel that keeps two, so every kind of lag happens. In `Sfu`, two calls are
a transport and the producer or consumer that depends on it; the third peer id is one
that no connection has, as tests/e2e_sfu.rs:69 sends "host", and the two connections
may be of this room or of another. In `Negotiation`, two host sessions let a client replace its
peer connection while messages and readers of the first are still under way, and
let the second host read the tail of the first one's exchange, after it or, as a late
creator of the room, beside it. `MaxRetries` is 2 instead of 5, enough for a failure
that is tried again and one that is final. The one candidate of `negotiation_ice`
(`MaxIce`) may be anybody's; that run has one attempt, since a session that failed to join
has no candidates. In `MediaPath` three captured frames fill
the host's queue, its drain task and one place more, so that a frame is lost; at the
client, two senders share one place, so that either may have to wait for the other
and for the chain, and both orders of waiting occur. In `CaptureSource` three units have
a first, an inner and a last one; payloads look like headers and start codes, one unit is
a single byte, and sets come with a frame or before it.
In `PipelineEngine`, three adds let one id be used, removed
and used again while another lives; in `FrameGenerator` three threads are an old
one, its successor and a later one. The bounds `MaxSends`, `MaxCalls`, `MaxAdds`,
`MaxThreads` and `MaxSinks` stop a process from beginning something new, never from finishing
what it began; so do `MaxFrames` and `MaxRelayed`. `SinkCap` and `FrameCap`, the sizes of
the two queues, are 4 and 10 in the code and 1 in the run.

In `Workbench` one picture has sizes divisible by four, one is even but not
divisible by four (so a quarter has an odd side), one is narrower than the three bars
(so that a bar has chroma and no luma), one is odd both ways and one has no chroma; two
edits are
enough for any pair of transforms, and each is checked against its inverse at every
picture reached. Glyphs are two by two and bars three, so that a frame of 4x4 clips
both. In `TrackWriter` four frames let a late encoder hold two while two writers
overlap; in `TrackReader` three units, one of a single packet, let a loss in one meet
the start of the next. Three spools are two that overlap and one before, between or
after them; two messages are enough to divide them between spools and to swap them. `Width` is 16: three sinks with alignments 4 and 6 and limits 5 make the
product wrap in the wrong order of operations and not in the code's. `Kept` is 2 of 4
packets, so that a subscriber can lag twice in one poll. In `HostSession` two
processes and two sessions are the host, the one started by mistake, and the
session it may make up; `Stale` is two ticks (six in the code), so that a file whose
owner stopped writing becomes too old. `Depth` is the code's 3 and four commands
overflow it.

Runs turn TLC's deadlock check off: when all connections have come
and gone, or the bounds are used up, the model has nothing left to do.

### Fairness

Weak fairness of what a scheduler runs: a connection's handler and relay task,
the steps of a call that has begun, an OS thread. Clients and callers are never
fair: nobody has to join, speak, leave, start or stop. In `Negotiation` a session
reads what is on its channel and a client that makes a peer connection answers or
fails; nobody has to join, offer, find a candidate or stay. In `MediaPath` the tasks
run; frames need not come or arrive, and neither chain has to end; `DrainSends`
assumes that a send on a data channel returns. `CallsFinish`
assumes that mediasoup answers. In `HostSession` a process that has loaded
its session goes on with its start (it may crash instead; nobody has to start it): it
binds, begins its attempts and gives up after the last. An attempt itself is not fair: it
waits for the server's handshake and two answers without a timeout (host signaling.rs:55,
67 and 112, main.rs:142), and the server owes none. In `DataChannelApi` a `spool` that has
begun registers its handlers, and a loop that has an event, or no sender left, takes it:
neither waits for anybody. `DeparturesAreCompleted` assumes that a client which is
connected reads its socket, so that a relay task's send returns. The fairness of `Sfu`'s
tasks includes a free worker: with `Workers` smaller than the number of
peers `CallsFinish` fails, because every worker may be waiting for a lock whose
holder needs a worker to go on.

### Where the code and its comments disagree

`AtMostOnePeerPerRole` is violated: `join_room` looks the room up and inserts it in
two steps (room.rs:34 and 55); the second of two first joiners replaces the first
one's room, although room.rs:7 promises "at most one Host and one Remote peer". The passing
run states what holds in spite of it: only such a late creator can evict a peer
(`OnlyLateCreatorEvicts`), never a sweep.

These were met while modelling, and the modules have them as the code does:

* Server: two peers may each insert a router for one room, as above
  (`Sfu`: the first is orphaned). signaling.rs:308 says "Clean up SFU resources for the
  disconnecting peer" and removes the entry under the connection's id, while its transports
  are stored under the id it sent: `DeparturesLeaveNothing` has such a request as the one
  source of entries that stay until the room goes, and, from a connection of another
  room, of rooms that stay for ever. Engine: `stop`'s signal is lost on a task that has not
  subscribed yet; `shutdown` must therefore stay set (`ShutdownDrains`). Generator: a
  `start` during `stop` may leave the old thread and a new one running together.
* Host: a server that accepts a connection and says nothing holds the start for ever
  (`StartEnds` has it as the one way not to end). The capture source passes its parameter sets on as `init_data` and the sink
  throws them away (engine_adapters.rs:310): a client gets them only in the sample they came in,
  over a channel that does not retransmit. Two comments (engine_adapters.rs:260 and
  :314) say "drop oldest frame" where `try_send` on a full queue drops the new one (`MediaPath`
  has the code's behaviour). STOP ends the task that waits for it and nothing else, though emergency.rs:3
  says that it triggers a shutdown. The client's emergency stop is a body with doubled
  braces and a type the host's parser does not know, though control.rs:121 says that it
  matches the host's format. `rate_hz = 0` divides by zero in the client's `ControlSender`.
  A session's id is always "unknown" and its room empty. Two processes share one temporary
  file because the port is checked after the persistence task has started.
* WebRTC crate: `register_track` keeps the trait's default, which does nothing, in every
  backend, though backend/mod.rs:52 says what it is for. backend/mod.rs:86 notes that
  `write_raw_i420` does nothing in webrtc-rs, which has an encoder for it (`TrackWriter`). webrtc-rs reports `Stable` for a
  connection with an offer to answer. A sink set after `on_track` returned is never served
  with webrtc-sys. What arrives on a channel before the first `spool` is lost. Of two
  calls of `spool` that overlap, one may keep a handler and the other be told of the close:
  the loop of the first then waits for ever, unless another `spool` follows
  (`EventLoopsEnd` says which loops end). With webrtc-sys and the stub every loop does. Two first
  calls of `write_raw_i420` both make an encoder, and the later one replaces the earlier
  with the frame in it.
* Media: `poll_fragment` says "retry for latest" (broadcast.rs:97) and goes on at the oldest
  kept packet. `add_or_update_sink` never updates; sink.rs:33 promises dynamic
  backpressure but `send_frame` throws the sinks' answers away, and the first sink that
  fails ends the delivery. libyuv's chroma sizes round up where the buffers round down.
  The viewer's centre crop underflows for an image smaller than its window, its own
  fallback picture (320x240) included. An overlay at an odd anchor leaves colour at its edge.
  A picture of one column or row has no chroma, which scaling it up (native.rs:84,
  buffer.rs:96) and painting on it read or write all the same, and panic.

## 4. Proofs

Each module of theorems says of one part, for every value of its constants, what the
runs show for small ones. The assumptions are the named `ASSUME`s of the modules: that
bounds are naturals, capacities and sizes are not zero where the code's are not,
and null values are not members of the sets they are null for. No theorem assumes more.

**`SignalingProofs`**, the registry, for any finite or infinite set of peers and rooms,
under `ConstantsOK`:

* `TypeCorrect`, `OccupantCorrect`, `NoLeakedRoom`, `RemovalReported` - typing and the
  invariants `OccupantIsAdmitted`, `EmptyRoomIsBeingSwept`, `RemovalIsReported`;
* `EvictionByCreatorOnly` - the action property `OnlyLateCreatorEvicts`;
* `Refinement` - `Spec => RefinesRoomSlots`.

The argument: `TypeOK` is inductive. Under it `OccupantIsAdmitted` is inductive:
the only steps that put a peer into a slot also admit it, and the step that ends
the admission (`LeaveClear`) clears every slot of the peer. `EmptyRoomIsBeingSwept`
needs both: a room becomes empty only in `LeaveClear`, whose peer then has every
room to sweep, and a sweep that passes an empty room removes it.
`RemovalIsReported` is proved from the fact that when nobody of a room is left
mid-way the room is gone (`NobodyMeansNoRoom`), so the last to check finds it gone.
Eviction and refinement are proved action by action from the first two.

The server, for any connections, rooms, channel capacity and kinds of message, under
`SignalingConstantsOK`:

* `ServerDrivesRegistry` - the server's steps are calls of the registry or leave it
  alone, so that every theorem about `Rooms` holds of a running server
  (`RegistryUnderServer`);
* `SigTypeCorrect`, and `TeardownCorrect` (`TeardownIsComplete`);
* `RelayRefinement` - `SigSpec => RefinesRoomRelay`.

`HandlerAgrees` is the strengthening: for every place of `handle_socket` the stages of
the registry in which a connection may be then, and that a relay task exists only from
the forward loop on. It gives the first half of the teardown directly. The second
half needs that nobody who has left comes back (`JoinMoves`, `LeaveMoves`) and that a
channel only gains the message that is broadcast (`BroadcastSays`). In the refinement a
handler's way to the forward loop is invisible, `Subscribe` is `Attach`, a broadcast with
a receiver is `Say` and the last one `LastWord`; a relay task that still delivers must
belong to a peer that has attached, which is `HandlerAgrees` again.

**`SfuProofs`**, under `SfuConstantsOK`, for any connections and any number of workers:
`SfuTypes` (`TypeOK`), `SfuReclaims` (`DeparturesLeaveNothing`) and `SfuKeepsStored`
(`StoredIsKept`). All follow from `SfuInv`: whoever awaits mediasoup inside the map holds
the lock, alone, and the entry it looked up is still there (`HeldAcrossAwait`); a running
request knows its peer id and its producer (`NamesAreKnown`); the registry gives up a
connection no later than its `leave_room` (`AdmittedAreServed`). `RoomMoves` says once
what a step can do to the room - nothing, remove it, make it anew, set the entry under
the id that was sent, drop the connection's own entry - and both action properties are read
off it: an entry becomes a ghost only when it is stored (`GhostStep`), since the step in which
its connection passes `remove_peer` drops it, and a room is abandoned only when it is made
(`AbandonedStep`), since the last connection inside is told by `leave_room` to remove it,
one that was evicted included.

**`NegotiationProofs`**, under `NegotiationConstantsOK`, for any sessions, attempts and
candidates: `TypeCorrect` (`TypeOK`, part by part: `SameProgram` to `SameReaders` carry
over the parts a step leaves alone), `OpenPcsAreKnown` (`NoOpenPcIsForgotten`) and
`CandidatesArrive` (`CandidatesReachTheirPc`). The second needs `ServingOK`, a part of the
type invariant: `handle_offer` begins only when no other is under way, so the peer
connection it makes does not displace one that is not stored yet. The third is about the
order of messages on the channel, `CandInv` (`MessagesKeepOrder`): a host speaks of its
own peer connection and falls silent once another host speaks, unless one of the two lost its
role to a late creator (`OneHostSpeaks`; who listens and has neither left nor lost its role
holds it, `ListenersKnown`); an answer
follows its offer and a client's candidate its answer (`AnswersFollowOffers`,
`IceFollowsAnswers`), because what waits in `iceQueue` is for a connection that was
answered or is being answered (`QueueIsAnswered`); a host has taken every answer it has
read (`AnswersAreTaken`); and after an answered offer that is no longer the one kept, the
client has read something of the host whose peer connection it keeps (`OldOffersAreOver`).

**`HostProofs`** has three parts.

*The session*, under `HostConstantsOK`, for any processes, ages and sessions: `HostTypes`
(`HostTypeOK`) and `HostSurvives` (`SessionSurvives`). The invariant `SavedInv` says that as
long as no two processes were inside a save at once (`raced`), at most one is between
the beginning of a write and its rename, the temporary file is its own and the session
file is whole (`LoneWriter`); that between two ticks a host that has begun to save saves
again, so that its file never gets old (`FreshFile`); and that processes which were never
given different sessions have one (`OneSession`). That a write which fails or a second
process may break it is in the statement, not assumed away: `raced`, `failed` and `clash`
are set by the steps that do so.

*The way of a frame*, under `MediaConstantsOK` and `NoneIsNoFrame`, for any capacities and
any number of frames: `MediaTypes` (`TypeOK`), `OrderAtTheClient` (`ClientKeepsOrder`) and
`MediaRefines` (`Spec => RefinesLossyChannel`). A sender that waits has a frame in its
hand, waits once and has no place (`WaitersApart`), so that a place set free goes to one
sender and no frame is dropped between queue and hand. The refinement needs `OnePlace`:
from the decoder back to the host's queue, a frame is in one place and there once. What
captures or relays a frame is `Offer`, what the receive chain takes is `Show`, and every
step between, losses included, is invisible to the abstract channel.

*Commands*, under `ControlConstantsOK`, for any callers, depth and number of commands:
`ControlTypes` (`ControlTypeOK`) and `ControlIsPaced` (`CommandsArePaced`). The lemma
`EnqueuedIsLatest` carries it: dropping the oldest and appending leaves the latest
`Depth` of what was put in. Whoever sleeps has the lock (`SleeperHoldsLock`), so that one
caller at a time waits for its interval.

**`FacadeProofs`** has a part for each part of the WebRTC facade and one each for the
streams, the sinks, the capture source and the media crate's engine.

* `PeerCalls`, under `CallConstantsOK`: `TypeCorrect` (`CallTypeOK`) and `ReportHidesOne`
  (`ReportHidesOneState`). Descriptions webrtc-rs does not know never reach it
  (`KnownTypes`), so that its state is one of four (`KnownStates`), of which the report
  merges two.
* `DataChannelApi`, under `ChannelConstantsOK`: `ChannelTypes` and `SpoolsShare`
  (`SpoolsShareTheMessages`). A spool's `Share` - what it has and what its queue still holds
  for it - is what arrived while its message handler was the registered one, however the
  registrations of several spools interleave; every other spool's span is over or has not
  begun (`SpansOK`).
* `FragmentStreams`, under `StreamConstantsOK`: `StreamTypes` and `StreamsInOrder`
  (`StreamsKeepOrder`). A subscriber's cursor is behind the stream and what the channel
  no longer keeps behind the cursor is known to be missed (`ReadersInPlace`); a poll
  that lags is two polls in one.
* `TrackWriter`, under `WriterConstantsOK`: `WriterTypes` and `FramesArrive`
  (`FramesReachTheTrack`). No two calls in progress have the same frame (`CallsApart`);
  as long as calls have not overlapped there is one, and it makes an encoder only where
  there is none (`Alone`); then an encoder holds at most the latest frame, and only
  while that is being pulled (`LoneInOrder`).
* `TrackReader`, under `ReaderConstantsOK`: `ReaderTypes` and `UnitsShown`
  (`UnitsAreShown`). As long as nothing overtakes, packets come in the order of sending
  (`NetworkInOrder`), what was heard is past (`HeardIsPast`) and the buffer holds what was
  heard of the unit from its start on (`BufferFromStart`). `Past(3u + 2)` says that the
  last packet of unit u was read or lost, so that nothing to come changes what became
  of the unit (`Settled`).
* `SinkWants`, under `WantsConstantsOK`: `WantsBindTheSource` (`WantsHonourEverySink`), for
  integers of any width and any number of sinks. `Gcd` does what its recursion says
  (`GcdDef`: as many turns of the loop as the second number is large are enough); what it
  returns divides both numbers and is a sum of multiples of them (`GcdMeasures`), so that the
  product in `Lcm` divides every common multiple (`LcmIsLeast`) and does not wrap where
  there is one in range. Sink by sink, the aggregated alignment then is a
  multiple of each alignment seen and divides what all of them divide
  (`AlignmentIsLeast`), and the limit is at most each limit seen (`LimitsHonoured`).
* `CaptureSource`, under `CaptureConstantsOK`: `CaptureTypes` and `FramesDescribed`
  (`FramesAreDescribed`), for any units that satisfy the assumption, in samples of any
  length. `JointPlaces` says at which bytes of a sample each unit stands. No start code
  begins in a unit, not even one that reaches into what follows it, and behind a unit
  that is not the last there is one (`UnitFound`); so the scan that begins at a unit goes on
  to the next (`UnitsStand`) and, by induction from the last one back, finds as many as there
  are (`ScanFinds`). That the scan ends is `ScanFromDef`: every unit found ends behind its
  start, so the recursion defines a function. The parameter sets are then those meant
  (`SetsAreExtracted`), and what was given and what is kept make up what was sent.
* `PipelineEngine`, under `EngineConstantsOK`, for any callers, ids and number of adds:
  `EngineTypes` (`EngineTypeOK`), `OneTaskPerChain` (`NoTwinTasks`) and `NoStrayTask`
  (`TaskIsReachable`). `NoTwinTasks` alone is not inductive: that a chain which may still be
  spawned has no task yet, and that two ids never share a part (`PartsOK`), is what a spawn
  relies on. `TaskIsReachable` needs in addition that between a stop's signal and its
  collection of the handles every task has been signalled or was spawned in that window
  (`SignalledFirst`): what the collection takes out of the map is then covered by the signal.

**`PictureProofs`**, under `GeneratorConstantsOK`: `TypeCorrect` (`TypeOK`),
`NoLostThread` (`ThreadIsTracked`), `StoppedMeansStopped` (`StoppedIsStopped`) and
`RemovedSinkQuiet` (`RemovedSinkIsQuiet`). A thread is not lost because `start` overwrites
the handle only where it found none and keeps the mutex meanwhile (`HandleIsFree`). A
lowered flag with a kept handle means that some `stop` has yet to take it (`StopIsComing`),
so when all calls have returned there is none.

About `Workbench`, under `WorkbenchConstantsOK`: `SquaresSteady` (`SquaresMoveSteadily`),
for any frame, sizes and speed; a square is made in its place and the reflection with its
clamp keeps it there (`BounceIsShort`). `TransformsUndo` (`TransformsUndoEachOther`),
for pictures of any size:

* A loop that writes cell c to place p(c) of a plane leaves there what was read for c, since
  p is one to one; of a plane of w by h without padding, `b * w + a` is
  (`IndexInjective`, `IndexOnto`). So each loop is known sample by sample (`FlippedSamples`,
  `SwungSamples`, `TakenSamples`, ...), and two planes with the same samples are the same
  (`SamePlane`). From this follow the identities of one plane and of three (`MirrorTwice`,
  `TurnsUndo`, `MirrorTurnMirror`, `WholeCrop`, `NativeRoundTrip`), for the native loops of
  every size, odd ones included.
* Rounding up is rounding down for even sizes, so that libyuv's loops are the same there
  (`BackendsAgree`, `LibyuvRoundTrip`).
* The invariant (`WorkInv`): whatever is written, a picture keeps the shape of one
  (`Shaped`); together with `WellFormed`, which a program that lives has seen of it, it is
  one (`Framed`); and nothing odd is in libyuv's hands without being noted in `past`.

And `NoSampleStrays` (`OnlyOddOrSmallPicturesFail`), for both backends and pictures of any
size:

* `Whole(p, w, h)` is a picture of w by h whose planes have no padding and no stray sample;
  it is the same as `Shaped` and `WellFormed` together (`WholeIsWellFormed`,
  `WellFormedIsWhole`). A loop keeps it if it writes within the plane and what it writes is
  no stray sample (`LaidIn`, `RowLaidIn`), and a read within a plane is none
  (`SampleIn`, `ReadIn`).
* So each loop comes down to the place it reads and the place it writes: the quotients of a
  scaled place (`ScaleInside`), halved corners of a crop, a turned cell (`TurnInside`), the
  rectangles of bars, squares and text clipped at the frame's edge (`RectIn`, `AnchorIn`,
  `TextIn`). This gives `ConvertedWhole` for the formats, `EditedWhole` for the
  transforms, `BarsWhole`, `SquaresWhole`, `OverlaidWhole` and `BurnedWhole` for what is
  painted, each with the sizes it needs: libyuv even ones, a scale or a painting some chroma.
* In the viewer an original divisible by eight stays even through every button and variant
  (`ButtonWhole`, `VariantsWhole`), an even picture can be shown (`ShowableWhole`), and what
  is no more elongated than the thumbnail allows keeps both sides (`ThumbHasSides`).
* The invariant (`SafeInv`) is `WorkInv`, the squares' places, that what a library caller may
  still transform has chroma unless `past` says otherwise (`ChromaIsThere`), and that the
  viewer's original is sound (`OriginalIsSound`). It is the attempt to prove this property
  without "small" in `past` that showed the pictures of one column or row. The assumption
  says of the viewer's window what 960 by 540 is: even, and not too elongated for a thumbnail.

**`ColourProofs`** adds `ColourInPlace` (`ColourStaysInPlace`), for both backends and
pictures of any size:

* A picture that was not scaled shows the scene through a placing, a map from its places
  to the scene's, and text and labels over it (`Shows`). A transform composes the placing
  with a map of places (mirror, crop, turn); if that map keeps what lies between two places
  between them and takes chroma cells to chroma cells, the result is a picture of the same
  kind (`EditsAreViews`). It is here that the halved sizes and corners of the chroma
  loops matter.
* A scaling samples: each luma and each chroma of the result is one of the source's, and a
  place that the chroma covers lies between the places of two lumas of its cell; in the native
  backend the three are one place (`ScaleSamples`, a fact about quotients of scaled places).
  Since placings keep what is between, the colour is then between as well (`SceneHolds`,
  `SceneSampled`).
* Bars and squares have paints of their own: the loops are known sample by sample
  (`BarsAreSamples`, `SquaresAreSamples`), and the paint of a cell is that of one of its
  lumas (`BarsHold`, `BarsSampled`). Overlays mark whole cells, since an anchor
  that is not noted as odd, the margin and the glyph's sides are even (`OverlaidIsMarked`,
  `BurnedIsMarked`, `MarkedHolds`).
* The invariant (`ColourInv`) is `SafeInv` and, for each caller, what its picture is besides:
  a scene or bars until it is scaled (`LibraryColour`), a freshly painted frame
  (`PatternColour`), an original that is a scene without text (`ViewerColour`).

The attempt showed two cases that an earlier, smaller run had missed and that the property
now excepts: a frame with fewer columns than bars, or a square of size 0, paints chroma
without a luma sample (`"thin"`), and libyuv, which takes luma and chroma from middles of
their own, can move a letter beside chroma that was not cleared. `PatternConstantsOK` asks for glyphs and a margin with even sides, as
the code's are: with odd ones, text would share a cell with its surroundings.

**`SequenceLemmas`** has the induction over data that the library's theorems cannot give
here (they take an operator as a parameter): a property is the set of the numbers that
have it, and `SetInduction` follows from the well-foundedness of `<`. From it
`RecursionDefines` and what `Within` does to a sequence that is appended to, joined or
sorted. It is why parts of sequences (`FromChannel`, a spool's share, a network
that has lost packets) are written with `Subsequences` and not with `SelectSeq`.

Model-checked only: the violated property, and all liveness - `RoomReclaimed`,
`DeparturesAreCompleted`, `CallsFinish`, `OfferIsAnswered`, `NothingOutlivesSignalling`,
`NobodyIsStuck`, `ShutdownDrains`, `StopReturns`, `EventLoopsEnd`, `StartEnds` - since
fairness and ENABLED are outside the prover.

## 5. Not modelled

* The WebRTC stacks, FFmpeg, GStreamer, mediasoup, libyuv and tokio themselves: they
  appear as what the code that calls them relies on, marked external in `map`.
* The colour arithmetic of a pixel, the weights of bilinear filters, the dots of a
  glyph, P010 (which native.rs names in no arm of its match at this commit, so that it does
  not build), libyuv's special cases for scaling by two.
* `plugin.rs`, a sequential registry of factories; `omspbase-common`: message types,
  serde formats, configuration, the PSK helpers and counters, which have no order of
  steps to get wrong (message kinds and the outcome of the PSK check are choices of
  `Signaling`); the server's monitor, its relay stub and the wiring in `main.rs`.
* HTTP endpoints that read counters; `cleanup_stale` and `get_other_peer`, which are
  stubs. There is no heartbeat in the server, so a connection is gone when its
  stream ends and not before.
* `pipeline.rs` and `decode.rs`, which wrap GStreamer: what it captures and shows.

## 6. Plan

Done: every module above with its runs, and theorems about the registry, the server, the
SFU, the negotiation, the engine, the generator, the pictures, the host's session, the media path, the
control path, the capture source and the WebRTC facade.

Every safety invariant and action property that a passing run checks is a theorem.

Left: the plugin registry, if it ever is used from more than one task.
