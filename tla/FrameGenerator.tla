--------------------------- MODULE FrameGenerator ---------------------------
(***************************************************************************)
(* The test-pattern source (media/src/pipeline/generator/mod.rs): an OS    *)
(* thread that draws frames and hands them to the registered sinks, with   *)
(* start, stop and the sink list usable from any thread.                   *)
(*                                                                         *)
(* Three things are shared: the running flag (atomic), the thread handle   *)
(* (a mutex that start holds throughout) and the sink list (a mutex that   *)
(* the generator thread holds while it delivers a frame).  stop writes the *)
(* flag before it takes the handle's mutex.                                *)
(***************************************************************************)
EXTENDS FiniteSets, Naturals

CONSTANTS
    Callers,     \* threads that use the generator
    NoOne,       \* no handle, no owner of a mutex
    MaxThreads,  \* bound: generator threads started
    MaxSinks     \* bound: sinks registered

ASSUME GeneratorConstantsOK ==
    /\ MaxThreads \in Nat /\ MaxSinks \in Nat
    /\ NoOne \notin Callers \cup 1..MaxThreads

Threads == 1..MaxThreads
SinkIds == 1..MaxSinks

VARIABLES
    running,    \* the flag
    handle,     \* the generator thread whose handle is kept, or NoOne
    starting,   \* the caller in start, which holds the handle's mutex, or NoOne
    pc,         \* where each caller stands
    joins,      \* the thread a caller's stop waits for
    spawned,    \* generator threads started so far
    alive,      \* those that have not ended
    drawing,    \* those that read the flag as up and are busy with a frame
    sinks,      \* registered sinks, by id
    ids,        \* ids given out
    delivering, \* the generator thread that holds the sink list, or NoOne
    pending     \* the sinks it has still to call

vars == <<running, handle, starting, pc, joins, spawned, alive, drawing, sinks, ids, delivering, pending>>
calls == <<running, handle, starting, pc, joins, spawned>>
list == <<drawing, sinks, ids, delivering, pending>>

TypeOK ==
    /\ running \in BOOLEAN
    /\ handle \in Threads \cup {NoOne}
    /\ starting \in Callers \cup {NoOne}
    /\ pc \in [Callers -> {"idle", "flag", "spawn", "take", "join"}]
    /\ joins \in [Callers -> Threads \cup {NoOne}]
    /\ spawned \in 0..MaxThreads
    /\ alive \subseteq 1..spawned
    /\ ids \in 0..MaxSinks
    /\ sinks \subseteq 1..ids
    /\ drawing \subseteq alive
    /\ delivering \in drawing \cup {NoOne}
    /\ pending \subseteq SinkIds
    /\ \A c \in Callers : starting = c <=> pc[c] \in {"flag", "spawn"}
    /\ starting # NoOne => spawned < MaxThreads
    /\ delivering = NoOne => pending = {}

Init ==
    /\ running = FALSE
    /\ handle = NoOne
    /\ starting = NoOne
    /\ pc = [c \in Callers |-> "idle"]
    /\ joins = [c \in Callers |-> NoOne]
    /\ spawned = 0
    /\ alive = {} /\ drawing = {}
    /\ sinks = {} /\ ids = 0
    /\ delivering = NoOne /\ pending = {}

Goto(c, stage) == pc' = [pc EXCEPT ![c] = stage]

-----------------------------------------------------------------------------
\* start

\* Mutation: only the flag is looked at.
StartChecksFlag(c) ==
    /\ pc[c] = "idle" /\ starting = NoOne /\ spawned < MaxThreads
    /\ ~running
    /\ starting' = c
    /\ Goto(c, "flag")
    /\ UNCHANGED <<running, handle, joins, spawned, alive, list>>

\* Take the mutex; with a handle or the flag set the call panics instead and
\* nothing has changed.
Start(c) ==
    /\ pc[c] = "idle" /\ starting = NoOne /\ spawned < MaxThreads
    /\ handle = NoOne /\ ~running
    /\ starting' = c
    /\ Goto(c, "flag")
    /\ UNCHANGED <<running, handle, joins, spawned, alive, list>>

SetRunning(c) ==
    /\ pc[c] = "flag"
    /\ running' = TRUE
    /\ Goto(c, "spawn")
    /\ UNCHANGED <<handle, starting, joins, spawned, alive, list>>

\* Spawn the thread, keep its handle and let go of the mutex.  With a rate
\* of 0 frames per second the new thread panics before its first frame.
Spawn(c) ==
    /\ pc[c] = "spawn"
    /\ spawned' = spawned + 1
    /\ \E fpsOk \in BOOLEAN : alive' = IF fpsOk THEN alive \cup {spawned + 1} ELSE alive
    /\ handle' = spawned + 1
    /\ starting' = NoOne
    /\ Goto(c, "idle")
    /\ UNCHANGED <<running, joins, list>>

-----------------------------------------------------------------------------
\* stop

Stop(c) ==
    /\ pc[c] = "idle"
    /\ running' = FALSE
    /\ Goto(c, "take")
    /\ UNCHANGED <<handle, starting, joins, spawned, alive, list>>

\* Mutation: a stop that finds the mutex taken does not wait for it.
TryTakeHandle(c) ==
    /\ pc[c] = "take"
    /\ IF starting = NoOne
       THEN /\ handle' = NoOne
            /\ joins' = [joins EXCEPT ![c] = handle]
            /\ Goto(c, IF handle = NoOne THEN "idle" ELSE "join")
       ELSE Goto(c, "idle") /\ UNCHANGED <<handle, joins>>
    /\ UNCHANGED <<running, starting, spawned, alive, list>>

\* Take the handle under its mutex; without one there is nothing to wait for.
TakeHandle(c) ==
    /\ pc[c] = "take" /\ starting = NoOne
    /\ handle' = NoOne
    /\ joins' = [joins EXCEPT ![c] = handle]
    /\ Goto(c, IF handle = NoOne THEN "idle" ELSE "join")
    /\ UNCHANGED <<running, starting, spawned, alive, list>>

\* join returns when the thread has ended.
Joined(c) ==
    /\ pc[c] = "join" /\ joins[c] \notin alive
    /\ joins' = [joins EXCEPT ![c] = NoOne]
    /\ Goto(c, "idle")
    /\ UNCHANGED <<running, handle, starting, spawned, alive, list>>

-----------------------------------------------------------------------------
\* The sink list

AddSink ==
    /\ delivering = NoOne /\ ids < MaxSinks
    /\ ids' = ids + 1
    /\ sinks' = sinks \cup {ids + 1}
    /\ UNCHANGED <<calls, alive, drawing, delivering, pending>>

\* Mutation: remove_sink does not wait for the frame that is being delivered.
RemoveUnlocked(s) ==
    /\ s \in sinks
    /\ sinks' = sinks \ {s}
    /\ UNCHANGED <<calls, alive, drawing, ids, delivering, pending>>

RemoveSink(s) ==
    /\ delivering = NoOne
    /\ s \in sinks
    /\ sinks' = sinks \ {s}
    /\ UNCHANGED <<calls, alive, drawing, ids, delivering, pending>>

-----------------------------------------------------------------------------
\* The generator thread

\* The flag is read once per frame, before the frame is drawn.
DrawFrame(t) ==
    /\ t \in alive \ drawing /\ running
    /\ drawing' = drawing \cup {t}
    /\ UNCHANGED <<calls, alive, sinks, ids, delivering, pending>>

\* The sink list is locked for the delivery to the active sinks, whatever
\* the flag says by then.
BeginFrame(t) ==
    /\ t \in drawing
    /\ delivering = NoOne
    /\ delivering' = t
    /\ pending' \in SUBSET sinks
    /\ UNCHANGED <<calls, alive, drawing, sinks, ids>>

OnFrame(t) ==
    /\ delivering = t
    /\ \E s \in pending : pending' = pending \ {s}
    /\ UNCHANGED <<calls, alive, drawing, sinks, ids, delivering>>

EndFrame(t) ==
    /\ delivering = t /\ pending = {}
    /\ delivering' = NoOne
    /\ drawing' = drawing \ {t}
    /\ UNCHANGED <<calls, alive, sinks, ids, pending>>

\* Mutation: the thread goes on until its frame has been taken by a sink.
EndAfterSink(t) ==
    /\ t \in alive \ drawing /\ ~running
    /\ sinks # {}
    /\ alive' = alive \ {t}
    /\ UNCHANGED <<calls, list>>

\* When the flag is down the thread ends.
ThreadEnds(t) ==
    /\ t \in alive \ drawing /\ ~running
    /\ alive' = alive \ {t}
    /\ UNCHANGED <<calls, list>>

-----------------------------------------------------------------------------
Finish(c) == SetRunning(c) \/ Spawn(c) \/ TakeHandle(c) \/ Joined(c)
Generate(t) == BeginFrame(t) \/ OnFrame(t) \/ EndFrame(t) \/ ThreadEnds(t)

Next ==
    \/ \E c \in Callers : Start(c) \/ Stop(c) \/ Finish(c)
    \/ \E t \in Threads : DrawFrame(t) \/ Generate(t)
    \/ AddSink \/ \E s \in SinkIds : RemoveSink(s)

Spec == Init /\ [][Next]_vars

\* A call that has begun goes on, and a living thread runs.
GeneratorFair ==
    /\ \A c \in Callers : WF_vars(Finish(c))
    /\ \A t \in Threads : WF_vars(Generate(t))

-----------------------------------------------------------------------------
\* Properties

\* However starts and stops overlap, a thread that lives is one whose handle
\* is kept or one that a stop is waiting for: none is lost track of.
ThreadIsTracked ==
    \A t \in alive : handle = t \/ \E c \in Callers : pc[c] = "join" /\ joins[c] = t

\* is_running() can be believed: when the flag is down and no start or stop
\* is under way, no generator thread lives, however the calls before overlapped.
StoppedIsStopped ==
    (~running /\ \A c \in Callers : pc[c] = "idle") => alive = {}

\* A sink that remove_sink has taken out is not called any more, not even for
\* a frame whose delivery was under way.
RemovedSinkIsQuiet == pending \subseteq sinks

\* Once the flag stays down, every generator thread ends and every stop
\* returns, whatever the other threads are doing with the sinks.
StopReturns ==
    (<>[]~running) => <>[](alive = {} /\ \A c \in Callers : pc[c] # "join")

=============================================================================
