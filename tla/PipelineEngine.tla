--------------------------- MODULE PipelineEngine ---------------------------
(***************************************************************************)
(* The media engine (media/src/engine.rs): chains of a source, processors  *)
(* and sinks, each run by a task of its own, with hot plug.                *)
(*                                                                         *)
(* Any thread may call add_chain, remove_chain, start and stop.  The map   *)
(* of chains is behind an RwLock and the running flag is atomic, but a     *)
(* call takes the lock several times: what runs under one lock, or one     *)
(* atomic or channel operation, is one action.                             *)
(*                                                                         *)
(* The source, processors and sinks handed to one add_chain are its part;  *)
(* parts are numbered, and the task that consumes a part is named by it.   *)
(* The shutdown signal is a tokio watch channel: a send without a receiver *)
(* fails and leaves the value as it was, and the engine keeps no receiver. *)
(***************************************************************************)
EXTENDS FiniteSets, Naturals

CONSTANTS
    EngineCallers,    \* threads that use the engine
    Ids,        \* chain ids
    NoChain,    \* the map has no entry for the id
    MaxAdds     \* bound: successful add_chain calls

Parts == 1..MaxAdds

\* A chain in the map: the part it was added with, whether the part is still
\* there, and whether there is a task handle.
Entry == [part : Parts, fresh : BOOLEAN, handle : BOOLEAN]

ASSUME EngineConstantsOK ==
    /\ MaxAdds \in Nat
    /\ NoChain \notin Entry \cup Ids

VARIABLES
    chains,     \* the map: by id, an entry or NoChain
    engineRunning,    \* the running flag
    shutdown,   \* the value of the watch channel
    live,       \* live[n]: tasks that run part n
    aborted,    \* aborted[n]: the task of part n was told to abort
    late,       \* late[n]: its task was spawned inside a stop (history)
    added,      \* parts handed over so far
    enginePc,         \* where each caller stands
    arg,        \* the chain id a caller's add_chain is about
    todo        \* the chain ids a caller's start has still to spawn

engineVars == <<chains, engineRunning, shutdown, live, aborted, late, added, enginePc, arg, todo>>

EngineTypeOK ==
    /\ chains \in [Ids -> Entry \cup {NoChain}]
    /\ engineRunning \in BOOLEAN /\ shutdown \in BOOLEAN
    /\ live \in [Parts -> Nat]
    /\ aborted \in [Parts -> BOOLEAN] /\ late \in [Parts -> BOOLEAN]
    /\ added \in 0..MaxAdds
    /\ enginePc \in [EngineCallers -> {"idle", "spawnAdded", "list", "spawn", "send", "take", "join"}]
    /\ arg \in [EngineCallers -> Ids \cup {NoChain}]
    /\ todo \in [EngineCallers -> SUBSET Ids]
    /\ \A c \in EngineCallers :
           /\ todo[c] # {} => enginePc[c] = "spawn"
           /\ enginePc[c] = "spawnAdded" => arg[c] \in Ids

EngineInit ==
    /\ chains = [id \in Ids |-> NoChain]
    /\ engineRunning = FALSE /\ shutdown = FALSE
    /\ live = [n \in Parts |-> 0]
    /\ aborted = [n \in Parts |-> FALSE] /\ late = [n \in Parts |-> FALSE]
    /\ added = 0
    /\ enginePc = [c \in EngineCallers |-> "idle"]
    /\ arg = [c \in EngineCallers |-> NoChain]
    /\ todo = [c \in EngineCallers |-> {}]

EngineGoto(c, stage) == enginePc' = [enginePc EXCEPT ![c] = stage]

Listening == \E n \in Parts : live[n] > 0

-----------------------------------------------------------------------------
\* spawn_chain

\* The entry is there and its source has not been consumed.
Spawnable(id) == chains[id] # NoChain /\ chains[id].fresh

\* Mutation: the entry keeps its source, so that it can be spawned again.
SpawnChainAgain(id) ==
    LET n == chains[id].part
    IN  /\ chains' = [chains EXCEPT ![id] = [part |-> n, fresh |-> TRUE, handle |-> TRUE]]
        /\ live' = [live EXCEPT ![n] = @ + 1]
        /\ late' = [late EXCEPT ![n] = \E c \in EngineCallers : enginePc[c] = "take"]

\* Take the parts out of the entry, subscribe to the shutdown signal, spawn
\* the task and keep its handle, all under the write lock.
SpawnChain(id) ==
    LET n == chains[id].part
    IN  /\ chains' = [chains EXCEPT ![id] = [part |-> n, fresh |-> FALSE, handle |-> TRUE]]
        /\ live' = [live EXCEPT ![n] = @ + 1]
        /\ late' = [late EXCEPT ![n] = \E c \in EngineCallers : enginePc[c] = "take"]

-----------------------------------------------------------------------------
\* add_chain

\* Insert under the write lock, unless the id is in use.
AddChain(c, id) ==
    /\ enginePc[c] = "idle"
    /\ chains[id] = NoChain
    /\ added < MaxAdds
    /\ added' = added + 1
    /\ chains' = [chains EXCEPT ![id] = [part |-> added + 1, fresh |-> TRUE, handle |-> FALSE]]
    /\ IF engineRunning THEN EngineGoto(c, "spawnAdded") /\ arg' = [arg EXCEPT ![c] = id]
                  ELSE UNCHANGED <<enginePc, arg>>
    /\ UNCHANGED <<engineRunning, shutdown, live, aborted, late, todo>>

\* The engine was running: spawn, under a lock of its own; the call fails if
\* the entry is gone or was spawned by somebody else.
SpawnAdded(c) ==
    /\ enginePc[c] = "spawnAdded"
    /\ IF Spawnable(arg[c]) THEN SpawnChain(arg[c]) ELSE UNCHANGED <<chains, live, late>>
    /\ EngineGoto(c, "idle")
    /\ arg' = [arg EXCEPT ![c] = NoChain]
    /\ UNCHANGED <<engineRunning, shutdown, aborted, added, todo>>

-----------------------------------------------------------------------------
\* remove_chain

\* Mutation: the task of the removed chain is left alone.
ForgetChain(c, id) ==
    /\ enginePc[c] = "idle"
    /\ chains[id] # NoChain
    /\ chains' = [chains EXCEPT ![id] = NoChain]
    /\ UNCHANGED <<engineRunning, shutdown, live, aborted, late, added, enginePc, arg, todo>>

\* Take the entry out and abort its task, if the entry has the handle.
RemoveChain(c, id) ==
    /\ enginePc[c] = "idle"
    /\ chains[id] # NoChain
    /\ chains' = [chains EXCEPT ![id] = NoChain]
    /\ aborted' = IF chains[id].handle
                  THEN [aborted EXCEPT ![chains[id].part] = TRUE]
                  ELSE aborted
    /\ UNCHANGED <<engineRunning, shutdown, live, late, added, enginePc, arg, todo>>

-----------------------------------------------------------------------------
\* start

StartEngine(c) ==
    /\ enginePc[c] = "idle"
    /\ ~engineRunning
    /\ engineRunning' = TRUE
    /\ EngineGoto(c, "list")
    /\ UNCHANGED <<chains, shutdown, live, aborted, late, added, arg, todo>>

ListChains(c) ==
    /\ enginePc[c] = "list"
    /\ todo' = [todo EXCEPT ![c] = {id \in Ids : chains[id] # NoChain}]
    /\ EngineGoto(c, IF todo'[c] = {} THEN "idle" ELSE "spawn")
    /\ UNCHANGED <<chains, engineRunning, shutdown, live, aborted, late, added, arg>>

\* The next chain of the list, which is in no particular order; the first
\* one that cannot be spawned ends the call.
SpawnListed(c) ==
    /\ enginePc[c] = "spawn"
    /\ \E id \in todo[c] :
           IF Spawnable(id)
           THEN /\ SpawnChain(id)
                /\ todo' = [todo EXCEPT ![c] = @ \ {id}]
                /\ IF todo[c] = {id} THEN EngineGoto(c, "idle") ELSE UNCHANGED enginePc
           ELSE /\ todo' = [todo EXCEPT ![c] = {}]
                /\ EngineGoto(c, "idle")
                /\ UNCHANGED <<chains, live, late>>
    /\ UNCHANGED <<engineRunning, shutdown, aborted, added, arg>>

-----------------------------------------------------------------------------
\* stop

StopEngine(c) ==
    /\ enginePc[c] = "idle"
    /\ engineRunning
    /\ engineRunning' = FALSE
    /\ EngineGoto(c, "send")
    /\ UNCHANGED <<chains, shutdown, live, aborted, late, added, arg, todo>>

SendShutdown(c) ==
    /\ enginePc[c] = "send"
    /\ shutdown' = (shutdown \/ Listening)
    /\ EngineGoto(c, "take")
    /\ UNCHANGED <<chains, engineRunning, live, aborted, late, added, arg, todo>>

TakeHandles(c) ==
    /\ enginePc[c] = "take"
    /\ chains' = [id \in Ids |-> IF chains[id] = NoChain THEN NoChain
                                 ELSE [chains[id] EXCEPT !.handle = FALSE]]
    /\ EngineGoto(c, "join")
    /\ UNCHANGED <<engineRunning, shutdown, live, aborted, late, added, arg, todo>>

\* Every task is awaited for at most a second, then left to itself.
JoinDone(c) ==
    /\ enginePc[c] = "join"
    /\ EngineGoto(c, "idle")
    /\ UNCHANGED <<chains, engineRunning, shutdown, live, aborted, late, added, arg, todo>>

-----------------------------------------------------------------------------
\* run_chain

\* Mutation: the task waits for a change of the signal instead of reading its
\* value, so one that subscribes after the change does not hear it.
ChainMissesOldSignal(n) ==
    /\ live[n] > 0
    /\ shutdown
    /\ \E id \in Ids : chains[id] # NoChain /\ chains[id].part = n /\ ~chains[id].handle
    /\ live' = [live EXCEPT ![n] = @ - 1]
    /\ UNCHANGED <<chains, engineRunning, shutdown, aborted, late, added, enginePc, arg, todo>>

\* The loop reads the signal before every fragment; on_stop of the parts.
ChainStops(n) ==
    /\ live[n] > 0
    /\ shutdown
    /\ live' = [live EXCEPT ![n] = @ - 1]
    /\ UNCHANGED <<chains, engineRunning, shutdown, aborted, late, added, enginePc, arg, todo>>

\* An aborted task is dropped where it awaits: when its source has nothing.
ChainDropped(n) ==
    /\ live[n] > 0
    /\ aborted[n]
    /\ live' = [live EXCEPT ![n] = @ - 1]
    /\ UNCHANGED <<chains, engineRunning, shutdown, aborted, late, added, enginePc, arg, todo>>

-----------------------------------------------------------------------------
EngineGoesOn(c) ==
    \/ SpawnAdded(c) \/ ListChains(c) \/ SpawnListed(c)
    \/ SendShutdown(c) \/ TakeHandles(c) \/ JoinDone(c)

Begin(c) ==
    \/ StartEngine(c) \/ StopEngine(c)
    \/ \E id \in Ids : AddChain(c, id) \/ RemoveChain(c, id)

Task(n) == ChainStops(n) \/ ChainDropped(n)

EngineNext == (\E c \in EngineCallers : Begin(c) \/ EngineGoesOn(c)) \/ (\E n \in Parts : Task(n))

EngineSpec == EngineInit /\ [][EngineNext]_engineVars

\* A call that has begun goes on, a task is polled, and a source has nothing
\* to give once in a while.
EngineFair ==
    /\ \A c \in EngineCallers : WF_engineVars(EngineGoesOn(c))
    /\ \A n \in Parts : WF_engineVars(Task(n))

-----------------------------------------------------------------------------
\* Properties

\* The engine still has the handle of the task that runs part n.
InHand(n) ==
    \E id \in Ids : chains[id] # NoChain /\ chains[id].part = n /\ chains[id].handle

\* However add_chain, remove_chain, start and stop overlap, a running task is
\* one that the engine can still abort or one that has been told to end; the
\* exception is a task spawned between the signal and the collection of
\* handles of one stop, which nobody can reach any more.
TaskIsReachable ==
    \A n \in Parts : live[n] > 0 => (InHand(n) \/ aborted[n] \/ shutdown \/ late[n])

\* A chain is never run by two tasks, even when start and add_chain both try
\* to spawn it.
NoTwinTasks == \A n \in Parts : live[n] <= 1

\* The signal, once given, ends every task, those spawned later included.
ShutdownDrains == shutdown ~> (\A n \in Parts : live[n] = 0)

=============================================================================
