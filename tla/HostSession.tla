---------------------------- MODULE HostSession ----------------------------
(***************************************************************************)
(* The life of the host program and the file that carries its session over *)
(* a crash (host/src/main.rs, session.rs, emergency.rs).                   *)
(*                                                                         *)
(* A starting process loads the file or makes up a session, starts the     *)
(* task that writes the session every 10 s to a temporary file and renames *)
(* that, binds its port, connects to the server with retries, and serves   *)
(* until it is told to stop.  An attempt to connect waits three times for  *)
(* the server, for its handshake and for two answers, and never gives up   *)
(* waiting.  It may crash anywhere.  A second process may *)
(* be started by mistake: it exits when it finds the port taken, but has   *)
(* loaded the file and started to write by then.  Both use the same names. *)
(*                                                                         *)
(* Files are inodes: a rename moves one that somebody may still write to.  *)
(***************************************************************************)
EXTENDS Naturals, FiniteSets

CONSTANTS
    Hosts,       \* processes that may run the program, again and again
    NoFile,      \* a name under which there is no file
    NoHost,      \* nobody has the port
    Stale,       \* age from which the file is not used: 60 s, in steps of 10 s
    MaxRetries,  \* attempts to connect, 5 in the code
    MaxSessions  \* bound: sessions made up

ASSUME HostConstantsOK ==
    /\ Stale \in Nat \ {0, 1} /\ MaxRetries \in Nat \ {0} /\ MaxSessions \in Nat \ {0}
    /\ NoHost \notin Hosts /\ NoFile \notin [data : Nat, writers : SUBSET Hosts]

VARIABLES
    stage,      \* stage[p]: where main is
    session,    \* session[p]: its session, by started_at; 0 for none yet
    attempt,    \* attempt[p]: failed attempts to connect
    port,       \* who has bound TCP 9801
    alarm,      \* alarm[p]: the task that waits for STOP on UDP 9999
    persist,    \* persist[p]: where the persistence task is
    due,        \* due[p]: its interval has ticked
    tmp,        \* the temporary file
    file,       \* the session file
    age,        \* age of the session file, up to Stale
    made,       \* sessions made up so far
    kept,       \* history: processes that have renamed a file since they started
    raced,      \* history: one wrote the temporary file before another had renamed it
    failed,     \* history: a write or rename has failed
    clash       \* history: two processes ran with different sessions

disk == <<tmp, file, age>>
told == <<kept, raced, failed, clash>>
hostVars == <<stage, session, attempt, port, alarm, persist, due, disk, made, told>>

Session == 1..MaxSessions
Torn == 0                  \* part of a file, which does not parse
Inode == [data : Session \cup {Torn}, writers : SUBSET Hosts]

HostTypeOK ==
    /\ stage \in [Hosts -> {"down", "starting", "connecting", "awaiting", "serving", "stopping"}]
    /\ session \in [Hosts -> 0..MaxSessions] /\ attempt \in [Hosts -> 0..MaxRetries]
    /\ \A p \in Hosts : stage[p] = "awaiting" => attempt[p] < MaxRetries
    /\ port \in Hosts \cup {NoHost}
    /\ alarm \in [Hosts -> {"none", "listening", "ended"}]
    /\ persist \in [Hosts -> {"none", "idle", "writing", "written"}] /\ due \in [Hosts -> BOOLEAN]
    /\ tmp \in Inode \cup {NoFile} /\ file \in Inode \cup {NoFile}
    /\ age \in 0..Stale /\ made \in 0..MaxSessions
    /\ kept \subseteq Hosts /\ raced \in BOOLEAN /\ failed \in BOOLEAN /\ clash \in BOOLEAN

Unstarted ==
    /\ stage = [p \in Hosts |-> "down"] /\ session = [p \in Hosts |-> 0]
    /\ attempt = [p \in Hosts |-> 0] /\ port = NoHost /\ alarm = [p \in Hosts |-> "none"]
    /\ persist = [p \in Hosts |-> "none"] /\ due = [p \in Hosts |-> FALSE]
    /\ tmp = NoFile /\ file = NoFile /\ age = 0 /\ made = 0
    /\ kept = {} /\ raced = FALSE /\ failed = FALSE /\ clash = FALSE

Runs(p) == stage[p] # "down"

\* A missing, a broken or an old file makes for a new session.
Usable == file # NoFile /\ file.data # Torn /\ age < Stale

\* Session::load and start_persist, whose interval ticks at once.
Load(p) ==
    /\ stage[p] = "down" /\ (Usable \/ made < MaxSessions)
    /\ made' = IF Usable THEN made ELSE made + 1
    /\ session' = [session EXCEPT ![p] = IF Usable THEN file.data ELSE made + 1]
    /\ stage' = [stage EXCEPT ![p] = "starting"]
    /\ persist' = [persist EXCEPT ![p] = "idle"] /\ due' = [due EXCEPT ![p] = TRUE]
    /\ attempt' = [attempt EXCEPT ![p] = 0]
    /\ kept' = kept \ {p}
    /\ clash' = (clash \/ \E q \in Hosts \ {p} : Runs(q) /\ session[q] # session'[p])
    /\ UNCHANGED <<port, alarm, disk, raced, failed>>

Released(inode, p) == IF inode = NoFile THEN NoFile ELSE [inode EXCEPT !.writers = @ \ {p}]

\* The process is gone: its tasks, its port and its open files with it.
Ends(p) ==
    /\ stage' = [stage EXCEPT ![p] = "down"]
    /\ persist' = [persist EXCEPT ![p] = "none"] /\ due' = [due EXCEPT ![p] = FALSE]
    /\ alarm' = [alarm EXCEPT ![p] = "none"]
    /\ port' = IF port = p THEN NoHost ELSE port
    /\ tmp' = Released(tmp, p) /\ file' = Released(file, p)
    /\ UNCHANGED <<session, attempt, age, made, told>>

Bind(p) ==
    /\ stage[p] = "starting"
    /\ \/ /\ port = NoHost /\ port' = p
          /\ stage' = [stage EXCEPT ![p] = "connecting"]
          /\ UNCHANGED <<session, attempt, alarm, persist, due, disk, made, told>>
       \/ Ends(p)

\* The first attempt, or the next after its pause.
Attempt(p) ==
    /\ stage[p] = "connecting" /\ attempt[p] < MaxRetries
    /\ stage' = [stage EXCEPT ![p] = "awaiting"]
    /\ UNCHANGED <<session, attempt, port, alarm, persist, due, disk, made, told>>

\* The server has answered: connected, with a transport, the emergency listener
\* and the engine started; or without a transport, which ends the process.
Connect(p) ==
    /\ stage[p] = "awaiting"
    /\ \/ /\ stage' = [stage EXCEPT ![p] = "serving"]
          /\ alarm' = [alarm EXCEPT ![p] = "listening"]
          /\ UNCHANGED <<session, attempt, port, persist, due, disk, made, told>>
       \/ Ends(p)

\* Mutation: after the last attempt the first comes again.
RetriesForEver(n) == (n + 1) % MaxRetries

NextAttempt(n) == n + 1

\* The server refuses, or the connection breaks.
ConnectFails(p) ==
    /\ stage[p] = "awaiting"
    /\ stage' = [stage EXCEPT ![p] = "connecting"]
    /\ attempt' = [attempt EXCEPT ![p] = NextAttempt(@)]
    /\ UNCHANGED <<session, port, alarm, persist, due, disk, made, told>>

GiveUp(p) == stage[p] = "connecting" /\ attempt[p] = MaxRetries /\ Ends(p)

\* STOP ends the task that waits for it, and nothing else.
EmergencyStop(p) ==
    /\ alarm[p] = "listening" /\ alarm' = [alarm EXCEPT ![p] = "ended"]
    /\ UNCHANGED <<stage, session, attempt, port, persist, due, disk, made, told>>

\* Ctrl-C while serving: pipeline, engine and tasks are stopped, and the
\* persistence task last.
Interrupt(p) ==
    /\ stage[p] = "serving" /\ stage' = [stage EXCEPT ![p] = "stopping"]
    /\ UNCHANGED <<session, attempt, port, alarm, persist, due, disk, made, told>>

Finish(p) == stage[p] = "stopping" /\ Ends(p)

Crash(p) == Runs(p) /\ Ends(p)

\* Mutation: the session is written under the file's own name.
InPlace == "session file"

\* std::fs::write truncates what is there and then writes.
Target == "temporary file"
Truncated(inode, p) ==
    [data |-> Torn, writers |-> IF inode = NoFile THEN {p} ELSE inode.writers \cup {p}]

BeginWrite(p) ==
    /\ persist[p] = "idle" /\ due[p]
    /\ due' = [due EXCEPT ![p] = FALSE]
    /\ persist' = [persist EXCEPT ![p] = "writing"]
    /\ \/ Target = "temporary file" /\ tmp' = Truncated(tmp, p) /\ UNCHANGED file
       \/ Target = "session file" /\ file' = Truncated(file, p) /\ UNCHANGED tmp
    /\ raced' = (raced \/ \E q \in Hosts \ {p} : persist[q] \in {"writing", "written"})
    /\ UNCHANGED <<stage, session, attempt, port, alarm, age, made, kept, failed, clash>>

\* What a writer leaves behind; two that write at once may garble each other.
Filled(inode, p) ==
    IF inode = NoFile \/ p \notin inode.writers THEN {inode}
    ELSE {[data |-> d, writers |-> inode.writers \ {p}] :
            d \in {session[p]} \cup IF inode.writers = {p} THEN {} ELSE {Torn}}

EndWrite(p) ==
    /\ persist[p] = "writing"
    /\ persist' = [persist EXCEPT ![p] = "written"]
    /\ tmp' \in Filled(tmp, p) /\ file' \in Filled(file, p)
    /\ UNCHANGED <<stage, session, attempt, port, alarm, due, age, made, told>>

\* The rename moves whatever has the temporary name by then.
Rename(p) ==
    /\ persist[p] = "written" /\ persist' = [persist EXCEPT ![p] = "idle"]
    /\ IF tmp = NoFile
         THEN failed' = TRUE /\ UNCHANGED <<tmp, file, age, kept>>
         ELSE /\ file' = tmp /\ tmp' = NoFile /\ age' = 0 /\ kept' = kept \cup {p}
              /\ UNCHANGED failed
    /\ UNCHANGED <<stage, session, attempt, port, alarm, due, made, raced, clash>>

\* Either fails: nothing more happens until the interval ticks again.
WriteFails(p) ==
    /\ (persist[p] = "idle" /\ due[p]) \/ persist[p] = "written"
    /\ persist' = [persist EXCEPT ![p] = "idle"] /\ due' = [due EXCEPT ![p] = FALSE]
    /\ failed' = TRUE
    /\ UNCHANGED <<stage, session, attempt, port, alarm, disk, made, kept, raced, clash>>

\* Mutation: the session is written once, when the host starts.
NeverAgain(p) == FALSE

Ticks(p) == persist[p] # "none"

\* Ten seconds pass: longer than a write takes.
Tick ==
    /\ \A p \in Hosts : ~due[p] /\ persist[p] \in {"none", "idle"}
    /\ due' = [p \in Hosts |-> Ticks(p)]
    /\ age' = IF age < Stale THEN age + 1 ELSE Stale
    /\ UNCHANGED <<stage, session, attempt, port, alarm, persist, tmp, file, made, told>>

Starts(p) == Bind(p) \/ Attempt(p) \/ GiveUp(p)
Answers(p) == Connect(p) \/ ConnectFails(p)
HostInit == Unstarted
HostNext ==
    \/ \E p \in Hosts :
         \/ Load(p) \/ Starts(p) \/ Answers(p) \/ EmergencyStop(p) \/ Interrupt(p) \/ Finish(p) \/ Crash(p)
         \/ BeginWrite(p) \/ EndWrite(p) \/ Rename(p) \/ WriteFails(p)
    \/ Tick
HostFair == \A p \in Hosts : WF_hostVars(Starts(p))
HostSpec == HostInit /\ [][HostNext]_hostVars /\ HostFair

-----------------------------------------------------------------------------
\* A crash, at whatever point of a write, leaves no broken session file behind
\* (session.rs:90: "atomic write via temp file + rename"), unless two processes
\* wrote the temporary file at the same time.
TornOnlyByTwo == file # NoFile /\ file.data = Torn => raced

\* A host that has written its session once is on file with it as long as it
\* runs, and recently enough for a restart to find it: whatever failed to start
\* beside it, unless that had made up a session of its own or the disk failed.
HostStaysOnFile ==
    \A p \in kept :
        Runs(p) /\ ~raced /\ ~failed /\ ~clash => Usable /\ file.data = session[p]

\* The session outlives a crash at whatever point of a write: a broken file is
\* left only by two processes that write at once, and a host that has written its
\* session is on file with it as long as it runs (session.rs:76-100).
SessionSurvives == TornOnlyByTwo /\ HostStaysOnFile

\* A process that has loaded its session comes to serve or ends, or one of its
\* attempts waits for ever for a server that says nothing: whatever a server says,
\* and however often it refuses, the attempts run out (main.rs:126-158).
StartEnds ==
    \A p \in Hosts :
        stage[p] \in {"starting", "connecting", "awaiting"}
          ~> (stage[p] \in {"serving", "down"} \/ [](stage[p] = "awaiting"))
=============================================================================
