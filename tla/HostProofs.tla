----------------------------- MODULE HostProofs -----------------------------
(***************************************************************************)
(* Theorems about the host program and what goes between it and the        *)
(* client: the life of its processes (HostSession), for any processes,     *)
(* ages and sessions; the way of its frames (MediaPath), for any           *)
(* capacities and any number of frames; and the commands it is sent        *)
(* (ControlPath), for any callers, depth and number of commands.           *)
(***************************************************************************)
EXTENDS HostSession, MediaPath, ControlPath, SequenceLemmas, FiniteSetTheorems, TLAPS

-----------------------------------------------------------------------------
(* The host's processes and their session file *)

LEMMA HostInitTyped == HostInit => HostTypeOK
  <1> SUFFICES ASSUME HostInit PROVE HostTypeOK
    OBVIOUS
  <1>1. due \in [Hosts -> BOOLEAN] /\ raced \in BOOLEAN /\ failed \in BOOLEAN /\ clash \in BOOLEAN
    BY Zenon DEF HostInit, Unstarted
  <1>2. /\ session \in [Hosts -> 0..MaxSessions] /\ attempt \in [Hosts -> 0..MaxRetries]
        /\ age \in 0..Stale /\ made \in 0..MaxSessions
    BY HostConstantsOK DEF HostInit, Unstarted
  <1>3. /\ stage \in [Hosts -> {"down", "starting", "connecting", "awaiting", "serving", "stopping"}]
        /\ port \in Hosts \cup {NoHost} /\ alarm \in [Hosts -> {"none", "listening", "ended"}]
        /\ persist \in [Hosts -> {"none", "idle", "writing", "written"}]
        /\ tmp \in Inode \cup {NoFile} /\ file \in Inode \cup {NoFile} /\ kept \subseteq Hosts
    BY Zenon DEF HostInit, Unstarted
  <1>4. \A p \in Hosts : stage[p] # "awaiting"
    BY DEF HostInit, Unstarted
  <1> QED
    BY <1>1, <1>2, <1>3, <1>4 DEF HostTypeOK

LEMMA ReleasedTyped ==
    ASSUME NEW p \in Hosts, NEW inode \in Inode \cup {NoFile}
    PROVE  /\ Released(inode, p) \in Inode \cup {NoFile}
           /\ Released(inode, p) = NoFile <=> inode = NoFile
           /\ inode # NoFile => /\ Released(inode, p).data = inode.data
                                /\ Released(inode, p).writers = inode.writers \ {p}
  BY HostConstantsOK DEF Released, Inode, Session, Torn

LEMMA TruncatedTyped ==
    ASSUME NEW p \in Hosts, NEW inode \in Inode \cup {NoFile}
    PROVE  /\ Truncated(inode, p) \in Inode /\ Truncated(inode, p) # NoFile
           /\ Truncated(inode, p).writers = {p} \cup (IF inode = NoFile THEN {} ELSE inode.writers)
  <1>1. Truncated(inode, p) \in Inode
    BY DEF Truncated, Inode
  <1>2. NoFile \notin Inode
    BY HostConstantsOK DEF Inode, Session, Torn
  <1> QED
    BY <1>1, <1>2 DEF Truncated, Inode

LEMMA FilledTyped ==
    ASSUME NEW p \in Hosts, session[p] \in Session \cup {Torn}, NEW inode \in Inode \cup {NoFile},
           NEW after \in Filled(inode, p)
    PROVE  /\ after \in Inode \cup {NoFile} /\ (after = NoFile <=> inode = NoFile)
           /\ inode = NoFile \/ p \notin inode.writers => after = inode
           /\ inode # NoFile => after.writers = inode.writers \ {p}
           /\ inode # NoFile /\ inode.writers = {p} => after.data = session[p]
  <1>1. NoFile \notin Inode
    BY HostConstantsOK DEF Inode, Session, Torn
  <1>2. CASE inode = NoFile \/ p \notin inode.writers
    BY <1>1, <1>2 DEF Filled, Inode
  <1>3. CASE inode # NoFile /\ p \in inode.writers
    <2>1. PICK d \in {session[p]} \cup IF inode.writers = {p} THEN {} ELSE {Torn} :
              after = [data |-> d, writers |-> inode.writers \ {p}]
      BY <1>3 DEF Filled
    <2>2. d \in Session \cup {Torn}
      OBVIOUS
    <2>3. after \in Inode
      BY <2>1, <2>2, <1>3 DEF Inode
    <2> QED
      BY <1>1, <1>3, <2>1, <2>3
  <1> QED
    BY <1>2, <1>3

LEMMA EndsTyped ==
    ASSUME HostTypeOK, NEW p \in Hosts, Ends(p)
    PROVE  HostTypeOK'
  <1>1. tmp' \in Inode \cup {NoFile} /\ file' \in Inode \cup {NoFile}
    BY ReleasedTyped DEF HostTypeOK, Ends
  <1> QED
    BY <1>1 DEF HostTypeOK, Ends, told

LEMMA LoadTyped ==
    ASSUME HostTypeOK, NEW p \in Hosts, Load(p)
    PROVE  HostTypeOK' /\ session'[p] \in Session
  <1>0. /\ stage' \in [Hosts -> {"down", "starting", "connecting", "awaiting", "serving", "stopping"}]
        /\ persist' \in [Hosts -> {"none", "idle", "writing", "written"}]
        /\ due' \in [Hosts -> BOOLEAN] /\ attempt' \in [Hosts -> 0..MaxRetries]
        /\ port' \in Hosts \cup {NoHost} /\ alarm' \in [Hosts -> {"none", "listening", "ended"}]
        /\ tmp' \in Inode \cup {NoFile} /\ file' \in Inode \cup {NoFile} /\ age' \in 0..Stale
        /\ kept' \subseteq Hosts /\ raced' \in BOOLEAN /\ failed' \in BOOLEAN /\ clash' \in BOOLEAN
        /\ \A q \in Hosts : stage'[q] = "awaiting" => attempt'[q] < MaxRetries
    <2>1. clash' \in BOOLEAN
      BY DEF Load
    <2>2. \A q \in Hosts : stage'[q] = "awaiting" => attempt'[q] < MaxRetries
      BY DEF Load, HostTypeOK
    <2> QED
      BY <2>1, <2>2, HostConstantsOK DEF Load, HostTypeOK, disk
  <1>1. CASE Usable
    <2>1. file.data \in Session
      BY <1>1 DEF HostTypeOK, Usable, Inode
    <2>2. session' = [session EXCEPT ![p] = file.data] /\ made' = made
      BY <1>1 DEF Load
    <2>3. session' \in [Hosts -> 0..MaxSessions] /\ session'[p] \in Session
      BY <2>1, <2>2 DEF HostTypeOK, Session
    <2> QED
      BY <2>2, <2>3, <1>0 DEF HostTypeOK
  <1>2. CASE ~Usable
    <2>1. session' = [session EXCEPT ![p] = made + 1] /\ made' = made + 1 /\ made < MaxSessions
      BY <1>2 DEF Load
    <2>2. made + 1 \in 1..MaxSessions
      BY <2>1, HostConstantsOK DEF HostTypeOK
    <2>3. session' \in [Hosts -> 0..MaxSessions] /\ session'[p] \in Session /\ made' \in 0..MaxSessions
      BY <2>1, <2>2 DEF HostTypeOK, Session
    <2> QED
      BY <2>3, <1>0 DEF HostTypeOK
  <1> QED
    BY <1>1, <1>2

LEMMA HostNextTyped == HostTypeOK /\ [HostNext]_hostVars => HostTypeOK'
  <1> SUFFICES ASSUME HostTypeOK, [HostNext]_hostVars PROVE HostTypeOK'
    OBVIOUS
  <1> USE HostConstantsOK
  <1>1. ASSUME NEW p \in Hosts, Load(p) PROVE HostTypeOK'
    BY <1>1, LoadTyped
  <1>2. ASSUME NEW p \in Hosts, Bind(p) PROVE HostTypeOK'
    BY <1>2, EndsTyped DEF Bind, HostTypeOK, disk, told
  <1>3. ASSUME NEW p \in Hosts, Connect(p) PROVE HostTypeOK'
    BY <1>3, EndsTyped DEF Connect, HostTypeOK, disk, told
  <1>4. ASSUME NEW p \in Hosts, Attempt(p) \/ ConnectFails(p) PROVE HostTypeOK'
    BY <1>4 DEF Attempt, ConnectFails, NextAttempt, HostTypeOK, disk, told
  <1>5. ASSUME NEW p \in Hosts, GiveUp(p) \/ Finish(p) \/ Crash(p) PROVE HostTypeOK'
    BY <1>5, EndsTyped DEF GiveUp, Finish, Crash
  <1>6. ASSUME NEW p \in Hosts, EmergencyStop(p) \/ Interrupt(p) PROVE HostTypeOK'
    BY <1>6 DEF EmergencyStop, Interrupt, HostTypeOK, disk, told
  <1>7. ASSUME NEW p \in Hosts, BeginWrite(p) PROVE HostTypeOK'
    <2>1. tmp' = Truncated(tmp, p) /\ UNCHANGED file
      BY <1>7 DEF BeginWrite, Target
    <2>2. tmp' \in Inode \cup {NoFile}
      BY <2>1, TruncatedTyped DEF HostTypeOK
    <2>3. raced' \in BOOLEAN
      BY <1>7 DEF BeginWrite
    <2> QED
      BY <1>7, <2>1, <2>2, <2>3 DEF BeginWrite, HostTypeOK
  <1>8. ASSUME NEW p \in Hosts, EndWrite(p) PROVE HostTypeOK'
    <2>1. session[p] \in Session \cup {Torn}
      BY DEF HostTypeOK, Session, Torn
    <2>2. tmp' \in Inode \cup {NoFile} /\ file' \in Inode \cup {NoFile}
      BY <1>8, <2>1, FilledTyped DEF EndWrite, HostTypeOK
    <2> QED
      BY <1>8, <2>2 DEF EndWrite, HostTypeOK, told
  <1>9. ASSUME NEW p \in Hosts, Rename(p) PROVE HostTypeOK'
    <2>1. CASE tmp = NoFile
      BY <1>9, <2>1 DEF Rename, HostTypeOK
    <2>2. CASE tmp # NoFile
      BY <1>9, <2>2 DEF Rename, HostTypeOK
    <2> QED
      BY <2>1, <2>2
  <1>10. ASSUME NEW p \in Hosts, WriteFails(p) PROVE HostTypeOK'
    BY <1>10 DEF WriteFails, HostTypeOK, disk
  <1>11. CASE Tick
    BY <1>11 DEF Tick, Ticks, HostTypeOK, told
  <1>12. CASE UNCHANGED hostVars
    BY <1>12 DEF hostVars, HostTypeOK, disk, told
  <1> QED
    BY <1>1, <1>2, <1>3, <1>4, <1>5, <1>6, <1>7, <1>8, <1>9, <1>10, <1>11, <1>12 DEF HostNext, Starts, Answers

\* Type correctness of the host's life.
THEOREM HostTypes == HostSpec => []HostTypeOK
  <1> QED
    BY HostInitTyped, HostNextTyped, PTL DEF HostSpec

-----------------------------------------------------------------------------
(* SessionSurvives.  Without a race one process at most is between the      *)
(* beginning of a write and its rename, and the temporary file is its own.  *)

Saves(p) == persist[p] \in {"writing", "written"}

RunnersOK == \A p \in Hosts : /\ Runs(p) <=> persist[p] # "none"
                              /\ Runs(p) => session[p] \in Session

WritersOK == \A p \in Hosts : /\ tmp # NoFile /\ p \in tmp.writers => persist[p] = "writing"
                              /\ file # NoFile /\ p \in file.writers => persist[p] = "writing"

LoneWriter ==
    ~raced => /\ \A p, q \in Hosts : Saves(p) /\ Saves(q) => p = q
              /\ \A p \in Hosts : /\ persist[p] = "writing" => tmp # NoFile /\ p \in tmp.writers
                                  /\ persist[p] = "written" => tmp # NoFile /\ tmp.data = session[p]
              /\ file # NoFile => file.data # Torn /\ file.writers = {}

OneSession == ~clash => \A p, q \in Hosts : Runs(p) /\ Runs(q) => session[p] = session[q]

\* Between two ticks a host that has begun to save saves again.
FreshFile ==
    ~failed => \A p \in kept : Runs(p) => age \in {0, 1} /\ (age = 1 => due[p] \/ Saves(p))

KeptFile ==
    ~raced /\ ~failed /\ ~clash =>
        \A p \in kept : Runs(p) => file # NoFile /\ file.data = session[p]

SavedInv == RunnersOK /\ WritersOK /\ LoneWriter /\ OneSession /\ FreshFile /\ KeptFile

LEMMA InitSaved == HostInit => SavedInv
  BY DEF HostInit, Unstarted, SavedInv, RunnersOK, WritersOK, LoneWriter, OneSession, FreshFile,
         KeptFile, Runs, Saves

LEMMA SavedSuffices == HostTypeOK /\ SavedInv => SessionSurvives
  <1> SUFFICES ASSUME HostTypeOK, SavedInv PROVE SessionSurvives
    OBVIOUS
  <1>1. TornOnlyByTwo
    BY DEF SavedInv, LoneWriter, TornOnlyByTwo
  <1>2. ASSUME NEW p \in kept, Runs(p), ~raced, ~failed, ~clash
        PROVE  Usable /\ file.data = session[p]
    <2>1. p \in Hosts /\ file # NoFile /\ file.data = session[p] /\ session[p] \in Session /\ age \in {0, 1}
      BY <1>2 DEF HostTypeOK, SavedInv, KeptFile, FreshFile, RunnersOK
    <2>2. file.data # Torn /\ age < Stale
      BY <2>1, HostConstantsOK DEF Session, Torn
    <2> QED
      BY <2>1, <2>2 DEF Usable
  <1>3. HostStaysOnFile
    BY <1>2 DEF HostStaysOnFile
  <1> QED
    BY <1>1, <1>3 DEF SessionSurvives

\* A step that saves nothing and neither starts nor ends a process.
LEMMA QuietStep ==
    ASSUME HostTypeOK, SavedInv, UNCHANGED <<session, persist, due, disk, told>>,
           \A p \in Hosts : Runs(p)' <=> Runs(p)
    PROVE  SavedInv'
  <1>1. RunnersOK' /\ OneSession'
    BY DEF SavedInv, RunnersOK, OneSession, told
  <1>2. WritersOK' /\ LoneWriter'
    BY DEF SavedInv, WritersOK, LoneWriter, Saves, disk, told
  <1>3. FreshFile' /\ KeptFile'
    <2>1. UNCHANGED <<session, persist, due, file, age, kept, raced, failed, clash>>
      BY DEF disk, told
    <2>2. \A p \in kept : p \in Hosts /\ (Runs(p)' <=> Runs(p))
      BY DEF HostTypeOK
    <2> QED
      BY <2>1, <2>2 DEF SavedInv, FreshFile, KeptFile, Saves
  <1> QED
    BY <1>1, <1>2, <1>3 DEF SavedInv

LEMMA EndsSaved ==
    ASSUME HostTypeOK, SavedInv, NEW p \in Hosts, Ends(p)
    PROVE  SavedInv'
  <1>1. \A q \in Hosts : /\ Runs(q)' <=> Runs(q) /\ q # p
                         /\ persist'[q] = IF q = p THEN "none" ELSE persist[q]
                         /\ due'[q] = IF q = p THEN FALSE ELSE due[q]
    BY DEF Ends, HostTypeOK, Runs
  <1>2. UNCHANGED <<session, age, kept, raced, failed, clash>>
    BY DEF Ends, told
  <1>3. /\ tmp' = NoFile <=> tmp = NoFile
        /\ tmp # NoFile => tmp'.data = tmp.data /\ tmp'.writers = tmp.writers \ {p}
        /\ file' = NoFile <=> file = NoFile
        /\ file # NoFile => file'.data = file.data /\ file'.writers = file.writers \ {p}
    BY ReleasedTyped DEF Ends, HostTypeOK
  <1>4. RunnersOK' /\ OneSession'
    BY <1>1, <1>2 DEF SavedInv, RunnersOK, OneSession
  <1>5. WritersOK'
    BY <1>1, <1>3 DEF SavedInv, WritersOK
  <1>6. LoneWriter'
    BY <1>1, <1>2, <1>3 DEF SavedInv, LoneWriter, Saves
  <1>7. FreshFile' /\ KeptFile'
    BY <1>1, <1>2, <1>3 DEF SavedInv, FreshFile, KeptFile, Saves, HostTypeOK
  <1> QED
    BY <1>4, <1>5, <1>6, <1>7 DEF SavedInv

LEMMA LoadSaved ==
    ASSUME HostTypeOK, SavedInv, NEW p \in Hosts, Load(p)
    PROVE  SavedInv'
  <1>1. ~Runs(p) /\ persist[p] = "none"
    BY DEF Load, SavedInv, RunnersOK, Runs
  <1>2. \A q \in Hosts : /\ Runs(q)' <=> Runs(q) \/ q = p
                         /\ persist'[q] = IF q = p THEN "idle" ELSE persist[q]
                         /\ q # p => session'[q] = session[q] /\ due'[q] = due[q]
    BY DEF Load, HostTypeOK, Runs
  <1>3. session'[p] \in Session
    BY LoadTyped
  <1>4. UNCHANGED <<tmp, file, age, raced, failed>> /\ kept' = kept \ {p}
    BY DEF Load, disk
  <1>5. ~clash' => ~clash /\ \A q \in Hosts \ {p} : Runs(q) => session[q] = session'[p]
    BY DEF Load
  <1>6. RunnersOK'
    BY <1>2, <1>3 DEF SavedInv, RunnersOK
  <1>7. OneSession'
    BY <1>2, <1>5 DEF SavedInv, OneSession
  <1>8. WritersOK' /\ LoneWriter'
    BY <1>1, <1>2, <1>4 DEF SavedInv, WritersOK, LoneWriter, Saves
  <1>9. FreshFile' /\ KeptFile'
    BY <1>2, <1>4, <1>5 DEF SavedInv, FreshFile, KeptFile, Saves, HostTypeOK
  <1> QED
    BY <1>6, <1>7, <1>8, <1>9 DEF SavedInv

LEMMA BeginWriteSaved ==
    ASSUME HostTypeOK, SavedInv, NEW p \in Hosts, BeginWrite(p)
    PROVE  SavedInv'
  <1>1. persist[p] = "idle" /\ due[p]
    BY DEF BeginWrite
  <1>2. \A q \in Hosts : /\ Runs(q)' <=> Runs(q)
                         /\ persist'[q] = IF q = p THEN "writing" ELSE persist[q]
                         /\ q # p => due'[q] = due[q]
    BY DEF BeginWrite, HostTypeOK, Runs
  <1>3. UNCHANGED <<session, file, age, kept, failed, clash>> /\ tmp' = Truncated(tmp, p)
    BY DEF BeginWrite, Target
  <1>4. tmp' # NoFile /\ tmp'.writers = {p} \cup (IF tmp = NoFile THEN {} ELSE tmp.writers)
    BY <1>3, TruncatedTyped DEF HostTypeOK
  <1>5. ~raced' => ~raced /\ \A q \in Hosts \ {p} : ~Saves(q)
    BY DEF BeginWrite, Saves
  <1>6. RunnersOK' /\ OneSession'
    BY <1>1, <1>2, <1>3 DEF SavedInv, RunnersOK, OneSession
  <1>7. WritersOK'
    BY <1>1, <1>2, <1>3, <1>4 DEF SavedInv, WritersOK
  <1>8. LoneWriter'
    BY <1>1, <1>2, <1>3, <1>4, <1>5 DEF SavedInv, LoneWriter, Saves
  <1>9. FreshFile' /\ KeptFile'
    BY <1>1, <1>2, <1>3, <1>5 DEF SavedInv, FreshFile, KeptFile, Saves, HostTypeOK
  <1> QED
    BY <1>6, <1>7, <1>8, <1>9 DEF SavedInv

LEMMA EndWriteSaved ==
    ASSUME HostTypeOK, SavedInv, NEW p \in Hosts, EndWrite(p)
    PROVE  SavedInv'
  <1>1. persist[p] = "writing"
    BY DEF EndWrite
  <1>2. \A q \in Hosts : /\ Runs(q)' <=> Runs(q)
                         /\ persist'[q] = IF q = p THEN "written" ELSE persist[q]
    BY DEF EndWrite, HostTypeOK, Runs
  <1>3. UNCHANGED <<session, due, age, kept, raced, failed, clash>>
    BY DEF EndWrite, told
  <1>4. session[p] \in Session \cup {Torn}
    BY DEF HostTypeOK, Session, Torn
  <1>5. /\ tmp' = NoFile <=> tmp = NoFile
        /\ tmp # NoFile => tmp'.writers = tmp.writers \ {p}
        /\ tmp # NoFile /\ tmp.writers = {p} => tmp'.data = session[p]
    BY <1>4, FilledTyped DEF EndWrite, HostTypeOK
  <1>6. /\ file' = NoFile <=> file = NoFile
        /\ file = NoFile \/ p \notin file.writers => file' = file
        /\ file # NoFile => file'.writers = file.writers \ {p}
    BY <1>4, FilledTyped DEF EndWrite, HostTypeOK
  <1>7. RunnersOK' /\ OneSession'
    BY <1>1, <1>2, <1>3 DEF SavedInv, RunnersOK, OneSession
  <1>8. WritersOK'
    BY <1>2, <1>5, <1>6 DEF SavedInv, WritersOK
  <1>9. ~raced => UNCHANGED file
    BY <1>6 DEF SavedInv, LoneWriter
  <1>10. ASSUME ~raced PROVE tmp # NoFile /\ tmp.writers = {p}
    <2>1. tmp # NoFile /\ p \in tmp.writers /\ tmp.writers \subseteq Hosts
      BY <1>1, <1>10 DEF SavedInv, LoneWriter, HostTypeOK, Inode
    <2>2. \A q \in tmp.writers : q = p
      BY <1>1, <1>10, <2>1 DEF SavedInv, LoneWriter, WritersOK, Saves
    <2> QED
      BY <2>1, <2>2
  <1>11. LoneWriter'
    BY <1>1, <1>2, <1>3, <1>5, <1>9, <1>10 DEF SavedInv, LoneWriter, Saves
  <1>12. FreshFile' /\ KeptFile'
    BY <1>1, <1>2, <1>3, <1>9 DEF SavedInv, FreshFile, KeptFile, Saves, HostTypeOK
  <1> QED
    BY <1>7, <1>8, <1>11, <1>12 DEF SavedInv

LEMMA RenameSaved ==
    ASSUME HostTypeOK, SavedInv, NEW p \in Hosts, Rename(p)
    PROVE  SavedInv'
  <1>1. persist[p] = "written" /\ Runs(p)
    BY DEF Rename, SavedInv, RunnersOK
  <1>2. \A q \in Hosts : /\ Runs(q)' <=> Runs(q)
                         /\ persist'[q] = IF q = p THEN "idle" ELSE persist[q]
    BY DEF Rename, HostTypeOK, Runs
  <1>3. UNCHANGED <<session, due, raced, clash>> /\ (~failed' => ~failed)
    BY DEF Rename
  <1>4. RunnersOK' /\ OneSession'
    BY <1>1, <1>2, <1>3 DEF SavedInv, RunnersOK, OneSession
  <1>5. ~raced => tmp # NoFile /\ tmp.data = session[p]
    BY <1>1 DEF SavedInv, LoneWriter
  <1>6. CASE tmp = NoFile
    <2>1. raced /\ failed' /\ UNCHANGED <<tmp, file>>
      BY <1>5, <1>6 DEF Rename
    <2>2. WritersOK'
      BY <1>1, <1>2, <2>1 DEF SavedInv, WritersOK
    <2> QED
      BY <1>3, <1>4, <2>1, <2>2 DEF SavedInv, LoneWriter, FreshFile, KeptFile
  <1>7. CASE tmp # NoFile
    <2>1. file' = tmp /\ tmp' = NoFile /\ age' = 0 /\ kept' = kept \cup {p} /\ UNCHANGED failed
      BY <1>7 DEF Rename
    <2>2. WritersOK'
      BY <1>1, <1>2, <1>7, <2>1 DEF SavedInv, WritersOK
    <2>3. ~raced => file'.data = session[p] /\ session[p] # Torn /\ file'.writers = {}
      <3>1. ~raced => tmp.data = session[p] /\ session[p] # Torn
        BY <1>1, <1>5 DEF SavedInv, RunnersOK, Session, Torn
      <3>2. tmp.writers \subseteq Hosts
        BY <1>7 DEF HostTypeOK, Inode
      <3>3. ~raced => \A q \in tmp.writers : q = p /\ persist[q] = "writing"
        BY <1>1, <1>7, <3>2 DEF SavedInv, LoneWriter, WritersOK, Saves
      <3> QED
        BY <1>1, <2>1, <3>1, <3>3
    <2>4. LoneWriter'
      BY <1>1, <1>2, <1>3, <2>1, <2>3 DEF SavedInv, LoneWriter, Saves
    <2>5. FreshFile'
      BY <2>1 DEF FreshFile
    <2>6. KeptFile'
      BY <1>1, <1>2, <1>3, <1>7, <2>1, <2>3 DEF SavedInv, KeptFile, OneSession, HostTypeOK
    <2> QED
      BY <1>4, <2>2, <2>4, <2>5, <2>6 DEF SavedInv
  <1> QED
    BY <1>6, <1>7

LEMMA WriteFailsSaved ==
    ASSUME HostTypeOK, SavedInv, NEW p \in Hosts, WriteFails(p)
    PROVE  SavedInv'
  <1>1. persist[p] \in {"idle", "written"} /\ failed'
    BY DEF WriteFails
  <1>2. \A q \in Hosts : /\ Runs(q)' <=> Runs(q)
                         /\ persist'[q] = IF q = p THEN "idle" ELSE persist[q]
    BY DEF WriteFails, HostTypeOK, Runs
  <1>3. UNCHANGED <<session, tmp, file, raced, clash>>
    BY DEF WriteFails, disk
  <1>4. RunnersOK' /\ OneSession'
    BY <1>1, <1>2, <1>3 DEF SavedInv, RunnersOK, OneSession
  <1>5. WritersOK' /\ LoneWriter'
    BY <1>1, <1>2, <1>3 DEF SavedInv, WritersOK, LoneWriter, Saves
  <1> QED
    BY <1>1, <1>4, <1>5 DEF SavedInv, FreshFile, KeptFile

LEMMA TickSaved ==
    ASSUME HostTypeOK, SavedInv, Tick
    PROVE  SavedInv'
  <1>1. UNCHANGED <<stage, session, persist, tmp, file, kept, raced, failed, clash>>
    BY DEF Tick, told
  <1>2. RunnersOK' /\ OneSession'
    BY <1>1 DEF SavedInv, RunnersOK, OneSession, Runs
  <1>3. WritersOK' /\ LoneWriter' /\ KeptFile'
    BY <1>1 DEF SavedInv, WritersOK, LoneWriter, KeptFile, Saves, Runs
  <1>4. ASSUME ~failed, NEW p \in kept, Runs(p) PROVE age' = 1 /\ due'[p]
    <2>1. p \in Hosts /\ ~due[p] /\ ~Saves(p) /\ persist[p] # "none"
      BY <1>4 DEF Tick, HostTypeOK, Saves, SavedInv, RunnersOK
    <2>2. age = 0
      BY <1>4, <2>1 DEF SavedInv, FreshFile
    <2>3. age' = 1
      BY <2>2, HostConstantsOK DEF Tick
    <2>4. due'[p] = Ticks(p) /\ Ticks(p)
      BY <2>1, Zenon DEF Tick, Ticks
    <2> QED
      BY <2>3, <2>4
  <1>5. FreshFile'
    BY <1>1, <1>4 DEF FreshFile, Runs
  <1> QED
    BY <1>2, <1>3, <1>5 DEF SavedInv

LEMMA NextSaved == HostTypeOK /\ SavedInv /\ [HostNext]_hostVars => SavedInv'
  <1> SUFFICES ASSUME HostTypeOK, SavedInv, [HostNext]_hostVars PROVE SavedInv'
    OBVIOUS
  <1>1. ASSUME NEW p \in Hosts, Bind(p) PROVE SavedInv'
    <2>1. CASE Ends(p)
      BY <2>1, EndsSaved
    <2>2. CASE ~Ends(p)
      BY <1>1, <2>2, QuietStep DEF Bind, HostTypeOK, Runs
    <2> QED
      BY <2>1, <2>2
  <1>2. ASSUME NEW p \in Hosts, Connect(p) PROVE SavedInv'
    <2>1. CASE Ends(p)
      BY <2>1, EndsSaved
    <2>2. CASE ~Ends(p)
      BY <1>2, <2>2, QuietStep DEF Connect, HostTypeOK, Runs
    <2> QED
      BY <2>1, <2>2
  <1>3. ASSUME NEW p \in Hosts, Attempt(p) \/ ConnectFails(p) \/ EmergencyStop(p) \/ Interrupt(p) PROVE SavedInv'
    BY <1>3, QuietStep DEF Attempt, ConnectFails, EmergencyStop, Interrupt, HostTypeOK, Runs
  <1>4. ASSUME NEW p \in Hosts, GiveUp(p) \/ Finish(p) \/ Crash(p) PROVE SavedInv'
    BY <1>4, EndsSaved DEF GiveUp, Finish, Crash
  <1>5. ASSUME NEW p \in Hosts, Load(p) \/ BeginWrite(p) \/ EndWrite(p) \/ Rename(p) \/ WriteFails(p)
        PROVE  SavedInv'
    BY <1>5, LoadSaved, BeginWriteSaved, EndWriteSaved, RenameSaved, WriteFailsSaved
  <1>6. CASE Tick
    BY <1>6, TickSaved
  <1>7. CASE UNCHANGED hostVars
    BY <1>7, QuietStep DEF hostVars, Runs
  <1> QED
    BY <1>1, <1>2, <1>3, <1>4, <1>5, <1>6, <1>7 DEF HostNext, Starts, Answers

\* A crash at any point of a write leaves no broken session file, and a host that
\* has saved stays on file as long as it runs (session.rs:76-100).
THEOREM HostSurvives == HostSpec => []SessionSurvives
  <1>1. HostSpec => []HostTypeOK
    BY HostTypes
  <1> QED
    BY <1>1, InitSaved, NextSaved, SavedSuffices, PTL DEF HostSpec

-----------------------------------------------------------------------------
(* The way of a frame *)

\* The reader holds frames of the channel only, the relay loop those of the
\* WebSocket only.
HandsApart ==
    /\ hand["reader"] \in Captured(captured) \cup {None}
    /\ hand["relay"] \in Relayed(relayed) \cup {None}

\* A sender that waits has a frame, waits once, and has no place yet.
WaitersApart ==
    /\ \A i \in DOMAIN waiting : hand[waiting[i]] # None /\ waiting[i] \notin granted
    /\ \A i, j \in DOMAIN waiting : waiting[i] = waiting[j] => i = j

\* Before the channel is there nothing has come out of it.
NothingBeforeOpen ==
    /\ channel = "connecting" <=> reader = "none"
    /\ channel = "connecting" =>
          /\ events = <<>> /\ arrived = <<>> /\ hand["reader"] = None
          /\ FromChannel(decoded) = <<>> /\ FromChannel(frameQueue) = <<>>

\* Where a frame can be, from the client's end backwards, each with all that
\* lies behind it.
AtDecoder == Range(decoded)
AtQueue == AtDecoder \cup Range(frameQueue)
AtSenders == AtQueue \cup {hand[s] : s \in Senders}
AtReader == AtSenders \cup Range(events)
OnWire == AtReader \cup wire
AtDrain == OnWire \cup {sending}

Once(seq) == \A i, j \in DOMAIN seq : seq[i] = seq[j] => i = j \/ seq[i] = Closed

\* A frame is in one place, and there once.
OnePlace ==
    /\ Once(decoded) /\ Once(frameQueue) /\ Once(events) /\ Once(sinkQueue)
    /\ Range(frameQueue) \cap AtDecoder = {}
    /\ \A s \in Senders : hand[s] \notin AtQueue
    /\ Range(events) \cap (AtSenders \ {Closed}) = {}
    /\ wire \cap AtReader = {}
    /\ sending # None => sending \notin OnWire
    /\ Range(sinkQueue) \cap AtDrain = {}

MediaInv ==
    /\ TypeOK /\ HandsApart /\ WaitersApart /\ NothingBeforeOpen
    /\ ClientKeepsOrder /\ OnePlace

-----------------------------------------------------------------------------
\* Frames and sequences

\* Every frame of one end is told from the others of that end and from those
\* of the other; one more is a new one.
LEMMA FramesDiffer ==
    ASSUME NEW n \in Nat, NEW m \in Nat
    PROVE  /\ Captured(n + 1) = Captured(n) \cup {<<"captured", n + 1>>}
           /\ Relayed(n + 1) = Relayed(n) \cup {<<"relayed", n + 1>>}
           /\ <<"captured", n + 1>> \notin Captured(n)
           /\ <<"relayed", n + 1>> \notin Relayed(n)
           /\ Captured(n) \cap Relayed(m) = {}
           /\ <<"captured", n + 1>> \notin Relayed(m)
           /\ <<"relayed", n + 1>> \notin Captured(m)
           /\ Closed \notin Captured(n) /\ Closed \notin Relayed(m)
           /\ n <= m => Captured(n) \subseteq Captured(m) /\ Relayed(n) \subseteq Relayed(m)
  BY DEF Captured, Relayed, Closed

LEMMA NewFrame ==
    ASSUME NEW n \in Nat
    PROVE  /\ <<"captured", n + 1>> \in Captured(n + 1)
           /\ <<"relayed", n + 1>> \in Relayed(n + 1)
  BY DEF Captured, Relayed

LEMMA NoneIsNoFrameYet ==
    ASSUME NEW n \in 0..MaxFrames, NEW m \in 0..MaxRelayed
    PROVE  /\ Captured(n) \subseteq Captured(MaxFrames)
           /\ Relayed(m) \subseteq Relayed(MaxRelayed)
           /\ None \notin Captured(n) /\ None \notin Relayed(m)
  <1>1. n \in Nat /\ n <= MaxFrames /\ m \in Nat /\ m <= MaxRelayed
    BY MediaConstantsOK
  <1>2. Captured(n) \subseteq Captured(MaxFrames) /\ Relayed(m) \subseteq Relayed(MaxRelayed)
    BY <1>1, FramesDiffer, MediaConstantsOK
  <1>3. QED
    BY <1>2, NoneIsNoFrame DEF Frame

LEMMA OnceAppend ==
    ASSUME NEW T, NEW s \in Seq(T), NEW x \in T
    PROVE  /\ Range(Append(s, x)) = Range(s) \cup {x}
           /\ Once(s) /\ (x \notin Range(s) \/ x = Closed) => Once(Append(s, x))
  <1> DEFINE t == Append(s, x)
  <1>1. /\ Len(s) \in Nat /\ DOMAIN s = 1..Len(s) /\ DOMAIN t = 1..(Len(s) + 1)
        /\ \A i \in 1..Len(s) : t[i] = s[i]
        /\ t[Len(s) + 1] = x
    OBVIOUS
  <1> HIDE DEF t
  <1>2. Range(t) = Range(s) \cup {x}
    BY <1>1 DEF Range
  <1>3. ASSUME Once(s), x \notin Range(s) \/ x = Closed
        PROVE  Once(t)
    <2> SUFFICES ASSUME NEW i \in DOMAIN t, NEW j \in DOMAIN t, t[i] = t[j], t[i] # Closed
                 PROVE  i = j
      BY DEF Once
    <2>1. CASE i \in 1..Len(s) /\ j \in 1..Len(s)
      BY <1>1, <1>3, <2>1 DEF Once
    <2>2. CASE i = Len(s) + 1 \/ j = Len(s) + 1
      BY <1>1, <1>3, <2>2 DEF Range
    <2>3. QED
      BY <1>1, <2>1, <2>2
  <1>4. QED
    BY <1>2, <1>3 DEF t

LEMMA OnceTail ==
    ASSUME NEW T, NEW s \in Seq(T), s # <<>>
    PROVE  /\ Range(s) = {Head(s)} \cup Range(Tail(s))
           /\ Once(s) => Once(Tail(s)) /\ (Head(s) \notin Range(Tail(s)) \/ Head(s) = Closed)
  <1> DEFINE t == Tail(s)
             h == Head(s)
  <1>1. /\ Len(s) \in Nat \ {0} /\ DOMAIN s = 1..Len(s) /\ DOMAIN t = 1..(Len(s) - 1)
        /\ \A i \in 1..(Len(s) - 1) : t[i] = s[i + 1]
        /\ s[1] = h
    OBVIOUS
  <1> HIDE DEF t, h
  <1>2. Range(s) = {h} \cup Range(t)
    <2>1. ASSUME NEW i \in DOMAIN s
          PROVE  s[i] \in {h} \cup Range(t)
      <3>1. CASE i = 1
        BY <1>1, <3>1
      <3>2. CASE i # 1
        <4>1. i - 1 \in DOMAIN t /\ t[i - 1] = s[i]
          BY <1>1, <3>2
        <4>2. QED
          BY <4>1 DEF Range
      <3>3. QED
        BY <3>1, <3>2
    <2>2. h \in Range(s)
      BY <1>1 DEF Range
    <2>3. ASSUME NEW i \in DOMAIN t
          PROVE  t[i] \in Range(s)
      <3>1. i + 1 \in DOMAIN s /\ s[i + 1] = t[i]
        BY <1>1
      <3>2. QED
        BY <3>1 DEF Range
    <2>4. QED
      BY <2>1, <2>2, <2>3 DEF Range
  <1>3. ASSUME Once(s)
        PROVE  Once(t) /\ (h \notin Range(t) \/ h = Closed)
    <2>1. Once(t)
      <3> SUFFICES ASSUME NEW i \in DOMAIN t, NEW j \in DOMAIN t, t[i] = t[j], t[i] # Closed
                   PROVE  i = j
        BY DEF Once
      <3>1. i + 1 \in DOMAIN s /\ j + 1 \in DOMAIN s /\ s[i + 1] = t[i] /\ s[j + 1] = t[j]
        BY <1>1
      <3>2. i + 1 = j + 1 /\ i \in Nat /\ j \in Nat
        BY <1>1, <1>3, <3>1 DEF Once
      <3>3. QED
        BY <3>2
    <2>2. ASSUME h \in Range(t), h # Closed
          PROVE  FALSE
      <3>1. PICK i \in DOMAIN t : t[i] = h
        BY <2>2 DEF Range
      <3>2. i + 1 \in DOMAIN s /\ s[i + 1] = s[1] /\ 1 \in DOMAIN s /\ i \in 1..(Len(s) - 1)
        BY <1>1, <3>1
      <3>3. i + 1 = 1
        BY <1>1, <1>3, <2>2, <3>2 DEF Once
      <3>4. QED
        BY <3>2, <3>3
    <2>3. QED
      BY <2>1, <2>2
  <1>4. QED
    BY <1>2, <1>3 DEF t, h

-----------------------------------------------------------------------------
\* Types

LEMMA FewSenders ==
    ASSUME NEW S, S \subseteq Senders
    PROVE  IsFiniteSet(S)
  <1>1. IsFiniteSet(Senders)
    <2>1. IsFiniteSet({} \cup {"reader"})
      BY FS_EmptySet, FS_AddElement, Zenon
    <2>2. IsFiniteSet(({} \cup {"reader"}) \cup {"relay"})
      BY <2>1, FS_AddElement, Zenon
    <2>3. Senders = ({} \cup {"reader"}) \cup {"relay"}
      BY DEF Senders
    <2>4. QED
      BY <2>2, <2>3
  <1>2. QED
    BY <1>1, FS_Subset

LEMMA MediaStarts == Init => MediaInv
  <1> SUFFICES ASSUME Init
               PROVE  MediaInv
    OBVIOUS
  <1> USE DEF Init
  <1>1. captured = 0 /\ relayed = 0 /\ 0 \in 0..MaxFrames /\ 0 \in 0..MaxRelayed
    BY MediaConstantsOK
  <1>2. HostOK /\ NetworkOK
    BY <1>1, MediaConstantsOK DEF HostOK, NetworkOK
  <1>3. SendersOK
    BY <1>1 DEF SendersOK, Senders
  <1>4. QueueOK
    BY FS_EmptySet, MediaConstantsOK DEF QueueOK
  <1>5. HandsApart /\ WaitersApart
    BY DEF HandsApart, WaitersApart, Senders
  <1>6. FromChannel(<<>>) = <<>>
    BY WithinEmpty DEF FromChannel
  <1>7. NothingBeforeOpen /\ ClientKeepsOrder
    BY <1>6 DEF NothingBeforeOpen, ClientKeepsOrder, Senders
  <1>8. OnePlace
    <2>1. Range(<<>>) = {}
      BY DEF Range
    <2>2. QED
      BY <2>1 DEF OnePlace, Once, AtQueue, AtDecoder
  <1>9. QED
    BY <1>2, <1>3, <1>4, <1>5, <1>7, <1>8 DEF MediaInv, TypeOK

\* The counters only grow, and with them what may be on the way.
LEMMA CountersGrow ==
    ASSUME MediaInv, Next \/ UNCHANGED vars
    PROVE  /\ captured \in 0..MaxFrames /\ captured' \in 0..MaxFrames
           /\ relayed \in 0..MaxRelayed /\ relayed' \in 0..MaxRelayed
           /\ Captured(captured) \subseteq Captured(captured')
           /\ Relayed(relayed) \subseteq Relayed(relayed')
  <1>1. captured \in 0..MaxFrames /\ relayed \in 0..MaxRelayed
    BY DEF MediaInv, TypeOK, HostOK, SendersOK
  <1>2. /\ captured' = captured \/ (captured < MaxFrames /\ captured' = captured + 1)
        /\ relayed' = relayed \/ (relayed < MaxRelayed /\ relayed' = relayed + 1)
    BY DEF Next, Scheduled, DrainTakes, DrainSends, DrainEnds, ReaderTakes, Reserve, Put, Poll,
           Capture, CaptureEnds, ChannelOpens, Arrive, ChannelCloses, RelayTakes, ReaderAborted,
           ReceiveEnds, vars, host, senders
  <1>3. /\ captured' \in 0..MaxFrames /\ captured <= captured' /\ captured' \in Nat /\ captured \in Nat
        /\ relayed' \in 0..MaxRelayed /\ relayed <= relayed' /\ relayed' \in Nat /\ relayed \in Nat
    BY <1>1, <1>2, MediaConstantsOK
  <1>4. QED
    BY <1>1, <1>3, FramesDiffer

LEMMA HostTyped ==
    ASSUME MediaInv, Next \/ UNCHANGED vars
    PROVE  HostOK'
  <1> DEFINE C == Captured(captured)
             D == Captured(captured')
  <1>1. C \subseteq D /\ captured' \in 0..MaxFrames
    BY CountersGrow
  <1>2. HostOK
    BY DEF MediaInv, TypeOK
  <1>3. sinkQueue \in Seq(D) /\ sending \in D \cup {None}
    <2> HIDE DEF C, D
    <2>1. sinkQueue \in Seq(C) /\ sending \in C \cup {None}
      BY <1>2 DEF HostOK, C
    <2>2. QED
      BY <1>1, <2>1, SeqMonotonic
  <1>4. CASE Capture
    <2>1. <<"captured", captured + 1>> \in D /\ captured' = captured + 1
      <3>1. captured \in Nat /\ captured' = captured + 1
        BY <1>2, <1>4, MediaConstantsOK DEF Capture, HostOK
      <3>2. QED
        BY <3>1, NewFrame
    <2>2. sinkQueue' \in Seq(D) /\ Len(sinkQueue') <= SinkCap
      <3> HIDE DEF D
      <3>1. QED
        BY <1>2, <1>3, <1>4, <2>1, MediaConstantsOK DEF Capture, HostOK
    <2>3. QED
      BY <1>1, <1>2, <1>3, <1>4, <2>2 DEF Capture, HostOK
  <1>5. CASE DrainTakes
    <2>1. captured' = captured
      BY <1>5 DEF DrainTakes
    <2> HIDE DEF D
    <2>2. Head(sinkQueue) \in D /\ Tail(sinkQueue) \in Seq(D) /\ Len(Tail(sinkQueue)) <= SinkCap
      BY <1>2, <1>3, <1>5, MediaConstantsOK DEF DrainTakes, HostOK
    <2>3. QED
      BY <1>1, <1>2, <1>5, <2>2 DEF DrainTakes, HostOK, D
  <1>6. CASE DrainSends \/ DrainEnds \/ CaptureEnds
    BY <1>1, <1>2, <1>3, <1>6 DEF DrainSends, DrainEnds, CaptureEnds, HostOK
  <1>7. CASE UNCHANGED host
    BY <1>1, <1>2, <1>3, <1>7 DEF host, HostOK
  <1>8. QED
    BY <1>4, <1>5, <1>6, <1>7
       DEF Next, Scheduled, ReaderTakes, Reserve, Put, Poll, ChannelOpens, Arrive, ChannelCloses,
           RelayTakes, ReaderAborted, ReceiveEnds, vars

LEMMA NetworkTyped ==
    ASSUME MediaInv, Next \/ UNCHANGED vars
    PROVE  NetworkOK'
  <1> DEFINE C == Captured(captured)
             D == Captured(captured')
  <1>1. C \subseteq D
    BY CountersGrow
  <1>2. NetworkOK /\ HostOK
    BY DEF MediaInv, TypeOK
  <1> HIDE DEF C, D
  <1>3. /\ wire \subseteq D /\ sending \in D \cup {None}
        /\ events \in Seq(D \cup {Closed}) /\ arrived \in Seq(D)
    <2>1. events \in Seq(C \cup {Closed}) /\ arrived \in Seq(C) /\ C \cup {Closed} \subseteq D \cup {Closed}
      BY <1>1, <1>2 DEF NetworkOK, C
    <2>2. QED
      BY <1>1, <1>2, <2>1, SeqMonotonic DEF NetworkOK, HostOK, C
  <1>4. CASE DrainSends
    BY <1>2, <1>3, <1>4 DEF DrainSends, NetworkOK, D
  <1>5. CASE ChannelOpens
    BY <1>2, <1>3, <1>5 DEF ChannelOpens, NetworkOK, D
  <1>6. ASSUME NEW f \in wire, Arrive(f)
        PROVE  NetworkOK'
    <2>1. f \in D
      BY <1>3, <1>6
    <2>2. Append(events, f) \in Seq(D \cup {Closed}) /\ Append(arrived, f) \in Seq(D)
      BY <1>3, <2>1
    <2>3. QED
      BY <1>2, <1>3, <1>6, <2>2 DEF Arrive, NetworkOK, D
  <1>7. CASE ChannelCloses
    <2>1. Append(events, Closed) \in Seq(D \cup {Closed})
      BY <1>3
    <2>2. QED
      BY <1>2, <1>3, <1>7, <2>1 DEF ChannelCloses, NetworkOK, D
  <1>8. CASE ReaderTakes
    <2>1. Tail(events) \in Seq(D \cup {Closed})
      BY <1>3, <1>8 DEF ReaderTakes
    <2>2. QED
      BY <1>2, <1>3, <1>8, <2>1 DEF ReaderTakes, NetworkOK, D
  <1>9. CASE UNCHANGED network
    BY <1>2, <1>3, <1>9 DEF network, NetworkOK, D
  <1>10. QED
    BY <1>4, <1>5, <1>6, <1>7, <1>8, <1>9
       DEF Next, Scheduled, DrainTakes, DrainEnds, Capture, CaptureEnds, Reserve, Put, Poll,
           RelayTakes, ReaderAborted, ReceiveEnds, vars

\* A new value for one sender.
LEMMA HandOf ==
    ASSUME NEW S, NEW h \in [Senders -> S], NEW s \in Senders, NEW x \in S
    PROVE  /\ [h EXCEPT ![s] = x] \in [Senders -> S]
           /\ [h EXCEPT ![s] = x][s] = x
           /\ \A t \in Senders : t # s => [h EXCEPT ![s] = x][t] = h[t]
  OBVIOUS

\* What each sender may hold after a step.
LEMMA HandsTyped ==
    ASSUME MediaInv, Next \/ UNCHANGED vars
    PROVE  HandsApart' /\ hand' \in [Senders -> Captured(captured') \cup Relayed(relayed') \cup {None}]
  <1> DEFINE C == Captured(captured)
             R == Relayed(relayed)
             D == Captured(captured')
             Q == Relayed(relayed')
             V == D \cup Q \cup {None}
  <1>1. C \subseteq D /\ R \subseteq Q /\ C \cup R \cup {None} \subseteq V
    BY CountersGrow
  <1>2. /\ hand \in [Senders -> C \cup R \cup {None}] /\ relayed \in Nat
        /\ hand["reader"] \in C \cup {None} /\ hand["relay"] \in R \cup {None}
        /\ events \in Seq(C \cup {Closed})
    BY MediaConstantsOK DEF MediaInv, TypeOK, SendersOK, NetworkOK, HandsApart
  <1>3. SUFFICES /\ hand' \in [Senders -> V]
                 /\ hand'["reader"] \in D \cup {None} /\ hand'["relay"] \in Q \cup {None}
    BY DEF HandsApart
  <1>4. "reader" \in Senders /\ "relay" \in Senders /\ None \in V
    BY DEF Senders
  <1>5. CASE ReaderTakes
    <2> HIDE DEF C, R, D, Q, V
    <2>1. Head(events) \in C \cup {Closed}
      BY <1>2, <1>5 DEF ReaderTakes
    <2>2. CASE Head(events) = Closed
      BY <1>1, <1>2, <1>5, <2>2 DEF ReaderTakes, V
    <2>3. CASE Head(events) # Closed
      <3>1. Head(events) \in C /\ hand' = [hand EXCEPT !["reader"] = Head(events)]
        BY <1>5, <2>1, <2>3 DEF ReaderTakes
      <3>2. QED
        BY <1>1, <1>2, <1>4, <3>1 DEF V
    <2>4. QED
      BY <2>2, <2>3
  <1>6. CASE RelayTakes
    <2>1. /\ hand' = [hand EXCEPT !["relay"] = <<"relayed", relayed + 1>>]
          /\ relayed' = relayed + 1
      BY <1>6 DEF RelayTakes
    <2>2. <<"relayed", relayed + 1>> \in Q
      BY <1>2, <2>1, NewFrame
    <2> HIDE DEF C, R, D, Q, V
    <2>3. QED
      BY <1>1, <1>2, <1>4, <2>1, <2>2 DEF V
  <1>7. ASSUME NEW s \in Senders, Reserve(s) \/ Put(s)
        PROVE  hand' = hand \/ hand' = [hand EXCEPT ![s] = None]
    BY <1>7 DEF Reserve, Put
  <1>8. CASE ReaderAborted
    BY <1>8, <1>1, <1>2, <1>4 DEF ReaderAborted
  <1>9. CASE ReceiveEnds
    <2>1. \A t \in Senders : hand'[t] = None \/ hand'[t] = hand[t]
      BY <1>9 DEF ReceiveEnds
    <2>2. hand' = [t \in Senders |-> hand'[t]]
      BY <1>9 DEF ReceiveEnds
    <2> HIDE DEF C, R, D, Q, V
    <2>3. \A t \in Senders : hand'[t] \in V
      BY <1>1, <1>2, <1>4, <2>1
    <2>4. hand' \in [Senders -> V]
      BY <2>2, <2>3
    <2>5. QED
      BY <1>1, <1>2, <1>4, <2>1, <2>4
  <1>10. ASSUME hand' = hand
         PROVE  /\ hand' \in [Senders -> V]
                /\ hand'["reader"] \in D \cup {None} /\ hand'["relay"] \in Q \cup {None}
    <2> HIDE DEF C, R, D, Q, V
    <2>1. QED
      BY <1>1, <1>2, <1>10
  <1>11. ASSUME NEW s \in Senders, hand' = [hand EXCEPT ![s] = None]
         PROVE  /\ hand' \in [Senders -> V]
                /\ hand'["reader"] \in D \cup {None} /\ hand'["relay"] \in Q \cup {None}
    <2> HIDE DEF C, R, D, Q, V
    <2>1. QED
      BY <1>1, <1>2, <1>4, <1>11
  <1> HIDE DEF C, R, D, Q, V
  <1>12. QED
    BY <1>5, <1>6, <1>7, <1>8, <1>9, <1>10, <1>11
       DEF Next, Scheduled, DrainTakes, DrainSends, DrainEnds, Capture, CaptureEnds, ChannelOpens,
           Arrive, ChannelCloses, Poll, vars, senders

\* What a step does to the senders that have a place and those that wait.
LEMMA WaitersStep ==
    ASSUME MediaInv, Next \/ UNCHANGED vars
    PROVE  WaitersApart' /\ waiting' \in Seq(Senders) /\ granted' \subseteq {s \in Senders : hand'[s] # None}
  <1>1. /\ waiting \in Seq(Senders) /\ granted \subseteq {s \in Senders : hand[s] # None}
        /\ hand \in [Senders -> Captured(captured) \cup Relayed(relayed) \cup {None}]
        /\ events \in Seq(Captured(captured) \cup {Closed})
    BY DEF MediaInv, TypeOK, SendersOK, NetworkOK
  <1>2. /\ DOMAIN waiting = 1..Len(waiting) /\ Len(waiting) \in Nat
        /\ \A i \in 1..Len(waiting) : waiting[i] \in Senders
        /\ \A i \in 1..Len(waiting) : hand[waiting[i]] # None /\ waiting[i] \notin granted
        /\ \A i, j \in 1..Len(waiting) : waiting[i] = waiting[j] => i = j
    BY <1>1 DEF MediaInv, WaitersApart
  <1>3. SUFFICES /\ waiting' \in Seq(Senders) /\ granted' \subseteq {s \in Senders : hand'[s] # None}
                 /\ \A i \in 1..Len(waiting') : hand'[waiting'[i]] # None /\ waiting'[i] \notin granted'
                 /\ \A i, j \in 1..Len(waiting') : waiting'[i] = waiting'[j] => i = j
    BY DEF WaitersApart
  <1>4. CASE ReaderTakes
    <2>1. /\ hand["reader"] = None /\ waiting' = waiting /\ granted' = granted
          /\ \A t \in Senders : t # "reader" => hand'[t] = hand[t]
      BY <1>1, <1>4 DEF ReaderTakes, Senders
    <2>2. QED
      BY <1>1, <1>2, <2>1
  <1>5. CASE RelayTakes
    <2>1. /\ hand["relay"] = None /\ waiting' = waiting /\ granted' = granted
          /\ \A t \in Senders : t # "relay" => hand'[t] = hand[t]
      BY <1>1, <1>5 DEF RelayTakes, Senders
    <2>2. QED
      BY <1>1, <1>2, <2>1
  <1>6. ASSUME NEW s \in Senders, Reserve(s)
        PROVE  /\ waiting' \in Seq(Senders) /\ granted' \subseteq {t \in Senders : hand'[t] # None}
               /\ \A i \in 1..Len(waiting') : hand'[waiting'[i]] # None /\ waiting'[i] \notin granted'
               /\ \A i, j \in 1..Len(waiting') : waiting'[i] = waiting'[j] => i = j
    <2>1. /\ hand[s] # None /\ s \notin granted
          /\ \A i \in 1..Len(waiting) : waiting[i] # s
      BY <1>6 DEF Reserve, Unserved, Contains
    <2>2. CASE receive = "ended"
      <3>1. /\ waiting' = waiting /\ granted' = granted
            /\ \A t \in Senders : t # s => hand'[t] = hand[t]
        BY <1>1, <1>6, <2>2 DEF Reserve
      <3>2. QED
        BY <1>1, <1>2, <2>1, <3>1
    <2>3. CASE hand' = hand /\ granted' = granted \cup {s} /\ waiting' = waiting
      BY <1>1, <1>2, <2>1, <2>3
    <2>4. CASE hand' = hand /\ waiting' = Append(waiting, s) /\ granted' = granted
      <3>1. /\ Len(waiting') = Len(waiting) + 1 /\ waiting' \in Seq(Senders)
            /\ \A i \in 1..Len(waiting) : waiting'[i] = waiting[i]
            /\ waiting'[Len(waiting) + 1] = s
        BY <1>1, <2>4
      <3>2. QED
        BY <1>1, <1>2, <2>1, <2>4, <3>1
    <2>5. QED
      BY <1>6, <2>2, <2>3, <2>4 DEF Reserve
  <1>7. ASSUME NEW s \in Senders, Put(s)
        PROVE  /\ waiting' \in Seq(Senders) /\ granted' \subseteq {t \in Senders : hand'[t] # None}
               /\ \A i \in 1..Len(waiting') : hand'[waiting'[i]] # None /\ waiting'[i] \notin granted'
               /\ \A i, j \in 1..Len(waiting') : waiting'[i] = waiting'[j] => i = j
    <2>1. /\ s \in granted /\ waiting' = waiting /\ granted' = granted \ {s}
          /\ \A t \in Senders : t # s => hand'[t] = hand[t]
      BY <1>1, <1>7 DEF Put
    <2>2. QED
      BY <1>1, <1>2, <2>1
  <1>8. CASE ReaderAborted
    <2>0. \A t \in Senders : t # "reader" => hand'[t] = hand[t]
      BY <1>1, <1>8 DEF ReaderAborted
    <2>1. CASE "reader" \in granted /\ waiting # <<>>
      <3>1. granted' = {Head(waiting)} /\ waiting' = <<>> /\ Head(waiting) = waiting[1] /\ 1 \in 1..Len(waiting)
        BY <1>1, <1>8, <2>1 DEF ReaderAborted
      <3>2. waiting[1] # "reader"
        BY <1>2, <2>1, <3>1
      <3>3. QED
        BY <1>2, <2>0, <3>1, <3>2
    <2>2. CASE ~("reader" \in granted /\ waiting # <<>>)
      <3> DEFINE W == Within(waiting, {"relay"})
      <3>1. granted' = granted \ {"reader"} /\ waiting' = W
        BY <1>8, <2>2 DEF ReaderAborted
      <3>2. W \in Seq({"relay"})
        BY <1>1, WithinType
      <3>3. Distinct(W) /\ Comes(W, waiting, Len(waiting))
        <4>1. Distinct(waiting)
          BY <1>2 DEF Distinct
        <4>2. QED
          BY <1>1, <4>1, WithinComes
      <3> HIDE DEF W
      <3>4. \A i \in 1..Len(W) : W[i] = "relay"
        BY <3>2
      <3>5. W \in Seq(Senders)
        BY <3>2, SeqMonotonic DEF Senders
      <3>6. ASSUME NEW i \in 1..Len(W)
            PROVE  hand'[W[i]] # None /\ W[i] \notin granted'
        <4>1. PICK j \in 1..Len(waiting) : W[i] = waiting[j]
          BY <3>3 DEF Comes
        <4>2. W[i] # "reader"
          BY <3>4
        <4>3. QED
          BY <1>2, <2>0, <3>1, <4>1, <4>2
      <3>7. QED
        BY <1>1, <2>0, <3>1, <3>3, <3>5, <3>6 DEF Distinct
    <2>3. QED
      BY <2>1, <2>2
  <1>9. CASE Poll
    <2>1. CASE waiting = <<>>
      BY <1>1, <1>2, <1>9, <2>1 DEF Poll
    <2>2. CASE waiting # <<>>
      <3>1. granted' = granted \cup {Head(waiting)} /\ waiting' = Tail(waiting) /\ hand' = hand
        BY <1>9, <2>2 DEF Poll
      <3>2. /\ Tail(waiting) \in Seq(Senders) /\ Len(Tail(waiting)) = Len(waiting) - 1
            /\ \A i \in 1..(Len(waiting) - 1) : Tail(waiting)[i] = waiting[i + 1]
            /\ Head(waiting) = waiting[1] /\ 1 \in 1..Len(waiting)
        BY <1>1, <2>2
      <3>3. \A i \in 1..(Len(waiting) - 1) : i + 1 \in 1..Len(waiting) /\ waiting[i + 1] # waiting[1]
        BY <1>2, <3>2
      <3>4. \A i, j \in 1..(Len(waiting) - 1) : waiting[i + 1] = waiting[j + 1] => i = j
        BY <1>2, <3>3
      <3>5. QED
        BY <1>1, <1>2, <3>1, <3>2, <3>3, <3>4
    <2>3. QED
      BY <2>1, <2>2
  <1>10. CASE ReceiveEnds
    BY <1>10 DEF ReceiveEnds
  <1>11. CASE UNCHANGED <<hand, waiting, granted>>
    BY <1>1, <1>2, <1>11
  <1>12. QED
    BY <1>4, <1>5, <1>6, <1>7, <1>8, <1>9, <1>10, <1>11
       DEF Next, Scheduled, DrainTakes, DrainSends, DrainEnds, Capture, CaptureEnds, ChannelOpens,
           Arrive, ChannelCloses, vars, senders

LEMMA SendersTyped ==
    ASSUME MediaInv, Next \/ UNCHANGED vars
    PROVE  SendersOK'
  <1>1. reader' \in {"none", "running", "ended"}
    <2>1. reader \in {"none", "running", "ended"}
      BY DEF MediaInv, TypeOK, SendersOK
    <2>2. QED
      BY <2>1 DEF Next, Scheduled, DrainTakes, DrainSends, DrainEnds, ReaderTakes, Reserve, Put, Poll,
           Capture, CaptureEnds, ChannelOpens, Arrive, ChannelCloses, RelayTakes, ReaderAborted,
           ReceiveEnds, vars, senders
  <1>2. QED
    BY <1>1, CountersGrow, HandsTyped, WaitersStep DEF SendersOK

\* Room for the places that are kept.
LEMMA QueueHasRoom ==
    ASSUME MediaInv, Next \/ UNCHANGED vars
    PROVE  Len(frameQueue') + Cardinality(granted') <= FrameCap
  <1>1. /\ Len(frameQueue) + Cardinality(granted) <= FrameCap /\ FrameCap \in Nat \ {0}
        /\ frameQueue \in Seq(Captured(captured) \cup Relayed(relayed)) /\ Len(frameQueue) \in Nat
        /\ granted \subseteq Senders /\ waiting \in Seq(Senders)
    BY MediaConstantsOK DEF MediaInv, TypeOK, SendersOK, QueueOK
  <1>2. IsFiniteSet(granted) /\ Cardinality(granted) \in Nat
    BY <1>1, FewSenders, FS_CardinalityType
  <1>3. ASSUME NEW s \in Senders, Reserve(s)
        PROVE  Len(frameQueue') + Cardinality(granted') <= FrameCap
    <2>1. CASE granted' = granted
      BY <1>1, <1>3, <2>1 DEF Reserve
    <2>2. CASE granted' = granted \cup {s} /\ HasRoom
      <3>1. Cardinality(granted') = Cardinality(granted) + 1
        BY <1>2, <1>3, <2>2, FS_AddElement DEF Reserve, Unserved
      <3>2. QED
        BY <1>1, <1>2, <1>3, <2>2, <3>1 DEF Reserve, HasRoom
    <2>3. QED
      BY <1>3, <2>1, <2>2 DEF Reserve
  <1>4. ASSUME NEW s \in Senders, Put(s)
        PROVE  Len(frameQueue') + Cardinality(granted') <= FrameCap
    <2>1. s \in granted /\ granted' = granted \ {s} /\ frameQueue' = Append(frameQueue, hand[s])
      BY <1>4 DEF Put
    <2>2. Cardinality(granted') = Cardinality(granted) - 1
      BY <1>2, <2>1, FS_RemoveElement
    <2>3. Len(frameQueue') = Len(frameQueue) + 1
      BY <1>1, <2>1
    <2>4. QED
      BY <1>1, <1>2, <2>2, <2>3
  <1>5. CASE ReaderAborted
    <2>1. frameQueue' = frameQueue
      BY <1>5 DEF ReaderAborted
    <2>2. CASE "reader" \in granted /\ waiting # <<>>
      <3>1. granted' = {Head(waiting)}
        BY <1>5, <2>2 DEF ReaderAborted
      <3>2. Cardinality(granted') = 1
        BY <3>1, FS_Singleton
      <3>3. Cardinality(granted) # 0
        BY <1>2, <2>2, FS_EmptySet
      <3>4. QED
        BY <1>1, <1>2, <2>1, <3>2, <3>3
    <2>3. CASE ~("reader" \in granted /\ waiting # <<>>)
      <3>1. granted' \subseteq granted
        BY <1>5, <2>3 DEF ReaderAborted
      <3>2. Cardinality(granted') <= Cardinality(granted) /\ Cardinality(granted') \in Nat
        BY <1>2, <3>1, FS_Subset, FS_CardinalityType
      <3>3. QED
        BY <1>1, <1>2, <2>1, <3>2
    <2>4. QED
      BY <2>2, <2>3
  <1>6. CASE Poll
    <2>1. frameQueue # <<>> /\ frameQueue' = Tail(frameQueue)
      BY <1>6 DEF Poll
    <2>2. Len(frameQueue') = Len(frameQueue) - 1
      BY <1>1, <2>1
    <2>3. granted' = granted \/ granted' = granted \cup {Head(waiting)}
      BY <1>6 DEF Poll
    <2>4. Cardinality(granted') <= Cardinality(granted) + 1 /\ Cardinality(granted') \in Nat
      BY <1>2, <2>3, FS_AddElement
    <2>5. QED
      BY <1>1, <1>2, <2>2, <2>4
  <1>7. CASE ReceiveEnds
    <2>1. frameQueue' = <<>> /\ granted' = {}
      BY <1>7 DEF ReceiveEnds
    <2>2. QED
      BY <1>1, <2>1, FS_EmptySet
  <1>8. CASE UNCHANGED <<frameQueue, granted>>
    BY <1>1, <1>8
  <1>9. QED
    BY <1>3, <1>4, <1>5, <1>6, <1>7, <1>8
       DEF Next, Scheduled, DrainTakes, DrainSends, DrainEnds, Capture, CaptureEnds, ChannelOpens,
           Arrive, ChannelCloses, ReaderTakes, RelayTakes, vars, senders

LEMMA QueueTyped ==
    ASSUME MediaInv, Next \/ UNCHANGED vars
    PROVE  QueueOK'
  <1> DEFINE V == Captured(captured) \cup Relayed(relayed)
             W == Captured(captured') \cup Relayed(relayed')
  <1>1. V \subseteq W
    BY CountersGrow
  <1> HIDE DEF V, W
  <1>2. /\ receive \in {"running", "ended"} /\ frameQueue \in Seq(V) /\ decoded \in Seq(V)
        /\ hand \in [Senders -> V \cup {None}] /\ granted \subseteq {s \in Senders : hand[s] # None}
    BY DEF MediaInv, TypeOK, QueueOK, SendersOK, V
  <1>3. frameQueue \in Seq(W) /\ decoded \in Seq(W)
    BY <1>1, <1>2, SeqMonotonic
  <1>4. SUFFICES receive' \in {"running", "ended"} /\ frameQueue' \in Seq(W) /\ decoded' \in Seq(W)
    BY QueueHasRoom DEF QueueOK, W
  <1>5. ASSUME NEW s \in Senders, Put(s)
        PROVE  frameQueue' \in Seq(W)
    <2>1. hand[s] \in W /\ frameQueue' = Append(frameQueue, hand[s])
      BY <1>1, <1>2, <1>5 DEF Put
    <2>2. QED
      BY <1>3, <2>1
  <1>6. CASE Poll
    <2>1. Head(frameQueue) \in W /\ Tail(frameQueue) \in Seq(W)
      BY <1>3, <1>6 DEF Poll
    <2>2. QED
      BY <1>2, <1>3, <1>6, <2>1 DEF Poll
  <1>7. CASE ReceiveEnds
    BY <1>3, <1>7 DEF ReceiveEnds
  <1>8. CASE UNCHANGED <<receive, frameQueue, decoded>>
    BY <1>2, <1>3, <1>8
  <1>9. ASSUME NEW s \in Senders, Reserve(s) \/ Put(s)
        PROVE  UNCHANGED <<receive, decoded>> /\ (Reserve(s) => UNCHANGED frameQueue)
    BY <1>9 DEF Reserve, Put
  <1>10. QED
    BY <1>2, <1>3, <1>5, <1>6, <1>7, <1>8, <1>9
       DEF Next, Scheduled, DrainTakes, DrainSends, DrainEnds, Capture, CaptureEnds, ChannelOpens,
           Arrive, ChannelCloses, ReaderTakes, RelayTakes, ReaderAborted, vars

-----------------------------------------------------------------------------
\* Order

\* The sequences that the order is about.
LEMMA PathTypes ==
    ASSUME MediaInv
    PROVE  /\ decoded \in Seq(Frame) /\ frameQueue \in Seq(Frame) /\ arrived \in Seq(Frame)
           /\ events \in Seq(Frame \cup {Closed})
           /\ events \in Seq(Captured(MaxFrames) \cup {Closed})
           /\ hand["reader"] \in Captured(MaxFrames) \cup {None}
           /\ hand["relay"] \in Relayed(MaxRelayed) \cup {None}
           /\ wire \subseteq Captured(MaxFrames)
           /\ hand \in [Senders -> Frame \cup {None}]
           /\ granted \subseteq {s \in Senders : hand[s] # None}
           /\ Captured(MaxFrames) \subseteq Frame /\ Relayed(MaxRelayed) \subseteq Frame
  <1> DEFINE C == Captured(captured)
             R == Relayed(relayed)
  <1>1. captured \in 0..MaxFrames /\ relayed \in 0..MaxRelayed
    BY DEF MediaInv, TypeOK, HostOK, SendersOK
  <1>2. C \subseteq Captured(MaxFrames) /\ R \subseteq Relayed(MaxRelayed)
    BY <1>1, NoneIsNoFrameYet
  <1>3. /\ C \subseteq Frame /\ C \cup R \subseteq Frame /\ C \cup {Closed} \subseteq Frame \cup {Closed}
        /\ C \cup {Closed} \subseteq Captured(MaxFrames) \cup {Closed}
    BY <1>2 DEF Frame
  <1> HIDE DEF C, R
  <1>4. /\ decoded \in Seq(C \cup R) /\ frameQueue \in Seq(C \cup R) /\ arrived \in Seq(C)
        /\ events \in Seq(C \cup {Closed}) /\ wire \subseteq C
        /\ hand \in [Senders -> C \cup R \cup {None}]
        /\ granted \subseteq {s \in Senders : hand[s] # None}
        /\ hand["reader"] \in C \cup {None} /\ hand["relay"] \in R \cup {None}
    BY DEF MediaInv, TypeOK, NetworkOK, QueueOK, SendersOK, HandsApart, C, R
  <1>5. /\ decoded \in Seq(Frame) /\ frameQueue \in Seq(Frame) /\ arrived \in Seq(Frame)
        /\ events \in Seq(Frame \cup {Closed}) /\ events \in Seq(Captured(MaxFrames) \cup {Closed})
    BY <1>3, <1>4, SeqMonotonic
  <1>6. QED
    BY <1>2, <1>3, <1>4, <1>5 DEF Frame

\* What the channel contributed, when a sequence grows or is taken from.
LEMMA ChannelAppend ==
    ASSUME NEW s \in Seq(Frame \cup {Closed}), NEW x \in Frame \cup {Closed}
    PROVE  FromChannel(Append(s, x)) = IF x \in Captured(MaxFrames)
                                       THEN Append(FromChannel(s), x) ELSE FromChannel(s)
  BY WithinAppend DEF FromChannel, Joined

LEMMA ChannelTail ==
    ASSUME NEW s \in Seq(Frame \cup {Closed}), s # <<>>
    PROVE  FromChannel(s) = IF Head(s) \in Captured(MaxFrames)
                            THEN <<Head(s)>> \o FromChannel(Tail(s)) ELSE FromChannel(Tail(s))
  BY WithinHeadTail DEF FromChannel

LEMMA ChannelKinds ==
    /\ FromChannel(<<>>) = <<>>
    /\ Closed \notin Captured(MaxFrames)
    /\ \A x \in Relayed(MaxRelayed) : x \notin Captured(MaxFrames)
    /\ None \notin Captured(MaxFrames) /\ None \notin Relayed(MaxRelayed)
  <1>1. MaxFrames \in Nat /\ MaxRelayed \in Nat
    BY MediaConstantsOK
  <1>2. FromChannel(<<>>) = <<>>
    BY WithinEmpty DEF FromChannel
  <1>3. QED
    BY <1>1, <1>2, FramesDiffer, NoneIsNoFrame DEF Frame

LEMMA OpensEmpty ==
    ASSUME MediaInv, Next \/ UNCHANGED vars
    PROVE  NothingBeforeOpen'
  <1>1. NothingBeforeOpen /\ NetworkOK /\ SendersOK
    BY DEF MediaInv, TypeOK
  <1>2. channel' = "connecting" <=> reader' = "none"
    BY <1>1 DEF NothingBeforeOpen, Next, Scheduled, DrainTakes, DrainSends, DrainEnds, ReaderTakes, Reserve, Put, Poll,
           Capture, CaptureEnds, ChannelOpens, Arrive, ChannelCloses, RelayTakes, ReaderAborted,
           ReceiveEnds, vars, senders, network, NetworkOK, SendersOK
  <1>3. ASSUME channel' = "connecting"
        PROVE  /\ events' = <<>> /\ arrived' = <<>> /\ hand'["reader"] = None
               /\ FromChannel(decoded') = <<>> /\ FromChannel(frameQueue') = <<>>
    <2>1. channel = "connecting"
      BY <1>3 DEF Next, Scheduled, DrainTakes, DrainSends, DrainEnds, ReaderTakes, Reserve, Put, Poll,
           Capture, CaptureEnds, ChannelOpens, Arrive, ChannelCloses, RelayTakes, ReaderAborted,
           ReceiveEnds, vars, network
    <2>2. /\ events = <<>> /\ arrived = <<>> /\ hand["reader"] = None /\ reader = "none"
          /\ FromChannel(decoded) = <<>> /\ FromChannel(frameQueue) = <<>>
      BY <1>1, <2>1 DEF NothingBeforeOpen
    <2>3. hand \in [Senders -> Frame \cup {None}] /\ "reader" \in Senders
      BY PathTypes DEF Senders
    <2>4. ASSUME NEW s \in Senders, Put(s)
          PROVE  UNCHANGED <<events, arrived, decoded>> /\ hand'["reader"] = None /\ FromChannel(frameQueue') = <<>>
      <3>1. /\ s \in granted /\ frameQueue' = Append(frameQueue, hand[s])
            /\ hand' = [hand EXCEPT ![s] = None] /\ UNCHANGED <<events, arrived, decoded>>
        BY <2>4 DEF Put, network
      <3>2. s = "relay" /\ hand[s] # None
        BY <2>2, <3>1, PathTypes DEF Senders
      <3>3. hand[s] \in Relayed(MaxRelayed)
        BY <3>2, PathTypes
      <3>4. FromChannel(Append(frameQueue, hand[s])) = FromChannel(frameQueue)
        <4>1. frameQueue \in Seq(Frame \cup {Closed})
          BY PathTypes, SeqMonotonic
        <4>2. hand[s] \in Frame \cup {Closed} /\ hand[s] \notin Captured(MaxFrames)
          BY <3>3, PathTypes, ChannelKinds
        <4>3. QED
          BY <4>1, <4>2, ChannelAppend
      <3>5. QED
        BY <2>2, <2>3, <3>1, <3>4
    <2>5. CASE Poll
      <3>1. /\ frameQueue # <<>> /\ frameQueue' = Tail(frameQueue) /\ decoded' = Append(decoded, Head(frameQueue))
            /\ UNCHANGED <<events, arrived, hand>>
        BY <2>5 DEF Poll, network
      <3>2. frameQueue \in Seq(Frame) /\ decoded \in Seq(Frame) /\ Head(frameQueue) \in Frame
        BY <3>1, PathTypes
      <3>3. frameQueue \in Seq(Frame \cup {Closed}) /\ decoded \in Seq(Frame \cup {Closed})
        BY <3>2, SeqMonotonic
      <3>4. Head(frameQueue) \notin Captured(MaxFrames) /\ FromChannel(Tail(frameQueue)) = <<>>
        <4> DEFINE rest == FromChannel(Tail(frameQueue))
        <4>1. rest \in Seq(Captured(MaxFrames))
          <5>1. Tail(frameQueue) \in Seq(Frame)
            BY <3>1, <3>2
          <5>2. QED
            BY <5>1, WithinType DEF FromChannel
        <4>2. FromChannel(frameQueue) = IF Head(frameQueue) \in Captured(MaxFrames)
                                        THEN <<Head(frameQueue)>> \o rest ELSE rest
          BY <3>1, <3>3, ChannelTail
        <4> HIDE DEF rest
        <4>3. <<Head(frameQueue)>> \o rest # <<>>
          BY <4>1
        <4>4. QED
          BY <2>2, <4>2, <4>3 DEF rest
      <3>5. FromChannel(decoded') = FromChannel(decoded)
        BY <3>1, <3>2, <3>3, <3>4, ChannelAppend
      <3>6. QED
        BY <2>2, <3>1, <3>4, <3>5
    <2>6. CASE ReceiveEnds
      <3>1. frameQueue' = <<>> /\ hand'["reader"] = None /\ UNCHANGED <<events, arrived, decoded>>
        BY <2>2, <2>3, <2>6 DEF ReceiveEnds, network
      <3>2. QED
        BY <2>2, <3>1, ChannelKinds
    <2>7. CASE RelayTakes
      <3>1. hand'["reader"] = None /\ UNCHANGED <<events, arrived, decoded, frameQueue>>
        BY <2>2, <2>3, <2>7 DEF RelayTakes, network
      <3>2. QED
        BY <2>2, <3>1
    <2>8. ASSUME NEW s \in Senders, Reserve(s)
          PROVE  UNCHANGED <<events, arrived, decoded, frameQueue>> /\ hand'["reader"] = None
      BY <2>2, <2>3, <2>8 DEF Reserve, network
    <2>9. CASE UNCHANGED <<events, arrived, decoded, frameQueue, hand>>
      BY <2>2, <2>9
    <2>10. QED
      BY <1>3, <2>1, <2>2, <2>4, <2>5, <2>6, <2>7, <2>8, <2>9
         DEF Next, Scheduled, DrainTakes, DrainSends, DrainEnds, Capture, CaptureEnds, ChannelOpens,
             Arrive, ChannelCloses, ReaderTakes, ReaderAborted, vars, senders, network
  <1>4. QED
    BY <1>2, <1>3 DEF NothingBeforeOpen

LEMMA OrderKept ==
    ASSUME MediaInv, Next \/ UNCHANGED vars
    PROVE  ClientKeepsOrder'
  <1> DEFINE C == Captured(MaxFrames)
             P == FromChannel(decoded \o frameQueue)
             H == InHand("reader")
             E == FromChannel(events)
  <1> SUFFICES ASSUME reader' = "running", receive' = "running"
               PROVE  arrived' = P' \o H' \o E'
    BY DEF ClientKeepsOrder
  <1>0. /\ decoded \in Seq(Frame) /\ frameQueue \in Seq(Frame) /\ arrived \in Seq(Frame)
        /\ events \in Seq(Frame \cup {Closed}) /\ events \in Seq(C \cup {Closed})
        /\ hand \in [Senders -> Frame \cup {None}]
        /\ hand["reader"] \in C \cup {None}
        /\ "reader" \in Senders /\ "relay" \in Senders /\ None \notin C
        /\ decoded \o frameQueue \in Seq(Frame)
    BY PathTypes, ChannelKinds DEF Senders
  <1>1. P \in Seq(C) /\ H \in Seq(C) /\ E \in Seq(C)
    <2>1. P \in Seq(C) /\ E \in Seq(C)
      BY <1>0, WithinType DEF FromChannel
    <2>2. H \in Seq(C)
      <3> HIDE DEF C
      <3>1. QED
        BY <1>0 DEF InHand
    <2>3. QED
      BY <2>1, <2>2
  <1>2. CASE ChannelOpens
    <2>1. /\ events = <<>> /\ arrived = <<>> /\ hand["reader"] = None
          /\ FromChannel(decoded) = <<>> /\ FromChannel(frameQueue) = <<>>
      BY <1>2 DEF ChannelOpens, MediaInv, NothingBeforeOpen
    <2>2. P = FromChannel(decoded) \o FromChannel(frameQueue)
      BY <1>0, WithinConcat DEF FromChannel
    <2>3. UNCHANGED <<arrived, decoded, frameQueue, hand, events>>
      BY <1>2 DEF ChannelOpens
    <2>4. P' = P /\ H' = H /\ E' = E
      BY <2>3 DEF InHand, FromChannel
    <2>5. P = <<>> /\ H = <<>> /\ E = <<>>
      BY <2>1, <2>2, ChannelKinds DEF InHand
    <2> HIDE DEF P, H, E
    <2>6. QED
      BY <2>1, <2>3, <2>4, <2>5
  <1>3. ASSUME ~ChannelOpens
        PROVE  arrived' = P' \o H' \o E'
    <2>1. reader = "running" /\ receive = "running"
      BY <1>3 DEF Next, Scheduled, DrainTakes, DrainSends, DrainEnds, ReaderTakes, Reserve, Put, Poll,
           Capture, CaptureEnds, Arrive, ChannelCloses, RelayTakes, ReaderAborted,
           ReceiveEnds, vars, senders
    <2>2. arrived = P \o H \o E
      BY <2>1 DEF MediaInv, ClientKeepsOrder
    <2>3. ASSUME NEW f \in wire, Arrive(f)
          PROVE  arrived' = P' \o H' \o E'
      <3>1. P' = P /\ H' = H
        BY <2>3 DEF Arrive, InHand, FromChannel, senders
      <3>2. CASE events' = Append(events, f) /\ arrived' = Append(arrived, f)
        <4>1. f \in C /\ f \in Frame \cup {Closed}
          BY PathTypes
        <4>2. E' = Append(E, f)
          <5>1. FromChannel(Append(events, f)) = Append(FromChannel(events), f)
            BY <1>0, <4>1, ChannelAppend
          <5>2. QED
            BY <3>2, <5>1 DEF FromChannel
        <4>3. Append(P \o H \o E, f) = P \o H \o Append(E, f)
          <5> HIDE DEF P, H, E, C
          <5>1. f \in C
            BY <4>1
          <5>2. P \in Seq(C) /\ H \in Seq(C) /\ E \in Seq(C)
            BY <1>1
          <5>3. ASSUME NEW p \in Seq(C), NEW h \in Seq(C), NEW e \in Seq(C), NEW x \in C
                PROVE  Append(p \o h \o e, x) = p \o h \o Append(e, x)
            OBVIOUS
          <5>4. QED
            BY ONLY <5>1, <5>2, <5>3, Zenon
        <4>4. QED
          BY <2>2, <3>1, <3>2, <4>2, <4>3
      <3>3. CASE UNCHANGED <<events, arrived>>
        <4>1. E' = E
          BY <3>3 DEF FromChannel
        <4>2. QED
          BY <2>2, <3>1, <3>3, <4>1
      <3>4. QED
        BY <2>3, <3>2, <3>3 DEF Arrive
    <2>4. CASE ChannelCloses
      <3>1. P' = P /\ H' = H /\ arrived' = arrived /\ events' = Append(events, Closed)
        BY <2>4 DEF ChannelCloses, InHand, FromChannel, senders
      <3>2. FromChannel(Append(events, Closed)) = FromChannel(events)
        BY <1>0, ChannelAppend, ChannelKinds
      <3>3. E' = E
        BY <3>1, <3>2 DEF FromChannel
      <3>4. QED
        BY <2>2, <3>1, <3>3
    <2>5. CASE ReaderTakes
      <3>1. /\ hand["reader"] = None /\ events # <<>> /\ events' = Tail(events) /\ Head(events) # Closed
            /\ hand' = [hand EXCEPT !["reader"] = Head(events)]
            /\ UNCHANGED <<arrived, decoded, frameQueue>>
        BY <2>1, <2>5 DEF ReaderTakes
      <3>2. Head(events) \in C /\ P' = P
        <4>1. Head(events) \in C \cup {Closed}
          <5> HIDE DEF C
          <5>1. QED
            BY <1>0, <3>1
        <4>2. QED
          BY <3>1, <4>1 DEF FromChannel
      <3>3. H = <<>> /\ H' = <<Head(events)>>
        <4>1. hand'["reader"] = Head(events) /\ Head(events) # None
          BY <1>0, <3>1, <3>2
        <4>2. QED
          BY <3>1, <4>1 DEF InHand
      <3>4. E = <<Head(events)>> \o E'
        <4>1. FromChannel(events) = <<Head(events)>> \o FromChannel(Tail(events))
          BY <1>0, <3>1, <3>2, ChannelTail
        <4>2. QED
          BY <3>1, <4>1 DEF FromChannel
      <3>5. E' \in Seq(C)
        <4>1. Tail(events) \in Seq(Frame \cup {Closed})
          BY <1>0, <3>1
        <4>2. QED
          BY <3>1, <4>1, WithinType DEF FromChannel
      <3> DEFINE h == Head(events)
                 G == E'
      <3>6. P \o <<>> \o (<<h>> \o G) = P \o <<h>> \o G
        <4> HIDE DEF P, G, h, C
        <4>1. h \in C
          BY <3>2 DEF h
        <4>2. QED
          BY <1>1, <3>5, <4>1 DEF G
      <3>7. QED
        BY <2>2, <3>1, <3>2, <3>3, <3>4, <3>6
    <2>6. ASSUME NEW s \in Senders, Put(s)
          PROVE  arrived' = P' \o H' \o E'
      <3> DEFINE x == hand[s]
      <3>1. /\ frameQueue' = Append(frameQueue, x) /\ hand' = [hand EXCEPT ![s] = None]
            /\ UNCHANGED <<arrived, decoded, events>> /\ x # None /\ x \in Frame
        BY <2>6, PathTypes DEF Put, network
      <3>2. E' = E /\ decoded' \o frameQueue' = Append(decoded \o frameQueue, x)
        <4> HIDE DEF x
        <4>1. decoded \o Append(frameQueue, x) = Append(decoded \o frameQueue, x)
          BY <1>0, <3>1
        <4>2. QED
          BY <3>1, <4>1 DEF FromChannel
      <3>3. FromChannel(Append(decoded \o frameQueue, x))
              = IF x \in C THEN Append(P, x) ELSE P
        <4>1. decoded \o frameQueue \in Seq(Frame \cup {Closed}) /\ x \in Frame \cup {Closed}
          BY <1>0, <3>1, SeqMonotonic
        <4> HIDE DEF x
        <4>2. QED
          BY <4>1, ChannelAppend
      <3>4. P' = IF x \in C THEN Append(P, x) ELSE P
        BY <3>2, <3>3 DEF FromChannel
      <3>5. CASE s = "reader"
        <4>1. x \in C /\ H = <<x>> /\ H' = <<>>
          BY <1>0, <3>1, <3>5 DEF InHand
        <4> HIDE DEF P, H, E, x, C
        <4>2. Append(P, x) \o <<>> \o E = P \o <<x>> \o E
          BY <1>1, <4>1
        <4>3. QED
          BY <2>2, <3>1, <3>2, <3>4, <4>1, <4>2
      <3>6. CASE s = "relay"
        <4>1. x \notin C /\ H' = H
          <5>1. x \in Relayed(MaxRelayed)
            BY <3>1, <3>6, PathTypes
          <5>2. hand'["reader"] = hand["reader"]
            BY <1>0, <3>1, <3>6
          <5>3. QED
            BY <5>1, <5>2, ChannelKinds DEF InHand
        <4>2. QED
          BY <2>2, <3>1, <3>2, <3>4, <4>1
      <3>7. QED
        BY <3>5, <3>6 DEF Senders
    <2>7. CASE Poll
      <3>1. /\ frameQueue # <<>> /\ frameQueue' = Tail(frameQueue)
            /\ decoded' = Append(decoded, Head(frameQueue))
            /\ UNCHANGED <<arrived, hand, events>>
        BY <2>7 DEF Poll, network
      <3>2. Append(decoded, Head(frameQueue)) \o Tail(frameQueue) = decoded \o frameQueue
        BY <1>0, <3>1
      <3>3. P' = P /\ H' = H /\ E' = E
        BY <3>1, <3>2 DEF FromChannel, InHand
      <3>4. QED
        BY <2>2, <3>1, <3>3
    <2>8. CASE RelayTakes
      <3>1. hand'["reader"] = hand["reader"] /\ UNCHANGED <<arrived, decoded, frameQueue, events>>
        BY <1>0, <2>8 DEF RelayTakes, network
      <3>2. P' = P /\ H' = H /\ E' = E
        BY <3>1 DEF FromChannel, InHand
      <3>3. QED
        BY <2>2, <3>1, <3>2
    <2>9. ASSUME NEW s \in Senders, Reserve(s)
          PROVE  UNCHANGED <<arrived, decoded, frameQueue, events, hand>>
      BY <2>1, <2>9 DEF Reserve, network
    <2>10. CASE UNCHANGED <<arrived, decoded, frameQueue, events, hand>>
      BY <2>2, <2>10 DEF FromChannel, InHand
    <2>11. ~ReaderAborted /\ ~ReceiveEnds
      BY DEF ReaderAborted, ReceiveEnds
    <2> HIDE DEF P, H, E
    <2>12. QED
      BY <1>3, <2>3, <2>4, <2>5, <2>6, <2>7, <2>8, <2>9, <2>10, <2>11
         DEF Next, Scheduled, DrainTakes, DrainSends, DrainEnds, Capture, CaptureEnds, vars, senders, network
  <1>4. QED
    BY <1>2, <1>3

-----------------------------------------------------------------------------
\* Places

\* OnePlace, said of the sets alone: d what is decoded, q what is queued, r and
\* l what the reader and the relay loop hold, e the events, w the wire, x what
\* the drain task holds, k the host's queue.
Apart(d, q, r, l, e, w, x, k) ==
    /\ q \cap d = {}
    /\ r \notin d \cup q /\ l \notin d \cup q
    /\ e \cap ((d \cup q \cup {r, l}) \ {Closed}) = {}
    /\ w \cap (d \cup q \cup {r, l} \cup e) = {}
    /\ x # None => x \notin d \cup q \cup {r, l} \cup e \cup w
    /\ k \cap (d \cup q \cup {r, l} \cup e \cup w \cup {x}) = {}

OnceEach == Once(decoded) /\ Once(frameQueue) /\ Once(events) /\ Once(sinkQueue)
Places == Apart(Range(decoded), Range(frameQueue), hand["reader"], hand["relay"],
                Range(events), wire, sending, Range(sinkQueue))

LEMMA OnePlaceIsApart ==
    OnePlace <=> OnceEach /\ Places
  <1>1. {hand[s] : s \in Senders} = {hand["reader"], hand["relay"]}
    BY DEF Senders
  <1>2. (\A s \in Senders : hand[s] \notin AtQueue) <=>
            hand["reader"] \notin AtQueue /\ hand["relay"] \notin AtQueue
    BY DEF Senders
  <1>3. QED
    BY <1>1, <1>2 DEF OnePlace, OnceEach, Places, Apart, AtDecoder, AtQueue, AtSenders, AtReader,
                      OnWire, AtDrain

LEMMA RangeOf ==
    ASSUME NEW S, NEW s \in Seq(S)
    PROVE  Range(s) \subseteq S
  BY DEF Range

\* Which frames can be where.
LEMMA PlacesTyped ==
    ASSUME MediaInv
    PROVE  /\ Range(decoded) \subseteq Captured(captured) \cup Relayed(relayed)
           /\ Range(frameQueue) \subseteq Captured(captured) \cup Relayed(relayed)
           /\ hand["reader"] \in Captured(captured) \cup {None}
           /\ hand["relay"] \in Relayed(relayed) \cup {None}
           /\ Range(events) \subseteq Captured(captured) \cup {Closed}
           /\ wire \subseteq Captured(captured)
           /\ sending \in Captured(captured) \cup {None}
           /\ Range(sinkQueue) \subseteq Captured(captured)
           /\ Captured(captured) \cap Relayed(relayed) = {}
           /\ None \notin Captured(captured) \cup Relayed(relayed)
           /\ Closed \notin Captured(captured) \cup Relayed(relayed)
  <1> DEFINE C == Captured(captured)
             R == Relayed(relayed)
  <1>1. captured \in 0..MaxFrames /\ relayed \in 0..MaxRelayed /\ captured \in Nat /\ relayed \in Nat
    BY MediaConstantsOK DEF MediaInv, TypeOK, HostOK, SendersOK
  <1>2. C \cap R = {} /\ None \notin C \cup R /\ Closed \notin C \cup R
    BY <1>1, FramesDiffer, NoneIsNoFrameYet
  <1> HIDE DEF C, R
  <1>3. /\ decoded \in Seq(C \cup R) /\ frameQueue \in Seq(C \cup R)
        /\ events \in Seq(C \cup {Closed}) /\ wire \subseteq C /\ sinkQueue \in Seq(C)
        /\ sending \in C \cup {None}
        /\ hand["reader"] \in C \cup {None} /\ hand["relay"] \in R \cup {None}
    BY DEF MediaInv, TypeOK, HostOK, NetworkOK, QueueOK, SendersOK, HandsApart, C, R
  <1>4. /\ Range(decoded) \subseteq C \cup R /\ Range(frameQueue) \subseteq C \cup R
        /\ Range(events) \subseteq C \cup {Closed} /\ Range(sinkQueue) \subseteq C
    BY <1>3, RangeOf
  <1>5. QED
    BY <1>2, <1>3, <1>4 DEF C, R

\* A step moves a frame on, or loses it.
LEMMA PlaceKept ==
    ASSUME MediaInv, Next \/ UNCHANGED vars
    PROVE  OnePlace'
  <1> DEFINE C == Captured(captured)
             R == Relayed(relayed)
             d == Range(decoded)
             q == Range(frameQueue)
             r == hand["reader"]
             l == hand["relay"]
             e == Range(events)
             k == Range(sinkQueue)
  <1>0. /\ d \subseteq C \cup R /\ q \subseteq C \cup R /\ r \in C \cup {None} /\ l \in R \cup {None}
        /\ e \subseteq C \cup {Closed} /\ wire \subseteq C /\ sending \in C \cup {None}
        /\ k \subseteq C /\ C \cap R = {} /\ None \notin C \cup R /\ Closed \notin C \cup R
    BY PlacesTyped
  <1>1. /\ decoded \in Seq(C \cup R) /\ frameQueue \in Seq(C \cup R)
        /\ events \in Seq(C \cup {Closed}) /\ sinkQueue \in Seq(C)
        /\ hand \in [Senders -> C \cup R \cup {None}] /\ "reader" \in Senders /\ "relay" \in Senders
        /\ granted \subseteq {s \in Senders : hand[s] # None}
    BY DEF MediaInv, TypeOK, HostOK, NetworkOK, QueueOK, SendersOK, Senders
  <1>2. OnceEach /\ Apart(d, q, r, l, e, wire, sending, k)
    BY OnePlaceIsApart DEF MediaInv, Places
  <1>3. SUFFICES OnceEach' /\ Apart(d', q', r', l', e', wire', sending', k')
    <2>1. OnceEach' /\ Places' => OnePlace'
      <3>1. (OnceEach /\ Places => OnePlace)'
        BY OnePlaceIsApart, PTL
      <3>2. QED
        BY <3>1
    <2>2. QED
      BY <2>1 DEF Places
  <1>4. CASE Capture
    <2>1. CASE sinkQueue' = sinkQueue
      BY <1>2, <1>4, <2>1 DEF Capture, OnceEach, network, senders
    <2> DEFINE x == <<"captured", captured + 1>>
    <2>2. CASE sinkQueue' = Append(sinkQueue, x)
      <3>1. captured \in Nat /\ relayed \in Nat
        BY MediaConstantsOK DEF MediaInv, TypeOK, HostOK, SendersOK
      <3>2. x \notin C /\ x \notin R /\ x # Closed /\ x # None
        <4>1. x \notin C /\ x \notin R /\ x # Closed
          BY <3>1, FramesDiffer DEF Closed
        <4>2. captured + 1 \in 1..MaxFrames
          BY <1>4, <3>1, MediaConstantsOK DEF Capture
        <4>3. x \in Frame
          BY <4>2 DEF Frame, Captured
        <4>4. QED
          BY <4>1, <4>3, NoneIsNoFrame
      <3> HIDE DEF x
      <3>3. k' = k \cup {x} /\ Once(sinkQueue)'
        <4>1. sinkQueue \in Seq(C \cup {x}) /\ x \in C \cup {x} /\ x \notin Range(sinkQueue)
          BY <1>0, <1>1, <3>2, SeqMonotonic
        <4>2. QED
          BY <1>2, <2>2, <4>1, OnceAppend DEF OnceEach
      <3>4. UNCHANGED <<decoded, frameQueue, hand, events, wire, sending>>
        BY <1>4 DEF Capture, network, senders
      <3> HIDE DEF C, R, d, q, r, l, e, k
      <3>5. x \notin d \cup q \cup {r, l} \cup e \cup wire \cup {sending}
        BY <1>0, <3>2
      <3>6. /\ d' = d /\ q' = q /\ r' = r /\ l' = l /\ e' = e
            /\ Once(decoded)' /\ Once(frameQueue)' /\ Once(events)'
        BY <1>2, <3>4 DEF d, q, r, l, e, OnceEach
      <3>7. QED
        BY <1>2, <3>3, <3>4, <3>5, <3>6 DEF OnceEach, Apart
    <2>3. QED
      BY <1>4, <2>1, <2>2 DEF Capture
  <1>5. CASE DrainTakes
    <2> DEFINE x == Head(sinkQueue)
    <2>1. /\ sinkQueue # <<>> /\ sending' = x /\ sinkQueue' = Tail(sinkQueue)
          /\ UNCHANGED <<decoded, frameQueue, hand, events, wire>>
      BY <1>5 DEF DrainTakes, network, senders
    <2>2. x \in C /\ x # Closed
      <3> HIDE DEF C
      <3>1. QED
        BY <1>0, <1>1, <2>1
    <2>3. k = {x} \cup k' /\ Once(sinkQueue)' /\ x \notin k'
      BY <1>1, <1>2, <2>1, <2>2, OnceTail DEF OnceEach
    <2>4. /\ d' = d /\ q' = q /\ r' = r /\ l' = l /\ e' = e
          /\ Once(decoded)' /\ Once(frameQueue)' /\ Once(events)'
      BY <1>2, <2>1 DEF OnceEach
    <2> HIDE DEF C, R, d, q, r, l, e, k, x
    <2>5. QED
      BY <1>0, <1>2, <2>1, <2>3, <2>4 DEF OnceEach, Apart
  <1>6. CASE DrainSends
    <2>1. /\ sending # None /\ sending' = None /\ (wire' = wire \/ wire' = wire \cup {sending})
          /\ UNCHANGED <<decoded, frameQueue, hand, events, sinkQueue>>
      BY <1>6 DEF DrainSends, senders
    <2>2. d' = d /\ q' = q /\ r' = r /\ l' = l /\ e' = e /\ k' = k /\ OnceEach'
      BY <1>2, <2>1 DEF OnceEach
    <2> HIDE DEF C, R, d, q, r, l, e, k
    <2>3. None \notin k
      BY <1>0
    <2>4. QED
      BY <1>2, <2>1, <2>2, <2>3 DEF Apart
  <1>7. ASSUME NEW f \in wire, Arrive(f)
        PROVE  OnceEach' /\ Apart(d', q', r', l', e', wire', sending', k')
    <2>1. /\ wire' = wire \ {f} /\ UNCHANGED <<decoded, frameQueue, hand, sinkQueue, sending>>
          /\ events' = Append(events, f) \/ events' = events
      BY <1>7 DEF Arrive, host, senders
    <2>2. f \in C \cup {Closed} /\ f \notin e
      <3> HIDE DEF C, R, d, q, r, l, e, k
      <3>1. QED
        BY <1>0, <1>2 DEF Apart
    <2>3. (e' = e \cup {f} \/ e' = e) /\ Once(events)'
      <3>1. /\ Range(Append(events, f)) = e \cup {f}
            /\ Once(Append(events, f))
        BY <1>1, <1>2, <2>2, OnceAppend DEF OnceEach
      <3>2. QED
        BY <1>2, <2>1, <3>1 DEF OnceEach
    <2>4. /\ d' = d /\ q' = q /\ r' = r /\ l' = l /\ k' = k
          /\ Once(decoded)' /\ Once(frameQueue)' /\ Once(sinkQueue)'
      BY <1>2, <2>1 DEF OnceEach
    <2> HIDE DEF C, R, d, q, r, l, e, k
    <2>5. QED
      BY <1>2, <2>1, <2>3, <2>4 DEF OnceEach, Apart
  <1>8. CASE ChannelCloses
    <2>1. /\ events' = Append(events, Closed)
          /\ UNCHANGED <<decoded, frameQueue, hand, sinkQueue, sending, wire>>
      BY <1>8 DEF ChannelCloses, host, senders
    <2>2. e' = e \cup {Closed} /\ Once(events)'
      <3>1. Closed \in C \cup {Closed}
        OBVIOUS
      <3>2. QED
        BY <1>1, <1>2, <2>1, <3>1, OnceAppend DEF OnceEach
    <2>3. /\ d' = d /\ q' = q /\ r' = r /\ l' = l /\ k' = k
          /\ Once(decoded)' /\ Once(frameQueue)' /\ Once(sinkQueue)'
      BY <1>2, <2>1 DEF OnceEach
    <2> HIDE DEF C, R, d, q, r, l, e, k
    <2>4. QED
      BY <1>0, <1>2, <2>1, <2>2, <2>3 DEF OnceEach, Apart
  <1>9. CASE ReaderTakes
    <2> DEFINE x == Head(events)
    <2>1. /\ hand["reader"] = None /\ events # <<>> /\ events' = Tail(events)
          /\ UNCHANGED <<decoded, frameQueue, sinkQueue, sending, wire>>
          /\ IF x = Closed THEN hand' = hand ELSE hand' = [hand EXCEPT !["reader"] = x]
      BY <1>9 DEF ReaderTakes, host
    <2>2. e = {x} \cup e' /\ Once(events)' /\ (x \notin e' \/ x = Closed)
      BY <1>1, <1>2, <2>1, OnceTail DEF OnceEach
    <2>3. /\ d' = d /\ q' = q /\ k' = k
          /\ Once(decoded)' /\ Once(frameQueue)' /\ Once(sinkQueue)'
      BY <1>2, <2>1 DEF OnceEach
    <2>4. l' = l /\ (r' = r \/ (x # Closed /\ r' = x))
      BY <1>1, <2>1
    <2> HIDE DEF C, R, d, q, r, l, e, k, x
    <2>5. QED
      BY <1>0, <1>2, <2>1, <2>2, <2>3, <2>4 DEF OnceEach, Apart
  <1>10. CASE RelayTakes
    <2> DEFINE x == <<"relayed", relayed + 1>>
    <2>1. l' = x /\ r' = r /\ UNCHANGED <<decoded, frameQueue, events, sinkQueue, sending, wire>>
      BY <1>1, <1>10 DEF RelayTakes, host, network
    <2>2. captured \in Nat /\ relayed \in Nat
      BY MediaConstantsOK DEF MediaInv, TypeOK, HostOK, SendersOK
    <2>3. x \notin C /\ x \notin R /\ x # Closed /\ x # None
      <3>1. x \notin C /\ x \notin R /\ x # Closed
        BY <2>2, FramesDiffer DEF Closed
      <3>2. relayed + 1 \in 1..MaxRelayed
        BY <1>10, <2>2, MediaConstantsOK DEF RelayTakes
      <3>3. x \in Frame
        BY <3>2 DEF Frame, Relayed
      <3>4. QED
        BY <3>1, <3>3, NoneIsNoFrame
    <2>4. d' = d /\ q' = q /\ k' = k /\ e' = e /\ OnceEach'
      BY <1>2, <2>1 DEF OnceEach
    <2> HIDE DEF C, R, d, q, r, l, e, k, x
    <2>5. QED
      BY <1>0, <1>2, <2>1, <2>3, <2>4 DEF Apart
  <1>11. ASSUME NEW s \in Senders, Put(s)
         PROVE  OnceEach' /\ Apart(d', q', r', l', e', wire', sending', k')
    <2> DEFINE x == hand[s]
    <2>1. /\ frameQueue' = Append(frameQueue, x) /\ hand' = [hand EXCEPT ![s] = None] /\ x # None
          /\ UNCHANGED <<decoded, events, sinkQueue, sending, wire>>
      BY <1>1, <1>11 DEF Put, host, network
    <2>2. \/ x = r /\ r' = None /\ l' = l
          \/ x = l /\ l' = None /\ r' = r
      BY <1>1, <2>1 DEF Senders
    <2>3. x \in C \cup R /\ x \notin q /\ x \notin d
      <3> HIDE DEF C, R, d, q, r, l, e, k, x
      <3>1. QED
        BY <1>0, <1>2, <2>1, <2>2 DEF Apart
    <2>4. q' = q \cup {x} /\ Once(frameQueue)'
      BY <1>1, <1>2, <2>1, <2>3, OnceAppend DEF OnceEach
    <2>5. /\ d' = d /\ k' = k /\ e' = e
          /\ Once(decoded)' /\ Once(events)' /\ Once(sinkQueue)'
      BY <1>2, <2>1 DEF OnceEach
    <2> HIDE DEF C, R, d, q, r, l, e, k, x
    <2>6. QED
      BY <1>0, <1>2, <2>1, <2>2, <2>3, <2>4, <2>5 DEF OnceEach, Apart
  <1>12. CASE Poll
    <2> DEFINE x == Head(frameQueue)
    <2>1. /\ frameQueue # <<>> /\ frameQueue' = Tail(frameQueue) /\ decoded' = Append(decoded, x)
          /\ UNCHANGED <<hand, events, sinkQueue, sending, wire>>
      BY <1>12 DEF Poll, host, network
    <2>2. x \in C \cup R
      <3> HIDE DEF C, R
      <3>1. QED
        BY <1>1, <2>1
    <2>3. q = {x} \cup q' /\ Once(frameQueue)' /\ x \notin q'
      <3>1. x # Closed
        BY <1>0, <2>2
      <3>2. QED
        BY <1>1, <1>2, <2>1, <3>1, OnceTail DEF OnceEach
    <2>4. d' = d \cup {x} /\ Once(decoded)'
      <3>1. x \notin d
        <4> HIDE DEF C, R, d, q, r, l, e, k, x
        <4>1. QED
          BY <1>2, <2>3 DEF Apart
      <3>2. QED
        BY <1>1, <1>2, <2>1, <2>2, <3>1, OnceAppend DEF OnceEach
    <2>5. /\ r' = r /\ l' = l /\ k' = k /\ e' = e
          /\ Once(events)' /\ Once(sinkQueue)'
      BY <1>2, <2>1 DEF OnceEach
    <2> HIDE DEF C, R, d, q, r, l, e, k, x
    <2>6. QED
      BY <1>0, <1>2, <2>1, <2>2, <2>3, <2>4, <2>5 DEF OnceEach, Apart
  <1>13. CASE ReceiveEnds
    <2>1. /\ frameQueue' = <<>> /\ r' \in {r, None} /\ l' \in {l, None}
          /\ UNCHANGED <<decoded, events, sinkQueue, sending, wire>>
      BY <1>1, <1>13 DEF ReceiveEnds, host, network
    <2>2. q' = {} /\ Once(frameQueue)' /\ None \notin C \cup R
      BY <1>0, <2>1 DEF Range, Once
    <2>3. /\ d' = d /\ k' = k /\ e' = e
          /\ Once(decoded)' /\ Once(events)' /\ Once(sinkQueue)'
      BY <1>2, <2>1 DEF OnceEach
    <2> HIDE DEF C, R, d, q, r, l, e, k
    <2>4. QED
      BY <1>0, <1>2, <2>1, <2>2, <2>3 DEF OnceEach, Apart
  <1>14. ASSUME r' \in {r, None}, l' \in {l, None},
                UNCHANGED <<decoded, frameQueue, events, sinkQueue, sending, wire>>
         PROVE  OnceEach' /\ Apart(d', q', r', l', e', wire', sending', k')
    <2>1. d' = d /\ q' = q /\ k' = k /\ e' = e /\ OnceEach'
      BY <1>2, <1>14 DEF OnceEach
    <2> HIDE DEF C, R, d, q, r, l, e, k
    <2>2. QED
      BY <1>0, <1>2, <1>14, <2>1 DEF Apart
  <1>15. ASSUME ReaderAborted \/ UNCHANGED hand
         PROVE  r' \in {r, None} /\ l' \in {l, None}
    BY <1>1, <1>15 DEF ReaderAborted
  <1>16. ASSUME NEW s \in Senders, Reserve(s)
         PROVE  /\ r' \in {r, None} /\ l' \in {l, None}
                /\ UNCHANGED <<decoded, frameQueue, events, sinkQueue, sending, wire>>
    BY <1>1, <1>16 DEF Reserve, host, network
  <1> HIDE DEF C, R, d, q, r, l, e, k
  <1>17. QED
    BY <1>4, <1>5, <1>6, <1>7, <1>8, <1>9, <1>10, <1>11, <1>12, <1>13, <1>14, <1>15, <1>16
       DEF Next, Scheduled, DrainEnds, CaptureEnds, ChannelOpens, ReaderAborted,
           vars, host, network, senders

-----------------------------------------------------------------------------
\* The theorems

LEMMA MediaStep == MediaInv /\ [Next]_vars => MediaInv'
  <1> SUFFICES ASSUME MediaInv, Next \/ UNCHANGED vars
               PROVE  MediaInv'
    OBVIOUS
  <1>1. TypeOK'
    BY HostTyped, NetworkTyped, SendersTyped, QueueTyped DEF TypeOK
  <1>2. HandsApart' /\ WaitersApart'
    BY HandsTyped, WaitersStep
  <1>3. NothingBeforeOpen' /\ ClientKeepsOrder' /\ OnePlace'
    BY OpensEmpty, OrderKept, PlaceKept
  <1>4. QED
    BY <1>1, <1>2, <1>3 DEF MediaInv

\* The invariant of the way of a frame: types, who waits with what, the order
\* at the client and the one place of every frame.
THEOREM MediaInvariant == Spec => []MediaInv
  BY MediaStarts, MediaStep, PTL DEF Spec

\* The state of the path is what the two transports can hold.
THEOREM MediaTypes == Spec => []TypeOK
  BY MediaInvariant, PTL DEF MediaInv

\* Nothing that reached the client's end of the channel is lost or overtaken
\* there (client webrtc_transport.rs and engine_adapters.rs), for every
\* capacity of the two queues and any number of frames.
THEOREM OrderAtTheClient == Spec => []ClientKeepsOrder
  BY MediaInvariant, PTL DEF MediaInv

\* Every step of the path is a step of the lossy channel, or none.
LEMMA WayStep == MediaInv /\ [Next]_vars => [Way!Next]_<<Captured(captured) \cup Relayed(relayed), decoded>>
  <1> DEFINE o == Captured(captured) \cup Relayed(relayed)
  <1> SUFFICES ASSUME MediaInv, Next \/ UNCHANGED vars
               PROVE  Way!Next \/ (o' = o /\ decoded' = decoded)
    OBVIOUS
  <1>1. /\ captured \in Nat /\ relayed \in Nat /\ captured <= MaxFrames /\ relayed <= MaxRelayed
        /\ frameQueue \in Seq(o)
    BY MediaConstantsOK DEF MediaInv, TypeOK, HostOK, SendersOK, QueueOK
  <1>2. CASE Capture
    <2> DEFINE f == <<"captured", captured + 1>>
    <2>1. captured + 1 \in 1..MaxFrames /\ captured' = captured + 1
      BY <1>1, <1>2, MediaConstantsOK DEF Capture
    <2>2. f \in Frame
      BY <2>1 DEF Frame, Captured
    <2>3. f \notin o /\ Captured(captured') = Captured(captured) \cup {f}
      BY <1>1, <2>1, FramesDiffer
    <2>4. relayed' = relayed /\ decoded' = decoded
      BY <1>2 DEF Capture, senders
    <2>5. Way!Offer(f)
      BY <2>3, <2>4 DEF Way!Offer
    <2> HIDE DEF f
    <2>6. QED
      BY <2>2, <2>5 DEF Way!Next
  <1>3. CASE RelayTakes
    <2> DEFINE f == <<"relayed", relayed + 1>>
    <2>1. relayed + 1 \in 1..MaxRelayed /\ relayed' = relayed + 1
      BY <1>1, <1>3, MediaConstantsOK DEF RelayTakes
    <2>2. f \in Frame
      BY <2>1 DEF Frame, Relayed
    <2>3. f \notin o /\ Relayed(relayed') = Relayed(relayed) \cup {f}
      BY <1>1, <2>1, FramesDiffer
    <2>4. captured' = captured /\ decoded' = decoded
      BY <1>3 DEF RelayTakes, host
    <2>5. Way!Offer(f)
      BY <2>3, <2>4 DEF Way!Offer
    <2> HIDE DEF f
    <2>6. QED
      BY <2>2, <2>5 DEF Way!Next
  <1>4. CASE Poll
    <2> DEFINE f == Head(frameQueue)
    <2>1. frameQueue # <<>> /\ decoded' = Append(decoded, f) /\ captured' = captured /\ relayed' = relayed
      BY <1>4 DEF Poll, host
    <2>2. f \in o /\ f \in Range(frameQueue)
      <3> HIDE DEF o
      <3>1. f = frameQueue[1] /\ 1 \in DOMAIN frameQueue /\ f \in o
        BY <1>1, <2>1
      <3>2. QED
        BY <3>1 DEF Range
    <2>3. f \notin Range(decoded)
      BY <2>2 DEF MediaInv, OnePlace, AtDecoder
    <2>4. \A i \in DOMAIN decoded : decoded[i] # f
      BY <2>3 DEF Range
    <2>5. f \in Frame
      <3>1. frameQueue \in Seq(Frame)
        BY PathTypes
      <3>2. QED
        BY <2>1, <3>1
    <2>6. Way!Show(f)
      BY <2>1, <2>2, <2>4 DEF Way!Show
    <2> HIDE DEF f
    <2>7. QED
      BY <2>5, <2>6 DEF Way!Next
  <1>5. ASSUME UNCHANGED <<captured, relayed, decoded>>
        PROVE  o' = o /\ decoded' = decoded
    BY <1>5
  <1> HIDE DEF o
  <1>6. QED
    BY <1>2, <1>3, <1>4, <1>5
       DEF Next, Scheduled, DrainTakes, DrainSends, DrainEnds, ReaderTakes, Reserve, Put,
           CaptureEnds, ChannelOpens, Arrive, ChannelCloses, ReaderAborted,
           ReceiveEnds, vars, host, network, senders

\* The way of a frame, with its queues, its tasks and their shutdown, is a
\* channel that loses and reorders but neither invents nor repeats.
THEOREM MediaRefines == Spec => RefinesLossyChannel
  <1>1. Init => Way!Init
    <2>1. ASSUME Init
          PROVE  Captured(captured) \cup Relayed(relayed) = {} /\ decoded = <<>>
      BY <2>1 DEF Init, Captured, Relayed
    <2>2. QED
      BY <2>1 DEF Way!Init
  <1>2. QED
    BY <1>1, MediaInvariant, WayStep, PTL DEF Spec, RefinesLossyChannel, Way!Spec

-----------------------------------------------------------------------------
(* The control path *)

USE ControlConstantsOK

LEMMA ShortIsLatest ==
    ASSUME NEW s \in Seq(Command), ~(Len(s) > Depth)
    PROVE  Latest(s) = s
  BY DEF Latest

LEMMA LatestLength ==
    ASSUME NEW s \in Seq(Command)
    PROVE  /\ Latest(s) \in Seq(Command)
           /\ Len(Latest(s)) = IF Len(s) > Depth THEN Depth ELSE Len(s)
           /\ \A i \in 1..Len(Latest(s)) :
                 Latest(s)[i] = s[i + (IF Len(s) > Depth THEN Len(s) - Depth ELSE 0)]
  <1>1. CASE Len(s) > Depth
    <2> DEFINE m == Len(s) - Depth + 1
    <2>1. m \in 1..Len(s) /\ Len(s) \in Nat /\ Latest(s) = SubSeq(s, m, Len(s))
      BY <1>1 DEF Latest
    <2>2. Latest(s) = [i \in 1..Depth |-> s[i + Len(s) - Depth]]
      BY <2>1, <1>1
    <2> QED
      BY <2>1, <2>2, <1>1
  <1>2. CASE ~(Len(s) > Depth)
    <2>1. Latest(s) = s
      BY <1>2, ShortIsLatest
    <2> QED
      BY <2>1, <1>2
  <1> QED
    BY <1>1, <1>2

\* Making room by dropping the oldest leaves the latest (control.rs, enqueue).
LEMMA EnqueuedIsLatest ==
    ASSUME NEW s \in Seq(Command), NEW x \in Command
    PROVE  Enqueued(Latest(s), x) = Latest(Append(s, x))
  <1> DEFINE b == Latest(s)
             t == Append(s, x)
  <1>1. /\ b \in Seq(Command) /\ Len(b) = IF Len(s) > Depth THEN Depth ELSE Len(s)
        /\ \A i \in 1..Len(b) : b[i] = s[i + (IF Len(s) > Depth THEN Len(s) - Depth ELSE 0)]
    BY LatestLength
  <1>2. /\ t \in Seq(Command) /\ Len(t) = Len(s) + 1 /\ t[Len(s) + 1] = x
        /\ \A i \in 1..Len(s) : t[i] = s[i]
    OBVIOUS
  <1>3. /\ Latest(t) \in Seq(Command) /\ Len(Latest(t)) = IF Len(t) > Depth THEN Depth ELSE Len(t)
        /\ \A i \in 1..Len(Latest(t)) :
              Latest(t)[i] = t[i + (IF Len(t) > Depth THEN Len(t) - Depth ELSE 0)]
    BY <1>2, LatestLength
  <1> HIDE DEF b, t
  <1>4. CASE Len(b) >= Depth
    <2>1. Len(s) >= Depth /\ Len(b) = Depth /\ Len(s) \in Nat
      BY <1>1, <1>4
    <2> DEFINE e == Append(Tail(b), x)
    <2>2. /\ e \in Seq(Command) /\ Len(e) = Depth /\ e[Depth] = x
          /\ \A i \in 1..(Depth - 1) : e[i] = b[i + 1]
      BY <1>1, <2>1
    <2>3. ASSUME NEW i \in 1..Depth PROVE e[i] = Latest(t)[i]
      <3>1. Latest(t)[i] = t[i + (Len(s) + 1 - Depth)]
        <4>1. Len(t) > Depth /\ Len(t) - Depth = Len(s) + 1 - Depth
          BY <1>2, <2>1
        <4>2. Len(Latest(t)) = Depth
          BY <1>3, <4>1
        <4> QED
          BY <1>3, <4>1, <4>2
      <3>2. CASE i = Depth
        <4>1. i + (Len(s) + 1 - Depth) = Len(s) + 1
          BY <2>1, <3>2
        <4> QED
          BY <1>2, <2>2, <3>1, <3>2, <4>1
      <3>3. CASE i \in 1..(Depth - 1)
        <4>1. b[i + 1] = s[i + 1 + (Len(s) - Depth)]
          BY <1>1, <2>1, <3>3
        <4>2. i + 1 + (Len(s) - Depth) = i + (Len(s) + 1 - Depth) /\ i + 1 + (Len(s) - Depth) \in 1..Len(s)
          BY <2>1, <3>3
        <4>3. t[i + (Len(s) + 1 - Depth)] = s[i + 1 + (Len(s) - Depth)]
          BY <1>2, <4>2
        <4>4. e[i] = b[i + 1]
          BY <2>2, <3>3
        <4> QED
          BY <3>1, <4>1, <4>3, <4>4
      <3>4. i = Depth \/ i \in 1..(Depth - 1)
        BY <2>1
      <3> HIDE DEF e
      <3> QED
        BY <3>2, <3>3, <3>4
    <2>4. e = Latest(t)
      BY <1>2, <1>3, <2>1, <2>2, <2>3
    <2> QED
      BY <2>4, <1>4 DEF Enqueued, b, t
  <1>5. CASE Len(b) < Depth
    <2>1. Len(s) < Depth /\ Len(s) \in Nat
      BY <1>1, <1>5
    <2>2. ~(Len(s) > Depth) /\ ~(Len(t) > Depth)
      BY <1>2, <2>1
    <2>3. Latest(t) = t
      BY <1>2, <2>2, ShortIsLatest
    <2>4. b = s
      BY <2>2, ShortIsLatest DEF b
    <2> QED
      BY <2>4, <2>3, <1>5 DEF Enqueued, b, t
  <1> QED
    BY <1>1, <1>4, <1>5

-----------------------------------------------------------------------------
LEMMA ControlInitTyped == ControlInit => ControlTypeOK
  BY DEF ControlInit, Silent, ControlTypeOK

LEMMA EnqueuedTyped ==
    ASSUME NEW b \in Seq(Command), NEW x \in Command
    PROVE  Enqueued(b, x) \in Seq(Command)
  BY DEF Enqueued

LEMMA ControlNextTyped == ControlTypeOK /\ [ControlNext]_controlVars => ControlTypeOK'
  <1> SUFFICES ASSUME ControlTypeOK, [ControlNext]_controlVars PROVE ControlTypeOK'
    OBVIOUS
  <1>1. ASSUME NEW c \in Callers, NEW k \in Kind, Send(c, k) PROVE ControlTypeOK'
    <2>1. [n |-> commands + 1, kind |-> k] \in Command
      BY <1>1 DEF Send, ControlTypeOK, Command
    <2> QED
      BY <1>1, <2>1, EnqueuedTyped DEF Send, ControlTypeOK, HolderAsleep
  <1>2. ASSUME NEW k \in Kind, SendViaDc(k) PROVE ControlTypeOK'
    <2>1. [n |-> commands + 1, kind |-> k] \in Command
      BY <1>2 DEF SendViaDc, ControlTypeOK, Command
    <2> QED
      BY <1>2, <2>1 DEF SendViaDc, ControlTypeOK
  <1>3. ASSUME NEW c \in Callers, Wake(c) PROVE ControlTypeOK'
    BY <1>3 DEF Wake, ControlTypeOK
  <1>4. ASSUME NEW x \in underWay, Lose(x) PROVE ControlTypeOK'
    BY <1>4 DEF Lose, ControlTypeOK
  <1>5. ASSUME NEW x \in underWay, Receive(x) PROVE ControlTypeOK'
    <2>1. x \in Command /\ frames \in Seq(Command) /\ Enqueued(frames, x) \in Seq(Command)
      BY EnqueuedTyped DEF ControlTypeOK
    <2>2. CASE Parses(x)
      <3>1. frames' = Enqueued(frames, x) /\ accepted' = Append(accepted, x)
        BY <1>5, <2>2 DEF Receive
      <3>2. dropped' = dropped + 1 \/ dropped' = dropped
        BY <1>5, <2>2 DEF Receive
      <3>3. frames' \in Seq(Command) /\ accepted' \in Seq(Command) /\ dropped' \in Nat
        BY <2>1, <3>1, <3>2 DEF ControlTypeOK
      <3> QED
        BY <1>5, <3>3 DEF Receive, ControlTypeOK
    <2>3. CASE ~Parses(x)
      BY <1>5, <2>3 DEF Receive, ControlTypeOK
    <2> QED
      BY <2>2, <2>3
  <1>6. CASE UNCHANGED controlVars
    BY <1>6 DEF controlVars, ControlTypeOK
  <1> QED
    BY <1>1, <1>2, <1>3, <1>4, <1>5, <1>6 DEF ControlNext

\* Type correctness of the control path.
THEOREM ControlTypes == ControlSpec => []ControlTypeOK
  <1> QED
    BY ControlInitTyped, ControlNextTyped, PTL DEF ControlSpec

-----------------------------------------------------------------------------
\* Whoever sleeps has the lock: so nobody else can have begun to.
SleeperHoldsLock == asleep = IF holder = Nobody THEN {} ELSE {holder}

PacedInv == BuffersHoldTheLatest /\ SleeperHoldsLock

LEMMA InitPaced == ControlInit => PacedInv
  BY DEF ControlInit, Silent, PacedInv, BuffersHoldTheLatest, SleeperHoldsLock, Latest

LEMMA NextPaced == ControlTypeOK /\ PacedInv /\ [ControlNext]_controlVars => PacedInv'
  <1> SUFFICES ASSUME ControlTypeOK, PacedInv, [ControlNext]_controlVars PROVE PacedInv'
    OBVIOUS
  <1> USE DEF PacedInv
  <1>1. ASSUME NEW c \in Callers, NEW k \in Kind, Send(c, k) PROVE PacedInv'
    <2> DEFINE x == [n |-> commands + 1, kind |-> k]
    <2>1. x \in Command
      BY <1>1 DEF Send, ControlTypeOK, Command
    <2>2. outbox' = Latest(sent')
      BY <1>1, <2>1, EnqueuedIsLatest DEF Send, ControlTypeOK, BuffersHoldTheLatest
    <2>3. BuffersHoldTheLatest'
      BY <1>1, <2>2 DEF Send, BuffersHoldTheLatest, Latest
    <2>4. SleeperHoldsLock'
      BY <1>1 DEF Send, SleeperHoldsLock, HolderAsleep
    <2> QED
      BY <2>3, <2>4
  <1>2. ASSUME NEW k \in Kind, SendViaDc(k) PROVE PacedInv'
    BY <1>2 DEF SendViaDc, BuffersHoldTheLatest, SleeperHoldsLock, Latest
  <1>3. ASSUME NEW c \in Callers, Wake(c) PROVE PacedInv'
    BY <1>3 DEF Wake, BuffersHoldTheLatest, SleeperHoldsLock, Latest
  <1>4. ASSUME NEW x \in underWay, Lose(x) PROVE PacedInv'
    BY <1>4 DEF Lose, BuffersHoldTheLatest, SleeperHoldsLock, Latest
  <1>5. ASSUME NEW x \in underWay, Receive(x) PROVE PacedInv'
    <2>1. SleeperHoldsLock' /\ outbox' = Latest(sent')
      BY <1>5 DEF Receive, SleeperHoldsLock, BuffersHoldTheLatest, Latest
    <2>2. CASE ~Parses(x)
      BY <1>5, <2>1, <2>2 DEF Receive, BuffersHoldTheLatest, Latest
    <2>3. CASE Parses(x)
      <3>1. x \in Command /\ accepted \in Seq(Command) /\ frames = Latest(accepted) /\ dropped \in Nat
        BY DEF ControlTypeOK, BuffersHoldTheLatest
      <3>2. accepted' = Append(accepted, x) /\ frames' = Enqueued(frames, x)
        BY <1>5, <2>3 DEF Receive
      <3>3. frames' = Latest(accepted')
        BY <3>1, <3>2, EnqueuedIsLatest
      <3>4. accepted' \in Seq(Command) /\ Len(accepted') = Len(accepted) + 1
        BY <3>1, <3>2
      <3>5. Len(frames) = (IF Len(accepted) > Depth THEN Depth ELSE Len(accepted))
        BY <3>1, LatestLength
      <3>6. Len(Latest(accepted')) = (IF Len(accepted') > Depth THEN Depth ELSE Len(accepted'))
        BY <3>4, LatestLength
      <3>7. dropped' = IF Len(frames) >= Depth THEN dropped + 1 ELSE dropped
        BY <1>5, <2>3 DEF Receive
      <3>8. dropped' + Len(frames') = Len(accepted')
        <4>1. dropped + Len(frames) = Len(accepted) /\ Len(accepted) \in Nat
          BY <3>1 DEF BuffersHoldTheLatest
        <4>2. Len(frames') = IF Len(accepted) + 1 > Depth THEN Depth ELSE Len(accepted) + 1
          BY <3>3, <3>4, <3>6
        <4> HIDE DEF ControlConstantsOK
        <4>3. Depth \in Nat \ {0}
          BY DEF ControlConstantsOK
        <4>4. ASSUME NEW n \in Nat, NEW d \in Nat, NEW l, NEW m, NEW e,
                     d + l = n, l = IF n > Depth THEN Depth ELSE n,
                     m = IF n + 1 > Depth THEN Depth ELSE n + 1,
                     e = IF l >= Depth THEN d + 1 ELSE d
              PROVE  e + m = n + 1
          BY <4>3, <4>4
        <4> QED
          BY <3>1, <3>4, <3>5, <3>7, <4>1, <4>2, <4>4
      <3> QED
        BY <2>1, <3>3, <3>8 DEF BuffersHoldTheLatest
    <2> QED
      BY <2>2, <2>3
  <1>6. CASE UNCHANGED controlVars
    BY <1>6 DEF controlVars, BuffersHoldTheLatest, SleeperHoldsLock, Latest
  <1> QED
    BY <1>1, <1>2, <1>3, <1>4, <1>5, <1>6 DEF ControlNext

LEMMA PacedInvSuffices == PacedInv => CommandsArePaced
  <1> SUFFICES ASSUME PacedInv PROVE OneCommandPerInterval
    BY DEF PacedInv, CommandsArePaced
  <1>1. asleep = {} \/ asleep = {holder}
    BY DEF PacedInv, SleeperHoldsLock
  <1>2. Cardinality({}) = 0 /\ Cardinality({holder}) = 1
    BY FS_EmptySet, FS_Singleton
  <1> QED
    BY <1>1, <1>2 DEF OneCommandPerInterval

\* Whatever the callers and the channel do, each buffer holds the latest of what
\* was put into it, the counter accounts for the rest, and one caller at a time
\* waits for its interval (client and host control.rs).
THEOREM ControlIsPaced == ControlSpec => []CommandsArePaced
  <1>1. ControlSpec => []ControlTypeOK
    BY ControlTypes
  <1> QED
    BY <1>1, InitPaced, NextPaced, PacedInvSuffices, PTL DEF ControlSpec
=============================================================================
