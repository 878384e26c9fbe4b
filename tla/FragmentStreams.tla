-------------------------- MODULE FragmentStreams --------------------------
(***************************************************************************)
(* FragmentBroadcaster, BroadcastStream and PipelineRegistry               *)
(* (media/src/pipeline/broadcast.rs): a broadcaster for each source and    *)
(* track, found or made under the registry's lock, and subscribers that    *)
(* poll.  A broadcaster removed from the registry lives on with those who  *)
(* hold it; the next one for the same key is another.  tokio's channel     *)
(* keeps the last Kept packets.                                            *)
(***************************************************************************)
EXTENDS Naturals, FiniteSets, SequencesExt

CONSTANTS
    Producers,  \* holders of a broadcaster
    Readers,    \* subscribers
    Kept,       \* packets a channel keeps, 1024 in the code
    MaxStreams, \* bound: broadcasters made
    MaxPackets  \* bound: packets of a broadcaster

ASSUME StreamConstantsOK == {Kept, MaxStreams} \subseteq Nat \ {0} /\ MaxPackets \in Nat

VARIABLES
    registry,   \* the broadcaster of the one key, or 0
    streams,    \* broadcasters made
    holds,      \* holds[p]: the broadcaster p has, or 0
    said,       \* said[b]: packets kept or once kept by b's channel
    cursor,     \* cursor[r]: whose subscriber r is, and what it has read of it
    again,      \* readers that have lagged and try again
    passed      \* history: passed[r]: packets that went before r had read them

streamVars == <<registry, streams, holds, said, cursor, again, passed>>

Streams == 1..MaxStreams
Packets == 1..MaxPackets
Cursor == [of : 0..MaxStreams, from : 0..MaxPackets, next : 1..(MaxPackets + 1), got : Seq(Packets)]
Unsubscribed == [of |-> 0, from |-> 0, next |-> 1, got |-> <<>>]

StreamTypeOK ==
    /\ registry \in 0..MaxStreams /\ streams \in 0..MaxStreams
    /\ holds \in [Producers -> 0..MaxStreams] /\ said \in [Streams -> 0..MaxPackets]
    /\ cursor \in [Readers -> Cursor] /\ again \subseteq Readers
    /\ passed \in [Readers -> SUBSET Packets]

StreamInit ==
    /\ registry = 0 /\ streams = 0 /\ holds = [p \in Producers |-> 0] /\ said = [b \in Streams |-> 0]
    /\ cursor = [r \in Readers |-> Unsubscribed] /\ again = {} /\ passed = [r \in Readers |-> {}]

\* get_or_create
Acquire(p) ==
    /\ holds[p] = 0 /\ (registry # 0 \/ streams < MaxStreams)
    /\ streams' = IF registry = 0 THEN streams + 1 ELSE streams
    /\ registry' = IF registry = 0 THEN streams + 1 ELSE registry
    /\ holds' = [holds EXCEPT ![p] = registry']
    /\ UNCHANGED <<said, cursor, again, passed>>

Unregister ==
    /\ registry # 0 /\ registry' = 0
    /\ UNCHANGED <<streams, holds, said, cursor, again, passed>>

Release(p) ==
    /\ holds[p] # 0 /\ holds' = [holds EXCEPT ![p] = 0]
    /\ UNCHANGED <<registry, streams, said, cursor, again, passed>>

Subscribe(p, r) ==
    /\ holds[p] # 0 /\ cursor[r].of = 0
    /\ LET n == said[holds[p]]
       IN  cursor' = [cursor EXCEPT ![r] = [of |-> holds[p], from |-> n, next |-> n + 1, got |-> <<>>]]
    /\ passed' = [passed EXCEPT ![r] = {}]
    /\ UNCHANGED <<registry, streams, holds, said, again>>

Unsubscribe(r) ==
    /\ cursor[r].of # 0 /\ cursor' = [cursor EXCEPT ![r] = Unsubscribed]
    /\ again' = again \ {r} /\ passed' = [passed EXCEPT ![r] = {}]
    /\ UNCHANGED <<registry, streams, holds, said>>

Oldest(n) == IF n > Kept THEN n - Kept + 1 ELSE 1

\* emit: a channel nobody listens to keeps nothing.
Emit(p) ==
    LET b == holds[p]
        listeners == {r \in Readers : cursor[r].of = b}
    IN  /\ b # 0 /\ said[b] < MaxPackets
        /\ said' = IF listeners = {} THEN said ELSE [said EXCEPT ![b] = @ + 1]
        /\ passed' = [r \in Readers |->
               IF r \in listeners THEN passed[r] \cup (cursor[r].next .. (Oldest(said'[b]) - 1)) ELSE passed[r]]
        /\ UNCHANGED <<registry, streams, holds, cursor, again>>

\* Mutation: "retry for latest" (broadcast.rs:98).
Newest(n) == n

\* Where a receiver goes on that has lagged.
Resumed(n) == Oldest(n)

\* poll_fragment: the next packet; nothing, whether the stream goes on or has
\* ended; or, behind the oldest kept, one try more from there.
Poll(r) ==
    LET c == cursor[r]
        n == said[c.of]
    IN  /\ c.of # 0
        /\ IF c.next < Oldest(n)
             THEN /\ cursor' = [cursor EXCEPT ![r].next = Resumed(n)]
                  /\ again' = IF r \in again THEN again \ {r} ELSE again \cup {r}
             ELSE /\ cursor' = [cursor EXCEPT ![r] = IF c.next > n THEN c ELSE [c EXCEPT !.next = @ + 1, !.got = Append(@, c.next)]]
                  /\ again' = again \ {r}
        /\ UNCHANGED <<registry, streams, holds, said, passed>>

StreamNext ==
    \/ \E p \in Producers : Acquire(p) \/ Release(p) \/ Emit(p) \/ \E r \in Readers : Subscribe(p, r)
    \/ \E r \in Readers : Unsubscribe(r) \/ Poll(r)
    \/ Unregister
StreamSpec == StreamInit /\ [][StreamNext]_streamVars

-----------------------------------------------------------------------------
\* A subscriber reads every packet emitted since it subscribed, once and in
\* order, but for those that Kept later ones had pushed out before it came to
\* them: also where it lags again between the two tries of one poll, and where
\* the registry has a new broadcaster for the key by then.
StreamsKeepOrder ==
    \A r \in Readers :
        LET c == cursor[r]
        IN  /\ \A i, j \in DOMAIN c.got : i < j => c.got[i] < c.got[j]
            /\ Range(c.got) = ((c.from + 1) .. (c.next - 1)) \ passed[r]
=============================================================================
