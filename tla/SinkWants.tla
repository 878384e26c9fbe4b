----------------------------- MODULE SinkWants -----------------------------
(***************************************************************************)
(* VideoBroadcaster (media/src/pipeline/broadcaster.rs): sinks, each with  *)
(* what it wants of the source, and the wants of all put together for the  *)
(* source.  send_frame hands a frame to the active sinks with the lock     *)
(* held and leaves the broadcaster as it was: what a sink's on_frame       *)
(* answers is thrown away.  Numbers are of Width values, 2^32 in the code. *)
(***************************************************************************)
EXTENDS Naturals, Sequences, Subsequences

CONSTANTS
    Adders,     \* tasks that register sinks
    Width,      \* numbers are 0..Width-1
    Limits,     \* limits that sinks ask for, 0 for none
    Alignments, \* alignments that sinks ask for
    MaxSinkIds  \* bound: sinks registered

ASSUME WantsConstantsOK ==
    /\ Width \in Nat \ {0, 1} /\ MaxSinkIds \in Nat
    /\ Limits \cup Alignments \subseteq 0..(Width - 1)

VARIABLES
    sinks,      \* the registered sinks, in the order they were pushed
    nextId,     \* next_id
    adding      \* adding[a]: the id an adder has taken and not pushed yet, or 0

wantsVars == <<sinks, nextId, adding>>

Wants == [active : BOOLEAN, limit : Limits, align : Alignments]
Sink == [id : 1..MaxSinkIds, wants : Wants]

WantsTypeOK ==
    /\ sinks \in Seq(Sink) /\ nextId \in 1..(MaxSinkIds + 1)
    /\ adding \in [Adders -> 0..MaxSinkIds]

WantsInit == sinks = <<>> /\ nextId = 1 /\ adding = [a \in Adders |-> 0]

\* add_or_update_sink never updates: an id from the counter, then the lock.
TakeId(a) ==
    /\ adding[a] = 0 /\ nextId <= MaxSinkIds
    /\ adding' = [adding EXCEPT ![a] = nextId] /\ nextId' = nextId + 1
    /\ UNCHANGED sinks

PushSink(a) ==
    /\ adding[a] # 0 /\ adding' = [adding EXCEPT ![a] = 0]
    /\ \E w \in Wants : sinks' = Append(sinks, [id |-> adding[a], wants |-> w])
    /\ UNCHANGED nextId

RemoveSinkId(id) ==
    /\ sinks' = Within(sinks, {e \in Sink : e.id # id})
    /\ UNCHANGED <<nextId, adding>>

Number == 0..(Width - 1)
Gcd[p \in Number \X Number] == IF p[2] = 0 THEN p[1] ELSE Gcd[<<p[2], p[1] % p[2]>>]

\* Mutation: multiplied before it is divided.
Times(a, b) ==
    IF 0 \in {a, b} THEN IF a = 0 THEN b ELSE a ELSE ((a * b) % Width) \div Gcd[<<a, b>>]

\* The product wraps (in a release build).
Lcm(a, b) ==
    IF 0 \in {a, b} THEN IF a = 0 THEN b ELSE a ELSE ((a \div Gcd[<<a, b>>]) * b) % Width

\* wants: u32::MAX is what is asked for where nobody has a limit.  The limits of
\* inactive sinks count too.
Narrower(a, b) == IF b # 0 /\ b < a THEN b ELSE a
NoWants == [active |-> FALSE, limit |-> Width - 1, align |-> 1]
Added(all, w) ==
    [active |-> all.active \/ w.active,
     limit |-> Narrower(all.limit, w.limit), align |-> Lcm(all.align, w.align)]

\* What the first n sinks want.
WantsOfFirst(entries) ==
    LET all[n \in 0..Len(entries)] ==
            IF n = 0 THEN NoWants ELSE Added(all[n - 1], entries[n].wants)
    IN  all

Aggregated ==
    LET all == WantsOfFirst(sinks)[Len(sinks)]
    IN  IF sinks = <<>> THEN [active |-> TRUE, limit |-> 0, align |-> 1]
        ELSE IF all.active THEN all ELSE [all EXCEPT !.limit = 0]

WantsNext ==
    \/ \E a \in Adders : TakeId(a) \/ PushSink(a)
    \/ \E id \in 1..MaxSinkIds : RemoveSinkId(id)

WantsSpec == WantsInit /\ [][WantsNext]_wantsVars

-----------------------------------------------------------------------------
Divides(a, b) == \E k \in 0..b : b = a * k
Common(n) == \A i \in DOMAIN sinks : sinks[i].wants.align = 0 \/ Divides(sinks[i].wants.align, n)

\* A source that keeps to the aggregated wants keeps to the limit of every
\* active sink, and to the alignment of every sink as long as their least common
\* multiple is a u32, in whatever order they came and went: then no intermediate
\* product has wrapped either (VideoBroadcaster::wants).
WantsHonourEverySink ==
    LET all == Aggregated
    IN  /\ \A i \in DOMAIN sinks :
               LET w == sinks[i].wants IN w.active => all.active /\ (w.limit # 0 => all.limit \in 1..w.limit)
        /\ sinks # <<>> => \A n \in 1..(Width - 1) :
               Common(n) /\ (\A k \in 1..(n - 1) : ~Common(k)) => all.align = n
=============================================================================
