---------------------------- MODULE PictureProofs ----------------------------
(***************************************************************************)
(* Proofs about FrameGenerator, for any callers and any bounds, and about  *)
(* the pictures of Workbench, for any sizes.                               *)
(***************************************************************************)
EXTENDS FrameGenerator, Workbench, TLAPS, WellFoundedInduction

\* Typing is inductive on its own: every reachable state is well typed, and
\* the mutex of start is held by exactly the caller that is inside start.
LEMMA TypeStep == TypeOK /\ [Next]_vars => TypeOK'
<1> USE GeneratorConstantsOK DEF TypeOK, Threads, SinkIds, Goto, calls, list
<1> SUFFICES ASSUME TypeOK, [Next]_vars PROVE TypeOK'
  OBVIOUS
<1>1. ASSUME NEW c \in Callers, Start(c) PROVE TypeOK'
  BY <1>1 DEF Start
<1>2. ASSUME NEW c \in Callers, SetRunning(c) PROVE TypeOK'
  BY <1>2 DEF SetRunning
<1>3. ASSUME NEW c \in Callers, Spawn(c) PROVE TypeOK'
  <2>1. spawned < MaxThreads /\ spawned' = spawned + 1 /\ alive' \subseteq 1..(spawned + 1)
    BY <1>3 DEF Spawn
  <2>2. alive \subseteq alive' /\ UNCHANGED <<running, joins, list>>
    BY <1>3 DEF Spawn
  <2>3. handle' \in Threads /\ starting' = NoOne /\ pc' = [pc EXCEPT ![c] = "idle"]
    BY <1>3, <2>1 DEF Spawn
  <2>4. spawned' \in 0..MaxThreads
    BY <2>1
  <2>5. starting' # NoOne => spawned' < MaxThreads
    BY <2>3
  <2>6. \A d \in Callers : starting' = d <=> pc'[d] \in {"flag", "spawn"}
    BY <1>3, <2>3 DEF Spawn
  <2>7. drawing' \subseteq alive' /\ delivering' \in drawing' \cup {NoOne}
    BY <2>2
  <2> QED
    BY <2>1, <2>2, <2>3, <2>4, <2>5, <2>6, <2>7
<1>4. ASSUME NEW c \in Callers, Stop(c) PROVE TypeOK'
  BY <1>4 DEF Stop
<1>5. ASSUME NEW c \in Callers, TakeHandle(c) PROVE TypeOK'
  BY <1>5 DEF TakeHandle
<1>6. ASSUME NEW c \in Callers, Joined(c) PROVE TypeOK'
  BY <1>6 DEF Joined
<1>7. CASE AddSink
  BY <1>7 DEF AddSink
<1>8. ASSUME NEW s \in SinkIds, RemoveSink(s) PROVE TypeOK'
  BY <1>8 DEF RemoveSink
<1>9. ASSUME NEW t \in Threads, DrawFrame(t) \/ Generate(t) PROVE TypeOK'
  <2>1. CASE DrawFrame(t)
    BY <2>1 DEF DrawFrame
  <2>2. CASE BeginFrame(t)
    BY <2>2 DEF BeginFrame
  <2>3. CASE OnFrame(t)
    BY <2>3 DEF OnFrame
  <2>4. CASE EndFrame(t)
    BY <2>4 DEF EndFrame
  <2>5. CASE ThreadEnds(t)
    BY <2>5 DEF ThreadEnds
  <2> QED
    BY <1>9, <2>1, <2>2, <2>3, <2>4, <2>5 DEF Generate
<1>10. CASE UNCHANGED vars
  BY <1>10 DEF vars
<1> QED
  BY <1>1, <1>2, <1>3, <1>4, <1>5, <1>6, <1>7, <1>8, <1>9, <1>10 DEF Next, Finish

LEMMA InitTyped == Init => TypeOK
<1> SUFFICES ASSUME Init PROVE TypeOK
  OBVIOUS
<1>1. \A c \in Callers : starting = c <=> pc[c] \in {"flag", "spawn"}
  BY GeneratorConstantsOK DEF Init
<1>2. spawned \in 0..MaxThreads /\ ids \in 0..MaxSinks
  BY GeneratorConstantsOK DEF Init
<1>3. pc \in [Callers -> {"idle", "flag", "spawn", "take", "join"}]
  BY DEF Init
<1>4. joins \in [Callers -> Threads \cup {NoOne}]
  BY DEF Init
<1> QED
  BY <1>1, <1>2, <1>3, <1>4 DEF Init, TypeOK

\* The state is well typed: the mutexes are held by whom the code says.
THEOREM TypeCorrect == Spec => []TypeOK
  BY InitTyped, TypeStep, PTL DEF Spec

-----------------------------------------------------------------------------
\* While a start is under way no handle is kept: start saw none and stop
\* cannot get at the mutex.  So the handle it stores replaces nothing.
HandleIsFree == starting # NoOne => handle = NoOne

Tracked == TypeOK /\ HandleIsFree /\ ThreadIsTracked

LEMMA TrackedStep == Tracked /\ [Next]_vars => Tracked'
<1> SUFFICES ASSUME Tracked, [Next]_vars PROVE HandleIsFree' /\ ThreadIsTracked'
  BY TypeStep DEF Tracked
<1> USE GeneratorConstantsOK DEF Tracked, TypeOK, HandleIsFree, Threads, Goto, calls, list
<1>1. ASSUME NEW c \in Callers, Start(c) PROVE HandleIsFree' /\ ThreadIsTracked'
  BY <1>1 DEF Start, ThreadIsTracked
<1>2. ASSUME NEW c \in Callers, SetRunning(c) PROVE HandleIsFree' /\ ThreadIsTracked'
  BY <1>2 DEF SetRunning, ThreadIsTracked
<1>3. ASSUME NEW c \in Callers, Spawn(c) PROVE HandleIsFree' /\ ThreadIsTracked'
  <2>1. HandleIsFree'
    BY <1>3 DEF Spawn
  <2>2. handle = NoOne
    BY <1>3 DEF Spawn
  <2>3. ASSUME NEW t \in alive'
        PROVE  handle' = t \/ \E d \in Callers : pc'[d] = "join" /\ joins'[d] = t
    <3>1. CASE t \in alive
      <4>1. PICK d \in Callers : pc[d] = "join" /\ joins[d] = t
        BY <2>2, <3>1 DEF ThreadIsTracked
      <4> QED
        BY <1>3, <4>1 DEF Spawn
    <3>2. CASE t \notin alive
      BY <1>3, <2>3, <3>2 DEF Spawn
    <3> QED
      BY <3>1, <3>2
  <2> QED
    BY <2>1, <2>3 DEF ThreadIsTracked
<1>4. ASSUME NEW c \in Callers, Stop(c) PROVE HandleIsFree' /\ ThreadIsTracked'
  BY <1>4 DEF Stop, ThreadIsTracked
<1>5. ASSUME NEW c \in Callers, TakeHandle(c) PROVE HandleIsFree' /\ ThreadIsTracked'
  <2>1. ASSUME NEW t \in alive'
        PROVE  \E d \in Callers : pc'[d] = "join" /\ joins'[d] = t
    <3>1. CASE handle = t
      BY <1>5, <2>1, <3>1 DEF TakeHandle
    <3>2. CASE handle # t
      <4>1. PICK d \in Callers : pc[d] = "join" /\ joins[d] = t
        BY <1>5, <2>1, <3>2 DEF TakeHandle, ThreadIsTracked
      <4> QED
        BY <1>5, <4>1 DEF TakeHandle
    <3> QED
      BY <3>1, <3>2
  <2> QED
    BY <1>5, <2>1 DEF TakeHandle, ThreadIsTracked
<1>6. ASSUME NEW c \in Callers, Joined(c) PROVE HandleIsFree' /\ ThreadIsTracked'
  BY <1>6 DEF Joined, ThreadIsTracked
<1>7. CASE AddSink \/ \E s \in SinkIds : RemoveSink(s)
  BY <1>7 DEF AddSink, RemoveSink, ThreadIsTracked
<1>8. ASSUME NEW t \in Threads, DrawFrame(t) \/ Generate(t) PROVE HandleIsFree' /\ ThreadIsTracked'
  BY <1>8 DEF DrawFrame, Generate, BeginFrame, OnFrame, EndFrame, ThreadEnds, ThreadIsTracked
<1>9. CASE UNCHANGED vars
  BY <1>9 DEF vars, ThreadIsTracked
<1> QED
  BY <1>1, <1>2, <1>3, <1>4, <1>5, <1>6, <1>7, <1>8, <1>9 DEF Next, Finish

LEMMA TrackedAlways == Spec => []Tracked
<1>1. Init => Tracked
  BY InitTyped DEF Init, Tracked, HandleIsFree, ThreadIsTracked
<1> QED
  BY <1>1, TrackedStep, PTL DEF Spec

\* However starts and stops overlap, a living thread's handle is kept or
\* being joined.
THEOREM NoLostThread == Spec => []ThreadIsTracked
<1>1. Tracked => ThreadIsTracked
  BY DEF Tracked
<1> QED
  BY <1>1, TrackedAlways, PTL

-----------------------------------------------------------------------------
\* Whoever lowered the flag has yet to look for a handle: where the flag is
\* down and a thread is kept, or about to be, some stop will take it.
StopIsComing ==
    (~running /\ (handle # NoOne \/ \E c \in Callers : pc[c] = "spawn"))
        => \E d \in Callers : pc[d] = "take"

LEMMA ComingStep == Tracked /\ StopIsComing /\ [Next]_vars => StopIsComing'
<1> SUFFICES ASSUME Tracked, StopIsComing, [Next]_vars PROVE StopIsComing'
  OBVIOUS
<1> USE GeneratorConstantsOK DEF Tracked, TypeOK, HandleIsFree, StopIsComing, Threads, Goto, calls, list
<1>1. ASSUME NEW c \in Callers, Start(c) PROVE StopIsComing'
  BY <1>1 DEF Start
<1>2. ASSUME NEW c \in Callers, SetRunning(c) PROVE StopIsComing'
  BY <1>2 DEF SetRunning
<1>3. ASSUME NEW c \in Callers, Spawn(c) PROVE StopIsComing'
  <2> SUFFICES ASSUME ~running PROVE \E d \in Callers : pc'[d] = "take"
    BY <1>3 DEF Spawn
  <2>1. PICK d \in Callers : pc[d] = "take"
    BY <1>3 DEF Spawn
  <2> QED
    BY <1>3, <2>1 DEF Spawn
<1>4. ASSUME NEW c \in Callers, Stop(c) PROVE StopIsComing'
  BY <1>4 DEF Stop
<1>5. ASSUME NEW c \in Callers, TakeHandle(c) PROVE StopIsComing'
  BY <1>5 DEF TakeHandle
<1>6. ASSUME NEW c \in Callers, Joined(c) PROVE StopIsComing'
  BY <1>6 DEF Joined
<1>7. CASE AddSink \/ \E s \in SinkIds : RemoveSink(s)
  BY <1>7 DEF AddSink, RemoveSink
<1>8. ASSUME NEW t \in Threads, DrawFrame(t) \/ Generate(t) PROVE StopIsComing'
  BY <1>8 DEF DrawFrame, Generate, BeginFrame, OnFrame, EndFrame, ThreadEnds
<1>9. CASE UNCHANGED vars
  BY <1>9 DEF vars
<1> QED
  BY <1>1, <1>2, <1>3, <1>4, <1>5, <1>6, <1>7, <1>8, <1>9 DEF Next, Finish

\* When the flag is down and every call has returned, no generator thread
\* is alive.
THEOREM StoppedMeansStopped == Spec => []StoppedIsStopped
<1>1. Init => StopIsComing
  BY DEF Init, StopIsComing
<1>2. Tracked /\ StopIsComing => StoppedIsStopped
  BY GeneratorConstantsOK DEF Tracked, TypeOK, ThreadIsTracked, StopIsComing, StoppedIsStopped, Threads
<1> QED
  BY <1>1, <1>2, ComingStep, TrackedAlways, PTL DEF Spec

-----------------------------------------------------------------------------
\* A frame is only handed to sinks that are registered, because the list
\* does not change while a thread delivers.
LEMMA QuietStep == TypeOK /\ RemovedSinkIsQuiet /\ [Next]_vars => RemovedSinkIsQuiet'
<1> SUFFICES ASSUME TypeOK, RemovedSinkIsQuiet, [Next]_vars PROVE RemovedSinkIsQuiet'
  OBVIOUS
<1> USE DEF RemovedSinkIsQuiet, calls, list
<1>1. ASSUME NEW c \in Callers, Start(c) \/ Stop(c) \/ Finish(c) PROVE RemovedSinkIsQuiet'
  BY <1>1 DEF Start, Stop, Finish, SetRunning, Spawn, TakeHandle, Joined
<1>2. CASE AddSink \/ \E s \in SinkIds : RemoveSink(s)
  BY <1>2 DEF AddSink, RemoveSink, TypeOK
<1>3. ASSUME NEW t \in Threads, DrawFrame(t) \/ Generate(t) PROVE RemovedSinkIsQuiet'
  BY <1>3 DEF DrawFrame, Generate, BeginFrame, OnFrame, EndFrame, ThreadEnds
<1>4. CASE UNCHANGED vars
  BY <1>4 DEF vars
<1> QED
  BY <1>1, <1>2, <1>3, <1>4 DEF Next

\* A sink taken out by remove_sink is not called any more.
THEOREM RemovedSinkQuiet == Spec => []RemovedSinkIsQuiet
<1>1. Init => RemovedSinkIsQuiet
  BY DEF Init, RemovedSinkIsQuiet
<1> QED
  BY <1>1, QuietStep, TypeCorrect, PTL DEF Spec

----------------------------------------------------------------------------
(* Workbench: the generator's squares. *)

\* Sizes and bounds are natural numbers.
LEMMA SizesAreNat ==
    /\ \A s \in Sizes \cup Images \cup {Fallback, Window, FrameSize} : s[1] \in Nat /\ s[2] \in Nat
    /\ SquareSizes \subseteq Nat /\ Speed \in Nat /\ MaxSquares \in Nat /\ MaxEdits \in Nat
BY WorkbenchConstantsOK

\* What squares are: in their place in the frame, with a velocity.
PlacedSquare(q) ==
    /\ q \in [x : Nat, y : Nat, size : SquareSizes, dx : Int, dy : Int]
    /\ q.x <= Minus(FrameSize[1], q.size) /\ q.y <= Minus(FrameSize[2], q.size)
SquaresPlaced == \A i \in DOMAIN squares : PlacedSquare(squares[i])

Apart(a, b) == IF a < b THEN b - a ELSE a - b

\* A step along one axis is no longer than the velocity and ends in its range.
LEMMA BounceIsShort ==
    ASSUME NEW at \in Nat, NEW by \in Int, NEW max \in Nat, at <= max
    PROVE  LET b == Bounced(at, by, max)
           IN  /\ b.at \in 0..max /\ b.by \in {by, -by} /\ b.by \in Int
               /\ Apart(at, b.at) <= Most(by, -by)
<1> DEFINE new == at + by
           reflected == IF new < 0 THEN -new ELSE IF new > max THEN 2 * max - new ELSE new
           place == Most(0, Least(reflected, max))
<1>1. new \in Int /\ reflected \in Int
  OBVIOUS
<1>2. place \in 0..max
  BY DEF Most, Least
<1>3. Apart(at, place) <= Most(by, -by)
  BY DEF Most, Least, Apart
<1>4. Bounced(at, by, max).at = place /\ Bounced(at, by, max).by = IF new < 0 \/ new > max THEN -by ELSE by
  BY DEF Bounced
<1> HIDE DEF place
<1> QED
  BY <1>1, <1>2, <1>3, <1>4

LEMMA SquareMoves ==
    ASSUME NEW q, PlacedSquare(q)
    PROVE  LET r == MovedSquare(q, FrameSize[1], FrameSize[2])
           IN  /\ PlacedSquare(r) /\ r.size = q.size
               /\ r.dx \in {q.dx, -q.dx} /\ r.dy \in {q.dy, -q.dy}
               /\ Apart(q.x, r.x) <= Most(q.dx, -q.dx) /\ Apart(q.y, r.y) <= Most(q.dy, -q.dy)
<1> DEFINE w == Minus(FrameSize[1], q.size)
           h == Minus(FrameSize[2], q.size)
           nx == Bounced(q.x, q.dx, w)
           ny == Bounced(q.y, q.dy, h)
           r == MovedSquare(q, FrameSize[1], FrameSize[2])
<1>1. q \in [x : Nat, y : Nat, size : SquareSizes, dx : Int, dy : Int] /\ q.x <= w /\ q.y <= h
  BY DEF PlacedSquare
<1>2. q.x \in Nat /\ q.y \in Nat /\ q.dx \in Int /\ q.dy \in Int /\ q.size \in Nat /\ q.size \in SquareSizes
  BY <1>1, SizesAreNat
<1>3. w \in Nat /\ h \in Nat
  BY <1>2, SizesAreNat DEF Minus, Most
<1> HIDE DEF w, h
<1>4. /\ nx.at \in 0..w /\ nx.by \in {q.dx, -q.dx} /\ nx.by \in Int /\ Apart(q.x, nx.at) <= Most(q.dx, -q.dx)
      /\ ny.at \in 0..h /\ ny.by \in {q.dy, -q.dy} /\ ny.by \in Int /\ Apart(q.y, ny.at) <= Most(q.dy, -q.dy)
  BY <1>1, <1>2, <1>3, BounceIsShort
<1>5. r = [q EXCEPT !.x = nx.at, !.dx = nx.by, !.y = ny.at, !.dy = ny.by]
  BY DEF MovedSquare, w, h
<1> HIDE DEF nx, ny, r
<1>6. /\ r \in [x : Nat, y : Nat, size : SquareSizes, dx : Int, dy : Int]
      /\ r.x = nx.at /\ r.y = ny.at /\ r.dx = nx.by /\ r.dy = ny.by /\ r.size = q.size
  <2>1. nx.at \in Nat /\ ny.at \in Nat
    BY <1>3, <1>4
  <2>2. q = [x |-> q.x, y |-> q.y, size |-> q.size, dx |-> q.dx, dy |-> q.dy]
    BY <1>1
  <2>3. r = [x |-> nx.at, y |-> ny.at, size |-> q.size, dx |-> nx.by, dy |-> ny.by]
    BY <1>5, <2>2
  <2>4. r.x = nx.at /\ r.y = ny.at /\ r.dx = nx.by /\ r.dy = ny.by /\ r.size = q.size
    BY <2>3
  <2> QED
    BY <1>2, <1>4, <2>1, <2>3, <2>4
<1>7. PlacedSquare(r)
  <2>1. r.x <= w /\ r.y <= h
    BY <1>3, <1>4, <1>6
  <2> QED
    BY <1>6, <2>1 DEF PlacedSquare, w, h
<1> QED
  BY <1>4, <1>6, <1>7 DEF r

\* A square is made in its place.
LEMMA SquaresMade ==
    ASSUME NEW q \in SquaresOf(SquareSizes, Speed, FrameSize[1], FrameSize[2])
    PROVE  PlacedSquare(q)
<1>1. PICK z \in SquareSizes :
         /\ q.x \in 0 .. Minus(FrameSize[1], z) /\ q.y \in 0 .. Minus(FrameSize[2], z) /\ q.size = z
         /\ q \in [x : Nat, y : Nat, size : SquareSizes, dx : Int, dy : Int]
  <2> DEFINE Place(max) == IF max > 0 THEN 0 .. max - 1 ELSE {0}
             Velocity == {d \in -Speed .. Speed : Speed > 0 => d # 0}
  <2>1. PICK z \in SquareSizes :
           q \in [x : Place(Minus(FrameSize[1], z)), y : Place(Minus(FrameSize[2], z)), size : {z},
                  dx : Velocity, dy : Velocity]
    BY DEF SquaresOf
  <2>2. z \in Nat /\ Minus(FrameSize[1], z) \in Nat /\ Minus(FrameSize[2], z) \in Nat
    BY SizesAreNat DEF Minus, Most
  <2>3. \A m \in Nat : Place(m) \subseteq 0 .. m
    OBVIOUS
  <2>4. Velocity \subseteq Int
    BY SizesAreNat
  <2> HIDE DEF Place, Velocity
  <2>5. /\ q.x \in 0 .. Minus(FrameSize[1], z) /\ q.y \in 0 .. Minus(FrameSize[2], z) /\ q.size = z
        /\ q.dx \in Int /\ q.dy \in Int
    BY <2>1, <2>2, <2>3, <2>4
  <2>6. q = [x |-> q.x, y |-> q.y, size |-> q.size, dx |-> q.dx, dy |-> q.dy]
    BY <2>1
  <2>7. q \in [x : Nat, y : Nat, size : SquareSizes, dx : Int, dy : Int]
    BY <2>2, <2>5, <2>6
  <2> QED
    BY <2>5, <2>7
<1>2. z \in Nat /\ Minus(FrameSize[1], z) \in Nat /\ Minus(FrameSize[2], z) \in Nat
  BY SizesAreNat DEF Minus, Most
<1> QED
  BY <1>1, <1>2 DEF PlacedSquare

LEMMA SquaresInit == WorkInit => SquaresPlaced
BY DEF WorkInit, SquaresPlaced

LEMMA SquaresKept == [WorkNext]_workVars /\ ~(NewSquares \/ PaintSquares) => UNCHANGED squares
BY DEF WorkNext, workVars, Receive, PaintBars, EditScale, EditMirror, EditRotate, EditNV12, EditCrop, EditStamp,
       EditLabel, Load, Press, PickThumb, Made, Edited

LEMMA SquaresStep == SquaresPlaced /\ [WorkNext]_workVars => SquaresPlaced'
<1> SUFFICES ASSUME SquaresPlaced, [WorkNext]_workVars PROVE SquaresPlaced'
  OBVIOUS
<1>1. CASE UNCHANGED squares
  BY <1>1 DEF SquaresPlaced, PlacedSquare
<1>2. CASE NewSquares
  <2>1. PICK n \in 1 .. MaxSquares : squares' \in [1 .. n -> SquaresOf(SquareSizes, Speed, FrameSize[1], FrameSize[2])]
    BY <1>2 DEF NewSquares
  <2>2. \A i \in DOMAIN squares' : squares'[i] \in SquaresOf(SquareSizes, Speed, FrameSize[1], FrameSize[2])
    BY <2>1
  <2>3. \A i \in DOMAIN squares' : PlacedSquare(squares'[i])
    BY <2>2, SquaresMade
  <2> QED
    BY <2>3 DEF SquaresPlaced, PlacedSquare
<1>3. CASE PaintSquares
  <2>1. squares' = [i \in DOMAIN squares |-> MovedSquare(squares[i], FrameSize[1], FrameSize[2])]
    BY <1>3 DEF PaintSquares
  <2>2. \A i \in DOMAIN squares : PlacedSquare(MovedSquare(squares[i], FrameSize[1], FrameSize[2]))
    BY SquareMoves DEF SquaresPlaced
  <2>3. \A i \in DOMAIN squares' : PlacedSquare(squares'[i])
    BY <2>1, <2>2
  <2> QED
    BY <2>3 DEF SquaresPlaced, PlacedSquare
<1> QED
  BY <1>1, <1>2, <1>3, SquaresKept

\* Squares keep their size and speed, move by no more than that and stay in the
\* frame, for any frame, sizes, speed and number of squares (SquaresPattern::draw).
THEOREM SquaresSteady == WorkSpec => SquaresMoveSteadily
<1> DEFINE Steady ==
             (squares # <<>> /\ squares' # <<>>) =>
               \A i \in DOMAIN squares :
                  LET q == squares[i]  r == squares'[i]
                  IN  /\ r.size = q.size
                      /\ r.dx \in {q.dx, -q.dx} /\ r.dy \in {q.dy, -q.dy}
                      /\ Apart(q.x, r.x) <= Most(q.dx, -q.dx) /\ Apart(q.y, r.y) <= Most(q.dy, -q.dy)
                      /\ r.x \in 0 .. Minus(FrameSize[1], r.size) /\ r.y \in 0 .. Minus(FrameSize[2], r.size)
<1>1. SquaresPlaced /\ [WorkNext]_workVars => [Steady]_squares
  <2> SUFFICES ASSUME SquaresPlaced, [WorkNext]_workVars, squares' # squares, squares # <<>>, NEW i \in DOMAIN squares
               PROVE  LET q == squares[i]  r == squares'[i]
                      IN  /\ r.size = q.size
                          /\ r.dx \in {q.dx, -q.dx} /\ r.dy \in {q.dy, -q.dy}
                          /\ Apart(q.x, r.x) <= Most(q.dx, -q.dx) /\ Apart(q.y, r.y) <= Most(q.dy, -q.dy)
                          /\ r.x \in 0 .. Minus(FrameSize[1], r.size) /\ r.y \in 0 .. Minus(FrameSize[2], r.size)
    OBVIOUS
  <2>1. PaintSquares
    BY SquaresKept DEF NewSquares
  <2>2. squares'[i] = MovedSquare(squares[i], FrameSize[1], FrameSize[2])
    BY <2>1 DEF PaintSquares
  <2> DEFINE q == squares[i]
             r == squares'[i]
  <2>3. /\ PlacedSquare(r) /\ r.size = q.size
        /\ r.dx \in {q.dx, -q.dx} /\ r.dy \in {q.dy, -q.dy}
        /\ Apart(q.x, r.x) <= Most(q.dx, -q.dx) /\ Apart(q.y, r.y) <= Most(q.dy, -q.dy)
    BY <2>2, SquareMoves DEF SquaresPlaced
  <2>4. r.x \in 0 .. Minus(FrameSize[1], r.size) /\ r.y \in 0 .. Minus(FrameSize[2], r.size)
    <3>1. r.x \in Nat /\ r.y \in Nat /\ r.size \in Nat
      BY <2>3, SizesAreNat DEF PlacedSquare
    <3>2. Minus(FrameSize[1], r.size) \in Nat /\ Minus(FrameSize[2], r.size) \in Nat
      BY <3>1, SizesAreNat DEF Minus, Most
    <3> QED
      BY <2>3, <3>1, <3>2 DEF PlacedSquare
  <2> QED
    BY <2>3, <2>4
<1> QED
  BY <1>1, SquaresInit, SquaresStep, PTL DEF WorkSpec, SquaresMoveSteadily, Apart

\* A cell of a plane has a place in it, no two have the same, and every place is a cell's.
LEMMA IndexInside ==
    ASSUME NEW w \in Nat, NEW h \in Nat, NEW a \in 0 .. w - 1, NEW b \in 0 .. h - 1
    PROVE  b * w + a \in 0 .. w * h - 1
<1>1. b + 1 <= h /\ b \in Nat /\ a \in Nat /\ w \in Nat
  OBVIOUS
<1>2. (b + 1) * w <= h * w
  BY <1>1
<1>3. (b + 1) * w = b * w + w
  BY <1>1
<1>4. h * w = w * h /\ b * w \in Nat /\ h * w \in Nat
  BY <1>1
<1> QED
  BY <1>1, <1>2, <1>3, <1>4

LEMMA IndexInjective ==
    ASSUME NEW w \in Nat, NEW a \in 0 .. w - 1, NEW b \in Nat, NEW c \in 0 .. w - 1, NEW d \in Nat,
           b * w + a = d * w + c
    PROVE  a = c /\ b = d
<1>1. ASSUME NEW e \in Nat, NEW f \in Nat, NEW x \in 0 .. w - 1, NEW y \in 0 .. w - 1, e < f
      PROVE  e * w + x < f * w + y
  <2>1. e + 1 <= f
    BY <1>1
  <2>2. (e + 1) * w <= f * w
    BY <2>1
  <2>3. (e + 1) * w = e * w + w /\ e * w \in Nat /\ f * w \in Nat
    OBVIOUS
  <2> QED
    BY <2>2, <2>3
<1>2. ~(b < d) /\ ~(d < b)
  BY <1>1
<1>3. b = d
  BY <1>2
<1>4. b * w \in Nat
  OBVIOUS
<1> QED
  BY <1>3, <1>4

LEMMA IndexOnto ==
    ASSUME NEW w \in Nat, NEW h \in Nat, NEW i \in 0 .. w * h - 1
    PROVE  \E a \in 0 .. w - 1, b \in 0 .. h - 1 : b * w + a = i
<1>1. w # 0
  OBVIOUS
<1>2. i % w \in 0 .. w - 1 /\ i \div w \in Nat
  BY <1>1
<1>3. i = (i \div w) * w + (i % w)
  BY <1>1
<1>4. i \div w < h
  <2> SUFFICES ASSUME h <= i \div w PROVE FALSE
    BY <1>2
  <2>1. h * w <= (i \div w) * w
    BY <1>2
  <2> QED
    BY <1>2, <1>3, <2>1
<1>5. i \div w \in 0 .. h - 1
  BY <1>2, <1>4
<1> DEFINE a == i % w
           b == i \div w
<1>6. a \in 0 .. w - 1 /\ b \in 0 .. h - 1 /\ b * w + a = i
  BY <1>2, <1>3, <1>5
<1> HIDE DEF a, b
<1> QED
  BY <1>6

-----------------------------------------------------------------------------
(* Workbench: planes and pictures. *)

\* A plane of w by h without padding.
PlaneOK(p, w, h) ==
    /\ p = [stride |-> w, data |-> p.data]
    /\ p.data = [i \in 0 .. w * h - 1 |-> p.data[i]]
Sample(p, w, a, b) == p.data[b * w + a]

\* Its rows are as long as it is wide.
LEMMA StrideIs ==
    ASSUME NEW p, NEW w, NEW h, PlaneOK(p, w, h)
    PROVE  p.stride = w
BY DEF PlaneOK

\* Two planes with the same samples are the same.
LEMMA SamePlane ==
    ASSUME NEW w \in Nat, NEW h \in Nat, NEW p, NEW q, PlaneOK(p, w, h), PlaneOK(q, w, h),
           \A a \in 0 .. w - 1, b \in 0 .. h - 1 : Sample(p, w, a, b) = Sample(q, w, a, b)
    PROVE  p = q
<1>1. \A i \in 0 .. w * h - 1 : p.data[i] = q.data[i]
  <2> TAKE i \in 0 .. w * h - 1
  <2>1. PICK a \in 0 .. w - 1, b \in 0 .. h - 1 : b * w + a = i
    BY IndexOnto
  <2>2. Sample(p, w, a, b) = Sample(q, w, a, b)
    OBVIOUS
  <2> QED
    BY <2>1, <2>2 DEF Sample
<1>2. p.data = q.data
  BY <1>1 DEF PlaneOK
<1> QED
  BY <1>2 DEF PlaneOK

\* The loops of a mirror and of a turn on one plane of w by h.
Flipped(d, s, w, h) ==
    Written(d, Area(w, h), LAMBDA c : Index(d.stride, <<w - 1 - c[1], c[2]>>),
            LAMBDA c : Read(s.data, Index(s.stride, c)))
Swung(d, s, w, h, rot) ==
    Written(d, Area(w, h), LAMBDA c : Index(d.stride, Turned(c, w, h, rot)),
            LAMBDA c : Read(s.data, Index(s.stride, c)))

\* What a loop reads inside a plane is the sample that is there.
LEMMA ReadsInside ==
    ASSUME NEW w \in Nat, NEW h \in Nat, NEW s, PlaneOK(s, w, h), NEW a \in 0 .. w - 1, NEW b \in 0 .. h - 1
    PROVE  Read(s.data, Index(s.stride, <<a, b>>)) = Sample(s, w, a, b)
<1>1. b * w + a \in 0 .. w * h - 1
  BY IndexInside
<1>2. s.stride = w /\ DOMAIN s.data = 0 .. w * h - 1
  BY DEF PlaneOK
<1> QED
  BY <1>1, <1>2 DEF Read, Index, Sample

\* A flipped plane, sample by sample: every column is the one opposite.
LEMMA FlippedSamples ==
    ASSUME NEW w \in Nat, NEW h \in Nat, NEW d, NEW s, PlaneOK(d, w, h), PlaneOK(s, w, h)
    PROVE  /\ PlaneOK(Flipped(d, s, w, h), w, h)
           /\ \A a \in 0 .. w - 1, b \in 0 .. h - 1 :
                 Sample(Flipped(d, s, w, h), w, a, b) = Sample(s, w, w - 1 - a, b)
<1> DEFINE To(c) == Index(d.stride, <<w - 1 - c[1], c[2]>>)
           at == {To(c) : c \in Area(w, h)}
           Pick(i) == CHOOSE c \in Area(w, h) : To(c) = i
           data == [i \in DOMAIN d.data \cup at |->
                      IF i \in at THEN Read(s.data, Index(s.stride, Pick(i))) ELSE d.data[i]]
           r == Flipped(d, s, w, h)
<1>1. r = [d EXCEPT !.data = data]
  BY DEF Flipped, Written
<1>2. d.stride = w /\ DOMAIN d.data = 0 .. w * h - 1
  BY DEF PlaneOK
<1>3. \A a \in 0 .. w - 1, b \in 0 .. h - 1 :
         /\ To(<<a, b>>) = b * w + (w - 1 - a) /\ To(<<a, b>>) \in 0 .. w * h - 1
  <2> TAKE a \in 0 .. w - 1, b \in 0 .. h - 1
  <2>1. w - 1 - a \in 0 .. w - 1
    OBVIOUS
  <2>2. b * w + (w - 1 - a) \in 0 .. w * h - 1
    BY <2>1, IndexInside
  <2>3. To(<<a, b>>) = b * w + (w - 1 - a)
    BY <1>2 DEF Index
  <2> QED
    BY <2>2, <2>3
<1>4. \A c \in Area(w, h) : \E a \in 0 .. w - 1, b \in 0 .. h - 1 : c = <<a, b>>
  BY DEF Area
<1> HIDE DEF To
<1>5. at \subseteq 0 .. w * h - 1
  BY <1>3, <1>4
<1>6. r = [stride |-> w, data |-> data] /\ data = [i \in 0 .. w * h - 1 |-> data[i]]
  <2>1. DOMAIN d.data \cup at = 0 .. w * h - 1
    BY <1>2, <1>5
  <2>2. d = [stride |-> w, data |-> d.data]
    BY DEF PlaneOK
  <2> HIDE DEF r, at
  <2>3. data = [i \in 0 .. w * h - 1 |-> data[i]]
    BY <2>1
  <2>4. PICK f : d = [stride |-> w, data |-> f]
    BY <2>2
  <2> HIDE DEF data
  <2>5. [d EXCEPT !.data = data] = [stride |-> w, data |-> data]
    BY <2>4
  <2> QED
    BY <1>1, <2>3, <2>5
<1>7. ASSUME NEW a \in 0 .. w - 1, NEW b \in 0 .. h - 1
      PROVE  data[b * w + a] = Sample(s, w, w - 1 - a, b)
  <2> DEFINE x == w - 1 - a
             i == b * w + a
  <2>1. x \in 0 .. w - 1 /\ w - 1 - x = a
    OBVIOUS
  <2>2. To(<<x, b>>) = i /\ <<x, b>> \in Area(w, h)
    BY <1>3, <2>1 DEF Area
  <2>3. i \in at /\ i \in DOMAIN d.data \cup at
    BY <2>2
  <2>4. Pick(i) \in Area(w, h) /\ To(Pick(i)) = i
    BY <2>2
  <2>5. PICK e \in 0 .. w - 1, f \in 0 .. h - 1 : Pick(i) = <<e, f>>
    BY <1>4, <2>4
  <2>6. f * w + (w - 1 - e) = b * w + a
    BY <1>3, <2>4, <2>5
  <2>7. w - 1 - e = a /\ f = b
    <3>1. w - 1 - e \in 0 .. w - 1
      OBVIOUS
    <3> QED
      BY <2>6, <3>1, IndexInjective
  <2>8. Pick(i) = <<x, b>>
    BY <2>5, <2>7
  <2>9. data[i] = Read(s.data, Index(s.stride, Pick(i)))
    <3> HIDE DEF at, i, Pick
    <3> QED
      BY <2>3
  <2>10. Read(s.data, Index(s.stride, <<x, b>>)) = Sample(s, w, x, b)
    BY <2>1, ReadsInside
  <2> HIDE DEF Pick, data, at
  <2> QED
    BY <2>8, <2>9, <2>10
<1> HIDE DEF data
<1>8. r.stride = w /\ r.data = data
  BY <1>6
<1>9. PlaneOK(r, w, h)
  BY <1>6, <1>8 DEF PlaneOK
<1> QED
  BY <1>7, <1>8, <1>9 DEF Sample

\* The sides of a plane of w by h after a turn.
TurnedW(w, h, rot) == IF rot \in {90, 270} THEN h ELSE w
TurnedH(w, h, rot) == IF rot \in {90, 270} THEN w ELSE h
Turns == {90, 180, 270}

\* Where a cell goes in a turn: into the turned plane, and no two to one place.
LEMMA TurnInside ==
    ASSUME NEW w \in Nat, NEW h \in Nat, NEW rot \in Turns, NEW a \in 0 .. w - 1, NEW b \in 0 .. h - 1
    PROVE  /\ Turned(<<a, b>>, w, h, rot)[1] \in 0 .. TurnedW(w, h, rot) - 1
           /\ Turned(<<a, b>>, w, h, rot)[2] \in 0 .. TurnedH(w, h, rot) - 1
           /\ rot = 90  => Turned(<<a, b>>, w, h, rot) = <<h - 1 - b, a>>
           /\ rot = 180 => Turned(<<a, b>>, w, h, rot) = <<w - 1 - a, h - 1 - b>>
           /\ rot = 270 => Turned(<<a, b>>, w, h, rot) = <<b, w - 1 - a>>
BY DEF Turned, TurnedW, TurnedH, Turns

LEMMA TurnInjective ==
    ASSUME NEW w \in Nat, NEW h \in Nat, NEW rot \in Turns, NEW a \in 0 .. w - 1, NEW b \in 0 .. h - 1,
           NEW e \in 0 .. w - 1, NEW f \in 0 .. h - 1,
           Turned(<<a, b>>, w, h, rot)[1] = Turned(<<e, f>>, w, h, rot)[1],
           Turned(<<a, b>>, w, h, rot)[2] = Turned(<<e, f>>, w, h, rot)[2]
    PROVE  a = e /\ b = f
BY DEF Turned, Turns

\* A turned plane, sample by sample.
LEMMA SwungSamples ==
    ASSUME NEW w \in Nat, NEW h \in Nat, NEW rot \in Turns, NEW d, NEW s,
           PlaneOK(d, TurnedW(w, h, rot), TurnedH(w, h, rot)), PlaneOK(s, w, h)
    PROVE  /\ PlaneOK(Swung(d, s, w, h, rot), TurnedW(w, h, rot), TurnedH(w, h, rot))
           /\ \A a \in 0 .. w - 1, b \in 0 .. h - 1 :
                 LET t == Turned(<<a, b>>, w, h, rot)
                 IN  Sample(Swung(d, s, w, h, rot), TurnedW(w, h, rot), t[1], t[2]) = Sample(s, w, a, b)
<1> DEFINE v == TurnedW(w, h, rot)
           g == TurnedH(w, h, rot)
           T(c) == Turned(c, w, h, rot)
           To(c) == Index(d.stride, T(c))
           at == {To(c) : c \in Area(w, h)}
           Pick(i) == CHOOSE c \in Area(w, h) : To(c) = i
           data == [i \in DOMAIN d.data \cup at |->
                      IF i \in at THEN Read(s.data, Index(s.stride, Pick(i))) ELSE d.data[i]]
           r == Swung(d, s, w, h, rot)
<1>1. r = [d EXCEPT !.data = data]
  BY DEF Swung, Written
<1>2. d.stride = v /\ DOMAIN d.data = 0 .. v * g - 1 /\ d = [stride |-> v, data |-> d.data]
  BY DEF PlaneOK
<1>0. v \in Nat /\ g \in Nat
  BY DEF TurnedW, TurnedH
<1> HIDE DEF r
<1>3. \A a \in 0 .. w - 1, b \in 0 .. h - 1 :
         /\ To(<<a, b>>) = T(<<a, b>>)[2] * v + T(<<a, b>>)[1] /\ To(<<a, b>>) \in 0 .. v * g - 1
         /\ T(<<a, b>>)[1] \in 0 .. v - 1 /\ T(<<a, b>>)[2] \in 0 .. g - 1
  <2> TAKE a \in 0 .. w - 1, b \in 0 .. h - 1
  <2>1. T(<<a, b>>)[1] \in 0 .. v - 1 /\ T(<<a, b>>)[2] \in 0 .. g - 1
    BY TurnInside
  <2> HIDE DEF v, g, T
  <2>2. T(<<a, b>>)[2] * v + T(<<a, b>>)[1] \in 0 .. v * g - 1
    BY <1>0, <2>1, IndexInside
  <2>3. To(<<a, b>>) = T(<<a, b>>)[2] * v + T(<<a, b>>)[1]
    BY <1>2 DEF Index
  <2> QED
    BY <2>1, <2>2, <2>3
<1>4. \A c \in Area(w, h) : \E a \in 0 .. w - 1, b \in 0 .. h - 1 : c = <<a, b>>
  BY DEF Area
<1> HIDE DEF To, v, g
<1>5. at \subseteq 0 .. v * g - 1
  BY <1>3, <1>4
<1>6. r = [stride |-> v, data |-> data] /\ data = [i \in 0 .. v * g - 1 |-> data[i]]
  <2>1. DOMAIN d.data \cup at = 0 .. v * g - 1
    BY <1>2, <1>5
  <2> HIDE DEF at
  <2>2. data = [i \in 0 .. v * g - 1 |-> data[i]]
    BY <2>1
  <2>3. PICK f : d = [stride |-> v, data |-> f]
    BY <1>2
  <2> HIDE DEF data
  <2>4. [d EXCEPT !.data = data] = [stride |-> v, data |-> data]
    BY <2>3
  <2> QED
    BY <1>1, <2>2, <2>4
<1>7. ASSUME NEW a \in 0 .. w - 1, NEW b \in 0 .. h - 1
      PROVE  data[To(<<a, b>>)] = Sample(s, w, a, b)
  <2> DEFINE i == To(<<a, b>>)
  <2>1. i \in at /\ i \in DOMAIN d.data \cup at
    BY DEF Area
  <2>2. Pick(i) \in Area(w, h) /\ To(Pick(i)) = i
    BY DEF Area
  <2>3. PICK e \in 0 .. w - 1, f \in 0 .. h - 1 : Pick(i) = <<e, f>>
    BY <1>4, <2>2
  <2>4. T(<<e, f>>)[2] * v + T(<<e, f>>)[1] = T(<<a, b>>)[2] * v + T(<<a, b>>)[1]
    BY <1>3, <2>2, <2>3
  <2>5. T(<<e, f>>)[1] = T(<<a, b>>)[1] /\ T(<<e, f>>)[2] = T(<<a, b>>)[2]
    <3>1. T(<<e, f>>)[1] \in 0 .. v - 1 /\ T(<<a, b>>)[1] \in 0 .. v - 1
      BY <1>3
    <3>2. T(<<e, f>>)[2] \in Nat /\ T(<<a, b>>)[2] \in Nat
      BY <1>3, <1>0
    <3>3. \A x, z \in 0 .. v - 1, y, u \in Nat : y * v + x = u * v + z => x = z /\ y = u
      BY <1>0, IndexInjective
    <3> HIDE DEF T
    <3> QED
      BY <2>4, <3>1, <3>2, <3>3
  <2>6. e = a /\ f = b
    BY <2>5, TurnInjective
  <2>7. Pick(i) = <<a, b>>
    BY <2>3, <2>6
  <2>8. data[i] = Read(s.data, Index(s.stride, Pick(i)))
    <3> HIDE DEF at, i, Pick
    <3> QED
      BY <2>1
  <2>9. Read(s.data, Index(s.stride, <<a, b>>)) = Sample(s, w, a, b)
    BY ReadsInside
  <2> HIDE DEF Pick, data, at, i
  <2>10. data[i] = Sample(s, w, a, b)
    BY <2>7, <2>8, <2>9
  <2> QED
    BY <2>10 DEF i
<1> HIDE DEF data
<1>8. r.stride = v /\ r.data = data
  BY <1>6
<1>9. PlaneOK(r, v, g)
  BY <1>6, <1>8 DEF PlaneOK
<1>10. ASSUME NEW a \in 0 .. w - 1, NEW b \in 0 .. h - 1
       PROVE  Sample(r, v, T(<<a, b>>)[1], T(<<a, b>>)[2]) = Sample(s, w, a, b)
  BY <1>3, <1>7, <1>8 DEF Sample
<1> QED
  BY <1>9, <1>10 DEF r, v, g

\* Where the samples of a turned plane come from.
LEMMA SwungFrom ==
    ASSUME NEW w \in Nat, NEW h \in Nat, NEW s, PlaneOK(s, w, h)
    PROVE  /\ \A d : PlaneOK(d, h, w) =>
                 /\ PlaneOK(Swung(d, s, w, h, 90), h, w) /\ PlaneOK(Swung(d, s, w, h, 270), h, w)
                 /\ \A x \in 0 .. h - 1, y \in 0 .. w - 1 :
                       /\ Sample(Swung(d, s, w, h, 90), h, x, y) = Sample(s, w, y, h - 1 - x)
                       /\ Sample(Swung(d, s, w, h, 270), h, x, y) = Sample(s, w, w - 1 - y, x)
           /\ \A d : PlaneOK(d, w, h) =>
                 /\ PlaneOK(Swung(d, s, w, h, 180), w, h)
                 /\ \A x \in 0 .. w - 1, y \in 0 .. h - 1 :
                       Sample(Swung(d, s, w, h, 180), w, x, y) = Sample(s, w, w - 1 - x, h - 1 - y)
<1>1. ASSUME NEW d, PlaneOK(d, h, w)
      PROVE  /\ PlaneOK(Swung(d, s, w, h, 90), h, w) /\ PlaneOK(Swung(d, s, w, h, 270), h, w)
             /\ \A x \in 0 .. h - 1, y \in 0 .. w - 1 :
                   /\ Sample(Swung(d, s, w, h, 90), h, x, y) = Sample(s, w, y, h - 1 - x)
                   /\ Sample(Swung(d, s, w, h, 270), h, x, y) = Sample(s, w, w - 1 - y, x)
  <2> USE <1>1
  <2>1. \A rot \in {90, 270} : rot \in Turns /\ TurnedW(w, h, rot) = h /\ TurnedH(w, h, rot) = w
    BY DEF Turns, TurnedW, TurnedH
  <2>2. \A rot \in {90, 270} :
           /\ PlaneOK(Swung(d, s, w, h, rot), h, w)
           /\ \A a \in 0 .. w - 1, b \in 0 .. h - 1 :
                 Sample(Swung(d, s, w, h, rot), h, Turned(<<a, b>>, w, h, rot)[1], Turned(<<a, b>>, w, h, rot)[2])
                   = Sample(s, w, a, b)
    <3> TAKE rot \in {90, 270}
    <3>1. rot \in Turns /\ TurnedW(w, h, rot) = h /\ TurnedH(w, h, rot) = w
      BY <2>1
    <3>2. PlaneOK(d, TurnedW(w, h, rot), TurnedH(w, h, rot))
      BY <3>1
    <3> QED
      BY <3>1, <3>2, SwungSamples
  <2>3. \A a \in 0 .. w - 1, b \in 0 .. h - 1 :
           /\ Turned(<<a, b>>, w, h, 90) = <<h - 1 - b, a>>
           /\ Turned(<<a, b>>, w, h, 270) = <<b, w - 1 - a>>
    BY DEF Turned
  <2>4. \A a \in 0 .. w - 1, b \in 0 .. h - 1 :
           /\ Sample(Swung(d, s, w, h, 90), h, h - 1 - b, a) = Sample(s, w, a, b)
           /\ Sample(Swung(d, s, w, h, 270), h, b, w - 1 - a) = Sample(s, w, a, b)
    <3> TAKE a \in 0 .. w - 1, b \in 0 .. h - 1
    <3>1. \A rot \in {90, 270} :
             Sample(Swung(d, s, w, h, rot), h, Turned(<<a, b>>, w, h, rot)[1], Turned(<<a, b>>, w, h, rot)[2])
               = Sample(s, w, a, b)
      BY <2>2
    <3>2. Turned(<<a, b>>, w, h, 90) = <<h - 1 - b, a>> /\ Turned(<<a, b>>, w, h, 270) = <<b, w - 1 - a>>
      BY <2>3
    <3>3. <<h - 1 - b, a>>[1] = h - 1 - b /\ <<h - 1 - b, a>>[2] = a /\ <<b, w - 1 - a>>[1] = b /\ <<b, w - 1 - a>>[2] = w - 1 - a
      OBVIOUS
    <3>4. Turned(<<a, b>>, w, h, 90)[1] = h - 1 - b /\ Turned(<<a, b>>, w, h, 90)[2] = a
      BY <3>2, <3>3
    <3>5. Turned(<<a, b>>, w, h, 270)[1] = b /\ Turned(<<a, b>>, w, h, 270)[2] = w - 1 - a
      BY <3>2, <3>3
    <3>6. Sample(Swung(d, s, w, h, 90), h, Turned(<<a, b>>, w, h, 90)[1], Turned(<<a, b>>, w, h, 90)[2])
            = Sample(s, w, a, b)
      BY <3>1
    <3>7. Sample(Swung(d, s, w, h, 270), h, Turned(<<a, b>>, w, h, 270)[1], Turned(<<a, b>>, w, h, 270)[2])
            = Sample(s, w, a, b)
      BY <3>1
    <3>8. Sample(Swung(d, s, w, h, 90), h, h - 1 - b, a) = Sample(s, w, a, b)
      BY <3>4, <3>6
    <3>9. Sample(Swung(d, s, w, h, 270), h, b, w - 1 - a) = Sample(s, w, a, b)
      BY <3>5, <3>7
    <3> QED
      BY <3>8, <3>9
  <2>5. ASSUME NEW x \in 0 .. h - 1, NEW y \in 0 .. w - 1
        PROVE  /\ Sample(Swung(d, s, w, h, 90), h, x, y) = Sample(s, w, y, h - 1 - x)
               /\ Sample(Swung(d, s, w, h, 270), h, x, y) = Sample(s, w, w - 1 - y, x)
    <3>1. h - 1 - x \in 0 .. h - 1 /\ h - 1 - (h - 1 - x) = x /\ w - 1 - y \in 0 .. w - 1 /\ w - 1 - (w - 1 - y) = y
      OBVIOUS
    <3>2. Sample(Swung(d, s, w, h, 90), h, h - 1 - (h - 1 - x), y) = Sample(s, w, y, h - 1 - x)
      BY <2>4, <3>1
    <3>3. Sample(Swung(d, s, w, h, 270), h, x, w - 1 - (w - 1 - y)) = Sample(s, w, w - 1 - y, x)
      BY <2>4, <3>1
    <3> QED
      BY <3>1, <3>2, <3>3
  <2> QED
    BY <2>2, <2>5
<1>2. ASSUME NEW d, PlaneOK(d, w, h)
      PROVE  /\ PlaneOK(Swung(d, s, w, h, 180), w, h)
             /\ \A x \in 0 .. w - 1, y \in 0 .. h - 1 :
                   Sample(Swung(d, s, w, h, 180), w, x, y) = Sample(s, w, w - 1 - x, h - 1 - y)
  <2> USE <1>2
  <2>1. 180 \in Turns /\ TurnedW(w, h, 180) = w /\ TurnedH(w, h, 180) = h
    BY DEF Turns, TurnedW, TurnedH
  <2>2. PlaneOK(d, TurnedW(w, h, 180), TurnedH(w, h, 180))
    BY <2>1
  <2>3. /\ PlaneOK(Swung(d, s, w, h, 180), w, h)
        /\ \A a \in 0 .. w - 1, b \in 0 .. h - 1 :
              Sample(Swung(d, s, w, h, 180), w, Turned(<<a, b>>, w, h, 180)[1], Turned(<<a, b>>, w, h, 180)[2])
                = Sample(s, w, a, b)
    BY <2>1, <2>2, SwungSamples
  <2>4. \A a \in 0 .. w - 1, b \in 0 .. h - 1 : Turned(<<a, b>>, w, h, 180) = <<w - 1 - a, h - 1 - b>>
    BY DEF Turned
  <2>5. \A a \in 0 .. w - 1, b \in 0 .. h - 1 :
           Sample(Swung(d, s, w, h, 180), w, w - 1 - a, h - 1 - b) = Sample(s, w, a, b)
    <3> TAKE a \in 0 .. w - 1, b \in 0 .. h - 1
    <3>1. Sample(Swung(d, s, w, h, 180), w, Turned(<<a, b>>, w, h, 180)[1], Turned(<<a, b>>, w, h, 180)[2])
            = Sample(s, w, a, b)
      BY <2>3
    <3>2. Turned(<<a, b>>, w, h, 180) = <<w - 1 - a, h - 1 - b>>
      BY <2>4
    <3>3. <<w - 1 - a, h - 1 - b>>[1] = w - 1 - a /\ <<w - 1 - a, h - 1 - b>>[2] = h - 1 - b
      OBVIOUS
    <3> QED
      BY <3>1, <3>2, <3>3, Zenon
  <2>6. ASSUME NEW x \in 0 .. w - 1, NEW y \in 0 .. h - 1
        PROVE  Sample(Swung(d, s, w, h, 180), w, x, y) = Sample(s, w, w - 1 - x, h - 1 - y)
    <3>1. h - 1 - y \in 0 .. h - 1 /\ h - 1 - (h - 1 - y) = y /\ w - 1 - x \in 0 .. w - 1 /\ w - 1 - (w - 1 - x) = x
      OBVIOUS
    <3>2. Sample(Swung(d, s, w, h, 180), w, w - 1 - (w - 1 - x), h - 1 - (h - 1 - y)) = Sample(s, w, w - 1 - x, h - 1 - y)
      BY <2>5, <3>1
    <3> QED
      BY <3>1, <3>2
  <2> QED
    BY <2>3, <2>6
<1> QED
  BY <1>1, <1>2

\* What flips and turns of one plane undo.
LEMMA FlipTwice ==
    ASSUME NEW w \in Nat, NEW h \in Nat, NEW s, PlaneOK(s, w, h), NEW d, PlaneOK(d, w, h)
    PROVE  Flipped(d, Flipped(d, s, w, h), w, h) = s
<1> DEFINE f == Flipped(d, s, w, h)
           r == Flipped(d, f, w, h)
<1>1. PlaneOK(f, w, h) /\ \A a \in 0 .. w - 1, b \in 0 .. h - 1 : Sample(f, w, a, b) = Sample(s, w, w - 1 - a, b)
  BY FlippedSamples
<1> HIDE DEF f
<1>2. PlaneOK(r, w, h) /\ \A a \in 0 .. w - 1, b \in 0 .. h - 1 : Sample(r, w, a, b) = Sample(f, w, w - 1 - a, b)
  BY <1>1, FlippedSamples
<1> HIDE DEF r
<1>3. \A a \in 0 .. w - 1 : w - 1 - a \in 0 .. w - 1 /\ w - 1 - (w - 1 - a) = a
  OBVIOUS
<1>4. \A a \in 0 .. w - 1, b \in 0 .. h - 1 : Sample(r, w, a, b) = Sample(s, w, a, b)
  BY <1>1, <1>2, <1>3
<1>5. r = s
  BY <1>2, <1>4, SamePlane
<1> QED
  BY <1>5 DEF r, f

\* A quarter turn back undoes one, and two make half a turn.
LEMMA TurnBack ==
    ASSUME NEW w \in Nat, NEW h \in Nat, NEW s, PlaneOK(s, w, h),
           NEW d, PlaneOK(d, h, w), NEW e, PlaneOK(e, w, h)
    PROVE  /\ Swung(e, Swung(d, s, w, h, 90), h, w, 270) = s
           /\ Swung(e, Swung(d, s, w, h, 90), h, w, 90) = Swung(e, s, w, h, 180)
<1> DEFINE f == Swung(d, s, w, h, 90)
           r == Swung(e, f, h, w, 270)
           q == Swung(e, f, h, w, 90)
           t == Swung(e, s, w, h, 180)
<1>1. PlaneOK(f, h, w) /\ \A x \in 0 .. h - 1, y \in 0 .. w - 1 : Sample(f, h, x, y) = Sample(s, w, y, h - 1 - x)
  BY SwungFrom
<1>2. PlaneOK(t, w, h) /\ \A x \in 0 .. w - 1, y \in 0 .. h - 1 : Sample(t, w, x, y) = Sample(s, w, w - 1 - x, h - 1 - y)
  BY SwungFrom
<1> HIDE DEF f, t
<1>3. /\ PlaneOK(r, w, h) /\ PlaneOK(q, w, h)
      /\ \A x \in 0 .. w - 1, y \in 0 .. h - 1 :
            Sample(r, w, x, y) = Sample(f, h, h - 1 - y, x) /\ Sample(q, w, x, y) = Sample(f, h, y, w - 1 - x)
  BY <1>1, SwungFrom
<1> HIDE DEF r, q
<1>4. /\ \A x \in 0 .. w - 1 : w - 1 - x \in 0 .. w - 1
      /\ \A y \in 0 .. h - 1 : h - 1 - y \in 0 .. h - 1 /\ h - 1 - (h - 1 - y) = y
  OBVIOUS
<1>5. \A x \in 0 .. w - 1, y \in 0 .. h - 1 : Sample(r, w, x, y) = Sample(s, w, x, y)
  BY <1>1, <1>3, <1>4
<1>6. \A x \in 0 .. w - 1, y \in 0 .. h - 1 : Sample(q, w, x, y) = Sample(t, w, x, y)
  BY <1>1, <1>2, <1>3, <1>4
<1>7. r = s /\ q = t
  BY <1>2, <1>3, <1>5, <1>6, SamePlane
<1> QED
  BY <1>7 DEF f, r, q, t

\* Half a turn between two flips is half a turn.
LEMMA FlippedTurn ==
    ASSUME NEW w \in Nat, NEW h \in Nat, NEW s, PlaneOK(s, w, h), NEW d, PlaneOK(d, w, h)
    PROVE  Flipped(d, Swung(d, Flipped(d, s, w, h), w, h, 180), w, h) = Swung(d, s, w, h, 180)
<1> DEFINE f == Flipped(d, s, w, h)
           g == Swung(d, f, w, h, 180)
           r == Flipped(d, g, w, h)
           t == Swung(d, s, w, h, 180)
<1>1. PlaneOK(f, w, h) /\ \A a \in 0 .. w - 1, b \in 0 .. h - 1 : Sample(f, w, a, b) = Sample(s, w, w - 1 - a, b)
  BY FlippedSamples
<1>2. PlaneOK(t, w, h) /\ \A x \in 0 .. w - 1, y \in 0 .. h - 1 : Sample(t, w, x, y) = Sample(s, w, w - 1 - x, h - 1 - y)
  BY SwungFrom
<1> HIDE DEF f, t
<1>3. PlaneOK(g, w, h) /\ \A x \in 0 .. w - 1, y \in 0 .. h - 1 : Sample(g, w, x, y) = Sample(f, w, w - 1 - x, h - 1 - y)
  BY <1>1, SwungFrom
<1> HIDE DEF g
<1>4. PlaneOK(r, w, h) /\ \A a \in 0 .. w - 1, b \in 0 .. h - 1 : Sample(r, w, a, b) = Sample(g, w, w - 1 - a, b)
  BY <1>3, FlippedSamples
<1> HIDE DEF r
<1>5. /\ \A x \in 0 .. w - 1 : w - 1 - x \in 0 .. w - 1 /\ w - 1 - (w - 1 - x) = x
      /\ \A y \in 0 .. h - 1 : h - 1 - y \in 0 .. h - 1
  OBVIOUS
<1>6. \A a \in 0 .. w - 1, b \in 0 .. h - 1 : Sample(r, w, a, b) = Sample(t, w, a, b)
  BY <1>1, <1>2, <1>3, <1>4, <1>5
<1>7. r = t
  BY <1>2, <1>4, <1>6, SamePlane
<1> QED
  BY <1>7 DEF f, g, r, t

\* NV12: the two chroma planes in one, side by side.
U2(d, s, w, h) ==
    Written(d, Area(w, h), LAMBDA c : 2 * Index(w, c), LAMBDA c : Read(s.data, Index(s.stride, c)))
V2(d, s, w, h, stride) ==
    Written(d, Area(w, h), LAMBDA c : 2 * Index(w, c) + 1, LAMBDA c : Read(s.data, Index(stride, c)))
Put2(d, s, w, h, row, k) ==
    Written(d, Area(w, h), LAMBDA c : c[2] * row + 2 * c[1] + k, LAMBDA c : Read(s.data, Index(s.stride, c)))

\* r is d with the samples of s at every second place, from the k-th on.
Puts(r, d, s, w, h, k) ==
    /\ r = [stride |-> d.stride, data |-> r.data]
    /\ \A a \in 0 .. w - 1, b \in 0 .. h - 1 :
          /\ 2 * (b * w + a) + k \in DOMAIN r.data
          /\ r.data[2 * (b * w + a) + k] = Sample(s, w, a, b)
    /\ \A i \in DOMAIN d.data : (\A j \in Nat : i # 2 * j + k) => i \in DOMAIN r.data /\ r.data[i] = d.data[i]

\* Each of those loops leaves the samples at their places and the others alone.
LEMMA PutsU ==
    ASSUME NEW w \in Nat, NEW h \in Nat, NEW s, PlaneOK(s, w, h), NEW d, d = [stride |-> d.stride, data |-> d.data]
    PROVE  Puts(U2(d, s, w, h), d, s, w, h, 0)
<1> DEFINE To(c) == 2 * Index(w, c)
           at == {To(c) : c \in Area(w, h)}
           Pick(i) == CHOOSE c \in Area(w, h) : To(c) = i
           data == [i \in DOMAIN d.data \cup at |->
                      IF i \in at THEN Read(s.data, Index(s.stride, Pick(i))) ELSE d.data[i]]
           r == U2(d, s, w, h)
           k == 0
<1>1. r = [d EXCEPT !.data = data]
  BY DEF U2, Written
<1>2. \A c \in Area(w, h) : \E a \in 0 .. w - 1, b \in 0 .. h - 1 : c = <<a, b>>
  BY DEF Area
<1>3. \A a \in 0 .. w - 1, b \in 0 .. h - 1 : To(<<a, b>>) = 2 * (b * w + a) + k
  BY DEF Index
<1> HIDE DEF To, r
<1>4. ASSUME NEW a \in 0 .. w - 1, NEW b \in 0 .. h - 1
      PROVE  2 * (b * w + a) + k \in DOMAIN data /\ data[2 * (b * w + a) + k] = Sample(s, w, a, b)
  <2> DEFINE i == To(<<a, b>>)
  <2>1. i \in at /\ i \in DOMAIN d.data \cup at
    BY DEF Area
  <2>2. Pick(i) \in Area(w, h) /\ To(Pick(i)) = i
    BY DEF Area
  <2>3. PICK e \in 0 .. w - 1, f \in 0 .. h - 1 : Pick(i) = <<e, f>>
    BY <1>2, <2>2
  <2>4. f * w + e = b * w + a
    <3>1. 2 * (f * w + e) + k = 2 * (b * w + a) + k
      BY <1>3, <2>2, <2>3
    <3>2. f * w + e \in Nat /\ b * w + a \in Nat /\ k \in Nat
      OBVIOUS
    <3>3. \A m, z \in Nat : 2 * m + k = 2 * z + k => m = z
      OBVIOUS
    <3> QED
      BY <3>1, <3>2, <3>3
  <2>5. e = a /\ f = b
    BY <2>4, IndexInjective
  <2>6. Pick(i) = <<a, b>>
    BY <2>3, <2>5
  <2>7. data[i] = Read(s.data, Index(s.stride, Pick(i)))
    <3> HIDE DEF at, i, Pick
    <3> QED
      BY <2>1
  <2>8. Read(s.data, Index(s.stride, <<a, b>>)) = Sample(s, w, a, b)
    BY ReadsInside
  <2> HIDE DEF Pick, at, i
  <2>9. data[i] = Sample(s, w, a, b) /\ i \in DOMAIN data
    BY <2>1, <2>6, <2>7, <2>8
  <2> HIDE DEF data
  <2> QED
    BY <1>3, <2>9 DEF i
<1>5. ASSUME NEW i \in DOMAIN d.data, \A j \in Nat : i # 2 * j + k
      PROVE  i \in DOMAIN data /\ data[i] = d.data[i]
  <2>1. i \notin at
    <3> SUFFICES ASSUME NEW c \in Area(w, h), To(c) = i PROVE FALSE
      OBVIOUS
    <3>1. PICK a \in 0 .. w - 1, b \in 0 .. h - 1 : c = <<a, b>>
      BY <1>2
    <3>2. b * w + a \in Nat /\ i = 2 * (b * w + a) + k
      BY <1>3, <3>1
    <3> QED
      BY <1>5, <3>2
  <2> HIDE DEF at
  <2> QED
    BY <2>1
<1> HIDE DEF data
<1>6. r.data = data /\ r = [stride |-> d.stride, data |-> data]
  <2>1. PICK f : d = [stride |-> d.stride, data |-> f]
    OBVIOUS
  <2>2. [d EXCEPT !.data = data] = [stride |-> d.stride, data |-> data]
    BY <2>1
  <2> QED
    BY <1>1, <2>2
<1> QED
  BY <1>4, <1>5, <1>6 DEF Puts, r, k

LEMMA PutsV ==
    ASSUME NEW w \in Nat, NEW h \in Nat, NEW s, PlaneOK(s, w, h), NEW d, d = [stride |-> d.stride, data |-> d.data], NEW stride, stride = s.stride
    PROVE  Puts(V2(d, s, w, h, stride), d, s, w, h, 1)
<1> DEFINE To(c) == 2 * Index(w, c) + 1
           at == {To(c) : c \in Area(w, h)}
           Pick(i) == CHOOSE c \in Area(w, h) : To(c) = i
           data == [i \in DOMAIN d.data \cup at |->
                      IF i \in at THEN Read(s.data, Index(stride, Pick(i))) ELSE d.data[i]]
           r == V2(d, s, w, h, stride)
           k == 1
<1>1. r = [d EXCEPT !.data = data]
  BY DEF V2, Written
<1>2. \A c \in Area(w, h) : \E a \in 0 .. w - 1, b \in 0 .. h - 1 : c = <<a, b>>
  BY DEF Area
<1>3. \A a \in 0 .. w - 1, b \in 0 .. h - 1 : To(<<a, b>>) = 2 * (b * w + a) + k
  BY DEF Index
<1> HIDE DEF To, r
<1>4. ASSUME NEW a \in 0 .. w - 1, NEW b \in 0 .. h - 1
      PROVE  2 * (b * w + a) + k \in DOMAIN data /\ data[2 * (b * w + a) + k] = Sample(s, w, a, b)
  <2> DEFINE i == To(<<a, b>>)
  <2>1. i \in at /\ i \in DOMAIN d.data \cup at
    BY DEF Area
  <2>2. Pick(i) \in Area(w, h) /\ To(Pick(i)) = i
    BY DEF Area
  <2>3. PICK e \in 0 .. w - 1, f \in 0 .. h - 1 : Pick(i) = <<e, f>>
    BY <1>2, <2>2
  <2>4. f * w + e = b * w + a
    <3>1. 2 * (f * w + e) + k = 2 * (b * w + a) + k
      BY <1>3, <2>2, <2>3
    <3>2. f * w + e \in Nat /\ b * w + a \in Nat /\ k \in Nat
      OBVIOUS
    <3>3. \A m, z \in Nat : 2 * m + k = 2 * z + k => m = z
      OBVIOUS
    <3> QED
      BY <3>1, <3>2, <3>3
  <2>5. e = a /\ f = b
    BY <2>4, IndexInjective
  <2>6. Pick(i) = <<a, b>>
    BY <2>3, <2>5
  <2>7. data[i] = Read(s.data, Index(stride, Pick(i)))
    <3> HIDE DEF at, i, Pick
    <3> QED
      BY <2>1
  <2>8. Read(s.data, Index(stride, <<a, b>>)) = Sample(s, w, a, b)
    BY ReadsInside
  <2> HIDE DEF Pick, at, i
  <2>9. data[i] = Sample(s, w, a, b) /\ i \in DOMAIN data
    BY <2>1, <2>6, <2>7, <2>8
  <2> HIDE DEF data
  <2> QED
    BY <1>3, <2>9 DEF i
<1>5. ASSUME NEW i \in DOMAIN d.data, \A j \in Nat : i # 2 * j + k
      PROVE  i \in DOMAIN data /\ data[i] = d.data[i]
  <2>1. i \notin at
    <3> SUFFICES ASSUME NEW c \in Area(w, h), To(c) = i PROVE FALSE
      OBVIOUS
    <3>1. PICK a \in 0 .. w - 1, b \in 0 .. h - 1 : c = <<a, b>>
      BY <1>2
    <3>2. b * w + a \in Nat /\ i = 2 * (b * w + a) + k
      BY <1>3, <3>1
    <3> QED
      BY <1>5, <3>2
  <2> HIDE DEF at
  <2> QED
    BY <2>1
<1> HIDE DEF data
<1>6. r.data = data /\ r = [stride |-> d.stride, data |-> data]
  <2>1. PICK f : d = [stride |-> d.stride, data |-> f]
    OBVIOUS
  <2>2. [d EXCEPT !.data = data] = [stride |-> d.stride, data |-> data]
    BY <2>1
  <2> QED
    BY <1>1, <2>2
<1> QED
  BY <1>4, <1>5, <1>6 DEF Puts, r, k

LEMMA PutsEither ==
    ASSUME NEW w \in Nat, NEW h \in Nat, NEW s, PlaneOK(s, w, h), NEW d, d = [stride |-> d.stride, data |-> d.data], NEW n \in {0, 1}, NEW row, row = 2 * w
    PROVE  Puts(Put2(d, s, w, h, row, n), d, s, w, h, n)
<1> DEFINE To(c) == c[2] * row + 2 * c[1] + n
           at == {To(c) : c \in Area(w, h)}
           Pick(i) == CHOOSE c \in Area(w, h) : To(c) = i
           data == [i \in DOMAIN d.data \cup at |->
                      IF i \in at THEN Read(s.data, Index(s.stride, Pick(i))) ELSE d.data[i]]
           r == Put2(d, s, w, h, row, n)
           k == n
<1>1. r = [d EXCEPT !.data = data]
  BY DEF Put2, Written
<1>2. \A c \in Area(w, h) : \E a \in 0 .. w - 1, b \in 0 .. h - 1 : c = <<a, b>>
  BY DEF Area
<1>3. \A a \in 0 .. w - 1, b \in 0 .. h - 1 : To(<<a, b>>) = 2 * (b * w + a) + k
  BY DEF Index
<1> HIDE DEF To, r
<1>4. ASSUME NEW a \in 0 .. w - 1, NEW b \in 0 .. h - 1
      PROVE  2 * (b * w + a) + k \in DOMAIN data /\ data[2 * (b * w + a) + k] = Sample(s, w, a, b)
  <2> DEFINE i == To(<<a, b>>)
  <2>1. i \in at /\ i \in DOMAIN d.data \cup at
    BY DEF Area
  <2>2. Pick(i) \in Area(w, h) /\ To(Pick(i)) = i
    BY DEF Area
  <2>3. PICK e \in 0 .. w - 1, f \in 0 .. h - 1 : Pick(i) = <<e, f>>
    BY <1>2, <2>2
  <2>4. f * w + e = b * w + a
    <3>1. 2 * (f * w + e) + k = 2 * (b * w + a) + k
      BY <1>3, <2>2, <2>3
    <3>2. f * w + e \in Nat /\ b * w + a \in Nat /\ k \in Nat
      OBVIOUS
    <3>3. \A m, z \in Nat : 2 * m + k = 2 * z + k => m = z
      OBVIOUS
    <3> QED
      BY <3>1, <3>2, <3>3
  <2>5. e = a /\ f = b
    BY <2>4, IndexInjective
  <2>6. Pick(i) = <<a, b>>
    BY <2>3, <2>5
  <2>7. data[i] = Read(s.data, Index(s.stride, Pick(i)))
    <3> HIDE DEF at, i, Pick
    <3> QED
      BY <2>1
  <2>8. Read(s.data, Index(s.stride, <<a, b>>)) = Sample(s, w, a, b)
    BY ReadsInside
  <2> HIDE DEF Pick, at, i
  <2>9. data[i] = Sample(s, w, a, b) /\ i \in DOMAIN data
    BY <2>1, <2>6, <2>7, <2>8
  <2> HIDE DEF data
  <2> QED
    BY <1>3, <2>9 DEF i
<1>5. ASSUME NEW i \in DOMAIN d.data, \A j \in Nat : i # 2 * j + k
      PROVE  i \in DOMAIN data /\ data[i] = d.data[i]
  <2>1. i \notin at
    <3> SUFFICES ASSUME NEW c \in Area(w, h), To(c) = i PROVE FALSE
      OBVIOUS
    <3>1. PICK a \in 0 .. w - 1, b \in 0 .. h - 1 : c = <<a, b>>
      BY <1>2
    <3>2. b * w + a \in Nat /\ i = 2 * (b * w + a) + k
      BY <1>3, <3>1
    <3> QED
      BY <1>5, <3>2
  <2> HIDE DEF at
  <2> QED
    BY <2>1
<1> HIDE DEF data
<1>6. r.data = data /\ r = [stride |-> d.stride, data |-> data]
  <2>1. PICK f : d = [stride |-> d.stride, data |-> f]
    OBVIOUS
  <2>2. [d EXCEPT !.data = data] = [stride |-> d.stride, data |-> data]
    BY <2>1
  <2> QED
    BY <1>1, <2>2
<1> QED
  BY <1>4, <1>5, <1>6 DEF Puts, r, k

\* A plane put together cell by cell, by each of the loops that do so.
Taken(d, stride, src, k, w, h) ==
    Written(d, Area(w, h), LAMBDA c : Index(stride, c), LAMBDA c : Read(src, 2 * Index(w, c) + k))
TakenRow(d, stride, src, row, k, w, h) ==
    Written(d, Area(w, h), LAMBDA c : Index(stride, c), LAMBDA c : Read(src, c[2] * row + 2 * c[1] + k))
CutOut(d, stride, s, x, y, w, h) ==
    Written(d, Area(w, h), LAMBDA c : Index(stride, c),
            LAMBDA c : Read(s.data, Index(s.stride, <<x + c[1], y + c[2]>>)))
CutRows(d, stride, s, off, w, h) ==
    Written(d, Area(w, h), LAMBDA c : Index(stride, c), LAMBDA c : Read(s.data, off + Index(s.stride, c)))

\* Each of them, sample by sample.
LEMMA TakenSamples ==
    ASSUME NEW w \in Nat, NEW h \in Nat, NEW d, PlaneOK(d, w, h), NEW stride, stride = w, NEW src, NEW k
    PROVE  /\ PlaneOK(Taken(d, stride, src, k, w, h), w, h)
           /\ \A a \in 0 .. w - 1, b \in 0 .. h - 1 :
                 Sample(Taken(d, stride, src, k, w, h), w, a, b) = Read(src, 2 * Index(w, <<a, b>>) + k)
<1> DEFINE To(c) == Index(stride, c)
           at == {To(c) : c \in Area(w, h)}
           Pick(i) == CHOOSE c \in Area(w, h) : To(c) = i
           Val(c) == Read(src, 2 * Index(w, c) + k)
           data == [i \in DOMAIN d.data \cup at |-> IF i \in at THEN Val(Pick(i)) ELSE d.data[i]]
           r == Taken(d, stride, src, k, w, h)
<1>1. r = [d EXCEPT !.data = data]
  BY DEF Taken, Written
<1>2. d = [stride |-> w, data |-> d.data] /\ DOMAIN d.data = 0 .. w * h - 1
  BY DEF PlaneOK
<1>3. \A c \in Area(w, h) : \E a \in 0 .. w - 1, b \in 0 .. h - 1 : c = <<a, b>>
  BY DEF Area
<1>4. \A a \in 0 .. w - 1, b \in 0 .. h - 1 : To(<<a, b>>) = b * w + a /\ b * w + a \in 0 .. w * h - 1
  BY IndexInside DEF Index
<1>5. \A a \in 0 .. w - 1, b \in 0 .. h - 1 : Val(<<a, b>>) = Read(src, 2 * Index(w, <<a, b>>) + k)
  OBVIOUS
<1> HIDE DEF To, Val, r
<1>6. at \subseteq 0 .. w * h - 1
  BY <1>3, <1>4
<1>7. r = [stride |-> w, data |-> data] /\ data = [i \in 0 .. w * h - 1 |-> data[i]]
  <2>1. DOMAIN d.data \cup at = 0 .. w * h - 1
    BY <1>2, <1>6
  <2> HIDE DEF at
  <2>2. data = [i \in 0 .. w * h - 1 |-> data[i]]
    BY <2>1
  <2>3. PICK f : d = [stride |-> w, data |-> f]
    BY <1>2
  <2> HIDE DEF data
  <2>4. [d EXCEPT !.data = data] = [stride |-> w, data |-> data]
    BY <2>3
  <2> QED
    BY <1>1, <2>2, <2>4
<1>8. ASSUME NEW a \in 0 .. w - 1, NEW b \in 0 .. h - 1
      PROVE  data[b * w + a] = Val(<<a, b>>)
  <2> DEFINE i == b * w + a
  <2>1. To(<<a, b>>) = i /\ <<a, b>> \in Area(w, h)
    BY <1>4 DEF Area
  <2>2. i \in at /\ i \in DOMAIN d.data \cup at
    BY <2>1
  <2>3. Pick(i) \in Area(w, h) /\ To(Pick(i)) = i
    BY <2>1
  <2>4. PICK e \in 0 .. w - 1, f \in 0 .. h - 1 : Pick(i) = <<e, f>>
    BY <1>3, <2>3
  <2>5. f * w + e = b * w + a
    BY <1>4, <2>3, <2>4
  <2>6. e = a /\ f = b
    BY <2>5, IndexInjective
  <2>7. Pick(i) = <<a, b>>
    BY <2>4, <2>6
  <2> HIDE DEF Pick, at, i
  <2>8. data[i] = Val(Pick(i))
    BY <2>2
  <2> QED
    BY <2>7, <2>8 DEF i
<1> HIDE DEF data
<1>9. r.stride = w /\ r.data = data
  BY <1>7
<1>10. PlaneOK(r, w, h)
  BY <1>7, <1>9 DEF PlaneOK
<1> QED
  BY <1>5, <1>8, <1>9, <1>10 DEF Sample, r

LEMMA TakenRowSamples ==
    ASSUME NEW w \in Nat, NEW h \in Nat, NEW d, PlaneOK(d, w, h), NEW stride, stride = w, NEW src, NEW row, NEW k
    PROVE  /\ PlaneOK(TakenRow(d, stride, src, row, k, w, h), w, h)
           /\ \A a \in 0 .. w - 1, b \in 0 .. h - 1 :
                 Sample(TakenRow(d, stride, src, row, k, w, h), w, a, b) = Read(src, b * row + 2 * a + k)
<1> DEFINE To(c) == Index(stride, c)
           at == {To(c) : c \in Area(w, h)}
           Pick(i) == CHOOSE c \in Area(w, h) : To(c) = i
           Val(c) == Read(src, c[2] * row + 2 * c[1] + k)
           data == [i \in DOMAIN d.data \cup at |-> IF i \in at THEN Val(Pick(i)) ELSE d.data[i]]
           r == TakenRow(d, stride, src, row, k, w, h)
<1>1. r = [d EXCEPT !.data = data]
  BY DEF TakenRow, Written
<1>2. d = [stride |-> w, data |-> d.data] /\ DOMAIN d.data = 0 .. w * h - 1
  BY DEF PlaneOK
<1>3. \A c \in Area(w, h) : \E a \in 0 .. w - 1, b \in 0 .. h - 1 : c = <<a, b>>
  BY DEF Area
<1>4. \A a \in 0 .. w - 1, b \in 0 .. h - 1 : To(<<a, b>>) = b * w + a /\ b * w + a \in 0 .. w * h - 1
  BY IndexInside DEF Index
<1>5. \A a \in 0 .. w - 1, b \in 0 .. h - 1 : Val(<<a, b>>) = Read(src, b * row + 2 * a + k)
  OBVIOUS
<1> HIDE DEF To, Val, r
<1>6. at \subseteq 0 .. w * h - 1
  BY <1>3, <1>4
<1>7. r = [stride |-> w, data |-> data] /\ data = [i \in 0 .. w * h - 1 |-> data[i]]
  <2>1. DOMAIN d.data \cup at = 0 .. w * h - 1
    BY <1>2, <1>6
  <2> HIDE DEF at
  <2>2. data = [i \in 0 .. w * h - 1 |-> data[i]]
    BY <2>1
  <2>3. PICK f : d = [stride |-> w, data |-> f]
    BY <1>2
  <2> HIDE DEF data
  <2>4. [d EXCEPT !.data = data] = [stride |-> w, data |-> data]
    BY <2>3
  <2> QED
    BY <1>1, <2>2, <2>4
<1>8. ASSUME NEW a \in 0 .. w - 1, NEW b \in 0 .. h - 1
      PROVE  data[b * w + a] = Val(<<a, b>>)
  <2> DEFINE i == b * w + a
  <2>1. To(<<a, b>>) = i /\ <<a, b>> \in Area(w, h)
    BY <1>4 DEF Area
  <2>2. i \in at /\ i \in DOMAIN d.data \cup at
    BY <2>1
  <2>3. Pick(i) \in Area(w, h) /\ To(Pick(i)) = i
    BY <2>1
  <2>4. PICK e \in 0 .. w - 1, f \in 0 .. h - 1 : Pick(i) = <<e, f>>
    BY <1>3, <2>3
  <2>5. f * w + e = b * w + a
    BY <1>4, <2>3, <2>4
  <2>6. e = a /\ f = b
    BY <2>5, IndexInjective
  <2>7. Pick(i) = <<a, b>>
    BY <2>4, <2>6
  <2> HIDE DEF Pick, at, i
  <2>8. data[i] = Val(Pick(i))
    BY <2>2
  <2> QED
    BY <2>7, <2>8 DEF i
<1> HIDE DEF data
<1>9. r.stride = w /\ r.data = data
  BY <1>7
<1>10. PlaneOK(r, w, h)
  BY <1>7, <1>9 DEF PlaneOK
<1> QED
  BY <1>5, <1>8, <1>9, <1>10 DEF Sample, r

LEMMA CutOutSamples ==
    ASSUME NEW w \in Nat, NEW h \in Nat, NEW d, PlaneOK(d, w, h), NEW stride, stride = w, NEW s, NEW x, NEW y
    PROVE  /\ PlaneOK(CutOut(d, stride, s, x, y, w, h), w, h)
           /\ \A a \in 0 .. w - 1, b \in 0 .. h - 1 :
                 Sample(CutOut(d, stride, s, x, y, w, h), w, a, b) = Read(s.data, Index(s.stride, <<x + a, y + b>>))
<1> DEFINE To(c) == Index(stride, c)
           at == {To(c) : c \in Area(w, h)}
           Pick(i) == CHOOSE c \in Area(w, h) : To(c) = i
           Val(c) == Read(s.data, Index(s.stride, <<x + c[1], y + c[2]>>))
           data == [i \in DOMAIN d.data \cup at |-> IF i \in at THEN Val(Pick(i)) ELSE d.data[i]]
           r == CutOut(d, stride, s, x, y, w, h)
<1>1. r = [d EXCEPT !.data = data]
  BY DEF CutOut, Written
<1>2. d = [stride |-> w, data |-> d.data] /\ DOMAIN d.data = 0 .. w * h - 1
  BY DEF PlaneOK
<1>3. \A c \in Area(w, h) : \E a \in 0 .. w - 1, b \in 0 .. h - 1 : c = <<a, b>>
  BY DEF Area
<1>4. \A a \in 0 .. w - 1, b \in 0 .. h - 1 : To(<<a, b>>) = b * w + a /\ b * w + a \in 0 .. w * h - 1
  BY IndexInside DEF Index
<1>5. \A a \in 0 .. w - 1, b \in 0 .. h - 1 : Val(<<a, b>>) = Read(s.data, Index(s.stride, <<x + a, y + b>>))
  OBVIOUS
<1> HIDE DEF To, Val, r
<1>6. at \subseteq 0 .. w * h - 1
  BY <1>3, <1>4
<1>7. r = [stride |-> w, data |-> data] /\ data = [i \in 0 .. w * h - 1 |-> data[i]]
  <2>1. DOMAIN d.data \cup at = 0 .. w * h - 1
    BY <1>2, <1>6
  <2> HIDE DEF at
  <2>2. data = [i \in 0 .. w * h - 1 |-> data[i]]
    BY <2>1
  <2>3. PICK f : d = [stride |-> w, data |-> f]
    BY <1>2
  <2> HIDE DEF data
  <2>4. [d EXCEPT !.data = data] = [stride |-> w, data |-> data]
    BY <2>3
  <2> QED
    BY <1>1, <2>2, <2>4
<1>8. ASSUME NEW a \in 0 .. w - 1, NEW b \in 0 .. h - 1
      PROVE  data[b * w + a] = Val(<<a, b>>)
  <2> DEFINE i == b * w + a
  <2>1. To(<<a, b>>) = i /\ <<a, b>> \in Area(w, h)
    BY <1>4 DEF Area
  <2>2. i \in at /\ i \in DOMAIN d.data \cup at
    BY <2>1
  <2>3. Pick(i) \in Area(w, h) /\ To(Pick(i)) = i
    BY <2>1
  <2>4. PICK e \in 0 .. w - 1, f \in 0 .. h - 1 : Pick(i) = <<e, f>>
    BY <1>3, <2>3
  <2>5. f * w + e = b * w + a
    BY <1>4, <2>3, <2>4
  <2>6. e = a /\ f = b
    BY <2>5, IndexInjective
  <2>7. Pick(i) = <<a, b>>
    BY <2>4, <2>6
  <2> HIDE DEF Pick, at, i
  <2>8. data[i] = Val(Pick(i))
    BY <2>2
  <2> QED
    BY <2>7, <2>8 DEF i
<1> HIDE DEF data
<1>9. r.stride = w /\ r.data = data
  BY <1>7
<1>10. PlaneOK(r, w, h)
  BY <1>7, <1>9 DEF PlaneOK
<1> QED
  BY <1>5, <1>8, <1>9, <1>10 DEF Sample, r

LEMMA CutRowsSamples ==
    ASSUME NEW w \in Nat, NEW h \in Nat, NEW d, PlaneOK(d, w, h), NEW stride, stride = w, NEW s, NEW off
    PROVE  /\ PlaneOK(CutRows(d, stride, s, off, w, h), w, h)
           /\ \A a \in 0 .. w - 1, b \in 0 .. h - 1 :
                 Sample(CutRows(d, stride, s, off, w, h), w, a, b) = Read(s.data, off + Index(s.stride, <<a, b>>))
<1> DEFINE To(c) == Index(stride, c)
           at == {To(c) : c \in Area(w, h)}
           Pick(i) == CHOOSE c \in Area(w, h) : To(c) = i
           Val(c) == Read(s.data, off + Index(s.stride, c))
           data == [i \in DOMAIN d.data \cup at |-> IF i \in at THEN Val(Pick(i)) ELSE d.data[i]]
           r == CutRows(d, stride, s, off, w, h)
<1>1. r = [d EXCEPT !.data = data]
  BY DEF CutRows, Written
<1>2. d = [stride |-> w, data |-> d.data] /\ DOMAIN d.data = 0 .. w * h - 1
  BY DEF PlaneOK
<1>3. \A c \in Area(w, h) : \E a \in 0 .. w - 1, b \in 0 .. h - 1 : c = <<a, b>>
  BY DEF Area
<1>4. \A a \in 0 .. w - 1, b \in 0 .. h - 1 : To(<<a, b>>) = b * w + a /\ b * w + a \in 0 .. w * h - 1
  BY IndexInside DEF Index
<1>5. \A a \in 0 .. w - 1, b \in 0 .. h - 1 : Val(<<a, b>>) = Read(s.data, off + Index(s.stride, <<a, b>>))
  OBVIOUS
<1> HIDE DEF To, Val, r
<1>6. at \subseteq 0 .. w * h - 1
  BY <1>3, <1>4
<1>7. r = [stride |-> w, data |-> data] /\ data = [i \in 0 .. w * h - 1 |-> data[i]]
  <2>1. DOMAIN d.data \cup at = 0 .. w * h - 1
    BY <1>2, <1>6
  <2> HIDE DEF at
  <2>2. data = [i \in 0 .. w * h - 1 |-> data[i]]
    BY <2>1
  <2>3. PICK f : d = [stride |-> w, data |-> f]
    BY <1>2
  <2> HIDE DEF data
  <2>4. [d EXCEPT !.data = data] = [stride |-> w, data |-> data]
    BY <2>3
  <2> QED
    BY <1>1, <2>2, <2>4
<1>8. ASSUME NEW a \in 0 .. w - 1, NEW b \in 0 .. h - 1
      PROVE  data[b * w + a] = Val(<<a, b>>)
  <2> DEFINE i == b * w + a
  <2>1. To(<<a, b>>) = i /\ <<a, b>> \in Area(w, h)
    BY <1>4 DEF Area
  <2>2. i \in at /\ i \in DOMAIN d.data \cup at
    BY <2>1
  <2>3. Pick(i) \in Area(w, h) /\ To(Pick(i)) = i
    BY <2>1
  <2>4. PICK e \in 0 .. w - 1, f \in 0 .. h - 1 : Pick(i) = <<e, f>>
    BY <1>3, <2>3
  <2>5. f * w + e = b * w + a
    BY <1>4, <2>3, <2>4
  <2>6. e = a /\ f = b
    BY <2>5, IndexInjective
  <2>7. Pick(i) = <<a, b>>
    BY <2>4, <2>6
  <2> HIDE DEF Pick, at, i
  <2>8. data[i] = Val(Pick(i))
    BY <2>2
  <2> QED
    BY <2>7, <2>8 DEF i
<1> HIDE DEF data
<1>9. r.stride = w /\ r.data = data
  BY <1>7
<1>10. PlaneOK(r, w, h)
  BY <1>7, <1>9 DEF PlaneOK
<1> QED
  BY <1>5, <1>8, <1>9, <1>10 DEF Sample, r

\* A picture in I420: three planes without padding, chroma halved.
Framed(p) ==
    /\ p = [w |-> p.w, h |-> p.h, y |-> p.y, u |-> p.u, v |-> p.v]
    /\ p.w \in Nat /\ p.h \in Nat
    /\ PlaneOK(p.y, p.w, p.h)
    /\ PlaneOK(p.u, p.w \div 2, p.h \div 2) /\ PlaneOK(p.v, p.w \div 2, p.h \div 2)
Even(p) == p.w % 2 = 0 /\ p.h % 2 = 0

\* Rounding down and up: the same of even sizes.
LEMMA HalvesAndWholes ==
    ASSUME NEW n \in Nat
    PROVE  /\ Down(n, 1) = n /\ Up(n, 1) = n /\ Down(n, 2) = n \div 2 /\ n \div 1 = n /\ n \div 2 \in Nat
           /\ n % 2 = 0 => Up(n, 2) = n \div 2 /\ n = 2 * (n \div 2)
BY DEF Down, Up

\* A new plane and a new picture are such.
LEMMA BlankIsPlane ==
    ASSUME NEW w \in Nat, NEW h \in Nat
    PROVE  PlaneOK(BlankPlane(w, w * h), w, h)
BY DEF PlaneOK, BlankPlane, Plane

LEMMA NewIsFramed ==
    ASSUME NEW w \in Nat, NEW h \in Nat
    PROVE  /\ Framed(I420New(w, h))
           /\ I420New(w, h) = [w |-> w, h |-> h, y |-> BlankPlane(w, w * h),
                               u |-> BlankPlane(w \div 2, (w \div 2) * (h \div 2)),
                               v |-> BlankPlane(w \div 2, (w \div 2) * (h \div 2))]
<1>1. w \div 2 \in Nat /\ h \div 2 \in Nat
  OBVIOUS
<1>2. I420New(w, h) = [w |-> w, h |-> h, y |-> BlankPlane(w, w * h),
                       u |-> BlankPlane(w \div 2, (w \div 2) * (h \div 2)),
                       v |-> BlankPlane(w \div 2, (w \div 2) * (h \div 2))]
  BY DEF I420New
<1>3. /\ PlaneOK(BlankPlane(w, w * h), w, h)
      /\ PlaneOK(BlankPlane(w \div 2, (w \div 2) * (h \div 2)), w \div 2, h \div 2)
  BY <1>1, BlankIsPlane
<1> QED
  BY <1>2, <1>3 DEF Framed

\* A picture with new planes.
LEMMA Replaced ==
    ASSUME NEW n, Framed(n), NEW a, NEW b, NEW c
    PROVE  [n EXCEPT !.y = a, !.u = b, !.v = c] = [w |-> n.w, h |-> n.h, y |-> a, u |-> b, v |-> c]
<1> DEFINE w == n.w
           h == n.h
           y == n.y
           u == n.u
           v == n.v
<1>0. n = [w |-> w, h |-> h, y |-> y, u |-> u, v |-> v]
  BY DEF Framed
<1> HIDE DEF w, h, y, u, v
<1>1. [n EXCEPT !.y = a, !.u = b, !.v = c] = [[[n EXCEPT !.y = a] EXCEPT !.u = b] EXCEPT !.v = c]
  OBVIOUS
<1>2. [n EXCEPT !.y = a] = [w |-> w, h |-> h, y |-> a, u |-> u, v |-> v]
  BY <1>0
<1>3. \A m : m = [w |-> w, h |-> h, y |-> a, u |-> u, v |-> v]
              => [m EXCEPT !.u = b] = [w |-> w, h |-> h, y |-> a, u |-> b, v |-> v]
  OBVIOUS
<1>4. \A m : m = [w |-> w, h |-> h, y |-> a, u |-> b, v |-> v]
              => [m EXCEPT !.v = c] = [w |-> w, h |-> h, y |-> a, u |-> b, v |-> c]
  OBVIOUS
<1> QED
  BY <1>1, <1>2, <1>3, <1>4, Zenon DEF w, h

\* The same of a new picture, whose sizes are known.
LEMMA NewReplaced ==
    ASSUME NEW w \in Nat, NEW h \in Nat, NEW a, NEW b, NEW c
    PROVE  [I420New(w, h) EXCEPT !.y = a, !.u = b, !.v = c] = [w |-> w, h |-> h, y |-> a, u |-> b, v |-> c]
<1> DEFINE n == I420New(w, h)
<1>1. Framed(n)
  BY NewIsFramed
<1>2. n.w = w /\ n.h = h
  BY DEF I420New
<1> HIDE DEF n
<1>3. [n EXCEPT !.y = a, !.u = b, !.v = c] = [w |-> n.w, h |-> n.h, y |-> a, u |-> b, v |-> c]
  BY <1>1, Replaced, Zenon
<1> QED
  BY <1>2, <1>3, Zenon DEF n

\* The sides of a picture, halved either way.
LEMMA SidesHalved ==
    ASSUME NEW p, Framed(p)
    PROVE  /\ p.w \in Nat /\ p.h \in Nat /\ p.w \div 2 \in Nat /\ p.h \div 2 \in Nat
           /\ Down(p.w, 1) = p.w /\ Down(p.h, 1) = p.h /\ Down(p.w, 2) = p.w \div 2 /\ Down(p.h, 2) = p.h \div 2
           /\ Up(p.w, 1) = p.w /\ Up(p.h, 1) = p.h
           /\ Even(p) => Up(p.w, 2) = p.w \div 2 /\ Up(p.h, 2) = p.h \div 2
<1>1. p.w \in Nat /\ p.h \in Nat
  BY DEF Framed
<1> QED
  BY <1>1, HalvesAndWholes DEF Even

\* The transforms, plane by plane.
LEMMA MirrorByPlane ==
    ASSUME NEW p, Framed(p)
    PROVE  LET n == I420New(p.w, p.h)
               m == [w |-> p.w, h |-> p.h, y |-> Flipped(n.y, p.y, p.w, p.h),
                     u |-> Flipped(n.u, p.u, p.w \div 2, p.h \div 2),
                     v |-> Flipped(n.v, p.v, p.w \div 2, p.h \div 2)]
           IN  Mirror(p) = m /\ (Even(p) => LibyuvMirror(p) = m)
<1> DEFINE n == I420New(p.w, p.h)
           F(Sub(_, _)) == [n EXCEPT !.y = Flipped(n.y, p.y, Sub(p.w, 1), Sub(p.h, 1)),
                                     !.u = Flipped(n.u, p.u, Sub(p.w, 2), Sub(p.h, 2)),
                                     !.v = Flipped(n.v, p.v, Sub(p.w, 2), Sub(p.h, 2))]
           G == [n EXCEPT !.y = Flipped(n.y, p.y, p.w, p.h),
                          !.u = Flipped(n.u, p.u, p.w \div 2, p.h \div 2),
                          !.v = Flipped(n.v, p.v, p.w \div 2, p.h \div 2)]
<1>1. Mirror(p) = F(Down)
  BY DEF Mirror, Planewise, Flipped, Down, Same
<1>2. LibyuvMirror(p) = F(Up)
  BY DEF LibyuvMirror, Planewise, Flipped, Same
<1>3. F(Down) = G /\ (Even(p) => F(Up) = G)
  BY SidesHalved
<1>4. G = [w |-> p.w, h |-> p.h, y |-> Flipped(n.y, p.y, p.w, p.h),
           u |-> Flipped(n.u, p.u, p.w \div 2, p.h \div 2),
           v |-> Flipped(n.v, p.v, p.w \div 2, p.h \div 2)]
  <2>1. p.w \in Nat /\ p.h \in Nat
    BY SidesHalved
  <2>2. \A a, b, c : [n EXCEPT !.y = a, !.u = b, !.v = c] = [w |-> p.w, h |-> p.h, y |-> a, u |-> b, v |-> c]
    BY <2>1, NewReplaced, Zenon
  <2> HIDE DEF n
  <2> QED
    BY <2>2, Zenon
<1> HIDE DEF n, F, G
<1> QED
  BY <1>1, <1>2, <1>3, <1>4, Zenon DEF n

\* The same of a turn: of an even picture libyuv's loops are the native ones.
LEMMA RotateByPlane ==
    ASSUME NEW p, Framed(p), NEW rot \in Turns
    PROVE  LET n == I420New(TurnedW(p.w, p.h, rot), TurnedH(p.w, p.h, rot))
               m == [w |-> TurnedW(p.w, p.h, rot), h |-> TurnedH(p.w, p.h, rot),
                     y |-> Swung(n.y, p.y, p.w, p.h, rot),
                     u |-> Swung(n.u, p.u, p.w \div 2, p.h \div 2, rot),
                     v |-> Swung(n.v, p.v, p.w \div 2, p.h \div 2, rot)]
           IN  Rotate(p, rot) = m /\ (Even(p) => LibyuvRotate(p, rot) = m)
<1> DEFINE t == TurnedBuffer(p, rot)
           n == I420New(TurnedW(p.w, p.h, rot), TurnedH(p.w, p.h, rot))
           F(Sub(_, _)) == [t EXCEPT !.y = Swung(t.y, p.y, Sub(p.w, 1), Sub(p.h, 1), rot),
                                     !.u = Swung(t.u, p.u, Sub(p.w, 2), Sub(p.h, 2), rot),
                                     !.v = Swung(t.v, p.v, Sub(p.w, 2), Sub(p.h, 2), rot)]
           G == [n EXCEPT !.y = Swung(n.y, p.y, p.w, p.h, rot),
                          !.u = Swung(n.u, p.u, p.w \div 2, p.h \div 2, rot),
                          !.v = Swung(n.v, p.v, p.w \div 2, p.h \div 2, rot)]
<1>1. Rotate(p, rot) = F(Down)
  BY DEF Rotate, Planewise, Swung, Down, Same
<1>2. LibyuvRotate(p, rot) = F(Up)
  BY DEF LibyuvRotate, Planewise, Swung, Same
<1>3. t = n
  BY DEF TurnedBuffer, TurnedW, TurnedH, Turns
<1> HIDE DEF t, n
<1>4. F(Down) = G /\ (Even(p) => F(Up) = G)
  BY <1>3, SidesHalved
<1>5. TurnedW(p.w, p.h, rot) \in Nat /\ TurnedH(p.w, p.h, rot) \in Nat
  BY SidesHalved DEF TurnedW, TurnedH
<1>6. G = [w |-> TurnedW(p.w, p.h, rot), h |-> TurnedH(p.w, p.h, rot),
           y |-> Swung(n.y, p.y, p.w, p.h, rot),
           u |-> Swung(n.u, p.u, p.w \div 2, p.h \div 2, rot),
           v |-> Swung(n.v, p.v, p.w \div 2, p.h \div 2, rot)]
  <2>1. \A a, b, c : [n EXCEPT !.y = a, !.u = b, !.v = c]
                        = [w |-> TurnedW(p.w, p.h, rot), h |-> TurnedH(p.w, p.h, rot), y |-> a, u |-> b, v |-> c]
    BY <1>5, NewReplaced, Zenon DEF n
  <2> QED
    BY <2>1, Zenon
<1> HIDE DEF F, G
<1> QED
  BY <1>1, <1>2, <1>4, <1>6, Zenon DEF n

\* Transformed pictures are pictures.
LEMMA PlanesOfNew ==
    ASSUME NEW w \in Nat, NEW h \in Nat
    PROVE  /\ PlaneOK(I420New(w, h).y, w, h)
           /\ PlaneOK(I420New(w, h).u, w \div 2, h \div 2) /\ PlaneOK(I420New(w, h).v, w \div 2, h \div 2)
<1>1. I420New(w, h).w = w /\ I420New(w, h).h = h
  BY DEF I420New
<1> QED
  BY <1>1, NewIsFramed DEF Framed

\* A mirrored or turned picture and its planes.
LEMMA MirrorPlanes ==
    ASSUME NEW p, Framed(p)
    PROVE  /\ Framed(Mirror(p)) /\ Mirror(p).w = p.w /\ Mirror(p).h = p.h
           /\ Mirror(p).y = Flipped(I420New(p.w, p.h).y, p.y, p.w, p.h)
           /\ Mirror(p).u = Flipped(I420New(p.w, p.h).u, p.u, p.w \div 2, p.h \div 2)
           /\ Mirror(p).v = Flipped(I420New(p.w, p.h).v, p.v, p.w \div 2, p.h \div 2)
<1> DEFINE n == I420New(p.w, p.h)
           y == Flipped(n.y, p.y, p.w, p.h)
           u == Flipped(n.u, p.u, p.w \div 2, p.h \div 2)
           v == Flipped(n.v, p.v, p.w \div 2, p.h \div 2)
           m == Mirror(p)
<1>1. p.w \in Nat /\ p.h \in Nat /\ p.w \div 2 \in Nat /\ p.h \div 2 \in Nat
  BY SidesHalved
<1>2. m = [w |-> p.w, h |-> p.h, y |-> y, u |-> u, v |-> v]
  BY MirrorByPlane
<1>3. PlaneOK(n.y, p.w, p.h) /\ PlaneOK(n.u, p.w \div 2, p.h \div 2) /\ PlaneOK(n.v, p.w \div 2, p.h \div 2)
  BY <1>1, PlanesOfNew
<1>4. PlaneOK(p.y, p.w, p.h) /\ PlaneOK(p.u, p.w \div 2, p.h \div 2) /\ PlaneOK(p.v, p.w \div 2, p.h \div 2)
  BY DEF Framed
<1> HIDE DEF n
<1>5. PlaneOK(y, p.w, p.h) /\ PlaneOK(u, p.w \div 2, p.h \div 2) /\ PlaneOK(v, p.w \div 2, p.h \div 2)
  BY <1>1, <1>3, <1>4, FlippedSamples
<1> HIDE DEF y, u, v, m
<1>6. m.w = p.w /\ m.h = p.h /\ m.y = y /\ m.u = u /\ m.v = v
  BY <1>2
<1>7. Framed(m)
  BY <1>1, <1>2, <1>5, <1>6 DEF Framed
<1> QED
  BY <1>6, <1>7 DEF m, y, u, v, n

LEMMA RotatePlanes ==
    ASSUME NEW p, Framed(p), NEW rot \in Turns
    PROVE  LET n == I420New(TurnedW(p.w, p.h, rot), TurnedH(p.w, p.h, rot))
               m == Rotate(p, rot)
           IN  /\ Framed(m) /\ m.w = TurnedW(p.w, p.h, rot) /\ m.h = TurnedH(p.w, p.h, rot)
               /\ m.y = Swung(n.y, p.y, p.w, p.h, rot)
               /\ m.u = Swung(n.u, p.u, p.w \div 2, p.h \div 2, rot)
               /\ m.v = Swung(n.v, p.v, p.w \div 2, p.h \div 2, rot)
<1> DEFINE w == TurnedW(p.w, p.h, rot)
           h == TurnedH(p.w, p.h, rot)
           n == I420New(w, h)
           y == Swung(n.y, p.y, p.w, p.h, rot)
           u == Swung(n.u, p.u, p.w \div 2, p.h \div 2, rot)
           v == Swung(n.v, p.v, p.w \div 2, p.h \div 2, rot)
           m == Rotate(p, rot)
<1>1. p.w \in Nat /\ p.h \in Nat /\ p.w \div 2 \in Nat /\ p.h \div 2 \in Nat
  BY SidesHalved
<1>2. m = [w |-> w, h |-> h, y |-> y, u |-> u, v |-> v]
  BY RotateByPlane
<1>3. /\ w \in Nat /\ h \in Nat
      /\ w \div 2 = TurnedW(p.w \div 2, p.h \div 2, rot) /\ h \div 2 = TurnedH(p.w \div 2, p.h \div 2, rot)
  BY <1>1 DEF TurnedW, TurnedH
<1> HIDE DEF w, h
<1>4. PlaneOK(n.y, w, h) /\ PlaneOK(n.u, w \div 2, h \div 2) /\ PlaneOK(n.v, w \div 2, h \div 2)
  BY <1>3, PlanesOfNew
<1>5. PlaneOK(p.y, p.w, p.h) /\ PlaneOK(p.u, p.w \div 2, p.h \div 2) /\ PlaneOK(p.v, p.w \div 2, p.h \div 2)
  BY DEF Framed
<1> HIDE DEF n
<1>6. PlaneOK(y, w, h)
  BY <1>1, <1>4, <1>5, SwungSamples DEF w, h
<1>7. PlaneOK(u, w \div 2, h \div 2) /\ PlaneOK(v, w \div 2, h \div 2)
  BY <1>1, <1>3, <1>4, <1>5, SwungSamples
<1> HIDE DEF y, u, v, m
<1>8. m.w = w /\ m.h = h /\ m.y = y /\ m.u = u /\ m.v = v
  BY <1>2
<1>9. Framed(m)
  BY <1>2, <1>3, <1>6, <1>7, <1>8 DEF Framed
<1> QED
  BY <1>8, <1>9 DEF m, y, u, v, n, w, h

\* Two pictures with the same planes are the same.
LEMMA SamePicture ==
    ASSUME NEW p, NEW q, Framed(p), Framed(q), p.w = q.w, p.h = q.h, p.y = q.y, p.u = q.u, p.v = q.v
    PROVE  p = q
BY DEF Framed

\* The native transforms undo each other, for pictures of any size.
LEMMA MirrorTwice ==
    ASSUME NEW p, Framed(p)
    PROVE  Mirror(Mirror(p)) = p
<1> DEFINE m == Mirror(p)
           q == Mirror(m)
           n == I420New(p.w, p.h)
<1>1. /\ Framed(m) /\ m.w = p.w /\ m.h = p.h
      /\ m.y = Flipped(n.y, p.y, p.w, p.h)
      /\ m.u = Flipped(n.u, p.u, p.w \div 2, p.h \div 2)
      /\ m.v = Flipped(n.v, p.v, p.w \div 2, p.h \div 2)
  BY MirrorPlanes
<1> HIDE DEF m
<1>2. /\ Framed(q) /\ q.w = p.w /\ q.h = p.h
      /\ q.y = Flipped(n.y, m.y, p.w, p.h)
      /\ q.u = Flipped(n.u, m.u, p.w \div 2, p.h \div 2)
      /\ q.v = Flipped(n.v, m.v, p.w \div 2, p.h \div 2)
  BY <1>1, MirrorPlanes
<1> HIDE DEF q
<1>3. p.w \in Nat /\ p.h \in Nat /\ p.w \div 2 \in Nat /\ p.h \div 2 \in Nat
  BY SidesHalved
<1>4. PlaneOK(n.y, p.w, p.h) /\ PlaneOK(n.u, p.w \div 2, p.h \div 2) /\ PlaneOK(n.v, p.w \div 2, p.h \div 2)
  BY <1>3, PlanesOfNew
<1>5. PlaneOK(p.y, p.w, p.h) /\ PlaneOK(p.u, p.w \div 2, p.h \div 2) /\ PlaneOK(p.v, p.w \div 2, p.h \div 2)
  BY DEF Framed
<1> HIDE DEF n
<1>6. q.y = p.y /\ q.u = p.u /\ q.v = p.v
  BY <1>1, <1>2, <1>3, <1>4, <1>5, FlipTwice
<1>7. q = p
  BY <1>2, <1>6, SamePicture
<1> QED
  BY <1>7 DEF q, m

LEMMA TurnsUndo ==
    ASSUME NEW p, Framed(p)
    PROVE  /\ Rotate(Rotate(p, 90), 270) = p
           /\ Rotate(Rotate(p, 90), 90) = Rotate(p, 180)
<1> DEFINE m == Rotate(p, 90)
           q == Rotate(m, 270)
           r == Rotate(m, 90)
           t == Rotate(p, 180)
           n == I420New(p.w, p.h)
           k == I420New(p.h, p.w)
           cw == p.w \div 2
           ch == p.h \div 2
<1>0. /\ 90 \in Turns /\ 180 \in Turns /\ 270 \in Turns
      /\ \A w, h : /\ TurnedW(w, h, 90) = h /\ TurnedH(w, h, 90) = w
                   /\ TurnedW(w, h, 270) = h /\ TurnedH(w, h, 270) = w
                   /\ TurnedW(w, h, 180) = w /\ TurnedH(w, h, 180) = h
  BY DEF Turns, TurnedW, TurnedH
<1>1. /\ Framed(m) /\ m.w = p.h /\ m.h = p.w
      /\ m.y = Swung(k.y, p.y, p.w, p.h, 90)
      /\ m.u = Swung(k.u, p.u, cw, ch, 90) /\ m.v = Swung(k.v, p.v, cw, ch, 90)
  <2> DEFINE j == I420New(TurnedW(p.w, p.h, 90), TurnedH(p.w, p.h, 90))
  <2>1. /\ Framed(m) /\ m.w = TurnedW(p.w, p.h, 90) /\ m.h = TurnedH(p.w, p.h, 90)
        /\ m.y = Swung(j.y, p.y, p.w, p.h, 90)
        /\ m.u = Swung(j.u, p.u, p.w \div 2, p.h \div 2, 90)
        /\ m.v = Swung(j.v, p.v, p.w \div 2, p.h \div 2, 90)
    <3>1. 90 \in Turns
      BY <1>0
    <3> QED
      BY <3>1, RotatePlanes
  <2>2. TurnedW(p.w, p.h, 90) = p.h /\ TurnedH(p.w, p.h, 90) = p.w
    BY <1>0
  <2> QED
    BY <2>1, <2>2
<1>2. /\ Framed(t) /\ t.w = p.w /\ t.h = p.h
      /\ t.y = Swung(n.y, p.y, p.w, p.h, 180)
      /\ t.u = Swung(n.u, p.u, cw, ch, 180) /\ t.v = Swung(n.v, p.v, cw, ch, 180)
  BY <1>0, RotatePlanes
<1> HIDE DEF m, t
<1>3. /\ Framed(q) /\ q.w = p.w /\ q.h = p.h
      /\ q.y = Swung(n.y, m.y, p.h, p.w, 270)
      /\ q.u = Swung(n.u, m.u, ch, cw, 270) /\ q.v = Swung(n.v, m.v, ch, cw, 270)
  <2> DEFINE j == I420New(TurnedW(m.w, m.h, 270), TurnedH(m.w, m.h, 270))
  <2>1. /\ Framed(q) /\ q.w = TurnedW(m.w, m.h, 270) /\ q.h = TurnedH(m.w, m.h, 270)
        /\ q.y = Swung(j.y, m.y, m.w, m.h, 270)
        /\ q.u = Swung(j.u, m.u, m.w \div 2, m.h \div 2, 270)
        /\ q.v = Swung(j.v, m.v, m.w \div 2, m.h \div 2, 270)
    <3>1. 270 \in Turns /\ Framed(m)
      BY <1>0, <1>1
    <3> QED
      BY <3>1, RotatePlanes
  <2>2. TurnedW(m.w, m.h, 270) = p.w /\ TurnedH(m.w, m.h, 270) = p.h
    BY <1>0, <1>1
  <2> QED
    BY <1>1, <2>1, <2>2
<1>4. /\ Framed(r) /\ r.w = p.w /\ r.h = p.h
      /\ r.y = Swung(n.y, m.y, p.h, p.w, 90)
      /\ r.u = Swung(n.u, m.u, ch, cw, 90) /\ r.v = Swung(n.v, m.v, ch, cw, 90)
  <2> DEFINE j == I420New(TurnedW(m.w, m.h, 90), TurnedH(m.w, m.h, 90))
  <2>1. /\ Framed(r) /\ r.w = TurnedW(m.w, m.h, 90) /\ r.h = TurnedH(m.w, m.h, 90)
        /\ r.y = Swung(j.y, m.y, m.w, m.h, 90)
        /\ r.u = Swung(j.u, m.u, m.w \div 2, m.h \div 2, 90)
        /\ r.v = Swung(j.v, m.v, m.w \div 2, m.h \div 2, 90)
    <3>1. 90 \in Turns /\ Framed(m)
      BY <1>0, <1>1
    <3> QED
      BY <3>1, RotatePlanes
  <2>2. TurnedW(m.w, m.h, 90) = p.w /\ TurnedH(m.w, m.h, 90) = p.h
    BY <1>0, <1>1
  <2> QED
    BY <1>1, <2>1, <2>2
<1> HIDE DEF q, r
<1>5. p.w \in Nat /\ p.h \in Nat /\ cw \in Nat /\ ch \in Nat
  BY SidesHalved
<1>6. /\ PlaneOK(n.y, p.w, p.h) /\ PlaneOK(n.u, cw, ch) /\ PlaneOK(n.v, cw, ch)
      /\ PlaneOK(k.y, p.h, p.w) /\ PlaneOK(k.u, ch, cw) /\ PlaneOK(k.v, ch, cw)
  BY <1>5, PlanesOfNew
<1>7. PlaneOK(p.y, p.w, p.h) /\ PlaneOK(p.u, cw, ch) /\ PlaneOK(p.v, cw, ch)
  BY DEF Framed
<1> HIDE DEF n, k, cw, ch
<1>8. q.y = p.y /\ q.u = p.u /\ q.v = p.v
  BY <1>1, <1>3, <1>5, <1>6, <1>7, TurnBack
<1>9. r.y = t.y /\ r.u = t.u /\ r.v = t.v
  BY <1>1, <1>2, <1>4, <1>5, <1>6, <1>7, TurnBack
<1>10. q = p /\ r = t
  BY <1>2, <1>3, <1>4, <1>8, <1>9, SamePicture
<1> QED
  BY <1>10 DEF q, r, t, m

LEMMA MirrorTurnMirror ==
    ASSUME NEW p, Framed(p)
    PROVE  Mirror(Rotate(Mirror(p), 180)) = Rotate(p, 180)
<1> DEFINE m == Mirror(p)
           q == Rotate(m, 180)
           r == Mirror(q)
           t == Rotate(p, 180)
           n == I420New(p.w, p.h)
           cw == p.w \div 2
           ch == p.h \div 2
<1>0. /\ 180 \in Turns
      /\ \A w, h : TurnedW(w, h, 180) = w /\ TurnedH(w, h, 180) = h
  BY DEF Turns, TurnedW, TurnedH
<1>1. /\ Framed(m) /\ m.w = p.w /\ m.h = p.h
      /\ m.y = Flipped(n.y, p.y, p.w, p.h)
      /\ m.u = Flipped(n.u, p.u, cw, ch) /\ m.v = Flipped(n.v, p.v, cw, ch)
  BY MirrorPlanes
<1>2. /\ Framed(t) /\ t.w = p.w /\ t.h = p.h
      /\ t.y = Swung(n.y, p.y, p.w, p.h, 180)
      /\ t.u = Swung(n.u, p.u, cw, ch, 180) /\ t.v = Swung(n.v, p.v, cw, ch, 180)
  BY <1>0, RotatePlanes
<1> HIDE DEF m, t
<1>3. /\ Framed(q) /\ q.w = p.w /\ q.h = p.h
      /\ q.y = Swung(n.y, m.y, p.w, p.h, 180)
      /\ q.u = Swung(n.u, m.u, cw, ch, 180) /\ q.v = Swung(n.v, m.v, cw, ch, 180)
  BY <1>0, <1>1, RotatePlanes
<1> HIDE DEF q
<1>4. /\ Framed(r) /\ r.w = p.w /\ r.h = p.h
      /\ r.y = Flipped(n.y, q.y, p.w, p.h)
      /\ r.u = Flipped(n.u, q.u, cw, ch) /\ r.v = Flipped(n.v, q.v, cw, ch)
  BY <1>3, MirrorPlanes
<1> HIDE DEF r
<1>5. p.w \in Nat /\ p.h \in Nat /\ cw \in Nat /\ ch \in Nat
  BY SidesHalved
<1>6. PlaneOK(n.y, p.w, p.h) /\ PlaneOK(n.u, cw, ch) /\ PlaneOK(n.v, cw, ch)
  BY <1>5, PlanesOfNew
<1>7. PlaneOK(p.y, p.w, p.h) /\ PlaneOK(p.u, cw, ch) /\ PlaneOK(p.v, cw, ch)
  BY DEF Framed
<1> HIDE DEF n, cw, ch
<1>8. r.y = t.y /\ r.u = t.u /\ r.v = t.v
  BY <1>1, <1>2, <1>3, <1>4, <1>5, <1>6, <1>7, FlippedTurn
<1>9. r = t
  BY <1>2, <1>4, <1>8, SamePicture
<1> QED
  BY <1>9 DEF r, q, t, m

\* A crop of the whole is the picture, by either backend's loops.
LEMMA WholePlane ==
    ASSUME NEW w \in Nat, NEW h \in Nat, NEW s, PlaneOK(s, w, h), NEW d, PlaneOK(d, w, h),
           NEW stride, stride = w
    PROVE  CutOut(d, stride, s, 0, 0, w, h) = s /\ CutRows(d, stride, s, 0, w, h) = s
<1> DEFINE q == CutOut(d, stride, s, 0, 0, w, h)
           r == CutRows(d, stride, s, 0, w, h)
<1>1. /\ PlaneOK(q, w, h)
      /\ \A a \in 0 .. w - 1, b \in 0 .. h - 1 : Sample(q, w, a, b) = Read(s.data, Index(s.stride, <<0 + a, 0 + b>>))
  BY CutOutSamples
<1>2. /\ PlaneOK(r, w, h)
      /\ \A a \in 0 .. w - 1, b \in 0 .. h - 1 : Sample(r, w, a, b) = Read(s.data, 0 + Index(s.stride, <<a, b>>))
  BY CutRowsSamples
<1> HIDE DEF q, r
<1>3. \A a \in 0 .. w - 1, b \in 0 .. h - 1 :
         /\ Read(s.data, Index(s.stride, <<0 + a, 0 + b>>)) = Sample(s, w, a, b)
         /\ Read(s.data, 0 + Index(s.stride, <<a, b>>)) = Sample(s, w, a, b)
  <2> TAKE a \in 0 .. w - 1, b \in 0 .. h - 1
  <2>1. 0 + a = a /\ 0 + b = b
    OBVIOUS
  <2>2. s.stride = w
    BY DEF PlaneOK
  <2>3. 0 + Index(s.stride, <<a, b>>) = Index(s.stride, <<a, b>>)
    BY <2>2 DEF Index
  <2>4. Read(s.data, Index(s.stride, <<a, b>>)) = Sample(s, w, a, b)
    BY ReadsInside
  <2> QED
    BY <2>1, <2>3, <2>4
<1>4. q = s
  <2>1. \A a \in 0 .. w - 1, b \in 0 .. h - 1 : Sample(q, w, a, b) = Sample(s, w, a, b)
    BY <1>1, <1>3
  <2> QED
    BY <1>1, <2>1, SamePlane
<1>5. r = s
  <2>1. \A a \in 0 .. w - 1, b \in 0 .. h - 1 : Sample(r, w, a, b) = Sample(s, w, a, b)
    BY <1>2, <1>3
  <2> QED
    BY <1>2, <2>1, SamePlane
<1> QED
  BY <1>4, <1>5 DEF q, r

\* The same of the three planes.
LEMMA WholeCrop ==
    ASSUME NEW p, Framed(p)
    PROVE  Crop(p, 0, 0, p.w, p.h) = p /\ LibyuvCrop(p, 0, 0, p.w, p.h) = p
<1> DEFINE n == I420New(p.w, p.h)
           C == [n EXCEPT !.y = CutOut(n.y, n.y.stride, p.y, 0 \div 1, 0 \div 1, p.w \div 1, p.h \div 1),
                           !.u = CutOut(n.u, n.u.stride, p.u, 0 \div 2, 0 \div 2, p.w \div 2, p.h \div 2),
                           !.v = CutOut(n.v, n.v.stride, p.v, 0 \div 2, 0 \div 2, p.w \div 2, p.h \div 2)]
           Off(s, k) == (0 \div k) * s.stride + (0 \div k)
           D == [n EXCEPT !.y = CutRows(n.y, n.y.stride, p.y, Off(p.y, 1), p.w \div 1, p.h \div 1),
                          !.u = CutRows(n.u, n.u.stride, p.u, Off(p.u, 2), p.w \div 2, p.h \div 2),
                          !.v = CutRows(n.v, n.v.stride, p.v, Off(p.v, 2), p.w \div 2, p.h \div 2)]
<1>1. Crop(p, 0, 0, p.w, p.h) = C
  BY DEF Crop, Planewise, CutOut, Down, Same
<1>2. LibyuvCrop(p, 0, 0, p.w, p.h) = D
  BY DEF LibyuvCrop, CutRows
<1>3. p.w \in Nat /\ p.h \in Nat /\ p.w \div 2 \in Nat /\ p.h \div 2 \in Nat
  BY SidesHalved
<1>4. PlaneOK(n.y, p.w, p.h) /\ PlaneOK(n.u, p.w \div 2, p.h \div 2) /\ PlaneOK(n.v, p.w \div 2, p.h \div 2)
  BY <1>3, PlanesOfNew
<1>5. PlaneOK(p.y, p.w, p.h) /\ PlaneOK(p.u, p.w \div 2, p.h \div 2) /\ PlaneOK(p.v, p.w \div 2, p.h \div 2)
  BY DEF Framed
<1>6. p.w \div 1 = p.w /\ p.h \div 1 = p.h /\ 0 \div 1 = 0 /\ 0 \div 2 = 0
  BY <1>3
<1>7. \A a, b, c : [n EXCEPT !.y = a, !.u = b, !.v = c] = [w |-> p.w, h |-> p.h, y |-> a, u |-> b, v |-> c]
  BY <1>3, NewReplaced, Zenon
<1> HIDE DEF n
<1>8. /\ n.y.stride = p.w /\ n.u.stride = p.w \div 2 /\ n.v.stride = p.w \div 2
      /\ p.y.stride = p.w /\ p.u.stride = p.w \div 2 /\ p.v.stride = p.w \div 2
  BY <1>4, <1>5 DEF PlaneOK
<1>9. Off(p.y, 1) = 0 /\ Off(p.u, 2) = 0 /\ Off(p.v, 2) = 0
  BY <1>3, <1>6, <1>8
<1> HIDE DEF Off
<1>10. /\ CutOut(n.y, n.y.stride, p.y, 0 \div 1, 0 \div 1, p.w \div 1, p.h \div 1) = p.y
       /\ CutRows(n.y, n.y.stride, p.y, Off(p.y, 1), p.w \div 1, p.h \div 1) = p.y
  BY <1>3, <1>4, <1>5, <1>6, <1>8, <1>9, WholePlane
<1>11. /\ CutOut(n.u, n.u.stride, p.u, 0 \div 2, 0 \div 2, p.w \div 2, p.h \div 2) = p.u
       /\ CutRows(n.u, n.u.stride, p.u, Off(p.u, 2), p.w \div 2, p.h \div 2) = p.u
  BY <1>3, <1>4, <1>5, <1>6, <1>8, <1>9, WholePlane
<1>12. /\ CutOut(n.v, n.v.stride, p.v, 0 \div 2, 0 \div 2, p.w \div 2, p.h \div 2) = p.v
       /\ CutRows(n.v, n.v.stride, p.v, Off(p.v, 2), p.w \div 2, p.h \div 2) = p.v
  BY <1>3, <1>4, <1>5, <1>6, <1>8, <1>9, WholePlane
<1>13. [n EXCEPT !.y = p.y, !.u = p.u, !.v = p.v] = p
  BY <1>7, Zenon DEF Framed
<1> QED
  BY <1>1, <1>2, <1>10, <1>11, <1>12, <1>13, Zenon

\* A copy of the luma plane, sample by sample.
LEMMA LumaCopied ==
    ASSUME NEW w \in Nat, NEW h \in Nat, NEW s, PlaneOK(s, w, h), NEW d, PlaneOK(d, w, h)
    PROVE  Written(d, 0 .. w * h - 1, LAMBDA i : i, LAMBDA i : Read(s.data, i)) = s
<1> DEFINE at == {i : i \in 0 .. w * h - 1}
           Pick(i) == CHOOSE c \in 0 .. w * h - 1 : c = i
           data == [i \in DOMAIN d.data \cup at |-> IF i \in at THEN Read(s.data, Pick(i)) ELSE d.data[i]]
           r == Written(d, 0 .. w * h - 1, LAMBDA i : i, LAMBDA i : Read(s.data, i))
<1>1. r = [d EXCEPT !.data = data]
  BY DEF Written
<1>2. at = 0 .. w * h - 1
  OBVIOUS
<1>3. \A i \in 0 .. w * h - 1 : Pick(i) = i
  OBVIOUS
<1> HIDE DEF at, Pick
<1>4. DOMAIN d.data = 0 .. w * h - 1 /\ DOMAIN s.data = 0 .. w * h - 1
  BY DEF PlaneOK
<1>5. data = [i \in 0 .. w * h - 1 |-> s.data[i]]
  BY <1>2, <1>3, <1>4 DEF Read
<1>6. PICK f : d = [stride |-> w, data |-> f]
  BY DEF PlaneOK
<1> HIDE DEF data, r
<1>7. [d EXCEPT !.data = data] = [stride |-> w, data |-> data]
  BY <1>6
<1>8. s = [stride |-> w, data |-> data]
  BY <1>5 DEF PlaneOK
<1> QED
  BY <1>1, <1>7, <1>8 DEF r

\* U is at the even places of an NV12 plane, V at the odd ones.
LEMMA Interleaved ==
    ASSUME NEW w \in Nat, NEW h \in Nat, NEW u, NEW v, NEW d, NEW r, NEW q,
           Puts(r, d, u, w, h, 0), Puts(q, r, v, w, h, 1),
           NEW a \in 0 .. w - 1, NEW b \in 0 .. h - 1
    PROVE  /\ Read(q.data, 2 * (b * w + a) + 0) = Sample(u, w, a, b)
           /\ Read(q.data, 2 * (b * w + a) + 1) = Sample(v, w, a, b)
<1> DEFINE i == b * w + a
<1>1. i \in Nat
  OBVIOUS
<1> HIDE DEF i
<1>2. 2 * i + 0 \in DOMAIN r.data /\ r.data[2 * i + 0] = Sample(u, w, a, b)
  BY DEF Puts, i
<1>3. 2 * i + 1 \in DOMAIN q.data /\ q.data[2 * i + 1] = Sample(v, w, a, b)
  BY DEF Puts, i
<1>4. \A j \in Nat : 2 * i + 0 # 2 * j + 1
  BY <1>1
<1>5. 2 * i + 0 \in DOMAIN q.data /\ q.data[2 * i + 0] = r.data[2 * i + 0]
  BY <1>2, <1>4 DEF Puts
<1> QED
  BY <1>2, <1>3, <1>5 DEF Read, i

\* NV12 and back, by the native backend's loops: of any size.
LEMMA NativeRoundTrip ==
    ASSUME NEW p, Framed(p)
    PROVE  NV12ToI420(I420ToNV12(p)) = p
<1> DEFINE cw == p.w \div 2
           ch == p.h \div 2
           n == I420New(p.w, p.h)
           blank == BlankPlane(p.w, p.w * (p.h \div 2))
           r == U2(blank, p.u, cw, ch)
           q == V2(r, p.v, cw, ch, p.u.stride)
           luma == CopiedLuma(p, [y |-> BlankPlane(p.w, p.w * p.h)])
           nv == [w |-> p.w, h |-> p.h, y |-> luma, uv |-> q]
           back == [n EXCEPT !.y = CopiedLuma(nv, n),
                             !.u = Taken(n.u, n.u.stride, q.data, 0, cw, ch),
                             !.v = Taken(n.v, n.u.stride, q.data, 1, cw, ch)]
<1>1. I420ToNV12(p) = nv
  BY DEF I420ToNV12, U2, V2
<1>2. NV12ToI420(nv) = back
  BY DEF NV12ToI420, Taken, Halves
<1>3. p.w \in Nat /\ p.h \in Nat /\ cw \in Nat /\ ch \in Nat
  BY SidesHalved
<1>4. PlaneOK(n.y, p.w, p.h) /\ PlaneOK(n.u, cw, ch) /\ PlaneOK(n.v, cw, ch)
  BY <1>3, PlanesOfNew
<1>5. PlaneOK(p.y, p.w, p.h) /\ PlaneOK(p.u, cw, ch) /\ PlaneOK(p.v, cw, ch)
  BY DEF Framed
<1>6. luma = p.y
  <2>1. PlaneOK(BlankPlane(p.w, p.w * p.h), p.w, p.h)
    BY <1>3, BlankIsPlane
  <2> DEFINE d == BlankPlane(p.w, p.w * p.h)
  <2>2. luma = Written(d, 0 .. p.w * p.h - 1, LAMBDA i : i, LAMBDA i : Read(p.y.data, i))
    BY DEF CopiedLuma
  <2> HIDE DEF d, luma
  <2> QED
    BY <1>3, <1>5, <2>1, <2>2, LumaCopied DEF d
<1>7. CopiedLuma(nv, n) = p.y
  <2>1. CopiedLuma(nv, n) = Written(n.y, 0 .. p.w * p.h - 1, LAMBDA i : i, LAMBDA i : Read(p.y.data, i))
    <3>1. nv.w = p.w /\ nv.h = p.h /\ nv.y = p.y
      BY <1>6
    <3> HIDE DEF nv, n
    <3> QED
      BY <3>1 DEF CopiedLuma
  <2> HIDE DEF n, nv
  <2> QED
    BY <1>3, <1>4, <1>5, <2>1, LumaCopied
<1>8. n.u.stride = cw /\ p.u.stride = cw /\ p.v.stride = cw
  <2>1. \A d, w, h : PlaneOK(d, w, h) => d.stride = w
    BY DEF PlaneOK
  <2> QED
    BY <1>4, <1>5, <2>1
<1>9. Puts(r, blank, p.u, cw, ch, 0) /\ Puts(q, r, p.v, cw, ch, 1)
  <2>1. blank = [stride |-> blank.stride, data |-> blank.data]
    BY DEF BlankPlane, Plane
  <2> HIDE DEF blank, cw, ch
  <2>2. Puts(r, blank, p.u, cw, ch, 0)
    BY <1>3, <1>5, <2>1, PutsU
  <2>3. r = [stride |-> r.stride, data |-> r.data]
    BY <2>2 DEF Puts
  <2> HIDE DEF r
  <2>4. Puts(q, r, p.v, cw, ch, 1)
    BY <1>3, <1>5, <1>8, <2>3, PutsV
  <2> QED
    BY <2>2, <2>4 DEF r
<1> HIDE DEF n, nv, luma, r, q, blank, cw, ch
<1>10. \A a \in 0 .. cw - 1, b \in 0 .. ch - 1 :
          /\ Read(q.data, 2 * Index(cw, <<a, b>>) + 0) = Sample(p.u, cw, a, b)
          /\ Read(q.data, 2 * Index(cw, <<a, b>>) + 1) = Sample(p.v, cw, a, b)
  <2> TAKE a \in 0 .. cw - 1, b \in 0 .. ch - 1
  <2>1. Index(cw, <<a, b>>) = b * cw + a
    BY DEF Index
  <2> QED
    BY <1>3, <1>9, <2>1, Interleaved
<1>11. Taken(n.u, n.u.stride, q.data, 0, cw, ch) = p.u
  <2> DEFINE t == Taken(n.u, n.u.stride, q.data, 0, cw, ch)
  <2>1. PlaneOK(t, cw, ch) /\ \A a \in 0 .. cw - 1, b \in 0 .. ch - 1 :
           Sample(t, cw, a, b) = Read(q.data, 2 * Index(cw, <<a, b>>) + 0)
    BY <1>3, <1>4, <1>8, TakenSamples
  <2> HIDE DEF t
  <2>2. \A a \in 0 .. cw - 1, b \in 0 .. ch - 1 : Sample(t, cw, a, b) = Sample(p.u, cw, a, b)
    BY <1>10, <2>1
  <2>3. t = p.u
    BY <1>3, <1>5, <2>1, <2>2, SamePlane
  <2> QED
    BY <2>3 DEF t
<1>12. Taken(n.v, n.u.stride, q.data, 1, cw, ch) = p.v
  <2> DEFINE t == Taken(n.v, n.u.stride, q.data, 1, cw, ch)
  <2>1. PlaneOK(t, cw, ch) /\ \A a \in 0 .. cw - 1, b \in 0 .. ch - 1 :
           Sample(t, cw, a, b) = Read(q.data, 2 * Index(cw, <<a, b>>) + 1)
    <3> DEFINE stride == n.u.stride
               d == n.v
    <3>1. stride = cw /\ PlaneOK(d, cw, ch)
      BY <1>4, <1>8
    <3> HIDE DEF stride, d
    <3>2. /\ PlaneOK(Taken(d, stride, q.data, 1, cw, ch), cw, ch)
          /\ \A a \in 0 .. cw - 1, b \in 0 .. ch - 1 :
                Sample(Taken(d, stride, q.data, 1, cw, ch), cw, a, b) = Read(q.data, 2 * Index(cw, <<a, b>>) + 1)
      BY <1>3, <3>1, TakenSamples
    <3> QED
      BY <3>2 DEF stride, d
  <2> HIDE DEF t
  <2>2. \A a \in 0 .. cw - 1, b \in 0 .. ch - 1 : Sample(t, cw, a, b) = Sample(p.v, cw, a, b)
    BY <1>10, <2>1
  <2>3. t = p.v
    BY <1>3, <1>5, <2>1, <2>2, SamePlane
  <2> QED
    BY <2>3 DEF t
<1>13. \A a, b, c : [n EXCEPT !.y = a, !.u = b, !.v = c] = [w |-> p.w, h |-> p.h, y |-> a, u |-> b, v |-> c]
  BY <1>3, NewReplaced, Zenon DEF n
<1>14. [n EXCEPT !.y = p.y, !.u = p.u, !.v = p.v] = p
  BY <1>13, Zenon DEF Framed
<1> QED
  BY <1>1, <1>2, <1>7, <1>11, <1>12, <1>14, Zenon

\* The same by libyuv's loops: of even sizes, where rounding up is no more.
LEMMA LibyuvRoundTrip ==
    ASSUME NEW p, Framed(p), Even(p)
    PROVE  LibyuvNV12ToI420(LibyuvI420ToNV12(p)) = p
<1> DEFINE cw == p.w \div 2
           ch == p.h \div 2
           n == I420New(p.w, p.h)
           blank == BlankPlane(p.w, p.w * (p.h \div 2))
           r == Put2(blank, p.u, cw, ch, p.w, 0)
           q == Put2(r, p.v, cw, ch, p.w, 1)
           luma == CopiedLuma(p, [y |-> BlankPlane(p.w, p.w * p.h)])
           upW == Up(p.w, 2)
           upH == Up(p.h, 2)
           made == Put2(Put2(blank, p.u, upW, upH, p.w, 0), p.v, upW, upH, p.w, 1)
           given == [w |-> p.w, h |-> p.h, y |-> luma, uv |-> made]
           nv == [w |-> p.w, h |-> p.h, y |-> luma, uv |-> q]
           back == [n EXCEPT !.y = CopiedLuma(nv, n),
                             !.u = TakenRow(n.u, n.u.stride, q.data, p.w, 0, cw, ch),
                             !.v = TakenRow(n.v, n.v.stride, q.data, p.w, 1, cw, ch)]
           taken == [n EXCEPT !.y = CopiedLuma(nv, n),
                              !.u = TakenRow(n.u, n.u.stride, q.data, p.w, 0, upW, upH),
                              !.v = TakenRow(n.v, n.v.stride, q.data, p.w, 1, upW, upH)]
<1>0. upW = cw /\ upH = ch /\ p.w = 2 * cw
  BY SidesHalved, HalvesAndWholes DEF Even
<1>1. LibyuvI420ToNV12(p) = nv
  <2>1. LibyuvI420ToNV12(p) = given
    BY DEF LibyuvI420ToNV12, Put2
  <2>2. made = q
    <3> HIDE DEF upW, upH, blank
    <3> QED
      BY <1>0
  <2> QED
    BY <2>1, <2>2
<1>2. LibyuvNV12ToI420(nv) = back
  <2>1. LibyuvNV12ToI420(nv) = taken
    BY DEF LibyuvNV12ToI420, TakenRow
  <2> HIDE DEF upW, upH, n, q, nv
  <2>2. taken = back
    BY <1>0
  <2> QED
    BY <2>1, <2>2
<1> HIDE DEF upW, upH
<1>3. p.w \in Nat /\ p.h \in Nat /\ cw \in Nat /\ ch \in Nat
  BY SidesHalved
<1>4. PlaneOK(n.y, p.w, p.h) /\ PlaneOK(n.u, cw, ch) /\ PlaneOK(n.v, cw, ch)
  BY <1>3, PlanesOfNew
<1>5. PlaneOK(p.y, p.w, p.h) /\ PlaneOK(p.u, cw, ch) /\ PlaneOK(p.v, cw, ch)
  BY DEF Framed
<1>6. luma = p.y
  <2>1. PlaneOK(BlankPlane(p.w, p.w * p.h), p.w, p.h)
    BY <1>3, BlankIsPlane
  <2> DEFINE d == BlankPlane(p.w, p.w * p.h)
  <2>2. luma = Written(d, 0 .. p.w * p.h - 1, LAMBDA i : i, LAMBDA i : Read(p.y.data, i))
    BY DEF CopiedLuma
  <2> HIDE DEF d, luma
  <2> QED
    BY <1>3, <1>5, <2>1, <2>2, LumaCopied DEF d
<1>7. CopiedLuma(nv, n) = p.y
  <2>1. CopiedLuma(nv, n) = Written(n.y, 0 .. p.w * p.h - 1, LAMBDA i : i, LAMBDA i : Read(p.y.data, i))
    <3>1. nv.w = p.w /\ nv.h = p.h /\ nv.y = p.y
      BY <1>6
    <3> HIDE DEF nv, n
    <3> QED
      BY <3>1 DEF CopiedLuma
  <2> HIDE DEF n, nv
  <2> QED
    BY <1>3, <1>4, <1>5, <2>1, LumaCopied
<1>8. n.u.stride = cw /\ n.v.stride = cw /\ p.u.stride = cw /\ p.v.stride = cw
  <2>1. \A d, w, h : PlaneOK(d, w, h) => d.stride = w
    BY DEF PlaneOK
  <2> QED
    BY <1>4, <1>5, <2>1
<1>9. Puts(r, blank, p.u, cw, ch, 0) /\ Puts(q, r, p.v, cw, ch, 1)
  <2>1. blank = [stride |-> blank.stride, data |-> blank.data]
    BY DEF BlankPlane, Plane
  <2> HIDE DEF blank, cw, ch
  <2>2. Puts(r, blank, p.u, cw, ch, 0)
    BY <1>0, <1>3, <1>5, <2>1, PutsEither
  <2>3. r = [stride |-> r.stride, data |-> r.data]
    BY <2>2 DEF Puts
  <2> HIDE DEF r
  <2>4. Puts(q, r, p.v, cw, ch, 1)
    BY <1>0, <1>3, <1>5, <2>3, PutsEither
  <2> QED
    BY <2>2, <2>4 DEF r
<1> HIDE DEF n, nv, luma, r, q, blank, cw, ch
<1>10. \A a \in 0 .. cw - 1, b \in 0 .. ch - 1 :
          /\ Read(q.data, b * p.w + 2 * a + 0) = Sample(p.u, cw, a, b)
          /\ Read(q.data, b * p.w + 2 * a + 1) = Sample(p.v, cw, a, b)
  <2> TAKE a \in 0 .. cw - 1, b \in 0 .. ch - 1
  <2>1. b * p.w + 2 * a + 0 = 2 * (b * cw + a) + 0 /\ b * p.w + 2 * a + 1 = 2 * (b * cw + a) + 1
    BY <1>0, <1>3
  <2>2. /\ Read(q.data, 2 * (b * cw + a) + 0) = Sample(p.u, cw, a, b)
        /\ Read(q.data, 2 * (b * cw + a) + 1) = Sample(p.v, cw, a, b)
    BY <1>3, <1>9, Interleaved
  <2> QED
    BY <2>1, <2>2
<1>11. TakenRow(n.u, n.u.stride, q.data, p.w, 0, cw, ch) = p.u
  <2> DEFINE t == TakenRow(n.u, n.u.stride, q.data, p.w, 0, cw, ch)
  <2>1. PlaneOK(t, cw, ch) /\ \A a \in 0 .. cw - 1, b \in 0 .. ch - 1 :
           Sample(t, cw, a, b) = Read(q.data, b * p.w + 2 * a + 0)
    BY <1>3, <1>4, <1>8, TakenRowSamples
  <2> HIDE DEF t
  <2>2. \A a \in 0 .. cw - 1, b \in 0 .. ch - 1 : Sample(t, cw, a, b) = Sample(p.u, cw, a, b)
    BY <1>10, <2>1
  <2>3. t = p.u
    BY <1>3, <1>5, <2>1, <2>2, SamePlane
  <2> QED
    BY <2>3 DEF t
<1>12. TakenRow(n.v, n.v.stride, q.data, p.w, 1, cw, ch) = p.v
  <2> DEFINE t == TakenRow(n.v, n.v.stride, q.data, p.w, 1, cw, ch)
  <2>1. PlaneOK(t, cw, ch) /\ \A a \in 0 .. cw - 1, b \in 0 .. ch - 1 :
           Sample(t, cw, a, b) = Read(q.data, b * p.w + 2 * a + 1)
    <3> DEFINE stride == n.v.stride
               d == n.v
    <3>1. stride = cw /\ PlaneOK(d, cw, ch)
      BY <1>4, <1>8
    <3> HIDE DEF stride, d
    <3>2. /\ PlaneOK(TakenRow(d, stride, q.data, p.w, 1, cw, ch), cw, ch)
          /\ \A a \in 0 .. cw - 1, b \in 0 .. ch - 1 :
                Sample(TakenRow(d, stride, q.data, p.w, 1, cw, ch), cw, a, b) = Read(q.data, b * p.w + 2 * a + 1)
      BY <1>3, <3>1, TakenRowSamples
    <3> QED
      BY <3>2 DEF stride, d
  <2> HIDE DEF t
  <2>2. \A a \in 0 .. cw - 1, b \in 0 .. ch - 1 : Sample(t, cw, a, b) = Sample(p.v, cw, a, b)
    BY <1>10, <2>1
  <2>3. t = p.v
    BY <1>3, <1>5, <2>1, <2>2, SamePlane
  <2> QED
    BY <2>3 DEF t
<1>13. \A a, b, c : [n EXCEPT !.y = a, !.u = b, !.v = c] = [w |-> p.w, h |-> p.h, y |-> a, u |-> b, v |-> c]
  BY <1>3, NewReplaced, Zenon DEF n
<1>14. [n EXCEPT !.y = p.y, !.u = p.u, !.v = p.v] = p
  BY <1>13, Zenon DEF Framed
<1> QED
  BY <1>1, <1>2, <1>7, <1>11, <1>12, <1>14, Zenon

-----------------------------------------------------------------------------
(* Workbench: what every loop leaves of a picture's shape. *)

\* A plane and a picture of whatever lengths: shaped like ones, no more.
Loose(d, s) ==
    /\ d = [stride |-> s, data |-> d.data]
    /\ d.data = [i \in DOMAIN d.data |-> d.data[i]]
Shaped(p) ==
    /\ p = [w |-> p.w, h |-> p.h, y |-> p.y, u |-> p.u, v |-> p.v]
    /\ p.w \in Nat /\ p.h \in Nat
    /\ Loose(p.y, p.w) /\ Loose(p.u, p.w \div 2) /\ Loose(p.v, p.w \div 2)
Sized(p, w, h) == Shaped(p) /\ p.w = w /\ p.h = h

\* New samples in a plane, new planes in a picture.
Fills(d, s) == \A f : f = [i \in DOMAIN f |-> f[i]] => Loose([d EXCEPT !.data = f], s)
Refills(p, w, h) ==
    /\ Fills(p.y, w) /\ Fills(p.u, w \div 2) /\ Fills(p.v, w \div 2)
    /\ \A a, b, c : Loose(a, w) /\ Loose(b, w \div 2) /\ Loose(c, w \div 2)
                     => Sized([p EXCEPT !.y = a, !.u = b, !.v = c], w, h)

\* A plane keeps its shape with any new samples, a picture with any new planes.
LEMMA LooseReplaced ==
    ASSUME NEW d, NEW s, Loose(d, s)
    PROVE  Fills(d, s)
<1> SUFFICES ASSUME NEW f, f = [i \in DOMAIN f |-> f[i]] PROVE Loose([d EXCEPT !.data = f], s)
  BY DEF Fills
<1> DEFINE g == d.data
           r == [d EXCEPT !.data = f]
<1>1. d = [stride |-> s, data |-> g]
  BY DEF Loose
<1> HIDE DEF g
<1>2. r = [stride |-> s, data |-> f]
  BY <1>1
<1> HIDE DEF r
<1>3. r.data = f
  BY <1>2
<1>4. Loose(r, s)
  BY <1>2, <1>3 DEF Loose
<1> QED
  BY <1>4 DEF r

LEMMA ShapedRefills ==
    ASSUME NEW p, NEW w, NEW h, Sized(p, w, h)
    PROVE  Refills(p, w, h)
<1>1. Loose(p.y, w) /\ Loose(p.u, w \div 2) /\ Loose(p.v, w \div 2) /\ w \in Nat /\ h \in Nat
  BY DEF Sized, Shaped
<1>2. Fills(p.y, w) /\ Fills(p.u, w \div 2) /\ Fills(p.v, w \div 2)
  BY <1>1, LooseReplaced
<1>3. ASSUME NEW a, NEW b, NEW c, Loose(a, w), Loose(b, w \div 2), Loose(c, w \div 2)
      PROVE  Sized([p EXCEPT !.y = a, !.u = b, !.v = c], w, h)
  <2> DEFINE y == p.y
             u == p.u
             v == p.v
             r == [p EXCEPT !.y = a, !.u = b, !.v = c]
  <2>1. p = [w |-> w, h |-> h, y |-> y, u |-> u, v |-> v]
    BY DEF Sized, Shaped
  <2> HIDE DEF y, u, v
  <2>2. r = [w |-> w, h |-> h, y |-> a, u |-> b, v |-> c]
    <3>1. r = [[[p EXCEPT !.y = a] EXCEPT !.u = b] EXCEPT !.v = c]
      OBVIOUS
    <3>2. [p EXCEPT !.y = a] = [w |-> w, h |-> h, y |-> a, u |-> u, v |-> v]
      BY <2>1
    <3>3. \A m : m = [w |-> w, h |-> h, y |-> a, u |-> u, v |-> v]
                  => [m EXCEPT !.u = b] = [w |-> w, h |-> h, y |-> a, u |-> b, v |-> v]
      OBVIOUS
    <3>4. \A m : m = [w |-> w, h |-> h, y |-> a, u |-> b, v |-> v]
                  => [m EXCEPT !.v = c] = [w |-> w, h |-> h, y |-> a, u |-> b, v |-> c]
      OBVIOUS
    <3> QED
      BY <3>1, <3>2, <3>3, <3>4, Zenon
  <2> HIDE DEF r
  <2>3. r.w = w /\ r.h = h /\ r.y = a /\ r.u = b /\ r.v = c
    BY <2>2
  <2>4. Sized(r, w, h)
    BY <1>1, <1>3, <2>2, <2>3 DEF Sized, Shaped
  <2> QED
    BY <2>4 DEF r
<1> QED
  BY <1>2, <1>3 DEF Refills

LEMMA NewRefills ==
    ASSUME NEW w \in Nat, NEW h \in Nat
    PROVE  Sized(I420New(w, h), w, h) /\ Refills(I420New(w, h), w, h)
<1> DEFINE n == I420New(w, h)
<1>1. Framed(n) /\ n.w = w /\ n.h = h
  BY NewIsFramed DEF I420New
<1> HIDE DEF n
<1>2. Sized(n, w, h)
  BY <1>1 DEF Framed, Sized, Shaped, PlaneOK, Loose
<1> QED
  BY <1>2, ShapedRefills DEF n

\* With nothing written beyond its planes, such a picture is a picture.
LEMMA ShapedIsFramed ==
    ASSUME NEW p, Shaped(p), WellFormed(p)
    PROVE  Framed(p)
<1> DEFINE n == I420New(p.w, p.h)
<1>1. p.w \in Nat /\ p.h \in Nat /\ p.w \div 2 \in Nat /\ p.h \div 2 \in Nat
  BY DEF Shaped
<1>2. PlaneOK(n.y, p.w, p.h) /\ PlaneOK(n.u, p.w \div 2, p.h \div 2) /\ PlaneOK(n.v, p.w \div 2, p.h \div 2)
  BY <1>1, PlanesOfNew
<1>3. p["y"] = p.y /\ p["u"] = p.u /\ p["v"] = p.v /\ n["y"] = n.y /\ n["u"] = n.u /\ n["v"] = n.v
  OBVIOUS
<1>4. \A k \in {"y", "u", "v"} : DOMAIN p[k].data = DOMAIN n[k].data
  BY DEF WellFormed
<1> HIDE DEF n
<1>5. DOMAIN p.y.data = DOMAIN n.y.data /\ DOMAIN p.u.data = DOMAIN n.u.data /\ DOMAIN p.v.data = DOMAIN n.v.data
  BY <1>3, <1>4
<1>6. /\ DOMAIN n.y.data = 0 .. p.w * p.h - 1
      /\ DOMAIN n.u.data = 0 .. (p.w \div 2) * (p.h \div 2) - 1
      /\ DOMAIN n.v.data = 0 .. (p.w \div 2) * (p.h \div 2) - 1
  BY <1>2 DEF PlaneOK
<1>7. PlaneOK(p.y, p.w, p.h) /\ PlaneOK(p.u, p.w \div 2, p.h \div 2) /\ PlaneOK(p.v, p.w \div 2, p.h \div 2)
  BY <1>5, <1>6 DEF Shaped, Loose, PlaneOK
<1> QED
  BY <1>7 DEF Shaped, Framed

\* A conversion or a transform gives the sizes asked for, whatever it reads and writes.
LEMMA I422Shaped ==
    ASSUME NEW src, src.w \in Nat, src.h \in Nat
    PROVE  Sized(I422ToI420(src), src.w, src.h)
<1> DEFINE n == I420New(src.w, src.h)
           Pair(p, c) == Read(p.data, c[2] * p.stride + 2 * c[1])
                           \cup Read(p.data, c[2] * p.stride + 2 * c[1] + 1)
           Chroma(d, s) == Written(d, Halves(src), LAMBDA c : Index(d.stride, c), LAMBDA c : Pair(s, c))
           A == CopiedLuma(src, n)
           B == Chroma(n.u, src.u)
           C == Chroma(n.v, src.v)
<1>1. Refills(n, src.w, src.h)
  BY NewRefills
<1>2. I422ToI420(src) = [n EXCEPT !.y = A, !.u = B, !.v = C]
  BY DEF I422ToI420
<1>3. Loose(A, src.w)
  <2>1. \A f : f = [i \in DOMAIN f |-> f[i]] => Loose([n.y EXCEPT !.data = f], src.w)
    BY <1>1 DEF Refills, Fills
  <2> HIDE DEF n
  <2> QED
    BY <2>1 DEF Written, CopiedLuma
<1>4. Loose(B, src.w \div 2)
  <2>1. \A f : f = [i \in DOMAIN f |-> f[i]] => Loose([n.u EXCEPT !.data = f], src.w \div 2)
    BY <1>1 DEF Refills, Fills
  <2> HIDE DEF n
  <2> QED
    BY <2>1 DEF Written
<1>5. Loose(C, src.w \div 2)
  <2>1. \A f : f = [i \in DOMAIN f |-> f[i]] => Loose([n.v EXCEPT !.data = f], src.w \div 2)
    BY <1>1 DEF Refills, Fills
  <2> HIDE DEF n
  <2> QED
    BY <2>1 DEF Written
<1> HIDE DEF n, A, B, C
<1>6. Sized([n EXCEPT !.y = A, !.u = B, !.v = C], src.w, src.h)
  BY <1>1, <1>3, <1>4, <1>5 DEF Refills
<1> QED
  BY <1>2, <1>6, Zenon

LEMMA I444Shaped ==
    ASSUME NEW src, src.w \in Nat, src.h \in Nat
    PROVE  Sized(I444ToI420(src), src.w, src.h)
<1> DEFINE n == I420New(src.w, src.h)
           Quad(p, c) == UNION {Read(p.data, (2 * c[2] + e[2]) * p.stride + 2 * c[1] + e[1]) :
                                 e \in {0, 1} \X {0, 1}}
           Chroma(d, s) == Written(d, Halves(src), LAMBDA c : Index(d.stride, c), LAMBDA c : Quad(s, c))
           A == CopiedLuma(src, n)
           B == Chroma(n.u, src.u)
           C == Chroma(n.v, src.v)
<1>1. Refills(n, src.w, src.h)
  BY NewRefills
<1>2. I444ToI420(src) = [n EXCEPT !.y = A, !.u = B, !.v = C]
  BY DEF I444ToI420
<1>3. Loose(A, src.w)
  <2>1. \A f : f = [i \in DOMAIN f |-> f[i]] => Loose([n.y EXCEPT !.data = f], src.w)
    BY <1>1 DEF Refills, Fills
  <2> HIDE DEF n
  <2> QED
    BY <2>1 DEF Written, CopiedLuma
<1>4. Loose(B, src.w \div 2)
  <2>1. \A f : f = [i \in DOMAIN f |-> f[i]] => Loose([n.u EXCEPT !.data = f], src.w \div 2)
    BY <1>1 DEF Refills, Fills
  <2> HIDE DEF n
  <2> QED
    BY <2>1 DEF Written
<1>5. Loose(C, src.w \div 2)
  <2>1. \A f : f = [i \in DOMAIN f |-> f[i]] => Loose([n.v EXCEPT !.data = f], src.w \div 2)
    BY <1>1 DEF Refills, Fills
  <2> HIDE DEF n
  <2> QED
    BY <2>1 DEF Written
<1> HIDE DEF n, A, B, C
<1>6. Sized([n EXCEPT !.y = A, !.u = B, !.v = C], src.w, src.h)
  BY <1>1, <1>3, <1>4, <1>5 DEF Refills
<1> QED
  BY <1>2, <1>6, Zenon

LEMMA NV12BufferShaped ==
    ASSUME NEW src, src.w \in Nat, src.h \in Nat
    PROVE  Sized(NV12BufferToI420(src), src.w, src.h)
<1> DEFINE n == I420New(src.w, src.h)
           Chroma(d, k) == Written(d, Halves(src), LAMBDA c : Index(n.u.stride, c),
                                   LAMBDA c : Read(src.uv.data, c[2] * src.uv.stride + 2 * c[1] + k))
           A == CopiedLuma(src, n)
           B == Chroma(n.u, 0)
           C == Chroma(n.v, 1)
<1>1. Refills(n, src.w, src.h)
  BY NewRefills
<1>2. NV12BufferToI420(src) = [n EXCEPT !.y = A, !.u = B, !.v = C]
  BY DEF NV12BufferToI420
<1>3. Loose(A, src.w)
  <2>1. \A f : f = [i \in DOMAIN f |-> f[i]] => Loose([n.y EXCEPT !.data = f], src.w)
    BY <1>1 DEF Refills, Fills
  <2> HIDE DEF n
  <2> QED
    BY <2>1 DEF Written, CopiedLuma
<1>4. Loose(B, src.w \div 2)
  <2>1. \A f : f = [i \in DOMAIN f |-> f[i]] => Loose([n.u EXCEPT !.data = f], src.w \div 2)
    BY <1>1 DEF Refills, Fills
  <2> HIDE DEF n
  <2> QED
    BY <2>1 DEF Written
<1>5. Loose(C, src.w \div 2)
  <2>1. \A f : f = [i \in DOMAIN f |-> f[i]] => Loose([n.v EXCEPT !.data = f], src.w \div 2)
    BY <1>1 DEF Refills, Fills
  <2> HIDE DEF n
  <2> QED
    BY <2>1 DEF Written
<1> HIDE DEF n, A, B, C
<1>6. Sized([n EXCEPT !.y = A, !.u = B, !.v = C], src.w, src.h)
  BY <1>1, <1>3, <1>4, <1>5 DEF Refills
<1> QED
  BY <1>2, <1>6, Zenon

LEMMA I010Shaped ==
    ASSUME NEW src, src.w \in Nat, src.h \in Nat
    PROVE  Sized(I010ToI420(src), src.w, src.h)
<1> DEFINE n == I420New(src.w, src.h)
           Narrow(d, s) == Written(d, 0 .. (src.w \div 2) * (src.h \div 2) - 1,
                                   LAMBDA i : i, LAMBDA i : Read(s.data, i))
           A == CopiedLuma(src, n)
           B == Narrow(n.u, src.u)
           C == Narrow(n.v, src.v)
<1>1. Refills(n, src.w, src.h)
  BY NewRefills
<1>2. I010ToI420(src) = [n EXCEPT !.y = A, !.u = B, !.v = C]
  BY DEF I010ToI420
<1>3. Loose(A, src.w)
  <2>1. \A f : f = [i \in DOMAIN f |-> f[i]] => Loose([n.y EXCEPT !.data = f], src.w)
    BY <1>1 DEF Refills, Fills
  <2> HIDE DEF n
  <2> QED
    BY <2>1 DEF Written, CopiedLuma
<1>4. Loose(B, src.w \div 2)
  <2>1. \A f : f = [i \in DOMAIN f |-> f[i]] => Loose([n.u EXCEPT !.data = f], src.w \div 2)
    BY <1>1 DEF Refills, Fills
  <2> HIDE DEF n
  <2> QED
    BY <2>1 DEF Written
<1>5. Loose(C, src.w \div 2)
  <2>1. \A f : f = [i \in DOMAIN f |-> f[i]] => Loose([n.v EXCEPT !.data = f], src.w \div 2)
    BY <1>1 DEF Refills, Fills
  <2> HIDE DEF n
  <2> QED
    BY <2>1 DEF Written
<1> HIDE DEF n, A, B, C
<1>6. Sized([n EXCEPT !.y = A, !.u = B, !.v = C], src.w, src.h)
  BY <1>1, <1>3, <1>4, <1>5 DEF Refills
<1> QED
  BY <1>2, <1>6, Zenon

LEMMA ARGBShaped ==
    ASSUME NEW argb, NEW w \in Nat, NEW h \in Nat
    PROVE  Sized(ARGBToI420(argb, w, h), w, h)
<1> DEFINE n == I420New(w, h)
           Quad(c) == UNION {Read(argb, (2 * c[2] + e[2]) * w + 2 * c[1] + e[1]) : e \in {0, 1} \X {0, 1}}
           Chroma(d) == Written(d, Area(w \div 2, h \div 2), LAMBDA c : Index(n.u.stride, c), Quad)
           A == Written(n.y, Area(2 * (w \div 2), 2 * (h \div 2)), LAMBDA c : Index(n.y.stride, c),
                        LAMBDA c : Read(argb, Index(w, c)))
           B == Chroma(n.u)
           C == Chroma(n.v)
<1>1. Refills(n, w, h)
  BY NewRefills
<1>2. ARGBToI420(argb, w, h) = [n EXCEPT !.y = A, !.u = B, !.v = C]
  BY DEF ARGBToI420
<1>3. Loose(A, w)
  <2>1. \A f : f = [i \in DOMAIN f |-> f[i]] => Loose([n.y EXCEPT !.data = f], w)
    BY <1>1 DEF Refills, Fills
  <2> HIDE DEF n
  <2> QED
    BY <2>1 DEF Written
<1>4. Loose(B, w \div 2)
  <2>1. \A f : f = [i \in DOMAIN f |-> f[i]] => Loose([n.u EXCEPT !.data = f], w \div 2)
    BY <1>1 DEF Refills, Fills
  <2> HIDE DEF n
  <2> QED
    BY <2>1 DEF Written
<1>5. Loose(C, w \div 2)
  <2>1. \A f : f = [i \in DOMAIN f |-> f[i]] => Loose([n.v EXCEPT !.data = f], w \div 2)
    BY <1>1 DEF Refills, Fills
  <2> HIDE DEF n
  <2> QED
    BY <2>1 DEF Written
<1> HIDE DEF n, A, B, C
<1>6. Sized([n EXCEPT !.y = A, !.u = B, !.v = C], w, h)
  BY <1>1, <1>3, <1>4, <1>5 DEF Refills
<1> QED
  BY <1>2, <1>6, Zenon

LEMMA LibyuvARGBShaped ==
    ASSUME NEW argb, NEW w \in Nat, NEW h \in Nat
    PROVE  Sized(LibyuvARGBToI420(argb, w, h), w, h)
<1> DEFINE n == I420New(w, h)
           Quad(c) == UNION {argb[Index(w, p)] : p \in Block(c[1], c[2]) \cap Area(w, h)}
           Chroma(d) == Written(d, Area(Up(w, 2), Up(h, 2)), LAMBDA c : Index(d.stride, c), Quad)
           A == Written(n.y, Area(w, h), LAMBDA c : Index(n.y.stride, c), LAMBDA c : Read(argb, Index(w, c)))
           B == Chroma(n.u)
           C == Chroma(n.v)
<1>1. Refills(n, w, h)
  BY NewRefills
<1>2. LibyuvARGBToI420(argb, w, h) = [n EXCEPT !.y = A, !.u = B, !.v = C]
  BY DEF LibyuvARGBToI420
<1>3. Loose(A, w)
  <2>1. \A f : f = [i \in DOMAIN f |-> f[i]] => Loose([n.y EXCEPT !.data = f], w)
    BY <1>1 DEF Refills, Fills
  <2> HIDE DEF n
  <2> QED
    BY <2>1 DEF Written
<1>4. Loose(B, w \div 2)
  <2>1. \A f : f = [i \in DOMAIN f |-> f[i]] => Loose([n.u EXCEPT !.data = f], w \div 2)
    BY <1>1 DEF Refills, Fills
  <2> HIDE DEF n
  <2> QED
    BY <2>1 DEF Written
<1>5. Loose(C, w \div 2)
  <2>1. \A f : f = [i \in DOMAIN f |-> f[i]] => Loose([n.v EXCEPT !.data = f], w \div 2)
    BY <1>1 DEF Refills, Fills
  <2> HIDE DEF n
  <2> QED
    BY <2>1 DEF Written
<1> HIDE DEF n, A, B, C
<1>6. Sized([n EXCEPT !.y = A, !.u = B, !.v = C], w, h)
  BY <1>1, <1>3, <1>4, <1>5 DEF Refills
<1> QED
  BY <1>2, <1>6, Zenon

LEMMA ScaleShaped ==
    ASSUME NEW p, NEW w \in Nat, NEW h \in Nat
    PROVE  Sized(Scale(p, w, h), w, h)
<1> DEFINE n == I420New(w, h)
           Each(d, s, k) == Written(d, Area(Down(w, k), Down(h, k)),
                                    LAMBDA c : Index(d.stride, c),
                                    LAMBDA c : Read(s.data, Index(s.stride, <<(c[1] * (p.w \div k)) \div (w \div k),
                                                                    (c[2] * (p.h \div k)) \div (h \div k)>>)))
           A == Each(n.y, p.y, 1)
           B == Each(n.u, p.u, 2)
           C == Each(n.v, p.v, 2)
<1>1. Refills(n, w, h)
  BY NewRefills
<1>2. Scale(p, w, h) = [n EXCEPT !.y = A, !.u = B, !.v = C]
  BY DEF Scale, Planewise, Same
<1>3. Loose(A, w)
  <2>1. \A f : f = [i \in DOMAIN f |-> f[i]] => Loose([n.y EXCEPT !.data = f], w)
    BY <1>1 DEF Refills, Fills
  <2> HIDE DEF n
  <2> QED
    BY <2>1 DEF Written
<1>4. Loose(B, w \div 2)
  <2>1. \A f : f = [i \in DOMAIN f |-> f[i]] => Loose([n.u EXCEPT !.data = f], w \div 2)
    BY <1>1 DEF Refills, Fills
  <2> HIDE DEF n
  <2> QED
    BY <2>1 DEF Written
<1>5. Loose(C, w \div 2)
  <2>1. \A f : f = [i \in DOMAIN f |-> f[i]] => Loose([n.v EXCEPT !.data = f], w \div 2)
    BY <1>1 DEF Refills, Fills
  <2> HIDE DEF n
  <2> QED
    BY <2>1 DEF Written
<1> HIDE DEF n, A, B, C
<1>6. Sized([n EXCEPT !.y = A, !.u = B, !.v = C], w, h)
  BY <1>1, <1>3, <1>4, <1>5 DEF Refills
<1> QED
  BY <1>2, <1>6, Zenon

LEMMA LibyuvScaleShaped ==
    ASSUME NEW p, NEW w \in Nat, NEW h \in Nat
    PROVE  Sized(LibyuvScale(p, w, h), w, h)
<1> DEFINE n == I420New(w, h)
           Each(d, s, k) == Written(d, Area(Up(w, k), Up(h, k)),
                                    LAMBDA c : Index(d.stride, c),
                                    LAMBDA c : Read(s.data, Index(s.stride, <<((2 * c[1] + 1) * Up(p.w, k)) \div (2 * Up(w, k)),
                                                                    ((2 * c[2] + 1) * Up(p.h, k)) \div (2 * Up(h, k))>>)))
           A == Each(n.y, p.y, 1)
           B == Each(n.u, p.u, 2)
           C == Each(n.v, p.v, 2)
<1>1. Refills(n, w, h)
  BY NewRefills
<1>2. LibyuvScale(p, w, h) = [n EXCEPT !.y = A, !.u = B, !.v = C]
  BY DEF LibyuvScale, Planewise, Same
<1>3. Loose(A, w)
  <2>1. \A f : f = [i \in DOMAIN f |-> f[i]] => Loose([n.y EXCEPT !.data = f], w)
    BY <1>1 DEF Refills, Fills
  <2> HIDE DEF n
  <2> QED
    BY <2>1 DEF Written
<1>4. Loose(B, w \div 2)
  <2>1. \A f : f = [i \in DOMAIN f |-> f[i]] => Loose([n.u EXCEPT !.data = f], w \div 2)
    BY <1>1 DEF Refills, Fills
  <2> HIDE DEF n
  <2> QED
    BY <2>1 DEF Written
<1>5. Loose(C, w \div 2)
  <2>1. \A f : f = [i \in DOMAIN f |-> f[i]] => Loose([n.v EXCEPT !.data = f], w \div 2)
    BY <1>1 DEF Refills, Fills
  <2> HIDE DEF n
  <2> QED
    BY <2>1 DEF Written
<1> HIDE DEF n, A, B, C
<1>6. Sized([n EXCEPT !.y = A, !.u = B, !.v = C], w, h)
  BY <1>1, <1>3, <1>4, <1>5 DEF Refills
<1> QED
  BY <1>2, <1>6, Zenon

LEMMA CropShaped ==
    ASSUME NEW p, NEW x, NEW y, NEW w \in Nat, NEW h \in Nat
    PROVE  Sized(Crop(p, x, y, w, h), w, h)
<1> DEFINE n == I420New(w, h)
           Each(d, s, k) == Written(d, Area(Down(w, k), Down(h, k)),
                                    LAMBDA c : Index(d.stride, c),
                                    LAMBDA c : Read(s.data, Index(s.stride, <<(x \div k) + c[1], (y \div k) + c[2]>>)))
           A == Each(n.y, p.y, 1)
           B == Each(n.u, p.u, 2)
           C == Each(n.v, p.v, 2)
<1>1. Refills(n, w, h)
  BY NewRefills
<1>2. Crop(p, x, y, w, h) = [n EXCEPT !.y = A, !.u = B, !.v = C]
  BY DEF Crop, Planewise, Same
<1>3. Loose(A, w)
  <2>1. \A f : f = [i \in DOMAIN f |-> f[i]] => Loose([n.y EXCEPT !.data = f], w)
    BY <1>1 DEF Refills, Fills
  <2> HIDE DEF n
  <2> QED
    BY <2>1 DEF Written
<1>4. Loose(B, w \div 2)
  <2>1. \A f : f = [i \in DOMAIN f |-> f[i]] => Loose([n.u EXCEPT !.data = f], w \div 2)
    BY <1>1 DEF Refills, Fills
  <2> HIDE DEF n
  <2> QED
    BY <2>1 DEF Written
<1>5. Loose(C, w \div 2)
  <2>1. \A f : f = [i \in DOMAIN f |-> f[i]] => Loose([n.v EXCEPT !.data = f], w \div 2)
    BY <1>1 DEF Refills, Fills
  <2> HIDE DEF n
  <2> QED
    BY <2>1 DEF Written
<1> HIDE DEF n, A, B, C
<1>6. Sized([n EXCEPT !.y = A, !.u = B, !.v = C], w, h)
  BY <1>1, <1>3, <1>4, <1>5 DEF Refills
<1> QED
  BY <1>2, <1>6, Zenon

LEMMA LibyuvCropShaped ==
    ASSUME NEW p, NEW x, NEW y, NEW w \in Nat, NEW h \in Nat
    PROVE  Sized(LibyuvCrop(p, x, y, w, h), w, h)
<1> DEFINE n == I420New(w, h)
           Rows(d, s, k) == Written(d, Area(w \div k, h \div k), LAMBDA c : Index(d.stride, c),
                                    LAMBDA c : Read(s.data, ((y \div k) * s.stride + (x \div k)) + Index(s.stride, c)))
           A == Rows(n.y, p.y, 1)
           B == Rows(n.u, p.u, 2)
           C == Rows(n.v, p.v, 2)
<1>1. Refills(n, w, h)
  BY NewRefills
<1>2. LibyuvCrop(p, x, y, w, h) = [n EXCEPT !.y = A, !.u = B, !.v = C]
  BY DEF LibyuvCrop
<1>3. Loose(A, w)
  <2>1. \A f : f = [i \in DOMAIN f |-> f[i]] => Loose([n.y EXCEPT !.data = f], w)
    BY <1>1 DEF Refills, Fills
  <2> HIDE DEF n
  <2> QED
    BY <2>1 DEF Written
<1>4. Loose(B, w \div 2)
  <2>1. \A f : f = [i \in DOMAIN f |-> f[i]] => Loose([n.u EXCEPT !.data = f], w \div 2)
    BY <1>1 DEF Refills, Fills
  <2> HIDE DEF n
  <2> QED
    BY <2>1 DEF Written
<1>5. Loose(C, w \div 2)
  <2>1. \A f : f = [i \in DOMAIN f |-> f[i]] => Loose([n.v EXCEPT !.data = f], w \div 2)
    BY <1>1 DEF Refills, Fills
  <2> HIDE DEF n
  <2> QED
    BY <2>1 DEF Written
<1> HIDE DEF n, A, B, C
<1>6. Sized([n EXCEPT !.y = A, !.u = B, !.v = C], w, h)
  BY <1>1, <1>3, <1>4, <1>5 DEF Refills
<1> QED
  BY <1>2, <1>6, Zenon

LEMMA MirrorShaped ==
    ASSUME NEW p, p.w \in Nat, p.h \in Nat
    PROVE  Sized(Mirror(p), p.w, p.h)
<1> DEFINE n == I420New(p.w, p.h)
           Each(d, s, k) == Written(d, Area(Down(p.w, k), Down(p.h, k)),
                                    LAMBDA c : Index(d.stride, <<(p.w \div k) - 1 - c[1], c[2]>>),
                                    LAMBDA c : Read(s.data, Index(s.stride, c)))
           A == Each(n.y, p.y, 1)
           B == Each(n.u, p.u, 2)
           C == Each(n.v, p.v, 2)
<1>1. Refills(n, p.w, p.h)
  BY NewRefills
<1>2. Mirror(p) = [n EXCEPT !.y = A, !.u = B, !.v = C]
  BY DEF Mirror, Planewise, Same
<1>3. Loose(A, p.w)
  <2>1. \A f : f = [i \in DOMAIN f |-> f[i]] => Loose([n.y EXCEPT !.data = f], p.w)
    BY <1>1 DEF Refills, Fills
  <2> HIDE DEF n
  <2> QED
    BY <2>1 DEF Written
<1>4. Loose(B, p.w \div 2)
  <2>1. \A f : f = [i \in DOMAIN f |-> f[i]] => Loose([n.u EXCEPT !.data = f], p.w \div 2)
    BY <1>1 DEF Refills, Fills
  <2> HIDE DEF n
  <2> QED
    BY <2>1 DEF Written
<1>5. Loose(C, p.w \div 2)
  <2>1. \A f : f = [i \in DOMAIN f |-> f[i]] => Loose([n.v EXCEPT !.data = f], p.w \div 2)
    BY <1>1 DEF Refills, Fills
  <2> HIDE DEF n
  <2> QED
    BY <2>1 DEF Written
<1> HIDE DEF n, A, B, C
<1>6. Sized([n EXCEPT !.y = A, !.u = B, !.v = C], p.w, p.h)
  BY <1>1, <1>3, <1>4, <1>5 DEF Refills
<1> QED
  BY <1>2, <1>6, Zenon

LEMMA LibyuvMirrorShaped ==
    ASSUME NEW p, p.w \in Nat, p.h \in Nat
    PROVE  Sized(LibyuvMirror(p), p.w, p.h)
<1> DEFINE n == I420New(p.w, p.h)
           Each(d, s, k) == Written(d, Area(Up(p.w, k), Up(p.h, k)),
                                    LAMBDA c : Index(d.stride, <<Up(p.w, k) - 1 - c[1], c[2]>>),
                                    LAMBDA c : Read(s.data, Index(s.stride, c)))
           A == Each(n.y, p.y, 1)
           B == Each(n.u, p.u, 2)
           C == Each(n.v, p.v, 2)
<1>1. Refills(n, p.w, p.h)
  BY NewRefills
<1>2. LibyuvMirror(p) = [n EXCEPT !.y = A, !.u = B, !.v = C]
  BY DEF LibyuvMirror, Planewise, Same
<1>3. Loose(A, p.w)
  <2>1. \A f : f = [i \in DOMAIN f |-> f[i]] => Loose([n.y EXCEPT !.data = f], p.w)
    BY <1>1 DEF Refills, Fills
  <2> HIDE DEF n
  <2> QED
    BY <2>1 DEF Written
<1>4. Loose(B, p.w \div 2)
  <2>1. \A f : f = [i \in DOMAIN f |-> f[i]] => Loose([n.u EXCEPT !.data = f], p.w \div 2)
    BY <1>1 DEF Refills, Fills
  <2> HIDE DEF n
  <2> QED
    BY <2>1 DEF Written
<1>5. Loose(C, p.w \div 2)
  <2>1. \A f : f = [i \in DOMAIN f |-> f[i]] => Loose([n.v EXCEPT !.data = f], p.w \div 2)
    BY <1>1 DEF Refills, Fills
  <2> HIDE DEF n
  <2> QED
    BY <2>1 DEF Written
<1> HIDE DEF n, A, B, C
<1>6. Sized([n EXCEPT !.y = A, !.u = B, !.v = C], p.w, p.h)
  BY <1>1, <1>3, <1>4, <1>5 DEF Refills
<1> QED
  BY <1>2, <1>6, Zenon

\* The ways back from NV12, and the turns.
LEMMA NV12Shaped ==
    ASSUME NEW nv, nv.w \in Nat, nv.h \in Nat
    PROVE  Sized(NV12ToI420(nv), nv.w, nv.h)
<1> DEFINE n == I420New(nv.w, nv.h)
           Chroma(d, k) == Written(d, Halves(nv), LAMBDA c : Index(n.u.stride, c),
                                   LAMBDA c : Read(nv.uv.data, 2 * Index(nv.w \div 2, c) + k))
           A == CopiedLuma(nv, n)
           B == Chroma(n.u, 0)
           C == Chroma(n.v, 1)
<1>1. Refills(n, nv.w, nv.h)
  BY NewRefills
<1>2. NV12ToI420(nv) = [n EXCEPT !.y = A, !.u = B, !.v = C]
  BY DEF NV12ToI420
<1>3. Loose(A, nv.w)
  <2>1. \A f : f = [i \in DOMAIN f |-> f[i]] => Loose([n.y EXCEPT !.data = f], nv.w)
    BY <1>1 DEF Refills, Fills
  <2> HIDE DEF n
  <2> QED
    BY <2>1 DEF Written, CopiedLuma
<1>4. Loose(B, nv.w \div 2)
  <2>1. \A f : f = [i \in DOMAIN f |-> f[i]] => Loose([n.u EXCEPT !.data = f], nv.w \div 2)
    BY <1>1 DEF Refills, Fills
  <2> HIDE DEF n
  <2> QED
    BY <2>1 DEF Written
<1>5. Loose(C, nv.w \div 2)
  <2>1. \A f : f = [i \in DOMAIN f |-> f[i]] => Loose([n.v EXCEPT !.data = f], nv.w \div 2)
    BY <1>1 DEF Refills, Fills
  <2> HIDE DEF n
  <2> QED
    BY <2>1 DEF Written
<1> HIDE DEF n, A, B, C
<1>6. Sized([n EXCEPT !.y = A, !.u = B, !.v = C], nv.w, nv.h)
  BY <1>1, <1>3, <1>4, <1>5 DEF Refills
<1> QED
  BY <1>2, <1>6, Zenon

LEMMA LibyuvNV12Shaped ==
    ASSUME NEW nv, nv.w \in Nat, nv.h \in Nat
    PROVE  Sized(LibyuvNV12ToI420(nv), nv.w, nv.h)
<1> DEFINE n == I420New(nv.w, nv.h)
           Chroma(d, k) == Written(d, Area(Up(nv.w, 2), Up(nv.h, 2)), LAMBDA c : Index(d.stride, c),
                                   LAMBDA c : Read(nv.uv.data, c[2] * nv.w + 2 * c[1] + k))
           A == CopiedLuma(nv, n)
           B == Chroma(n.u, 0)
           C == Chroma(n.v, 1)
<1>1. Refills(n, nv.w, nv.h)
  BY NewRefills
<1>2. LibyuvNV12ToI420(nv) = [n EXCEPT !.y = A, !.u = B, !.v = C]
  BY DEF LibyuvNV12ToI420
<1>3. Loose(A, nv.w)
  <2>1. \A f : f = [i \in DOMAIN f |-> f[i]] => Loose([n.y EXCEPT !.data = f], nv.w)
    BY <1>1 DEF Refills, Fills
  <2> HIDE DEF n
  <2> QED
    BY <2>1 DEF Written, CopiedLuma
<1>4. Loose(B, nv.w \div 2)
  <2>1. \A f : f = [i \in DOMAIN f |-> f[i]] => Loose([n.u EXCEPT !.data = f], nv.w \div 2)
    BY <1>1 DEF Refills, Fills
  <2> HIDE DEF n
  <2> QED
    BY <2>1 DEF Written
<1>5. Loose(C, nv.w \div 2)
  <2>1. \A f : f = [i \in DOMAIN f |-> f[i]] => Loose([n.v EXCEPT !.data = f], nv.w \div 2)
    BY <1>1 DEF Refills, Fills
  <2> HIDE DEF n
  <2> QED
    BY <2>1 DEF Written
<1> HIDE DEF n, A, B, C
<1>6. Sized([n EXCEPT !.y = A, !.u = B, !.v = C], nv.w, nv.h)
  BY <1>1, <1>3, <1>4, <1>5 DEF Refills
<1> QED
  BY <1>2, <1>6, Zenon

LEMMA TurnedBufferRefills ==
    ASSUME NEW p, p.w \in Nat, p.h \in Nat, NEW rot \in {0, 90, 180, 270}
    PROVE  Refills(TurnedBuffer(p, rot), TurnedW(p.w, p.h, rot), TurnedH(p.w, p.h, rot))
BY NewRefills DEF TurnedBuffer, TurnedW, TurnedH

LEMMA RotateShaped ==
    ASSUME NEW p, p.w \in Nat, p.h \in Nat, NEW rot \in {0, 90, 180, 270}
    PROVE  Sized(Rotate(p, rot), TurnedW(p.w, p.h, rot), TurnedH(p.w, p.h, rot))
<1> DEFINE n == TurnedBuffer(p, rot)
           Each(d, s, k) == Written(d, Area(Down(p.w, k), Down(p.h, k)),
                                    LAMBDA c : Index(d.stride, Turned(c, p.w \div k, p.h \div k, rot)),
                                    LAMBDA c : Read(s.data, Index(s.stride, c)))
           A == Each(n.y, p.y, 1)
           B == Each(n.u, p.u, 2)
           C == Each(n.v, p.v, 2)
<1>1. Refills(n, TurnedW(p.w, p.h, rot), TurnedH(p.w, p.h, rot))
  BY TurnedBufferRefills
<1>2. Rotate(p, rot) = [n EXCEPT !.y = A, !.u = B, !.v = C]
  BY DEF Rotate, Planewise, Same
<1>3. Loose(A, TurnedW(p.w, p.h, rot))
  <2>1. \A f : f = [i \in DOMAIN f |-> f[i]] => Loose([n.y EXCEPT !.data = f], TurnedW(p.w, p.h, rot))
    BY <1>1 DEF Refills, Fills
  <2> HIDE DEF n
  <2> QED
    BY <2>1 DEF Written
<1>4. Loose(B, TurnedW(p.w, p.h, rot) \div 2)
  <2>1. \A f : f = [i \in DOMAIN f |-> f[i]] => Loose([n.u EXCEPT !.data = f], TurnedW(p.w, p.h, rot) \div 2)
    BY <1>1 DEF Refills, Fills
  <2> HIDE DEF n
  <2> QED
    BY <2>1 DEF Written
<1>5. Loose(C, TurnedW(p.w, p.h, rot) \div 2)
  <2>1. \A f : f = [i \in DOMAIN f |-> f[i]] => Loose([n.v EXCEPT !.data = f], TurnedW(p.w, p.h, rot) \div 2)
    BY <1>1 DEF Refills, Fills
  <2> HIDE DEF n
  <2> QED
    BY <2>1 DEF Written
<1> HIDE DEF n, A, B, C
<1>6. Sized([n EXCEPT !.y = A, !.u = B, !.v = C], TurnedW(p.w, p.h, rot), TurnedH(p.w, p.h, rot))
  BY <1>1, <1>3, <1>4, <1>5 DEF Refills
<1> QED
  BY <1>2, <1>6, Zenon

LEMMA LibyuvRotateShaped ==
    ASSUME NEW p, p.w \in Nat, p.h \in Nat, NEW rot \in {0, 90, 180, 270}
    PROVE  Sized(LibyuvRotate(p, rot), TurnedW(p.w, p.h, rot), TurnedH(p.w, p.h, rot))
<1> DEFINE n == TurnedBuffer(p, rot)
           Each(d, s, k) == Written(d, Area(Up(p.w, k), Up(p.h, k)),
                                    LAMBDA c : Index(d.stride, Turned(c, Up(p.w, k), Up(p.h, k), rot)),
                                    LAMBDA c : Read(s.data, Index(s.stride, c)))
           A == Each(n.y, p.y, 1)
           B == Each(n.u, p.u, 2)
           C == Each(n.v, p.v, 2)
<1>1. Refills(n, TurnedW(p.w, p.h, rot), TurnedH(p.w, p.h, rot))
  BY TurnedBufferRefills
<1>2. LibyuvRotate(p, rot) = [n EXCEPT !.y = A, !.u = B, !.v = C]
  BY DEF LibyuvRotate, Planewise, Same
<1>3. Loose(A, TurnedW(p.w, p.h, rot))
  <2>1. \A f : f = [i \in DOMAIN f |-> f[i]] => Loose([n.y EXCEPT !.data = f], TurnedW(p.w, p.h, rot))
    BY <1>1 DEF Refills, Fills
  <2> HIDE DEF n
  <2> QED
    BY <2>1 DEF Written
<1>4. Loose(B, TurnedW(p.w, p.h, rot) \div 2)
  <2>1. \A f : f = [i \in DOMAIN f |-> f[i]] => Loose([n.u EXCEPT !.data = f], TurnedW(p.w, p.h, rot) \div 2)
    BY <1>1 DEF Refills, Fills
  <2> HIDE DEF n
  <2> QED
    BY <2>1 DEF Written
<1>5. Loose(C, TurnedW(p.w, p.h, rot) \div 2)
  <2>1. \A f : f = [i \in DOMAIN f |-> f[i]] => Loose([n.v EXCEPT !.data = f], TurnedW(p.w, p.h, rot) \div 2)
    BY <1>1 DEF Refills, Fills
  <2> HIDE DEF n
  <2> QED
    BY <2>1 DEF Written
<1> HIDE DEF n, A, B, C
<1>6. Sized([n EXCEPT !.y = A, !.u = B, !.v = C], TurnedW(p.w, p.h, rot), TurnedH(p.w, p.h, rot))
  BY <1>1, <1>3, <1>4, <1>5 DEF Refills
<1> QED
  BY <1>2, <1>6, Zenon

\* The same of what is painted, rectangle by rectangle.
LEMMA BarsShaped ==
    ASSUME NEW p, NEW w, NEW h, Sized(p, w, h)
    PROVE  Sized(SmpteBars(p), w, h)
<1> DEFINE
           halfW == p.w \div 2
           barH == (p.h * 2) \div 3
           barW == IF p.w >= Bars THEN p.w \div Bars ELSE 1
           BarStart(i) == i * barW
           End(i) == IF i = Bars - 1 THEN p.w ELSE Least((i + 1) * barW, p.w)
           HalfStart(i) == Least(BarStart(i) \div 2, Minus(halfW, 1))
           HalfEnd(i) == Most(Least(End(i) \div 2, halfW), HalfStart(i) + 1)
           LumaOf(i) == IF i < Bars THEN Rect(BarStart(i), End(i), 0, barH) ELSE Rect(0, p.w, barH, p.h)
           ChromaOf(i) ==
               IF i < Bars THEN Rect(HalfStart(i), HalfEnd(i), 0, barH \div 2)
                           ELSE {c \in Rect(0, halfW, barH \div 2, p.h) : c[2] < p.h \div 2}
           Chroma(d) == Painted(d, 0 .. Bars, ChromaOf, LAMBDA i : IF i < Bars THEN Bar(i) ELSE Neutral)
           A == Painted(p.y, 0 .. Bars, LumaOf, LAMBDA i : IF i < Bars THEN Bar(i) ELSE Gradient)
           B == Chroma(p.u)
           C == Chroma(p.v)
<1>1. Refills(p, w, h)
  BY ShapedRefills
<1>2. SmpteBars(p) = [p EXCEPT !.y = A, !.u = B, !.v = C]
  BY DEF SmpteBars
<1>3. Loose(A, w)
  <2> DEFINE d == p.y
             all == UNION {LumaOf(k) : k \in 0 .. Bars}
             at == {Index(d.stride, c) : c \in all}
             Top(c) == CHOOSE k \in 0 .. Bars : c \in LumaOf(k) /\ \A j \in 0 .. Bars : c \in LumaOf(j) => j <= k
             New(i) == IF Top(CHOOSE c \in all : Index(d.stride, c) = i) < Bars THEN Bar(Top(CHOOSE c \in all : Index(d.stride, c) = i)) ELSE Gradient
             f == [i \in DOMAIN d.data \cup at |-> IF i \in at THEN New(i) ELSE d.data[i]]
  <2>1. A = [d EXCEPT !.data = f]
    <3> HIDE DEF LumaOf
    <3> QED
      BY DEF Painted, Written
  <2>2. Fills(d, w)
    BY <1>1 DEF Refills
  <2> HIDE DEF New, at, d
  <2>3. f = [i \in DOMAIN f |-> f[i]]
    OBVIOUS
  <2> HIDE DEF f
  <2> QED
    BY <2>1, <2>2, <2>3 DEF Fills
<1>4. Loose(B, w \div 2)
  <2> DEFINE d == p.u
             all == UNION {ChromaOf(k) : k \in 0 .. Bars}
             at == {Index(d.stride, c) : c \in all}
             Top(c) == CHOOSE k \in 0 .. Bars : c \in ChromaOf(k) /\ \A j \in 0 .. Bars : c \in ChromaOf(j) => j <= k
             New(i) == IF Top(CHOOSE c \in all : Index(d.stride, c) = i) < Bars THEN Bar(Top(CHOOSE c \in all : Index(d.stride, c) = i)) ELSE Neutral
             f == [i \in DOMAIN d.data \cup at |-> IF i \in at THEN New(i) ELSE d.data[i]]
  <2>1. B = [d EXCEPT !.data = f]
    <3> HIDE DEF ChromaOf
    <3> QED
      BY DEF Painted, Written
  <2>2. Fills(d, w \div 2)
    BY <1>1 DEF Refills
  <2> HIDE DEF New, at, d
  <2>3. f = [i \in DOMAIN f |-> f[i]]
    OBVIOUS
  <2> HIDE DEF f
  <2> QED
    BY <2>1, <2>2, <2>3 DEF Fills
<1>5. Loose(C, w \div 2)
  <2> DEFINE d == p.v
             all == UNION {ChromaOf(k) : k \in 0 .. Bars}
             at == {Index(d.stride, c) : c \in all}
             Top(c) == CHOOSE k \in 0 .. Bars : c \in ChromaOf(k) /\ \A j \in 0 .. Bars : c \in ChromaOf(j) => j <= k
             New(i) == IF Top(CHOOSE c \in all : Index(d.stride, c) = i) < Bars THEN Bar(Top(CHOOSE c \in all : Index(d.stride, c) = i)) ELSE Neutral
             f == [i \in DOMAIN d.data \cup at |-> IF i \in at THEN New(i) ELSE d.data[i]]
  <2>1. C = [d EXCEPT !.data = f]
    <3> HIDE DEF ChromaOf
    <3> QED
      BY DEF Painted, Written
  <2>2. Fills(d, w \div 2)
    BY <1>1 DEF Refills
  <2> HIDE DEF New, at, d
  <2>3. f = [i \in DOMAIN f |-> f[i]]
    OBVIOUS
  <2> HIDE DEF f
  <2> QED
    BY <2>1, <2>2, <2>3 DEF Fills
<1> HIDE DEF A, B, C
<1>6. Sized([p EXCEPT !.y = A, !.u = B, !.v = C], w, h)
  BY <1>1, <1>3, <1>4, <1>5 DEF Refills
<1> QED
  BY <1>2, <1>6, Zenon

\* The squares, the two kinds of text, and the scene itself.
LEMMA SquaresShaped ==
    ASSUME NEW p, NEW w, NEW h, Sized(p, w, h), NEW sqs
    PROVE  Sized(DrawnSquares(p, sqs), w, h)
<1> DEFINE
           halfW == p.w \div 2
           halfH == p.h \div 2
           EndX(sq) == Least(sq.x + sq.size, p.w)
           EndY(sq) == Least(sq.y + sq.size, p.h)
           LumaOf(i) == Rect(sqs[i].x, EndX(sqs[i]), sqs[i].y, EndY(sqs[i]))
           Left(i) == Least(sqs[i].x \div 2, Minus(halfW, 1))
           Upper(i) == Least(sqs[i].y \div 2, Minus(halfH, 1))
           ChromaOf(i) == Rect(Left(i), Most(Least(EndX(sqs[i]) \div 2, halfW), Left(i) + 1),
                               Upper(i), Most(Least(EndY(sqs[i]) \div 2, halfH), Upper(i) + 1))
           Draw(d, Of(_), ground) == Painted(Filled(d, ground), DOMAIN sqs, Of, Square)
           A == Draw(p.y, LumaOf, Background)
           B == Draw(p.u, ChromaOf, Neutral)
           C == Draw(p.v, ChromaOf, Neutral)
<1>1. Refills(p, w, h)
  BY ShapedRefills
<1>2. DrawnSquares(p, sqs) = [p EXCEPT !.y = A, !.u = B, !.v = C]
  BY DEF DrawnSquares
<1>3. Loose(A, w)
  <2> DEFINE d == Filled(p.y, Background)
             all == UNION {LumaOf(k) : k \in DOMAIN sqs}
             at == {Index(d.stride, c) : c \in all}
             Top(c) == CHOOSE k \in DOMAIN sqs : c \in LumaOf(k) /\ \A j \in DOMAIN sqs : c \in LumaOf(j) => j <= k
             New(i) == Square(Top(CHOOSE c \in all : Index(d.stride, c) = i))
             f == [i \in DOMAIN d.data \cup at |-> IF i \in at THEN New(i) ELSE d.data[i]]
  <2>1. A = [d EXCEPT !.data = f]
    <3> HIDE DEF LumaOf
    <3> QED
      BY DEF Painted, Written
  <2>2. Fills(d, w)
    <3> DEFINE g == [i \in DOMAIN p.y.data |-> Background]
    <3>1. d = [p.y EXCEPT !.data = g] /\ g = [i \in DOMAIN g |-> g[i]]
      BY DEF Filled
    <3> HIDE DEF g, d
    <3>2. Loose(d, w)
      BY <1>1, <3>1 DEF Refills, Fills
    <3> QED
      BY <3>2, LooseReplaced
  <2> HIDE DEF New, at, d
  <2>3. f = [i \in DOMAIN f |-> f[i]]
    OBVIOUS
  <2> HIDE DEF f
  <2> QED
    BY <2>1, <2>2, <2>3 DEF Fills
<1>4. Loose(B, w \div 2)
  <2> DEFINE d == Filled(p.u, Neutral)
             all == UNION {ChromaOf(k) : k \in DOMAIN sqs}
             at == {Index(d.stride, c) : c \in all}
             Top(c) == CHOOSE k \in DOMAIN sqs : c \in ChromaOf(k) /\ \A j \in DOMAIN sqs : c \in ChromaOf(j) => j <= k
             New(i) == Square(Top(CHOOSE c \in all : Index(d.stride, c) = i))
             f == [i \in DOMAIN d.data \cup at |-> IF i \in at THEN New(i) ELSE d.data[i]]
  <2>1. B = [d EXCEPT !.data = f]
    <3> HIDE DEF ChromaOf
    <3> QED
      BY DEF Painted, Written
  <2>2. Fills(d, w \div 2)
    <3> DEFINE g == [i \in DOMAIN p.u.data |-> Neutral]
    <3>1. d = [p.u EXCEPT !.data = g] /\ g = [i \in DOMAIN g |-> g[i]]
      BY DEF Filled
    <3> HIDE DEF g, d
    <3>2. Loose(d, w \div 2)
      BY <1>1, <3>1 DEF Refills, Fills
    <3> QED
      BY <3>2, LooseReplaced
  <2> HIDE DEF New, at, d
  <2>3. f = [i \in DOMAIN f |-> f[i]]
    OBVIOUS
  <2> HIDE DEF f
  <2> QED
    BY <2>1, <2>2, <2>3 DEF Fills
<1>5. Loose(C, w \div 2)
  <2> DEFINE d == Filled(p.v, Neutral)
             all == UNION {ChromaOf(k) : k \in DOMAIN sqs}
             at == {Index(d.stride, c) : c \in all}
             Top(c) == CHOOSE k \in DOMAIN sqs : c \in ChromaOf(k) /\ \A j \in DOMAIN sqs : c \in ChromaOf(j) => j <= k
             New(i) == Square(Top(CHOOSE c \in all : Index(d.stride, c) = i))
             f == [i \in DOMAIN d.data \cup at |-> IF i \in at THEN New(i) ELSE d.data[i]]
  <2>1. C = [d EXCEPT !.data = f]
    <3> HIDE DEF ChromaOf
    <3> QED
      BY DEF Painted, Written
  <2>2. Fills(d, w \div 2)
    <3> DEFINE g == [i \in DOMAIN p.v.data |-> Neutral]
    <3>1. d = [p.v EXCEPT !.data = g] /\ g = [i \in DOMAIN g |-> g[i]]
      BY DEF Filled
    <3> HIDE DEF g, d
    <3>2. Loose(d, w \div 2)
      BY <1>1, <3>1 DEF Refills, Fills
    <3> QED
      BY <3>2, LooseReplaced
  <2> HIDE DEF New, at, d
  <2>3. f = [i \in DOMAIN f |-> f[i]]
    OBVIOUS
  <2> HIDE DEF f
  <2> QED
    BY <2>1, <2>2, <2>3 DEF Fills
<1> HIDE DEF A, B, C
<1>6. Sized([p EXCEPT !.y = A, !.u = B, !.v = C], w, h)
  BY <1>1, <1>3, <1>4, <1>5 DEF Refills
<1> QED
  BY <1>2, <1>6, Zenon

LEMMA OverlaidShaped ==
    ASSUME NEW p, NEW w, NEW h, Sized(p, w, h), NEW lines, NEW anchor, NEW scale
    PROVE  Sized(Overlaid(p, lines, anchor, scale), w, h)
<1> DEFINE
           longest == CHOOSE n \in {Len(lines[i]) : i \in DOMAIN lines} :
                         \A i \in DOMAIN lines : Len(lines[i]) <= n
           textW == longest * GlyphW * scale
           textH == Len(lines) * GlyphH * scale
           o == IF anchor.kind = "position" THEN anchor.at ELSE ResolvedAnchor(anchor, textH, p.w, p.h)
           endX == Least((o[1] + textW) \div 2, Most(p.w \div 2, 1))
           endY == Least((o[2] + textH) \div 2, Most(p.h \div 2, 1))
           Cleared(k) == Rect(Least(o[1] \div 2, Minus(endX, 1)), endX, Least(o[2] \div 2, Minus(endY, 1)), endY)
           Clear(d) == Painted(d, {0}, Cleared, LAMBDA k : Neutral)
           Line(i) == TextCells(lines[i], o[1], o[2] + (i - 1) * GlyphH * scale, scale, p.w, p.h)
           A == Painted(p.y, DOMAIN lines, Line, LAMBDA i : Text)
           B == Clear(p.u)
           C == Clear(p.v)
<1>1. Refills(p, w, h)
  BY ShapedRefills
<1>2. Overlaid(p, lines, anchor, scale) = [p EXCEPT !.y = A, !.u = B, !.v = C]
  BY DEF Overlaid
<1>3. Loose(A, w)
  <2> DEFINE d == p.y
             all == UNION {Line(k) : k \in DOMAIN lines}
             at == {Index(d.stride, c) : c \in all}
             Top(c) == CHOOSE k \in DOMAIN lines : c \in Line(k) /\ \A j \in DOMAIN lines : c \in Line(j) => j <= k
             New(i) == Text
             f == [i \in DOMAIN d.data \cup at |-> IF i \in at THEN New(i) ELSE d.data[i]]
  <2>1. A = [d EXCEPT !.data = f]
    <3> HIDE DEF Line
    <3> QED
      BY DEF Painted, Written
  <2>2. Fills(d, w)
    BY <1>1 DEF Refills
  <2> HIDE DEF New, at, d
  <2>3. f = [i \in DOMAIN f |-> f[i]]
    OBVIOUS
  <2> HIDE DEF f
  <2> QED
    BY <2>1, <2>2, <2>3 DEF Fills
<1>4. Loose(B, w \div 2)
  <2> DEFINE d == p.u
             all == UNION {Cleared(k) : k \in {0}}
             at == {Index(d.stride, c) : c \in all}
             Top(c) == CHOOSE k \in {0} : c \in Cleared(k) /\ \A j \in {0} : c \in Cleared(j) => j <= k
             New(i) == Neutral
             f == [i \in DOMAIN d.data \cup at |-> IF i \in at THEN New(i) ELSE d.data[i]]
  <2>1. B = [d EXCEPT !.data = f]
    <3> HIDE DEF Cleared
    <3> QED
      BY DEF Painted, Written
  <2>2. Fills(d, w \div 2)
    BY <1>1 DEF Refills
  <2> HIDE DEF New, at, d
  <2>3. f = [i \in DOMAIN f |-> f[i]]
    OBVIOUS
  <2> HIDE DEF f
  <2> QED
    BY <2>1, <2>2, <2>3 DEF Fills
<1>5. Loose(C, w \div 2)
  <2> DEFINE d == p.v
             all == UNION {Cleared(k) : k \in {0}}
             at == {Index(d.stride, c) : c \in all}
             Top(c) == CHOOSE k \in {0} : c \in Cleared(k) /\ \A j \in {0} : c \in Cleared(j) => j <= k
             New(i) == Neutral
             f == [i \in DOMAIN d.data \cup at |-> IF i \in at THEN New(i) ELSE d.data[i]]
  <2>1. C = [d EXCEPT !.data = f]
    <3> HIDE DEF Cleared
    <3> QED
      BY DEF Painted, Written
  <2>2. Fills(d, w \div 2)
    BY <1>1 DEF Refills
  <2> HIDE DEF New, at, d
  <2>3. f = [i \in DOMAIN f |-> f[i]]
    OBVIOUS
  <2> HIDE DEF f
  <2> QED
    BY <2>1, <2>2, <2>3 DEF Fills
<1> HIDE DEF A, B, C
<1>6. Sized([p EXCEPT !.y = A, !.u = B, !.v = C], w, h)
  BY <1>1, <1>3, <1>4, <1>5 DEF Refills
<1> QED
  BY <1>2, <1>6, Zenon

LEMMA BurnedShaped ==
    ASSUME NEW p, NEW w, NEW h, Sized(p, w, h), NEW line, NEW anchor, NEW scale, NEW fill
    PROVE  Sized(Burned(p, line, anchor, scale, fill), w, h)
<1> DEFINE o == ResolvedAnchor(anchor, GlyphH * scale, p.w, p.h)
           ground == IF fill THEN Rect(o[1], Least(o[1] + Len(line) * GlyphW * scale, p.w),
                                       o[2], Least(o[2] + GlyphH * scale, p.h)) ELSE {}
           Layer(k) == IF k = 0 THEN ground ELSE TextCells(line, o[1], o[2], scale, p.w, p.h)
           A == Painted(p.y, {0, 1}, Layer, LAMBDA k : Label)
<1>1. Refills(p, w, h)
  BY ShapedRefills
<1>2. Burned(p, line, anchor, scale, fill) = [p EXCEPT !.y = A]
  BY DEF Burned
<1>3. Loose(A, w)
  <2> DEFINE d == p.y
             all == UNION {Layer(k) : k \in {0, 1}}
             at == {Index(d.stride, c) : c \in all}
             Top(c) == CHOOSE k \in {0, 1} : c \in Layer(k) /\ \A j \in {0, 1} : c \in Layer(j) => j <= k
             New(i) == Label
             f == [i \in DOMAIN d.data \cup at |-> IF i \in at THEN New(i) ELSE d.data[i]]
  <2>1. A = [d EXCEPT !.data = f]
    <3> HIDE DEF Layer
    <3> QED
      BY DEF Painted, Written
  <2>2. Fills(d, w)
    BY <1>1 DEF Refills
  <2> HIDE DEF New, at, d
  <2>3. f = [i \in DOMAIN f |-> f[i]]
    OBVIOUS
  <2> HIDE DEF f
  <2> QED
    BY <2>1, <2>2, <2>3 DEF Fills
<1> HIDE DEF A
<1>4. Sized([p EXCEPT !.y = A], w, h)
  <2> DEFINE y == p.y
             u == p.u
             v == p.v
             r == [p EXCEPT !.y = A]
  <2>1. p = [w |-> w, h |-> h, y |-> y, u |-> u, v |-> v]
    BY DEF Sized, Shaped
  <2>2. Loose(u, w \div 2) /\ Loose(v, w \div 2) /\ w \in Nat /\ h \in Nat
    BY DEF Sized, Shaped
  <2> HIDE DEF y, u, v
  <2>3. r = [w |-> w, h |-> h, y |-> A, u |-> u, v |-> v]
    BY <2>1
  <2> HIDE DEF r
  <2>4. r.w = w /\ r.h = h /\ r.y = A /\ r.u = u /\ r.v = v
    BY <2>3
  <2>5. Sized(r, w, h)
    BY <1>3, <2>2, <2>3, <2>4 DEF Sized, Shaped
  <2> QED
    BY <2>5 DEF r
<1> QED
  BY <1>2, <1>4, Zenon

LEMMA SceneShaped ==
    ASSUME NEW w \in Nat, NEW h \in Nat
    PROVE  Sized(SceneI420(w, h), w, h)
<1> DEFINE s == SceneI420(w, h)
           y == [i \in 0 .. w * h - 1 |-> {Point(w, i)}]
           u == [i \in 0 .. (w \div 2) * (h \div 2) - 1 |-> Block(i % (w \div 2), i \div (w \div 2))]
<1>1. s = [w |-> w, h |-> h, y |-> [stride |-> w, data |-> y],
           u |-> [stride |-> w \div 2, data |-> u], v |-> [stride |-> w \div 2, data |-> u]]
  BY DEF SceneI420, Luma, Plane
<1>2. y = [i \in DOMAIN y |-> y[i]] /\ u = [i \in DOMAIN u |-> u[i]]
  OBVIOUS
<1> HIDE DEF s, y, u
<1>3. /\ s.w = w /\ s.h = h
      /\ s.y = [stride |-> w, data |-> y] /\ s.u = [stride |-> w \div 2, data |-> u]
      /\ s.v = [stride |-> w \div 2, data |-> u]
  BY <1>1
<1>4. Loose(s.y, w) /\ Loose(s.u, w \div 2) /\ Loose(s.v, w \div 2)
  BY <1>2, <1>3 DEF Loose
<1>5. Sized(s, w, h)
  BY <1>1, <1>3, <1>4 DEF Sized, Shaped
<1> QED
  BY <1>5 DEF s

-----------------------------------------------------------------------------
(* Workbench: the transforms of the backend in use. *)

\* A received buffer has the size of what was sent.
LEMMA ConvertedShaped ==
    ASSUME NEW fmt \in Formats, NEW w \in Nat, NEW h \in Nat
    PROVE  Sized(Converted(fmt, w, h), w, h)
<1>1. CASE fmt = "I420"
  BY <1>1, SceneShaped DEF Converted
<1>2. CASE fmt = "I422"
  <2> DEFINE s == SceneI422(w, h)
  <2>1. s.w = w /\ s.h = h
    BY DEF SceneI422
  <2>2. Converted(fmt, w, h) = I422ToI420(s)
    BY <1>2 DEF Converted
  <2> HIDE DEF s
  <2> QED
    BY <2>1, <2>2, I422Shaped
<1>3. CASE fmt = "I444"
  <2> DEFINE s == SceneI444(w, h)
  <2>1. s.w = w /\ s.h = h
    BY DEF SceneI444
  <2>2. Converted(fmt, w, h) = I444ToI420(s)
    BY <1>3 DEF Converted
  <2> HIDE DEF s
  <2> QED
    BY <2>1, <2>2, I444Shaped
<1>4. CASE fmt = "NV12"
  <2> DEFINE s == SceneNV12(w, h)
  <2>1. s.w = w /\ s.h = h
    BY DEF SceneNV12
  <2>2. Converted(fmt, w, h) = NV12BufferToI420(s)
    BY <1>4 DEF Converted
  <2> HIDE DEF s
  <2> QED
    BY <2>1, <2>2, NV12BufferShaped
<1>5. CASE fmt = "I010"
  <2> DEFINE s == SceneI010(w, h)
  <2>1. s.w = w /\ s.h = h
    BY DEF SceneI010, SceneI420
  <2>2. Converted(fmt, w, h) = I010ToI420(s)
    BY <1>5 DEF Converted
  <2> HIDE DEF s
  <2> QED
    BY <2>1, <2>2, I010Shaped
<1>6. CASE fmt = "ARGB"
  <2>1. Converted(fmt, w, h) = FromARGB(SceneARGB(w, h), w, h)
    BY <1>6 DEF Converted
  <2> QED
    BY <2>1, ARGBShaped, LibyuvARGBShaped DEF FromARGB
<1> QED
  BY <1>1, <1>2, <1>3, <1>4, <1>5, <1>6 DEF Formats

\* Whatever the backend, a transform's result has the sides asked for.
LEMMA EditedShaped ==
    ASSUME NEW p, Shaped(p)
    PROVE  /\ \A w, h \in Nat : Sized(ScaledTo(p, w, h), w, h) /\ Sized(BufferScale(p, w, h), w, h)
           /\ Sized(Mirrored(p), p.w, p.h)
           /\ \A x, y : \A w, h \in Nat : Sized(Cropped(p, x, y, w, h), w, h)
           /\ \A rot \in {0, 90, 180, 270} :
                 Sized(Rotated(p, rot), TurnedW(p.w, p.h, rot), TurnedH(p.w, p.h, rot))
           /\ Sized(NV12RoundTrip(p), p.w, p.h)
<1>1. p.w \in Nat /\ p.h \in Nat
  BY DEF Shaped
<1>2. \A w, h \in Nat : Sized(ScaledTo(p, w, h), w, h) /\ Sized(BufferScale(p, w, h), w, h)
  BY ScaleShaped, LibyuvScaleShaped DEF ScaledTo, BufferScale
<1>3. Sized(Mirrored(p), p.w, p.h)
  BY <1>1, MirrorShaped, LibyuvMirrorShaped DEF Mirrored
<1>4. \A x, y : \A w, h \in Nat : Sized(Cropped(p, x, y, w, h), w, h)
  BY CropShaped, LibyuvCropShaped DEF Cropped
<1>5. \A rot \in {0, 90, 180, 270} :
         Sized(Rotated(p, rot), TurnedW(p.w, p.h, rot), TurnedH(p.w, p.h, rot))
  BY <1>1, RotateShaped, LibyuvRotateShaped DEF Rotated
<1>6. Sized(NV12RoundTrip(p), p.w, p.h)
  <2> DEFINE a == I420ToNV12(p)
             b == LibyuvI420ToNV12(p)
  <2>1. a.w = p.w /\ a.h = p.h /\ b.w = p.w /\ b.h = p.h
    BY DEF I420ToNV12, LibyuvI420ToNV12
  <2>2. NV12RoundTrip(p) = IF backend = "native" THEN NV12ToI420(a) ELSE LibyuvNV12ToI420(b)
    BY DEF NV12RoundTrip
  <2> HIDE DEF a, b
  <2> QED
    BY <1>1, <2>1, <2>2, NV12Shaped, LibyuvNV12Shaped
<1> QED
  BY <1>2, <1>3, <1>4, <1>5, <1>6

\* Of an even picture libyuv's loops are the native ones.
LEMMA BackendsAgree ==
    ASSUME NEW p, Framed(p), backend = "native" \/ Even(p), backend \in {"native", "libyuv"}
    PROVE  /\ Mirrored(p) = Mirror(p) /\ \A rot \in Turns : Rotated(p, rot) = Rotate(p, rot)
           /\ NV12RoundTrip(p) = p
<1>1. Mirrored(p) = Mirror(p)
  BY MirrorByPlane DEF Mirrored
<1>2. ASSUME NEW rot \in Turns PROVE Rotated(p, rot) = Rotate(p, rot)
  BY RotateByPlane DEF Rotated
<1>3. NV12RoundTrip(p) = p
  BY NativeRoundTrip, LibyuvRoundTrip DEF NV12RoundTrip
<1> QED
  BY <1>1, <1>2, <1>3

\* The transforms of the backend in use undo each other on such a picture.
LEMMA FramedUndo ==
    ASSUME Framed(pic), backend = "native" \/ Even(pic), backend \in {"native", "libyuv"}
    PROVE  /\ Mirrored(Mirrored(pic)) = pic
           /\ Rotated(Rotated(pic, 90), 270) = pic
           /\ Rotated(Rotated(pic, 90), 90) = Rotated(pic, 180)
           /\ Mirrored(Rotated(Mirrored(pic), 180)) = Rotated(pic, 180)
           /\ NV12RoundTrip(pic) = pic
           /\ LibyuvCrop(pic, 0, 0, pic.w, pic.h) = Crop(pic, 0, 0, pic.w, pic.h)
<1> DEFINE Apt(p) == Framed(p) /\ (backend = "native" \/ Even(p))
           m == Mirror(pic)
           r == Rotate(pic, 90)
           t == Rotate(m, 180)
<1>1. 90 \in Turns /\ 180 \in Turns /\ 270 \in Turns
  BY DEF Turns
<1>2. Apt(m)
  BY MirrorPlanes DEF Even
<1>3. Apt(r)
  BY <1>1, RotatePlanes DEF Even, TurnedW, TurnedH
<1> HIDE DEF m, r
<1>4. Apt(t)
  <2>1. Framed(t) /\ t.w = TurnedW(m.w, m.h, 180) /\ t.h = TurnedH(m.w, m.h, 180)
    BY <1>1, <1>2, RotatePlanes
  <2>2. TurnedW(m.w, m.h, 180) = m.w /\ TurnedH(m.w, m.h, 180) = m.h
    BY DEF TurnedW, TurnedH
  <2> QED
    BY <1>2, <2>1, <2>2 DEF Even
<1> HIDE DEF t
<1>5. Mirrored(pic) = m /\ Rotated(pic, 90) = r /\ Rotated(pic, 180) = Rotate(pic, 180) /\ NV12RoundTrip(pic) = pic
  BY <1>1, BackendsAgree DEF m, r
<1>6. Mirrored(m) = Mirror(m) /\ Rotated(m, 180) = t
  BY <1>1, <1>2, BackendsAgree DEF t
<1>7. Rotated(r, 270) = Rotate(r, 270) /\ Rotated(r, 90) = Rotate(r, 90)
  BY <1>1, <1>3, BackendsAgree
<1>8. Mirrored(t) = Mirror(t)
  BY <1>4, BackendsAgree
<1>9. Mirror(m) = pic
  BY MirrorTwice DEF m
<1>10. Rotate(r, 270) = pic /\ Rotate(r, 90) = Rotate(pic, 180)
  BY TurnsUndo DEF r
<1>11. Mirror(t) = Rotate(pic, 180)
  BY MirrorTurnMirror DEF t, m
<1>12. LibyuvCrop(pic, 0, 0, pic.w, pic.h) = Crop(pic, 0, 0, pic.w, pic.h)
  BY WholeCrop
<1> QED
  BY <1>5, <1>6, <1>7, <1>8, <1>9, <1>10, <1>11, <1>12

-----------------------------------------------------------------------------
(* Workbench: the transforms undo each other. *)

\* A picture in hand has the shape of one whatever has been written to it, and
\* is one while the program lives; only the library is built with libyuv, and
\* there nothing odd has been in hand unless it was noted.
WorkInv ==
    /\ backend \in {"native", "libyuv"}
    /\ app # "library" => backend = "native"
    /\ Shaped(pic) /\ Shaped(orig)
    /\ ~dead => WellFormed(pic)
    /\ backend = "libyuv" /\ "odd" \notin past => Even(pic)

\* What is not noted as odd is even.
LEMMA NotOdd ==
    ASSUME NEW w, NEW h, "odd" \notin Odd(w, h)
    PROVE  w % 2 = 0 /\ h % 2 = 0
BY DEF Odd, OddIf

\* A new picture keeps the invariant.
LEMMA MadeKeeps ==
    ASSUME NEW p, NEW event, WorkInv, Shaped(p), Made(p, event)
    PROVE  WorkInv'
<1>1. "odd" \notin past' => Even(p)
  BY NotOdd DEF Made, Even, Sides
<1> QED
  BY <1>1 DEF Made, WorkInv

\* A transform keeps the picture even unless it says otherwise.
LEMMA EditedKeeps ==
    ASSUME NEW p, NEW event, WorkInv, Shaped(p), Edited(p, event),
           backend = "libyuv" /\ "odd" \notin past \cup event => Even(p)
    PROVE  WorkInv'
BY DEF Edited, WorkInv

\* Every button of the viewer yields a picture.
LEMMA PressedShaped ==
    ASSUME NEW p, Shaped(p), NEW b \in ViewerButtons
    PROVE  Shaped(Pressed(b, p))
<1>1. \A q : Shaped(q) => /\ q.w \in Nat /\ q.h \in Nat /\ q.w \div 2 \in Nat /\ q.h \div 2 \in Nat
                          /\ q.w \div 4 \in Nat /\ q.h \div 4 \in Nat
  BY DEF Shaped
<1>2. \A q : Shaped(q) => Shaped(Half(q)) /\ Shaped(Quarter(q))
  <2> SUFFICES ASSUME NEW q, Shaped(q) PROVE Shaped(Half(q)) /\ Shaped(Quarter(q))
    OBVIOUS
  <2>1. \A w, h \in Nat : Sized(ScaledTo(q, w, h), w, h)
    BY EditedShaped
  <2>2. \A w, h \in Nat : Shaped(ScaledTo(q, w, h))
    BY <2>1 DEF Sized
  <2> QED
    BY <1>1, <2>2 DEF Half, Quarter
<1>3. \A q : \A w, h \in Nat : Shaped(q) => Shaped(CentreCrop(q, w, h))
  BY EditedShaped DEF CentreCrop, Sized
<1>4. \A q : \A rot \in {0, 90, 180, 270} : Shaped(q) => Shaped(Rotated(q, rot))
  BY EditedShaped DEF Sized
<1>5. Shaped(NV12RoundTrip(p))
  BY EditedShaped DEF Sized
<1>6. CASE b = "original"
  BY <1>6 DEF Pressed
<1>7. CASE b = "nv12"
  BY <1>5, <1>7 DEF Pressed
<1>8. CASE b \in {"50%", "25%"}
  BY <1>2, <1>8 DEF Pressed
<1>9. CASE b = "crop"
  <2>1. Pressed(b, p) = CentreCrop(p, p.w \div 2, p.h \div 2)
    BY <1>9 DEF Pressed
  <2> QED
    BY <1>1, <1>3, <2>1
<1>10. CASE b \in {"90", "180", "270"}
  <2>1. b = "90" => Pressed(b, p) = Rotated(p, 90)
    BY DEF Pressed
  <2>2. b = "180" => Pressed(b, p) = Rotated(p, 180)
    BY DEF Pressed
  <2>3. b = "270" => Pressed(b, p) = Rotated(p, 270)
    BY DEF Pressed
  <2> QED
    BY <1>4, <1>10, <2>1, <2>2, <2>3
<1>11. CASE b = "scale crop"
  <2>1. Shaped(Half(p))
    BY <1>2
  <2> DEFINE half == Half(p)
  <2>2. Pressed(b, p) = CentreCrop(half, half.w \div 2, half.h \div 2)
    BY <1>11 DEF Pressed
  <2> HIDE DEF half
  <2> QED
    BY <1>1, <1>3, <2>1, <2>2 DEF half
<1>12. CASE b = "rotate scale"
  <2>1. Pressed(b, p) = Half(Rotated(p, 90))
    BY <1>12 DEF Pressed
  <2> QED
    BY <1>2, <1>4, <2>1
<1> QED
  BY <1>6, <1>7, <1>8, <1>9, <1>10, <1>11, <1>12 DEF ViewerButtons

\* The invariant holds from the start and is kept by every action.
LEMMA WorkInvInit ==
    ASSUME WorkInit
    PROVE  WorkInv
<1> DEFINE n == I420New(0, 0)
<1>1. Shaped(n)
  BY NewRefills DEF Sized
<1>2. Framed(n) /\ n.w = 0 /\ n.h = 0
  BY NewIsFramed DEF I420New
<1>3. WellFormed(n)
  <2>1. \A k \in {"y", "u", "v"} : \A i \in DOMAIN n[k].data : Nowhere \notin n[k].data[i]
    <3>1. n["y"] = BlankPlane(0, 0 * 0) /\ n["u"] = BlankPlane(0 \div 2, (0 \div 2) * (0 \div 2)) /\ n["v"] = n["u"]
      BY DEF I420New
    <3>2. \A s, l : \A i \in DOMAIN BlankPlane(s, l).data : BlankPlane(s, l).data[i] = {}
      BY DEF BlankPlane, Plane, Blank
    <3> QED
      BY <3>1, <3>2
  <2> QED
    BY <1>2, <2>1 DEF WellFormed
<1>4. Even(n)
  BY <1>2 DEF Even
<1> HIDE DEF n
<1>5. pic = n /\ orig = n
  BY DEF WorkInit, n
<1> QED
  BY <1>1, <1>3, <1>4, <1>5 DEF WorkInit, WorkInv

LEMMA WorkInvNext ==
    ASSUME WorkInv, [WorkNext]_workVars
    PROVE  WorkInv'
<1>0. /\ \A s \in Sizes \cup Images \cup {Fallback, Window, FrameSize} : s[1] \in Nat /\ s[2] \in Nat
  BY SizesAreNat
<1>1. Shaped(pic) /\ pic.w \in Nat /\ pic.h \in Nat
  BY DEF WorkInv, Shaped
<1>2. ASSUME Receive PROVE WorkInv'
  BY <1>0, <1>2, ConvertedShaped, MadeKeeps DEF Receive, Sized
<1>3. ASSUME PaintBars PROVE WorkInv'
  <2>1. PICK s \in Sizes : Made(SmpteBars(I420New(s[1], s[2])), ThinIf(s[1] < Bars))
    BY <1>3 DEF PaintBars
  <2>2. Sized(I420New(s[1], s[2]), s[1], s[2])
    BY <1>0, NewRefills
  <2>3. Sized(SmpteBars(I420New(s[1], s[2])), s[1], s[2])
    BY <2>2, BarsShaped
  <2> QED
    BY <2>1, <2>3, MadeKeeps DEF Sized
<1>4. ASSUME NewSquares PROVE WorkInv'
  BY <1>4 DEF NewSquares, WorkInv
<1>5. ASSUME PaintSquares PROVE WorkInv'
  <2> DEFINE n == I420New(FrameSize[1], FrameSize[2])
  <2>1. Sized(n, FrameSize[1], FrameSize[2])
    BY <1>0, NewRefills
  <2>2. pic' = DrawnSquares(n, squares') /\ dead' = ~WellFormed(pic')
    BY <1>5 DEF PaintSquares
  <2> HIDE DEF n
  <2>3. Shaped(pic')
    BY <2>1, <2>2, SquaresShaped DEF Sized
  <2>4. backend = "native" /\ UNCHANGED <<backend, app, orig>>
    BY <1>5 DEF PaintSquares, WorkInv
  <2> QED
    BY <2>2, <2>3, <2>4 DEF WorkInv
<1>6. ASSUME EditScale PROVE WorkInv'
  <2>1. PICK s \in Sizes, m \in {"backend", "buffer"} :
           Edited(IF m = "backend" THEN ScaledTo(pic, s[1], s[2]) ELSE BufferScale(pic, s[1], s[2]),
                  Sides(s[1], s[2]) \cup ScaledOnce)
    BY <1>6 DEF EditScale
  <2> DEFINE p == IF m = "backend" THEN ScaledTo(pic, s[1], s[2]) ELSE BufferScale(pic, s[1], s[2])
  <2>2. Sized(p, s[1], s[2])
    BY <1>0, <1>1, EditedShaped
  <2> HIDE DEF p
  <2>3. "odd" \notin past \cup (Sides(s[1], s[2]) \cup ScaledOnce) => Even(p)
    BY <2>2, NotOdd DEF Sized, Even, Sides
  <2>4. Edited(p, Sides(s[1], s[2]) \cup ScaledOnce)
    BY <2>1 DEF p
  <2> QED
    BY <2>2, <2>3, <2>4, EditedKeeps DEF Sized
<1>7. ASSUME EditMirror PROVE WorkInv'
  <2>1. Edited(Mirrored(pic), {}) /\ Sized(Mirrored(pic), pic.w, pic.h)
    BY <1>1, <1>7, EditedShaped DEF EditMirror
  <2>2. backend = "libyuv" /\ "odd" \notin past \cup {} => Even(Mirrored(pic))
    BY <2>1 DEF WorkInv, Sized, Even
  <2> QED
    BY <2>1, <2>2, EditedKeeps DEF Sized
<1>8. ASSUME EditRotate PROVE WorkInv'
  <2>1. PICK rot \in {0, 90, 180, 270} : Edited(Rotated(pic, rot), {})
    BY <1>8 DEF EditRotate
  <2>2. Sized(Rotated(pic, rot), TurnedW(pic.w, pic.h, rot), TurnedH(pic.w, pic.h, rot))
    BY <1>1, EditedShaped
  <2>3. backend = "libyuv" /\ "odd" \notin past \cup {} => Even(Rotated(pic, rot))
    BY <2>2 DEF WorkInv, Sized, Even, TurnedW, TurnedH
  <2> QED
    BY <2>1, <2>2, <2>3, EditedKeeps DEF Sized
<1>9. ASSUME EditNV12 PROVE WorkInv'
  <2>1. Edited(NV12RoundTrip(pic), {}) /\ Sized(NV12RoundTrip(pic), pic.w, pic.h)
    BY <1>1, <1>9, EditedShaped DEF EditNV12
  <2>2. backend = "libyuv" /\ "odd" \notin past \cup {} => Even(NV12RoundTrip(pic))
    BY <2>1 DEF WorkInv, Sized, Even
  <2> QED
    BY <2>1, <2>2, EditedKeeps DEF Sized
<1>10. ASSUME EditCrop PROVE WorkInv'
  <2>1. PICK s \in Sizes, x \in 0 .. 2, y \in 0 .. 1 :
           Edited(Cropped(pic, x, y, s[1], s[2]), Sides(s[1], s[2]) \cup Odd(x, y))
    BY <1>10 DEF EditCrop
  <2>2. Sized(Cropped(pic, x, y, s[1], s[2]), s[1], s[2])
    BY <1>0, <1>1, EditedShaped
  <2>3. "odd" \notin past \cup (Sides(s[1], s[2]) \cup Odd(x, y)) => Even(Cropped(pic, x, y, s[1], s[2]))
    BY <2>2, NotOdd DEF Sized, Even, Sides
  <2> QED
    BY <2>1, <2>2, <2>3, EditedKeeps DEF Sized
<1>11. ASSUME EditStamp PROVE WorkInv'
  <2>1. PICK lines \in Lines, a \in Anchors, z \in Scales :
           Edited(Overlaid(pic, lines, a, z), {"stamped"} \cup Odd(a.at[1], a.at[2]))
    BY <1>11 DEF EditStamp
  <2>2. Sized(Overlaid(pic, lines, a, z), pic.w, pic.h)
    BY <1>1, OverlaidShaped DEF Sized
  <2>3. backend = "libyuv" /\ "odd" \notin past \cup ({"stamped"} \cup Odd(a.at[1], a.at[2]))
           => Even(Overlaid(pic, lines, a, z))
    BY <2>2 DEF WorkInv, Sized, Even
  <2> QED
    BY <2>1, <2>2, <2>3, EditedKeeps DEF Sized
<1>12. ASSUME EditLabel PROVE WorkInv'
  <2>1. PICK lines \in Lines, a \in Anchors, z \in Scales, fill \in BOOLEAN :
           Edited(Burned(pic, lines[1], a, z, fill), {})
    BY <1>12 DEF EditLabel
  <2>2. Sized(Burned(pic, lines[1], a, z, fill), pic.w, pic.h)
    BY <1>1, BurnedShaped DEF Sized
  <2>3. backend = "libyuv" /\ "odd" \notin past \cup {} => Even(Burned(pic, lines[1], a, z, fill))
    BY <2>2 DEF WorkInv, Sized, Even
  <2> QED
    BY <2>1, <2>2, <2>3, EditedKeeps DEF Sized
<1>13. ASSUME Load PROVE WorkInv'
  <2>1. PICK s \in Images \cup {Fallback} :
          LET p == IF s = Fallback THEN SceneI420(s[1], s[2]) ELSE FromARGB(SceneARGB(s[1], s[2]), s[1], s[2])
          IN  /\ orig' = p /\ pic' = p
              /\ past' = OddIf(s[1] % 8 # 0 \/ s[2] % 8 # 0)
              /\ dead' = ~VariantsOK(p)
    BY <1>13 DEF Load
  <2> DEFINE p == IF s = Fallback THEN SceneI420(s[1], s[2]) ELSE FromARGB(SceneARGB(s[1], s[2]), s[1], s[2])
  <2>2. Sized(p, s[1], s[2])
    BY <1>0, SceneShaped, ARGBShaped, LibyuvARGBShaped DEF FromARGB
  <2>3. orig' = p /\ pic' = p /\ dead' = ~VariantsOK(p)
    BY <2>1
  <2> HIDE DEF p
  <2>4. VariantsOK(p) => WellFormed(p)
    <3>1. Pressed("original", p) = p /\ "original" \in ViewerButtons \ {"crop"}
      BY DEF Pressed, ViewerButtons
    <3>2. p \in Variants(p)
      BY <3>1 DEF Variants
    <3> QED
      BY <3>2 DEF VariantsOK, Showable
  <2>5. backend = "native" /\ UNCHANGED <<backend, app>>
    BY <1>13 DEF Load, WorkInv
  <2> QED
    BY <2>2, <2>3, <2>4, <2>5 DEF WorkInv, Sized
<1>14. ASSUME Press PROVE WorkInv'
  <2>1. PICK b \in ViewerButtons : pic' = Pressed(b, orig) /\ dead' = ~Showable(Pressed(b, orig))
    BY <1>14 DEF Press
  <2>2. Shaped(Pressed(b, orig))
    BY PressedShaped DEF WorkInv
  <2>3. backend = "native" /\ UNCHANGED <<backend, app, orig>>
    BY <1>14 DEF Press, WorkInv
  <2>4. ~dead' => WellFormed(pic')
    BY <2>1 DEF Showable
  <2> QED
    BY <2>1, <2>2, <2>3, <2>4 DEF WorkInv
<1>15. ASSUME PickThumb PROVE WorkInv'
  BY <1>15 DEF PickThumb, WorkInv
<1>16. CASE UNCHANGED workVars
  BY <1>16 DEF workVars, WorkInv
<1> QED
  BY <1>2, <1>3, <1>4, <1>5, <1>6, <1>7, <1>8, <1>9, <1>10, <1>11, <1>12, <1>13, <1>14, <1>15, <1>16 DEF WorkNext

\* Whatever conversions, patterns, overlays and transforms a picture has been
\* through, those of the backend in use undo each other on it.
THEOREM TransformsUndo == WorkSpec => []TransformsUndoEachOther
<1>1. WorkInit => WorkInv
  BY WorkInvInit
<1>2. WorkInv /\ [WorkNext]_workVars => WorkInv'
  BY WorkInvNext
<1>3. WorkInv => TransformsUndoEachOther
  <2> SUFFICES ASSUME WorkInv, ~dead, "odd" \notin past
               PROVE  /\ Mirrored(Mirrored(pic)) = pic
                      /\ Rotated(Rotated(pic, 90), 270) = pic
                      /\ Rotated(Rotated(pic, 90), 90) = Rotated(pic, 180)
                      /\ Mirrored(Rotated(Mirrored(pic), 180)) = Rotated(pic, 180)
                      /\ NV12RoundTrip(pic) = pic
                      /\ LibyuvCrop(pic, 0, 0, pic.w, pic.h) = Crop(pic, 0, 0, pic.w, pic.h)
    BY DEF TransformsUndoEachOther
  <2>1. Framed(pic)
    BY ShapedIsFramed DEF WorkInv
  <2>2. backend \in {"native", "libyuv"} /\ (backend = "native" \/ Even(pic))
    BY DEF WorkInv
  <2> QED
    BY <2>1, <2>2, FramedUndo
<1> QED
  BY <1>1, <1>2, <1>3, PTL DEF WorkSpec

-----------------------------------------------------------------------------
(* Workbench: what every loop reads and writes. *)

\* A plane and a picture that no loop has left: every place is one of its own
\* and none shows what is outside.
PlaneIn(p, w, h) == PlaneOK(p, w, h) /\ \A i \in 0 .. w * h - 1 : Nowhere \notin p.data[i]
Whole(p, w, h) ==
    /\ p = [w |-> w, h |-> h, y |-> p.y, u |-> p.u, v |-> p.v]
    /\ w \in Nat /\ h \in Nat
    /\ PlaneIn(p.y, w, h) /\ PlaneIn(p.u, w \div 2, h \div 2) /\ PlaneIn(p.v, w \div 2, h \div 2)

\* That is what WellFormed says of a picture.
LEMMA WholeIsWellFormed ==
    ASSUME NEW p, NEW w, NEW h, Whole(p, w, h)
    PROVE  /\ WellFormed(p) /\ Framed(p) /\ Shaped(p) /\ p.w = w /\ p.h = h
<1> DEFINE n == I420New(w, h)
<1>1. /\ w \in Nat /\ h \in Nat /\ w \div 2 \in Nat /\ h \div 2 \in Nat /\ p.w = w /\ p.h = h
      /\ PlaneIn(p.y, w, h) /\ PlaneIn(p.u, w \div 2, h \div 2) /\ PlaneIn(p.v, w \div 2, h \div 2)
  BY DEF Whole
<1>2. PlaneOK(n.y, w, h) /\ PlaneOK(n.u, w \div 2, h \div 2) /\ PlaneOK(n.v, w \div 2, h \div 2)
  BY <1>1, PlanesOfNew
<1>3. p["y"] = p.y /\ p["u"] = p.u /\ p["v"] = p.v /\ n["y"] = n.y /\ n["u"] = n.u /\ n["v"] = n.v
  OBVIOUS
<1>4. Framed(p)
  BY <1>1 DEF Whole, Framed, PlaneIn
<1>5. Shaped(p)
  BY <1>4 DEF Framed, Shaped, PlaneOK, Loose
<1> HIDE DEF n
<1>6. DOMAIN p.y.data = DOMAIN n.y.data /\ DOMAIN p.u.data = DOMAIN n.u.data /\ DOMAIN p.v.data = DOMAIN n.v.data
  BY <1>1, <1>2 DEF PlaneIn, PlaneOK
<1>7. /\ \A i \in DOMAIN p.y.data : Nowhere \notin p.y.data[i]
      /\ \A i \in DOMAIN p.u.data : Nowhere \notin p.u.data[i]
      /\ \A i \in DOMAIN p.v.data : Nowhere \notin p.v.data[i]
  BY <1>1 DEF PlaneIn, PlaneOK
<1>8. \A k \in {"y", "u", "v"} : \A i \in DOMAIN p[k].data : Nowhere \notin p[k].data[i]
  BY <1>3, <1>7
<1>9. \A k \in {"y", "u", "v"} : DOMAIN p[k].data = DOMAIN n[k].data
  BY <1>3, <1>6
<1>10. WellFormed(p)
  BY <1>1, <1>8, <1>9 DEF WellFormed, n
<1> QED
  BY <1>1, <1>4, <1>5, <1>10

LEMMA WellFormedIsWhole ==
    ASSUME NEW p, Shaped(p), WellFormed(p)
    PROVE  Whole(p, p.w, p.h)
<1>1. Framed(p)
  BY ShapedIsFramed
<1>2. p["y"] = p.y /\ p["u"] = p.u /\ p["v"] = p.v
  OBVIOUS
<1>3. \A k \in {"y", "u", "v"} : \A i \in DOMAIN p[k].data : Nowhere \notin p[k].data[i]
  BY DEF WellFormed
<1>4. /\ \A i \in DOMAIN p.y.data : Nowhere \notin p.y.data[i]
      /\ \A i \in DOMAIN p.u.data : Nowhere \notin p.u.data[i]
      /\ \A i \in DOMAIN p.v.data : Nowhere \notin p.v.data[i]
  BY <1>2, <1>3
<1>5. PlaneIn(p.y, p.w, p.h)
  BY <1>1, <1>4 DEF Framed, PlaneIn, PlaneOK
<1>6. PlaneIn(p.u, p.w \div 2, p.h \div 2)
  BY <1>1, <1>4 DEF Framed, PlaneIn, PlaneOK
<1>7. PlaneIn(p.v, p.w \div 2, p.h \div 2)
  BY <1>1, <1>4 DEF Framed, PlaneIn, PlaneOK
<1> QED
  BY <1>1, <1>5, <1>6, <1>7 DEF Whole, Framed

\* New planes make a new picture, and new pictures are whole.
LEMMA WholeReplaced ==
    ASSUME NEW p, NEW w, NEW h, Whole(p, w, h), NEW a, NEW b, NEW c,
           PlaneIn(a, w, h), PlaneIn(b, w \div 2, h \div 2), PlaneIn(c, w \div 2, h \div 2)
    PROVE  Whole([p EXCEPT !.y = a, !.u = b, !.v = c], w, h)
<1> DEFINE r == [p EXCEPT !.y = a, !.u = b, !.v = c]
<1>1. Framed(p) /\ p.w = w /\ p.h = h /\ w \in Nat /\ h \in Nat
  BY WholeIsWellFormed DEF Whole
<1>2. r = [w |-> p.w, h |-> p.h, y |-> a, u |-> b, v |-> c]
  BY <1>1, Replaced, Zenon
<1>3. r = [w |-> w, h |-> h, y |-> a, u |-> b, v |-> c]
  BY <1>1, <1>2
<1> HIDE DEF r
<1>4. r.y = a /\ r.u = b /\ r.v = c
  BY <1>3
<1>5. Whole(r, w, h)
  BY <1>1, <1>3, <1>4 DEF Whole
<1> QED
  BY <1>5 DEF r

LEMMA BlankIsIn ==
    ASSUME NEW w \in Nat, NEW h \in Nat
    PROVE  PlaneIn(BlankPlane(w, w * h), w, h)
<1>1. PlaneOK(BlankPlane(w, w * h), w, h)
  BY BlankIsPlane
<1>2. \A i \in 0 .. w * h - 1 : BlankPlane(w, w * h).data[i] = {}
  BY DEF BlankPlane, Plane, Blank
<1> QED
  BY <1>1, <1>2 DEF PlaneIn

LEMMA NewIsWhole ==
    ASSUME NEW w \in Nat, NEW h \in Nat
    PROVE  Whole(I420New(w, h), w, h)
<1> DEFINE n == I420New(w, h)
<1>1. w \div 2 \in Nat /\ h \div 2 \in Nat
  OBVIOUS
<1>2. n = [w |-> w, h |-> h, y |-> BlankPlane(w, w * h),
           u |-> BlankPlane(w \div 2, (w \div 2) * (h \div 2)),
           v |-> BlankPlane(w \div 2, (w \div 2) * (h \div 2))]
  BY NewIsFramed
<1>3. PlaneIn(BlankPlane(w, w * h), w, h) /\ PlaneIn(BlankPlane(w \div 2, (w \div 2) * (h \div 2)), w \div 2, h \div 2)
  BY <1>1, BlankIsIn
<1> HIDE DEF n
<1>4. /\ n.y = BlankPlane(w, w * h)
      /\ n.u = BlankPlane(w \div 2, (w \div 2) * (h \div 2)) /\ n.v = BlankPlane(w \div 2, (w \div 2) * (h \div 2))
  BY <1>2
<1>5. Whole(n, w, h)
  BY <1>2, <1>3, <1>4 DEF Whole
<1> QED
  BY <1>5 DEF n

\* One sample for each of some cells of a plane, and one for each of its places in a row.
Laid(d, stride, cells, v) == Written(d, cells, LAMBDA c : Index(stride, c), LAMBDA c : v[c])
RowLaid(d, src, n) == Written(d, 0 .. n - 1, LAMBDA i : i, LAMBDA i : Read(src, i))

\* A plane with new samples at places of its own is one.
LEMMA RelaidIn ==
    ASSUME NEW w, NEW h, NEW d, PlaneIn(d, w, h), NEW at, at \subseteq 0 .. w * h - 1, NEW new,
           new = [i \in DOMAIN d.data \cup at |-> new[i]],
           \A i \in DOMAIN d.data \cup at : Nowhere \notin new[i]
    PROVE  PlaneIn([d EXCEPT !.data = new], w, h)
<1> DEFINE r == [d EXCEPT !.data = new]
<1>1. DOMAIN d.data = 0 .. w * h - 1
  BY DEF PlaneIn, PlaneOK
<1>2. DOMAIN d.data \cup at = 0 .. w * h - 1
  BY <1>1
<1>3. PICK f : d = [stride |-> w, data |-> f]
  BY DEF PlaneIn, PlaneOK
<1>4. r = [stride |-> w, data |-> new]
  BY <1>3
<1> HIDE DEF r
<1>5. r.stride = w /\ r.data = new
  BY <1>4
<1>6. PlaneOK(r, w, h)
  BY <1>2, <1>4, <1>5 DEF PlaneOK
<1>7. PlaneIn(r, w, h)
  BY <1>2, <1>5, <1>6 DEF PlaneIn
<1> QED
  BY <1>7 DEF r

LEMMA LaidIn ==
    ASSUME NEW w \in Nat, NEW h \in Nat, NEW d, PlaneIn(d, w, h), NEW stride, stride = w,
           NEW cells, cells \subseteq Area(w, h), NEW v, \A c \in cells : Nowhere \notin v[c]
    PROVE  PlaneIn(Laid(d, stride, cells, v), w, h)
<1> DEFINE at == {Index(stride, c) : c \in cells}
           Pick(i) == CHOOSE c \in cells : Index(stride, c) = i
           new == [i \in DOMAIN d.data \cup at |-> IF i \in at THEN v[Pick(i)] ELSE d.data[i]]
<1>1. Laid(d, stride, cells, v) = [d EXCEPT !.data = new]
  BY DEF Laid, Written
<1>2. at \subseteq 0 .. w * h - 1
  <2> SUFFICES ASSUME NEW c \in cells PROVE Index(stride, c) \in 0 .. w * h - 1
    OBVIOUS
  <2>1. PICK a \in 0 .. w - 1, b \in 0 .. h - 1 : c = <<a, b>>
    BY DEF Area
  <2>2. Index(stride, c) = b * w + a
    BY <2>1 DEF Index
  <2> QED
    BY <2>2, IndexInside
<1>3. \A i \in at : Nowhere \notin v[Pick(i)]
  <2>1. \A i \in at : Pick(i) \in cells
    OBVIOUS
  <2> HIDE DEF at, Pick
  <2> QED
    BY <2>1
<1>4. \A i \in DOMAIN d.data : Nowhere \notin d.data[i]
  BY DEF PlaneIn, PlaneOK
<1> HIDE DEF at, Pick
<1>5. new = [i \in DOMAIN d.data \cup at |-> new[i]] /\ \A i \in DOMAIN d.data \cup at : Nowhere \notin new[i]
  BY <1>3, <1>4
<1> HIDE DEF new
<1>6. PlaneIn([d EXCEPT !.data = new], w, h)
  BY <1>2, <1>5, RelaidIn, Zenon
<1> QED
  BY <1>1, <1>6

LEMMA RowLaidIn ==
    ASSUME NEW w \in Nat, NEW h \in Nat, NEW d, PlaneIn(d, w, h), NEW src,
           0 .. w * h - 1 \subseteq DOMAIN src, \A i \in 0 .. w * h - 1 : Nowhere \notin src[i]
    PROVE  PlaneIn(RowLaid(d, src, w * h), w, h)
<1> DEFINE at == {i : i \in 0 .. w * h - 1}
           Pick(i) == CHOOSE c \in 0 .. w * h - 1 : c = i
           new == [i \in DOMAIN d.data \cup at |-> IF i \in at THEN Read(src, Pick(i)) ELSE d.data[i]]
<1>1. RowLaid(d, src, w * h) = [d EXCEPT !.data = new]
  BY DEF RowLaid, Written
<1>2. at \subseteq 0 .. w * h - 1
  OBVIOUS
<1>3. \A i \in at : Nowhere \notin Read(src, Pick(i))
  <2>1. \A i \in at : Pick(i) = i /\ i \in 0 .. w * h - 1
    OBVIOUS
  <2> HIDE DEF at, Pick
  <2> QED
    BY <2>1 DEF Read
<1>4. \A i \in DOMAIN d.data : Nowhere \notin d.data[i]
  BY DEF PlaneIn, PlaneOK
<1> HIDE DEF at, Pick
<1>5. new = [i \in DOMAIN d.data \cup at |-> new[i]] /\ \A i \in DOMAIN d.data \cup at : Nowhere \notin new[i]
  BY <1>3, <1>4
<1> HIDE DEF new
<1>6. PlaneIn([d EXCEPT !.data = new], w, h)
  BY <1>2, <1>5, RelaidIn, Zenon
<1> QED
  BY <1>1, <1>6

\* A plane whose samples are known one by one.
LEMMA SamplesIn ==
    ASSUME NEW w \in Nat, NEW h \in Nat, NEW r, PlaneOK(r, w, h),
           \A a \in 0 .. w - 1, b \in 0 .. h - 1 : Nowhere \notin Sample(r, w, a, b)
    PROVE  PlaneIn(r, w, h)
<1>1. ASSUME NEW i \in 0 .. w * h - 1 PROVE Nowhere \notin r.data[i]
  <2>1. PICK a \in 0 .. w - 1, b \in 0 .. h - 1 : b * w + a = i
    BY IndexOnto
  <2> QED
    BY <2>1 DEF Sample
<1> QED
  BY <1>1 DEF PlaneIn

LEMMA SampleIn ==
    ASSUME NEW w \in Nat, NEW h \in Nat, NEW s, PlaneIn(s, w, h), NEW a \in 0 .. w - 1, NEW b \in 0 .. h - 1
    PROVE  /\ Nowhere \notin Sample(s, w, a, b) /\ Nowhere \notin Read(s.data, Index(s.stride, <<a, b>>))
<1>1. b * w + a \in 0 .. w * h - 1
  BY IndexInside
<1>2. Nowhere \notin Sample(s, w, a, b)
  BY <1>1 DEF PlaneIn, Sample
<1> QED
  BY <1>2, ReadsInside DEF PlaneIn

\* What is read at a cell of such a plane is not from outside.
LEMMA ReadIn ==
    ASSUME NEW w \in Nat, NEW h \in Nat, NEW s, PlaneIn(s, w, h), NEW a \in 0 .. w - 1, NEW b \in 0 .. h - 1,
           NEW i, i = b * s.stride + a
    PROVE  Nowhere \notin Read(s.data, i)
<1>1. b * w + a \in 0 .. w * h - 1
  BY IndexInside
<1>2. s.stride = w /\ DOMAIN s.data = 0 .. w * h - 1
  BY DEF PlaneIn, PlaneOK
<1> QED
  BY <1>1, <1>2 DEF PlaneIn, Read

LEMMA CopiedIn ==
    ASSUME NEW w \in Nat, NEW h \in Nat, NEW src, src.w = w, src.h = h, PlaneIn(src.y, w, h),
           NEW out, PlaneIn(out.y, w, h)
    PROVE  PlaneIn(CopiedLuma(src, out), w, h)
<1>1. CopiedLuma(src, out) = RowLaid(out.y, src.y.data, w * h)
  BY DEF CopiedLuma, RowLaid
<1>2. DOMAIN src.y.data = 0 .. w * h - 1 /\ \A i \in 0 .. w * h - 1 : Nowhere \notin src.y.data[i]
  BY DEF PlaneIn, PlaneOK
<1> QED
  BY <1>1, <1>2, RowLaidIn

\* The cells of a halved picture, and the two places in a row or the four that each stands for.
LEMMA HalfCells ==
    ASSUME NEW w \in Nat, NEW h \in Nat, NEW c \in Area(w \div 2, h \div 2)
    PROVE  /\ w \div 2 \in Nat /\ h \div 2 \in Nat
           /\ c[1] \in 0 .. (w \div 2) - 1 /\ c[2] \in 0 .. (h \div 2) - 1
           /\ \A k \in {0, 1} : 2 * c[1] + k \in 0 .. w - 1 /\ 2 * c[2] + k \in 0 .. h - 1
<1>1. c[1] \in 0 .. (w \div 2) - 1 /\ c[2] \in 0 .. (h \div 2) - 1
  BY DEF Area
<1> QED
  BY <1>1

LEMMA I422Whole ==
    ASSUME NEW src, src.w \in Nat, src.h \in Nat, PlaneIn(src.y, src.w, src.h),
           PlaneIn(src.u, src.w, src.h \div 2), PlaneIn(src.v, src.w, src.h \div 2)
    PROVE  Whole(I422ToI420(src), src.w, src.h)
<1> DEFINE w == src.w
           h == src.h
           n == I420New(w, h)
           cells == Area(w \div 2, h \div 2)
           Pair(p, c) == Read(p.data, c[2] * p.stride + 2 * c[1])
                           \cup Read(p.data, c[2] * p.stride + 2 * c[1] + 1)
           Chroma(d, s) == Written(d, cells, LAMBDA c : Index(d.stride, c), LAMBDA c : Pair(s, c))
<1>1. Whole(n, w, h) /\ w \div 2 \in Nat /\ h \div 2 \in Nat
  BY NewIsWhole
<1>0. w \in Nat /\ h \in Nat /\ PlaneIn(src.y, w, h) /\ PlaneIn(src.u, w, h \div 2) /\ PlaneIn(src.v, w, h \div 2)
  OBVIOUS
<1>2. I422ToI420(src) = [n EXCEPT !.y = CopiedLuma(src, n), !.u = Chroma(n.u, src.u), !.v = Chroma(n.v, src.v)]
  BY DEF I422ToI420, Halves
<1>3. PlaneIn(CopiedLuma(src, n), w, h)
  BY <1>0, <1>1, CopiedIn DEF Whole
<1> HIDE DEF n, w, h
<1>4. ASSUME NEW d, NEW s, PlaneIn(d, w \div 2, h \div 2), PlaneIn(s, w, h \div 2)
      PROVE  PlaneIn(Chroma(d, s), w \div 2, h \div 2)
  <2> DEFINE v == [c \in cells |-> Pair(s, c)]
             at == {Index(d.stride, c) : c \in cells}
             Pick(i) == CHOOSE c \in cells : Index(d.stride, c) = i
  <2>1. \A i \in at : v[Pick(i)] = Pair(s, Pick(i))
    <3>1. \A i \in at : Pick(i) \in cells
      OBVIOUS
    <3> HIDE DEF at, Pick
    <3> QED
      BY <3>1
  <2>2. Chroma(d, s) = Laid(d, d.stride, cells, v)
    <3>1. [i \in DOMAIN d.data \cup at |-> IF i \in at THEN Pair(s, Pick(i)) ELSE d.data[i]]
            = [i \in DOMAIN d.data \cup at |-> IF i \in at THEN v[Pick(i)] ELSE d.data[i]]
      <4> HIDE DEF v, at, Pick, Pair
      <4> QED
        BY <2>1
    <3> QED
      BY <3>1, Zenon DEF Written, Laid
  <2>3. ASSUME NEW c \in cells PROVE Nowhere \notin Pair(s, c)
    <3>1. 2 * c[1] + 0 \in 0 .. w - 1 /\ 2 * c[1] + 1 \in 0 .. w - 1 /\ c[2] \in 0 .. (h \div 2) - 1
      BY <1>0, HalfCells
    <3>2. s.stride = w
      BY <1>4 DEF PlaneIn, PlaneOK
    <3>3. /\ c[2] * s.stride + 2 * c[1] = c[2] * s.stride + (2 * c[1] + 0)
          /\ c[2] * s.stride + 2 * c[1] + 1 = c[2] * s.stride + (2 * c[1] + 1)
      BY <1>0, <3>1, <3>2 DEF Area
    <3> HIDE DEF cells
    <3>4. Nowhere \notin Read(s.data, c[2] * s.stride + 2 * c[1])
      BY <1>0, <1>1, <1>4, <3>1, <3>3, ReadIn
    <3>5. Nowhere \notin Read(s.data, c[2] * s.stride + 2 * c[1] + 1)
      BY <1>0, <1>1, <1>4, <3>1, <3>3, ReadIn
    <3> QED
      BY <3>4, <3>5
  <2>4. \A c \in cells : Nowhere \notin v[c]
    <3> HIDE DEF Pair
    <3> QED
      BY <2>3
  <2>5. d.stride = w \div 2
    BY <1>4 DEF PlaneIn, PlaneOK
  <2> HIDE DEF v
  <2>6. PlaneIn(Laid(d, d.stride, cells, v), w \div 2, h \div 2)
    BY <1>1, <1>4, <2>4, <2>5, LaidIn, Zenon
  <2> QED
    BY <2>2, <2>6
<1> HIDE DEF Chroma
<1>5. PlaneIn(n.u, w \div 2, h \div 2) /\ PlaneIn(n.v, w \div 2, h \div 2)
  BY <1>1 DEF Whole
<1>6. PlaneIn(Chroma(n.u, src.u), w \div 2, h \div 2) /\ PlaneIn(Chroma(n.v, src.v), w \div 2, h \div 2)
  BY <1>0, <1>4, <1>5
<1>7. Whole([n EXCEPT !.y = CopiedLuma(src, n), !.u = Chroma(n.u, src.u), !.v = Chroma(n.v, src.v)], w, h)
  BY <1>1, <1>3, <1>6, WholeReplaced
<1>8. Whole(I422ToI420(src), w, h)
  BY <1>2, <1>7, Zenon
<1> QED
  BY <1>8 DEF w, h

LEMMA I444Whole ==
    ASSUME NEW src, src.w \in Nat, src.h \in Nat, PlaneIn(src.y, src.w, src.h),
           PlaneIn(src.u, src.w, src.h), PlaneIn(src.v, src.w, src.h)
    PROVE  Whole(I444ToI420(src), src.w, src.h)
<1> DEFINE w == src.w
           h == src.h
           n == I420New(w, h)
           cells == Area(w \div 2, h \div 2)
           Quad(p, c) == UNION {Read(p.data, (2 * c[2] + d[2]) * p.stride + 2 * c[1] + d[1]) :
                                  d \in {0, 1} \X {0, 1}}
           Chroma(d, s) == Written(d, cells, LAMBDA c : Index(d.stride, c), LAMBDA c : Quad(s, c))
<1>1. Whole(n, w, h) /\ w \div 2 \in Nat /\ h \div 2 \in Nat
  BY NewIsWhole
<1>0. w \in Nat /\ h \in Nat /\ PlaneIn(src.y, w, h) /\ PlaneIn(src.u, w, h) /\ PlaneIn(src.v, w, h)
  OBVIOUS
<1>2. I444ToI420(src) = [n EXCEPT !.y = CopiedLuma(src, n), !.u = Chroma(n.u, src.u), !.v = Chroma(n.v, src.v)]
  BY DEF I444ToI420, Halves
<1>3. PlaneIn(CopiedLuma(src, n), w, h)
  BY <1>0, <1>1, CopiedIn DEF Whole
<1> HIDE DEF n, w, h
<1>4. ASSUME NEW d, NEW s, PlaneIn(d, w \div 2, h \div 2), PlaneIn(s, w, h)
      PROVE  PlaneIn(Chroma(d, s), w \div 2, h \div 2)
  <2> DEFINE v == [c \in cells |-> Quad(s, c)]
             at == {Index(d.stride, c) : c \in cells}
             Pick(i) == CHOOSE c \in cells : Index(d.stride, c) = i
  <2>1. \A i \in at : v[Pick(i)] = Quad(s, Pick(i))
    <3>1. \A i \in at : Pick(i) \in cells
      OBVIOUS
    <3> HIDE DEF at, Pick
    <3> QED
      BY <3>1
  <2>2. Chroma(d, s) = Laid(d, d.stride, cells, v)
    <3>1. [i \in DOMAIN d.data \cup at |-> IF i \in at THEN Quad(s, Pick(i)) ELSE d.data[i]]
            = [i \in DOMAIN d.data \cup at |-> IF i \in at THEN v[Pick(i)] ELSE d.data[i]]
      <4> HIDE DEF v, at, Pick, Quad
      <4> QED
        BY <2>1
    <3> QED
      BY <3>1, Zenon DEF Written, Laid
  <2>3. ASSUME NEW c \in cells PROVE Nowhere \notin Quad(s, c)
    <3> SUFFICES ASSUME NEW e \in {0, 1} \X {0, 1}
                 PROVE  Nowhere \notin Read(s.data, (2 * c[2] + e[2]) * s.stride + 2 * c[1] + e[1])
      OBVIOUS
    <3>1. e[1] \in {0, 1} /\ e[2] \in {0, 1}
      OBVIOUS
    <3>2. 2 * c[1] + e[1] \in 0 .. w - 1 /\ 2 * c[2] + e[2] \in 0 .. h - 1
      BY <1>0, <3>1, HalfCells
    <3>3. s.stride = w /\ c[1] \in Nat /\ c[2] \in Nat
      BY <1>4 DEF PlaneIn, PlaneOK, Area
    <3>4. (2 * c[2] + e[2]) * s.stride + 2 * c[1] + e[1] = (2 * c[2] + e[2]) * s.stride + (2 * c[1] + e[1])
      BY <1>0, <3>1, <3>3
    <3> HIDE DEF cells
    <3> QED
      BY <1>0, <1>4, <3>2, <3>4, ReadIn
  <2>4. \A c \in cells : Nowhere \notin v[c]
    <3> HIDE DEF Quad
    <3> QED
      BY <2>3
  <2>5. d.stride = w \div 2
    BY <1>4 DEF PlaneIn, PlaneOK
  <2> HIDE DEF v
  <2>6. PlaneIn(Laid(d, d.stride, cells, v), w \div 2, h \div 2)
    BY <1>1, <1>4, <2>4, <2>5, LaidIn, Zenon
  <2> QED
    BY <2>2, <2>6
<1> HIDE DEF Chroma
<1>5. PlaneIn(n.u, w \div 2, h \div 2) /\ PlaneIn(n.v, w \div 2, h \div 2)
  BY <1>1 DEF Whole
<1>6. PlaneIn(Chroma(n.u, src.u), w \div 2, h \div 2) /\ PlaneIn(Chroma(n.v, src.v), w \div 2, h \div 2)
  BY <1>0, <1>4, <1>5
<1>7. Whole([n EXCEPT !.y = CopiedLuma(src, n), !.u = Chroma(n.u, src.u), !.v = Chroma(n.v, src.v)], w, h)
  BY <1>1, <1>3, <1>6, WholeReplaced
<1>8. Whole(I444ToI420(src), w, h)
  BY <1>2, <1>7, Zenon
<1> QED
  BY <1>8 DEF w, h

LEMMA NV12BufferWhole ==
    ASSUME NEW src, src.w \in Nat, src.h \in Nat, PlaneIn(src.y, src.w, src.h),
           PlaneIn(src.uv, src.w, src.h \div 2)
    PROVE  Whole(NV12BufferToI420(src), src.w, src.h)
<1> DEFINE w == src.w
           h == src.h
           n == I420New(w, h)
           cells == Area(w \div 2, h \div 2)
           Chroma(d, k) == Written(d, cells, LAMBDA c : Index(n.u.stride, c),
                                   LAMBDA c : Read(src.uv.data, c[2] * src.uv.stride + 2 * c[1] + k))
<1>1. Whole(n, w, h) /\ w \div 2 \in Nat /\ h \div 2 \in Nat
  BY NewIsWhole
<1>0. w \in Nat /\ h \in Nat /\ PlaneIn(src.y, w, h) /\ PlaneIn(src.uv, w, h \div 2)
  OBVIOUS
<1>2. NV12BufferToI420(src) = [n EXCEPT !.y = CopiedLuma(src, n), !.u = Chroma(n.u, 0), !.v = Chroma(n.v, 1)]
  BY DEF NV12BufferToI420, Halves
<1>3. PlaneIn(CopiedLuma(src, n), w, h)
  BY <1>0, <1>1, CopiedIn DEF Whole
<1> HIDE DEF n, w, h
<1>4. n.u.stride = w \div 2
  BY <1>1 DEF Whole, PlaneIn, PlaneOK
<1>5. ASSUME NEW d, PlaneIn(d, w \div 2, h \div 2), NEW k \in {0, 1}
      PROVE  PlaneIn(Chroma(d, k), w \div 2, h \div 2)
  <2> DEFINE Val(c) == Read(src.uv.data, c[2] * src.uv.stride + 2 * c[1] + k)
             v == [c \in cells |-> Val(c)]
             at == {Index(n.u.stride, c) : c \in cells}
             Pick(i) == CHOOSE c \in cells : Index(n.u.stride, c) = i
  <2>1. \A i \in at : v[Pick(i)] = Val(Pick(i))
    <3>1. \A i \in at : Pick(i) \in cells
      OBVIOUS
    <3> HIDE DEF at, Pick
    <3> QED
      BY <3>1
  <2>2. Chroma(d, k) = Laid(d, n.u.stride, cells, v)
    <3>1. [i \in DOMAIN d.data \cup at |-> IF i \in at THEN Val(Pick(i)) ELSE d.data[i]]
            = [i \in DOMAIN d.data \cup at |-> IF i \in at THEN v[Pick(i)] ELSE d.data[i]]
      <4> HIDE DEF v, at, Pick, Val
      <4> QED
        BY <2>1
    <3> QED
      BY <3>1, Zenon DEF Written, Laid
  <2>3. ASSUME NEW c \in cells PROVE Nowhere \notin Val(c)
    <3>1. 2 * c[1] + k \in 0 .. w - 1 /\ c[2] \in 0 .. (h \div 2) - 1 /\ c[1] \in Nat
      BY <1>0, HalfCells
    <3>2. src.uv.stride = w
      BY <1>0 DEF PlaneIn, PlaneOK
    <3>3. c[2] * src.uv.stride + 2 * c[1] + k = c[2] * src.uv.stride + (2 * c[1] + k)
      BY <1>0, <3>1, <3>2
    <3> HIDE DEF cells
    <3> QED
      BY <1>0, <1>1, <3>1, <3>3, ReadIn
  <2>4. \A c \in cells : Nowhere \notin v[c]
    <3> HIDE DEF Val
    <3> QED
      BY <2>3
  <2> HIDE DEF v
  <2>5. PlaneIn(Laid(d, n.u.stride, cells, v), w \div 2, h \div 2)
    BY <1>1, <1>4, <1>5, <2>4, LaidIn, Zenon
  <2> QED
    BY <2>2, <2>5
<1> HIDE DEF Chroma
<1>6. PlaneIn(n.u, w \div 2, h \div 2) /\ PlaneIn(n.v, w \div 2, h \div 2)
  BY <1>1 DEF Whole
<1>7. PlaneIn(Chroma(n.u, 0), w \div 2, h \div 2) /\ PlaneIn(Chroma(n.v, 1), w \div 2, h \div 2)
  BY <1>5, <1>6
<1>8. Whole([n EXCEPT !.y = CopiedLuma(src, n), !.u = Chroma(n.u, 0), !.v = Chroma(n.v, 1)], w, h)
  BY <1>1, <1>3, <1>7, WholeReplaced
<1>9. Whole(NV12BufferToI420(src), w, h)
  BY <1>2, <1>8, Zenon
<1> QED
  BY <1>9 DEF w, h

LEMMA I010Whole ==
    ASSUME NEW src, src.w \in Nat, src.h \in Nat, PlaneIn(src.y, src.w, src.h),
           PlaneIn(src.u, src.w \div 2, src.h \div 2), PlaneIn(src.v, src.w \div 2, src.h \div 2)
    PROVE  Whole(I010ToI420(src), src.w, src.h)
<1> DEFINE w == src.w
           h == src.h
           n == I420New(w, h)
           Narrow(d, s) == RowLaid(d, s.data, (w \div 2) * (h \div 2))
<1>1. Whole(n, w, h) /\ w \div 2 \in Nat /\ h \div 2 \in Nat
  BY NewIsWhole
<1>0. /\ w \in Nat /\ h \in Nat /\ PlaneIn(src.y, w, h)
      /\ PlaneIn(src.u, w \div 2, h \div 2) /\ PlaneIn(src.v, w \div 2, h \div 2)
  OBVIOUS
<1>2. I010ToI420(src) = [n EXCEPT !.y = CopiedLuma(src, n), !.u = Narrow(n.u, src.u), !.v = Narrow(n.v, src.v)]
  BY DEF I010ToI420, RowLaid
<1>3. PlaneIn(CopiedLuma(src, n), w, h)
  BY <1>0, <1>1, CopiedIn DEF Whole
<1> HIDE DEF n, w, h
<1>4. ASSUME NEW d, NEW s, PlaneIn(d, w \div 2, h \div 2), PlaneIn(s, w \div 2, h \div 2)
      PROVE  PlaneIn(Narrow(d, s), w \div 2, h \div 2)
  <2> DEFINE hw == w \div 2
             hh == h \div 2
  <2>1. hw \in Nat /\ hh \in Nat /\ PlaneIn(d, hw, hh) /\ PlaneIn(s, hw, hh)
    BY <1>1, <1>4
  <2> HIDE DEF hw, hh
  <2>2. DOMAIN s.data = 0 .. hw * hh - 1 /\ \A i \in 0 .. hw * hh - 1 : Nowhere \notin s.data[i]
    BY <2>1 DEF PlaneIn, PlaneOK
  <2>3. PlaneIn(RowLaid(d, s.data, hw * hh), hw, hh)
    BY <2>1, <2>2, RowLaidIn
  <2> QED
    BY <2>3 DEF hw, hh
<1> HIDE DEF Narrow
<1>5. PlaneIn(n.u, w \div 2, h \div 2) /\ PlaneIn(n.v, w \div 2, h \div 2)
  BY <1>1 DEF Whole
<1>6. PlaneIn(Narrow(n.u, src.u), w \div 2, h \div 2) /\ PlaneIn(Narrow(n.v, src.v), w \div 2, h \div 2)
  BY <1>0, <1>4, <1>5
<1>7. Whole([n EXCEPT !.y = CopiedLuma(src, n), !.u = Narrow(n.u, src.u), !.v = Narrow(n.v, src.v)], w, h)
  BY <1>1, <1>3, <1>6, WholeReplaced
<1>8. Whole(I010ToI420(src), w, h)
  BY <1>2, <1>7, Zenon
<1> QED
  BY <1>8 DEF w, h

\* Packed pixels, seen as a plane: none of a conversion's reads is from outside.
LEMMA PixelIn ==
    ASSUME NEW w \in Nat, NEW h \in Nat, NEW argb, DOMAIN argb = 0 .. w * h - 1,
           \A i \in 0 .. w * h - 1 : Nowhere \notin argb[i],
           NEW a \in 0 .. w - 1, NEW b \in 0 .. h - 1, NEW i, i = b * w + a
    PROVE  i \in DOMAIN argb /\ Nowhere \notin argb[i] /\ Nowhere \notin Read(argb, i)
<1>1. b * w + a \in 0 .. w * h - 1
  BY IndexInside
<1> QED
  BY <1>1 DEF Read

LEMMA ARGBWhole ==
    ASSUME NEW w \in Nat, NEW h \in Nat, NEW argb, DOMAIN argb = 0 .. w * h - 1,
           \A i \in 0 .. w * h - 1 : Nowhere \notin argb[i]
    PROVE  Whole(ARGBToI420(argb, w, h), w, h)
<1> DEFINE n == I420New(w, h)
           visited == Area(2 * (w \div 2), 2 * (h \div 2))
           cells == Area(w \div 2, h \div 2)
           Quad(c) == UNION {Read(argb, (2 * c[2] + e[2]) * w + 2 * c[1] + e[1]) : e \in {0, 1} \X {0, 1}}
           Lum(d) == Written(d, visited, LAMBDA c : Index(n.y.stride, c), LAMBDA c : Read(argb, Index(w, c)))
           Chroma(d) == Written(d, cells, LAMBDA c : Index(n.u.stride, c), Quad)
<1>1. Whole(n, w, h) /\ w \div 2 \in Nat /\ h \div 2 \in Nat
  BY NewIsWhole
<1>2. ARGBToI420(argb, w, h) = [n EXCEPT !.y = Lum(n.y), !.u = Chroma(n.u), !.v = Chroma(n.v)]
  BY DEF ARGBToI420
<1> HIDE DEF n
<1>3. n.y.stride = w /\ n.u.stride = w \div 2
  <2>1. PlaneIn(n.y, w, h) /\ PlaneIn(n.u, w \div 2, h \div 2)
    BY <1>1 DEF Whole
  <2> QED
    BY <2>1 DEF PlaneIn, PlaneOK
<1>4. ASSUME NEW d, PlaneIn(d, w, h) PROVE PlaneIn(Lum(d), w, h)
  <2> DEFINE at == {Index(n.y.stride, c) : c \in visited}
             Pick(i) == CHOOSE c \in visited : Index(n.y.stride, c) = i
             new == [i \in DOMAIN d.data \cup at |-> IF i \in at THEN Read(argb, Index(w, Pick(i))) ELSE d.data[i]]
  <2>1. Lum(d) = [d EXCEPT !.data = new]
    BY DEF Written
  <2>2. ASSUME NEW c \in visited PROVE Index(n.y.stride, c) \in 0 .. w * h - 1 /\ Nowhere \notin Read(argb, Index(w, c))
    <3>1. PICK a \in 0 .. 2 * (w \div 2) - 1, b \in 0 .. 2 * (h \div 2) - 1 : c = <<a, b>>
      BY DEF Area
    <3>2. a \in 0 .. w - 1 /\ b \in 0 .. h - 1
      OBVIOUS
    <3>3. Index(n.y.stride, c) = b * w + a /\ Index(w, c) = b * w + a
      BY <1>3, <3>1 DEF Index
    <3>4. b * w + a \in 0 .. w * h - 1
      BY <3>2, IndexInside
    <3>5. Nowhere \notin Read(argb, Index(w, c))
      BY <3>2, <3>3, PixelIn
    <3> QED
      BY <3>3, <3>4, <3>5
  <2>3. at \subseteq 0 .. w * h - 1
    BY <2>2
  <2>4. \A i \in at : Nowhere \notin Read(argb, Index(w, Pick(i)))
    <3>1. \A i \in at : Pick(i) \in visited
      OBVIOUS
    <3> HIDE DEF at, Pick, visited
    <3> QED
      BY <3>1, <2>2
  <2>5. \A i \in DOMAIN d.data : Nowhere \notin d.data[i]
    BY <1>4 DEF PlaneIn, PlaneOK
  <2> HIDE DEF at, Pick, visited
  <2>6. new = [i \in DOMAIN d.data \cup at |-> new[i]] /\ \A i \in DOMAIN d.data \cup at : Nowhere \notin new[i]
    BY <2>4, <2>5
  <2> HIDE DEF new
  <2>7. PlaneIn([d EXCEPT !.data = new], w, h)
    BY <1>4, <2>3, <2>6, RelaidIn, Zenon
  <2> QED
    BY <2>1, <2>7
<1>5. ASSUME NEW d, PlaneIn(d, w \div 2, h \div 2) PROVE PlaneIn(Chroma(d), w \div 2, h \div 2)
  <2> DEFINE at == {Index(n.u.stride, c) : c \in cells}
             Pick(i) == CHOOSE c \in cells : Index(n.u.stride, c) = i
             new == [i \in DOMAIN d.data \cup at |-> IF i \in at THEN Quad(Pick(i)) ELSE d.data[i]]
  <2>1. Chroma(d) = [d EXCEPT !.data = new]
    BY DEF Written
  <2>2. ASSUME NEW c \in cells PROVE Index(n.u.stride, c) \in 0 .. (w \div 2) * (h \div 2) - 1 /\ Nowhere \notin Quad(c)
    <3>1. PICK a \in 0 .. (w \div 2) - 1, b \in 0 .. (h \div 2) - 1 : c = <<a, b>>
      BY DEF Area
    <3>2. Index(n.u.stride, c) = b * (w \div 2) + a
      BY <1>3, <3>1 DEF Index
    <3>3. b * (w \div 2) + a \in 0 .. (w \div 2) * (h \div 2) - 1
      BY <1>1, IndexInside
    <3>4. Nowhere \notin Quad(c)
      <4> SUFFICES ASSUME NEW e \in {0, 1} \X {0, 1}
                   PROVE  Nowhere \notin Read(argb, (2 * c[2] + e[2]) * w + 2 * c[1] + e[1])
        OBVIOUS
      <4>1. e[1] \in {0, 1} /\ e[2] \in {0, 1} /\ c[1] = a /\ c[2] = b
        BY <3>1
      <4>2. 2 * a + e[1] \in 0 .. w - 1 /\ 2 * b + e[2] \in 0 .. h - 1
        BY <4>1
      <4>3. (2 * c[2] + e[2]) * w + 2 * c[1] + e[1] = (2 * b + e[2]) * w + (2 * a + e[1])
        BY <4>1
      <4> QED
        BY <4>2, <4>3, PixelIn
    <3> HIDE DEF Quad
    <3> QED
      BY <3>2, <3>3, <3>4
  <2>3. at \subseteq 0 .. (w \div 2) * (h \div 2) - 1
    BY <2>2
  <2>4. \A i \in at : Nowhere \notin Quad(Pick(i))
    <3>1. \A i \in at : Pick(i) \in cells
      OBVIOUS
    <3> HIDE DEF at, Pick, cells, Quad
    <3> QED
      BY <3>1, <2>2
  <2>5. \A i \in DOMAIN d.data : Nowhere \notin d.data[i]
    BY <1>5, <1>1 DEF PlaneIn, PlaneOK
  <2> HIDE DEF at, Pick, cells, Quad
  <2>6. new = [i \in DOMAIN d.data \cup at |-> new[i]] /\ \A i \in DOMAIN d.data \cup at : Nowhere \notin new[i]
    BY <2>4, <2>5
  <2> HIDE DEF new
  <2>7. PlaneIn([d EXCEPT !.data = new], (w \div 2), (h \div 2))
    BY <1>5, <1>1, <2>3, <2>6, RelaidIn, Zenon
  <2> QED
    BY <2>1, <2>7
<1> HIDE DEF Lum, Chroma
<1>6. PlaneIn(n.y, w, h) /\ PlaneIn(n.u, w \div 2, h \div 2) /\ PlaneIn(n.v, w \div 2, h \div 2)
  BY <1>1 DEF Whole
<1>7. PlaneIn(Lum(n.y), w, h) /\ PlaneIn(Chroma(n.u), w \div 2, h \div 2) /\ PlaneIn(Chroma(n.v), w \div 2, h \div 2)
  BY <1>4, <1>5, <1>6
<1>8. Whole([n EXCEPT !.y = Lum(n.y), !.u = Chroma(n.u), !.v = Chroma(n.v)], w, h)
  BY <1>1, <1>7, WholeReplaced
<1> QED
  BY <1>2, <1>8, Zenon

\* Of even sizes libyuv's conversion has no column or row of its own.
LEMMA LibyuvARGBWhole ==
    ASSUME NEW w \in Nat, NEW h \in Nat, w % 2 = 0, h % 2 = 0, NEW argb, DOMAIN argb = 0 .. w * h - 1,
           \A i \in 0 .. w * h - 1 : Nowhere \notin argb[i]
    PROVE  Whole(LibyuvARGBToI420(argb, w, h), w, h)
<1> DEFINE n == I420New(w, h)
           visited == Area(w, h)
           cells == Area(w \div 2, h \div 2)
           Quad(c) == UNION {argb[Index(w, p)] : p \in Block(c[1], c[2]) \cap Area(w, h)}
           Lum(d) == Written(d, visited, LAMBDA c : Index(n.y.stride, c), LAMBDA c : Read(argb, Index(w, c)))
           Chroma(d) == Written(d, cells, LAMBDA c : Index(d.stride, c), Quad)
<1>1. Whole(n, w, h) /\ w \div 2 \in Nat /\ h \div 2 \in Nat
  BY NewIsWhole
<1>2. LibyuvARGBToI420(argb, w, h) = [n EXCEPT !.y = Lum(n.y), !.u = Chroma(n.u), !.v = Chroma(n.v)]
  <2>1. Up(w, 2) = w \div 2 /\ Up(h, 2) = h \div 2
    BY HalvesAndWholes
  <2> QED
    BY <2>1 DEF LibyuvARGBToI420
<1>3. n.y.stride = w
  BY <1>1 DEF Whole, PlaneIn, PlaneOK
<1> HIDE DEF n
<1>4. ASSUME NEW d, PlaneIn(d, w, h) PROVE PlaneIn(Lum(d), w, h)
  <2> DEFINE at == {Index(n.y.stride, c) : c \in visited}
             Pick(i) == CHOOSE c \in visited : Index(n.y.stride, c) = i
             new == [i \in DOMAIN d.data \cup at |-> IF i \in at THEN Read(argb, Index(w, Pick(i))) ELSE d.data[i]]
  <2>1. Lum(d) = [d EXCEPT !.data = new]
    BY DEF Written
  <2>2. ASSUME NEW c \in visited PROVE Index(n.y.stride, c) \in 0 .. w * h - 1 /\ Nowhere \notin Read(argb, Index(w, c))
    <3>1. PICK a \in 0 .. w - 1, b \in 0 .. h - 1 : c = <<a, b>>
      BY DEF Area
    <3>2. Index(n.y.stride, c) = b * w + a /\ Index(w, c) = b * w + a
      BY <1>3, <3>1 DEF Index
    <3>3. b * w + a \in 0 .. w * h - 1
      BY IndexInside
    <3>4. Nowhere \notin Read(argb, Index(w, c))
      BY <3>2, PixelIn
    <3> QED
      BY <3>2, <3>3, <3>4
  <2>3. at \subseteq 0 .. w * h - 1
    BY <2>2
  <2>4. \A i \in at : Nowhere \notin Read(argb, Index(w, Pick(i)))
    <3>1. \A i \in at : Pick(i) \in visited
      OBVIOUS
    <3> HIDE DEF at, Pick, visited
    <3> QED
      BY <3>1, <2>2
  <2>5. \A i \in DOMAIN d.data : Nowhere \notin d.data[i]
    BY <1>4 DEF PlaneIn, PlaneOK
  <2> HIDE DEF at, Pick, visited
  <2>6. new = [i \in DOMAIN d.data \cup at |-> new[i]] /\ \A i \in DOMAIN d.data \cup at : Nowhere \notin new[i]
    BY <2>4, <2>5
  <2> HIDE DEF new
  <2>7. PlaneIn([d EXCEPT !.data = new], w, h)
    BY <1>4, <2>3, <2>6, RelaidIn, Zenon
  <2> QED
    BY <2>1, <2>7
<1>5. ASSUME NEW d, PlaneIn(d, w \div 2, h \div 2) PROVE PlaneIn(Chroma(d), w \div 2, h \div 2)
  <2> DEFINE at == {Index(d.stride, c) : c \in cells}
             Pick(i) == CHOOSE c \in cells : Index(d.stride, c) = i
             new == [i \in DOMAIN d.data \cup at |-> IF i \in at THEN Quad(Pick(i)) ELSE d.data[i]]
  <2>1. Chroma(d) = [d EXCEPT !.data = new]
    BY DEF Written
  <2>2. ASSUME NEW c \in cells PROVE Index(d.stride, c) \in 0 .. (w \div 2) * (h \div 2) - 1 /\ Nowhere \notin Quad(c)
    <3>1. PICK a \in 0 .. (w \div 2) - 1, b \in 0 .. (h \div 2) - 1 : c = <<a, b>>
      BY DEF Area
    <3>2. Index(d.stride, c) = b * (w \div 2) + a
      BY <1>5, <3>1 DEF Index, PlaneIn, PlaneOK
    <3>3. b * (w \div 2) + a \in 0 .. (w \div 2) * (h \div 2) - 1
      BY <1>1, IndexInside
    <3>4. Nowhere \notin Quad(c)
      <4> SUFFICES ASSUME NEW p \in Area(w, h) PROVE Nowhere \notin argb[Index(w, p)]
        OBVIOUS
      <4>1. PICK e \in 0 .. w - 1, f \in 0 .. h - 1 : p = <<e, f>>
        BY DEF Area
      <4>2. Index(w, p) = f * w + e
        BY <4>1 DEF Index
      <4> QED
        BY <4>2, PixelIn
    <3> HIDE DEF Quad
    <3> QED
      BY <3>2, <3>3, <3>4
  <2>3. at \subseteq 0 .. (w \div 2) * (h \div 2) - 1
    BY <2>2
  <2>4. \A i \in at : Nowhere \notin Quad(Pick(i))
    <3>1. \A i \in at : Pick(i) \in cells
      OBVIOUS
    <3> HIDE DEF at, Pick, cells, Quad
    <3> QED
      BY <3>1, <2>2
  <2>5. \A i \in DOMAIN d.data : Nowhere \notin d.data[i]
    BY <1>5, <1>1 DEF PlaneIn, PlaneOK
  <2> HIDE DEF at, Pick, cells, Quad
  <2>6. new = [i \in DOMAIN d.data \cup at |-> new[i]] /\ \A i \in DOMAIN d.data \cup at : Nowhere \notin new[i]
    BY <2>4, <2>5
  <2> HIDE DEF new
  <2>7. PlaneIn([d EXCEPT !.data = new], (w \div 2), (h \div 2))
    BY <1>5, <1>1, <2>3, <2>6, RelaidIn, Zenon
  <2> QED
    BY <2>1, <2>7
<1> HIDE DEF Lum, Chroma
<1>6. PlaneIn(n.y, w, h) /\ PlaneIn(n.u, w \div 2, h \div 2) /\ PlaneIn(n.v, w \div 2, h \div 2)
  BY <1>1 DEF Whole
<1>7. PlaneIn(Lum(n.y), w, h) /\ PlaneIn(Chroma(n.u), w \div 2, h \div 2) /\ PlaneIn(Chroma(n.v), w \div 2, h \div 2)
  BY <1>4, <1>5, <1>6
<1>8. Whole([n EXCEPT !.y = Lum(n.y), !.u = Chroma(n.u), !.v = Chroma(n.v)], w, h)
  BY <1>1, <1>7, WholeReplaced
<1> QED
  BY <1>2, <1>8, Zenon

\* The scene itself, in each of the formats: its points are all somewhere.
LEMMA FilledIn ==
    ASSUME NEW w, NEW h, NEW data, data = [i \in 0 .. w * h - 1 |-> data[i]],
           \A i \in 0 .. w * h - 1 : Nowhere \notin data[i]
    PROVE  PlaneIn([stride |-> w, data |-> data], w, h)
BY DEF PlaneIn, PlaneOK

LEMMA LumaIn ==
    ASSUME NEW w \in Nat, NEW h \in Nat
    PROVE  /\ PlaneIn(Luma(w, h), w, h) /\ DOMAIN SceneARGB(w, h) = 0 .. w * h - 1
           /\ \A i \in 0 .. w * h - 1 : Nowhere \notin SceneARGB(w, h)[i]
<1> DEFINE data == [i \in 0 .. w * h - 1 |-> {Point(w, i)}]
<1>1. Luma(w, h) = [stride |-> w, data |-> data] /\ SceneARGB(w, h) = data
  BY DEF SceneARGB, Luma, Plane
<1>2. ASSUME NEW i \in 0 .. w * h - 1 PROVE Nowhere \notin data[i]
  <2>1. w # 0
    OBVIOUS
  <2>2. i % w \in Nat
    BY <2>1
  <2> QED
    BY <2>2 DEF Point, Nowhere
<1>3. data = [i \in 0 .. w * h - 1 |-> data[i]] /\ DOMAIN data = 0 .. w * h - 1
  OBVIOUS
<1> HIDE DEF data
<1> QED
  BY <1>1, <1>2, <1>3, FilledIn

LEMMA BlockIn ==
    ASSUME NEW a \in Nat, NEW b \in Nat
    PROVE  Nowhere \notin Block(a, b) /\ Nowhere \notin {a} \X {2 * b, 2 * b + 1}
BY DEF Block, Nowhere

LEMMA SceneWhole ==
    ASSUME NEW w \in Nat, NEW h \in Nat
    PROVE  Whole(SceneI420(w, h), w, h)
<1> DEFINE s == SceneI420(w, h)
           W == w \div 2
           H == h \div 2
           data == [i \in 0 .. W * H - 1 |-> Block(i % W, i \div W)]
           chroma == [stride |-> W, data |-> data]
           luma == Luma(w, h)
<1>1. s = [w |-> w, h |-> h, y |-> luma, u |-> chroma, v |-> chroma]
  BY DEF SceneI420, Plane
<1>2. W \in Nat /\ H \in Nat
  OBVIOUS
<1>3. PlaneIn(luma, w, h)
  BY LumaIn
<1>4. PlaneIn(chroma, W, H)
  <2> HIDE DEF W, H
  <2>1. ASSUME NEW i \in 0 .. W * H - 1 PROVE Nowhere \notin data[i]
    <3>1. W # 0
      BY <1>2
    <3>2. i % W \in Nat /\ i \div W \in Nat
      BY <1>2, <3>1
    <3>3. Nowhere \notin Block(i % W, i \div W)
      BY <3>2, BlockIn
    <3> QED
      BY <3>3
  <2>2. data = [i \in 0 .. W * H - 1 |-> data[i]]
    OBVIOUS
  <2> HIDE DEF data
  <2> QED
    BY <2>1, <2>2, FilledIn
<1> HIDE DEF s, luma, chroma
<1>5. s.y = luma /\ s.u = chroma /\ s.v = chroma
  BY <1>1
<1>6. Whole(s, w, h)
  BY <1>1, <1>3, <1>4, <1>5 DEF Whole
<1> QED
  BY <1>6 DEF s

\* A received buffer makes a picture without a stray sample, of any size if
\* the native backend converts it.
LEMMA ConvertedWhole ==
    ASSUME NEW fmt \in Formats, NEW w \in Nat, NEW h \in Nat,
           backend \in {"native", "libyuv"}, backend = "native" \/ (w % 2 = 0 /\ h % 2 = 0)
    PROVE  Whole(Converted(fmt, w, h), w, h)
<1>0. PlaneIn(Luma(w, h), w, h)
  BY LumaIn
<1>1. CASE fmt = "I420"
  BY <1>1, SceneWhole DEF Converted
<1>2. CASE fmt = "I422"
  <2> DEFINE s == SceneI422(w, h)
             H == h \div 2
             data == [i \in 0 .. w * H - 1 |-> {i % w} \X {2 * (i \div w), 2 * (i \div w) + 1}]
             chroma == [stride |-> w, data |-> data]
  <2>1. s.w = w /\ s.h = h /\ s.y = Luma(w, h) /\ s.u = chroma /\ s.v = chroma
    BY DEF SceneI422, Plane
  <2>2. Converted(fmt, w, h) = I422ToI420(s)
    BY <1>2 DEF Converted
  <2>3. PlaneIn(chroma, w, H)
    <3>0. H \in Nat
      OBVIOUS
    <3> HIDE DEF H
    <3>1. ASSUME NEW i \in 0 .. w * H - 1 PROVE Nowhere \notin data[i]
      <4>1. w # 0
        BY <3>0
      <4>2. i % w \in Nat /\ i \div w \in Nat
        BY <3>0, <4>1
      <4>3. Nowhere \notin {i % w} \X {2 * (i \div w), 2 * (i \div w) + 1}
        BY <4>2 DEF Nowhere
      <4> QED
        BY <4>3
    <3>2. data = [i \in 0 .. w * H - 1 |-> data[i]]
      OBVIOUS
    <3> HIDE DEF data
    <3> QED
      BY <3>1, <3>2, FilledIn
  <2> HIDE DEF s, chroma
  <2> QED
    BY <1>0, <2>1, <2>2, <2>3, I422Whole
<1>3. CASE fmt = "I444"
  <2> DEFINE s == SceneI444(w, h)
  <2>1. s.w = w /\ s.h = h /\ s.y = Luma(w, h) /\ s.u = Luma(w, h) /\ s.v = Luma(w, h)
    BY DEF SceneI444
  <2>2. Converted(fmt, w, h) = I444ToI420(s)
    BY <1>3 DEF Converted
  <2> HIDE DEF s
  <2> QED
    BY <1>0, <2>1, <2>2, I444Whole
<1>4. CASE fmt = "NV12"
  <2> DEFINE s == SceneNV12(w, h)
             H == h \div 2
             data == [i \in 0 .. w * H - 1 |-> Block((i % w) \div 2, i \div w)]
             chroma == [stride |-> w, data |-> data]
  <2>1. s.w = w /\ s.h = h /\ s.y = Luma(w, h) /\ s.uv = chroma
    BY DEF SceneNV12, Plane
  <2>2. Converted(fmt, w, h) = NV12BufferToI420(s)
    BY <1>4 DEF Converted
  <2>3. PlaneIn(chroma, w, H)
    <3>0. H \in Nat
      OBVIOUS
    <3> HIDE DEF H
    <3>1. ASSUME NEW i \in 0 .. w * H - 1 PROVE Nowhere \notin data[i]
      <4>1. w # 0
        BY <3>0
      <4>2. i % w \in Nat /\ i \div w \in Nat
        BY <3>0, <4>1
      <4>3. \A x \in Nat : x \div 2 \in Nat
        OBVIOUS
      <4>4. Nowhere \notin Block((i % w) \div 2, i \div w)
        BY <4>2, <4>3, BlockIn
      <4> QED
        BY <4>4
    <3>2. data = [i \in 0 .. w * H - 1 |-> data[i]]
      OBVIOUS
    <3> HIDE DEF data
    <3> QED
      BY <3>1, <3>2, FilledIn
  <2> HIDE DEF s, chroma
  <2> QED
    BY <1>0, <2>1, <2>2, <2>3, NV12BufferWhole
<1>5. CASE fmt = "I010"
  <2> DEFINE s == SceneI010(w, h)
  <2>1. Converted(fmt, w, h) = I010ToI420(s)
    BY <1>5 DEF Converted
  <2>2. Whole(s, w, h)
    BY SceneWhole DEF SceneI010
  <2> HIDE DEF s
  <2>3. s.w = w /\ s.h = h
    BY <2>2, WholeIsWellFormed
  <2> QED
    BY <2>1, <2>2, <2>3, I010Whole DEF Whole
<1>6. CASE fmt = "ARGB"
  <2>1. Converted(fmt, w, h) = FromARGB(SceneARGB(w, h), w, h)
    BY <1>6 DEF Converted
  <2> QED
    BY <2>1, LumaIn, ARGBWhole, LibyuvARGBWhole DEF FromARGB
<1> QED
  BY <1>1, <1>2, <1>3, <1>4, <1>5, <1>6 DEF Formats

\* Of a plane scaled without a fraction, or from the middle of each column,
\* every sample is one of the original's.
LEMMA QuotientBelow ==
    ASSUME NEW x \in Nat, NEW y \in Nat \ {0}, NEW m \in Nat, x < m * y
    PROVE  x \div y \in 0 .. m - 1
<1> DEFINE q == x \div y
<1>1. q \in Nat /\ q * y <= x
  BY DEF q
<1> HIDE DEF q
<1>2. q < m
  <2> SUFFICES ASSUME m <= q PROVE FALSE
    BY <1>1
  <2>1. m * y <= q * y
    BY <1>1
  <2>2. m * y \in Nat /\ q * y \in Nat
    BY <1>1
  <2> QED
    BY <1>1, <2>1, <2>2
<1> QED
  BY <1>1, <1>2 DEF q

LEMMA ScaleInside ==
    ASSUME NEW w \in Nat, NEW m \in Nat \ {0}, NEW a \in 0 .. w - 1
    PROVE  /\ (a * m) \div w \in 0 .. m - 1
           /\ ((2 * a + 1) * m) \div (2 * w) \in 0 .. m - 1
<1>1. w \in Nat \ {0} /\ 2 * w \in Nat \ {0} /\ a \in Nat
  OBVIOUS
<1>2. a * m \in Nat /\ a * m < m * w
  <2>1. (a + 1) * m <= w * m
    BY <1>1
  <2>2. (a + 1) * m = a * m + m /\ w * m = m * w /\ a * m \in Nat /\ m * w \in Nat
    BY <1>1
  <2> QED
    BY <2>1, <2>2
<1>3. (2 * a + 1) * m \in Nat /\ (2 * a + 1) * m < m * (2 * w)
  <2>1. (2 * a + 2) * m <= (2 * w) * m
    BY <1>1
  <2>2. /\ (2 * a + 2) * m = (2 * a + 1) * m + m /\ (2 * w) * m = m * (2 * w)
        /\ (2 * a + 1) * m \in Nat /\ m * (2 * w) \in Nat
    BY <1>1
  <2> QED
    BY <2>1, <2>2
<1> QED
  BY <1>1, <1>2, <1>3, QuotientBelow

Thinned(d, s, w, h, m, n) ==
    Written(d, Area(w, h), LAMBDA c : Index(d.stride, c),
            LAMBDA c : Read(s.data, Index(s.stride, <<(c[1] * m) \div w, (c[2] * n) \div h>>)))
Centred(d, s, w, h, m, n) ==
    Written(d, Area(w, h), LAMBDA c : Index(d.stride, c),
            LAMBDA c : Read(s.data, Index(s.stride, <<((2 * c[1] + 1) * m) \div (2 * w),
                                                      ((2 * c[2] + 1) * n) \div (2 * h)>>)))

LEMMA ThinnedIn ==
    ASSUME NEW w \in Nat, NEW h \in Nat, NEW m \in Nat, NEW n \in Nat, m # 0 \/ w = 0, n # 0 \/ h = 0,
           NEW d, NEW s, PlaneIn(d, w, h), PlaneIn(s, m, n)
    PROVE  PlaneIn(Thinned(d, s, w, h, m, n), w, h)
<1> DEFINE cells == Area(w, h)
           Val(c) == Read(s.data, Index(s.stride, <<(c[1] * m) \div w, (c[2] * n) \div h>>))
<1> DEFINE at == {Index(d.stride, c) : c \in cells}
           Pick(i) == CHOOSE c \in cells : Index(d.stride, c) = i
           new == [i \in DOMAIN d.data \cup at |-> IF i \in at THEN Val(Pick(i)) ELSE d.data[i]]
<1>1. Thinned(d, s, w, h, m, n) = [d EXCEPT !.data = new]
  BY DEF Thinned, Written
<1>2. ASSUME NEW c \in cells PROVE Index(d.stride, c) \in 0 .. w * h - 1 /\ Nowhere \notin Val(c)
  <2>1. PICK a \in 0 .. w - 1, b \in 0 .. h - 1 : c = <<a, b>>
    BY DEF Area
  <2>2. Index(d.stride, c) = b * w + a
    BY <2>1 DEF Index, PlaneIn, PlaneOK
  <2>3. b * w + a \in 0 .. w * h - 1
    BY IndexInside
  <2> DEFINE e == (a * m) \div w
             f == (b * n) \div h
  <2>4. m # 0 /\ n # 0
    OBVIOUS
  <2>5. e \in 0 .. m - 1 /\ f \in 0 .. n - 1
    BY <2>4, ScaleInside
  <2>6. Val(c) = Read(s.data, Index(s.stride, <<e, f>>))
    BY <2>1
  <2> HIDE DEF e, f, Val
  <2>7. Nowhere \notin Val(c)
    BY <2>5, <2>6, SampleIn
  <2> QED
    BY <2>2, <2>3, <2>7
<1>3. at \subseteq 0 .. w * h - 1
  BY <1>2
<1>4. \A i \in at : Nowhere \notin Val(Pick(i))
  <2>1. \A i \in at : Pick(i) \in cells
    OBVIOUS
  <2> HIDE DEF at, Pick, cells, Val
  <2> QED
    BY <2>1, <1>2
<1>5. \A i \in DOMAIN d.data : Nowhere \notin d.data[i]
  BY DEF PlaneIn, PlaneOK
<1> HIDE DEF at, Pick, cells, Val
<1>6. new = [i \in DOMAIN d.data \cup at |-> new[i]] /\ \A i \in DOMAIN d.data \cup at : Nowhere \notin new[i]
  BY <1>4, <1>5
<1> HIDE DEF new
<1>7. PlaneIn([d EXCEPT !.data = new], w, h)
  BY <1>3, <1>6, RelaidIn, Zenon
<1> QED
  BY <1>1, <1>7

LEMMA CentredIn ==
    ASSUME NEW w \in Nat, NEW h \in Nat, NEW m \in Nat, NEW n \in Nat, m # 0 \/ w = 0, n # 0 \/ h = 0,
           NEW d, NEW s, PlaneIn(d, w, h), PlaneIn(s, m, n)
    PROVE  PlaneIn(Centred(d, s, w, h, m, n), w, h)
<1> DEFINE cells == Area(w, h)
           Val(c) == Read(s.data, Index(s.stride, <<((2 * c[1] + 1) * m) \div (2 * w), ((2 * c[2] + 1) * n) \div (2 * h)>>))
<1> DEFINE at == {Index(d.stride, c) : c \in cells}
           Pick(i) == CHOOSE c \in cells : Index(d.stride, c) = i
           new == [i \in DOMAIN d.data \cup at |-> IF i \in at THEN Val(Pick(i)) ELSE d.data[i]]
<1>1. Centred(d, s, w, h, m, n) = [d EXCEPT !.data = new]
  BY DEF Centred, Written
<1>2. ASSUME NEW c \in cells PROVE Index(d.stride, c) \in 0 .. w * h - 1 /\ Nowhere \notin Val(c)
  <2>1. PICK a \in 0 .. w - 1, b \in 0 .. h - 1 : c = <<a, b>>
    BY DEF Area
  <2>2. Index(d.stride, c) = b * w + a
    BY <2>1 DEF Index, PlaneIn, PlaneOK
  <2>3. b * w + a \in 0 .. w * h - 1
    BY IndexInside
  <2> DEFINE e == ((2 * a + 1) * m) \div (2 * w)
             f == ((2 * b + 1) * n) \div (2 * h)
  <2>4. m # 0 /\ n # 0
    OBVIOUS
  <2>5. e \in 0 .. m - 1 /\ f \in 0 .. n - 1
    BY <2>4, ScaleInside
  <2>6. Val(c) = Read(s.data, Index(s.stride, <<e, f>>))
    BY <2>1
  <2> HIDE DEF e, f, Val
  <2>7. Nowhere \notin Val(c)
    BY <2>5, <2>6, SampleIn
  <2> QED
    BY <2>2, <2>3, <2>7
<1>3. at \subseteq 0 .. w * h - 1
  BY <1>2
<1>4. \A i \in at : Nowhere \notin Val(Pick(i))
  <2>1. \A i \in at : Pick(i) \in cells
    OBVIOUS
  <2> HIDE DEF at, Pick, cells, Val
  <2> QED
    BY <2>1, <1>2
<1>5. \A i \in DOMAIN d.data : Nowhere \notin d.data[i]
  BY DEF PlaneIn, PlaneOK
<1> HIDE DEF at, Pick, cells, Val
<1>6. new = [i \in DOMAIN d.data \cup at |-> new[i]] /\ \A i \in DOMAIN d.data \cup at : Nowhere \notin new[i]
  BY <1>4, <1>5
<1> HIDE DEF new
<1>7. PlaneIn([d EXCEPT !.data = new], w, h)
  BY <1>3, <1>6, RelaidIn, Zenon
<1> QED
  BY <1>1, <1>7

\* With at least two columns and rows there is chroma to take.
LEMMA ScaleWhole ==
    ASSUME NEW p, NEW m, NEW n, Whole(p, m, n), m >= 2, n >= 2, NEW w \in Nat, NEW h \in Nat
    PROVE  /\ Whole(Scale(p, w, h), w, h)
           /\ m % 2 = 0 /\ n % 2 = 0 /\ w % 2 = 0 /\ h % 2 = 0 => Whole(LibyuvScale(p, w, h), w, h)
<1> DEFINE N == I420New(w, h)
           F(w1, h1, m1, n1, w2, h2, m2, n2) ==
              [N EXCEPT !.y = Thinned(N.y, p.y, w1, h1, m1, n1),
                        !.u = Thinned(N.u, p.u, w2, h2, m2, n2), !.v = Thinned(N.v, p.v, w2, h2, m2, n2)]
           G(w1, h1, m1, n1, w2, h2, m2, n2) ==
              [N EXCEPT !.y = Centred(N.y, p.y, w1, h1, m1, n1),
                        !.u = Centred(N.u, p.u, w2, h2, m2, n2), !.v = Centred(N.v, p.v, w2, h2, m2, n2)]
<1>1. /\ m \in Nat /\ n \in Nat /\ p.w = m /\ p.h = n
      /\ PlaneIn(p.y, m, n) /\ PlaneIn(p.u, m \div 2, n \div 2) /\ PlaneIn(p.v, m \div 2, n \div 2)
  BY DEF Whole
<1>2. /\ w \div 2 \in Nat /\ h \div 2 \in Nat /\ m \div 2 \in Nat /\ n \div 2 \in Nat
      /\ m # 0 /\ n # 0 /\ m \div 2 # 0 /\ n \div 2 # 0
      /\ w \div 1 = w /\ h \div 1 = h /\ m \div 1 = m /\ n \div 1 = n
  BY <1>1
<1>3. Whole(N, w, h)
  BY NewIsWhole
<1>4. PlaneIn(N.y, w, h) /\ PlaneIn(N.u, w \div 2, h \div 2) /\ PlaneIn(N.v, w \div 2, h \div 2)
  BY <1>3 DEF Whole
<1>5. Scale(p, w, h) = F(w \div 1, h \div 1, p.w \div 1, p.h \div 1, w \div 2, h \div 2, p.w \div 2, p.h \div 2)
  BY DEF Scale, Planewise, Thinned, Down, Same
<1>6. LibyuvScale(p, w, h)
        = G(Up(w, 1), Up(h, 1), Up(p.w, 1), Up(p.h, 1), Up(w, 2), Up(h, 2), Up(p.w, 2), Up(p.h, 2))
  BY DEF LibyuvScale, Planewise, Centred, Same
<1> HIDE DEF N
<1>7. Scale(p, w, h) = F(w, h, m, n, w \div 2, h \div 2, m \div 2, n \div 2)
  <2> HIDE DEF F
  <2> QED
    BY <1>1, <1>2, <1>5
<1>8. ASSUME m % 2 = 0, n % 2 = 0, w % 2 = 0, h % 2 = 0
      PROVE  LibyuvScale(p, w, h) = G(w, h, m, n, w \div 2, h \div 2, m \div 2, n \div 2)
  <2>1. /\ Up(w, 1) = w /\ Up(h, 1) = h /\ Up(m, 1) = m /\ Up(n, 1) = n
        /\ Up(w, 2) = w \div 2 /\ Up(h, 2) = h \div 2 /\ Up(m, 2) = m \div 2 /\ Up(n, 2) = n \div 2
    BY <1>1, <1>8, HalvesAndWholes
  <2> HIDE DEF G
  <2> QED
    BY <1>1, <1>6, <2>1
<1>9. /\ PlaneIn(Thinned(N.y, p.y, w, h, m, n), w, h)
      /\ PlaneIn(Thinned(N.u, p.u, w \div 2, h \div 2, m \div 2, n \div 2), w \div 2, h \div 2)
      /\ PlaneIn(Thinned(N.v, p.v, w \div 2, h \div 2, m \div 2, n \div 2), w \div 2, h \div 2)
  BY <1>1, <1>2, <1>4, ThinnedIn
<1>10. /\ PlaneIn(Centred(N.y, p.y, w, h, m, n), w, h)
       /\ PlaneIn(Centred(N.u, p.u, w \div 2, h \div 2, m \div 2, n \div 2), w \div 2, h \div 2)
       /\ PlaneIn(Centred(N.v, p.v, w \div 2, h \div 2, m \div 2, n \div 2), w \div 2, h \div 2)
  BY <1>1, <1>2, <1>4, CentredIn
<1>11. Whole(F(w, h, m, n, w \div 2, h \div 2, m \div 2, n \div 2), w, h)
  BY <1>3, <1>9, WholeReplaced
<1>12. Whole(G(w, h, m, n, w \div 2, h \div 2, m \div 2, n \div 2), w, h)
  BY <1>3, <1>10, WholeReplaced
<1> HIDE DEF F, G
<1> QED
  BY <1>7, <1>8, <1>11, <1>12

\* A crop that is inside the picture takes what is inside each plane.
LEMMA CutOutIn ==
    ASSUME NEW w \in Nat, NEW h \in Nat, NEW m \in Nat, NEW n \in Nat, NEW x \in Nat, NEW y \in Nat,
           x + w <= m, y + h <= n, NEW d, NEW s, PlaneIn(d, w, h), PlaneIn(s, m, n)
    PROVE  /\ PlaneIn(CutOut(d, d.stride, s, x, y, w, h), w, h)
           /\ PlaneIn(CutRows(d, d.stride, s, y * s.stride + x, w, h), w, h)
<1> DEFINE r == CutOut(d, d.stride, s, x, y, w, h)
           off == y * s.stride + x
           q == CutRows(d, d.stride, s, off, w, h)
<1>1. d.stride = w /\ PlaneOK(d, w, h) /\ s.stride = m
  BY DEF PlaneIn, PlaneOK
<1>2. /\ PlaneOK(r, w, h)
      /\ \A a \in 0 .. w - 1, b \in 0 .. h - 1 : Sample(r, w, a, b) = Read(s.data, Index(s.stride, <<x + a, y + b>>))
  BY <1>1, CutOutSamples
<1>3. /\ PlaneOK(q, w, h)
      /\ \A a \in 0 .. w - 1, b \in 0 .. h - 1 : Sample(q, w, a, b) = Read(s.data, off + Index(s.stride, <<a, b>>))
  BY <1>1, CutRowsSamples
<1>4. ASSUME NEW a \in 0 .. w - 1, NEW b \in 0 .. h - 1
      PROVE  /\ Nowhere \notin Read(s.data, Index(s.stride, <<x + a, y + b>>))
             /\ off + Index(s.stride, <<a, b>>) = Index(s.stride, <<x + a, y + b>>)
  <2>1. x + a \in 0 .. m - 1 /\ y + b \in 0 .. n - 1
    OBVIOUS
  <2>2. Nowhere \notin Read(s.data, Index(s.stride, <<x + a, y + b>>))
    BY <2>1, SampleIn
  <2>3. Index(s.stride, <<x + a, y + b>>) = (y + b) * m + (x + a) /\ Index(s.stride, <<a, b>>) = b * m + a
    BY <1>1 DEF Index
  <2>4. (y + b) * m = y * m + b * m /\ y * m \in Nat /\ b * m \in Nat
    OBVIOUS
  <2> QED
    BY <1>1, <2>2, <2>3, <2>4
<1> HIDE DEF r, q, off
<1>5. PlaneIn(r, w, h)
  BY <1>2, <1>4, SamplesIn
<1>6. PlaneIn(q, w, h)
  <2>1. ASSUME NEW a \in 0 .. w - 1, NEW b \in 0 .. h - 1 PROVE Nowhere \notin Sample(q, w, a, b)
    <3>1. Sample(q, w, a, b) = Read(s.data, off + Index(s.stride, <<a, b>>))
      BY <1>3
    <3> QED
      BY <1>4, <3>1
  <2> QED
    BY <1>3, <2>1, SamplesIn
<1> QED
  BY <1>5, <1>6 DEF r, q, off

LEMMA CropWhole ==
    ASSUME NEW p, NEW m, NEW n, Whole(p, m, n), NEW w \in Nat, NEW h \in Nat, NEW x \in Nat, NEW y \in Nat,
           x + w <= m, y + h <= n
    PROVE  Whole(Crop(p, x, y, w, h), w, h) /\ Whole(LibyuvCrop(p, x, y, w, h), w, h)
<1> DEFINE N == I420New(w, h)
           F(w1, h1, x1, y1, w2, h2, x2, y2) ==
              [N EXCEPT !.y = CutOut(N.y, N.y.stride, p.y, x1, y1, w1, h1),
                        !.u = CutOut(N.u, N.u.stride, p.u, x2, y2, w2, h2),
                        !.v = CutOut(N.v, N.v.stride, p.v, x2, y2, w2, h2)]
           G(w1, h1, x1, y1, w2, h2, x2, y2) ==
              [N EXCEPT !.y = CutRows(N.y, N.y.stride, p.y, y1 * p.y.stride + x1, w1, h1),
                        !.u = CutRows(N.u, N.u.stride, p.u, y2 * p.u.stride + x2, w2, h2),
                        !.v = CutRows(N.v, N.v.stride, p.v, y2 * p.v.stride + x2, w2, h2)]
<1>1. /\ m \in Nat /\ n \in Nat
      /\ PlaneIn(p.y, m, n) /\ PlaneIn(p.u, m \div 2, n \div 2) /\ PlaneIn(p.v, m \div 2, n \div 2)
  BY DEF Whole
<1>2. /\ w \div 2 \in Nat /\ h \div 2 \in Nat /\ m \div 2 \in Nat /\ n \div 2 \in Nat
      /\ x \div 2 \in Nat /\ y \div 2 \in Nat
      /\ x \div 2 + w \div 2 <= m \div 2 /\ y \div 2 + h \div 2 <= n \div 2
      /\ w \div 1 = w /\ h \div 1 = h /\ x \div 1 = x /\ y \div 1 = y
  BY <1>1
<1>3. Whole(N, w, h)
  BY NewIsWhole
<1>4. PlaneIn(N.y, w, h) /\ PlaneIn(N.u, w \div 2, h \div 2) /\ PlaneIn(N.v, w \div 2, h \div 2)
  BY <1>3 DEF Whole
<1>5. Crop(p, x, y, w, h) = F(w \div 1, h \div 1, x \div 1, y \div 1, w \div 2, h \div 2, x \div 2, y \div 2)
  BY DEF Crop, Planewise, CutOut, Down, Same
<1>6. LibyuvCrop(p, x, y, w, h) = G(w \div 1, h \div 1, x \div 1, y \div 1, w \div 2, h \div 2, x \div 2, y \div 2)
  BY DEF LibyuvCrop, CutRows
<1> HIDE DEF N
<1>7. /\ Crop(p, x, y, w, h) = F(w, h, x, y, w \div 2, h \div 2, x \div 2, y \div 2)
      /\ LibyuvCrop(p, x, y, w, h) = G(w, h, x, y, w \div 2, h \div 2, x \div 2, y \div 2)
  <2> HIDE DEF F, G
  <2> QED
    BY <1>2, <1>5, <1>6
<1>8. /\ PlaneIn(CutOut(N.y, N.y.stride, p.y, x, y, w, h), w, h)
      /\ PlaneIn(CutRows(N.y, N.y.stride, p.y, y * p.y.stride + x, w, h), w, h)
  BY <1>1, <1>4, CutOutIn
<1>9. /\ PlaneIn(CutOut(N.u, N.u.stride, p.u, x \div 2, y \div 2, w \div 2, h \div 2), w \div 2, h \div 2)
      /\ PlaneIn(CutRows(N.u, N.u.stride, p.u, (y \div 2) * p.u.stride + x \div 2, w \div 2, h \div 2), w \div 2, h \div 2)
  BY <1>1, <1>2, <1>4, CutOutIn
<1>10. /\ PlaneIn(CutOut(N.v, N.v.stride, p.v, x \div 2, y \div 2, w \div 2, h \div 2), w \div 2, h \div 2)
       /\ PlaneIn(CutRows(N.v, N.v.stride, p.v, (y \div 2) * p.v.stride + x \div 2, w \div 2, h \div 2), w \div 2, h \div 2)
  BY <1>1, <1>2, <1>4, CutOutIn
<1>11. Whole(F(w, h, x, y, w \div 2, h \div 2, x \div 2, y \div 2), w, h)
  BY <1>3, <1>8, <1>9, <1>10, WholeReplaced
<1>12. Whole(G(w, h, x, y, w \div 2, h \div 2, x \div 2, y \div 2), w, h)
  BY <1>3, <1>8, <1>9, <1>10, WholeReplaced
<1> HIDE DEF F, G
<1> QED
  BY <1>7, <1>11, <1>12


\* Mirrors and turns take every sample of the result from the original.
LEMMA MirrorWhole ==
    ASSUME NEW p, NEW m, NEW n, Whole(p, m, n)
    PROVE  Whole(Mirror(p), m, n)
<1> DEFINE N == I420New(m, n)
           q == Mirror(p)
<1>1. /\ m \in Nat /\ n \in Nat /\ m \div 2 \in Nat /\ n \div 2 \in Nat
      /\ PlaneIn(p.y, m, n) /\ PlaneIn(p.u, m \div 2, n \div 2) /\ PlaneIn(p.v, m \div 2, n \div 2)
  BY DEF Whole
<1>2. Framed(p) /\ p.w = m /\ p.h = n
  BY WholeIsWellFormed
<1>3. /\ Framed(q) /\ q.w = m /\ q.h = n
      /\ q.y = Flipped(N.y, p.y, m, n)
      /\ q.u = Flipped(N.u, p.u, m \div 2, n \div 2) /\ q.v = Flipped(N.v, p.v, m \div 2, n \div 2)
  BY <1>2, MirrorPlanes
<1>4. PlaneOK(N.y, m, n) /\ PlaneOK(N.u, m \div 2, n \div 2) /\ PlaneOK(N.v, m \div 2, n \div 2)
  BY <1>1, PlanesOfNew
<1> HIDE DEF N, q
<1>5. ASSUME NEW w \in Nat, NEW h \in Nat, NEW d, NEW s, PlaneOK(d, w, h), PlaneIn(s, w, h)
      PROVE  PlaneIn(Flipped(d, s, w, h), w, h)
  <2> DEFINE r == Flipped(d, s, w, h)
  <2>1. /\ PlaneOK(r, w, h)
        /\ \A a \in 0 .. w - 1, b \in 0 .. h - 1 : Sample(r, w, a, b) = Sample(s, w, w - 1 - a, b)
    BY <1>5, FlippedSamples DEF PlaneIn
  <2> HIDE DEF r
  <2>2. ASSUME NEW a \in 0 .. w - 1, NEW b \in 0 .. h - 1 PROVE Nowhere \notin Sample(r, w, a, b)
    <3>1. w - 1 - a \in 0 .. w - 1
      OBVIOUS
    <3>2. Nowhere \notin Sample(s, w, w - 1 - a, b)
      BY <1>5, <3>1, SampleIn
    <3> QED
      BY <2>1, <3>2
  <2>3. PlaneIn(r, w, h)
    BY <2>1, <2>2, SamplesIn
  <2> QED
    BY <2>3 DEF r
<1>6. PlaneIn(q.y, m, n) /\ PlaneIn(q.u, m \div 2, n \div 2) /\ PlaneIn(q.v, m \div 2, n \div 2)
  BY <1>1, <1>3, <1>4, <1>5
<1>7. Whole(q, m, n)
  BY <1>1, <1>3, <1>6 DEF Framed, Whole
<1> QED
  BY <1>7 DEF q

LEMMA SwungIn ==
    ASSUME NEW w \in Nat, NEW h \in Nat, NEW rot \in Turns, NEW d, NEW s,
           PlaneOK(d, TurnedW(w, h, rot), TurnedH(w, h, rot)), PlaneIn(s, w, h)
    PROVE  PlaneIn(Swung(d, s, w, h, rot), TurnedW(w, h, rot), TurnedH(w, h, rot))
<1> DEFINE r == Swung(d, s, w, h, rot)
<1>1. PlaneOK(s, w, h)
  BY DEF PlaneIn
<1>2. CASE rot \in {90, 270}
  <2>1. TurnedW(w, h, rot) = h /\ TurnedH(w, h, rot) = w
    BY <1>2 DEF TurnedW, TurnedH
  <2>2. /\ PlaneOK(Swung(d, s, w, h, 90), h, w) /\ PlaneOK(Swung(d, s, w, h, 270), h, w)
        /\ \A x \in 0 .. h - 1, y \in 0 .. w - 1 :
              /\ Sample(Swung(d, s, w, h, 90), h, x, y) = Sample(s, w, y, h - 1 - x)
              /\ Sample(Swung(d, s, w, h, 270), h, x, y) = Sample(s, w, w - 1 - y, x)
    BY <1>1, <2>1, SwungFrom
  <2>3. ASSUME NEW x \in 0 .. h - 1, NEW y \in 0 .. w - 1 PROVE Nowhere \notin Sample(r, h, x, y)
    <3>1. h - 1 - x \in 0 .. h - 1 /\ w - 1 - y \in 0 .. w - 1
      OBVIOUS
    <3>2. Nowhere \notin Sample(s, w, y, h - 1 - x) /\ Nowhere \notin Sample(s, w, w - 1 - y, x)
      BY <3>1, SampleIn
    <3> HIDE DEF r
    <3>3. rot = 90 => Sample(r, h, x, y) = Sample(s, w, y, h - 1 - x)
      BY <2>2 DEF r
    <3>4. rot = 270 => Sample(r, h, x, y) = Sample(s, w, w - 1 - y, x)
      BY <2>2 DEF r
    <3> QED
      BY <1>2, <3>2, <3>3, <3>4
  <2>4. PlaneOK(r, h, w)
    BY <1>2, <2>2
  <2> HIDE DEF r
  <2>5. PlaneIn(r, h, w)
    BY <2>3, <2>4, SamplesIn
  <2> QED
    BY <2>1, <2>5 DEF r
<1>3. CASE rot = 180
  <2>1. TurnedW(w, h, rot) = w /\ TurnedH(w, h, rot) = h
    BY <1>3 DEF TurnedW, TurnedH
  <2>2. /\ PlaneOK(r, w, h)
        /\ \A x \in 0 .. w - 1, y \in 0 .. h - 1 : Sample(r, w, x, y) = Sample(s, w, w - 1 - x, h - 1 - y)
    BY <1>1, <1>3, <2>1, SwungFrom
  <2> HIDE DEF r
  <2>3. ASSUME NEW x \in 0 .. w - 1, NEW y \in 0 .. h - 1 PROVE Nowhere \notin Sample(r, w, x, y)
    <3>1. h - 1 - y \in 0 .. h - 1 /\ w - 1 - x \in 0 .. w - 1
      OBVIOUS
    <3>2. Nowhere \notin Sample(s, w, w - 1 - x, h - 1 - y)
      BY <3>1, SampleIn
    <3> QED
      BY <2>2, <3>2
  <2>4. PlaneIn(r, w, h)
    BY <2>2, <2>3, SamplesIn
  <2> QED
    BY <2>1, <2>4 DEF r
<1> QED
  BY <1>2, <1>3 DEF Turns

LEMMA RotateWhole ==
    ASSUME NEW p, NEW m, NEW n, Whole(p, m, n), NEW rot \in Turns
    PROVE  Whole(Rotate(p, rot), TurnedW(m, n, rot), TurnedH(m, n, rot))
<1> DEFINE w == TurnedW(m, n, rot)
           h == TurnedH(m, n, rot)
           N == I420New(w, h)
           q == Rotate(p, rot)
<1>1. /\ m \in Nat /\ n \in Nat /\ m \div 2 \in Nat /\ n \div 2 \in Nat
      /\ PlaneIn(p.y, m, n) /\ PlaneIn(p.u, m \div 2, n \div 2) /\ PlaneIn(p.v, m \div 2, n \div 2)
  BY DEF Whole
<1>2. Framed(p) /\ p.w = m /\ p.h = n
  BY WholeIsWellFormed
<1>3. /\ Framed(q) /\ q.w = w /\ q.h = h
      /\ q.y = Swung(N.y, p.y, m, n, rot)
      /\ q.u = Swung(N.u, p.u, m \div 2, n \div 2, rot) /\ q.v = Swung(N.v, p.v, m \div 2, n \div 2, rot)
  BY <1>2, RotatePlanes
<1>4. /\ w \in Nat /\ h \in Nat
      /\ w \div 2 = TurnedW(m \div 2, n \div 2, rot) /\ h \div 2 = TurnedH(m \div 2, n \div 2, rot)
  BY <1>1 DEF TurnedW, TurnedH
<1>5. PlaneOK(N.y, w, h) /\ PlaneOK(N.u, w \div 2, h \div 2) /\ PlaneOK(N.v, w \div 2, h \div 2)
  BY <1>4, PlanesOfNew
<1> HIDE DEF N, q
<1>6. PlaneIn(q.y, w, h)
  BY <1>1, <1>3, <1>5, SwungIn
<1> HIDE DEF w, h
<1>7. PlaneIn(q.u, w \div 2, h \div 2) /\ PlaneIn(q.v, w \div 2, h \div 2)
  BY <1>1, <1>3, <1>4, <1>5, SwungIn
<1>8. Whole(q, w, h)
  BY <1>3, <1>4, <1>6, <1>7 DEF Framed, Whole
<1> QED
  BY <1>8 DEF q, w, h

\* A turn by nothing copies.
LEMMA UnturnedIn ==
    ASSUME NEW w \in Nat, NEW h \in Nat, NEW d, NEW s, PlaneIn(d, w, h), PlaneIn(s, w, h)
    PROVE  PlaneIn(Swung(d, s, w, h, 0), w, h)
<1> DEFINE cells == Area(w, h)
           To(c) == Index(d.stride, Turned(c, w, h, 0))
           Val(c) == Read(s.data, Index(s.stride, c))
<1> DEFINE at == {To(c) : c \in cells}
           Pick(i) == CHOOSE c \in cells : To(c) = i
           new == [i \in DOMAIN d.data \cup at |-> IF i \in at THEN Val(Pick(i)) ELSE d.data[i]]
<1>1. Swung(d, s, w, h, 0) = [d EXCEPT !.data = new]
  BY DEF Swung, Written
<1>2. ASSUME NEW c \in cells PROVE To(c) \in 0 .. w * h - 1 /\ Nowhere \notin Val(c)
  <2>1. PICK a \in 0 .. w - 1, b \in 0 .. h - 1 : c = <<a, b>>
    BY DEF Area
  <2>2. Turned(c, w, h, 0) = c
    BY DEF Turned
  <2>3. To(c) = b * w + a
    BY <2>1, <2>2 DEF Index, PlaneIn, PlaneOK
  <2>4. b * w + a \in 0 .. w * h - 1
    BY IndexInside
  <2>5. Nowhere \notin Val(c)
    BY <2>1, SampleIn
  <2> HIDE DEF To, Val
  <2> QED
    BY <2>3, <2>4, <2>5
<1>3. at \subseteq 0 .. w * h - 1
  BY <1>2
<1>4. \A i \in at : Nowhere \notin Val(Pick(i))
  <2>1. \A i \in at : Pick(i) \in cells
    OBVIOUS
  <2> HIDE DEF at, Pick, cells, To, Val
  <2> QED
    BY <2>1, <1>2
<1>5. \A i \in DOMAIN d.data : Nowhere \notin d.data[i]
  BY DEF PlaneIn, PlaneOK
<1> HIDE DEF at, Pick, cells, To, Val
<1>6. new = [i \in DOMAIN d.data \cup at |-> new[i]] /\ \A i \in DOMAIN d.data \cup at : Nowhere \notin new[i]
  BY <1>4, <1>5
<1> HIDE DEF new
<1>7. PlaneIn([d EXCEPT !.data = new], w, h)
  BY <1>3, <1>6, RelaidIn, Zenon
<1> QED
  BY <1>1, <1>7

LEMMA UnturnedWhole ==
    ASSUME NEW p, NEW m, NEW n, Whole(p, m, n)
    PROVE  /\ Whole(Rotate(p, 0), m, n)
           /\ m % 2 = 0 /\ n % 2 = 0 => Whole(LibyuvRotate(p, 0), m, n)
<1> DEFINE N == TurnedBuffer(p, 0)
           F(w1, h1, w2, h2) ==
              [N EXCEPT !.y = Swung(N.y, p.y, w1, h1, 0),
                        !.u = Swung(N.u, p.u, w2, h2, 0), !.v = Swung(N.v, p.v, w2, h2, 0)]
<1>1. /\ m \in Nat /\ n \in Nat /\ p.w = m /\ p.h = n /\ m \div 2 \in Nat /\ n \div 2 \in Nat
      /\ PlaneIn(p.y, m, n) /\ PlaneIn(p.u, m \div 2, n \div 2) /\ PlaneIn(p.v, m \div 2, n \div 2)
  BY DEF Whole
<1>2. Rotate(p, 0) = F(p.w \div 1, p.h \div 1, p.w \div 2, p.h \div 2)
  BY DEF Rotate, Planewise, Swung, Down, Same
<1>3. LibyuvRotate(p, 0) = F(Up(p.w, 1), Up(p.h, 1), Up(p.w, 2), Up(p.h, 2))
  BY DEF LibyuvRotate, Planewise, Swung, Same
<1>4. Whole(N, m, n)
  BY <1>1, NewIsWhole DEF TurnedBuffer
<1> HIDE DEF N, F
<1>5. /\ Rotate(p, 0) = F(m \div 1, n \div 1, m \div 2, n \div 2)
      /\ LibyuvRotate(p, 0) = F(Up(m, 1), Up(n, 1), Up(m, 2), Up(n, 2))
  BY <1>1, <1>2, <1>3
<1> USE DEF F
<1>6. /\ m \div 1 = m /\ n \div 1 = n /\ Up(m, 1) = m /\ Up(n, 1) = n
      /\ m % 2 = 0 /\ n % 2 = 0 => Up(m, 2) = m \div 2 /\ Up(n, 2) = n \div 2
  BY <1>1, HalvesAndWholes
<1>7. PlaneIn(N.y, m, n) /\ PlaneIn(N.u, m \div 2, n \div 2) /\ PlaneIn(N.v, m \div 2, n \div 2)
  BY <1>4 DEF Whole
<1>8. /\ PlaneIn(Swung(N.y, p.y, m, n, 0), m, n)
      /\ PlaneIn(Swung(N.u, p.u, m \div 2, n \div 2, 0), m \div 2, n \div 2)
      /\ PlaneIn(Swung(N.v, p.v, m \div 2, n \div 2, 0), m \div 2, n \div 2)
  BY <1>1, <1>7, UnturnedIn
<1>9. Whole(F(m, n, m \div 2, n \div 2), m, n)
  BY <1>4, <1>8, WholeReplaced
<1> HIDE DEF F
<1> QED
  BY <1>5, <1>6, <1>9

\* The transforms of the backend in use, of a picture that it can take: any but
\* an odd one of libyuv's.  Scaling also needs two columns and rows to take
\* chroma from.
Takes(w, h) == backend = "native" \/ (w % 2 = 0 /\ h % 2 = 0)

LEMMA EditedWhole ==
    ASSUME NEW p, NEW m, NEW n, Whole(p, m, n), backend \in {"native", "libyuv"}, Takes(m, n)
    PROVE  /\ Whole(Mirrored(p), m, n) /\ Whole(NV12RoundTrip(p), m, n)
           /\ \A rot \in Turns \cup {0} : Whole(Rotated(p, rot), TurnedW(m, n, rot), TurnedH(m, n, rot))
           /\ \A x, y, w, h \in Nat : x + w <= m /\ y + h <= n => Whole(Cropped(p, x, y, w, h), w, h)
           /\ m >= 2 /\ n >= 2 =>
                 \A w, h \in Nat : /\ Whole(BufferScale(p, w, h), w, h)
                                   /\ Takes(w, h) => Whole(ScaledTo(p, w, h), w, h)
<1>1. Framed(p) /\ p.w = m /\ p.h = n
  BY WholeIsWellFormed
<1>2. /\ Mirrored(p) = Mirror(p) /\ \A rot \in Turns : Rotated(p, rot) = Rotate(p, rot)
      /\ NV12RoundTrip(p) = p
  <2>1. backend = "native" \/ Even(p)
    BY <1>1 DEF Takes, Even
  <2> QED
    BY <1>1, <2>1, BackendsAgree
<1>3. Whole(Mirrored(p), m, n) /\ Whole(NV12RoundTrip(p), m, n)
  BY <1>2, MirrorWhole
<1>4. ASSUME NEW rot \in Turns PROVE Whole(Rotated(p, rot), TurnedW(m, n, rot), TurnedH(m, n, rot))
  BY <1>2, RotateWhole
<1>5. Whole(Rotated(p, 0), TurnedW(m, n, 0), TurnedH(m, n, 0))
  BY UnturnedWhole DEF Rotated, Takes, TurnedW, TurnedH
<1>6. ASSUME NEW x \in Nat, NEW y \in Nat, NEW w \in Nat, NEW h \in Nat, x + w <= m, y + h <= n
      PROVE  Whole(Cropped(p, x, y, w, h), w, h)
  BY <1>6, CropWhole DEF Cropped
<1>7. ASSUME m >= 2, n >= 2, NEW w \in Nat, NEW h \in Nat
      PROVE  /\ Whole(BufferScale(p, w, h), w, h)
             /\ Takes(w, h) => Whole(ScaledTo(p, w, h), w, h)
  BY <1>7, ScaleWhole DEF BufferScale, ScaledTo, Takes
<1> QED
  BY <1>3, <1>4, <1>5, <1>6, <1>7


\* Rectangles inside a plane, and the places of their cells.
LEMMA RectIn ==
    ASSUME NEW w \in Int, NEW h \in Int, NEW x0 \in Int, NEW x1 \in Int, NEW y0 \in Int, NEW y1 \in Int,
           x0 >= 0, x1 <= w, y0 >= 0, y1 <= h
    PROVE  Rect(x0, x1, y0, y1) \subseteq Area(w, h)
<1>1. x0 .. x1 - 1 \subseteq 0 .. w - 1 /\ y0 .. y1 - 1 \subseteq 0 .. h - 1
  OBVIOUS
<1> QED
  BY <1>1 DEF Rect, Area

LEMMA PlacesIn ==
    ASSUME NEW w \in Nat, NEW h \in Nat, NEW d, PlaneIn(d, w, h), NEW all, all \subseteq Area(w, h)
    PROVE  {Index(d.stride, c) : c \in all} \subseteq 0 .. w * h - 1
<1> SUFFICES ASSUME NEW c \in all PROVE Index(d.stride, c) \in 0 .. w * h - 1
  OBVIOUS
<1>1. PICK a \in 0 .. w - 1, b \in 0 .. h - 1 : c = <<a, b>>
  BY DEF Area
<1>2. Index(d.stride, c) = b * w + a
  BY <1>1 DEF Index, PlaneIn, PlaneOK
<1> QED
  BY <1>2, IndexInside

\* No paint shows what is outside.
LEMMA PaintsIn ==
    /\ \A i : Nowhere \notin Bar(i) /\ Nowhere \notin Square(i)
    /\ Nowhere \notin Background /\ Nowhere \notin Gradient /\ Nowhere \notin Text
    /\ Nowhere \notin Label /\ Nowhere \notin Neutral
BY DEF Nowhere, Bar, Square, Background, Gradient, Text, Label, Neutral

LEMMA FilledPlaneIn ==
    ASSUME NEW w, NEW h, NEW d, PlaneIn(d, w, h), NEW paint, Nowhere \notin paint
    PROVE  PlaneIn(Filled(d, paint), w, h)
<1> DEFINE data == [i \in DOMAIN d.data |-> paint]
           at == {}
<1>1. Filled(d, paint) = [d EXCEPT !.data = data]
  BY DEF Filled
<1>2. DOMAIN d.data \cup at = DOMAIN d.data /\ at \subseteq 0 .. w * h - 1
  OBVIOUS
<1>3. data = [i \in DOMAIN d.data |-> data[i]] /\ \A i \in DOMAIN d.data : Nowhere \notin data[i]
  OBVIOUS
<1> HIDE DEF data, at
<1>4. data = [i \in DOMAIN d.data \cup at |-> data[i]] /\ \A i \in DOMAIN d.data \cup at : Nowhere \notin data[i]
  BY <1>2, <1>3
<1>5. PlaneIn([d EXCEPT !.data = data], w, h)
  BY <1>2, <1>4, RelaidIn, Zenon
<1> QED
  BY <1>1, <1>5

\* Colour bars keep to a picture of at least two columns.
LEMMA BarsWhole ==
    ASSUME NEW p, NEW w, NEW h, Whole(p, w, h), w >= 2
    PROVE  Whole(SmpteBars(p), w, h)
<1> DEFINE halfW == p.w \div 2
           barH == (p.h * 2) \div 3
           barW == IF p.w >= Bars THEN p.w \div Bars ELSE 1
           BarStart(i) == i * barW
           End(i) == IF i = Bars - 1 THEN p.w ELSE Least((i + 1) * barW, p.w)
           HalfStart(i) == Least(BarStart(i) \div 2, Minus(halfW, 1))
           HalfEnd(i) == Most(Least(End(i) \div 2, halfW), HalfStart(i) + 1)
           LumaOf(i) == IF i < Bars THEN Rect(BarStart(i), End(i), 0, barH) ELSE Rect(0, p.w, barH, p.h)
           ChromaOf(i) ==
               IF i < Bars THEN Rect(HalfStart(i), HalfEnd(i), 0, barH \div 2)
                           ELSE {c \in Rect(0, halfW, barH \div 2, p.h) : c[2] < p.h \div 2}
           A == Painted(p.y, 0 .. Bars, LumaOf, LAMBDA i : IF i < Bars THEN Bar(i) ELSE Gradient)
           Chroma(x) == Painted(x, 0 .. Bars, ChromaOf, LAMBDA i : IF i < Bars THEN Bar(i) ELSE Neutral)
<1>0. /\ w \in Nat /\ h \in Nat /\ w \div 2 \in Nat /\ h \div 2 \in Nat /\ p.w = w /\ p.h = h
      /\ PlaneIn(p.y, w, h) /\ PlaneIn(p.u, w \div 2, h \div 2) /\ PlaneIn(p.v, w \div 2, h \div 2)
  BY DEF Whole
<1>1. SmpteBars(p) = [p EXCEPT !.y = A, !.u = Chroma(p.u), !.v = Chroma(p.v)]
  BY DEF SmpteBars
<1>2. halfW = w \div 2 /\ halfW >= 1 /\ barH \in Nat /\ barH <= h /\ barH \div 2 \in Nat /\ barH \div 2 <= h \div 2
  BY <1>0
<1>3. barW \in Nat
  BY <1>0, PatternConstantsOK
<1> HIDE DEF barH, barW, halfW
<1>4. ASSUME NEW i \in 0 .. Bars, i < Bars
      PROVE  /\ BarStart(i) \in Nat /\ End(i) \in Nat /\ End(i) <= w
             /\ HalfStart(i) \in Nat /\ HalfEnd(i) \in Nat /\ HalfEnd(i) <= w \div 2
  <2>1. i \in Nat /\ i * barW \in Nat /\ (i + 1) * barW \in Nat
    BY <1>3
  <2>2. BarStart(i) \in Nat /\ End(i) \in Nat /\ End(i) <= w
    BY <1>0, <2>1 DEF Least
  <2> HIDE DEF BarStart, End
  <2>3. Minus(halfW, 1) = halfW - 1 /\ halfW - 1 \in Nat /\ BarStart(i) \div 2 \in Nat /\ End(i) \div 2 \in Nat
    BY <1>0, <1>2, <2>2 DEF Minus, Most
  <2>4. HalfStart(i) \in Nat /\ HalfStart(i) <= halfW - 1
    BY <2>3 DEF Least
  <2> HIDE DEF HalfStart
  <2>5. HalfEnd(i) \in Nat /\ HalfEnd(i) <= halfW
    BY <1>0, <1>2, <2>3, <2>4 DEF Least, Most
  <2> QED
    BY <1>2, <2>2, <2>4, <2>5
<1> HIDE DEF BarStart, End, HalfStart, HalfEnd
<1>5. PlaneIn(A, w, h)
  <2> DEFINE d == p.y
             all == UNION {LumaOf(k) : k \in 0 .. Bars}
             at == {Index(d.stride, c) : c \in all}
             Top(c) == CHOOSE k \in 0 .. Bars : c \in LumaOf(k) /\ \A j \in 0 .. Bars : c \in LumaOf(j) => j <= k
             New(i) == IF Top(CHOOSE c \in all : Index(d.stride, c) = i) < Bars THEN Bar(Top(CHOOSE c \in all : Index(d.stride, c) = i)) ELSE Gradient
             data == [i \in DOMAIN d.data \cup at |-> IF i \in at THEN New(i) ELSE d.data[i]]
  <2>1. A = [d EXCEPT !.data = data]
    <3> HIDE DEF LumaOf
    <3> QED
      BY DEF Painted, Written
  <2>2. PlaneIn(d, w, h)
    BY <1>0
  <2>3. all \subseteq Area(w, h)
    <3> SUFFICES ASSUME NEW k \in 0 .. Bars PROVE LumaOf(k) \subseteq Area(w, h)
      OBVIOUS
    <3>1. CASE k < Bars
      <4>1. Rect(BarStart(k), End(k), 0, barH) \subseteq Area(w, h)
        BY <1>0, <1>2, <1>4, <3>1, RectIn
      <4> QED
        BY <3>1, <4>1
    <3>2. CASE ~(k < Bars)
      <4>1. w \in Int /\ h \in Int /\ 0 \in Int /\ barH \in Int /\ 0 >= 0 /\ barH >= 0 /\ w <= w /\ h <= h
        BY <1>0, <1>2
      <4>2. Rect(0, w, barH, h) \subseteq Area(w, h)
        BY <4>1, RectIn, Zenon
      <4> QED
        BY <1>0, <3>2, <4>2
    <3> QED
      BY <3>1, <3>2
  <2>4. \A i : Nowhere \notin New(i)
    BY PaintsIn
  <2> HIDE DEF New, all, d
  <2>5. at \subseteq 0 .. w * h - 1
    BY <1>0, <2>2, <2>3, PlacesIn
  <2>6. \A i \in DOMAIN d.data : Nowhere \notin d.data[i]
    BY <2>2 DEF PlaneIn, PlaneOK
  <2> HIDE DEF at
  <2>7. data = [i \in DOMAIN d.data \cup at |-> data[i]] /\ \A i \in DOMAIN d.data \cup at : Nowhere \notin data[i]
    BY <2>4, <2>6
  <2> HIDE DEF data
  <2>8. PlaneIn([d EXCEPT !.data = data], w, h)
    BY <2>2, <2>5, <2>7, RelaidIn, Zenon
  <2> QED
    BY <2>1, <2>8
<1>6. ASSUME NEW x, PlaneIn(x, w \div 2, h \div 2) PROVE PlaneIn(Chroma(x), w \div 2, h \div 2)
  <2> DEFINE d == x
             all == UNION {ChromaOf(k) : k \in 0 .. Bars}
             at == {Index(d.stride, c) : c \in all}
             Top(c) == CHOOSE k \in 0 .. Bars : c \in ChromaOf(k) /\ \A j \in 0 .. Bars : c \in ChromaOf(j) => j <= k
             New(i) == IF Top(CHOOSE c \in all : Index(d.stride, c) = i) < Bars THEN Bar(Top(CHOOSE c \in all : Index(d.stride, c) = i)) ELSE Neutral
             data == [i \in DOMAIN d.data \cup at |-> IF i \in at THEN New(i) ELSE d.data[i]]
  <2>1. Chroma(x) = [d EXCEPT !.data = data]
    <3> HIDE DEF ChromaOf
    <3> QED
      BY DEF Painted, Written
  <2>2. PlaneIn(d, (w \div 2), (h \div 2))
    BY <1>6
  <2>3. all \subseteq Area((w \div 2), (h \div 2))
    <3> SUFFICES ASSUME NEW k \in 0 .. Bars PROVE ChromaOf(k) \subseteq Area(w \div 2, h \div 2)
      OBVIOUS
    <3>1. CASE k < Bars
      <4>1. Rect(HalfStart(k), HalfEnd(k), 0, barH \div 2) \subseteq Area(w \div 2, h \div 2)
        BY <1>0, <1>2, <1>4, <3>1, RectIn
      <4> QED
        BY <3>1, <4>1
    <3>2. CASE ~(k < Bars)
      <4>1. Rect(0, halfW, barH \div 2, p.h) \subseteq Area(w \div 2, h)
        BY <1>0, <1>2, RectIn
      <4>2. \A c \in Area(w \div 2, h) : c[2] < p.h \div 2 => c \in Area(w \div 2, h \div 2)
        BY <1>0 DEF Area
      <4> QED
        BY <3>2, <4>1, <4>2
    <3> QED
      BY <3>1, <3>2
  <2>4. \A i : Nowhere \notin New(i)
    BY PaintsIn
  <2> HIDE DEF New, all, d
  <2>5. at \subseteq 0 .. (w \div 2) * (h \div 2) - 1
    BY <1>0, <2>2, <2>3, PlacesIn
  <2>6. \A i \in DOMAIN d.data : Nowhere \notin d.data[i]
    BY <2>2 DEF PlaneIn, PlaneOK
  <2> HIDE DEF at
  <2>7. data = [i \in DOMAIN d.data \cup at |-> data[i]] /\ \A i \in DOMAIN d.data \cup at : Nowhere \notin data[i]
    BY <2>4, <2>6
  <2> HIDE DEF data
  <2>8. PlaneIn([d EXCEPT !.data = data], (w \div 2), (h \div 2))
    BY <2>2, <2>5, <2>7, RelaidIn, Zenon
  <2> QED
    BY <2>1, <2>8
<1> HIDE DEF A, Chroma
<1>7. PlaneIn(Chroma(p.u), w \div 2, h \div 2) /\ PlaneIn(Chroma(p.v), w \div 2, h \div 2)
  BY <1>0, <1>6
<1>8. Whole([p EXCEPT !.y = A, !.u = Chroma(p.u), !.v = Chroma(p.v)], w, h)
  BY <1>5, <1>7, WholeReplaced
<1> QED
  BY <1>1, <1>8, Zenon

\* Squares in their places keep to a picture with chroma.
LEMMA SquaresWhole ==
    ASSUME NEW p, NEW w, NEW h, Whole(p, w, h), w >= 2, h >= 2, NEW sqs,
           \A i \in DOMAIN sqs : sqs[i].x \in Nat /\ sqs[i].y \in Nat /\ sqs[i].size \in Nat
    PROVE  Whole(DrawnSquares(p, sqs), w, h)
<1> DEFINE halfW == p.w \div 2
           halfH == p.h \div 2
           EndX(sq) == Least(sq.x + sq.size, p.w)
           EndY(sq) == Least(sq.y + sq.size, p.h)
           LumaOf(i) == Rect(sqs[i].x, EndX(sqs[i]), sqs[i].y, EndY(sqs[i]))
           Left(i) == Least(sqs[i].x \div 2, Minus(halfW, 1))
           Upper(i) == Least(sqs[i].y \div 2, Minus(halfH, 1))
           Right(i) == Most(Least(EndX(sqs[i]) \div 2, halfW), Left(i) + 1)
           Lower(i) == Most(Least(EndY(sqs[i]) \div 2, halfH), Upper(i) + 1)
           ChromaOf(i) == Rect(Left(i), Right(i), Upper(i), Lower(i))
           Draw(x, Of(_), ground) == Painted(Filled(x, ground), DOMAIN sqs, Of, Square)
           A == Draw(p.y, LumaOf, Background)
           Chroma(x) == Draw(x, ChromaOf, Neutral)
<1>0. /\ w \in Nat /\ h \in Nat /\ w \div 2 \in Nat /\ h \div 2 \in Nat /\ p.w = w /\ p.h = h
      /\ PlaneIn(p.y, w, h) /\ PlaneIn(p.u, w \div 2, h \div 2) /\ PlaneIn(p.v, w \div 2, h \div 2)
  BY DEF Whole
<1>1. DrawnSquares(p, sqs) = [p EXCEPT !.y = A, !.u = Chroma(p.u), !.v = Chroma(p.v)]
  BY DEF DrawnSquares
<1>2. halfW = w \div 2 /\ halfW >= 1 /\ halfH = h \div 2 /\ halfH >= 1 /\ halfW \in Nat /\ halfH \in Nat
  BY <1>0
<1> HIDE DEF halfW, halfH
<1>3. ASSUME NEW x \in Nat, NEW size \in Nat, NEW side \in Nat, NEW half \in Nat, half >= 1
      PROVE  LET e == Least(x + size, side)
                 l == Least(x \div 2, Minus(half, 1))
                 r == Most(Least(e \div 2, half), l + 1)
             IN  e \in Int /\ e <= side /\ l \in Nat /\ r \in Int /\ r <= half
  <2> DEFINE e == Least(x + size, side)
             l == Least(x \div 2, Minus(half, 1))
             r == Most(Least(e \div 2, half), l + 1)
  <2>1. e \in Nat /\ e <= side
    BY DEF Least
  <2>2. Minus(half, 1) = half - 1 /\ half - 1 \in Nat /\ x \div 2 \in Nat
    BY <1>3 DEF Minus, Most
  <2>3. l \in Nat /\ l <= half - 1
    BY <2>2 DEF Least
  <2> HIDE DEF e, l
  <2>4. e \div 2 \in Nat
    BY <2>1
  <2>5. r \in Int /\ r <= half
    BY <1>3, <2>3, <2>4 DEF Least, Most
  <2> QED
    BY <2>1, <2>3, <2>5 DEF e, l
<1>4. ASSUME NEW i \in DOMAIN sqs
      PROVE  /\ sqs[i].x \in Nat /\ sqs[i].y \in Nat
             /\ EndX(sqs[i]) \in Int /\ EndX(sqs[i]) <= w /\ EndY(sqs[i]) \in Int /\ EndY(sqs[i]) <= h
             /\ Left(i) \in Nat /\ Upper(i) \in Nat
             /\ Right(i) \in Int /\ Right(i) <= w \div 2 /\ Lower(i) \in Int /\ Lower(i) <= h \div 2
  <2>1. sqs[i].x \in Nat /\ sqs[i].y \in Nat /\ sqs[i].size \in Nat
    BY <1>4
  <2>2. EndX(sqs[i]) \in Int /\ EndX(sqs[i]) <= w /\ Left(i) \in Nat /\ Right(i) \in Int /\ Right(i) <= w \div 2
    BY <1>0, <1>2, <1>3, <2>1
  <2>3. EndY(sqs[i]) \in Int /\ EndY(sqs[i]) <= h /\ Upper(i) \in Nat /\ Lower(i) \in Int /\ Lower(i) <= h \div 2
    BY <1>0, <1>2, <1>3, <2>1
  <2> QED
    BY <2>1, <2>2, <2>3
<1> HIDE DEF EndX, EndY, Left, Right, Upper, Lower
<1>5. PlaneIn(A, w, h)
  <2> DEFINE d == Filled(p.y, Background)
             all == UNION {LumaOf(k) : k \in DOMAIN sqs}
             at == {Index(d.stride, c) : c \in all}
             Top(c) == CHOOSE k \in DOMAIN sqs : c \in LumaOf(k) /\ \A j \in DOMAIN sqs : c \in LumaOf(j) => j <= k
             New(i) == Square(Top(CHOOSE c \in all : Index(d.stride, c) = i))
             data == [i \in DOMAIN d.data \cup at |-> IF i \in at THEN New(i) ELSE d.data[i]]
  <2>1. A = [d EXCEPT !.data = data]
    <3> HIDE DEF LumaOf
    <3> QED
      BY DEF Painted, Written
  <2>2. PlaneIn(d, w, h)
    BY <1>0, FilledPlaneIn, PaintsIn
  <2>3. all \subseteq Area(w, h)
    <3> SUFFICES ASSUME NEW k \in DOMAIN sqs PROVE LumaOf(k) \subseteq Area(w, h)
      OBVIOUS
    <3> QED
      BY <1>0, <1>4, RectIn
  <2>4. \A i : Nowhere \notin New(i)
    BY PaintsIn
  <2> HIDE DEF New, all, d
  <2>5. at \subseteq 0 .. w * h - 1
    BY <1>0, <2>2, <2>3, PlacesIn
  <2>6. \A i \in DOMAIN d.data : Nowhere \notin d.data[i]
    BY <2>2 DEF PlaneIn, PlaneOK
  <2> HIDE DEF at
  <2>7. data = [i \in DOMAIN d.data \cup at |-> data[i]] /\ \A i \in DOMAIN d.data \cup at : Nowhere \notin data[i]
    BY <2>4, <2>6
  <2> HIDE DEF data
  <2>8. PlaneIn([d EXCEPT !.data = data], w, h)
    BY <2>2, <2>5, <2>7, RelaidIn, Zenon
  <2> QED
    BY <2>1, <2>8
<1>6. ASSUME NEW x, PlaneIn(x, w \div 2, h \div 2) PROVE PlaneIn(Chroma(x), w \div 2, h \div 2)
  <2> DEFINE d == Filled(x, Neutral)
             all == UNION {ChromaOf(k) : k \in DOMAIN sqs}
             at == {Index(d.stride, c) : c \in all}
             Top(c) == CHOOSE k \in DOMAIN sqs : c \in ChromaOf(k) /\ \A j \in DOMAIN sqs : c \in ChromaOf(j) => j <= k
             New(i) == Square(Top(CHOOSE c \in all : Index(d.stride, c) = i))
             data == [i \in DOMAIN d.data \cup at |-> IF i \in at THEN New(i) ELSE d.data[i]]
  <2>1. Chroma(x) = [d EXCEPT !.data = data]
    <3> HIDE DEF ChromaOf
    <3> QED
      BY DEF Painted, Written
  <2>2. PlaneIn(d, (w \div 2), (h \div 2))
    BY <1>6, FilledPlaneIn, PaintsIn
  <2>3. all \subseteq Area((w \div 2), (h \div 2))
    <3> SUFFICES ASSUME NEW k \in DOMAIN sqs PROVE ChromaOf(k) \subseteq Area(w \div 2, h \div 2)
      OBVIOUS
    <3> QED
      BY <1>0, <1>4, RectIn
  <2>4. \A i : Nowhere \notin New(i)
    BY PaintsIn
  <2> HIDE DEF New, all, d
  <2>5. at \subseteq 0 .. (w \div 2) * (h \div 2) - 1
    BY <1>0, <2>2, <2>3, PlacesIn
  <2>6. \A i \in DOMAIN d.data : Nowhere \notin d.data[i]
    BY <2>2 DEF PlaneIn, PlaneOK
  <2> HIDE DEF at
  <2>7. data = [i \in DOMAIN d.data \cup at |-> data[i]] /\ \A i \in DOMAIN d.data \cup at : Nowhere \notin data[i]
    BY <2>4, <2>6
  <2> HIDE DEF data
  <2>8. PlaneIn([d EXCEPT !.data = data], (w \div 2), (h \div 2))
    BY <2>2, <2>5, <2>7, RelaidIn, Zenon
  <2> QED
    BY <2>1, <2>8
<1> HIDE DEF A, Chroma
<1>7. PlaneIn(Chroma(p.u), w \div 2, h \div 2) /\ PlaneIn(Chroma(p.v), w \div 2, h \div 2)
  BY <1>0, <1>6
<1>8. Whole([p EXCEPT !.y = A, !.u = Chroma(p.u), !.v = Chroma(p.v)], w, h)
  BY <1>5, <1>7, WholeReplaced
<1> QED
  BY <1>1, <1>8, Zenon


\* Of finitely many numbers one is the greatest: there is no least prefix
\* without one.
LEMMA Greatest ==
    ASSUME NEW n \in Nat \ {0}, NEW f, \A i \in 1 .. n : f[i] \in Nat
    PROVE  \E j \in 1 .. n : \A i \in 1 .. n : f[i] <= f[j]
<1> DEFINE Has(k) == \E j \in 1 .. k : \A i \in 1 .. k : f[i] <= f[j]
           T == {k \in 1 .. n : ~Has(k)}
<1> SUFFICES ASSUME T # {} PROVE FALSE
  <2>1. T = {} => Has(n)
    OBVIOUS
  <2> QED
    BY <2>1
<1>1. T \subseteq Nat
  OBVIOUS
<1> HIDE DEF T
<1>2. \E x \in T : \A y \in T : <<y, x>> \notin OpToRel(<, Nat)
  BY <1>1, NatLessThanWellFounded, WFMin, Zenon
<1>3. PICK m \in T : \A y \in T : <<y, m>> \notin OpToRel(<, Nat)
  BY <1>2
<1>4. m \in 1 .. n /\ ~Has(m)
  BY DEF T
<1>5. m # 1
  <2>1. Has(1)
    <3>1. f[1] \in Nat
      OBVIOUS
    <3>2. 1 \in 1 .. 1 /\ \A i \in 1 .. 1 : f[i] <= f[1]
      BY <3>1
    <3> QED
      BY <3>2
  <2> HIDE DEF Has
  <2> QED
    BY <1>4, <2>1
<1> DEFINE k == m - 1
<1>6. k \in 1 .. n /\ k \in Nat /\ m \in Nat /\ k < m /\ m = k + 1
  BY <1>4, <1>5
<1> HIDE DEF k
<1>7. Has(k)
  <2>1. <<k, m>> \in OpToRel(<, Nat)
    BY <1>6, Zenon DEF OpToRel
  <2>2. k \notin T
    BY <1>3, <2>1
  <2> HIDE DEF Has
  <2> QED
    BY <1>6, <2>2 DEF T
<1>8. PICK j \in 1 .. k : \A i \in 1 .. k : f[i] <= f[j]
  BY <1>7
<1>9. j \in 1 .. m /\ m \in 1 .. m /\ f[j] \in Nat /\ f[m] \in Nat /\ \A i \in 1 .. m : i \in 1 .. k \/ i = m
  BY <1>4, <1>6
<1>10. CASE f[m] <= f[j]
  <2>1. \A i \in 1 .. m : f[i] <= f[j]
    BY <1>8, <1>9, <1>10
  <2> QED
    BY <1>4, <1>9, <2>1
<1>11. CASE f[j] < f[m]
  <2>1. \A i \in 1 .. m : f[i] <= f[m]
    <3> TAKE i \in 1 .. m
    <3>1. CASE i \in 1 .. k
      <4>1. f[i] <= f[j] /\ f[i] \in Nat
        BY <1>4, <1>6, <1>8, <3>1
      <4> QED
        BY <1>9, <1>11, <4>1
    <3>2. CASE i = m
      BY <1>9, <3>2
    <3> QED
      BY <1>9, <3>1, <3>2
  <2> QED
    BY <1>4, <1>9, <2>1
<1> QED
  BY <1>9, <1>10, <1>11

\* Letters are clipped to the frame.
LEMMA TextIn ==
    ASSUME NEW line, NEW ox, NEW oy, NEW scale, NEW w, NEW h
    PROVE  TextCells(line, ox, oy, scale, w, h) \subseteq Area(w, h)
BY DEF TextCells, GlyphCells

LEMMA LongestLine ==
    ASSUME NEW lines \in Lines
    PROVE  /\ Len(lines) \in Nat /\ lines[1] \in Seq(BOOLEAN)
           /\ (CHOOSE n \in {Len(lines[i]) : i \in DOMAIN lines} : \A i \in DOMAIN lines : Len(lines[i]) <= n) \in Nat
<1>1. lines \in Seq(Seq(BOOLEAN)) /\ lines # <<>>
  BY WorkbenchConstantsOK
<1> DEFINE n == Len(lines)
           f == [i \in 1 .. n |-> Len(lines[i])]
<1>2. n \in Nat \ {0} /\ DOMAIN lines = 1 .. n /\ \A i \in 1 .. n : lines[i] \in Seq(BOOLEAN)
  BY <1>1
<1>3. \A i \in 1 .. n : f[i] = Len(lines[i]) /\ f[i] \in Nat
  BY <1>2
<1> HIDE DEF n, f
<1>4. PICK j \in 1 .. n : \A i \in 1 .. n : f[i] <= f[j]
  BY <1>2, <1>3, Greatest
<1>5. \E m \in {Len(lines[i]) : i \in DOMAIN lines} : \A i \in DOMAIN lines : Len(lines[i]) <= m
  BY <1>2, <1>3, <1>4
<1>6. \A m \in {Len(lines[i]) : i \in DOMAIN lines} : m \in Nat
  BY <1>2, <1>3
<1>7. n \in Nat /\ lines[1] \in Seq(BOOLEAN)
  BY <1>2
<1> QED
  BY <1>5, <1>6, <1>7 DEF n

\* An anchored text begins inside the frame.
LEMMA AnchorIn ==
    ASSUME NEW a \in Anchors, NEW textH \in Nat, NEW w \in Nat, NEW h \in Nat
    PROVE  LET o == ResolvedAnchor(a, textH, w, h) IN o[1] \in Nat /\ o[2] \in Nat
<1>1. a.kind \in {"top left", "bottom left", "position"} /\ a.at[1] \in Nat /\ a.at[2] \in Nat
  BY WorkbenchConstantsOK
<1>2. Margin \in Nat
  BY PatternConstantsOK
<1>3. CASE a.kind = "top left"
  BY <1>2, <1>3 DEF ResolvedAnchor
<1>4. CASE a.kind = "bottom left"
  <2>1. ResolvedAnchor(a, textH, w, h) = <<Margin, Minus(h, textH + Margin)>>
    BY <1>4 DEF ResolvedAnchor
  <2>2. Minus(h, textH + Margin) \in Nat
    BY <1>2 DEF Minus, Most
  <2> QED
    BY <1>2, <2>1, <2>2
<1>5. CASE a.kind = "position"
  <2>1. ResolvedAnchor(a, textH, w, h) = <<Least(a.at[1], Minus(w, 1)), Least(a.at[2], Minus(h, 1))>>
    BY <1>5 DEF ResolvedAnchor
  <2>2. Minus(w, 1) \in Nat /\ Minus(h, 1) \in Nat /\ \A x, y \in Nat : Least(x, y) \in Nat
    BY DEF Least, Minus, Most
  <2>3. Least(a.at[1], Minus(w, 1)) \in Nat /\ Least(a.at[2], Minus(h, 1)) \in Nat
    BY <1>1, <2>2
  <2> QED
    BY <2>1, <2>3
<1> QED
  BY <1>1, <1>3, <1>4, <1>5

\* The timestamp keeps to a picture with chroma.
LEMMA OverlaidWhole ==
    ASSUME NEW p, NEW w, NEW h, Whole(p, w, h), w >= 2, h >= 2,
           NEW lines \in Lines, NEW anchor \in Anchors, NEW scale \in Scales
    PROVE  Whole(Overlaid(p, lines, anchor, scale), w, h)
<1> DEFINE longest == CHOOSE n \in {Len(lines[i]) : i \in DOMAIN lines} :
                         \A i \in DOMAIN lines : Len(lines[i]) <= n
           textW == longest * GlyphW * scale
           textH == Len(lines) * GlyphH * scale
           o == IF anchor.kind = "position" THEN anchor.at ELSE ResolvedAnchor(anchor, textH, p.w, p.h)
           endX == Least((o[1] + textW) \div 2, Most(p.w \div 2, 1))
           endY == Least((o[2] + textH) \div 2, Most(p.h \div 2, 1))
           beginX == Least(o[1] \div 2, Minus(endX, 1))
           beginY == Least(o[2] \div 2, Minus(endY, 1))
           Cleared(k) == Rect(beginX, endX, beginY, endY)
           Line(i) == TextCells(lines[i], o[1], o[2] + (i - 1) * GlyphH * scale, scale, p.w, p.h)
           A == Painted(p.y, DOMAIN lines, Line, LAMBDA i : Text)
           Chroma(x) == Painted(x, {0}, Cleared, LAMBDA k : Neutral)
<1>0. /\ w \in Nat /\ h \in Nat /\ w \div 2 \in Nat /\ h \div 2 \in Nat /\ p.w = w /\ p.h = h
      /\ PlaneIn(p.y, w, h) /\ PlaneIn(p.u, w \div 2, h \div 2) /\ PlaneIn(p.v, w \div 2, h \div 2)
  BY DEF Whole
<1>1. Overlaid(p, lines, anchor, scale) = [p EXCEPT !.y = A, !.u = Chroma(p.u), !.v = Chroma(p.v)]
  BY DEF Overlaid
<1>2. longest \in Nat /\ Len(lines) \in Nat
  BY LongestLine
<1> HIDE DEF longest
<1>3. textW \in Nat /\ textH \in Nat
  <2>1. GlyphW \in Nat /\ GlyphH \in Nat /\ scale \in Nat
    BY PatternConstantsOK, WorkbenchConstantsOK
  <2>2. \A a, b \in Nat : a * b \in Nat
    OBVIOUS
  <2>3. longest * GlyphW \in Nat /\ Len(lines) * GlyphH \in Nat
    BY <1>2, <2>1, <2>2
  <2> QED
    BY <2>1, <2>2, <2>3
<1> HIDE DEF textW, textH
<1>4. o[1] \in Nat /\ o[2] \in Nat
  <2>1. anchor.at[1] \in Nat /\ anchor.at[2] \in Nat
    BY WorkbenchConstantsOK
  <2>2. ResolvedAnchor(anchor, textH, p.w, p.h)[1] \in Nat /\ ResolvedAnchor(anchor, textH, p.w, p.h)[2] \in Nat
    BY <1>0, <1>3, AnchorIn
  <2> QED
    BY <2>1, <2>2
<1> HIDE DEF o
<1>5. ASSUME NEW x \in Nat, NEW text \in Nat, NEW side \in Nat, side >= 2
      PROVE  LET e == Least((x + text) \div 2, Most(side \div 2, 1))
                 b == Least(x \div 2, Minus(e, 1))
             IN  e \in Int /\ e <= side \div 2 /\ b \in Int /\ b >= 0
  <2> DEFINE e == Least((x + text) \div 2, Most(side \div 2, 1))
  <2>1. (x + text) \div 2 \in Nat /\ Most(side \div 2, 1) = side \div 2 /\ side \div 2 \in Nat /\ x \div 2 \in Nat
    BY <1>5 DEF Most
  <2>2. e \in Nat /\ e <= side \div 2
    BY <2>1 DEF Least
  <2> HIDE DEF e
  <2>3. Minus(e, 1) \in Nat
    BY <2>2 DEF Minus, Most
  <2>4. Least(x \div 2, Minus(e, 1)) \in Nat
    BY <2>1, <2>3 DEF Least
  <2> QED
    BY <2>2, <2>4 DEF e
<1>6. endX \in Int /\ endX <= w \div 2 /\ beginX \in Int /\ beginX >= 0
  BY <1>0, <1>3, <1>4, <1>5
<1>7. endY \in Int /\ endY <= h \div 2 /\ beginY \in Int /\ beginY >= 0
  BY <1>0, <1>3, <1>4, <1>5
<1> HIDE DEF endX, endY, beginX, beginY
<1>8. PlaneIn(A, w, h)
  <2> DEFINE d == p.y
             all == UNION {Line(k) : k \in DOMAIN lines}
             at == {Index(d.stride, c) : c \in all}
             Top(c) == CHOOSE k \in DOMAIN lines : c \in Line(k) /\ \A j \in DOMAIN lines : c \in Line(j) => j <= k
             New(i) == Text
             data == [i \in DOMAIN d.data \cup at |-> IF i \in at THEN New(i) ELSE d.data[i]]
  <2>1. A = [d EXCEPT !.data = data]
    <3> HIDE DEF Line
    <3> QED
      BY DEF Painted, Written
  <2>2. PlaneIn(d, w, h)
    BY <1>0
  <2>3. all \subseteq Area(w, h)
    BY <1>0, TextIn
  <2>4. \A i : Nowhere \notin New(i)
    BY PaintsIn
  <2> HIDE DEF New, all, d
  <2>5. at \subseteq 0 .. w * h - 1
    BY <1>0, <2>2, <2>3, PlacesIn
  <2>6. \A i \in DOMAIN d.data : Nowhere \notin d.data[i]
    BY <2>2 DEF PlaneIn, PlaneOK
  <2> HIDE DEF at
  <2>7. data = [i \in DOMAIN d.data \cup at |-> data[i]] /\ \A i \in DOMAIN d.data \cup at : Nowhere \notin data[i]
    BY <2>4, <2>6
  <2> HIDE DEF data
  <2>8. PlaneIn([d EXCEPT !.data = data], w, h)
    BY <2>2, <2>5, <2>7, RelaidIn, Zenon
  <2> QED
    BY <2>1, <2>8
<1>9. ASSUME NEW x, PlaneIn(x, w \div 2, h \div 2) PROVE PlaneIn(Chroma(x), w \div 2, h \div 2)
  <2> DEFINE d == x
             all == UNION {Cleared(k) : k \in {0}}
             at == {Index(d.stride, c) : c \in all}
             Top(c) == CHOOSE k \in {0} : c \in Cleared(k) /\ \A j \in {0} : c \in Cleared(j) => j <= k
             New(i) == Neutral
             data == [i \in DOMAIN d.data \cup at |-> IF i \in at THEN New(i) ELSE d.data[i]]
  <2>1. Chroma(x) = [d EXCEPT !.data = data]
    <3> HIDE DEF Cleared
    <3> QED
      BY DEF Painted, Written
  <2>2. PlaneIn(d, (w \div 2), (h \div 2))
    BY <1>9
  <2>3. all \subseteq Area((w \div 2), (h \div 2))
    <3>1. Cleared(0) \subseteq Area(w \div 2, h \div 2)
      BY <1>0, <1>6, <1>7, RectIn
    <3> QED
      BY <3>1
  <2>4. \A i : Nowhere \notin New(i)
    BY PaintsIn
  <2> HIDE DEF New, all, d
  <2>5. at \subseteq 0 .. (w \div 2) * (h \div 2) - 1
    BY <1>0, <2>2, <2>3, PlacesIn
  <2>6. \A i \in DOMAIN d.data : Nowhere \notin d.data[i]
    BY <2>2 DEF PlaneIn, PlaneOK
  <2> HIDE DEF at
  <2>7. data = [i \in DOMAIN d.data \cup at |-> data[i]] /\ \A i \in DOMAIN d.data \cup at : Nowhere \notin data[i]
    BY <2>4, <2>6
  <2> HIDE DEF data
  <2>8. PlaneIn([d EXCEPT !.data = data], (w \div 2), (h \div 2))
    BY <2>2, <2>5, <2>7, RelaidIn, Zenon
  <2> QED
    BY <2>1, <2>8
<1> HIDE DEF A, Chroma
<1>10. PlaneIn(Chroma(p.u), w \div 2, h \div 2) /\ PlaneIn(Chroma(p.v), w \div 2, h \div 2)
  BY <1>0, <1>9
<1>11. Whole([p EXCEPT !.y = A, !.u = Chroma(p.u), !.v = Chroma(p.v)], w, h)
  BY <1>8, <1>10, WholeReplaced
<1> QED
  BY <1>1, <1>11, Zenon

\* A label keeps to a picture of any size.
LEMMA BurnedWhole ==
    ASSUME NEW p, NEW w, NEW h, Whole(p, w, h), NEW line \in Seq(BOOLEAN), NEW anchor \in Anchors,
           NEW scale \in Scales, NEW fill
    PROVE  Whole(Burned(p, line, anchor, scale, fill), w, h)
<1> DEFINE textW == Len(line) * GlyphW * scale
           textH == GlyphH * scale
           o == ResolvedAnchor(anchor, textH, p.w, p.h)
           ground == IF fill THEN Rect(o[1], Least(o[1] + textW, p.w), o[2], Least(o[2] + textH, p.h)) ELSE {}
           Layer(k) == IF k = 0 THEN ground ELSE TextCells(line, o[1], o[2], scale, p.w, p.h)
           A == Painted(p.y, {0, 1}, Layer, LAMBDA k : Label)
<1>0. /\ w \in Nat /\ h \in Nat /\ p.w = w /\ p.h = h
      /\ PlaneIn(p.y, w, h) /\ PlaneIn(p.u, w \div 2, h \div 2) /\ PlaneIn(p.v, w \div 2, h \div 2)
  BY DEF Whole
<1>1. Burned(p, line, anchor, scale, fill) = [p EXCEPT !.y = A]
  BY DEF Burned
<1>2. textW \in Nat /\ textH \in Nat
  <2>0. Len(line) \in Nat
    OBVIOUS
  <2>1. GlyphW \in Nat /\ GlyphH \in Nat /\ scale \in Nat /\ Len(line) \in Nat
    BY <2>0, PatternConstantsOK, WorkbenchConstantsOK
  <2>2. \A a, b \in Nat : a * b \in Nat
    OBVIOUS
  <2>3. Len(line) * GlyphW \in Nat
    BY <2>1, <2>2
  <2> QED
    BY <2>1, <2>2, <2>3
<1> HIDE DEF textW, textH
<1>3. o[1] \in Nat /\ o[2] \in Nat
  BY <1>0, <1>2, AnchorIn
<1> HIDE DEF o
<1>4. ground \subseteq Area(w, h)
  <2>1. /\ Least(o[1] + textW, p.w) \in Int /\ Least(o[1] + textW, p.w) <= w
        /\ Least(o[2] + textH, p.h) \in Int /\ Least(o[2] + textH, p.h) <= h
    BY <1>0, <1>2, <1>3 DEF Least
  <2>2. Rect(o[1], Least(o[1] + textW, p.w), o[2], Least(o[2] + textH, p.h)) \subseteq Area(w, h)
    BY <1>0, <1>3, <2>1, RectIn
  <2> QED
    BY <2>2
<1> HIDE DEF ground
<1>5. PlaneIn(A, w, h)
  <2> DEFINE d == p.y
             all == UNION {Layer(k) : k \in {0, 1}}
             at == {Index(d.stride, c) : c \in all}
             Top(c) == CHOOSE k \in {0, 1} : c \in Layer(k) /\ \A j \in {0, 1} : c \in Layer(j) => j <= k
             New(i) == Label
             data == [i \in DOMAIN d.data \cup at |-> IF i \in at THEN New(i) ELSE d.data[i]]
  <2>1. A = [d EXCEPT !.data = data]
    <3> HIDE DEF Layer
    <3> QED
      BY DEF Painted, Written
  <2>2. PlaneIn(d, w, h)
    BY <1>0
  <2>3. all \subseteq Area(w, h)
    BY <1>0, <1>4, TextIn
  <2>4. \A i : Nowhere \notin New(i)
    BY PaintsIn
  <2> HIDE DEF New, all, d
  <2>5. at \subseteq 0 .. w * h - 1
    BY <1>0, <2>2, <2>3, PlacesIn
  <2>6. \A i \in DOMAIN d.data : Nowhere \notin d.data[i]
    BY <2>2 DEF PlaneIn, PlaneOK
  <2> HIDE DEF at
  <2>7. data = [i \in DOMAIN d.data \cup at |-> data[i]] /\ \A i \in DOMAIN d.data \cup at : Nowhere \notin data[i]
    BY <2>4, <2>6
  <2> HIDE DEF data
  <2>8. PlaneIn([d EXCEPT !.data = data], w, h)
    BY <2>2, <2>5, <2>7, RelaidIn, Zenon
  <2> QED
    BY <2>1, <2>8
<1> HIDE DEF A
<1>6. Whole([p EXCEPT !.y = A, !.u = p.u, !.v = p.v], w, h)
  BY <1>0, <1>5, WholeReplaced
<1>7. [p EXCEPT !.y = A] = [p EXCEPT !.y = A, !.u = p.u, !.v = p.v]
  <2> DEFINE y == p.y
             u == p.u
             v == p.v
  <2>1. p = [w |-> w, h |-> h, y |-> y, u |-> u, v |-> v]
    BY DEF Whole
  <2>2. Framed(p)
    BY WholeIsWellFormed
  <2>3. [p EXCEPT !.y = A, !.u = u, !.v = v] = [w |-> p.w, h |-> p.h, y |-> A, u |-> u, v |-> v]
    BY <2>2, Replaced, Zenon
  <2> HIDE DEF y, u, v
  <2>4. [p EXCEPT !.y = A] = [w |-> w, h |-> h, y |-> A, u |-> u, v |-> v]
    BY <2>1
  <2> QED
    BY <1>0, <2>3, <2>4, Zenon DEF u, v
<1> QED
  BY <1>1, <1>6, <1>7, Zenon


-----------------------------------------------------------------------------
(* Workbench: the viewer. *)

\* The column and the row of a pixel.
LEMMA ColumnAndRow ==
    ASSUME NEW m \in Nat, NEW n \in Nat, NEW i \in 0 .. m * n - 1
    PROVE  \E e \in 0 .. m - 1, f \in 0 .. n - 1 : i % m = e /\ i \div m = f
<1>1. PICK e \in 0 .. m - 1, f \in 0 .. n - 1 : f * m + e = i
  BY IndexOnto
<1>2. m # 0 /\ e \in Nat /\ f \in Nat
  BY <1>1
<1> DEFINE q == i \div m
           r == i % m
<1>3. q \in Nat /\ r \in 0 .. m - 1 /\ q * m + r = f * m + e
  BY <1>1, <1>2
<1> HIDE DEF q, r
<1>4. r = e /\ q = f
  BY <1>1, <1>2, <1>3, IndexInjective
<1> QED
  BY <1>4 DEF q, r

\* A pixel takes its chroma from the cell its own half falls in, which an even
\* picture has.
LEMMA ShowableWhole ==
    ASSUME NEW p, NEW m, NEW n, Whole(p, m, n), m % 2 = 0, n % 2 = 0
    PROVE  Showable(p)
<1>1. /\ m \in Nat /\ n \in Nat /\ m \div 2 \in Nat /\ n \div 2 \in Nat /\ p.w = m /\ p.h = n
      /\ PlaneIn(p.u, m \div 2, n \div 2) /\ PlaneIn(p.v, m \div 2, n \div 2)
  BY DEF Whole
<1>2. \A i \in 0 .. m * n - 1 : \E e \in 0 .. m - 1, f \in 0 .. n - 1 : i % m = e /\ i \div m = f
  BY <1>1, ColumnAndRow
<1> DEFINE argb == I420ToARGB(p)
           Chroma(s, c) == Read(s.data, Index(s.stride, <<c[1] \div 2, c[2] \div 2>>))
<1>3. ToARGB(p) = argb
  BY DEF ToARGB, LibyuvI420ToARGB
<1>4. ASSUME NEW i \in DOMAIN argb PROVE Nowhere \notin argb[i].u \cup argb[i].v
  <2> DEFINE c == Point(m, i)
             a == c[1] \div 2
             b == c[2] \div 2
  <2>1. i \in 0 .. m * n - 1 /\ argb[i].u = Chroma(p.u, c) /\ argb[i].v = Chroma(p.v, c)
    BY <1>1, <1>4 DEF I420ToARGB
  <2>2. PICK e \in 0 .. m - 1, f \in 0 .. n - 1 : i % m = e /\ i \div m = f
    <3> HIDE DEF argb
    <3> QED
      BY <1>2, <2>1, Zenon
  <2>3. c = <<e, f>>
    BY <2>2 DEF Point
  <2>4. a = e \div 2 /\ b = f \div 2 /\ e \div 2 \in 0 .. (m \div 2) - 1 /\ f \div 2 \in 0 .. (n \div 2) - 1
    BY <1>1, <2>2, <2>3
  <2>5. Nowhere \notin Read(p.u.data, Index(p.u.stride, <<a, b>>)) /\ Nowhere \notin Read(p.v.data, Index(p.v.stride, <<a, b>>))
    <3> HIDE DEF a, b
    <3> QED
      BY <1>1, <2>4, SampleIn
  <2> HIDE DEF argb, c
  <2> QED
    BY <2>1, <2>5
<1>5. WellFormed(p)
  BY WholeIsWellFormed
<1> QED
  BY <1>3, <1>4, <1>5 DEF Showable

\* The sides of a picture, divided and perhaps exchanged.
Divided(w, h, m, n) ==
    \E k \in {1, 2, 4} : (m = k * w /\ n = k * h) \/ (n = k * w /\ m = k * h)
EvenWhole(p, w, h) == Whole(p, w, h) /\ w % 2 = 0 /\ h % 2 = 0

\* A centred crop of half a picture, or of an even window in it.
LEMMA CentreInside ==
    ASSUME NEW full \in Nat, NEW part \in Nat, part <= full
    PROVE  Centre(full, part) \in Nat /\ Centre(full, part) + part <= full
BY DEF Centre

LEMMA CentreWhole ==
    ASSUME NEW p, NEW m, NEW n, Whole(p, m, n), backend = "native", NEW w \in Nat, NEW h \in Nat, w <= m, h <= n
    PROVE  Whole(CentreCrop(p, w, h), w, h)
<1>1. m \in Nat /\ n \in Nat /\ p.w = m /\ p.h = n
  BY DEF Whole
<1>2. /\ Centre(m, w) \in Nat /\ Centre(m, w) + w <= m
      /\ Centre(n, h) \in Nat /\ Centre(n, h) + h <= n
  BY <1>1, CentreInside
<1>3. Whole(Cropped(p, Centre(m, w), Centre(n, h), w, h), w, h)
  BY <1>2, EditedWhole DEF Takes
<1> QED
  BY <1>1, <1>3 DEF CentreCrop

\* Whatever button is pressed, an original whose sides are multiples of eight
\* becomes an even picture without a stray sample.
LEMMA ButtonWhole ==
    ASSUME NEW p, NEW m, NEW n, Whole(p, m, n), backend = "native",
           m % 8 = 0, n % 8 = 0, m # 0, n # 0, NEW b \in ViewerButtons
    PROVE  \E w, h \in Nat : EvenWhole(Pressed(b, p), w, h) /\ Divided(w, h, m, n)
<1>1. m \in Nat /\ n \in Nat /\ p.w = m /\ p.h = n
  BY DEF Whole
<1> DEFINE mm == m \div 2
           nn == n \div 2
           mq == m \div 4
           nq == n \div 4
<1>2. /\ mm \in Nat /\ nn \in Nat /\ mq \in Nat /\ nq \in Nat
      /\ m % 2 = 0 /\ n % 2 = 0 /\ mm % 2 = 0 /\ nn % 2 = 0 /\ mq % 2 = 0 /\ nq % 2 = 0
      /\ m >= 2 /\ n >= 2
      /\ m = 2 * mm /\ n = 2 * nn /\ m = 4 * mq /\ n = 4 * nq /\ mm \div 2 = mq /\ nn \div 2 = nq
      /\ m = 1 * m /\ n = 1 * n
  BY <1>1
<1> HIDE DEF mm, nn, mq, nq
<1>3. /\ Divided(m, n, m, n) /\ Divided(n, m, m, n) /\ Divided(mm, nn, m, n) /\ Divided(nn, mm, m, n)
      /\ Divided(mq, nq, m, n)
  BY <1>2 DEF Divided
<1>4. Takes(m, n) /\ \A w, h : Takes(w, h)
  BY DEF Takes
<1>5. /\ Whole(NV12RoundTrip(p), m, n) /\ Whole(Half(p), mm, nn) /\ Whole(Quarter(p), mq, nq)
      /\ \A rot \in Turns : Whole(Rotated(p, rot), TurnedW(m, n, rot), TurnedH(m, n, rot))
  <2>1. ASSUME NEW w \in Nat, NEW h \in Nat PROVE Whole(ScaledTo(p, w, h), w, h)
    BY <1>2, <1>4, EditedWhole
  <2> QED
    BY <1>1, <1>2, <1>4, <2>1, EditedWhole DEF Half, Quarter, mm, nn, mq, nq
<1>6. /\ Whole(Rotated(p, 90), n, m) /\ Whole(Rotated(p, 180), m, n) /\ Whole(Rotated(p, 270), n, m)
  BY <1>5 DEF Turns, TurnedW, TurnedH
<1>7. CASE b \in {"original", "nv12"}
  <2>1. EvenWhole(Pressed(b, p), m, n)
    BY <1>2, <1>5, <1>7 DEF Pressed, EvenWhole
  <2> QED
    BY <1>1, <1>3, <2>1
<1>8. CASE b = "50%"
  <2>1. EvenWhole(Pressed(b, p), mm, nn)
    BY <1>2, <1>5, <1>8 DEF Pressed, EvenWhole
  <2> QED
    BY <1>2, <1>3, <2>1
<1>9. CASE b = "25%"
  <2>1. EvenWhole(Pressed(b, p), mq, nq)
    BY <1>2, <1>5, <1>9 DEF Pressed, EvenWhole
  <2> QED
    BY <1>2, <1>3, <2>1
<1>10. CASE b = "crop"
  <2>1. Pressed(b, p) = CentreCrop(p, mm, nn)
    BY <1>1, <1>10 DEF Pressed, mm, nn
  <2>2. mm <= m /\ nn <= n
    BY <1>1, <1>2
  <2>3. EvenWhole(Pressed(b, p), mm, nn)
    BY <1>2, <2>1, <2>2, CentreWhole DEF EvenWhole
  <2> QED
    BY <1>2, <1>3, <2>3
<1>11. CASE b \in {"90", "270"}
  <2>1. EvenWhole(Pressed(b, p), n, m)
    <3>1. b = "90" => Pressed(b, p) = Rotated(p, 90)
      BY DEF Pressed
    <3>2. b = "270" => Pressed(b, p) = Rotated(p, 270)
      BY DEF Pressed
    <3> QED
      BY <1>2, <1>6, <1>11, <3>1, <3>2 DEF EvenWhole
  <2> QED
    BY <1>1, <1>3, <2>1
<1>12. CASE b = "180"
  <2>1. EvenWhole(Pressed(b, p), m, n)
    BY <1>2, <1>6, <1>12 DEF Pressed, EvenWhole
  <2> QED
    BY <1>1, <1>3, <2>1
<1>13. CASE b = "scale crop"
  <2> DEFINE half == Half(p)
  <2>1. Pressed(b, p) = CentreCrop(half, half.w \div 2, half.h \div 2)
    BY <1>13 DEF Pressed
  <2>2. Whole(half, mm, nn)
    BY <1>5
  <2> HIDE DEF half
  <2>3. half.w = mm /\ half.h = nn
    BY <2>2, WholeIsWellFormed
  <2>4. mq <= mm /\ nq <= nn
    BY <1>2
  <2>5. Whole(CentreCrop(half, mq, nq), mq, nq)
    BY <1>2, <2>2, <2>4, CentreWhole
  <2>6. EvenWhole(Pressed(b, p), mq, nq)
    BY <1>2, <2>1, <2>3, <2>5 DEF EvenWhole
  <2> QED
    BY <1>2, <1>3, <2>6
<1>14. CASE b = "rotate scale"
  <2> DEFINE r == Rotated(p, 90)
  <2>1. Pressed(b, p) = Half(r)
    BY <1>14 DEF Pressed
  <2>2. Whole(r, n, m)
    BY <1>6
  <2> HIDE DEF r
  <2>3. r.w = n /\ r.h = m
    BY <2>2, WholeIsWellFormed
  <2>4. Whole(ScaledTo(r, nn, mm), nn, mm)
    BY <1>2, <1>4, <2>2, EditedWhole
  <2>5. EvenWhole(Pressed(b, p), nn, mm)
    BY <1>2, <2>1, <2>3, <2>4 DEF EvenWhole, Half, mm, nn
  <2> QED
    BY <1>2, <1>3, <2>5
<1> QED
  BY <1>7, <1>8, <1>9, <1>10, <1>11, <1>12, <1>13, <1>14 DEF ViewerButtons

\* All of the viewer's variants of an original no smaller than its window.
LEMMA VariantsWhole ==
    ASSUME NEW p, NEW m, NEW n, Whole(p, m, n), backend = "native",
           m % 8 = 0, n % 8 = 0, m >= Window[1], n >= Window[2]
    PROVE  /\ m # 0 /\ n # 0 /\ VariantsOK(p)
           /\ \A v \in Variants(p) : \E w, h \in Nat :
                 EvenWhole(v, w, h) /\ (Divided(w, h, m, n) \/ (w = Window[1] /\ h = Window[2]))
<1>1. m \in Nat /\ n \in Nat /\ p.w = m /\ p.h = n
  BY DEF Whole
<1>2. /\ Window[1] \in Nat /\ Window[2] \in Nat /\ Window[1] # 0 /\ Window[2] # 0
      /\ Window[1] % 2 = 0 /\ Window[2] % 2 = 0
  BY WorkbenchConstantsOK
<1>3. m # 0 /\ n # 0
  BY <1>1, <1>2
<1>4. ASSUME NEW v \in Variants(p)
      PROVE  \E w, h \in Nat : EvenWhole(v, w, h) /\ (Divided(w, h, m, n) \/ (w = Window[1] /\ h = Window[2]))
  <2>1. CASE \E b \in ViewerButtons : v = Pressed(b, p)
    BY <1>3, <2>1, ButtonWhole
  <2>2. CASE v = CentreCrop(p, Least(p.w, Window[1]), Least(p.h, Window[2]))
    <3>1. Least(p.w, Window[1]) = Window[1] /\ Least(p.h, Window[2]) = Window[2]
      BY <1>1, <1>2 DEF Least
    <3>2. EvenWhole(v, Window[1], Window[2])
      BY <1>1, <1>2, <2>2, <3>1, CentreWhole DEF EvenWhole
    <3> QED
      BY <1>2, <3>2
  <2> QED
    BY <2>1, <2>2 DEF Variants
<1>5. \A v \in Variants(p) : Showable(v)
  BY <1>4, ShowableWhole DEF EvenWhole
<1> QED
  BY <1>1, <1>3, <1>4, <1>5 DEF VariantsOK

\* A thumbnail of a picture that is not too elongated has two sides.
LEMMA ThumbHasSides ==
    ASSUME NEW w \in Nat, NEW h \in Nat, w # 0, h # 0, NEW t \in Nat, Least(w, h) * t >= Most(w, h)
    PROVE  ThumbSide(w, Most(w, h), t) # 0 /\ ThumbSide(h, Most(w, h), t) # 0
<1> DEFINE longest == Most(w, h)
<1>1. longest \in Nat /\ longest # 0
  BY DEF Most
<1>2. ASSUME NEW x \in Nat, x >= longest PROVE x \div longest # 0
  <2> HIDE DEF longest
  <2> QED
    BY <1>1, <1>2
<1>3. w * t \in Nat /\ h * t \in Nat
  OBVIOUS
<1>4. w * t >= longest /\ h * t >= longest
  <2>1. CASE w <= h
    <3>1. Least(w, h) = w /\ longest = h
      BY <2>1 DEF Least, Most
    <3>2. w * t <= h * t
      BY <2>1
    <3> QED
      BY <1>3, <3>1, <3>2
  <2>2. CASE ~(w <= h)
    <3>1. Least(w, h) = h /\ longest = w
      BY <2>2 DEF Least, Most
    <3>2. h * t <= w * t
      BY <2>2
    <3> QED
      BY <1>3, <3>1, <3>2
  <2> QED
    BY <2>1, <2>2
<1>5. (w * t) \div longest # 0 /\ (h * t) \div longest # 0
  <2> DEFINE x == w * t
             y == h * t
  <2>1. x \in Nat /\ y \in Nat /\ x >= longest /\ y >= longest
    BY <1>3, <1>4
  <2> HIDE DEF x, y, longest
  <2>2. x \div longest # 0 /\ y \div longest # 0
    BY <1>2, <2>1
  <2> QED
    BY <2>2 DEF x, y
<1> QED
  BY <1>5 DEF ThumbSide

\* Nor is what the viewer derives from such an original.
LEMMA DividedNotElongated ==
    ASSUME NEW m \in Nat, NEW n \in Nat, NEW w \in Nat, NEW h \in Nat, Divided(w, h, m, n),
           NEW t \in Nat, Least(m, n) * t >= Most(m, n)
    PROVE  Least(w, h) * t >= Most(w, h)
<1> DEFINE x == w * t
           y == h * t
<1>0. x \in Nat /\ y \in Nat
  OBVIOUS
<1>1. PICK k \in {1, 2, 4} : (m = k * w /\ n = k * h) \/ (n = k * w /\ m = k * h)
  BY DEF Divided
<1>2. (k * w) * t = k * x /\ (k * h) * t = k * y
  BY <1>1
<1>3. Least(m, n) * t = k * (Least(w, h) * t) /\ Most(m, n) = k * Most(w, h)
  <2>1. Least(m, n) = k * Least(w, h) /\ Most(m, n) = k * Most(w, h) /\ Least(w, h) \in {w, h}
    BY <1>1 DEF Least, Most
  <2> QED
    BY <1>1, <1>2, <2>1
<1>4. Least(w, h) * t \in Nat /\ Most(w, h) \in Nat
  BY <1>0 DEF Least, Most
<1> QED
  BY <1>1, <1>3, <1>4

-----------------------------------------------------------------------------
(* The program. *)

\* The picture a library caller may still transform has chroma, unless its past
\* says that it was too small for that.
ChromaIsThere ==
    app = "library" /\ "small" \notin past => edits = MaxEdits \/ (pic.w >= 2 /\ pic.h >= 2)

\* The viewer's original has no stray sample, and sides that can be divided by
\* eight unless its past says otherwise.
OriginalIsSound ==
    app = "viewer" => WellFormed(orig) /\ ("odd" \in past \/ (orig.w % 8 = 0 /\ orig.h % 8 = 0))

\* What holds of a caller's picture after every step.
SafeInv == WorkInv /\ SquaresPlaced /\ ChromaIsThere /\ OriginalIsSound /\ OnlyOddOrSmallPicturesFail

\* What is not noted as small has chroma.
LEMMA NotSmall ==
    ASSUME NEW w \in Nat, NEW h \in Nat, "small" \notin Small(w, h)
    PROVE  w >= 2 /\ h >= 2
BY DEF Small

\* A new picture is safe when every even one, or every one of the native
\* backend's, is well formed.
LEMMA MadeSafe ==
    ASSUME NEW p, NEW event, event \subseteq {"thin"}, SafeInv, Library, Made(p, event), Shaped(p),
           "small" \notin Small(p.w, p.h) /\ (backend = "native" \/ "odd" \notin Odd(p.w, p.h)) => WellFormed(p)
    PROVE  ChromaIsThere' /\ OriginalIsSound' /\ OnlyOddOrSmallPicturesFail'
<1>1. /\ pic' = p /\ past' = Sides(p.w, p.h) \cup event /\ dead' = ~WellFormed(p)
      /\ app' = "library" /\ backend' = backend /\ orig' = orig
  BY DEF Made, Library
<1>2. p.w \in Nat /\ p.h \in Nat
  BY DEF Shaped
<1>3. ("small" \in past' <=> "small" \in Small(p.w, p.h)) /\ ("odd" \in past' <=> "odd" \in Odd(p.w, p.h))
  BY <1>1 DEF Sides, Small, Odd, OddIf
<1>4. "small" \notin past' => p.w >= 2 /\ p.h >= 2
  BY <1>2, <1>3, NotSmall
<1>5. backend \in {"native", "libyuv"}
  BY DEF SafeInv, WorkInv
<1>6. dead' => ("odd" \in past' /\ backend' = "libyuv") \/ "small" \in past'
  BY <1>1, <1>3, <1>5
<1> QED
  BY <1>1, <1>4, <1>6 DEF ChromaIsThere, OriginalIsSound, OnlyOddOrSmallPicturesFail

\* The picture a caller may transform: with chroma, and fit for the backend
\* unless its past says otherwise.
LEMMA InHand ==
    ASSUME SafeInv, Library, edits < MaxEdits
    PROVE  /\ backend \in {"native", "libyuv"} /\ Shaped(pic) /\ pic.w \in Nat /\ pic.h \in Nat
           /\ Whole(pic, pic.w, pic.h)
           /\ "small" \notin past => pic.w >= 2 /\ pic.h >= 2
           /\ backend = "native" \/ "odd" \notin past => Takes(pic.w, pic.h)
<1>1. Shaped(pic) /\ WellFormed(pic) /\ backend \in {"native", "libyuv"}
      /\ (backend = "libyuv" /\ "odd" \notin past => Even(pic))
  BY DEF SafeInv, WorkInv, Library
<1>2. Whole(pic, pic.w, pic.h) /\ pic.w \in Nat /\ pic.h \in Nat
  BY <1>1, WellFormedIsWhole DEF Shaped
<1>3. edits # MaxEdits
  BY SizesAreNat
<1>4. "small" \notin past => pic.w >= 2 /\ pic.h >= 2
  BY <1>3 DEF SafeInv, ChromaIsThere, Library
<1>5. backend = "native" \/ "odd" \notin past => Takes(pic.w, pic.h)
  BY <1>1 DEF Takes, Even
<1> QED
  BY <1>1, <1>2, <1>4, <1>5

\* A transform is safe when it leaves chroma and, of a picture the backend
\* takes, a picture without a stray sample.
LEMMA EditedSafe ==
    ASSUME NEW p, NEW event, SafeInv, Library, Edited(p, event),
           "small" \notin past \cup event => p.w >= 2 /\ p.h >= 2,
           "small" \notin past \cup event /\ (backend = "native" \/ "odd" \notin past \cup event) => WellFormed(p)
    PROVE  ChromaIsThere' /\ OriginalIsSound' /\ OnlyOddOrSmallPicturesFail'
<1>1. /\ pic' = p /\ past' = past \cup event /\ dead' = ~WellFormed(p)
      /\ app' = "library" /\ backend' = backend /\ orig' = orig
  BY DEF Edited, Library
<1>2. backend \in {"native", "libyuv"}
  BY DEF SafeInv, WorkInv
<1>3. dead' => ("odd" \in past' /\ backend' = "libyuv") \/ "small" \in past'
  BY <1>1, <1>2
<1> QED
  BY <1>1, <1>3 DEF ChromaIsThere, OriginalIsSound, OnlyOddOrSmallPicturesFail

\* Receiving and painting a picture.
LEMMA PicturesMadeSafe ==
    ASSUME SafeInv, Receive \/ PaintBars
    PROVE  ChromaIsThere' /\ OriginalIsSound' /\ OnlyOddOrSmallPicturesFail'
<1>1. backend \in {"native", "libyuv"}
  BY DEF SafeInv, WorkInv
<1>2. ASSUME Receive PROVE ChromaIsThere' /\ OriginalIsSound' /\ OnlyOddOrSmallPicturesFail'
  <2>1. Library
    BY <1>2 DEF Receive
  <2>2. PICK s \in Sizes, fmt \in Formats : Made(Converted(fmt, s[1], s[2]), {})
    BY <1>2 DEF Receive
  <2>3. s[1] \in Nat /\ s[2] \in Nat
    BY SizesAreNat
  <2> DEFINE p == Converted(fmt, s[1], s[2])
  <2>4. Sized(p, s[1], s[2])
    BY <2>3, ConvertedShaped
  <2>5. "odd" \notin Odd(s[1], s[2]) => s[1] % 2 = 0 /\ s[2] % 2 = 0
    BY NotOdd
  <2>6. backend = "native" \/ "odd" \notin Odd(s[1], s[2]) => Whole(p, s[1], s[2])
    BY <1>1, <2>3, <2>5, ConvertedWhole
  <2>7. Made(p, {}) /\ {} \subseteq {"thin"}
    BY <2>2
  <2> HIDE DEF p
  <2>8. backend = "native" \/ "odd" \notin Odd(p.w, p.h) => WellFormed(p)
    BY <2>4, <2>6, WholeIsWellFormed DEF Sized
  <2> QED
    BY <2>1, <2>4, <2>7, <2>8, MadeSafe DEF Sized
<1>3. ASSUME PaintBars PROVE ChromaIsThere' /\ OriginalIsSound' /\ OnlyOddOrSmallPicturesFail'
  <2>1. Library
    BY <1>3 DEF PaintBars
  <2>2. PICK s \in Sizes : Made(SmpteBars(I420New(s[1], s[2])), ThinIf(s[1] < Bars))
    BY <1>3 DEF PaintBars
  <2>3. s[1] \in Nat /\ s[2] \in Nat
    BY SizesAreNat
  <2> DEFINE n == I420New(s[1], s[2])
             p == SmpteBars(n)
  <2>4. Sized(n, s[1], s[2])
    BY <2>3, NewRefills
  <2>5. Whole(n, s[1], s[2])
    BY <2>3, NewIsWhole
  <2>6. Made(p, ThinIf(s[1] < Bars)) /\ ThinIf(s[1] < Bars) \subseteq {"thin"}
    BY <2>2 DEF ThinIf
  <2> HIDE DEF n
  <2>7. Sized(p, s[1], s[2])
    BY <2>4, BarsShaped
  <2>8. s[1] >= 2 => Whole(p, s[1], s[2])
    BY <2>5, BarsWhole
  <2> HIDE DEF p
  <2>9. "small" \notin Small(p.w, p.h) => WellFormed(p)
    BY <2>3, <2>7, <2>8, NotSmall, WholeIsWellFormed DEF Sized
  <2> QED
    BY <2>1, <2>6, <2>7, <2>9, MadeSafe DEF Sized
<1> QED
  BY <1>2, <1>3

\* Scaling and cropping, which choose a new size.
LEMMA ScaledSafe ==
    ASSUME SafeInv, EditScale
    PROVE  ChromaIsThere' /\ OriginalIsSound' /\ OnlyOddOrSmallPicturesFail'
<1>1. PICK s \in Sizes, m \in {"backend", "buffer"} :
         Edited(IF m = "backend" THEN ScaledTo(pic, s[1], s[2]) ELSE BufferScale(pic, s[1], s[2]),
                Sides(s[1], s[2]) \cup ScaledOnce)
  BY DEF EditScale
<1> DEFINE p == IF m = "backend" THEN ScaledTo(pic, s[1], s[2]) ELSE BufferScale(pic, s[1], s[2])
           event == Sides(s[1], s[2]) \cup ScaledOnce
<1>2. Edited(p, event)
  BY <1>1
<1>3. Library /\ edits < MaxEdits
  BY <1>2 DEF EditScale, Edited
<1>4. s[1] \in Nat /\ s[2] \in Nat
  BY SizesAreNat
<1>5. Sized(p, s[1], s[2])
  BY <1>3, <1>4, InHand, EditedShaped
<1>6. "small" \notin event => s[1] >= 2 /\ s[2] >= 2
  BY <1>4, NotSmall DEF Sides
<1>7. backend = "native" \/ "odd" \notin event => Takes(s[1], s[2])
  BY NotOdd DEF Sides, Takes
<1>8. ASSUME "small" \notin past \cup event, backend = "native" \/ "odd" \notin past \cup event PROVE WellFormed(p)
  <2>1. /\ Whole(pic, pic.w, pic.h) /\ backend \in {"native", "libyuv"} /\ Takes(pic.w, pic.h)
        /\ pic.w >= 2 /\ pic.h >= 2 /\ Takes(s[1], s[2])
    BY <1>3, <1>7, <1>8, InHand
  <2>2. Whole(BufferScale(pic, s[1], s[2]), s[1], s[2]) /\ Whole(ScaledTo(pic, s[1], s[2]), s[1], s[2])
    BY <1>4, <2>1, EditedWhole
  <2>3. Whole(p, s[1], s[2])
    BY <2>2
  <2> QED
    BY <2>3, WholeIsWellFormed
<1> HIDE DEF p, event
<1>9. "small" \notin past \cup event => p.w >= 2 /\ p.h >= 2
  BY <1>5, <1>6 DEF Sized
<1> QED
  BY <1>2, <1>3, <1>8, <1>9, EditedSafe

LEMMA CroppedSafe ==
    ASSUME SafeInv, EditCrop
    PROVE  ChromaIsThere' /\ OriginalIsSound' /\ OnlyOddOrSmallPicturesFail'
<1>1. PICK s \in Sizes, x \in 0 .. 2, y \in 0 .. 1 :
         /\ x + s[1] <= pic.w /\ y + s[2] <= pic.h
         /\ Edited(Cropped(pic, x, y, s[1], s[2]), Sides(s[1], s[2]) \cup Odd(x, y))
  BY DEF EditCrop
<1> DEFINE p == Cropped(pic, x, y, s[1], s[2])
           event == Sides(s[1], s[2]) \cup Odd(x, y)
<1>2. Edited(p, event)
  BY <1>1
<1>3. Library /\ edits < MaxEdits
  BY <1>2 DEF EditCrop, Edited
<1>4. s[1] \in Nat /\ s[2] \in Nat /\ x \in Nat /\ y \in Nat
  BY SizesAreNat
<1>5. Sized(p, s[1], s[2])
  BY <1>3, <1>4, InHand, EditedShaped
<1>6. "small" \notin event => s[1] >= 2 /\ s[2] >= 2
  BY <1>4, NotSmall DEF Sides
<1>8. ASSUME "small" \notin past \cup event, backend = "native" \/ "odd" \notin past \cup event PROVE WellFormed(p)
  <2>1. Whole(pic, pic.w, pic.h) /\ backend \in {"native", "libyuv"} /\ Takes(pic.w, pic.h)
    BY <1>3, <1>8, InHand
  <2>2. Whole(p, s[1], s[2])
    BY <1>1, <1>4, <2>1, EditedWhole
  <2> QED
    BY <2>2, WholeIsWellFormed
<1> HIDE DEF p, event
<1>9. "small" \notin past \cup event => p.w >= 2 /\ p.h >= 2
  BY <1>5, <1>6 DEF Sized
<1> QED
  BY <1>2, <1>3, <1>8, <1>9, EditedSafe

\* The transforms and the texts that keep the sides or exchange them.
LEMMA KeptSafe ==
    ASSUME SafeInv, EditMirror \/ EditRotate \/ EditNV12 \/ EditStamp \/ EditLabel
    PROVE  ChromaIsThere' /\ OriginalIsSound' /\ OnlyOddOrSmallPicturesFail'
<1> DEFINE Safe == ChromaIsThere' /\ OriginalIsSound' /\ OnlyOddOrSmallPicturesFail'
           Fit(event) == /\ "small" \notin past \cup event
                         /\ backend = "native" \/ "odd" \notin past \cup event
<1>1. Library /\ edits < MaxEdits
  BY DEF EditMirror, EditRotate, EditNV12, EditStamp, EditLabel, Edited
<1>2. /\ Shaped(pic) /\ pic.w \in Nat /\ pic.h \in Nat /\ Whole(pic, pic.w, pic.h)
      /\ "small" \notin past => pic.w >= 2 /\ pic.h >= 2
  BY <1>1, InHand
<1>3. \A event : Fit(event) => backend \in {"native", "libyuv"} /\ Takes(pic.w, pic.h)
  BY <1>1, InHand
<1>4. ASSUME NEW p, NEW event, Edited(p, event), Sized(p, pic.w, pic.h) \/ Sized(p, pic.h, pic.w),
             Fit(event) => WellFormed(p)
      PROVE  Safe
  <2>1. "small" \notin past \cup event => p.w >= 2 /\ p.h >= 2
    BY <1>2, <1>4 DEF Sized
  <2> QED
    BY <1>1, <1>4, <2>1, EditedSafe
<1>5. ASSUME EditMirror PROVE Safe
  <2>1. Edited(Mirrored(pic), {}) /\ Sized(Mirrored(pic), pic.w, pic.h)
    BY <1>2, <1>5, EditedShaped DEF EditMirror
  <2>2. Fit({}) => Whole(Mirrored(pic), pic.w, pic.h)
    BY <1>2, <1>3, EditedWhole
  <2>3. Fit({}) => WellFormed(Mirrored(pic))
    BY <2>2, WholeIsWellFormed
  <2> QED
    BY <1>4, <2>1, <2>3
<1>6. ASSUME EditRotate PROVE Safe
  <2>1. PICK rot \in {0, 90, 180, 270} : Edited(Rotated(pic, rot), {})
    BY <1>6 DEF EditRotate
  <2>2. Sized(Rotated(pic, rot), TurnedW(pic.w, pic.h, rot), TurnedH(pic.w, pic.h, rot))
    BY <1>2, EditedShaped
  <2>3. rot \in Turns \cup {0}
    BY DEF Turns
  <2>4. Fit({}) => Whole(Rotated(pic, rot), TurnedW(pic.w, pic.h, rot), TurnedH(pic.w, pic.h, rot))
    <3> SUFFICES ASSUME Fit({}) PROVE Whole(Rotated(pic, rot), TurnedW(pic.w, pic.h, rot), TurnedH(pic.w, pic.h, rot))
      OBVIOUS
    <3>1. backend \in {"native", "libyuv"} /\ Takes(pic.w, pic.h)
      BY <1>3
    <3> HIDE DEF Fit
    <3> QED
      BY <1>2, <2>3, <3>1, EditedWhole
  <2>5. Fit({}) => WellFormed(Rotated(pic, rot))
    BY <2>4, WholeIsWellFormed
  <2>6. Sized(Rotated(pic, rot), pic.w, pic.h) \/ Sized(Rotated(pic, rot), pic.h, pic.w)
    BY <2>2 DEF TurnedW, TurnedH
  <2> QED
    BY <1>4, <2>1, <2>5, <2>6
<1>7. ASSUME EditNV12 PROVE Safe
  <2>1. Edited(NV12RoundTrip(pic), {}) /\ Sized(NV12RoundTrip(pic), pic.w, pic.h)
    BY <1>2, <1>7, EditedShaped DEF EditNV12
  <2>2. Fit({}) => Whole(NV12RoundTrip(pic), pic.w, pic.h)
    BY <1>2, <1>3, EditedWhole
  <2>3. Fit({}) => WellFormed(NV12RoundTrip(pic))
    BY <2>2, WholeIsWellFormed
  <2> QED
    BY <1>4, <2>1, <2>3
<1>8. ASSUME EditStamp PROVE Safe
  <2>1. PICK lines \in Lines, a \in Anchors, z \in Scales :
           Edited(Overlaid(pic, lines, a, z), {"stamped"} \cup Odd(a.at[1], a.at[2]))
    BY <1>8 DEF EditStamp
  <2> DEFINE event == {"stamped"} \cup Odd(a.at[1], a.at[2])
             p == Overlaid(pic, lines, a, z)
  <2>2. Sized(p, pic.w, pic.h)
    BY <1>2, OverlaidShaped DEF Sized
  <2>3. Fit(event) => pic.w >= 2 /\ pic.h >= 2
    BY <1>2
  <2>4. Fit(event) => Whole(p, pic.w, pic.h)
    BY <1>2, <2>3, OverlaidWhole
  <2>5. Fit(event) => WellFormed(p)
    BY <2>4, WholeIsWellFormed
  <2>6. Edited(p, event)
    BY <2>1
  <2> HIDE DEF p, event
  <2> QED
    BY <1>4, <2>2, <2>5, <2>6
<1>9. ASSUME EditLabel PROVE Safe
  <2>1. PICK lines \in Lines, a \in Anchors, z \in Scales, fill \in BOOLEAN :
           Edited(Burned(pic, lines[1], a, z, fill), {})
    BY <1>9 DEF EditLabel
  <2> DEFINE p == Burned(pic, lines[1], a, z, fill)
  <2>2. Sized(p, pic.w, pic.h)
    BY <1>2, BurnedShaped DEF Sized
  <2>3. lines[1] \in Seq(BOOLEAN)
    BY LongestLine
  <2>4. Whole(p, pic.w, pic.h)
    BY <1>2, <2>3, BurnedWhole
  <2>5. Fit({}) => WellFormed(p)
    BY <2>4, WholeIsWellFormed
  <2>6. Edited(p, {})
    BY <2>1
  <2> HIDE DEF p
  <2> QED
    BY <1>4, <2>2, <2>5, <2>6
<1> QED
  BY <1>5, <1>6, <1>7, <1>8, <1>9

\* The pattern's owner: every frame is new, and its squares are in their place.
LEMMA PatternSafe ==
    ASSUME SafeInv, SquaresPlaced', NewSquares \/ PaintSquares
    PROVE  ChromaIsThere' /\ OriginalIsSound' /\ OnlyOddOrSmallPicturesFail'
<1>1. app = "squares" /\ UNCHANGED <<backend, app, orig>>
  BY DEF NewSquares, PaintSquares
<1>2. CASE NewSquares
  BY <1>1, <1>2 DEF NewSquares, SafeInv, ChromaIsThere, OriginalIsSound, OnlyOddOrSmallPicturesFail
<1>3. CASE PaintSquares
  <2> DEFINE m == FrameSize[1]
             n == FrameSize[2]
  <2>1. m \in Nat /\ n \in Nat /\ \A z \in SquareSizes : z \in Nat
    BY SizesAreNat
  <2>2. \A i \in DOMAIN squares' : squares'[i].x \in Nat /\ squares'[i].y \in Nat /\ squares'[i].size \in Nat
    BY <2>1 DEF SquaresPlaced, PlacedSquare
  <2>3. pic' = DrawnSquares(I420New(m, n), squares') /\ dead' = ~WellFormed(pic')
    BY <1>3 DEF PaintSquares
  <2>4. Small(m, n) \subseteq past'
    BY <1>3 DEF PaintSquares, Sides
  <2> HIDE DEF m, n
  <2>5. ASSUME "small" \notin past' PROVE ~dead'
    <3>1. m >= 2 /\ n >= 2
      BY <2>1, <2>4, <2>5, NotSmall
    <3>2. Whole(I420New(m, n), m, n)
      BY <2>1, NewIsWhole
    <3>3. Whole(pic', m, n)
      BY <2>2, <2>3, <3>1, <3>2, SquaresWhole
    <3> QED
      BY <2>3, <3>3, WholeIsWellFormed
  <2> QED
    BY <1>1, <2>5 DEF ChromaIsThere, OriginalIsSound, OnlyOddOrSmallPicturesFail
<1> QED
  BY <1>2, <1>3

\* The viewer's original, when it is none of those that may fail.
LEMMA SoundOriginal ==
    ASSUME SafeInv, app = "viewer", "odd" \notin past, orig.w >= Window[1], orig.h >= Window[2]
    PROVE  /\ orig.w \in Nat /\ orig.h \in Nat /\ orig.w % 8 = 0 /\ orig.h % 8 = 0
           /\ orig.w # 0 /\ orig.h # 0
           /\ Whole(orig, orig.w, orig.h) /\ backend = "native"
<1>1. Shaped(orig) /\ WellFormed(orig) /\ backend = "native" /\ orig.w % 8 = 0 /\ orig.h % 8 = 0
  BY DEF SafeInv, WorkInv, OriginalIsSound
<1>2. Whole(orig, orig.w, orig.h) /\ orig.w \in Nat /\ orig.h \in Nat
  BY <1>1, WellFormedIsWhole DEF Shaped
<1>3. Window[1] \in Nat /\ Window[2] \in Nat /\ Window[1] # 0 /\ Window[2] # 0
  BY WorkbenchConstantsOK
<1> QED
  BY <1>1, <1>2, <1>3

LEMMA LoadSafe ==
    ASSUME SafeInv, Load
    PROVE  ChromaIsThere' /\ OriginalIsSound' /\ OnlyOddOrSmallPicturesFail'
<1>1. PICK s \in Images \cup {Fallback} :
        LET p == IF s = Fallback THEN SceneI420(s[1], s[2]) ELSE FromARGB(SceneARGB(s[1], s[2]), s[1], s[2])
        IN  /\ orig' = p /\ pic' = p
            /\ past' = OddIf(s[1] % 8 # 0 \/ s[2] % 8 # 0)
            /\ dead' = ~VariantsOK(p)
  BY DEF Load
<1> DEFINE p == IF s = Fallback THEN SceneI420(s[1], s[2]) ELSE FromARGB(SceneARGB(s[1], s[2]), s[1], s[2])
           m == s[1]
           n == s[2]
<1>2. m \in Nat /\ n \in Nat
  BY SizesAreNat
<1>3. app' = "viewer" /\ backend = "native" /\ backend' = backend
  BY DEF Load, SafeInv, WorkInv
<1>4. Whole(p, m, n)
  <2>1. CASE s = Fallback
    BY <1>2, <2>1, SceneWhole
  <2>2. CASE s # Fallback
    <3>1. p = ARGBToI420(SceneARGB(m, n), m, n)
      BY <1>3, <2>2 DEF FromARGB
    <3> HIDE DEF p, m, n
    <3>2. DOMAIN SceneARGB(m, n) = 0 .. m * n - 1 /\ \A i \in 0 .. m * n - 1 : Nowhere \notin SceneARGB(m, n)[i]
      BY <1>2, LumaIn
    <3>3. Whole(ARGBToI420(SceneARGB(m, n), m, n), m, n)
      BY <1>2, <3>2, ARGBWhole
    <3> QED
      BY <3>1, <3>3
  <2> QED
    BY <2>1, <2>2
<1>5. orig' = p /\ past' = OddIf(m % 8 # 0 \/ n % 8 # 0) /\ dead' = ~VariantsOK(p)
  BY <1>1
<1>6. "odd" \notin past' => m % 8 = 0 /\ n % 8 = 0
  BY <1>5 DEF OddIf
<1> HIDE DEF p, m, n
<1>7. WellFormed(p) /\ p.w = m /\ p.h = n
  BY <1>4, WholeIsWellFormed
<1>8. Window[1] \in Nat /\ Window[2] \in Nat
  BY SizesAreNat
<1>9. "odd" \notin past' /\ ~(m < Window[1] \/ n < Window[2]) => ~dead'
  <2> SUFFICES ASSUME "odd" \notin past', ~(m < Window[1] \/ n < Window[2]) PROVE VariantsOK(p)
    BY <1>5
  <2>1. m % 8 = 0 /\ n % 8 = 0 /\ m >= Window[1] /\ n >= Window[2]
    BY <1>2, <1>6, <1>8
  <2> QED
    BY <1>3, <1>4, <2>1, VariantsWhole
<1> QED
  BY <1>3, <1>5, <1>6, <1>7, <1>9 DEF ChromaIsThere, OriginalIsSound, OnlyOddOrSmallPicturesFail

LEMMA PressSafe ==
    ASSUME SafeInv, Press
    PROVE  ChromaIsThere' /\ OriginalIsSound' /\ OnlyOddOrSmallPicturesFail'
<1>1. PICK b \in ViewerButtons : dead' = ~Showable(Pressed(b, orig))
  BY DEF Press
<1>2. app = "viewer" /\ UNCHANGED <<backend, app, orig, past>>
  BY DEF Press
<1>3. /\ Window[1] \in Nat /\ Window[2] \in Nat /\ orig.w \in Nat /\ orig.h \in Nat
  BY SizesAreNat DEF SafeInv, WorkInv, Shaped
<1>4. "odd" \notin past /\ ~(orig.w < Window[1] \/ orig.h < Window[2]) => ~dead'
  <2> SUFFICES ASSUME "odd" \notin past, ~(orig.w < Window[1] \/ orig.h < Window[2])
               PROVE  Showable(Pressed(b, orig))
    BY <1>1
  <2>1. orig.w >= Window[1] /\ orig.h >= Window[2]
    BY <1>3
  <2>2. /\ orig.w % 8 = 0 /\ orig.h % 8 = 0 /\ orig.w # 0 /\ orig.h # 0
        /\ Whole(orig, orig.w, orig.h) /\ backend = "native"
    BY <1>2, <2>1, SoundOriginal
  <2>3. PICK w \in Nat, h \in Nat : EvenWhole(Pressed(b, orig), w, h)
    BY <2>2, ButtonWhole
  <2> QED
    BY <2>3, ShowableWhole DEF EvenWhole
<1>5. OriginalIsSound' /\ ChromaIsThere'
  BY <1>2 DEF SafeInv, OriginalIsSound, ChromaIsThere
<1> QED
  BY <1>2, <1>4, <1>5 DEF OnlyOddOrSmallPicturesFail

LEMMA ThumbSafe ==
    ASSUME SafeInv, PickThumb
    PROVE  ChromaIsThere' /\ OriginalIsSound' /\ OnlyOddOrSmallPicturesFail'
<1>1. PICK t \in ThumbSizes :
         dead' = (\E v \in Variants(orig) :
                     0 \in {ThumbSide(v.w, Most(v.w, v.h), t), ThumbSide(v.h, Most(v.w, v.h), t)})
  BY DEF PickThumb
<1>2. app = "viewer" /\ UNCHANGED <<backend, app, orig, past>>
  BY DEF PickThumb
<1>3. /\ Window[1] \in Nat /\ Window[2] \in Nat /\ Window[1] # 0 /\ Window[2] # 0
      /\ Least(Window[1], Window[2]) * t >= Most(Window[1], Window[2]) /\ t \in Nat
  BY WorkbenchConstantsOK
<1>4. orig.w \in Nat /\ orig.h \in Nat
  BY DEF SafeInv, WorkInv, Shaped
<1>5. "odd" \notin past /\ ~(orig.w < Window[1] \/ orig.h < Window[2]) /\ ~Elongated(orig) => ~dead'
  <2> SUFFICES ASSUME "odd" \notin past, ~(orig.w < Window[1] \/ orig.h < Window[2]), ~Elongated(orig),
                      NEW v \in Variants(orig)
               PROVE  ThumbSide(v.w, Most(v.w, v.h), t) # 0 /\ ThumbSide(v.h, Most(v.w, v.h), t) # 0
    BY <1>1
  <2>1. orig.w >= Window[1] /\ orig.h >= Window[2]
    BY <1>3, <1>4
  <2>2. /\ orig.w % 8 = 0 /\ orig.h % 8 = 0 /\ orig.w # 0 /\ orig.h # 0
        /\ Whole(orig, orig.w, orig.h) /\ backend = "native"
    BY <1>2, <2>1, SoundOriginal
  <2>3. PICK w \in Nat, h \in Nat :
           EvenWhole(v, w, h) /\ (Divided(w, h, orig.w, orig.h) \/ (w = Window[1] /\ h = Window[2]))
    BY <2>1, <2>2, VariantsWhole
  <2>4. v.w = w /\ v.h = h
    BY <2>3, WholeIsWellFormed DEF EvenWhole
  <2>5. w # 0 /\ h # 0
    BY <1>3, <1>4, <2>2, <2>3 DEF Divided
  <2>6. Least(orig.w, orig.h) * t >= Most(orig.w, orig.h)
    <3>1. ~(Least(orig.w, orig.h) * t < Most(orig.w, orig.h))
      BY DEF Elongated
    <3>2. Least(orig.w, orig.h) \in Nat /\ Most(orig.w, orig.h) \in Nat
      BY <1>4 DEF Least, Most
    <3>3. \A x, y \in Nat : ~(x * t < y) => x * t >= y
      BY <1>3
    <3> QED
      BY <3>1, <3>2, <3>3
  <2>7. Least(w, h) * t >= Most(w, h)
    <3>1. CASE Divided(w, h, orig.w, orig.h)
      BY <1>3, <1>4, <2>6, <3>1, DividedNotElongated
    <3>2. CASE w = Window[1] /\ h = Window[2]
      BY <1>3, <3>2
    <3> QED
      BY <2>3, <3>1, <3>2
  <2> QED
    BY <1>3, <2>4, <2>5, <2>7, ThumbHasSides
<1>6. OriginalIsSound' /\ ChromaIsThere'
  BY <1>2 DEF SafeInv, OriginalIsSound, ChromaIsThere
<1> QED
  BY <1>2, <1>5, <1>6 DEF OnlyOddOrSmallPicturesFail, Elongated

\* The program keeps the invariant.
LEMMA SafeInvInit == WorkInit => SafeInv
<1> SUFFICES ASSUME WorkInit PROVE SafeInv
  OBVIOUS
<1>1. orig.w = 0 /\ orig.h = 0 /\ orig = pic /\ dead = FALSE /\ edits = MaxEdits
  BY DEF WorkInit, I420New
<1>2. WorkInv /\ SquaresPlaced
  BY WorkInvInit, SquaresInit
<1>3. WellFormed(orig)
  BY <1>1, <1>2 DEF WorkInv
<1>4. orig.w % 8 = 0 /\ orig.h % 8 = 0
  BY <1>1
<1> QED
  BY <1>1, <1>2, <1>3, <1>4 DEF SafeInv, ChromaIsThere, OriginalIsSound, OnlyOddOrSmallPicturesFail

LEMMA SafeInvNext == SafeInv /\ [WorkNext]_workVars => SafeInv'
<1> SUFFICES ASSUME SafeInv, [WorkNext]_workVars PROVE SafeInv'
  OBVIOUS
<1>1. WorkInv' /\ SquaresPlaced'
  BY WorkInvNext, SquaresStep DEF SafeInv
<1>2. ChromaIsThere' /\ OriginalIsSound' /\ OnlyOddOrSmallPicturesFail'
  <2>1. CASE Receive \/ PaintBars
    BY <2>1, PicturesMadeSafe
  <2>2. CASE NewSquares \/ PaintSquares
    BY <1>1, <2>2, PatternSafe
  <2>3. CASE EditScale
    BY <2>3, ScaledSafe
  <2>4. CASE EditCrop
    BY <2>4, CroppedSafe
  <2>5. CASE EditMirror \/ EditRotate \/ EditNV12 \/ EditStamp \/ EditLabel
    BY <2>5, KeptSafe
  <2>6. CASE Load
    BY <2>6, LoadSafe
  <2>7. CASE Press
    BY <2>7, PressSafe
  <2>8. CASE PickThumb
    BY <2>8, ThumbSafe
  <2>9. CASE UNCHANGED workVars
    BY <2>9 DEF workVars, SafeInv, ChromaIsThere, OriginalIsSound, OnlyOddOrSmallPicturesFail
  <2> QED
    BY <2>1, <2>2, <2>3, <2>4, <2>5, <2>6, <2>7, <2>8, <2>9 DEF WorkNext
<1> QED
  BY <1>1, <1>2 DEF SafeInv

\* Whatever a caller does with a picture, and whatever the constants, no sample
\* is read or written outside a plane unless a size or a corner was odd, the
\* picture had no chroma, or the viewer's image was too small or too elongated:
\* the conversions, transforms, patterns and overlays of both backends, and the
\* viewer's variants, thumbnails and buttons.
THEOREM NoSampleStrays == WorkSpec => []OnlyOddOrSmallPicturesFail
<1>1. WorkInit => SafeInv
  BY SafeInvInit
<1>2. SafeInv /\ [WorkNext]_workVars => SafeInv'
  BY SafeInvNext
<1>3. SafeInv => OnlyOddOrSmallPicturesFail
  BY DEF SafeInv
<1> QED
  BY <1>1, <1>2, <1>3, PTL DEF WorkSpec
=============================================================================
