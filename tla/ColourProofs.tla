---------------------------- MODULE ColourProofs ----------------------------
(***************************************************************************)
(* Proof that colour stays in place in the pictures of Workbench, for any  *)
(* sizes.  A picture that has not been scaled is a placing of the scene: a *)
(* map from its samples to the scene's that keeps what is between two      *)
(* samples between them, and takes the four samples of a chroma cell to    *)
(* what the chroma shows.  The transforms compose with it.                 *)
(***************************************************************************)
EXTENDS PictureProofs

\* Between two places on each axis, whichever of them comes first.
Between(x, a, b) ==
    \A d \in {1, 2} : (a[d] <= x[d] /\ x[d] <= b[d]) \/ (b[d] <= x[d] /\ x[d] <= a[d])
Steady(f) == \A x, a, b \in DOMAIN f : Between(x, a, b) => Between(f[x], f[a], f[b])

\* The luma sample of a place.
LumaAt(p, a) == p.y.data[Index(p.y.stride, a)]

\* What ChromaStaysWithLuma says of a cell and of a picture.
CellHolds(lumas, chroma, events, b) ==
    \/ AmongLumas(chroma, lumas)
    \/ Label \in lumas
    \/ chroma = Neutral /\ "stamped" \in events
    \/ chroma # Blank /\ "scaled" \in events /\ \A q \in chroma : q[1] < 0
    \/ Text \in lumas /\ "scaled" \in events /\ b = "libyuv"
Holds(p, events, b) ==
    /\ p.u = p.v
    /\ \A a \in Area(p.w, p.h) : LumaAt(p, a) # Blank
    /\ \A c \in Halves(p) : CellHolds(CellLuma(p, c), CellChroma(p, c), events, b)

\* What TextHasNoColour says of a picture.
TextClear(p) == \A c \in Halves(p) : Text \in CellLuma(p, c) => CellChroma(p, c) = Neutral

\* A scene, with text and labels over it.
Shows(p, place, events) ==
    /\ place \in [Area(p.w, p.h) -> Nat \X Nat] /\ Steady(place)
    /\ \A a \in Area(p.w, p.h) : LumaAt(p, a) \in {{place[a]}, Text, Label}
    /\ \A c \in Halves(p) :
          \/ CellChroma(p, c) = {place[a] : a \in Block(c[1], c[2])}
          \/ CellChroma(p, c) = Neutral /\ "stamped" \in events
SceneColour(p, events) == p.u = p.v /\ \E place : Shows(p, place, events)

\* Bars, with text and labels over them.
BarsColour(p, events) ==
    /\ p.u = p.v
    /\ \A a \in Area(p.w, p.h) : LumaAt(p, a) \in {Gradient, Text, Label} \/ \E i : LumaAt(p, a) = Bar(i)
    /\ \A c \in Halves(p) :
          /\ CellChroma(p, c) = Neutral \/ \E i : CellChroma(p, c) = Bar(i)
          /\ \/ CellChroma(p, c) \in CellLuma(p, c)
             \/ Label \in CellLuma(p, c)
             \/ CellChroma(p, c) = Neutral /\ (Gradient \in CellLuma(p, c) \/ "stamped" \in events)

\* q shows p: every luma sample of q is that of f's place in p, every chroma
\* sample that of g's, and cells are taken to cells.
ViewedBy(p, q, f, g) ==
    /\ f \in [Area(q.w, q.h) -> Area(p.w, p.h)] /\ g \in [Halves(q) -> Halves(p)]
    /\ \A a \in Area(q.w, q.h) : LumaAt(q, a) = LumaAt(p, f[a])
    /\ \A c \in Halves(q) : CellChroma(q, c) = CellChroma(p, g[c])
    /\ \A c \in Halves(q) : /\ \A a \in Block(c[1], c[2]) : f[a] \in Block(g[c][1], g[c][2])
                            /\ \A b \in Block(g[c][1], g[c][2]) : \E a \in Block(c[1], c[2]) : f[a] = b
    /\ Steady(f)
    /\ p.u = p.v => q.u = q.v
Viewed(p, q) == \E f, g : ViewedBy(p, q, f, g)

\* A chroma cell's four places are in the picture.
LEMMA CellsInside ==
    ASSUME NEW p, p.w \in Nat, p.h \in Nat, NEW c \in Halves(p)
    PROVE  /\ c[1] \in Nat /\ c[2] \in Nat /\ c = <<c[1], c[2]>>
           /\ Block(c[1], c[2]) \subseteq Area(p.w, p.h)
           /\ <<2 * c[1], 2 * c[2]>> \in Block(c[1], c[2])
           /\ \A a \in Block(c[1], c[2]) : LumaAt(p, a) \in CellLuma(p, c)
<1>1. c \in Area(p.w \div 2, p.h \div 2)
  BY DEF Halves
<1>2. c[1] \in Nat /\ c[2] \in Nat /\ c = <<c[1], c[2]>>
  <2>1. p.w \div 2 \in Nat /\ p.h \div 2 \in Nat
    OBVIOUS
  <2> QED
    BY <1>1, <2>1 DEF Area
<1>3. \A k \in {0, 1} : 2 * c[1] + k \in 0 .. p.w - 1 /\ 2 * c[2] + k \in 0 .. p.h - 1
  BY <1>1, HalfCells
<1>4. 2 * c[1] \in 0 .. p.w - 1 /\ 2 * c[2] \in 0 .. p.h - 1 /\ 2 * c[1] + 1 \in 0 .. p.w - 1 /\ 2 * c[2] + 1 \in 0 .. p.h - 1
  BY <1>2, <1>3
<1>5. Block(c[1], c[2]) \subseteq Area(p.w, p.h) /\ <<2 * c[1], 2 * c[2]>> \in Block(c[1], c[2])
  BY <1>4 DEF Block, Area
<1>6. \A a \in Block(c[1], c[2]) : LumaAt(p, a) \in CellLuma(p, c)
  BY DEF LumaAt, CellLuma
<1> QED
  BY <1>2, <1>5, <1>6

\* The four luma samples of a cell, by place.
LEMMA CellLumas ==
    ASSUME NEW p, NEW c
    PROVE  CellLuma(p, c) = {LumaAt(p, a) : a \in Block(c[1], c[2])}
BY DEF LumaAt, CellLuma

\* A view has the cells of what it shows.
LEMMA ViewedCells ==
    ASSUME NEW p, NEW q, p.w \in Nat, p.h \in Nat, q.w \in Nat, q.h \in Nat, NEW f, NEW g, ViewedBy(p, q, f, g),
           NEW c \in Halves(q)
    PROVE  /\ g[c] \in Halves(p) /\ CellLuma(q, c) = CellLuma(p, g[c])
           /\ CellChroma(q, c) = CellChroma(p, g[c])
<1>1. g[c] \in Halves(p) /\ CellChroma(q, c) = CellChroma(p, g[c])
  BY DEF ViewedBy
<1>2. /\ \A a \in Block(c[1], c[2]) : f[a] \in Block(g[c][1], g[c][2])
      /\ \A b \in Block(g[c][1], g[c][2]) : \E a \in Block(c[1], c[2]) : f[a] = b
      /\ \A a \in Area(q.w, q.h) : LumaAt(q, a) = LumaAt(p, f[a])
  BY DEF ViewedBy
<1>3. Block(c[1], c[2]) \subseteq Area(q.w, q.h)
  BY CellsInside
<1>4. CellLuma(q, c) = {LumaAt(q, a) : a \in Block(c[1], c[2])}
  BY CellLumas
<1>5. CellLuma(p, g[c]) = {LumaAt(p, a) : a \in Block(g[c][1], g[c][2])}
  BY CellLumas
<1>6. CellLuma(q, c) = CellLuma(p, g[c])
  <2> DEFINE S == Block(c[1], c[2])
             T == Block(g[c][1], g[c][2])
  <2>1. \A a \in S : LumaAt(q, a) = LumaAt(p, f[a]) /\ f[a] \in T
    BY <1>2, <1>3
  <2>2. \A b \in T : \E a \in S : f[a] = b
    BY <1>2
  <2>3. CellLuma(q, c) = {LumaAt(q, a) : a \in S} /\ CellLuma(p, g[c]) = {LumaAt(p, a) : a \in T}
    BY <1>4, <1>5
  <2> HIDE DEF S, T
  <2>4. {LumaAt(q, a) : a \in S} = {LumaAt(p, b) : b \in T}
    <3>1. ASSUME NEW x \in {LumaAt(q, a) : a \in S} PROVE x \in {LumaAt(p, b) : b \in T}
      BY <2>1
    <3>2. ASSUME NEW x \in {LumaAt(p, b) : b \in T} PROVE x \in {LumaAt(q, a) : a \in S}
      <4>1. PICK b \in T : x = LumaAt(p, b)
        OBVIOUS
      <4>2. PICK a \in S : f[a] = b
        BY <2>2
      <4> QED
        BY <2>1, <4>1, <4>2
    <3> QED
      BY <3>1, <3>2
  <2> QED
    BY <2>3, <2>4
<1> QED
  BY <1>1, <1>6

\* What holds of a picture's cells holds of a view of it.
LEMMA ViewHolds ==
    ASSUME NEW p, NEW q, p.w \in Nat, p.h \in Nat, q.w \in Nat, q.h \in Nat, Viewed(p, q)
    PROVE  /\ \A events, b : Holds(p, events, b) => Holds(q, events, b)
           /\ TextClear(p) => TextClear(q)
           /\ \A events : BarsColour(p, events) => BarsColour(q, events)
<1>1. PICK f, g : ViewedBy(p, q, f, g)
  BY DEF Viewed
<1>2. \A c \in Halves(q) : /\ g[c] \in Halves(p) /\ CellLuma(q, c) = CellLuma(p, g[c])
                           /\ CellChroma(q, c) = CellChroma(p, g[c])
  BY <1>1, ViewedCells
<1>3. \A a \in Area(q.w, q.h) : f[a] \in Area(p.w, p.h) /\ LumaAt(q, a) = LumaAt(p, f[a])
  BY <1>1 DEF ViewedBy
<1>4. p.u = p.v => q.u = q.v
  BY <1>1 DEF ViewedBy
<1>5. ASSUME NEW events, NEW b, Holds(p, events, b) PROVE Holds(q, events, b)
  BY <1>2, <1>3, <1>4, <1>5, Zenon DEF Holds
<1>6. TextClear(p) => TextClear(q)
  BY <1>2, Zenon DEF TextClear
<1>7. ASSUME NEW events, BarsColour(p, events) PROVE BarsColour(q, events)
  <2>1. \A a \in Area(q.w, q.h) : LumaAt(q, a) \in {Gradient, Text, Label} \/ \E i : LumaAt(q, a) = Bar(i)
    BY <1>3, <1>7, Zenon DEF BarsColour
  <2>2. ASSUME NEW c \in Halves(q)
        PROVE  /\ CellChroma(q, c) = Neutral \/ \E i : CellChroma(q, c) = Bar(i)
               /\ \/ CellChroma(q, c) \in CellLuma(q, c)
                  \/ Label \in CellLuma(q, c)
                  \/ CellChroma(q, c) = Neutral /\ (Gradient \in CellLuma(q, c) \/ "stamped" \in events)
    BY <1>2, <1>7, Zenon DEF BarsColour
  <2> QED
    BY <1>4, <1>7, <2>1, <2>2, Zenon DEF BarsColour
<1> QED
  BY <1>5, <1>6, <1>7

\* A view of a scene is a scene.
LEMMA ViewScene ==
    ASSUME NEW p, NEW q, p.w \in Nat, p.h \in Nat, q.w \in Nat, q.h \in Nat, Viewed(p, q), NEW events,
           SceneColour(p, events)
    PROVE  SceneColour(q, events)
<1>1. PICK f, g : ViewedBy(p, q, f, g)
  BY DEF Viewed
<1>2. PICK place : Shows(p, place, events)
  BY DEF SceneColour
<1> DEFINE new == [a \in Area(q.w, q.h) |-> place[f[a]]]
<1>3. f \in [Area(q.w, q.h) -> Area(p.w, p.h)] /\ Steady(f)
  BY <1>1 DEF ViewedBy
<1>4. place \in [Area(p.w, p.h) -> Nat \X Nat] /\ Steady(place)
  BY <1>2 DEF Shows
<1>5. new \in [Area(q.w, q.h) -> Nat \X Nat]
  BY <1>3, <1>4
<1>6. Steady(new)
  <2> SUFFICES ASSUME NEW x \in Area(q.w, q.h), NEW a \in Area(q.w, q.h), NEW b \in Area(q.w, q.h),
                      Between(x, a, b)
               PROVE  Between(new[x], new[a], new[b])
    BY DEF Steady
  <2>1. Between(f[x], f[a], f[b]) /\ f[x] \in Area(p.w, p.h) /\ f[a] \in Area(p.w, p.h) /\ f[b] \in Area(p.w, p.h)
    BY <1>3 DEF Steady
  <2>2. Between(place[f[x]], place[f[a]], place[f[b]])
    BY <1>4, <2>1 DEF Steady
  <2> QED
    BY <2>2
<1>7. ASSUME NEW a \in Area(q.w, q.h) PROVE LumaAt(q, a) \in {{new[a]}, Text, Label}
  <2>1. LumaAt(q, a) = LumaAt(p, f[a]) /\ f[a] \in Area(p.w, p.h)
    BY <1>1, <1>3 DEF ViewedBy
  <2>2. LumaAt(p, f[a]) \in {{place[f[a]]}, Text, Label}
    BY <1>2, <2>1 DEF Shows
  <2> QED
    BY <2>1, <2>2
<1>8. ASSUME NEW c \in Halves(q)
      PROVE  \/ CellChroma(q, c) = {new[a] : a \in Block(c[1], c[2])}
             \/ CellChroma(q, c) = Neutral /\ "stamped" \in events
  <2>1. g[c] \in Halves(p) /\ CellChroma(q, c) = CellChroma(p, g[c])
    BY <1>1 DEF ViewedBy
  <2>2. /\ \A a \in Block(c[1], c[2]) : f[a] \in Block(g[c][1], g[c][2])
        /\ \A b \in Block(g[c][1], g[c][2]) : \E a \in Block(c[1], c[2]) : f[a] = b
    BY <1>1 DEF ViewedBy
  <2>3. Block(c[1], c[2]) \subseteq Area(q.w, q.h)
    BY CellsInside
  <2>4. \/ CellChroma(p, g[c]) = {place[a] : a \in Block(g[c][1], g[c][2])}
        \/ CellChroma(p, g[c]) = Neutral /\ "stamped" \in events
    BY <1>2, <2>1 DEF Shows
  <2>5. {new[a] : a \in Block(c[1], c[2])} = {place[a] : a \in Block(g[c][1], g[c][2])}
    <3> DEFINE S == Block(c[1], c[2])
               T == Block(g[c][1], g[c][2])
    <3>1. \A a \in S : new[a] = place[f[a]] /\ f[a] \in T
      BY <2>2, <2>3
    <3>2. \A b \in T : \E a \in S : f[a] = b
      BY <2>2
    <3> HIDE DEF S, T, new
    <3>3. {new[a] : a \in S} = {place[b] : b \in T}
      <4>1. ASSUME NEW x \in {new[a] : a \in S} PROVE x \in {place[b] : b \in T}
        BY <3>1
      <4>2. ASSUME NEW x \in {place[b] : b \in T} PROVE x \in {new[a] : a \in S}
        <5>1. PICK b \in T : x = place[b]
          OBVIOUS
        <5>2. PICK a \in S : f[a] = b
          BY <3>2
        <5> QED
          BY <3>1, <5>1, <5>2
      <4> QED
        BY <4>1, <4>2
    <3> QED
      BY <3>3 DEF S, T
  <2> QED
    BY <2>1, <2>4, <2>5, Zenon
<1>9. q.u = q.v
  BY <1>1 DEF ViewedBy, SceneColour
<1> HIDE DEF new
<1>10. Shows(q, new, events)
  BY <1>5, <1>6, <1>7, <1>8, Zenon DEF Shows
<1> QED
  BY <1>9, <1>10 DEF SceneColour

\* No two paints are alike, and none is a point of the scene.
LEMMA PaintsDiffer ==
    /\ Text # Label /\ Text # Neutral /\ Text # Gradient /\ Label # Gradient
    /\ Text # Blank /\ Label # Blank /\ Gradient # Blank /\ Neutral # Blank
    /\ \A i : Bar(i) # Blank /\ Bar(i) # Text /\ Bar(i) # Label /\ Bar(i) # Neutral /\ Bar(i) # Gradient
    /\ \A i : \A q \in Bar(i) : q[1] < 0
    /\ \A q \in Neutral : q[1] < 0
<1>1. /\ Text # Label /\ Text # Neutral /\ Text # Gradient /\ Label # Gradient
      /\ Text # Blank /\ Label # Blank /\ Gradient # Blank /\ Neutral # Blank
  <2>1. \A q \in Text : q[1] = -4 /\ q[2] = 2
    BY DEF Text
  <2>2. \A q \in Label : q[1] = -4 /\ q[2] = 3
    BY DEF Label
  <2>3. \A q \in Gradient : q[1] = -4 /\ q[2] = 1
    BY DEF Gradient
  <2>4. \A q \in Neutral : q[1] = -5
    BY DEF Neutral
  <2>5. (\E q : q \in Text) /\ (\E q : q \in Label) /\ (\E q : q \in Gradient) /\ (\E q : q \in Neutral)
    BY DEF Text, Label, Gradient, Neutral
  <2> QED
    BY <2>1, <2>2, <2>3, <2>4, <2>5 DEF Blank
<1>2. ASSUME NEW i PROVE Bar(i) # Blank /\ Bar(i) # Text /\ Bar(i) # Label /\ Bar(i) # Neutral /\ Bar(i) # Gradient
  <2>1. <<-2, i>> \in Bar(i) /\ <<-2, i>>[1] = -2
    BY DEF Bar
  <2>2. \A q \in Text \cup Label \cup Neutral \cup Gradient : q[1] # -2
    BY DEF Text, Label, Neutral, Gradient
  <2> QED
    BY <2>1, <2>2 DEF Blank
<1>3. \A i : \A q \in Bar(i) : q[1] < 0
  BY DEF Bar
<1>4. \A q \in Neutral : q[1] < 0
  BY DEF Neutral
<1> QED
  BY <1>1, <1>2, <1>3, <1>4

\* A place of the scene that is between two that the lumas show.
LEMMA BetweenIsWithin ==
    ASSUME NEW chroma, NEW lumas, NEW x \in chroma, NEW a \in Nat \X Nat, NEW b \in Nat \X Nat,
           x \in Nat \X Nat, Between(x, a, b), {a} \in lumas, {b} \in lumas
    PROVE  AmongLumas(chroma, lumas)
<1> DEFINE pts == {q \in UNION lumas : q[1] >= 0}
<1>1. a \in pts /\ b \in pts
  BY DEF pts
<1>2. a[1] \in Nat /\ a[2] \in Nat /\ b[1] \in Nat /\ b[2] \in Nat /\ x[1] \in Nat /\ x[2] \in Nat
  OBVIOUS
<1>3. \A d \in {1, 2} : \/ a[d] <= x[d] /\ b[d] >= x[d]
                        \/ b[d] <= x[d] /\ a[d] >= x[d]
  BY <1>2 DEF Between
<1> HIDE DEF pts
<1>4. \A d \in {1, 2} : (\E l \in pts : l[d] <= x[d]) /\ (\E l \in pts : l[d] >= x[d])
  BY <1>1, <1>3
<1> QED
  BY <1>4 DEF AmongLumas, pts

\* A place is between itself and itself.
LEMMA BetweenItself ==
    ASSUME NEW a, a[1] \in Int, a[2] \in Int
    PROVE  Between(a, a, a)
BY DEF Between

\* A scene's colour is in place as long as text has none.
LEMMA SceneHolds ==
    ASSUME NEW p, p.w \in Nat, p.h \in Nat, NEW events, NEW b, SceneColour(p, events), TextClear(p)
    PROVE  Holds(p, events, b)
<1>1. PICK place : Shows(p, place, events)
  BY DEF SceneColour
<1>2. place \in [Area(p.w, p.h) -> Nat \X Nat] /\ \A a \in Area(p.w, p.h) : LumaAt(p, a) \in {{place[a]}, Text, Label}
  BY <1>1 DEF Shows
<1>3. \A a \in Area(p.w, p.h) : LumaAt(p, a) # Blank
  BY <1>2, PaintsDiffer DEF Blank
<1>4. ASSUME NEW c \in Halves(p) PROVE CellHolds(CellLuma(p, c), CellChroma(p, c), events, b)
  <2> DEFINE a == <<2 * c[1], 2 * c[2]>>
             lumas == CellLuma(p, c)
             chroma == CellChroma(p, c)
  <2>1. a \in Block(c[1], c[2]) /\ a \in Area(p.w, p.h) /\ LumaAt(p, a) \in lumas
    BY CellsInside
  <2>2. chroma = {place[x] : x \in Block(c[1], c[2])} \/ (chroma = Neutral /\ "stamped" \in events)
    BY <1>1 DEF Shows
  <2>3. Text \in lumas => chroma = Neutral
    BY DEF TextClear
  <2>4. LumaAt(p, a) \in {{place[a]}, Text, Label} /\ place[a] \in Nat \X Nat
    BY <1>2, <2>1
  <2>5. ASSUME chroma = {place[x] : x \in Block(c[1], c[2])} PROVE place[a] \in chroma /\ chroma # Neutral
    <3>1. place[a] \in chroma
      BY <2>1, <2>5
    <3>2. \A q \in Neutral : q \notin Nat \X Nat
      BY DEF Neutral
    <3> QED
      BY <2>4, <3>1, <3>2
  <2> HIDE DEF a, lumas, chroma
  <2>6. CASE chroma = Neutral /\ "stamped" \in events
    BY <2>6 DEF CellHolds, lumas, chroma
  <2>7. CASE chroma = {place[x] : x \in Block(c[1], c[2])}
    <3>1. place[a] \in chroma /\ LumaAt(p, a) # Text
      BY <2>1, <2>3, <2>5, <2>7
    <3>2. CASE LumaAt(p, a) = Label
      BY <2>1, <3>2 DEF CellHolds, lumas, chroma
    <3>3. CASE LumaAt(p, a) = {place[a]}
      <4>1. Between(place[a], place[a], place[a])
        BY <2>4, BetweenItself
      <4>2. AmongLumas(chroma, lumas)
        BY <2>1, <2>4, <3>1, <3>3, <4>1, BetweenIsWithin
      <4> QED
        BY <4>2 DEF CellHolds, lumas, chroma
    <3> QED
      BY <2>4, <3>1, <3>2, <3>3
  <2> QED
    BY <2>2, <2>6, <2>7
<1> QED
  BY <1>3, <1>4, Zenon DEF Holds, SceneColour

\* So is that of bars.
LEMMA BarsHold ==
    ASSUME NEW p, p.w \in Nat, p.h \in Nat, NEW events, NEW b, BarsColour(p, events)
    PROVE  Holds(p, events, b)
<1>1. \A a \in Area(p.w, p.h) : LumaAt(p, a) # Blank
  <2> SUFFICES ASSUME NEW a \in Area(p.w, p.h) PROVE LumaAt(p, a) # Blank
    OBVIOUS
  <2>1. LumaAt(p, a) \in {Gradient, Text, Label} \/ \E i : LumaAt(p, a) = Bar(i)
    BY DEF BarsColour
  <2>2. CASE LumaAt(p, a) \in {Gradient, Text, Label}
    BY <2>2, PaintsDiffer
  <2>3. CASE \E i : LumaAt(p, a) = Bar(i)
    BY <2>3, PaintsDiffer, Zenon
  <2> QED
    BY <2>1, <2>2, <2>3
<1>2. ASSUME NEW c \in Halves(p) PROVE CellHolds(CellLuma(p, c), CellChroma(p, c), events, b)
  <2> DEFINE lumas == CellLuma(p, c)
             chroma == CellChroma(p, c)
  <2>1. \/ chroma \in lumas
        \/ Label \in lumas
        \/ chroma = Neutral /\ (Gradient \in lumas \/ "stamped" \in events)
    BY DEF BarsColour
  <2>2. Gradient \in Grey
    BY DEF Grey
  <2> HIDE DEF lumas, chroma
  <2>3. chroma \in lumas \/ (chroma = Neutral /\ Gradient \in lumas) => AmongLumas(chroma, lumas)
    <3>1. chroma = Neutral /\ Gradient \in lumas => lumas \cap Grey # {}
      BY <2>2
    <3> QED
      BY <3>1 DEF AmongLumas
  <2> QED
    BY <2>1, <2>3 DEF CellHolds, lumas, chroma
<1> QED
  BY <1>1, <1>2, Zenon DEF Holds, BarsColour

\* q samples p: luma and chroma by maps of their own, but so that each cell of q
\* has two lumas, and its chroma one place, which is between theirs; without a
\* filter all three are one.
SampledBy(p, q, f, g, b) ==
    /\ f \in [Area(q.w, q.h) -> Area(p.w, p.h)] /\ g \in [Halves(q) -> Halves(p)]
    /\ \A a \in Area(q.w, q.h) : LumaAt(q, a) = LumaAt(p, f[a])
    /\ \A c \in Halves(q) : CellChroma(q, c) = CellChroma(p, g[c])
    /\ \A c \in Halves(q) : \E x \in Block(g[c][1], g[c][2]), a1, a2 \in Block(c[1], c[2]) :
          Between(x, f[a1], f[a2]) /\ (b # "libyuv" => f[a1] = x /\ f[a2] = x)
    /\ p.u = p.v => q.u = q.v
Sampled(p, q, b) == \E f, g : SampledBy(p, q, f, g, b)

\* A scene's colour is in place after one scaling.
LEMMA SceneSampled ==
    ASSUME NEW p, NEW q, p.w \in Nat, p.h \in Nat, q.w \in Nat, q.h \in Nat, NEW b, Sampled(p, q, b),
           NEW events, NEW more, SceneColour(p, events), TextClear(p), events \subseteq more,
           b # "libyuv" \/ "scaled" \in more
    PROVE  Holds(q, more, b)
<1>1. PICK f, g : SampledBy(p, q, f, g, b)
  BY DEF Sampled
<1>2. PICK place : Shows(p, place, events)
  BY DEF SceneColour
<1>3. /\ f \in [Area(q.w, q.h) -> Area(p.w, p.h)]
      /\ \A a \in Area(q.w, q.h) : LumaAt(q, a) = LumaAt(p, f[a]) /\ f[a] \in Area(p.w, p.h)
      /\ q.u = q.v
  BY <1>1 DEF SampledBy, SceneColour
<1>4. /\ place \in [Area(p.w, p.h) -> Nat \X Nat] /\ Steady(place)
      /\ \A a \in Area(p.w, p.h) : LumaAt(p, a) \in {{place[a]}, Text, Label}
  BY <1>2 DEF Shows
<1>5. \A a \in Area(q.w, q.h) : LumaAt(q, a) # Blank
  <2>1. \A a \in Area(p.w, p.h) : LumaAt(p, a) # Blank
    BY <1>4, PaintsDiffer DEF Blank
  <2> QED
    BY <1>3, <2>1
<1>6. ASSUME NEW c \in Halves(q) PROVE CellHolds(CellLuma(q, c), CellChroma(q, c), more, b)
  <2>1. /\ g[c] \in Halves(p) /\ CellChroma(q, c) = CellChroma(p, g[c])
        /\ \E x \in Block(g[c][1], g[c][2]), a1, a2 \in Block(c[1], c[2]) :
              Between(x, f[a1], f[a2]) /\ (b # "libyuv" => f[a1] = x /\ f[a2] = x)
    BY <1>1 DEF SampledBy
  <2>2. PICK x \in Block(g[c][1], g[c][2]), a1 \in Block(c[1], c[2]), a2 \in Block(c[1], c[2]) :
           Between(x, f[a1], f[a2]) /\ (b # "libyuv" => f[a1] = x /\ f[a2] = x)
    BY <2>1
  <2> DEFINE lumas == CellLuma(q, c)
             chroma == CellChroma(q, c)
             e == g[c]
             cells == Block(e[1], e[2])
             l1 == LumaAt(q, a1)
             l2 == LumaAt(q, a2)
  <2>3. a1 \in Area(q.w, q.h) /\ a2 \in Area(q.w, q.h) /\ l1 \in lumas /\ l2 \in lumas
    BY CellsInside
  <2>4. e \in Halves(p) /\ cells \subseteq Area(p.w, p.h) /\ x \in cells
    BY <2>1, <2>2, CellsInside
  <2>5. l1 = LumaAt(p, f[a1]) /\ l2 = LumaAt(p, f[a2]) /\ f[a1] \in Area(p.w, p.h) /\ f[a2] \in Area(p.w, p.h)
    BY <1>3, <2>3
  <2>6. l1 \in {{place[f[a1]]}, Text, Label} /\ l2 \in {{place[f[a2]]}, Text, Label}
    BY <1>4, <2>5
  <2>7. /\ chroma = {place[a] : a \in cells} \/ (chroma = Neutral /\ "stamped" \in events)
        /\ Text \in CellLuma(p, e) => chroma = Neutral
    BY <1>2, <2>1, <2>4 DEF Shows, TextClear
  <2>8. LumaAt(p, x) \in CellLuma(p, e)
    BY <2>4, CellsInside
  <2>9. CASE chroma = Neutral /\ "stamped" \in events
    BY <2>9 DEF CellHolds
  <2>10. CASE chroma = {place[a] : a \in cells}
    <3>1. place[x] \in chroma /\ place[x] \in Nat \X Nat
      BY <1>4, <2>4, <2>10
    <3>2. chroma # Neutral
      <4>1. \A y \in Neutral : y \notin Nat \X Nat
        BY DEF Neutral
      <4> QED
        BY <3>1, <4>1
    <3>3. LumaAt(p, x) # Text
      BY <2>7, <2>8, <3>2
    <3>4. place[f[a1]] \in Nat \X Nat /\ place[f[a2]] \in Nat \X Nat
      BY <1>4, <2>5
    <3>5. Between(place[x], place[f[a1]], place[f[a2]])
      BY <1>4, <2>2, <2>4, <2>5 DEF Steady
    <3> HIDE DEF lumas, chroma, cells, e, l1, l2
    <3>6. CASE l1 = Label \/ l2 = Label
      BY <2>3, <3>6 DEF CellHolds, lumas
    <3>7. CASE l1 = Text \/ l2 = Text
      <4>1. b = "libyuv"
        BY <2>2, <2>5, <3>3, <3>7
      <4>2. "scaled" \in more /\ Text \in lumas
        BY <2>3, <3>7, <4>1
      <4> QED
        BY <4>1, <4>2 DEF CellHolds, lumas
    <3>8. CASE l1 = {place[f[a1]]} /\ l2 = {place[f[a2]]}
      <4>1. AmongLumas(chroma, lumas)
        BY <2>3, <3>1, <3>4, <3>5, <3>8, BetweenIsWithin
      <4> QED
        BY <4>1 DEF CellHolds, lumas, chroma
    <3> QED
      BY <2>6, <3>6, <3>7, <3>8
  <2> QED
    BY <2>7, <2>9, <2>10
<1> QED
  BY <1>3, <1>5, <1>6, Zenon DEF Holds

\* So are bars, whose chroma is paint.
LEMMA BarsSampled ==
    ASSUME NEW p, NEW q, p.w \in Nat, p.h \in Nat, q.w \in Nat, q.h \in Nat, NEW b, Sampled(p, q, b),
           NEW events, NEW more, BarsColour(p, events), "scaled" \in more
    PROVE  Holds(q, more, b)
<1>1. PICK f, g : SampledBy(p, q, f, g, b)
  BY DEF Sampled
<1>2. /\ \A a \in Area(q.w, q.h) : LumaAt(q, a) = LumaAt(p, f[a]) /\ f[a] \in Area(p.w, p.h)
      /\ \A c \in Halves(q) : CellChroma(q, c) = CellChroma(p, g[c]) /\ g[c] \in Halves(p)
      /\ q.u = q.v
  BY <1>1 DEF SampledBy, BarsColour
<1>3. \A a \in Area(p.w, p.h) : LumaAt(p, a) # Blank
  BY BarsHold DEF Holds
<1>4. ASSUME NEW c \in Halves(q) PROVE CellHolds(CellLuma(q, c), CellChroma(q, c), more, b)
  <2> DEFINE chroma == CellChroma(q, c)
  <2>1. chroma = Neutral \/ \E i : chroma = Bar(i)
    BY <1>2 DEF BarsColour
  <2> HIDE DEF chroma
  <2>2. CASE chroma = Neutral
    <3>1. chroma # Blank /\ \A y \in chroma : y[1] < 0
      BY <2>2, PaintsDiffer
    <3> QED
      BY <3>1 DEF CellHolds, chroma
  <2>3. CASE \E i : chroma = Bar(i)
    <3>1. PICK i : chroma = Bar(i)
      BY <2>3
    <3>2. Bar(i) # Blank /\ \A y \in Bar(i) : y[1] < 0
      BY PaintsDiffer, Zenon
    <3>3. chroma # Blank /\ \A y \in chroma : y[1] < 0
      BY <3>1, <3>2
    <3> QED
      BY <3>3 DEF CellHolds, chroma
  <2> QED
    BY <2>1, <2>2, <2>3
<1>5. \A a \in Area(q.w, q.h) : LumaAt(q, a) # Blank
  BY <1>2, <1>3
<1> QED
  BY <1>2, <1>4, <1>5, Zenon DEF Holds

\* q is p with text or labels put over it: where text is, chroma was cleared.
Marked(p, q, events) ==
    /\ q.w = p.w /\ q.h = p.h /\ (p.u = p.v => q.u = q.v)
    /\ \A a \in Area(p.w, p.h) : LumaAt(q, a) \in {LumaAt(p, a), Text, Label}
    /\ \A c \in Halves(p) :
          \/ /\ CellChroma(q, c) = CellChroma(p, c)
             /\ \A a \in Block(c[1], c[2]) : LumaAt(q, a) \in {LumaAt(p, a), Label}
          \/ CellChroma(q, c) = Neutral /\ "stamped" \in events

\* A cell that was marked: labelled, cleared or as it was.
LEMMA MarkedCells ==
    ASSUME NEW p, NEW q, p.w \in Nat, p.h \in Nat, NEW events, Marked(p, q, events), NEW c \in Halves(q)
    PROVE  /\ c \in Halves(p)
           /\ \/ Label \in CellLuma(q, c) /\ CellChroma(q, c) = CellChroma(p, c)
              \/ CellLuma(q, c) = CellLuma(p, c) /\ CellChroma(q, c) = CellChroma(p, c)
              \/ CellChroma(q, c) = Neutral /\ "stamped" \in events
           /\ CellChroma(q, c) # Neutral => (Text \in CellLuma(q, c) => Text \in CellLuma(p, c))
<1>1. c \in Halves(p)
  BY DEF Marked, Halves
<1> DEFINE S == Block(c[1], c[2])
<1>2. CellLuma(q, c) = {LumaAt(q, a) : a \in S} /\ CellLuma(p, c) = {LumaAt(p, a) : a \in S}
  BY CellLumas
<1>3. \/ CellChroma(q, c) = CellChroma(p, c) /\ \A a \in S : LumaAt(q, a) \in {LumaAt(p, a), Label}
      \/ CellChroma(q, c) = Neutral /\ "stamped" \in events
  BY <1>1 DEF Marked
<1> HIDE DEF S
<1>4. CASE CellChroma(q, c) = Neutral /\ "stamped" \in events
  BY <1>1, <1>4
<1>5. CASE CellChroma(q, c) = CellChroma(p, c) /\ \A a \in S : LumaAt(q, a) \in {LumaAt(p, a), Label}
  <2>1. CASE \E a \in S : LumaAt(q, a) = Label
    <3>1. Label \in CellLuma(q, c)
      BY <1>2, <2>1
    <3>2. Text \in CellLuma(q, c) => Text \in CellLuma(p, c)
      BY <1>2, <1>5, PaintsDiffer
    <3> QED
      BY <1>1, <1>5, <3>1, <3>2
  <2>2. CASE \A a \in S : LumaAt(q, a) # Label
    <3>1. \A a \in S : LumaAt(q, a) = LumaAt(p, a)
      BY <1>5, <2>2
    <3>2. CellLuma(q, c) = CellLuma(p, c)
      BY <1>2, <3>1
    <3> QED
      BY <1>1, <1>5, <3>2
  <2> QED
    BY <2>1, <2>2
<1> QED
  BY <1>3, <1>4, <1>5

\* Marks leave colour in place.
LEMMA MarkedHolds ==
    ASSUME NEW p, NEW q, p.w \in Nat, p.h \in Nat, NEW events, NEW more, events \subseteq more, Marked(p, q, more)
    PROVE  /\ \A b : Holds(p, events, b) => Holds(q, more, b)
           /\ TextClear(p) => TextClear(q)
           /\ SceneColour(p, events) => SceneColour(q, more)
           /\ BarsColour(p, events) => BarsColour(q, more)
<1>1. /\ \A a \in Area(q.w, q.h) : a \in Area(p.w, p.h) /\ LumaAt(q, a) \in {LumaAt(p, a), Text, Label}
      /\ q.w = p.w /\ q.h = p.h /\ (p.u = p.v => q.u = q.v) /\ Halves(q) = Halves(p)
  BY DEF Marked, Halves
<1>2. ASSUME NEW b, Holds(p, events, b) PROVE Holds(q, more, b)
  <2>1. \A a \in Area(q.w, q.h) : LumaAt(q, a) # Blank
    BY <1>1, <1>2, PaintsDiffer DEF Holds
  <2>2. ASSUME NEW c \in Halves(q) PROVE CellHolds(CellLuma(q, c), CellChroma(q, c), more, b)
    <3>1. CellHolds(CellLuma(p, c), CellChroma(p, c), events, b)
      BY <1>1, <1>2 DEF Holds
    <3>2. CASE Label \in CellLuma(q, c) \/ (CellChroma(q, c) = Neutral /\ "stamped" \in more)
      BY <3>2 DEF CellHolds
    <3>3. CASE CellLuma(q, c) = CellLuma(p, c) /\ CellChroma(q, c) = CellChroma(p, c)
      <4>1. CellHolds(CellLuma(q, c), CellChroma(q, c), events, b)
        BY <3>1, <3>3, Zenon
      <4> DEFINE lumas == CellLuma(q, c)
                 chroma == CellChroma(q, c)
      <4>2. CellHolds(lumas, chroma, events, b)
        BY <4>1
      <4> HIDE DEF lumas, chroma
      <4>3. CellHolds(lumas, chroma, more, b)
        BY <4>2 DEF CellHolds
      <4> QED
        BY <4>3 DEF lumas, chroma
    <3> QED
      BY <3>2, <3>3, MarkedCells
  <2> QED
    BY <1>1, <1>2, <2>1, <2>2, Zenon DEF Holds
<1>3. ASSUME TextClear(p) PROVE TextClear(q)
  <2> SUFFICES ASSUME NEW c \in Halves(q), Text \in CellLuma(q, c), CellChroma(q, c) # Neutral PROVE FALSE
    BY DEF TextClear
  <2>1. Text \in CellLuma(p, c) /\ c \in Halves(p) /\ CellChroma(q, c) = CellChroma(p, c)
    BY MarkedCells
  <2> QED
    BY <1>3, <2>1 DEF TextClear
<1>4. ASSUME SceneColour(p, events) PROVE SceneColour(q, more)
  <2>1. PICK place : Shows(p, place, events)
    BY <1>4 DEF SceneColour
  <2>2. place \in [Area(q.w, q.h) -> Nat \X Nat] /\ Steady(place)
    BY <1>1, <2>1 DEF Shows
  <2>3. \A a \in Area(q.w, q.h) : LumaAt(q, a) \in {{place[a]}, Text, Label}
    BY <1>1, <2>1 DEF Shows
  <2>4. ASSUME NEW c \in Halves(q)
        PROVE  \/ CellChroma(q, c) = {place[a] : a \in Block(c[1], c[2])}
               \/ CellChroma(q, c) = Neutral /\ "stamped" \in more
    <3>1. CellChroma(q, c) = CellChroma(p, c) \/ (CellChroma(q, c) = Neutral /\ "stamped" \in more)
      BY MarkedCells
    <3>2. \/ CellChroma(p, c) = {place[a] : a \in Block(c[1], c[2])}
          \/ CellChroma(p, c) = Neutral /\ "stamped" \in more
      BY <1>1, <2>1 DEF Shows
    <3> QED
      BY <3>1, <3>2, Zenon
  <2>5. Shows(q, place, more)
    BY <2>2, <2>3, <2>4, Zenon DEF Shows
  <2> QED
    BY <1>1, <1>4, <2>5 DEF SceneColour
<1>5. ASSUME BarsColour(p, events) PROVE BarsColour(q, more)
  <2>1. \A a \in Area(q.w, q.h) : LumaAt(q, a) \in {Gradient, Text, Label} \/ \E i : LumaAt(q, a) = Bar(i)
    <3> SUFFICES ASSUME NEW a \in Area(q.w, q.h)
                 PROVE  LumaAt(q, a) \in {Gradient, Text, Label} \/ \E i : LumaAt(q, a) = Bar(i)
      OBVIOUS
    <3>1. LumaAt(q, a) \in {LumaAt(p, a), Text, Label}
      BY <1>1
    <3>2. LumaAt(p, a) \in {Gradient, Text, Label} \/ \E i : LumaAt(p, a) = Bar(i)
      BY <1>1, <1>5 DEF BarsColour
    <3>3. CASE LumaAt(q, a) = LumaAt(p, a)
      BY <3>2, <3>3, Zenon
    <3>4. CASE LumaAt(q, a) \in {Text, Label}
      BY <3>4
    <3> QED
      BY <3>1, <3>3, <3>4
  <2>2. ASSUME NEW c \in Halves(q)
        PROVE  /\ CellChroma(q, c) = Neutral \/ \E i : CellChroma(q, c) = Bar(i)
               /\ \/ CellChroma(q, c) \in CellLuma(q, c)
                  \/ Label \in CellLuma(q, c)
                  \/ CellChroma(q, c) = Neutral /\ (Gradient \in CellLuma(q, c) \/ "stamped" \in more)
    <3>1. c \in Halves(p)
      BY <1>1
    <3>2. /\ CellChroma(p, c) = Neutral \/ \E i : CellChroma(p, c) = Bar(i)
          /\ \/ CellChroma(p, c) \in CellLuma(p, c)
             \/ Label \in CellLuma(p, c)
             \/ CellChroma(p, c) = Neutral /\ (Gradient \in CellLuma(p, c) \/ "stamped" \in events)
      BY <1>5, <3>1 DEF BarsColour
    <3>3. CASE CellChroma(q, c) = Neutral /\ "stamped" \in more
      BY <3>3
    <3>4. CASE Label \in CellLuma(q, c) /\ CellChroma(q, c) = CellChroma(p, c)
      BY <3>2, <3>4, Zenon
    <3>5. CASE CellLuma(q, c) = CellLuma(p, c) /\ CellChroma(q, c) = CellChroma(p, c)
      <4>1. "stamped" \in events => "stamped" \in more
        OBVIOUS
      <4> QED
        BY <3>2, <3>5, <4>1, Zenon
    <3> QED
      BY <3>3, <3>4, <3>5, MarkedCells
  <2> QED
    BY <1>1, <1>5, <2>1, <2>2, Zenon DEF BarsColour
<1> QED
  BY <1>2, <1>3, <1>4, <1>5

\* A map from an m x n picture's places to a w x h picture's that takes chroma
\* cells to chroma cells.
Aligned(f, g, m, n, w, h) ==
    /\ f \in [Area(m, n) -> Area(w, h)] /\ g \in [Area(m \div 2, n \div 2) -> Area(w \div 2, h \div 2)]
    /\ \A c \in Area(m \div 2, n \div 2) :
          /\ \A a \in Block(c[1], c[2]) : f[a] \in Block(g[c][1], g[c][2])
          /\ \A b \in Block(g[c][1], g[c][2]) : \E a \in Block(c[1], c[2]) : f[a] = b
    /\ Steady(f)

\* The luma of a place and the chroma of a cell, by column and row.
LEMMA SampleAt ==
    ASSUME NEW p, Framed(p)
    PROVE  /\ \A a \in Area(p.w, p.h) : LumaAt(p, a) = Sample(p.y, p.w, a[1], a[2])
           /\ \A c \in Halves(p) : CellChroma(p, c) = Sample(p.u, p.w \div 2, c[1], c[2])
BY DEF Framed, PlaneOK, LumaAt, CellChroma, Sample, Index

\* A map of places that takes cells to cells makes a view, if the samples of
\* the three planes follow it.
LEMMA AlignedView ==
    ASSUME NEW p, NEW q, Framed(p), Framed(q), NEW f, NEW g, Aligned(f, g, q.w, q.h, p.w, p.h),
           \A a \in Area(q.w, q.h) : Sample(q.y, q.w, a[1], a[2]) = Sample(p.y, p.w, f[a][1], f[a][2]),
           \A c \in Area(q.w \div 2, q.h \div 2) :
              /\ Sample(q.u, q.w \div 2, c[1], c[2]) = Sample(p.u, p.w \div 2, g[c][1], g[c][2])
              /\ Sample(q.v, q.w \div 2, c[1], c[2]) = Sample(p.v, p.w \div 2, g[c][1], g[c][2])
    PROVE  Viewed(p, q)
<1>1. /\ f \in [Area(q.w, q.h) -> Area(p.w, p.h)]
      /\ g \in [Halves(q) -> Halves(p)]
  BY DEF Aligned, Halves
<1>2. \A a \in Area(q.w, q.h) : LumaAt(q, a) = LumaAt(p, f[a])
  BY <1>1, SampleAt
<1>3. \A c \in Halves(q) : CellChroma(q, c) = CellChroma(p, g[c])
  <2>1. \A c \in Halves(q) : Sample(q.u, q.w \div 2, c[1], c[2]) = Sample(p.u, p.w \div 2, g[c][1], g[c][2])
    BY DEF Halves
  <2> QED
    BY <1>1, <2>1, SampleAt
<1>4. p.u = p.v => q.u = q.v
  <2> SUFFICES ASSUME p.u = p.v PROVE q.u = q.v
    OBVIOUS
  <2> DEFINE m == q.w \div 2
             n == q.h \div 2
  <2>1. m \in Nat /\ n \in Nat /\ PlaneOK(q.u, m, n) /\ PlaneOK(q.v, m, n)
    BY DEF Framed
  <2>2. \A c \in Area(m, n) : Sample(q.u, m, c[1], c[2]) = Sample(q.v, m, c[1], c[2])
    OBVIOUS
  <2> HIDE DEF m, n
  <2>3. ASSUME NEW a \in 0 .. m - 1, NEW b \in 0 .. n - 1 PROVE Sample(q.u, m, a, b) = Sample(q.v, m, a, b)
    <3>1. <<a, b>> \in Area(m, n) /\ <<a, b>>[1] = a /\ <<a, b>>[2] = b
      BY DEF Area
    <3> QED
      BY <2>2, <3>1
  <2> QED
    BY <2>1, <2>3, SamePlane
<1>5. ViewedBy(p, q, f, g)
  BY <1>1, <1>2, <1>3, <1>4 DEF ViewedBy, Aligned, Halves
<1> QED
  BY <1>5 DEF Viewed

\* A place of an area is a column and a row.
LEMMA AreaPair ==
    ASSUME NEW w \in Nat, NEW h \in Nat
    PROVE  /\ \A a \in Area(w, h) : a[1] \in 0 .. w - 1 /\ a[2] \in 0 .. h - 1 /\ a = <<a[1], a[2]>>
           /\ \A x \in 0 .. w - 1, y \in 0 .. h - 1 : <<x, y>> \in Area(w, h)
BY DEF Area

\* A place of a cell, likewise.
LEMMA BlockPair ==
    ASSUME NEW c1 \in Nat, NEW c2 \in Nat
    PROVE  /\ \A a \in Block(c1, c2) : a[1] \in {2 * c1, 2 * c1 + 1} /\ a[2] \in {2 * c2, 2 * c2 + 1} /\ a = <<a[1], a[2]>>
           /\ \A x \in {2 * c1, 2 * c1 + 1}, y \in {2 * c2, 2 * c2 + 1} : <<x, y>> \in Block(c1, c2)
BY DEF Block

\* A map given by coordinates that halve together.
LEMMA AlignedByHalves ==
    ASSUME NEW w \in Nat, NEW h \in Nat, NEW m \in Nat, NEW n \in Nat,
           NEW f, f = [a \in Area(m, n) |-> f[a]], NEW g, g = [c \in Area(m \div 2, n \div 2) |-> g[c]],
           \A x \in 0 .. m - 1, y \in 0 .. n - 1 : f[<<x, y>>] \in Area(w, h),
           \A c1 \in 0 .. (m \div 2) - 1, c2 \in 0 .. (n \div 2) - 1 :
              LET e == g[<<c1, c2>>]
              IN  /\ e \in Area(w \div 2, h \div 2)
                  /\ \A x \in {2 * c1, 2 * c1 + 1}, y \in {2 * c2, 2 * c2 + 1} :
                        f[<<x, y>>][1] \in {2 * e[1], 2 * e[1] + 1} /\ f[<<x, y>>][2] \in {2 * e[2], 2 * e[2] + 1}
                  /\ \A x \in {2 * e[1], 2 * e[1] + 1}, y \in {2 * e[2], 2 * e[2] + 1} :
                        \E i \in {2 * c1, 2 * c1 + 1}, j \in {2 * c2, 2 * c2 + 1} : f[<<i, j>>] = <<x, y>>,
           Steady(f)
    PROVE  Aligned(f, g, m, n, w, h)
<1>0. m \div 2 \in Nat /\ n \div 2 \in Nat /\ w \div 2 \in Nat /\ h \div 2 \in Nat
  OBVIOUS
<1> DEFINE A == Area(m, n)
           B == Area(w, h)
           C == Area(m \div 2, n \div 2)
           D == Area(w \div 2, h \div 2)
<1>1. f \in [A -> B]
  <2>1. ASSUME NEW a \in A PROVE f[a] \in B
    <3>1. a[1] \in 0 .. m - 1 /\ a[2] \in 0 .. n - 1 /\ a = <<a[1], a[2]>>
      BY AreaPair
    <3>2. f[<<a[1], a[2]>>] \in B
      BY <3>1
    <3> QED
      BY <3>1, <3>2, Zenon
  <2> QED
    BY <2>1
<1>2. ASSUME NEW c1 \in 0 .. (m \div 2) - 1, NEW c2 \in 0 .. (n \div 2) - 1, NEW e, e = g[<<c1, c2>>]
      PROVE  /\ e \in D
             /\ \A a \in Block(c1, c2) : f[a] \in Block(e[1], e[2])
             /\ \A b \in Block(e[1], e[2]) : \E a \in Block(c1, c2) : f[a] = b
  <2>1. c1 \in Nat /\ c2 \in Nat
    OBVIOUS
  <2>2. /\ e \in D
        /\ \A x \in {2 * c1, 2 * c1 + 1}, y \in {2 * c2, 2 * c2 + 1} :
              f[<<x, y>>][1] \in {2 * e[1], 2 * e[1] + 1} /\ f[<<x, y>>][2] \in {2 * e[2], 2 * e[2] + 1}
        /\ \A x \in {2 * e[1], 2 * e[1] + 1}, y \in {2 * e[2], 2 * e[2] + 1} :
              \E i \in {2 * c1, 2 * c1 + 1}, j \in {2 * c2, 2 * c2 + 1} : f[<<i, j>>] = <<x, y>>
    BY <1>2, Zenon
  <2>3. e[1] \in Nat /\ e[2] \in Nat
    <3>1. e[1] \in 0 .. (w \div 2) - 1 /\ e[2] \in 0 .. (h \div 2) - 1
      BY <1>0, <2>2, AreaPair
    <3> QED
      BY <1>0, <3>1
  <2>4. \A k \in {0, 1} : 2 * c1 + k \in 0 .. m - 1 /\ 2 * c2 + k \in 0 .. n - 1
    <3>1. <<c1, c2>> \in C /\ <<c1, c2>>[1] = c1 /\ <<c1, c2>>[2] = c2
      BY <1>0, AreaPair
    <3> QED
      BY <3>1, HalfCells
  <2>5. ASSUME NEW a \in Block(c1, c2) PROVE f[a] \in Block(e[1], e[2])
    <3>1. a[1] \in {2 * c1, 2 * c1 + 1} /\ a[2] \in {2 * c2, 2 * c2 + 1} /\ a = <<a[1], a[2]>>
      BY <2>1 DEF Block
    <3>2. f[<<a[1], a[2]>>][1] \in {2 * e[1], 2 * e[1] + 1} /\ f[<<a[1], a[2]>>][2] \in {2 * e[2], 2 * e[2] + 1}
      BY <2>2, <3>1, Zenon
    <3>3. a[1] \in 0 .. m - 1 /\ a[2] \in 0 .. n - 1
      BY <2>1, <2>4, <3>1
    <3>4. f[<<a[1], a[2]>>] \in B
      BY <3>3
    <3> DEFINE b == f[<<a[1], a[2]>>]
    <3>5. b \in B /\ b[1] \in {2 * e[1], 2 * e[1] + 1} /\ b[2] \in {2 * e[2], 2 * e[2] + 1}
      BY <3>2, <3>4
    <3>6. f[a] = b
      BY <3>1, Zenon
    <3> HIDE DEF b
    <3>7. b = <<b[1], b[2]>>
      BY <3>5, AreaPair
    <3>8. <<b[1], b[2]>> \in Block(e[1], e[2])
      BY <2>3, <3>5, BlockPair
    <3> QED
      BY <3>6, <3>7, <3>8
  <2>6. ASSUME NEW b \in Block(e[1], e[2]) PROVE \E a \in Block(c1, c2) : f[a] = b
    <3>1. b[1] \in {2 * e[1], 2 * e[1] + 1} /\ b[2] \in {2 * e[2], 2 * e[2] + 1} /\ b = <<b[1], b[2]>>
      BY <2>3 DEF Block
    <3>2. PICK i \in {2 * c1, 2 * c1 + 1}, j \in {2 * c2, 2 * c2 + 1} : f[<<i, j>>] = <<b[1], b[2]>>
      BY <2>2, <3>1, Zenon
    <3>3. <<i, j>> \in Block(c1, c2)
      BY <2>1, <3>2, BlockPair
    <3> QED
      BY <3>1, <3>2, <3>3, Zenon
  <2> QED
    BY <2>2, <2>5, <2>6
<1>4. ASSUME NEW c \in C
      PROVE  /\ g[c] \in D
             /\ \A a \in Block(c[1], c[2]) : f[a] \in Block(g[c][1], g[c][2])
             /\ \A b \in Block(g[c][1], g[c][2]) : \E a \in Block(c[1], c[2]) : f[a] = b
  <2>1. c[1] \in 0 .. (m \div 2) - 1 /\ c[2] \in 0 .. (n \div 2) - 1 /\ c = <<c[1], c[2]>>
    BY <1>0, AreaPair
  <2>2. g[c] = g[<<c[1], c[2]>>]
    BY <2>1, Zenon
  <2>3. \A e : e = g[<<c[1], c[2]>>] =>
           /\ e \in D
           /\ \A a \in Block(c[1], c[2]) : f[a] \in Block(e[1], e[2])
           /\ \A b \in Block(e[1], e[2]) : \E a \in Block(c[1], c[2]) : f[a] = b
    BY <1>2, <2>1, Zenon
  <2> HIDE DEF C, D
  <2> QED
    BY <2>2, <2>3, Zenon
<1>3. g \in [C -> D]
  BY <1>4
<1> QED
  BY <1>1, <1>3, <1>4 DEF Aligned

\* One axis of such a map: the places in order or in reverse order, two by two.
Axis(f, g, m, w) ==
    /\ f \in [0 .. m - 1 -> 0 .. w - 1] /\ g \in [0 .. (m \div 2) - 1 -> 0 .. (w \div 2) - 1]
    /\ \A c \in 0 .. (m \div 2) - 1 : {f[2 * c], f[2 * c + 1]} = {2 * g[c], 2 * g[c] + 1}
    /\ \/ \A x, y \in 0 .. m - 1 : x <= y => f[x] <= f[y]
       \/ \A x, y \in 0 .. m - 1 : x <= y => f[y] <= f[x]

ReversedAxis(m) == [x \in 0 .. m - 1 |-> m - 1 - x]
MovedAxis(m, s) == [x \in 0 .. m - 1 |-> s + x]

\* Two places and one between them stay so.
LEMMA AxisSteady ==
    ASSUME NEW m \in Nat, NEW w \in Nat, NEW f, NEW g, Axis(f, g, m, w),
           NEW x \in 0 .. m - 1, NEW a \in 0 .. m - 1, NEW b \in 0 .. m - 1,
           (a <= x /\ x <= b) \/ (b <= x /\ x <= a)
    PROVE  (f[a] <= f[x] /\ f[x] <= f[b]) \/ (f[b] <= f[x] /\ f[x] <= f[a])
<1>1. CASE \A i, j \in 0 .. m - 1 : i <= j => f[i] <= f[j]
  BY <1>1
<1>2. CASE \A i, j \in 0 .. m - 1 : i <= j => f[j] <= f[i]
  BY <1>2
<1> QED
  BY <1>1, <1>2 DEF Axis

\* What a map of one axis does to the two halves of a cell.
LEMMA AxisCells ==
    ASSUME NEW m \in Nat, NEW w \in Nat, NEW f, NEW g, Axis(f, g, m, w), NEW c \in 0 .. (m \div 2) - 1
    PROVE  /\ g[c] \in 0 .. (w \div 2) - 1
           /\ \A x \in {2 * c, 2 * c + 1} : f[x] \in {2 * g[c], 2 * g[c] + 1}
           /\ \A y \in {2 * g[c], 2 * g[c] + 1} : \E x \in {2 * c, 2 * c + 1} : f[x] = y
<1>1. g[c] \in 0 .. (w \div 2) - 1 /\ {f[2 * c], f[2 * c + 1]} = {2 * g[c], 2 * g[c] + 1}
  BY DEF Axis
<1> DEFINE u == f[2 * c]
           v == f[2 * c + 1]
           p == 2 * g[c]
           q == 2 * g[c] + 1
<1>2. {u, v} = {p, q}
  BY <1>1
<1>3. \A x \in {2 * c, 2 * c + 1} : f[x] \in {u, v}
  OBVIOUS
<1>4. \A y \in {u, v} : \E x \in {2 * c, 2 * c + 1} : f[x] = y
  OBVIOUS
<1> HIDE DEF u, v
<1> QED
  BY <1>1, <1>2, <1>3, <1>4, Zenon

\* Counting an even axis from its other end.
LEMMA ReversedIsAxis ==
    ASSUME NEW w \in Nat, w % 2 = 0
    PROVE  Axis(ReversedAxis(w), ReversedAxis(w \div 2), w, w)
<1>1. PICK n \in Nat : w \div 2 = n /\ w = 2 * n
  OBVIOUS
<1> DEFINE f == ReversedAxis(w)
           g == ReversedAxis(w \div 2)
<1>2. \A x \in 0 .. w - 1 : f[x] = w - 1 - x
  BY DEF ReversedAxis
<1>3. \A c \in 0 .. n - 1 : g[c] = n - 1 - c
  BY <1>1 DEF ReversedAxis
<1>4. f \in [0 .. w - 1 -> 0 .. w - 1] /\ g \in [0 .. n - 1 -> 0 .. n - 1]
  BY <1>1 DEF ReversedAxis
<1> HIDE DEF f, g
<1>5. \A c \in 0 .. n - 1 : {f[2 * c], f[2 * c + 1]} = {2 * g[c], 2 * g[c] + 1}
  <2> SUFFICES ASSUME NEW c \in 0 .. n - 1 PROVE {f[2 * c], f[2 * c + 1]} = {2 * g[c], 2 * g[c] + 1}
    OBVIOUS
  <2>1. f[2 * c] = 2 * g[c] + 1 /\ f[2 * c + 1] = 2 * g[c]
    BY <1>1, <1>2, <1>3
  <2> QED
    BY <2>1
<1>6. \A x, y \in 0 .. w - 1 : x <= y => f[y] <= f[x]
  BY <1>2
<1>7. Axis(f, g, w, w)
  BY <1>1, <1>4, <1>5, <1>6 DEF Axis
<1> QED
  BY <1>7 DEF f, g

\* Starting an axis at an even place.
LEMMA MovedIsAxis ==
    ASSUME NEW m \in Nat, NEW w \in Nat, NEW s \in Nat, m % 2 = 0, w % 2 = 0, s % 2 = 0, s + m <= w
    PROVE  Axis(MovedAxis(m, s), MovedAxis(m \div 2, s \div 2), m, w)
<1>1. PICK n \in Nat : m \div 2 = n /\ m = 2 * n
  OBVIOUS
<1>2. PICK k \in Nat : w \div 2 = k /\ w = 2 * k
  OBVIOUS
<1>3. PICK t \in Nat : s \div 2 = t /\ s = 2 * t
  OBVIOUS
<1> DEFINE f == MovedAxis(m, s)
           g == MovedAxis(m \div 2, s \div 2)
<1>4. \A x \in 0 .. m - 1 : f[x] = s + x
  BY DEF MovedAxis
<1>5. \A c \in 0 .. n - 1 : g[c] = t + c
  BY <1>1, <1>3 DEF MovedAxis
<1>6. f \in [0 .. m - 1 -> 0 .. w - 1]
  BY DEF MovedAxis
<1>7. g \in [0 .. n - 1 -> 0 .. k - 1]
  BY <1>1, <1>2, <1>3 DEF MovedAxis
<1> HIDE DEF f, g
<1>8. \A c \in 0 .. n - 1 : {f[2 * c], f[2 * c + 1]} = {2 * g[c], 2 * g[c] + 1}
  <2> SUFFICES ASSUME NEW c \in 0 .. n - 1 PROVE {f[2 * c], f[2 * c + 1]} = {2 * g[c], 2 * g[c] + 1}
    OBVIOUS
  <2>1. f[2 * c] = 2 * g[c] /\ f[2 * c + 1] = 2 * g[c] + 1
    BY <1>1, <1>3, <1>4, <1>5
  <2> QED
    BY <2>1
<1>9. \A x, y \in 0 .. m - 1 : x <= y => f[x] <= f[y]
  BY <1>4
<1>10. Axis(f, g, m, w)
  BY <1>1, <1>2, <1>6, <1>7, <1>8, <1>9 DEF Axis
<1> QED
  BY <1>10 DEF f, g

\* Axis by axis, straight or with the axes exchanged.
Straight(f, g, m, n) == [a \in Area(m, n) |-> <<f[a[1]], g[a[2]]>>]
Crossed(f, g, m, n)  == [a \in Area(m, n) |-> <<f[a[2]], g[a[1]]>>]

\* Two axes side by side make an aligned map.
LEMMA StraightAligned ==
    ASSUME NEW m \in Nat, NEW n \in Nat, NEW w \in Nat, NEW h \in Nat, NEW f1, NEW g1, NEW f2, NEW g2,
           Axis(f1, g1, m, w), Axis(f2, g2, n, h)
    PROVE  Aligned(Straight(f1, f2, m, n), Straight(g1, g2, m \div 2, n \div 2), m, n, w, h)
<1> DEFINE f == Straight(f1, f2, m, n)
           g == Straight(g1, g2, m \div 2, n \div 2)
<1>0. m \div 2 \in Nat /\ n \div 2 \in Nat /\ w \div 2 \in Nat /\ h \div 2 \in Nat
  OBVIOUS
<1>1. f = [a \in Area(m, n) |-> f[a]] /\ g = [c \in Area(m \div 2, n \div 2) |-> g[c]]
  BY DEF Straight
<1>2. ASSUME NEW x \in 0 .. m - 1, NEW y \in 0 .. n - 1 PROVE f[<<x, y>>] = <<f1[x], f2[y]>>
  <2>1. <<x, y>> \in Area(m, n)
    BY AreaPair
  <2> QED
    BY <2>1 DEF Straight
<1>3. ASSUME NEW x \in 0 .. (m \div 2) - 1, NEW y \in 0 .. (n \div 2) - 1 PROVE g[<<x, y>>] = <<g1[x], g2[y]>>
  <2>1. <<x, y>> \in Area(m \div 2, n \div 2)
    BY <1>0, AreaPair
  <2> QED
    BY <2>1 DEF Straight
<1>4. \A a \in Area(m, n) : f[a] = <<f1[a[1]], f2[a[2]]>>
  BY DEF Straight
<1> HIDE DEF f, g
<1>5. ASSUME NEW x \in 0 .. m - 1, NEW y \in 0 .. n - 1 PROVE f[<<x, y>>] \in Area(w, h)
  <2>1. f1[x] \in 0 .. w - 1 /\ f2[y] \in 0 .. h - 1
    BY DEF Axis
  <2>2. <<f1[x], f2[y]>> \in Area(w, h)
    BY <2>1, AreaPair
  <2> QED
    BY <1>2, <2>2
<1>6. Steady(f)
  <2> SUFFICES ASSUME NEW x \in Area(m, n), NEW a \in Area(m, n), NEW b \in Area(m, n), Between(x, a, b)
               PROVE  Between(f[x], f[a], f[b])
    BY <1>1 DEF Steady
  <2>1. /\ x[1] \in 0 .. m - 1 /\ a[1] \in 0 .. m - 1 /\ b[1] \in 0 .. m - 1
        /\ x[2] \in 0 .. n - 1 /\ a[2] \in 0 .. n - 1 /\ b[2] \in 0 .. n - 1
    BY AreaPair
  <2>2. /\ (a[1] <= x[1] /\ x[1] <= b[1]) \/ (b[1] <= x[1] /\ x[1] <= a[1])
        /\ (a[2] <= x[2] /\ x[2] <= b[2]) \/ (b[2] <= x[2] /\ x[2] <= a[2])
    BY DEF Between
  <2>3. (f1[a[1]] <= f1[x[1]] /\ f1[x[1]] <= f1[b[1]]) \/ (f1[b[1]] <= f1[x[1]] /\ f1[x[1]] <= f1[a[1]])
    BY <2>1, <2>2, AxisSteady
  <2>4. (f2[a[2]] <= f2[x[2]] /\ f2[x[2]] <= f2[b[2]]) \/ (f2[b[2]] <= f2[x[2]] /\ f2[x[2]] <= f2[a[2]])
    BY <2>1, <2>2, AxisSteady
  <2>5. f[x] = <<f1[x[1]], f2[x[2]]>> /\ f[a] = <<f1[a[1]], f2[a[2]]>> /\ f[b] = <<f1[b[1]], f2[b[2]]>>
    BY <1>4
  <2> QED
    BY <2>3, <2>4, <2>5 DEF Between
<1>7. ASSUME NEW c1 \in 0 .. (m \div 2) - 1, NEW c2 \in 0 .. (n \div 2) - 1
      PROVE  LET e == g[<<c1, c2>>]
             IN  /\ e \in Area(w \div 2, h \div 2)
                 /\ \A x \in {2 * c1, 2 * c1 + 1}, y \in {2 * c2, 2 * c2 + 1} :
                       f[<<x, y>>][1] \in {2 * e[1], 2 * e[1] + 1} /\ f[<<x, y>>][2] \in {2 * e[2], 2 * e[2] + 1}
                 /\ \A x \in {2 * e[1], 2 * e[1] + 1}, y \in {2 * e[2], 2 * e[2] + 1} :
                       \E i \in {2 * c1, 2 * c1 + 1}, j \in {2 * c2, 2 * c2 + 1} : f[<<i, j>>] = <<x, y>>
  <2> DEFINE e == g[<<c1, c2>>]
  <2>1. /\ g1[c1] \in 0 .. (w \div 2) - 1
        /\ \A x \in {2 * c1, 2 * c1 + 1} : f1[x] \in {2 * g1[c1], 2 * g1[c1] + 1}
        /\ \A y \in {2 * g1[c1], 2 * g1[c1] + 1} : \E x \in {2 * c1, 2 * c1 + 1} : f1[x] = y
    BY AxisCells
  <2>2. /\ g2[c2] \in 0 .. (h \div 2) - 1
        /\ \A x \in {2 * c2, 2 * c2 + 1} : f2[x] \in {2 * g2[c2], 2 * g2[c2] + 1}
        /\ \A y \in {2 * g2[c2], 2 * g2[c2] + 1} : \E x \in {2 * c2, 2 * c2 + 1} : f2[x] = y
    BY AxisCells
  <2>3. e = <<g1[c1], g2[c2]>> /\ e \in Area(w \div 2, h \div 2) /\ e[1] = g1[c1] /\ e[2] = g2[c2]
    <3>1. e = <<g1[c1], g2[c2]>>
      BY <1>3
    <3> HIDE DEF e
    <3>2. <<g1[c1], g2[c2]>> \in Area(w \div 2, h \div 2)
      BY <1>0, <2>1, <2>2, AreaPair
    <3> QED
      BY <3>1, <3>2
  <2>4. \A x \in {2 * c1, 2 * c1 + 1}, y \in {2 * c2, 2 * c2 + 1} : x \in 0 .. m - 1 /\ y \in 0 .. n - 1
    OBVIOUS
  <2>5. \A x \in {2 * c1, 2 * c1 + 1}, y \in {2 * c2, 2 * c2 + 1} : f[<<x, y>>] = <<f1[x], f2[y]>>
    BY <1>2, <2>4
  <2> HIDE DEF e
  <2>6. ASSUME NEW x \in {2 * c1, 2 * c1 + 1}, NEW y \in {2 * c2, 2 * c2 + 1}
        PROVE  f[<<x, y>>][1] \in {2 * e[1], 2 * e[1] + 1} /\ f[<<x, y>>][2] \in {2 * e[2], 2 * e[2] + 1}
    <3>1. f[<<x, y>>] = <<f1[x], f2[y]>>
      BY <2>5
    <3>2. f1[x] \in {2 * e[1], 2 * e[1] + 1} /\ f2[y] \in {2 * e[2], 2 * e[2] + 1}
      BY <2>1, <2>2, <2>3
    <3> QED
      BY <3>1, <3>2
  <2>7. ASSUME NEW x \in {2 * e[1], 2 * e[1] + 1}, NEW y \in {2 * e[2], 2 * e[2] + 1}
        PROVE  \E i \in {2 * c1, 2 * c1 + 1}, j \in {2 * c2, 2 * c2 + 1} : f[<<i, j>>] = <<x, y>>
    <3>1. PICK i \in {2 * c1, 2 * c1 + 1} : f1[i] = x
      BY <2>1, <2>3
    <3>2. PICK j \in {2 * c2, 2 * c2 + 1} : f2[j] = y
      BY <2>2, <2>3
    <3> QED
      BY <2>5, <3>1, <3>2
  <2> QED
    BY <2>3, <2>6, <2>7 DEF e
<1>8. Aligned(f, g, m, n, w, h)
  BY <1>1, <1>5, <1>6, <1>7, AlignedByHalves
<1> QED
  BY <1>8 DEF f, g

\* Two axes exchanged make one too.
LEMMA CrossedAligned ==
    ASSUME NEW m \in Nat, NEW n \in Nat, NEW w \in Nat, NEW h \in Nat, NEW f1, NEW g1, NEW f2, NEW g2,
           Axis(f1, g1, n, w), Axis(f2, g2, m, h)
    PROVE  Aligned(Crossed(f1, f2, m, n), Crossed(g1, g2, m \div 2, n \div 2), m, n, w, h)
<1> DEFINE f == Crossed(f1, f2, m, n)
           g == Crossed(g1, g2, m \div 2, n \div 2)
<1>0. m \div 2 \in Nat /\ n \div 2 \in Nat /\ w \div 2 \in Nat /\ h \div 2 \in Nat
  OBVIOUS
<1>1. f = [a \in Area(m, n) |-> f[a]] /\ g = [c \in Area(m \div 2, n \div 2) |-> g[c]]
  BY DEF Crossed
<1>2. ASSUME NEW x \in 0 .. m - 1, NEW y \in 0 .. n - 1 PROVE f[<<x, y>>] = <<f1[y], f2[x]>>
  <2>1. <<x, y>> \in Area(m, n)
    BY AreaPair
  <2> QED
    BY <2>1 DEF Crossed
<1>3. ASSUME NEW x \in 0 .. (m \div 2) - 1, NEW y \in 0 .. (n \div 2) - 1 PROVE g[<<x, y>>] = <<g1[y], g2[x]>>
  <2>1. <<x, y>> \in Area(m \div 2, n \div 2)
    BY <1>0, AreaPair
  <2> QED
    BY <2>1 DEF Crossed
<1>4. \A a \in Area(m, n) : f[a] = <<f1[a[2]], f2[a[1]]>>
  BY DEF Crossed
<1> HIDE DEF f, g
<1>5. ASSUME NEW x \in 0 .. m - 1, NEW y \in 0 .. n - 1 PROVE f[<<x, y>>] \in Area(w, h)
  <2>1. f1[y] \in 0 .. w - 1 /\ f2[x] \in 0 .. h - 1
    BY DEF Axis
  <2>2. <<f1[y], f2[x]>> \in Area(w, h)
    BY <2>1, AreaPair
  <2> QED
    BY <1>2, <2>2
<1>6. Steady(f)
  <2> SUFFICES ASSUME NEW x \in Area(m, n), NEW a \in Area(m, n), NEW b \in Area(m, n), Between(x, a, b)
               PROVE  Between(f[x], f[a], f[b])
    BY <1>1 DEF Steady
  <2>1. /\ x[1] \in 0 .. m - 1 /\ a[1] \in 0 .. m - 1 /\ b[1] \in 0 .. m - 1
        /\ x[2] \in 0 .. n - 1 /\ a[2] \in 0 .. n - 1 /\ b[2] \in 0 .. n - 1
    BY AreaPair
  <2>2. /\ (a[1] <= x[1] /\ x[1] <= b[1]) \/ (b[1] <= x[1] /\ x[1] <= a[1])
        /\ (a[2] <= x[2] /\ x[2] <= b[2]) \/ (b[2] <= x[2] /\ x[2] <= a[2])
    BY DEF Between
  <2>3. (f1[a[2]] <= f1[x[2]] /\ f1[x[2]] <= f1[b[2]]) \/ (f1[b[2]] <= f1[x[2]] /\ f1[x[2]] <= f1[a[2]])
    BY <2>1, <2>2, AxisSteady
  <2>4. (f2[a[1]] <= f2[x[1]] /\ f2[x[1]] <= f2[b[1]]) \/ (f2[b[1]] <= f2[x[1]] /\ f2[x[1]] <= f2[a[1]])
    BY <2>1, <2>2, AxisSteady
  <2>5. f[x] = <<f1[x[2]], f2[x[1]]>> /\ f[a] = <<f1[a[2]], f2[a[1]]>> /\ f[b] = <<f1[b[2]], f2[b[1]]>>
    BY <1>4
  <2> QED
    BY <2>3, <2>4, <2>5 DEF Between
<1>7. ASSUME NEW c1 \in 0 .. (m \div 2) - 1, NEW c2 \in 0 .. (n \div 2) - 1
      PROVE  LET e == g[<<c1, c2>>]
             IN  /\ e \in Area(w \div 2, h \div 2)
                 /\ \A x \in {2 * c1, 2 * c1 + 1}, y \in {2 * c2, 2 * c2 + 1} :
                       f[<<x, y>>][1] \in {2 * e[1], 2 * e[1] + 1} /\ f[<<x, y>>][2] \in {2 * e[2], 2 * e[2] + 1}
                 /\ \A x \in {2 * e[1], 2 * e[1] + 1}, y \in {2 * e[2], 2 * e[2] + 1} :
                       \E i \in {2 * c1, 2 * c1 + 1}, j \in {2 * c2, 2 * c2 + 1} : f[<<i, j>>] = <<x, y>>
  <2> DEFINE e == g[<<c1, c2>>]
  <2>1. /\ g1[c2] \in 0 .. (w \div 2) - 1
        /\ \A x \in {2 * c2, 2 * c2 + 1} : f1[x] \in {2 * g1[c2], 2 * g1[c2] + 1}
        /\ \A y \in {2 * g1[c2], 2 * g1[c2] + 1} : \E x \in {2 * c2, 2 * c2 + 1} : f1[x] = y
    BY AxisCells
  <2>2. /\ g2[c1] \in 0 .. (h \div 2) - 1
        /\ \A x \in {2 * c1, 2 * c1 + 1} : f2[x] \in {2 * g2[c1], 2 * g2[c1] + 1}
        /\ \A y \in {2 * g2[c1], 2 * g2[c1] + 1} : \E x \in {2 * c1, 2 * c1 + 1} : f2[x] = y
    BY AxisCells
  <2>3. e = <<g1[c2], g2[c1]>> /\ e \in Area(w \div 2, h \div 2) /\ e[1] = g1[c2] /\ e[2] = g2[c1]
    <3>1. e = <<g1[c2], g2[c1]>>
      BY <1>3
    <3> HIDE DEF e
    <3>2. <<g1[c2], g2[c1]>> \in Area(w \div 2, h \div 2)
      BY <1>0, <2>1, <2>2, AreaPair
    <3> QED
      BY <3>1, <3>2
  <2>4. \A x \in {2 * c1, 2 * c1 + 1}, y \in {2 * c2, 2 * c2 + 1} : x \in 0 .. m - 1 /\ y \in 0 .. n - 1
    OBVIOUS
  <2>5. \A x \in {2 * c1, 2 * c1 + 1}, y \in {2 * c2, 2 * c2 + 1} : f[<<x, y>>] = <<f1[y], f2[x]>>
    BY <1>2, <2>4
  <2> HIDE DEF e
  <2>6. ASSUME NEW x \in {2 * c1, 2 * c1 + 1}, NEW y \in {2 * c2, 2 * c2 + 1}
        PROVE  f[<<x, y>>][1] \in {2 * e[1], 2 * e[1] + 1} /\ f[<<x, y>>][2] \in {2 * e[2], 2 * e[2] + 1}
    <3>1. f[<<x, y>>] = <<f1[y], f2[x]>>
      BY <2>5
    <3>2. f1[y] \in {2 * e[1], 2 * e[1] + 1} /\ f2[x] \in {2 * e[2], 2 * e[2] + 1}
      BY <2>1, <2>2, <2>3
    <3> QED
      BY <3>1, <3>2
  <2>7. ASSUME NEW x \in {2 * e[1], 2 * e[1] + 1}, NEW y \in {2 * e[2], 2 * e[2] + 1}
        PROVE  \E i \in {2 * c1, 2 * c1 + 1}, j \in {2 * c2, 2 * c2 + 1} : f[<<i, j>>] = <<x, y>>
    <3>1. PICK j \in {2 * c2, 2 * c2 + 1} : f1[j] = x
      BY <2>1, <2>3
    <3>2. PICK i \in {2 * c1, 2 * c1 + 1} : f2[i] = y
      BY <2>2, <2>3
    <3> QED
      BY <2>5, <3>1, <3>2
  <2> QED
    BY <2>3, <2>6, <2>7 DEF e
<1>8. Aligned(f, g, m, n, w, h)
  BY <1>1, <1>5, <1>6, <1>7, AlignedByHalves
<1> QED
  BY <1>8 DEF f, g

\* Samples that follow two axes make a view.
LEMMA StraightView ==
    ASSUME NEW p, NEW q, Framed(p), Framed(q), NEW f1, NEW g1, NEW f2, NEW g2,
           Axis(f1, g1, q.w, p.w), Axis(f2, g2, q.h, p.h),
           \A x \in 0 .. q.w - 1, y \in 0 .. q.h - 1 : Sample(q.y, q.w, x, y) = Sample(p.y, p.w, f1[x], f2[y]),
           \A x \in 0 .. (q.w \div 2) - 1, y \in 0 .. (q.h \div 2) - 1 :
              /\ Sample(q.u, q.w \div 2, x, y) = Sample(p.u, p.w \div 2, g1[x], g2[y])
              /\ Sample(q.v, q.w \div 2, x, y) = Sample(p.v, p.w \div 2, g1[x], g2[y])
    PROVE  Viewed(p, q)
<1> DEFINE m == q.w
           n == q.h
           M == q.w \div 2
           N == q.h \div 2
           f == Straight(f1, f2, m, n)
           g == Straight(g1, g2, M, N)
<1>1. m \in Nat /\ n \in Nat /\ M \in Nat /\ N \in Nat /\ p.w \in Nat /\ p.h \in Nat
  BY DEF Framed
<1>2. Aligned(f, g, m, n, p.w, p.h)
  BY <1>1, StraightAligned
<1>3. ASSUME NEW a \in Area(m, n) PROVE Sample(q.y, m, a[1], a[2]) = Sample(p.y, p.w, f[a][1], f[a][2])
  <2>1. a[1] \in 0 .. m - 1 /\ a[2] \in 0 .. n - 1
    BY <1>1, AreaPair
  <2>2. f[a][1] = f1[a[1]] /\ f[a][2] = f2[a[2]]
    BY DEF Straight
  <2>3. Sample(q.y, m, a[1], a[2]) = Sample(p.y, p.w, f1[a[1]], f2[a[2]])
    BY <2>1
  <2> HIDE DEF f, m
  <2> QED
    BY <2>2, <2>3, Zenon
<1>4. ASSUME NEW c \in Area(M, N)
      PROVE  /\ Sample(q.u, M, c[1], c[2]) = Sample(p.u, p.w \div 2, g[c][1], g[c][2])
             /\ Sample(q.v, M, c[1], c[2]) = Sample(p.v, p.w \div 2, g[c][1], g[c][2])
  <2>1. c[1] \in 0 .. M - 1 /\ c[2] \in 0 .. N - 1
    BY <1>1, AreaPair
  <2>2. g[c][1] = g1[c[1]] /\ g[c][2] = g2[c[2]]
    BY DEF Straight
  <2>3. /\ Sample(q.u, M, c[1], c[2]) = Sample(p.u, p.w \div 2, g1[c[1]], g2[c[2]])
        /\ Sample(q.v, M, c[1], c[2]) = Sample(p.v, p.w \div 2, g1[c[1]], g2[c[2]])
    BY <2>1
  <2> HIDE DEF g, M
  <2> QED
    BY <2>2, <2>3, Zenon
<1> HIDE DEF f, g
<1> QED
  BY <1>2, <1>3, <1>4, AlignedView

\* Samples that follow two exchanged axes make a view.
LEMMA CrossedView ==
    ASSUME NEW p, NEW q, Framed(p), Framed(q), NEW f1, NEW g1, NEW f2, NEW g2,
           Axis(f1, g1, q.h, p.w), Axis(f2, g2, q.w, p.h),
           \A x \in 0 .. q.w - 1, y \in 0 .. q.h - 1 : Sample(q.y, q.w, x, y) = Sample(p.y, p.w, f1[y], f2[x]),
           \A x \in 0 .. (q.w \div 2) - 1, y \in 0 .. (q.h \div 2) - 1 :
              /\ Sample(q.u, q.w \div 2, x, y) = Sample(p.u, p.w \div 2, g1[y], g2[x])
              /\ Sample(q.v, q.w \div 2, x, y) = Sample(p.v, p.w \div 2, g1[y], g2[x])
    PROVE  Viewed(p, q)
<1> DEFINE m == q.w
           n == q.h
           M == q.w \div 2
           N == q.h \div 2
           f == Crossed(f1, f2, m, n)
           g == Crossed(g1, g2, M, N)
<1>1. m \in Nat /\ n \in Nat /\ M \in Nat /\ N \in Nat /\ p.w \in Nat /\ p.h \in Nat
  BY DEF Framed
<1>2. Aligned(f, g, m, n, p.w, p.h)
  BY <1>1, CrossedAligned
<1>3. ASSUME NEW a \in Area(m, n) PROVE Sample(q.y, m, a[1], a[2]) = Sample(p.y, p.w, f[a][1], f[a][2])
  <2>1. a[1] \in 0 .. m - 1 /\ a[2] \in 0 .. n - 1
    BY <1>1, AreaPair
  <2>2. f[a][1] = f1[a[2]] /\ f[a][2] = f2[a[1]]
    BY DEF Crossed
  <2>3. Sample(q.y, m, a[1], a[2]) = Sample(p.y, p.w, f1[a[2]], f2[a[1]])
    BY <2>1
  <2> HIDE DEF f, m
  <2> QED
    BY <2>2, <2>3, Zenon
<1>4. ASSUME NEW c \in Area(M, N)
      PROVE  /\ Sample(q.u, M, c[1], c[2]) = Sample(p.u, p.w \div 2, g[c][1], g[c][2])
             /\ Sample(q.v, M, c[1], c[2]) = Sample(p.v, p.w \div 2, g[c][1], g[c][2])
  <2>1. c[1] \in 0 .. M - 1 /\ c[2] \in 0 .. N - 1
    BY <1>1, AreaPair
  <2>2. g[c][1] = g1[c[2]] /\ g[c][2] = g2[c[1]]
    BY DEF Crossed
  <2>3. /\ Sample(q.u, M, c[1], c[2]) = Sample(p.u, p.w \div 2, g1[c[2]], g2[c[1]])
        /\ Sample(q.v, M, c[1], c[2]) = Sample(p.v, p.w \div 2, g1[c[2]], g2[c[1]])
    BY <2>1
  <2> HIDE DEF g, M
  <2> QED
    BY <2>2, <2>3, Zenon
<1> HIDE DEF f, g
<1> QED
  BY <1>2, <1>3, <1>4, AlignedView

\* The reversed axis, place by place.
LEMMA AxisReversed ==
    ASSUME NEW w \in Nat
    PROVE  \A x \in 0 .. w - 1 : ReversedAxis(w)[x] = w - 1 - x
BY DEF ReversedAxis

\* The moved axis, place by place.
LEMMA AxisMoved ==
    ASSUME NEW w \in Nat, NEW s \in Nat
    PROVE  \A x \in 0 .. w - 1 : MovedAxis(w, s)[x] = s + x
BY DEF MovedAxis

\* A picture is a view of itself.
LEMMA SelfView ==
    ASSUME NEW p, Framed(p), Even(p)
    PROVE  Viewed(p, p)
<1>1. p.w \in Nat /\ p.h \in Nat /\ p.w % 2 = 0 /\ p.h % 2 = 0 /\ p.w \div 2 \in Nat /\ p.h \div 2 \in Nat
  BY DEF Framed, Even
<1>2. 0 \div 2 = 0 /\ 0 % 2 = 0
  OBVIOUS
<1> DEFINE f1 == MovedAxis(p.w, 0)
           f2 == MovedAxis(p.h, 0)
           g1 == MovedAxis(p.w \div 2, 0)
           g2 == MovedAxis(p.h \div 2, 0)
<1>3. Axis(f1, g1, p.w, p.w) /\ Axis(f2, g2, p.h, p.h)
  <2>1. Axis(MovedAxis(p.w, 0), MovedAxis(p.w \div 2, 0 \div 2), p.w, p.w)
    BY <1>1, <1>2, MovedIsAxis
  <2>2. Axis(MovedAxis(p.h, 0), MovedAxis(p.h \div 2, 0 \div 2), p.h, p.h)
    BY <1>1, <1>2, MovedIsAxis
  <2> QED
    BY <1>2, <2>1, <2>2
<1>4. /\ \A x \in 0 .. p.w - 1 : f1[x] = x
      /\ \A x \in 0 .. p.h - 1 : f2[x] = x
      /\ \A x \in 0 .. (p.w \div 2) - 1 : g1[x] = x
      /\ \A x \in 0 .. (p.h \div 2) - 1 : g2[x] = x
  <2>1. \A w \in Nat : \A x \in 0 .. w - 1 : MovedAxis(w, 0)[x] = x
    BY AxisMoved
  <2> QED
    BY <1>1, <2>1
<1> HIDE DEF f1, f2, g1, g2
<1> QED
  BY <1>3, <1>4, StraightView

\* Mirroring shows the picture.
LEMMA MirrorView ==
    ASSUME NEW p, Framed(p), Even(p)
    PROVE  Viewed(p, Mirror(p))
<1> DEFINE q == Mirror(p)
           w == p.w
           h == p.h
           W == p.w \div 2
           H == p.h \div 2
           n == I420New(w, h)
<1>1. w \in Nat /\ h \in Nat /\ w % 2 = 0 /\ h % 2 = 0 /\ W \in Nat /\ H \in Nat
  BY DEF Framed, Even
<1>2. /\ Framed(q) /\ q.w = w /\ q.h = h /\ q.y = Flipped(n.y, p.y, w, h)
      /\ q.u = Flipped(n.u, p.u, W, H) /\ q.v = Flipped(n.v, p.v, W, H)
  BY MirrorPlanes
<1>3. PlaneOK(n.y, w, h) /\ PlaneOK(n.u, W, H) /\ PlaneOK(n.v, W, H)
  BY <1>1, PlanesOfNew
<1>4. PlaneOK(p.y, w, h) /\ PlaneOK(p.u, W, H) /\ PlaneOK(p.v, W, H)
  BY DEF Framed
<1> HIDE DEF q, n
<1>5. \A x \in 0 .. w - 1, y \in 0 .. h - 1 : Sample(q.y, w, x, y) = Sample(p.y, w, w - 1 - x, y)
  BY <1>1, <1>2, <1>3, <1>4, FlippedSamples
<1>6. \A x \in 0 .. W - 1, y \in 0 .. H - 1 : Sample(q.u, W, x, y) = Sample(p.u, W, W - 1 - x, y)
  BY <1>1, <1>2, <1>3, <1>4, FlippedSamples
<1>7. \A x \in 0 .. W - 1, y \in 0 .. H - 1 : Sample(q.v, W, x, y) = Sample(p.v, W, W - 1 - x, y)
  BY <1>1, <1>2, <1>3, <1>4, FlippedSamples
<1> DEFINE f1 == ReversedAxis(w)
           g1 == ReversedAxis(W)
           f2 == MovedAxis(h, 0)
           g2 == MovedAxis(H, 0)
<1>8. Axis(f1, g1, w, w)
  BY <1>1, ReversedIsAxis
<1>9. Axis(f2, g2, h, h)
  <2>1. Axis(MovedAxis(h, 0), MovedAxis(H, 0 \div 2), h, h)
    BY <1>1, MovedIsAxis
  <2>2. 0 \div 2 = 0
    OBVIOUS
  <2> QED
    BY <2>1, <2>2
<1>10. /\ \A x \in 0 .. w - 1 : f1[x] = w - 1 - x
       /\ \A x \in 0 .. h - 1 : f2[x] = x
       /\ \A x \in 0 .. W - 1 : g1[x] = W - 1 - x
       /\ \A x \in 0 .. H - 1 : g2[x] = x
  <2>1. \A k \in Nat : \A x \in 0 .. k - 1 : MovedAxis(k, 0)[x] = x
    BY AxisMoved
  <2>2. \A k \in Nat : \A x \in 0 .. k - 1 : ReversedAxis(k)[x] = k - 1 - x
    BY AxisReversed
  <2> QED
    BY <1>1, <2>1, <2>2
<1> HIDE DEF f1, f2, g1, g2
<1>11. \A x \in 0 .. w - 1, y \in 0 .. h - 1 : Sample(q.y, w, x, y) = Sample(p.y, w, f1[x], f2[y])
  BY <1>5, <1>10
<1>12. \A x \in 0 .. W - 1, y \in 0 .. H - 1 :
          /\ Sample(q.u, W, x, y) = Sample(p.u, W, g1[x], g2[y])
          /\ Sample(q.v, W, x, y) = Sample(p.v, W, g1[x], g2[y])
  BY <1>6, <1>7, <1>10
<1>13. q.w \div 2 = W /\ q.h \div 2 = H
  BY <1>2
<1>14. Viewed(p, q)
  <2>1. /\ Axis(f1, g1, q.w, p.w) /\ Axis(f2, g2, q.h, p.h)
        /\ \A x \in 0 .. q.w - 1, y \in 0 .. q.h - 1 : Sample(q.y, q.w, x, y) = Sample(p.y, p.w, f1[x], f2[y])
        /\ \A x \in 0 .. (q.w \div 2) - 1, y \in 0 .. (q.h \div 2) - 1 :
              /\ Sample(q.u, q.w \div 2, x, y) = Sample(p.u, p.w \div 2, g1[x], g2[y])
              /\ Sample(q.v, q.w \div 2, x, y) = Sample(p.v, p.w \div 2, g1[x], g2[y])
    BY <1>2, <1>8, <1>9, <1>11, <1>12, <1>13
  <2> QED
    BY <1>2, <2>1, StraightView
<1> QED
  BY <1>14 DEF q

\* An axis left alone.
LEMMA StillIsAxis ==
    ASSUME NEW w \in Nat, w % 2 = 0
    PROVE  Axis(MovedAxis(w, 0), MovedAxis(w \div 2, 0), w, w)
<1>1. 0 \div 2 = 0 /\ 0 % 2 = 0
  OBVIOUS
<1>2. Axis(MovedAxis(w, 0), MovedAxis(w \div 2, 0 \div 2), w, w)
  BY <1>1, MovedIsAxis
<1> QED
  BY <1>1, <1>2

\* A quarter turn, a half and three quarters show the picture.
LEMMA RotateView90 ==
    ASSUME NEW p, Framed(p), Even(p)
    PROVE  Viewed(p, Rotate(p, 90))
<1> DEFINE q == Rotate(p, 90)
           w == p.w
           h == p.h
           W == p.w \div 2
           H == p.h \div 2
           n == I420New(h, w)
<1>1. w \in Nat /\ h \in Nat /\ w % 2 = 0 /\ h % 2 = 0 /\ W \in Nat /\ H \in Nat
  BY DEF Framed, Even
<1>2. /\ Framed(q) /\ q.w = h /\ q.h = w /\ q.y = Swung(n.y, p.y, w, h, 90)
      /\ q.u = Swung(n.u, p.u, W, H, 90) /\ q.v = Swung(n.v, p.v, W, H, 90)
  <2>1. TurnedW(w, h, 90) = h /\ TurnedH(w, h, 90) = w /\ 90 \in Turns
    BY DEF TurnedW, TurnedH, Turns
  <2> QED
    BY <2>1, RotatePlanes
<1>3. PlaneOK(n.y, h, w) /\ PlaneOK(n.u, H, W) /\ PlaneOK(n.v, H, W)
  BY <1>1, PlanesOfNew
<1>4. PlaneOK(p.y, w, h) /\ PlaneOK(p.u, W, H) /\ PlaneOK(p.v, W, H)
  BY DEF Framed
<1> HIDE DEF q, n
<1>5. \A x \in 0 .. h - 1, y \in 0 .. w - 1 : Sample(q.y, h, x, y) = Sample(p.y, w, y, h - 1 - x)
  BY <1>1, <1>2, <1>3, <1>4, SwungFrom
<1>6. \A x \in 0 .. H - 1, y \in 0 .. W - 1 : Sample(q.u, H, x, y) = Sample(p.u, W, y, H - 1 - x)
  BY <1>1, <1>2, <1>3, <1>4, SwungFrom
<1>7. \A x \in 0 .. H - 1, y \in 0 .. W - 1 : Sample(q.v, H, x, y) = Sample(p.v, W, y, H - 1 - x)
  BY <1>1, <1>2, <1>3, <1>4, SwungFrom
<1> DEFINE f1 == MovedAxis(w, 0)
           g1 == MovedAxis(W, 0)
           f2 == ReversedAxis(h)
           g2 == ReversedAxis(H)
<1>8. Axis(f1, g1, w, w)
  BY <1>1, StillIsAxis
<1>9. Axis(f2, g2, h, h)
  BY <1>1, ReversedIsAxis
<1>10. /\ \A x \in 0 .. w - 1 : f1[x] = x
       /\ \A x \in 0 .. h - 1 : f2[x] = h - 1 - x
       /\ \A x \in 0 .. W - 1 : g1[x] = x
       /\ \A x \in 0 .. H - 1 : g2[x] = H - 1 - x
  <2>1. \A k \in Nat : \A x \in 0 .. k - 1 : MovedAxis(k, 0)[x] = x
    BY AxisMoved
  <2>2. \A k \in Nat : \A x \in 0 .. k - 1 : ReversedAxis(k)[x] = k - 1 - x
    BY AxisReversed
  <2> QED
    BY <1>1, <2>1, <2>2
<1> HIDE DEF f1, f2, g1, g2
<1>11. \A x \in 0 .. h - 1, y \in 0 .. w - 1 : Sample(q.y, h, x, y) = Sample(p.y, w, f1[y], f2[x])
  BY <1>5, <1>10
<1>12. \A x \in 0 .. H - 1, y \in 0 .. W - 1 :
          /\ Sample(q.u, H, x, y) = Sample(p.u, W, g1[y], g2[x])
          /\ Sample(q.v, H, x, y) = Sample(p.v, W, g1[y], g2[x])
  BY <1>6, <1>7, <1>10
<1>13. q.w \div 2 = H /\ q.h \div 2 = W
  BY <1>2
<1>14. Viewed(p, q)
  <2>1. /\ Axis(f1, g1, q.h, p.w) /\ Axis(f2, g2, q.w, p.h)
        /\ \A x \in 0 .. q.w - 1, y \in 0 .. q.h - 1 : Sample(q.y, q.w, x, y) = Sample(p.y, p.w, f1[y], f2[x])
        /\ \A x \in 0 .. (q.w \div 2) - 1, y \in 0 .. (q.h \div 2) - 1 :
              /\ Sample(q.u, q.w \div 2, x, y) = Sample(p.u, p.w \div 2, g1[y], g2[x])
              /\ Sample(q.v, q.w \div 2, x, y) = Sample(p.v, p.w \div 2, g1[y], g2[x])
    BY <1>2, <1>8, <1>9, <1>11, <1>12, <1>13
  <2> QED
    BY <1>2, <2>1, CrossedView
<1> QED
  BY <1>14 DEF q

\* Half a turn of an even picture is a view of it, in either backend.
LEMMA RotateView180 ==
    ASSUME NEW p, Framed(p), Even(p)
    PROVE  Viewed(p, Rotate(p, 180))
<1> DEFINE q == Rotate(p, 180)
           w == p.w
           h == p.h
           W == p.w \div 2
           H == p.h \div 2
           n == I420New(w, h)
<1>1. w \in Nat /\ h \in Nat /\ w % 2 = 0 /\ h % 2 = 0 /\ W \in Nat /\ H \in Nat
  BY DEF Framed, Even
<1>2. /\ Framed(q) /\ q.w = w /\ q.h = h /\ q.y = Swung(n.y, p.y, w, h, 180)
      /\ q.u = Swung(n.u, p.u, W, H, 180) /\ q.v = Swung(n.v, p.v, W, H, 180)
  <2>1. TurnedW(w, h, 180) = w /\ TurnedH(w, h, 180) = h /\ 180 \in Turns
    BY DEF TurnedW, TurnedH, Turns
  <2> QED
    BY <2>1, RotatePlanes
<1>3. PlaneOK(n.y, w, h) /\ PlaneOK(n.u, W, H) /\ PlaneOK(n.v, W, H)
  BY <1>1, PlanesOfNew
<1>4. PlaneOK(p.y, w, h) /\ PlaneOK(p.u, W, H) /\ PlaneOK(p.v, W, H)
  BY DEF Framed
<1> HIDE DEF q, n
<1>5. \A x \in 0 .. w - 1, y \in 0 .. h - 1 : Sample(q.y, w, x, y) = Sample(p.y, w, w - 1 - x, h - 1 - y)
  BY <1>1, <1>2, <1>3, <1>4, SwungFrom
<1>6. \A x \in 0 .. W - 1, y \in 0 .. H - 1 : Sample(q.u, W, x, y) = Sample(p.u, W, W - 1 - x, H - 1 - y)
  BY <1>1, <1>2, <1>3, <1>4, SwungFrom
<1>7. \A x \in 0 .. W - 1, y \in 0 .. H - 1 : Sample(q.v, W, x, y) = Sample(p.v, W, W - 1 - x, H - 1 - y)
  BY <1>1, <1>2, <1>3, <1>4, SwungFrom
<1> DEFINE f1 == ReversedAxis(w)
           g1 == ReversedAxis(W)
           f2 == ReversedAxis(h)
           g2 == ReversedAxis(H)
<1>8. Axis(f1, g1, w, w)
  BY <1>1, ReversedIsAxis
<1>9. Axis(f2, g2, h, h)
  BY <1>1, ReversedIsAxis
<1>10. /\ \A x \in 0 .. w - 1 : f1[x] = w - 1 - x
       /\ \A x \in 0 .. h - 1 : f2[x] = h - 1 - x
       /\ \A x \in 0 .. W - 1 : g1[x] = W - 1 - x
       /\ \A x \in 0 .. H - 1 : g2[x] = H - 1 - x
  <2>1. \A k \in Nat : \A x \in 0 .. k - 1 : MovedAxis(k, 0)[x] = x
    BY AxisMoved
  <2>2. \A k \in Nat : \A x \in 0 .. k - 1 : ReversedAxis(k)[x] = k - 1 - x
    BY AxisReversed
  <2> QED
    BY <1>1, <2>1, <2>2
<1> HIDE DEF f1, f2, g1, g2
<1>11. \A x \in 0 .. w - 1, y \in 0 .. h - 1 : Sample(q.y, w, x, y) = Sample(p.y, w, f1[x], f2[y])
  BY <1>5, <1>10
<1>12. \A x \in 0 .. W - 1, y \in 0 .. H - 1 :
          /\ Sample(q.u, W, x, y) = Sample(p.u, W, g1[x], g2[y])
          /\ Sample(q.v, W, x, y) = Sample(p.v, W, g1[x], g2[y])
  BY <1>6, <1>7, <1>10
<1>13. q.w \div 2 = W /\ q.h \div 2 = H
  BY <1>2
<1>14. Viewed(p, q)
  <2>1. /\ Axis(f1, g1, q.w, p.w) /\ Axis(f2, g2, q.h, p.h)
        /\ \A x \in 0 .. q.w - 1, y \in 0 .. q.h - 1 : Sample(q.y, q.w, x, y) = Sample(p.y, p.w, f1[x], f2[y])
        /\ \A x \in 0 .. (q.w \div 2) - 1, y \in 0 .. (q.h \div 2) - 1 :
              /\ Sample(q.u, q.w \div 2, x, y) = Sample(p.u, p.w \div 2, g1[x], g2[y])
              /\ Sample(q.v, q.w \div 2, x, y) = Sample(p.v, p.w \div 2, g1[x], g2[y])
    BY <1>2, <1>8, <1>9, <1>11, <1>12, <1>13
  <2> QED
    BY <1>2, <2>1, StraightView
<1> QED
  BY <1>14 DEF q

\* A turn back of an even picture is a view of it, in either backend.
LEMMA RotateView270 ==
    ASSUME NEW p, Framed(p), Even(p)
    PROVE  Viewed(p, Rotate(p, 270))
<1> DEFINE q == Rotate(p, 270)
           w == p.w
           h == p.h
           W == p.w \div 2
           H == p.h \div 2
           n == I420New(h, w)
<1>1. w \in Nat /\ h \in Nat /\ w % 2 = 0 /\ h % 2 = 0 /\ W \in Nat /\ H \in Nat
  BY DEF Framed, Even
<1>2. /\ Framed(q) /\ q.w = h /\ q.h = w /\ q.y = Swung(n.y, p.y, w, h, 270)
      /\ q.u = Swung(n.u, p.u, W, H, 270) /\ q.v = Swung(n.v, p.v, W, H, 270)
  <2>1. TurnedW(w, h, 270) = h /\ TurnedH(w, h, 270) = w /\ 270 \in Turns
    BY DEF TurnedW, TurnedH, Turns
  <2> QED
    BY <2>1, RotatePlanes
<1>3. PlaneOK(n.y, h, w) /\ PlaneOK(n.u, H, W) /\ PlaneOK(n.v, H, W)
  BY <1>1, PlanesOfNew
<1>4. PlaneOK(p.y, w, h) /\ PlaneOK(p.u, W, H) /\ PlaneOK(p.v, W, H)
  BY DEF Framed
<1> HIDE DEF q, n
<1>5. \A x \in 0 .. h - 1, y \in 0 .. w - 1 : Sample(q.y, h, x, y) = Sample(p.y, w, w - 1 - y, x)
  BY <1>1, <1>2, <1>3, <1>4, SwungFrom
<1>6. \A x \in 0 .. H - 1, y \in 0 .. W - 1 : Sample(q.u, H, x, y) = Sample(p.u, W, W - 1 - y, x)
  BY <1>1, <1>2, <1>3, <1>4, SwungFrom
<1>7. \A x \in 0 .. H - 1, y \in 0 .. W - 1 : Sample(q.v, H, x, y) = Sample(p.v, W, W - 1 - y, x)
  BY <1>1, <1>2, <1>3, <1>4, SwungFrom
<1> DEFINE f1 == ReversedAxis(w)
           g1 == ReversedAxis(W)
           f2 == MovedAxis(h, 0)
           g2 == MovedAxis(H, 0)
<1>8. Axis(f1, g1, w, w)
  BY <1>1, ReversedIsAxis
<1>9. Axis(f2, g2, h, h)
  BY <1>1, StillIsAxis
<1>10. /\ \A x \in 0 .. w - 1 : f1[x] = w - 1 - x
       /\ \A x \in 0 .. h - 1 : f2[x] = x
       /\ \A x \in 0 .. W - 1 : g1[x] = W - 1 - x
       /\ \A x \in 0 .. H - 1 : g2[x] = x
  <2>1. \A k \in Nat : \A x \in 0 .. k - 1 : MovedAxis(k, 0)[x] = x
    BY AxisMoved
  <2>2. \A k \in Nat : \A x \in 0 .. k - 1 : ReversedAxis(k)[x] = k - 1 - x
    BY AxisReversed
  <2> QED
    BY <1>1, <2>1, <2>2
<1> HIDE DEF f1, f2, g1, g2
<1>11. \A x \in 0 .. h - 1, y \in 0 .. w - 1 : Sample(q.y, h, x, y) = Sample(p.y, w, f1[y], f2[x])
  BY <1>5, <1>10
<1>12. \A x \in 0 .. H - 1, y \in 0 .. W - 1 :
          /\ Sample(q.u, H, x, y) = Sample(p.u, W, g1[y], g2[x])
          /\ Sample(q.v, H, x, y) = Sample(p.v, W, g1[y], g2[x])
  BY <1>6, <1>7, <1>10
<1>13. q.w \div 2 = H /\ q.h \div 2 = W
  BY <1>2
<1>14. Viewed(p, q)
  <2>1. /\ Axis(f1, g1, q.h, p.w) /\ Axis(f2, g2, q.w, p.h)
        /\ \A x \in 0 .. q.w - 1, y \in 0 .. q.h - 1 : Sample(q.y, q.w, x, y) = Sample(p.y, p.w, f1[y], f2[x])
        /\ \A x \in 0 .. (q.w \div 2) - 1, y \in 0 .. (q.h \div 2) - 1 :
              /\ Sample(q.u, q.w \div 2, x, y) = Sample(p.u, p.w \div 2, g1[y], g2[x])
              /\ Sample(q.v, q.w \div 2, x, y) = Sample(p.v, p.w \div 2, g1[y], g2[x])
    BY <1>2, <1>8, <1>9, <1>11, <1>12, <1>13
  <2> QED
    BY <1>2, <2>1, CrossedView
<1> QED
  BY <1>14 DEF q

(***************************************************************************)
(* What the loops leave in a plane, sample by sample.                      *)
(***************************************************************************)

\* A plane with new samples at some of its places has those there and its own
\* elsewhere.
LEMMA LaidSample ==
    ASSUME NEW w \in Nat, NEW h \in Nat, NEW d, PlaneOK(d, w, h), NEW stride, stride = w,
           NEW cells, cells \subseteq Area(w, h), NEW v
    PROVE  /\ PlaneOK(Laid(d, stride, cells, v), w, h)
           /\ \A a \in 0 .. w - 1, b \in 0 .. h - 1 :
                 Sample(Laid(d, stride, cells, v), w, a, b) = IF <<a, b>> \in cells THEN v[<<a, b>>] ELSE Sample(d, w, a, b)
<1> DEFINE at == {Index(stride, c) : c \in cells}
           Pick(i) == CHOOSE c \in cells : Index(stride, c) = i
           new == [i \in DOMAIN d.data \cup at |-> IF i \in at THEN v[Pick(i)] ELSE d.data[i]]
           r == Laid(d, stride, cells, v)
<1>1. r = [d EXCEPT !.data = new]
  BY DEF Laid, Written
<1>2. d = [stride |-> w, data |-> d.data] /\ DOMAIN d.data = 0 .. w * h - 1
  BY DEF PlaneOK
<1>3. \A c \in cells : \E a \in 0 .. w - 1, b \in 0 .. h - 1 : c = <<a, b>>
  BY DEF Area
<1>4. \A a \in 0 .. w - 1, b \in 0 .. h - 1 : Index(stride, <<a, b>>) = b * w + a /\ b * w + a \in 0 .. w * h - 1
  BY IndexInside DEF Index
<1> HIDE DEF r
<1>6. at \subseteq 0 .. w * h - 1
  BY <1>3, <1>4
<1>7. r = [stride |-> w, data |-> new] /\ new = [i \in 0 .. w * h - 1 |-> new[i]]
  <2>1. DOMAIN d.data \cup at = 0 .. w * h - 1
    BY <1>2, <1>6
  <2> HIDE DEF at
  <2>2. new = [i \in 0 .. w * h - 1 |-> new[i]]
    BY <2>1
  <2>3. PICK f : d = [stride |-> w, data |-> f]
    BY <1>2
  <2> HIDE DEF new
  <2>4. [d EXCEPT !.data = new] = [stride |-> w, data |-> new]
    BY <2>3
  <2> QED
    BY <1>1, <2>2, <2>4
<1>8. ASSUME NEW a \in 0 .. w - 1, NEW b \in 0 .. h - 1, <<a, b>> \in cells
      PROVE  new[b * w + a] = v[<<a, b>>]
  <2> DEFINE i == b * w + a
  <2>1. Index(stride, <<a, b>>) = i
    BY <1>4
  <2>2. i \in at /\ i \in DOMAIN d.data \cup at
    BY <1>8, <2>1
  <2>3. Pick(i) \in cells /\ Index(stride, Pick(i)) = i
    BY <1>8, <2>1
  <2>4. PICK e \in 0 .. w - 1, f \in 0 .. h - 1 : Pick(i) = <<e, f>>
    BY <1>3, <2>3
  <2>5. f * w + e = b * w + a
    BY <1>4, <2>3, <2>4
  <2>6. e = a /\ f = b
    BY <2>5, IndexInjective
  <2>7. Pick(i) = <<a, b>>
    BY <2>4, <2>6
  <2> HIDE DEF at, Pick, i
  <2>8. new[i] = v[Pick(i)]
    BY <2>2
  <2> QED
    BY <2>7, <2>8 DEF i
<1>9. ASSUME NEW a \in 0 .. w - 1, NEW b \in 0 .. h - 1, <<a, b>> \notin cells
      PROVE  new[b * w + a] = d.data[b * w + a]
  <2> DEFINE i == b * w + a
  <2>1. i \in 0 .. w * h - 1
    BY <1>4
  <2>2. i \notin at
    <3> SUFFICES ASSUME NEW c \in cells, Index(stride, c) = i PROVE FALSE
      OBVIOUS
    <3>1. PICK e \in 0 .. w - 1, f \in 0 .. h - 1 : c = <<e, f>>
      BY <1>3
    <3>2. f * w + e = b * w + a
      BY <1>4, <3>1
    <3>3. e = a /\ f = b
      BY <3>2, IndexInjective
    <3> QED
      BY <1>9, <3>1, <3>3
  <2> HIDE DEF at, Pick, i
  <2> QED
    BY <1>2, <2>1, <2>2 DEF i
<1> HIDE DEF new
<1>10. PlaneOK(r, w, h)
  BY <1>7 DEF PlaneOK
<1>11. \A a \in 0 .. w - 1, b \in 0 .. h - 1 : <<a, b>> \in cells => Sample(r, w, a, b) = v[<<a, b>>]
  BY <1>7, <1>8 DEF Sample
<1>12. \A a \in 0 .. w - 1, b \in 0 .. h - 1 : <<a, b>> \notin cells => Sample(r, w, a, b) = Sample(d, w, a, b)
  BY <1>7, <1>9 DEF Sample
<1> QED
  BY <1>10, <1>11, <1>12 DEF r

\* A plane with new samples at all of its places has those alone.
LEMMA LaidWhole ==
    ASSUME NEW w \in Nat, NEW h \in Nat, NEW d, PlaneOK(d, w, h), NEW stride, stride = w, NEW v
    PROVE  /\ PlaneOK(Laid(d, stride, Area(w, h), v), w, h)
           /\ \A a \in 0 .. w - 1, b \in 0 .. h - 1 : Sample(Laid(d, stride, Area(w, h), v), w, a, b) = v[<<a, b>>]
<1> DEFINE r == Laid(d, stride, Area(w, h), v)
           cells == Area(w, h)
<1>1. \A a \in 0 .. w - 1, b \in 0 .. h - 1 : <<a, b>> \in cells
  BY DEF Area
<1>2. cells \subseteq Area(w, h)
  OBVIOUS
<1> HIDE DEF cells
<1>3. /\ PlaneOK(Laid(d, stride, cells, v), w, h)
      /\ \A a \in 0 .. w - 1, b \in 0 .. h - 1 :
            Sample(Laid(d, stride, cells, v), w, a, b) = IF <<a, b>> \in cells THEN v[<<a, b>>] ELSE Sample(d, w, a, b)
  BY <1>2, LaidSample
<1>4. \A a \in 0 .. w - 1, b \in 0 .. h - 1 : Sample(Laid(d, stride, cells, v), w, a, b) = v[<<a, b>>]
  BY <1>1, <1>3
<1> QED
  BY <1>3, <1>4 DEF cells

\* Turning by nothing copies a plane.
LEMMA UnturnedSame ==
    ASSUME NEW w \in Nat, NEW h \in Nat, NEW d, PlaneOK(d, w, h), NEW s, PlaneOK(s, w, h)
    PROVE  Swung(d, s, w, h, 0) = s
<1> DEFINE cells == Area(w, h)
           v == [c \in cells |-> Read(s.data, Index(s.stride, c))]
           at == {Index(d.stride, c) : c \in cells}
           Pick(i) == CHOOSE c \in cells : Index(d.stride, c) = i
<1>1. \A c : Turned(c, w, h, 0) = c
  BY DEF Turned
<1>2. Swung(d, s, w, h, 0) = [d EXCEPT !.data = [i \in DOMAIN d.data \cup at |->
                                   IF i \in at THEN Read(s.data, Index(s.stride, Pick(i))) ELSE d.data[i]]]
  BY <1>1 DEF Swung, Written
<1>3. \A i \in at : v[Pick(i)] = Read(s.data, Index(s.stride, Pick(i)))
  <2>1. \A i \in at : Pick(i) \in cells
    OBVIOUS
  <2> HIDE DEF at, Pick
  <2> QED
    BY <2>1
<1>4. Swung(d, s, w, h, 0) = Laid(d, d.stride, cells, v)
  <2>1. [i \in DOMAIN d.data \cup at |-> IF i \in at THEN Read(s.data, Index(s.stride, Pick(i))) ELSE d.data[i]]
          = [i \in DOMAIN d.data \cup at |-> IF i \in at THEN v[Pick(i)] ELSE d.data[i]]
    <3> HIDE DEF v, at, Pick
    <3> QED
      BY <1>3
  <2> QED
    BY <1>2, <2>1, Zenon DEF Written, Laid
<1>5. d.stride = w
  BY DEF PlaneOK
<1>6. \A a \in 0 .. w - 1, b \in 0 .. h - 1 : <<a, b>> \in cells
  BY DEF Area
<1>7. ASSUME NEW a \in 0 .. w - 1, NEW b \in 0 .. h - 1 PROVE v[<<a, b>>] = Sample(s, w, a, b)
  <2>1. v[<<a, b>>] = Read(s.data, Index(s.stride, <<a, b>>))
    BY <1>6
  <2>2. Read(s.data, Index(s.stride, <<a, b>>)) = Sample(s, w, a, b)
    BY ReadsInside
  <2> QED
    BY <2>1, <2>2, Zenon
<1> HIDE DEF v
<1>8. /\ PlaneOK(Laid(d, d.stride, cells, v), w, h)
      /\ \A a \in 0 .. w - 1, b \in 0 .. h - 1 : Sample(Laid(d, d.stride, cells, v), w, a, b) = v[<<a, b>>]
  BY <1>5, LaidWhole
<1> DEFINE r == Laid(d, d.stride, cells, v)
<1>9. PlaneOK(r, w, h) /\ \A a \in 0 .. w - 1, b \in 0 .. h - 1 : Sample(r, w, a, b) = Sample(s, w, a, b)
  BY <1>7, <1>8
<1> HIDE DEF cells, r
<1>10. r = s
  BY <1>9, SamePlane
<1> QED
  BY <1>4, <1>10 DEF r

\* A picture that is not turned is the same picture, in either backend.
LEMMA UnturnedPicture ==
    ASSUME NEW p, Framed(p)
    PROVE  Rotate(p, 0) = p /\ (Even(p) => LibyuvRotate(p, 0) = p)
<1> DEFINE n == TurnedBuffer(p, 0)
           F(w1, h1, w2, h2) ==
              [n EXCEPT !.y = Swung(n.y, p.y, w1, h1, 0),
                        !.u = Swung(n.u, p.u, w2, h2, 0), !.v = Swung(n.v, p.v, w2, h2, 0)]
<1>1. /\ p.w \in Nat /\ p.h \in Nat /\ p.w \div 2 \in Nat /\ p.h \div 2 \in Nat
      /\ PlaneOK(p.y, p.w, p.h) /\ PlaneOK(p.u, p.w \div 2, p.h \div 2) /\ PlaneOK(p.v, p.w \div 2, p.h \div 2)
  BY DEF Framed
<1>0. n = I420New(p.w, p.h)
  BY DEF TurnedBuffer
<1>2. Rotate(p, 0) = F(p.w \div 1, p.h \div 1, p.w \div 2, p.h \div 2)
  BY DEF Rotate, Planewise, Swung, Down, Same
<1>3. LibyuvRotate(p, 0) = F(Up(p.w, 1), Up(p.h, 1), Up(p.w, 2), Up(p.h, 2))
  BY DEF LibyuvRotate, Planewise, Swung, Same
<1>4. /\ p.w \div 1 = p.w /\ p.h \div 1 = p.h /\ Up(p.w, 1) = p.w /\ Up(p.h, 1) = p.h
      /\ Even(p) => Up(p.w, 2) = p.w \div 2 /\ Up(p.h, 2) = p.h \div 2
  BY <1>1, HalvesAndWholes DEF Even
<1>5. PlaneOK(n.y, p.w, p.h) /\ PlaneOK(n.u, p.w \div 2, p.h \div 2) /\ PlaneOK(n.v, p.w \div 2, p.h \div 2)
  BY <1>0, <1>1, PlanesOfNew
<1>6. /\ Swung(n.y, p.y, p.w, p.h, 0) = p.y
      /\ Swung(n.u, p.u, p.w \div 2, p.h \div 2, 0) = p.u
      /\ Swung(n.v, p.v, p.w \div 2, p.h \div 2, 0) = p.v
  BY <1>1, <1>5, UnturnedSame
<1>7. [n EXCEPT !.y = p.y, !.u = p.u, !.v = p.v] = p
  <2>1. [n EXCEPT !.y = p.y, !.u = p.u, !.v = p.v] = [w |-> p.w, h |-> p.h, y |-> p.y, u |-> p.u, v |-> p.v]
    <3> HIDE DEF n
    <3>0. \A a, b, c : [I420New(p.w, p.h) EXCEPT !.y = a, !.u = b, !.v = c] = [w |-> p.w, h |-> p.h, y |-> a, u |-> b, v |-> c]
      BY <1>1, NewReplaced
    <3>1. [I420New(p.w, p.h) EXCEPT !.y = p.y, !.u = p.u, !.v = p.v] = [w |-> p.w, h |-> p.h, y |-> p.y, u |-> p.u, v |-> p.v]
      BY <3>0, Zenon
    <3> QED
      BY <1>0, <3>1, Zenon
  <2> QED
    BY <2>1 DEF Framed
<1>8. F(p.w, p.h, p.w \div 2, p.h \div 2) = p
  <2> HIDE DEF n
  <2> QED
    BY <1>6, <1>7, Zenon
<1> HIDE DEF F
<1> QED
  BY <1>2, <1>3, <1>4, <1>8

\* A crop from an even corner shows the picture.
Piece(w, h, x, y, m, n) ==
    /\ w \in Nat /\ h \in Nat /\ x \in Nat /\ y \in Nat /\ m \in Nat /\ n \in Nat
    /\ x + w <= m /\ y + h <= n

EvenPiece(w, h, x, y) == w % 2 = 0 /\ h % 2 = 0 /\ x % 2 = 0 /\ y % 2 = 0

\* Halving a piece of a picture stays within the halved picture.
LEMMA HalfPiece ==
    ASSUME NEW w, NEW h, NEW x, NEW y, NEW m, NEW n, Piece(w, h, x, y, m, n)
    PROVE  Piece(w \div 2, h \div 2, x \div 2, y \div 2, m \div 2, n \div 2)
<1>1. /\ w \in Nat /\ h \in Nat /\ x \in Nat /\ y \in Nat /\ m \in Nat /\ n \in Nat
      /\ x + w <= m /\ y + h <= n
  BY DEF Piece
<1>2. /\ w \div 2 \in Nat /\ h \div 2 \in Nat /\ x \div 2 \in Nat /\ y \div 2 \in Nat
      /\ m \div 2 \in Nat /\ n \div 2 \in Nat
      /\ (x \div 2) + (w \div 2) <= m \div 2 /\ (y \div 2) + (h \div 2) <= n \div 2
  BY <1>1
<1> QED
  BY <1>2 DEF Piece

\* Both crops, plane by plane: chroma is cut at halved corners.
LEMMA CropByPlane ==
    ASSUME NEW p, Framed(p), NEW w \in Nat, NEW h \in Nat, NEW x \in Nat, NEW y \in Nat
    PROVE  LET n == I420New(w, h)
           IN  /\ Crop(p, x, y, w, h) =
                     [w |-> w, h |-> h, y |-> CutOut(n.y, w, p.y, x, y, w, h),
                      u |-> CutOut(n.u, w \div 2, p.u, x \div 2, y \div 2, w \div 2, h \div 2),
                      v |-> CutOut(n.v, w \div 2, p.v, x \div 2, y \div 2, w \div 2, h \div 2)]
               /\ LibyuvCrop(p, x, y, w, h) =
                     [w |-> w, h |-> h, y |-> CutRows(n.y, w, p.y, y * p.w + x, w, h),
                      u |-> CutRows(n.u, w \div 2, p.u, (y \div 2) * (p.w \div 2) + x \div 2, w \div 2, h \div 2),
                      v |-> CutRows(n.v, w \div 2, p.v, (y \div 2) * (p.w \div 2) + x \div 2, w \div 2, h \div 2)]
<1> DEFINE n == I420New(w, h)
           F(w1, h1, x1, y1, w2, h2, x2, y2) ==
              [n EXCEPT !.y = CutOut(n.y, n.y.stride, p.y, x1, y1, w1, h1),
                        !.u = CutOut(n.u, n.u.stride, p.u, x2, y2, w2, h2),
                        !.v = CutOut(n.v, n.v.stride, p.v, x2, y2, w2, h2)]
           G(w1, h1, x1, y1, w2, h2, x2, y2) ==
              [n EXCEPT !.y = CutRows(n.y, n.y.stride, p.y, y1 * p.y.stride + x1, w1, h1),
                        !.u = CutRows(n.u, n.u.stride, p.u, y2 * p.u.stride + x2, w2, h2),
                        !.v = CutRows(n.v, n.v.stride, p.v, y2 * p.v.stride + x2, w2, h2)]
<1>1. w \div 1 = w /\ h \div 1 = h /\ x \div 1 = x /\ y \div 1 = y
  OBVIOUS
<1>2. PlaneOK(n.y, w, h) /\ PlaneOK(n.u, w \div 2, h \div 2) /\ PlaneOK(n.v, w \div 2, h \div 2)
  BY PlanesOfNew
<1>3. n.y.stride = w /\ n.u.stride = w \div 2 /\ n.v.stride = w \div 2
  BY <1>2 DEF PlaneOK
<1>4. p.y.stride = p.w /\ p.u.stride = p.w \div 2 /\ p.v.stride = p.w \div 2
  BY DEF Framed, PlaneOK
<1>5. Crop(p, x, y, w, h) = F(w \div 1, h \div 1, x \div 1, y \div 1, w \div 2, h \div 2, x \div 2, y \div 2)
  BY DEF Crop, Planewise, CutOut, Down, Same
<1>6. LibyuvCrop(p, x, y, w, h) = G(w \div 1, h \div 1, x \div 1, y \div 1, w \div 2, h \div 2, x \div 2, y \div 2)
  BY DEF LibyuvCrop, CutRows
<1>7. /\ Crop(p, x, y, w, h) = F(w, h, x, y, w \div 2, h \div 2, x \div 2, y \div 2)
      /\ LibyuvCrop(p, x, y, w, h) = G(w, h, x, y, w \div 2, h \div 2, x \div 2, y \div 2)
  <2> HIDE DEF n, F, G
  <2> QED
    BY <1>1, <1>5, <1>6
<1>8. \A a, b, c : [n EXCEPT !.y = a, !.u = b, !.v = c] = [w |-> w, h |-> h, y |-> a, u |-> b, v |-> c]
  BY NewReplaced
<1> HIDE DEF n
<1>9. Crop(p, x, y, w, h) =
         [w |-> w, h |-> h, y |-> CutOut(n.y, w, p.y, x, y, w, h),
          u |-> CutOut(n.u, w \div 2, p.u, x \div 2, y \div 2, w \div 2, h \div 2),
          v |-> CutOut(n.v, w \div 2, p.v, x \div 2, y \div 2, w \div 2, h \div 2)]
  <2>1. Crop(p, x, y, w, h) =
          [n EXCEPT !.y = CutOut(n.y, w, p.y, x, y, w, h),
                    !.u = CutOut(n.u, w \div 2, p.u, x \div 2, y \div 2, w \div 2, h \div 2),
                    !.v = CutOut(n.v, w \div 2, p.v, x \div 2, y \div 2, w \div 2, h \div 2)]
    BY <1>3, <1>7, Zenon
  <2> QED
    BY <2>1, <1>8, Zenon
<1>10. LibyuvCrop(p, x, y, w, h) =
         [w |-> w, h |-> h, y |-> CutRows(n.y, w, p.y, y * p.w + x, w, h),
          u |-> CutRows(n.u, w \div 2, p.u, (y \div 2) * (p.w \div 2) + x \div 2, w \div 2, h \div 2),
          v |-> CutRows(n.v, w \div 2, p.v, (y \div 2) * (p.w \div 2) + x \div 2, w \div 2, h \div 2)]
  <2>1. LibyuvCrop(p, x, y, w, h) =
          [n EXCEPT !.y = CutRows(n.y, w, p.y, y * p.w + x, w, h),
                    !.u = CutRows(n.u, w \div 2, p.u, (y \div 2) * (p.w \div 2) + x \div 2, w \div 2, h \div 2),
                    !.v = CutRows(n.v, w \div 2, p.v, (y \div 2) * (p.w \div 2) + x \div 2, w \div 2, h \div 2)]
    BY <1>3, <1>4, <1>7, Zenon
  <2> QED
    BY <2>1, <1>8, Zenon
<1> QED
  BY <1>9, <1>10 DEF n

\* A piece of a plane.
LEMMA CutSample ==
    ASSUME NEW w, NEW h, NEW x, NEW y, NEW m, NEW n, Piece(w, h, x, y, m, n),
           NEW s, PlaneOK(s, m, n), NEW d, PlaneOK(d, w, h), NEW off, off = y * m + x
    PROVE  /\ PlaneOK(CutOut(d, w, s, x, y, w, h), w, h) /\ PlaneOK(CutRows(d, w, s, off, w, h), w, h)
           /\ \A a \in 0 .. w - 1, b \in 0 .. h - 1 :
                 /\ Sample(CutOut(d, w, s, x, y, w, h), w, a, b) = Sample(s, m, x + a, y + b)
                 /\ Sample(CutRows(d, w, s, off, w, h), w, a, b) = Sample(s, m, x + a, y + b)
<1> DEFINE c == CutOut(d, w, s, x, y, w, h)
           r == CutRows(d, w, s, off, w, h)
<1>0. /\ w \in Nat /\ h \in Nat /\ x \in Nat /\ y \in Nat /\ m \in Nat /\ n \in Nat
      /\ x + w <= m /\ y + h <= n
  BY DEF Piece
<1>1. /\ PlaneOK(c, w, h)
      /\ \A a \in 0 .. w - 1, b \in 0 .. h - 1 : Sample(c, w, a, b) = Read(s.data, Index(s.stride, <<x + a, y + b>>))
  BY <1>0, CutOutSamples
<1>2. /\ PlaneOK(r, w, h)
      /\ \A a \in 0 .. w - 1, b \in 0 .. h - 1 : Sample(r, w, a, b) = Read(s.data, off + Index(s.stride, <<a, b>>))
  BY <1>0, CutRowsSamples
<1>3. s.stride = m
  BY DEF PlaneOK
<1> HIDE DEF c, r
<1>4. ASSUME NEW a \in 0 .. w - 1, NEW b \in 0 .. h - 1
      PROVE  Sample(c, w, a, b) = Sample(s, m, x + a, y + b) /\ Sample(r, w, a, b) = Sample(s, m, x + a, y + b)
  <2>1. x + a \in 0 .. m - 1 /\ y + b \in 0 .. n - 1
    BY <1>0
  <2>2. Read(s.data, Index(s.stride, <<x + a, y + b>>)) = Sample(s, m, x + a, y + b)
    BY <1>0, <2>1, ReadsInside
  <2>3. off + Index(s.stride, <<a, b>>) = Index(s.stride, <<x + a, y + b>>)
    <3>1. (y + b) * m = y * m + b * m /\ y * m \in Int /\ b * m \in Int
      BY <1>0
    <3>2. Index(s.stride, <<a, b>>) = b * m + a /\ Index(s.stride, <<x + a, y + b>>) = (y + b) * m + (x + a)
      BY <1>3 DEF Index
    <3> QED
      BY <1>0, <3>1, <3>2
  <2>4. Sample(c, w, a, b) = Read(s.data, Index(s.stride, <<x + a, y + b>>))
    BY <1>1
  <2>5. Sample(r, w, a, b) = Read(s.data, off + Index(s.stride, <<a, b>>))
    BY <1>2
  <2> QED
    BY <2>2, <2>3, <2>4, <2>5
<1> QED
  BY <1>1, <1>2, <1>4 DEF c, r

\* What a crop has, plane by plane.
CutPicture(p, w, h, x, y, q) ==
    /\ Framed(q) /\ q.w = w /\ q.h = h
    /\ \A a \in 0 .. w - 1, b \in 0 .. h - 1 : Sample(q.y, w, a, b) = Sample(p.y, p.w, x + a, y + b)
    /\ \A a \in 0 .. (w \div 2) - 1, b \in 0 .. (h \div 2) - 1 :
          /\ Sample(q.u, w \div 2, a, b) = Sample(p.u, p.w \div 2, (x \div 2) + a, (y \div 2) + b)
          /\ Sample(q.v, w \div 2, a, b) = Sample(p.v, p.w \div 2, (x \div 2) + a, (y \div 2) + b)

\* Both crops, sample by sample.
LEMMA CropPlanes ==
    ASSUME NEW p, Framed(p), NEW w, NEW h, NEW x, NEW y, Piece(w, h, x, y, p.w, p.h)
    PROVE  CutPicture(p, w, h, x, y, Crop(p, x, y, w, h)) /\ CutPicture(p, w, h, x, y, LibyuvCrop(p, x, y, w, h))
<1> DEFINE n == I420New(w, h)
           c == Crop(p, x, y, w, h)
           r == LibyuvCrop(p, x, y, w, h)
<1>0. w \in Nat /\ h \in Nat /\ x \in Nat /\ y \in Nat
  BY DEF Piece
<1>1. PlaneOK(p.y, p.w, p.h) /\ PlaneOK(p.u, p.w \div 2, p.h \div 2) /\ PlaneOK(p.v, p.w \div 2, p.h \div 2)
  BY DEF Framed
<1>2. Piece(w \div 2, h \div 2, x \div 2, y \div 2, p.w \div 2, p.h \div 2)
  BY HalfPiece, Zenon
<1>3. PlaneOK(n.y, w, h) /\ PlaneOK(n.u, w \div 2, h \div 2) /\ PlaneOK(n.v, w \div 2, h \div 2)
  BY <1>0, PlanesOfNew
<1>4. /\ c = [w |-> w, h |-> h, y |-> CutOut(n.y, w, p.y, x, y, w, h),
              u |-> CutOut(n.u, w \div 2, p.u, x \div 2, y \div 2, w \div 2, h \div 2),
              v |-> CutOut(n.v, w \div 2, p.v, x \div 2, y \div 2, w \div 2, h \div 2)]
      /\ r = [w |-> w, h |-> h, y |-> CutRows(n.y, w, p.y, y * p.w + x, w, h),
              u |-> CutRows(n.u, w \div 2, p.u, (y \div 2) * (p.w \div 2) + x \div 2, w \div 2, h \div 2),
              v |-> CutRows(n.v, w \div 2, p.v, (y \div 2) * (p.w \div 2) + x \div 2, w \div 2, h \div 2)]
  BY <1>0, CropByPlane
<1> HIDE DEF n, c, r
<1> DEFINE Cut(a, b, s, W, H, M, X, Y) ==
       /\ PlaneOK(a, W, H) /\ PlaneOK(b, W, H)
       /\ \A i \in 0 .. W - 1, j \in 0 .. H - 1 :
             Sample(a, W, i, j) = Sample(s, M, X + i, Y + j) /\ Sample(b, W, i, j) = Sample(s, M, X + i, Y + j)
<1>5. \A W, H, X, Y, M, N, s, d :
         Piece(W, H, X, Y, M, N) /\ PlaneOK(s, M, N) /\ PlaneOK(d, W, H)
           => Cut(CutOut(d, W, s, X, Y, W, H), CutRows(d, W, s, Y * M + X, W, H), s, W, H, M, X, Y)
  BY CutSample
<1> HIDE DEF Cut
<1>6. /\ Cut(c.y, r.y, p.y, w, h, p.w, x, y)
      /\ Cut(c.u, r.u, p.u, w \div 2, h \div 2, p.w \div 2, x \div 2, y \div 2)
      /\ Cut(c.v, r.v, p.v, w \div 2, h \div 2, p.w \div 2, x \div 2, y \div 2)
  <2>1. /\ c.y = CutOut(n.y, w, p.y, x, y, w, h) /\ r.y = CutRows(n.y, w, p.y, y * p.w + x, w, h)
        /\ c.u = CutOut(n.u, w \div 2, p.u, x \div 2, y \div 2, w \div 2, h \div 2)
        /\ c.v = CutOut(n.v, w \div 2, p.v, x \div 2, y \div 2, w \div 2, h \div 2)
        /\ r.u = CutRows(n.u, w \div 2, p.u, (y \div 2) * (p.w \div 2) + x \div 2, w \div 2, h \div 2)
        /\ r.v = CutRows(n.v, w \div 2, p.v, (y \div 2) * (p.w \div 2) + x \div 2, w \div 2, h \div 2)
    BY <1>4
  <2> QED
    BY <1>1, <1>2, <1>3, <1>5, <2>1, Zenon
<1>7. c = [w |-> w, h |-> h, y |-> c.y, u |-> c.u, v |-> c.v] /\ r = [w |-> w, h |-> h, y |-> r.y, u |-> r.u, v |-> r.v]
  BY <1>4
<1>8. c.w = w /\ c.h = h /\ r.w = w /\ r.h = h
  BY <1>4
<1>9. Framed(c) /\ Framed(r)
  BY <1>0, <1>6, <1>7, <1>8 DEF Framed, Cut
<1>10. CutPicture(p, w, h, x, y, c)
  BY <1>6, <1>8, <1>9, Zenon DEF CutPicture, Cut
<1>11. CutPicture(p, w, h, x, y, r)
  BY <1>6, <1>8, <1>9, Zenon DEF CutPicture, Cut
<1> QED
  BY <1>10, <1>11 DEF c, r

\* An even crop of an even picture is a view of it.
LEMMA CropView ==
    ASSUME NEW p, Framed(p), Even(p), NEW w, NEW h, NEW x, NEW y, Piece(w, h, x, y, p.w, p.h), EvenPiece(w, h, x, y),
           NEW q, q = Crop(p, x, y, w, h) \/ q = LibyuvCrop(p, x, y, w, h)
    PROVE  Framed(q) /\ q.w = w /\ q.h = h /\ Viewed(p, q)
<1> DEFINE W == w \div 2
           H == h \div 2
           M == p.w \div 2
           N == p.h \div 2
           X == x \div 2
           Y == y \div 2
<1>1. /\ p.w \in Nat /\ p.h \in Nat /\ p.w % 2 = 0 /\ p.h % 2 = 0
      /\ w \in Nat /\ h \in Nat /\ x \in Nat /\ y \in Nat /\ x + w <= p.w /\ y + h <= p.h
      /\ w % 2 = 0 /\ h % 2 = 0 /\ x % 2 = 0 /\ y % 2 = 0
  BY DEF Framed, Even, Piece, EvenPiece
<1>2. W \in Nat /\ H \in Nat /\ M \in Nat /\ N \in Nat /\ X \in Nat /\ Y \in Nat
  BY <1>1
<1>3. CutPicture(p, w, h, x, y, q)
  <2>1. Piece(w, h, x, y, p.w, p.h)
    OBVIOUS
  <2>2. CutPicture(p, w, h, x, y, Crop(p, x, y, w, h)) /\ CutPicture(p, w, h, x, y, LibyuvCrop(p, x, y, w, h))
    BY <2>1, CropPlanes
  <2> QED
    BY <2>2
<1>7. /\ Framed(q) /\ q.w = w /\ q.h = h
      /\ \A a \in 0 .. w - 1, b \in 0 .. h - 1 : Sample(q.y, w, a, b) = Sample(p.y, p.w, x + a, y + b)
      /\ \A a \in 0 .. W - 1, b \in 0 .. H - 1 :
            /\ Sample(q.u, W, a, b) = Sample(p.u, M, X + a, Y + b)
            /\ Sample(q.v, W, a, b) = Sample(p.v, M, X + a, Y + b)
  BY <1>3 DEF CutPicture
<1> HIDE DEF W, H, M, N, X, Y
<1> DEFINE f1 == MovedAxis(w, x)
           g1 == MovedAxis(W, X)
           f2 == MovedAxis(h, y)
           g2 == MovedAxis(H, Y)
<1>10. Axis(f1, g1, w, p.w) /\ Axis(f2, g2, h, p.h)
  BY <1>1, MovedIsAxis DEF W, H, X, Y
<1>11. /\ \A a \in 0 .. w - 1 : f1[a] = x + a
       /\ \A a \in 0 .. h - 1 : f2[a] = y + a
  BY <1>1, AxisMoved
<1>12. /\ \A a \in 0 .. W - 1 : g1[a] = X + a
       /\ \A a \in 0 .. H - 1 : g2[a] = Y + a
  BY <1>2, AxisMoved
<1> HIDE DEF f1, f2, g1, g2
<1>13. \A a \in 0 .. w - 1, b \in 0 .. h - 1 : Sample(q.y, w, a, b) = Sample(p.y, p.w, f1[a], f2[b])
  BY <1>7, <1>11
<1>14. \A a \in 0 .. W - 1, b \in 0 .. H - 1 :
          /\ Sample(q.u, W, a, b) = Sample(p.u, M, g1[a], g2[b])
          /\ Sample(q.v, W, a, b) = Sample(p.v, M, g1[a], g2[b])
  BY <1>7, <1>12
<1>15. q.w \div 2 = W /\ q.h \div 2 = H /\ p.w \div 2 = M
  BY <1>7 DEF W, H, M
<1>16. Viewed(p, q)
  <2>1. /\ Axis(f1, g1, q.w, p.w) /\ Axis(f2, g2, q.h, p.h)
        /\ \A a \in 0 .. q.w - 1, b \in 0 .. q.h - 1 : Sample(q.y, q.w, a, b) = Sample(p.y, p.w, f1[a], f2[b])
        /\ \A a \in 0 .. (q.w \div 2) - 1, b \in 0 .. (q.h \div 2) - 1 :
              /\ Sample(q.u, q.w \div 2, a, b) = Sample(p.u, p.w \div 2, g1[a], g2[b])
              /\ Sample(q.v, q.w \div 2, a, b) = Sample(p.v, p.w \div 2, g1[a], g2[b])
    BY <1>7, <1>10, <1>13, <1>14, <1>15
  <2> QED
    BY <1>7, <2>1, StraightView
<1> QED
  BY <1>7, <1>16

\* Every transform of either backend but scaling, of an even picture at even
\* places, shows the picture.
LEMMA EditsAreViews ==
    ASSUME NEW p, Framed(p), Even(p), backend \in {"native", "libyuv"}
    PROVE  /\ Viewed(p, Mirrored(p)) /\ Viewed(p, NV12RoundTrip(p))
           /\ \A rot \in {0, 90, 180, 270} : Viewed(p, Rotated(p, rot))
           /\ \A w, h, x, y : Piece(w, h, x, y, p.w, p.h) /\ EvenPiece(w, h, x, y)
                 => LET q == Cropped(p, x, y, w, h) IN Framed(q) /\ q.w = w /\ q.h = h /\ Viewed(p, q)
<1>1. /\ Mirrored(p) = Mirror(p) /\ NV12RoundTrip(p) = p
      /\ \A rot \in Turns : Rotated(p, rot) = Rotate(p, rot)
  BY BackendsAgree
<1>2. Viewed(p, Mirrored(p)) /\ Viewed(p, NV12RoundTrip(p))
  BY <1>1, MirrorView, SelfView
<1>3. Rotated(p, 0) = p
  BY UnturnedPicture DEF Rotated
<1>4. Viewed(p, Rotated(p, 0))
  BY <1>3, SelfView
<1>5. Viewed(p, Rotated(p, 90)) /\ Viewed(p, Rotated(p, 180)) /\ Viewed(p, Rotated(p, 270))
  <2>1. Rotated(p, 90) = Rotate(p, 90) /\ Rotated(p, 180) = Rotate(p, 180) /\ Rotated(p, 270) = Rotate(p, 270)
    BY <1>1 DEF Turns
  <2> QED
    BY <2>1, RotateView90, RotateView180, RotateView270
<1>6. ASSUME NEW w, NEW h, NEW x, NEW y, Piece(w, h, x, y, p.w, p.h), EvenPiece(w, h, x, y)
      PROVE  LET q == Cropped(p, x, y, w, h) IN Framed(q) /\ q.w = w /\ q.h = h /\ Viewed(p, q)
  <2>1. Cropped(p, x, y, w, h) = Crop(p, x, y, w, h) \/ Cropped(p, x, y, w, h) = LibyuvCrop(p, x, y, w, h)
    BY DEF Cropped
  <2> DEFINE q == Cropped(p, x, y, w, h)
  <2>3. q = Crop(p, x, y, w, h) \/ q = LibyuvCrop(p, x, y, w, h)
    BY <2>1
  <2> HIDE DEF q
  <2>2. Framed(q) /\ q.w = w /\ q.h = h /\ Viewed(p, q)
    BY <1>6, <2>3, CropView
  <2> QED
    BY <2>2 DEF q
<1> QED
  BY <1>2, <1>4, <1>5, <1>6

\* What a division gives.
LEMMA QuotientIs ==
    ASSUME NEW x \in Nat, NEW y \in Nat \ {0}, NEW q \in Nat, NEW r \in 0 .. y - 1, x = y * q + r
    PROVE  x \div y = q
<1> DEFINE p == x \div y
           s == x % y
<1>1. p \in Nat /\ s \in 0 .. y - 1 /\ x = y * p + s
  OBVIOUS
<1> HIDE DEF p, s
<1>2. ~(p < q)
  <2> SUFFICES ASSUME p < q PROVE FALSE
    OBVIOUS
  <2>1. y * (p + 1) <= y * q
    BY <1>1
  <2>2. y * (p + 1) = y * p + y /\ y * p \in Nat /\ y * q \in Nat
    BY <1>1
  <2> QED
    BY <1>1, <2>1, <2>2
<1>3. ~(q < p)
  <2> SUFFICES ASSUME q < p PROVE FALSE
    OBVIOUS
  <2>1. y * (q + 1) <= y * p
    BY <1>1
  <2>2. y * (q + 1) = y * q + y /\ y * p \in Nat /\ y * q \in Nat
    BY <1>1
  <2> QED
    BY <1>1, <2>1, <2>2
<1>4. p = q
  BY <1>1, <1>2, <1>3
<1> QED
  BY <1>4 DEF p


(***************************************************************************)
(* Scaling takes the luma of a cell and its chroma from near the same      *)
(* place.                                                                  *)
(***************************************************************************)

\* The native scaling of a plane, sample by sample.
LEMMA ThinnedSample ==
    ASSUME NEW w \in Nat, NEW h \in Nat, NEW m \in Nat, NEW n \in Nat, m # 0 \/ w = 0, n # 0 \/ h = 0,
           NEW d, NEW s, PlaneOK(d, w, h), PlaneOK(s, m, n)
    PROVE  /\ PlaneOK(Thinned(d, s, w, h, m, n), w, h)
           /\ \A a \in 0 .. w - 1, b \in 0 .. h - 1 :
                 Sample(Thinned(d, s, w, h, m, n), w, a, b) = Sample(s, m, (a * m) \div w, (b * n) \div h)
<1> DEFINE cells == Area(w, h)
           Val(c) == Read(s.data, Index(s.stride, <<(c[1] * m) \div w, (c[2] * n) \div h>>))
           v == [c \in cells |-> Val(c)]
           at == {Index(d.stride, c) : c \in cells}
           Pick(i) == CHOOSE c \in cells : Index(d.stride, c) = i
           r == Laid(d, d.stride, cells, v)
<1>1. Thinned(d, s, w, h, m, n) = [d EXCEPT !.data = [i \in DOMAIN d.data \cup at |->
                                            IF i \in at THEN Val(Pick(i)) ELSE d.data[i]]]
  BY DEF Thinned, Written
<1>2. \A i \in at : v[Pick(i)] = Val(Pick(i))
  <2>1. \A i \in at : Pick(i) \in cells
    OBVIOUS
  <2> HIDE DEF at, Pick, Val
  <2> QED
    BY <2>1
<1>3. Thinned(d, s, w, h, m, n) = r
  <2>1. [i \in DOMAIN d.data \cup at |-> IF i \in at THEN Val(Pick(i)) ELSE d.data[i]]
          = [i \in DOMAIN d.data \cup at |-> IF i \in at THEN v[Pick(i)] ELSE d.data[i]]
    <3> HIDE DEF v, at, Pick, Val
    <3> QED
      BY <1>2
  <2> HIDE DEF v, Val
  <2> QED
    BY <1>1, <2>1, Zenon DEF Written, Laid
<1>4. d.stride = w
  BY DEF PlaneOK
<1>5. \A a \in 0 .. w - 1, b \in 0 .. h - 1 : <<a, b>> \in cells
  BY DEF Area
<1>6. ASSUME NEW a \in 0 .. w - 1, NEW b \in 0 .. h - 1
      PROVE  v[<<a, b>>] = Sample(s, m, (a * m) \div w, (b * n) \div h)
  <2> DEFINE e == (a * m) \div w
             f == (b * n) \div h
  <2>1. e \in 0 .. m - 1 /\ f \in 0 .. n - 1
    <3>1. m \in Nat \ {0} /\ n \in Nat \ {0}
      OBVIOUS
    <3> QED
      BY <3>1, ScaleInside
  <2>2. v[<<a, b>>] = Read(s.data, Index(s.stride, <<e, f>>))
    BY <1>5
  <2> HIDE DEF e, f, v
  <2>3. v[<<a, b>>] = Sample(s, m, e, f)
    BY <2>1, <2>2, ReadsInside
  <2> QED
    BY <2>3 DEF e, f
<1> HIDE DEF v, Val
<1>7. PlaneOK(r, w, h) /\ \A a \in 0 .. w - 1, b \in 0 .. h - 1 : Sample(r, w, a, b) = v[<<a, b>>]
  BY <1>4, LaidWhole
<1> HIDE DEF r, cells
<1> QED
  BY <1>3, <1>6, <1>7, Zenon

\* The libyuv scaling of a plane, sample by sample.
LEMMA CentredSample ==
    ASSUME NEW w \in Nat, NEW h \in Nat, NEW m \in Nat, NEW n \in Nat, m # 0 \/ w = 0, n # 0 \/ h = 0,
           NEW d, NEW s, PlaneOK(d, w, h), PlaneOK(s, m, n)
    PROVE  /\ PlaneOK(Centred(d, s, w, h, m, n), w, h)
           /\ \A a \in 0 .. w - 1, b \in 0 .. h - 1 :
                 Sample(Centred(d, s, w, h, m, n), w, a, b) = Sample(s, m, ((2 * a + 1) * m) \div (2 * w), ((2 * b + 1) * n) \div (2 * h))
<1> DEFINE cells == Area(w, h)
           Val(c) == Read(s.data, Index(s.stride, <<((2 * c[1] + 1) * m) \div (2 * w), ((2 * c[2] + 1) * n) \div (2 * h)>>))
           v == [c \in cells |-> Val(c)]
           at == {Index(d.stride, c) : c \in cells}
           Pick(i) == CHOOSE c \in cells : Index(d.stride, c) = i
           r == Laid(d, d.stride, cells, v)
<1>1. Centred(d, s, w, h, m, n) = [d EXCEPT !.data = [i \in DOMAIN d.data \cup at |->
                                            IF i \in at THEN Val(Pick(i)) ELSE d.data[i]]]
  BY DEF Centred, Written
<1>2. \A i \in at : v[Pick(i)] = Val(Pick(i))
  <2>1. \A i \in at : Pick(i) \in cells
    OBVIOUS
  <2> HIDE DEF at, Pick, Val
  <2> QED
    BY <2>1
<1>3. Centred(d, s, w, h, m, n) = r
  <2>1. [i \in DOMAIN d.data \cup at |-> IF i \in at THEN Val(Pick(i)) ELSE d.data[i]]
          = [i \in DOMAIN d.data \cup at |-> IF i \in at THEN v[Pick(i)] ELSE d.data[i]]
    <3> HIDE DEF v, at, Pick, Val
    <3> QED
      BY <1>2
  <2> HIDE DEF v, Val
  <2> QED
    BY <1>1, <2>1, Zenon DEF Written, Laid
<1>4. d.stride = w
  BY DEF PlaneOK
<1>5. \A a \in 0 .. w - 1, b \in 0 .. h - 1 : <<a, b>> \in cells
  BY DEF Area
<1>6. ASSUME NEW a \in 0 .. w - 1, NEW b \in 0 .. h - 1
      PROVE  v[<<a, b>>] = Sample(s, m, ((2 * a + 1) * m) \div (2 * w), ((2 * b + 1) * n) \div (2 * h))
  <2> DEFINE e == ((2 * a + 1) * m) \div (2 * w)
             f == ((2 * b + 1) * n) \div (2 * h)
  <2>1. e \in 0 .. m - 1 /\ f \in 0 .. n - 1
    <3>1. m \in Nat \ {0} /\ n \in Nat \ {0}
      OBVIOUS
    <3> QED
      BY <3>1, ScaleInside
  <2>2. v[<<a, b>>] = Read(s.data, Index(s.stride, <<e, f>>))
    BY <1>5
  <2> HIDE DEF e, f, v
  <2>3. v[<<a, b>>] = Sample(s, m, e, f)
    BY <2>1, <2>2, ReadsInside
  <2> QED
    BY <2>3 DEF e, f
<1> HIDE DEF v, Val
<1>7. PlaneOK(r, w, h) /\ \A a \in 0 .. w - 1, b \in 0 .. h - 1 : Sample(r, w, a, b) = v[<<a, b>>]
  BY <1>4, LaidWhole
<1> HIDE DEF r, cells
<1> QED
  BY <1>3, <1>6, <1>7, Zenon

\* One axis of a scaling: where luma and chroma are taken from.
SampledAxis(f, g, m, w, how) ==
    /\ f \in [0 .. m - 1 -> 0 .. w - 1] /\ g \in [0 .. (m \div 2) - 1 -> 0 .. (w \div 2) - 1]
    /\ \A c \in 0 .. (m \div 2) - 1 : \E x \in {2 * g[c], 2 * g[c] + 1}, k1, k2 \in {2 * c, 2 * c + 1} :
          f[k1] <= x /\ x <= f[k2] /\ (how = "exact" => f[k1] = x /\ f[k2] = x)

FirstAxis(m, w)  == [x \in 0 .. m - 1 |-> (x * w) \div m]
MiddleAxis(m, w) == [x \in 0 .. m - 1 |-> ((2 * x + 1) * w) \div (2 * m)]

\* A quotient of the double is the double of the quotient, or one more.
LEMMA DoubleQuotient ==
    ASSUME NEW x \in Nat, NEW y \in Nat \ {0}
    PROVE  (2 * x) \div y \in {2 * (x \div y), 2 * (x \div y) + 1}
<1> DEFINE q == x \div y
           r == x % y
<1>1. q \in Nat /\ r \in 0 .. y - 1 /\ x = y * q + r
  OBVIOUS
<1> HIDE DEF q, r
<1>2. 2 * x = y * (2 * q) + 2 * r
  BY <1>1
<1>3. CASE 2 * r < y
  <2>1. (2 * x) \div y = 2 * q
    BY <1>1, <1>2, <1>3, QuotientIs
  <2> QED
    BY <2>1 DEF q
<1>4. CASE 2 * r >= y
  <2>1. 2 * x = y * (2 * q + 1) + (2 * r - y) /\ 2 * r - y \in 0 .. y - 1
    BY <1>1, <1>2, <1>4
  <2>2. (2 * x) \div y = 2 * q + 1
    BY <1>1, <2>1, QuotientIs
  <2> QED
    BY <2>2 DEF q
<1> QED
  BY <1>1, <1>3, <1>4

\* A division of more is no less.
LEMMA QuotientGrows ==
    ASSUME NEW x \in Nat, NEW z \in Nat, x <= z, NEW y \in Nat \ {0}
    PROVE  x \div y <= z \div y
<1> DEFINE p == x \div y
           q == z \div y
           r == x % y
           s == z % y
<1>1. /\ p \in Nat /\ q \in Nat /\ r \in 0 .. y - 1 /\ s \in 0 .. y - 1
      /\ x = y * p + r /\ z = y * q + s
  OBVIOUS
<1> HIDE DEF p, q, r, s
<1>2. SUFFICES ASSUME q + 1 <= p PROVE FALSE
  BY <1>1 DEF p, q
<1>3. y * (q + 1) <= y * p
  BY <1>1, <1>2
<1>4. y * (q + 1) = y * q + y /\ y * p \in Nat /\ y * q \in Nat
  BY <1>1
<1> QED
  BY <1>1, <1>3, <1>4

\* Doubling both sides of a division leaves the quotient.
LEMMA HalvedQuotient ==
    ASSUME NEW x \in Nat, NEW y \in Nat \ {0}
    PROVE  (2 * x) \div (2 * y) = x \div y
<1> DEFINE q == x \div y
           r == x % y
<1>1. q \in Nat /\ r \in 0 .. y - 1 /\ x = y * q + r
  OBVIOUS
<1> HIDE DEF q, r
<1>2. 2 * x = (2 * y) * q + 2 * r /\ 2 * r \in 0 .. 2 * y - 1
  BY <1>1
<1>3. 2 * x \in Nat /\ 2 * y \in Nat \ {0}
  OBVIOUS
<1>4. (2 * x) \div (2 * y) = q
  BY <1>1, <1>2, <1>3, QuotientIs
<1> QED
  BY <1>4 DEF q

\* The native axis takes a chroma sample from the cell of the luma sample it
\* starts with.
LEMMA FirstIsSampled ==
    ASSUME NEW m \in Nat, NEW w \in Nat, m % 2 = 0, w % 2 = 0, w # 0
    PROVE  SampledAxis(FirstAxis(m, w), FirstAxis(m \div 2, w \div 2), m, w, "exact")
<1>1. PICK n \in Nat : m \div 2 = n /\ m = 2 * n
  OBVIOUS
<1>2. PICK k \in Nat : w \div 2 = k /\ w = 2 * k
  OBVIOUS
<1>3. k \in Nat \ {0} /\ w \in Nat \ {0}
  BY <1>2
<1> DEFINE f == FirstAxis(m, w)
           g == FirstAxis(n, k)
<1>4. \A x \in 0 .. m - 1 : f[x] = (x * w) \div m /\ f[x] \in 0 .. w - 1
  BY <1>3, ScaleInside DEF FirstAxis
<1>5. \A x \in 0 .. n - 1 : g[x] = (x * k) \div n /\ g[x] \in 0 .. k - 1
  BY <1>3, ScaleInside DEF FirstAxis
<1>6. f \in [0 .. m - 1 -> 0 .. w - 1]
  <2>1. f = [x \in 0 .. m - 1 |-> f[x]]
    BY DEF FirstAxis
  <2> HIDE DEF f
  <2> QED
    BY <1>4, <2>1
<1>7. g \in [0 .. n - 1 -> 0 .. k - 1]
  <2>1. g = [x \in 0 .. n - 1 |-> g[x]]
    BY DEF FirstAxis
  <2> HIDE DEF g
  <2> QED
    BY <1>5, <2>1
<1>8. ASSUME NEW c \in 0 .. n - 1
      PROVE  2 * c \in 0 .. m - 1 /\ f[2 * c] \in {2 * g[c], 2 * g[c] + 1}
  <2>1. 2 * c \in 0 .. m - 1 /\ n \in Nat \ {0} /\ c \in Nat /\ c * k \in Nat /\ 2 * (c * k) \in Nat
    BY <1>1, <1>3
  <2>2. f[2 * c] = ((2 * c) * w) \div m
    BY <1>4, <2>1
  <2>3. (2 * c) * w = 2 * (2 * (c * k))
    BY <1>2, <2>1
  <2>4. f[2 * c] = (2 * (2 * (c * k))) \div (2 * n)
    BY <1>1, <2>2, <2>3
  <2>5. (2 * (2 * (c * k))) \div (2 * n) = (2 * (c * k)) \div n
    BY <2>1, HalvedQuotient
  <2>6. (2 * (c * k)) \div n \in {2 * ((c * k) \div n), 2 * ((c * k) \div n) + 1}
    BY <2>1, DoubleQuotient
  <2>7. g[c] = (c * k) \div n
    BY <1>5
  <2> HIDE DEF f, g
  <2> QED
    BY <2>1, <2>4, <2>5, <2>6, <2>7
<1> HIDE DEF f, g
<1>9. ASSUME NEW c \in 0 .. n - 1
      PROVE  \E x \in {2 * g[c], 2 * g[c] + 1}, k1, k2 \in {2 * c, 2 * c + 1} :
                f[k1] <= x /\ x <= f[k2] /\ ("exact" = "exact" => f[k1] = x /\ f[k2] = x)
  <2>1. f[2 * c] \in {2 * g[c], 2 * g[c] + 1} /\ f[2 * c] <= f[2 * c] /\ 2 * c \in {2 * c, 2 * c + 1}
    BY <1>4, <1>8
  <2> DEFINE x == f[2 * c]
             k0 == 2 * c
  <2>2. x \in {2 * g[c], 2 * g[c] + 1} /\ k0 \in {2 * c, 2 * c + 1} /\ f[k0] <= x /\ x <= f[k0] /\ f[k0] = x
    BY <2>1
  <2> HIDE DEF x, k0
  <2> QED
    BY <2>2
<1>10. SampledAxis(f, g, m, w, "exact")
  BY <1>1, <1>2, <1>6, <1>7, <1>9, Zenon DEF SampledAxis
<1> QED
  BY <1>1, <1>2, <1>10 DEF f, g

\* The libyuv axis takes a chroma sample from a cell with a place between those
\* its two luma samples come from.
LEMMA MiddleIsSampled ==
    ASSUME NEW m \in Nat, NEW w \in Nat, m % 2 = 0, w % 2 = 0, w # 0
    PROVE  SampledAxis(MiddleAxis(m, w), MiddleAxis(m \div 2, w \div 2), m, w, "near")
<1>1. PICK n \in Nat : m \div 2 = n /\ m = 2 * n
  OBVIOUS
<1>2. PICK k \in Nat : w \div 2 = k /\ w = 2 * k
  OBVIOUS
<1>3. k \in Nat \ {0} /\ w \in Nat \ {0}
  BY <1>2
<1> DEFINE f == MiddleAxis(m, w)
           g == MiddleAxis(n, k)
<1>4. \A x \in 0 .. m - 1 : f[x] = ((2 * x + 1) * w) \div (2 * m) /\ f[x] \in 0 .. w - 1
  BY <1>3, ScaleInside DEF MiddleAxis
<1>5. \A x \in 0 .. n - 1 : g[x] = ((2 * x + 1) * k) \div (2 * n) /\ g[x] \in 0 .. k - 1
  BY <1>3, ScaleInside DEF MiddleAxis
<1>6. f \in [0 .. m - 1 -> 0 .. w - 1]
  <2>1. f = [x \in 0 .. m - 1 |-> f[x]]
    BY DEF MiddleAxis
  <2> HIDE DEF f
  <2> QED
    BY <1>4, <2>1
<1>7. g \in [0 .. n - 1 -> 0 .. k - 1]
  <2>1. g = [x \in 0 .. n - 1 |-> g[x]]
    BY DEF MiddleAxis
  <2> HIDE DEF g
  <2> QED
    BY <1>5, <2>1
<1>8. ASSUME NEW c \in 0 .. n - 1
      PROVE  \E x \in {2 * g[c], 2 * g[c] + 1} : f[2 * c] <= x /\ x <= f[2 * c + 1]
  <2> DEFINE a == (4 * c + 1) * k
             b == (2 * c + 1) * k
             d == (4 * c + 3) * k
             y == 2 * n
  <2>1. /\ 2 * c \in 0 .. m - 1 /\ 2 * c + 1 \in 0 .. m - 1 /\ y \in Nat \ {0} /\ c \in Nat
        /\ a \in Nat /\ b \in Nat /\ d \in Nat /\ 2 * b \in Nat
    BY <1>1, <1>3
  <2>2. f[2 * c] = ((2 * (2 * c) + 1) * w) \div (2 * m) /\ f[2 * c + 1] = ((2 * (2 * c + 1) + 1) * w) \div (2 * m)
    BY <1>4, <2>1
  <2>3. (2 * (2 * c) + 1) * w = 2 * a /\ (2 * (2 * c + 1) + 1) * w = 2 * d /\ 2 * m = 2 * y
    BY <1>1, <1>2, <2>1
  <2>4. g[c] = b \div y
    BY <1>5
  <2>5. a <= 2 * b /\ 2 * b <= d
    BY <1>3, <2>1
  <2> HIDE DEF f, g, a, b, d, y
  <2>6. f[2 * c] = (2 * a) \div (2 * y) /\ f[2 * c + 1] = (2 * d) \div (2 * y)
    BY <2>2, <2>3
  <2>7. f[2 * c] = a \div y /\ f[2 * c + 1] = d \div y
    BY <2>1, <2>6, HalvedQuotient
  <2>8. (2 * b) \div y \in {2 * g[c], 2 * g[c] + 1}
    BY <2>1, <2>4, DoubleQuotient
  <2>9. a \div y <= (2 * b) \div y /\ (2 * b) \div y <= d \div y
    BY <2>1, <2>5, QuotientGrows
  <2> QED
    BY <2>7, <2>8, <2>9
<1> HIDE DEF f, g
<1>9. ASSUME NEW c \in 0 .. n - 1
      PROVE  \E x \in {2 * g[c], 2 * g[c] + 1}, k1, k2 \in {2 * c, 2 * c + 1} :
                f[k1] <= x /\ x <= f[k2] /\ ("near" = "exact" => f[k1] = x /\ f[k2] = x)
  BY <1>8
<1>10. SampledAxis(f, g, m, w, "near")
  BY <1>1, <1>2, <1>6, <1>7, <1>9, Zenon DEF SampledAxis
<1> QED
  BY <1>1, <1>2, <1>10 DEF f, g

\* Two such axes make a sampling of the picture.
LEMMA SampledByAxes ==
    ASSUME NEW p, NEW q, Framed(p), Framed(q), NEW f1, NEW g1, NEW f2, NEW g2, NEW b, NEW how,
           b # "libyuv" => how = "exact",
           SampledAxis(f1, g1, q.w, p.w, how), SampledAxis(f2, g2, q.h, p.h, how),
           \A x \in 0 .. q.w - 1, y \in 0 .. q.h - 1 : Sample(q.y, q.w, x, y) = Sample(p.y, p.w, f1[x], f2[y]),
           \A x \in 0 .. (q.w \div 2) - 1, y \in 0 .. (q.h \div 2) - 1 :
              /\ Sample(q.u, q.w \div 2, x, y) = Sample(p.u, p.w \div 2, g1[x], g2[y])
              /\ Sample(q.v, q.w \div 2, x, y) = Sample(p.v, p.w \div 2, g1[x], g2[y])
    PROVE  Sampled(p, q, b)
<1> DEFINE m == q.w
           n == q.h
           M == q.w \div 2
           N == q.h \div 2
           f == Straight(f1, f2, m, n)
           g == Straight(g1, g2, M, N)
<1>1. /\ m \in Nat /\ n \in Nat /\ M \in Nat /\ N \in Nat /\ p.w \in Nat /\ p.h \in Nat
      /\ p.w \div 2 \in Nat /\ p.h \div 2 \in Nat
  BY DEF Framed
<1>2. /\ \A x \in 0 .. m - 1 : f1[x] \in 0 .. p.w - 1
      /\ \A x \in 0 .. n - 1 : f2[x] \in 0 .. p.h - 1
      /\ \A x \in 0 .. M - 1 : g1[x] \in 0 .. (p.w \div 2) - 1
      /\ \A x \in 0 .. N - 1 : g2[x] \in 0 .. (p.h \div 2) - 1
  BY DEF SampledAxis
<1>3. Halves(q) = Area(M, N) /\ Halves(p) = Area(p.w \div 2, p.h \div 2)
  BY DEF Halves
<1>4. \A a \in Area(m, n) : /\ a[1] \in 0 .. m - 1 /\ a[2] \in 0 .. n - 1 /\ a = <<a[1], a[2]>>
                            /\ f[a] = <<f1[a[1]], f2[a[2]]>> /\ f[a][1] = f1[a[1]] /\ f[a][2] = f2[a[2]]
  BY <1>1, AreaPair DEF Straight
<1>5. \A c \in Area(M, N) : /\ c[1] \in 0 .. M - 1 /\ c[2] \in 0 .. N - 1 /\ c = <<c[1], c[2]>>
                            /\ g[c] = <<g1[c[1]], g2[c[2]]>> /\ g[c][1] = g1[c[1]] /\ g[c][2] = g2[c[2]]
  BY <1>1, AreaPair DEF Straight
<1>6. f \in [Area(m, n) -> Area(p.w, p.h)]
  <2>1. f = [a \in Area(m, n) |-> f[a]]
    BY DEF Straight
  <2>2. ASSUME NEW a \in Area(m, n) PROVE f[a] \in Area(p.w, p.h)
    <3>1. f[a] = <<f1[a[1]], f2[a[2]]>> /\ f1[a[1]] \in 0 .. p.w - 1 /\ f2[a[2]] \in 0 .. p.h - 1
      BY <1>2, <1>4
    <3> HIDE DEF f
    <3> QED
      BY <3>1 DEF Area
  <2> HIDE DEF f
  <2> QED
    BY <2>1, <2>2
<1>7. g \in [Halves(q) -> Halves(p)]
  <2>1. g = [a \in Area(M, N) |-> g[a]]
    BY DEF Straight
  <2>2. ASSUME NEW c \in Area(M, N) PROVE g[c] \in Area(p.w \div 2, p.h \div 2)
    <3>1. g[c] = <<g1[c[1]], g2[c[2]]>> /\ g1[c[1]] \in 0 .. (p.w \div 2) - 1 /\ g2[c[2]] \in 0 .. (p.h \div 2) - 1
      BY <1>2, <1>5
    <3> HIDE DEF g, M, N
    <3> QED
      BY <3>1 DEF Area
  <2> HIDE DEF g
  <2> QED
    BY <1>3, <2>1, <2>2
<1>8. \A a \in Area(m, n) : LumaAt(q, a) = LumaAt(p, f[a])
  <2> SUFFICES ASSUME NEW a \in Area(m, n) PROVE LumaAt(q, a) = LumaAt(p, f[a])
    OBVIOUS
  <2>1. f[a] \in Area(p.w, p.h)
    BY <1>6
  <2> HIDE DEF f
  <2>2. LumaAt(q, a) = Sample(q.y, m, a[1], a[2]) /\ LumaAt(p, f[a]) = Sample(p.y, p.w, f[a][1], f[a][2])
    BY <2>1, SampleAt
  <2>3. Sample(q.y, m, a[1], a[2]) = Sample(p.y, p.w, f1[a[1]], f2[a[2]])
    BY <1>4
  <2> HIDE DEF m
  <2> QED
    BY <1>4, <2>2, <2>3, Zenon
<1>9. \A c \in Halves(q) : /\ CellChroma(q, c) = CellChroma(p, g[c])
                           /\ Sample(q.v, M, c[1], c[2]) = Sample(p.v, p.w \div 2, g[c][1], g[c][2])
                           /\ Sample(q.u, M, c[1], c[2]) = Sample(p.u, p.w \div 2, g[c][1], g[c][2])
  <2> SUFFICES ASSUME NEW c \in Halves(q)
               PROVE  /\ CellChroma(q, c) = CellChroma(p, g[c])
                      /\ Sample(q.v, M, c[1], c[2]) = Sample(p.v, p.w \div 2, g[c][1], g[c][2])
                      /\ Sample(q.u, M, c[1], c[2]) = Sample(p.u, p.w \div 2, g[c][1], g[c][2])
    OBVIOUS
  <2>1. g[c] \in Halves(p) /\ c \in Area(M, N)
    BY <1>3, <1>7
  <2> HIDE DEF g
  <2>2. CellChroma(q, c) = Sample(q.u, M, c[1], c[2]) /\ CellChroma(p, g[c]) = Sample(p.u, p.w \div 2, g[c][1], g[c][2])
    BY <2>1, SampleAt
  <2>3. /\ Sample(q.u, M, c[1], c[2]) = Sample(p.u, p.w \div 2, g1[c[1]], g2[c[2]])
        /\ Sample(q.v, M, c[1], c[2]) = Sample(p.v, p.w \div 2, g1[c[1]], g2[c[2]])
    BY <1>5, <2>1
  <2>4. g[c][1] = g1[c[1]] /\ g[c][2] = g2[c[2]]
    BY <1>5, <2>1
  <2> HIDE DEF M
  <2> QED
    BY <2>2, <2>3, <2>4, Zenon
<1>10. ASSUME NEW c \in Halves(q)
       PROVE  \E x \in Block(g[c][1], g[c][2]), a1, a2 \in Block(c[1], c[2]) :
                 Between(x, f[a1], f[a2]) /\ (b # "libyuv" => f[a1] = x /\ f[a2] = x)
  <2>1. c \in Area(M, N) /\ Block(c[1], c[2]) \subseteq Area(m, n)
    BY <1>1, <1>3, CellsInside
  <2>2. PICK x \in {2 * g1[c[1]], 2 * g1[c[1]] + 1}, k1 \in {2 * c[1], 2 * c[1] + 1}, k2 \in {2 * c[1], 2 * c[1] + 1} :
            f1[k1] <= x /\ x <= f1[k2] /\ (how = "exact" => f1[k1] = x /\ f1[k2] = x)
    BY <1>5, <2>1 DEF SampledAxis
  <2>3. PICK y \in {2 * g2[c[2]], 2 * g2[c[2]] + 1}, l1 \in {2 * c[2], 2 * c[2] + 1}, l2 \in {2 * c[2], 2 * c[2] + 1} :
            f2[l1] <= y /\ y <= f2[l2] /\ (how = "exact" => f2[l1] = y /\ f2[l2] = y)
    BY <1>5, <2>1 DEF SampledAxis
  <2>4. g[c][1] = g1[c[1]] /\ g[c][2] = g2[c[2]]
    BY <1>5, <2>1
  <2>5. <<x, y>> \in Block(g[c][1], g[c][2])
    BY <2>2, <2>3, <2>4 DEF Block
  <2>6. <<k1, l1>> \in Block(c[1], c[2]) /\ <<k2, l2>> \in Block(c[1], c[2])
    BY <2>2, <2>3 DEF Block
  <2>7. f[<<k1, l1>>] = <<f1[k1], f2[l1]>> /\ f[<<k2, l2>>] = <<f1[k2], f2[l2]>>
    <3>1. <<k1, l1>> \in Area(m, n) /\ <<k2, l2>> \in Area(m, n)
      BY <2>1, <2>6
    <3> QED
      BY <3>1 DEF Straight
  <2> HIDE DEF f, g
  <2>8. Between(<<x, y>>, f[<<k1, l1>>], f[<<k2, l2>>])
    <3>1. /\ <<x, y>>[1] = x /\ <<x, y>>[2] = y
          /\ f[<<k1, l1>>][1] = f1[k1] /\ f[<<k1, l1>>][2] = f2[l1] /\ f[<<k2, l2>>][1] = f1[k2] /\ f[<<k2, l2>>][2] = f2[l2]
      BY <2>7
    <3> QED
      BY <2>2, <2>3, <3>1 DEF Between
  <2>9. b # "libyuv" => f[<<k1, l1>>] = <<x, y>> /\ f[<<k2, l2>>] = <<x, y>>
    BY <2>2, <2>3, <2>7
  <2> QED
    BY <2>5, <2>6, <2>8, <2>9, Zenon
<1>11. p.u = p.v => q.u = q.v
  <2> SUFFICES ASSUME p.u = p.v PROVE q.u = q.v
    OBVIOUS
  <2>1. PlaneOK(q.u, M, N) /\ PlaneOK(q.v, M, N)
    BY DEF Framed
  <2>2. \A c \in Area(M, N) : Sample(q.u, M, c[1], c[2]) = Sample(q.v, M, c[1], c[2])
    BY <1>3, <1>9
  <2> HIDE DEF M, N
  <2>3. ASSUME NEW x \in 0 .. M - 1, NEW y \in 0 .. N - 1 PROVE Sample(q.u, M, x, y) = Sample(q.v, M, x, y)
    <3>1. <<x, y>> \in Area(M, N) /\ <<x, y>>[1] = x /\ <<x, y>>[2] = y
      BY DEF Area
    <3> QED
      BY <2>2, <3>1
  <2> QED
    BY <1>1, <2>1, <2>3, SamePlane
<1> HIDE DEF f, g
<1>12. SampledBy(p, q, f, g, b)
  BY <1>6, <1>7, <1>8, <1>9, <1>10, <1>11, Zenon DEF SampledBy
<1> QED
  BY <1>12 DEF Sampled

\* Both ways of scaling an even picture, plane by plane.
LEMMA ScaleByPlane ==
    ASSUME NEW p, Framed(p), Even(p), NEW w \in Nat, NEW h \in Nat, w % 2 = 0, h % 2 = 0
    PROVE  LET N == I420New(w, h)
               W == w \div 2  H == h \div 2  M == p.w \div 2  K == p.h \div 2
           IN  /\ Scale(p, w, h) = [w |-> w, h |-> h, y |-> Thinned(N.y, p.y, w, h, p.w, p.h),
                                    u |-> Thinned(N.u, p.u, W, H, M, K), v |-> Thinned(N.v, p.v, W, H, M, K)]
               /\ LibyuvScale(p, w, h) = [w |-> w, h |-> h, y |-> Centred(N.y, p.y, w, h, p.w, p.h),
                                          u |-> Centred(N.u, p.u, W, H, M, K), v |-> Centred(N.v, p.v, W, H, M, K)]
<1> DEFINE N == I420New(w, h)
           m == p.w
           n == p.h
           F(w1, h1, m1, n1, w2, h2, m2, n2) ==
              [N EXCEPT !.y = Thinned(N.y, p.y, w1, h1, m1, n1),
                        !.u = Thinned(N.u, p.u, w2, h2, m2, n2), !.v = Thinned(N.v, p.v, w2, h2, m2, n2)]
           G(w1, h1, m1, n1, w2, h2, m2, n2) ==
              [N EXCEPT !.y = Centred(N.y, p.y, w1, h1, m1, n1),
                        !.u = Centred(N.u, p.u, w2, h2, m2, n2), !.v = Centred(N.v, p.v, w2, h2, m2, n2)]
<1>1. m \in Nat /\ n \in Nat /\ m % 2 = 0 /\ n % 2 = 0
  BY DEF Framed, Even
<1>2. w \div 1 = w /\ h \div 1 = h /\ m \div 1 = m /\ n \div 1 = n
  BY <1>1
<1>3. \A a, b, c : [N EXCEPT !.y = a, !.u = b, !.v = c] = [w |-> w, h |-> h, y |-> a, u |-> b, v |-> c]
  BY NewReplaced, Zenon
<1>5. Scale(p, w, h) = F(w \div 1, h \div 1, m \div 1, n \div 1, w \div 2, h \div 2, m \div 2, n \div 2)
  BY DEF Scale, Planewise, Thinned, Down, Same
<1>6. LibyuvScale(p, w, h)
        = G(Up(w, 1), Up(h, 1), Up(m, 1), Up(n, 1), Up(w, 2), Up(h, 2), Up(m, 2), Up(n, 2))
  BY DEF LibyuvScale, Planewise, Centred, Same
<1> HIDE DEF N, m, n
<1>7. Scale(p, w, h) = F(w, h, m, n, w \div 2, h \div 2, m \div 2, n \div 2)
  <2> HIDE DEF F
  <2> QED
    BY <1>2, <1>5
<1>8. LibyuvScale(p, w, h) = G(w, h, m, n, w \div 2, h \div 2, m \div 2, n \div 2)
  <2>1. /\ Up(w, 1) = w /\ Up(h, 1) = h /\ Up(m, 1) = m /\ Up(n, 1) = n
        /\ Up(w, 2) = w \div 2 /\ Up(h, 2) = h \div 2 /\ Up(m, 2) = m \div 2 /\ Up(n, 2) = n \div 2
    BY <1>1, HalvesAndWholes
  <2> HIDE DEF G
  <2> QED
    BY <1>6, <2>1
<1>9. F(w, h, m, n, w \div 2, h \div 2, m \div 2, n \div 2)
        = [w |-> w, h |-> h, y |-> Thinned(N.y, p.y, w, h, m, n),
           u |-> Thinned(N.u, p.u, w \div 2, h \div 2, m \div 2, n \div 2),
           v |-> Thinned(N.v, p.v, w \div 2, h \div 2, m \div 2, n \div 2)]
  BY <1>3, Zenon
<1>10. G(w, h, m, n, w \div 2, h \div 2, m \div 2, n \div 2)
        = [w |-> w, h |-> h, y |-> Centred(N.y, p.y, w, h, m, n),
           u |-> Centred(N.u, p.u, w \div 2, h \div 2, m \div 2, n \div 2),
           v |-> Centred(N.v, p.v, w \div 2, h \div 2, m \div 2, n \div 2)]
  BY <1>3, Zenon
<1> HIDE DEF F, G
<1> QED
  BY <1>7, <1>8, <1>9, <1>10 DEF N, m, n

\* A picture made of three planes.
LEMMA FramedOf ==
    ASSUME NEW w \in Nat, NEW h \in Nat, NEW a, NEW b, NEW c, NEW q,
           q = [w |-> w, h |-> h, y |-> a, u |-> b, v |-> c],
           PlaneOK(a, w, h), PlaneOK(b, w \div 2, h \div 2), PlaneOK(c, w \div 2, h \div 2)
    PROVE  Framed(q) /\ q.w = w /\ q.h = h /\ q.y = a /\ q.u = b /\ q.v = c
<1>1. q.w = w /\ q.h = h /\ q.y = a /\ q.u = b /\ q.v = c
  OBVIOUS
<1>2. q = [w |-> q.w, h |-> q.h, y |-> q.y, u |-> q.u, v |-> q.v]
  OBVIOUS
<1> QED
  BY <1>1, <1>2 DEF Framed

\* Planes that fit for scaling one into the other.
FitPlanes(d, s, w, h, m, n) ==
    /\ w \in Nat /\ h \in Nat /\ m \in Nat \ {0} /\ n \in Nat \ {0}
    /\ PlaneOK(d, w, h) /\ PlaneOK(s, m, n)

\* A plane whose samples are those of another, by a map on each axis.
TakenAt(q, s, w, h, m, f, g) ==
    /\ PlaneOK(q, w, h)
    /\ \A x \in 0 .. w - 1, y \in 0 .. h - 1 : Sample(q, w, x, y) = Sample(s, m, f[x], g[y])

\* Both scalings of a plane take the samples of their axes.
LEMMA ScaledSamples ==
    ASSUME NEW w, NEW h, NEW m, NEW n, NEW d, NEW s, FitPlanes(d, s, w, h, m, n)
    PROVE  /\ TakenAt(Thinned(d, s, w, h, m, n), s, w, h, m, FirstAxis(w, m), FirstAxis(h, n))
           /\ TakenAt(Centred(d, s, w, h, m, n), s, w, h, m, MiddleAxis(w, m), MiddleAxis(h, n))
<1>1. w \in Nat /\ h \in Nat /\ m \in Nat /\ n \in Nat /\ m # 0 /\ n # 0 /\ PlaneOK(d, w, h) /\ PlaneOK(s, m, n)
  BY DEF FitPlanes
<1>2. /\ PlaneOK(Thinned(d, s, w, h, m, n), w, h)
      /\ \A a \in 0 .. w - 1, b \in 0 .. h - 1 :
            Sample(Thinned(d, s, w, h, m, n), w, a, b) = Sample(s, m, (a * m) \div w, (b * n) \div h)
  BY <1>1, ThinnedSample
<1>3. /\ PlaneOK(Centred(d, s, w, h, m, n), w, h)
      /\ \A a \in 0 .. w - 1, b \in 0 .. h - 1 :
            Sample(Centred(d, s, w, h, m, n), w, a, b)
              = Sample(s, m, ((2 * a + 1) * m) \div (2 * w), ((2 * b + 1) * n) \div (2 * h))
  BY <1>1, CentredSample
<1>4. /\ \A l, k : \A x \in 0 .. l - 1 : FirstAxis(l, k)[x] = (x * k) \div l
      /\ \A l, k : \A x \in 0 .. l - 1 : MiddleAxis(l, k)[x] = ((2 * x + 1) * k) \div (2 * l)
  BY DEF FirstAxis, MiddleAxis
<1>5. ASSUME NEW x \in 0 .. w - 1, NEW y \in 0 .. h - 1
      PROVE  Sample(Thinned(d, s, w, h, m, n), w, x, y) = Sample(s, m, FirstAxis(w, m)[x], FirstAxis(h, n)[y])
  <2>1. FirstAxis(w, m)[x] = (x * m) \div w /\ FirstAxis(h, n)[y] = (y * n) \div h
    BY <1>4, Zenon
  <2> QED
    BY <1>2, <2>1, Zenon
<1>6. ASSUME NEW x \in 0 .. w - 1, NEW y \in 0 .. h - 1
      PROVE  Sample(Centred(d, s, w, h, m, n), w, x, y) = Sample(s, m, MiddleAxis(w, m)[x], MiddleAxis(h, n)[y])
  <2>1. MiddleAxis(w, m)[x] = ((2 * x + 1) * m) \div (2 * w) /\ MiddleAxis(h, n)[y] = ((2 * y + 1) * n) \div (2 * h)
    BY <1>4, Zenon
  <2> QED
    BY <1>3, <2>1, Zenon
<1> QED
  BY <1>2, <1>3, <1>5, <1>6, Zenon DEF TakenAt

\* A picture of these sides, and what a scaling makes of its three planes.
FramedAs(q, w, h) == Framed(q) /\ q.w = w /\ q.h = h
TakenPicture(q, p, w, h, f1, g1, f2, g2) ==
    \E a, b, c :
        /\ q = [w |-> w, h |-> h, y |-> a, u |-> b, v |-> c]
        /\ TakenAt(a, p.y, w, h, p.w, f1, f2)
        /\ TakenAt(b, p.u, w \div 2, h \div 2, p.w \div 2, g1, g2)
        /\ TakenAt(c, p.v, w \div 2, h \div 2, p.w \div 2, g1, g2)

\* A picture whose planes take the samples of two such axes is a sampling.
LEMMA SampledByPlanes ==
    ASSUME NEW p, Framed(p), NEW w, NEW h, w \in Nat, h \in Nat, NEW f1, NEW g1, NEW f2, NEW g2, NEW how,
           NEW q, TakenPicture(q, p, w, h, f1, g1, f2, g2),
           SampledAxis(f1, g1, w, p.w, how), SampledAxis(f2, g2, h, p.h, how)
    PROVE  /\ FramedAs(q, w, h)
           /\ \A e : (e # "libyuv" => how = "exact") => Sampled(p, q, e)
<1> DEFINE W == w \div 2
           H == h \div 2
           M == p.w \div 2
<1>0. PICK a, b, c :
         /\ q = [w |-> w, h |-> h, y |-> a, u |-> b, v |-> c]
         /\ TakenAt(a, p.y, w, h, p.w, f1, f2) /\ TakenAt(b, p.u, W, H, M, g1, g2) /\ TakenAt(c, p.v, W, H, M, g1, g2)
  BY DEF TakenPicture
<1>1. PlaneOK(a, w, h) /\ PlaneOK(b, W, H) /\ PlaneOK(c, W, H)
  BY <1>0 DEF TakenAt
<1>2. /\ Framed(q) /\ q.w = w /\ q.h = h /\ q.y = a /\ q.u = b /\ q.v = c
  BY <1>0, <1>1, FramedOf
<1>3. \A x \in 0 .. w - 1, y \in 0 .. h - 1 : Sample(q.y, w, x, y) = Sample(p.y, p.w, f1[x], f2[y])
  BY <1>0, <1>2 DEF TakenAt
<1>4. \A x \in 0 .. W - 1, y \in 0 .. H - 1 :
         /\ Sample(q.u, W, x, y) = Sample(p.u, M, g1[x], g2[y])
         /\ Sample(q.v, W, x, y) = Sample(p.v, M, g1[x], g2[y])
  BY <1>0, <1>2 DEF TakenAt
<1>5. /\ SampledAxis(f1, g1, q.w, p.w, how) /\ SampledAxis(f2, g2, q.h, p.h, how)
      /\ \A x \in 0 .. q.w - 1, y \in 0 .. q.h - 1 : Sample(q.y, q.w, x, y) = Sample(p.y, p.w, f1[x], f2[y])
      /\ \A x \in 0 .. (q.w \div 2) - 1, y \in 0 .. (q.h \div 2) - 1 :
            /\ Sample(q.u, q.w \div 2, x, y) = Sample(p.u, p.w \div 2, g1[x], g2[y])
            /\ Sample(q.v, q.w \div 2, x, y) = Sample(p.v, p.w \div 2, g1[x], g2[y])
  BY <1>2, <1>3, <1>4
<1>6. ASSUME NEW e, e # "libyuv" => how = "exact" PROVE Sampled(p, q, e)
  BY <1>2, <1>5, <1>6, SampledByAxes, Zenon
<1> QED
  BY <1>2, <1>6 DEF FramedAs

\* Scaling an even picture to an even size samples it: exactly in the native
\* backend, from in between in libyuv's.
LEMMA ScaleSamples ==
    ASSUME NEW p, Framed(p), Even(p), p.w # 0, p.h # 0, NEW w \in Nat, NEW h \in Nat, w % 2 = 0, h % 2 = 0
    PROVE  /\ Framed(Scale(p, w, h)) /\ Scale(p, w, h).w = w /\ Scale(p, w, h).h = h
           /\ \A b : Sampled(p, Scale(p, w, h), b)
           /\ Framed(LibyuvScale(p, w, h)) /\ LibyuvScale(p, w, h).w = w /\ LibyuvScale(p, w, h).h = h
           /\ Sampled(p, LibyuvScale(p, w, h), "libyuv")
<1> DEFINE N == I420New(w, h)
           W == w \div 2
           H == h \div 2
           m == p.w
           n == p.h
           M == p.w \div 2
           K == p.h \div 2
           q == Scale(p, w, h)
           r == LibyuvScale(p, w, h)
<1>1. m \in Nat /\ n \in Nat /\ m % 2 = 0 /\ n % 2 = 0 /\ PlaneOK(p.y, m, n) /\ PlaneOK(p.u, M, K) /\ PlaneOK(p.v, M, K)
  BY DEF Framed, Even
<1>2. M \in Nat /\ K \in Nat /\ W \in Nat /\ H \in Nat /\ M # 0 /\ K # 0
  BY <1>1
<1>3. PlaneOK(N.y, w, h) /\ PlaneOK(N.u, W, H) /\ PlaneOK(N.v, W, H)
  BY PlanesOfNew
<1>4. /\ q = [w |-> w, h |-> h, y |-> Thinned(N.y, p.y, w, h, m, n),
              u |-> Thinned(N.u, p.u, W, H, M, K), v |-> Thinned(N.v, p.v, W, H, M, K)]
      /\ r = [w |-> w, h |-> h, y |-> Centred(N.y, p.y, w, h, m, n),
              u |-> Centred(N.u, p.u, W, H, M, K), v |-> Centred(N.v, p.v, W, H, M, K)]
  BY ScaleByPlane
<1>5. SampledAxis(FirstAxis(w, m), FirstAxis(W, M), w, m, "exact") /\ SampledAxis(FirstAxis(h, n), FirstAxis(H, K), h, n, "exact")
  BY <1>1, FirstIsSampled
<1>6. SampledAxis(MiddleAxis(w, m), MiddleAxis(W, M), w, m, "near") /\ SampledAxis(MiddleAxis(h, n), MiddleAxis(H, K), h, n, "near")
  BY <1>1, MiddleIsSampled
<1>7. /\ FitPlanes(N.y, p.y, w, h, m, n) /\ FitPlanes(N.u, p.u, W, H, M, K) /\ FitPlanes(N.v, p.v, W, H, M, K)
  <2>1. m \in Nat \ {0} /\ n \in Nat \ {0} /\ M \in Nat \ {0} /\ K \in Nat \ {0}
    BY <1>1, <1>2
  <2> QED
    BY <1>1, <1>2, <1>3, <2>1, Zenon DEF FitPlanes
<1>8. /\ TakenAt(Thinned(N.y, p.y, w, h, m, n), p.y, w, h, m, FirstAxis(w, m), FirstAxis(h, n))
      /\ TakenAt(Centred(N.y, p.y, w, h, m, n), p.y, w, h, m, MiddleAxis(w, m), MiddleAxis(h, n))
      /\ TakenAt(Thinned(N.u, p.u, W, H, M, K), p.u, W, H, M, FirstAxis(W, M), FirstAxis(H, K))
      /\ TakenAt(Centred(N.u, p.u, W, H, M, K), p.u, W, H, M, MiddleAxis(W, M), MiddleAxis(H, K))
      /\ TakenAt(Thinned(N.v, p.v, W, H, M, K), p.v, W, H, M, FirstAxis(W, M), FirstAxis(H, K))
      /\ TakenAt(Centred(N.v, p.v, W, H, M, K), p.v, W, H, M, MiddleAxis(W, M), MiddleAxis(H, K))
  BY <1>7, ScaledSamples
<1>9. /\ TakenPicture(q, p, w, h, FirstAxis(w, m), FirstAxis(W, M), FirstAxis(h, n), FirstAxis(H, K))
      /\ TakenPicture(r, p, w, h, MiddleAxis(w, m), MiddleAxis(W, M), MiddleAxis(h, n), MiddleAxis(H, K))
  BY <1>4, <1>8, Zenon DEF TakenPicture
<1> DEFINE f1 == FirstAxis(w, m)
           g1 == FirstAxis(W, M)
           f2 == FirstAxis(h, n)
           g2 == FirstAxis(H, K)
           k1 == MiddleAxis(w, m)
           l1 == MiddleAxis(W, M)
           k2 == MiddleAxis(h, n)
           l2 == MiddleAxis(H, K)
<1>10. /\ TakenPicture(q, p, w, h, f1, g1, f2, g2) /\ TakenPicture(r, p, w, h, k1, l1, k2, l2)
       /\ SampledAxis(f1, g1, w, p.w, "exact") /\ SampledAxis(f2, g2, h, p.h, "exact")
       /\ SampledAxis(k1, l1, w, p.w, "near") /\ SampledAxis(k2, l2, h, p.h, "near")
  BY <1>5, <1>6, <1>9
<1> HIDE DEF N, W, H, m, n, M, K, q, r, f1, g1, f2, g2, k1, l1, k2, l2
<1>11. Framed(q) /\ q.w = w /\ q.h = h
  <2>1. FramedAs(q, w, h)
    BY <1>10, SampledByPlanes, Zenon
  <2> QED
    BY <2>1 DEF FramedAs
<1>12. ASSUME NEW e PROVE Sampled(p, q, e)
  <2>1. e # "libyuv" => "exact" = "exact"
    OBVIOUS
  <2> QED
    BY <1>10, <2>1, SampledByPlanes, Zenon
<1>13. Framed(r) /\ r.w = w /\ r.h = h
  <2>1. FramedAs(r, w, h)
    BY <1>10, SampledByPlanes, Zenon
  <2> QED
    BY <2>1 DEF FramedAs
<1>14. Sampled(p, r, "libyuv")
  <2>1. "libyuv" # "libyuv" => "near" = "exact"
    OBVIOUS
  <2> QED
    BY <1>10, <2>1, SampledByPlanes, Zenon
<1> QED
  BY <1>11, <1>12, <1>13, <1>14 DEF q, r

(***************************************************************************)
(* Pictures of the scene: as they are received, and those without samples. *)
(***************************************************************************)

\* No sample shows text.
NoText(p) == \A a \in Area(p.w, p.h) : LumaAt(p, a) # Text

\* A picture without text has no text on colour, nor has what shows or samples it.
LEMMA NoTextClear ==
    ASSUME NEW p, p.w \in Nat, p.h \in Nat, NoText(p)
    PROVE  TextClear(p)
<1> SUFFICES ASSUME NEW c \in Halves(p), Text \in CellLuma(p, c) PROVE FALSE
  BY DEF TextClear
<1>1. Block(c[1], c[2]) \subseteq Area(p.w, p.h)
  BY CellsInside
<1>2. CellLuma(p, c) = {LumaAt(p, a) : a \in Block(c[1], c[2])}
  BY CellLumas
<1> QED
  BY <1>1, <1>2 DEF NoText

\* A view or a sampling of a picture without text has none.
LEMMA NoTextKept ==
    ASSUME NEW p, NEW q, NoText(p)
    PROVE  Viewed(p, q) \/ (\E b : Sampled(p, q, b)) => NoText(q)
<1>1. ASSUME NEW f, f \in [Area(q.w, q.h) -> Area(p.w, p.h)],
             \A a \in Area(q.w, q.h) : LumaAt(q, a) = LumaAt(p, f[a])
      PROVE  NoText(q)
  <2>1. \A a \in Area(q.w, q.h) : f[a] \in Area(p.w, p.h)
    BY <1>1
  <2> QED
    BY <1>1, <2>1 DEF NoText
<1>2. ASSUME Viewed(p, q) PROVE NoText(q)
  <2>1. PICK f, g : ViewedBy(p, q, f, g)
    BY <1>2 DEF Viewed
  <2> QED
    BY <1>1, <2>1 DEF ViewedBy
<1>3. ASSUME NEW b, Sampled(p, q, b) PROVE NoText(q)
  <2>1. PICK f, g : SampledBy(p, q, f, g, b)
    BY <1>3 DEF Sampled
  <2> QED
    BY <1>1, <2>1 DEF SampledBy
<1> QED
  BY <1>2, <1>3

\* A picture without samples shows any scene there is of it.
LEMMA EmptyScene ==
    ASSUME NEW p, Framed(p), p.w = 0 \/ p.h = 0, NEW events
    PROVE  SceneColour(p, events) /\ NoText(p)
<1> DEFINE m == p.w \div 2
           n == p.h \div 2
<1>1. m \in Nat /\ n \in Nat /\ (m = 0 \/ n = 0) /\ p.w \in Nat /\ p.h \in Nat
  BY DEF Framed
<1>2. PlaneOK(p.u, m, n) /\ PlaneOK(p.v, m, n)
  BY DEF Framed
<1>3. Area(p.w, p.h) = {} /\ Halves(p) = Area(m, n)
  BY <1>1 DEF Area, Halves
<1> HIDE DEF m, n
<1>4. Area(m, n) = {}
  BY <1>1 DEF Area
<1>5. p.u = p.v
  <2>1. \A a \in 0 .. m - 1, b \in 0 .. n - 1 : Sample(p.u, m, a, b) = Sample(p.v, m, a, b)
    BY <1>1
  <2> QED
    BY <1>1, <1>2, <2>1, SamePlane
<1> DEFINE place == [a \in Area(p.w, p.h) |-> a]
<1>6. place \in [Area(p.w, p.h) -> Nat \X Nat] /\ Steady(place)
  BY <1>3 DEF Steady
<1> HIDE DEF place
<1>7. Shows(p, place, events)
  BY <1>3, <1>4, <1>6 DEF Shows
<1> QED
  BY <1>3, <1>5, <1>7 DEF SceneColour, NoText

\* The scene, sample by sample.
IsScene(p, w, h) ==
    /\ Framed(p) /\ p.w = w /\ p.h = h
    /\ \A a \in 0 .. w - 1, b \in 0 .. h - 1 : Sample(p.y, w, a, b) = {<<a, b>>}
    /\ \A a \in 0 .. (w \div 2) - 1, b \in 0 .. (h \div 2) - 1 :
          /\ Sample(p.u, w \div 2, a, b) = Block(a, b)
          /\ Sample(p.v, w \div 2, a, b) = Block(a, b)

\* A picture that shows each point of a scene in its place shows the scene.
LEMMA SceneIsScene ==
    ASSUME NEW p, NEW w \in Nat, NEW h \in Nat, IsScene(p, w, h), NEW events
    PROVE  SceneColour(p, events) /\ NoText(p)
<1> DEFINE place == [a \in Area(p.w, p.h) |-> a]
           m == w \div 2
           n == h \div 2
<1>1. Framed(p) /\ p.w = w /\ p.h = h /\ m \in Nat /\ n \in Nat
  BY DEF IsScene
<1>2. \A a \in Area(w, h) : a[1] \in 0 .. w - 1 /\ a[2] \in 0 .. h - 1 /\ a = <<a[1], a[2]>>
  BY AreaPair
<1>3. \A c \in Area(m, n) : c[1] \in 0 .. m - 1 /\ c[2] \in 0 .. n - 1
  <2> HIDE DEF m, n
  <2> QED
    BY <1>1, AreaPair
<1>4. \A a \in Area(w, h) : LumaAt(p, a) = {a}
  BY <1>1, <1>2, SampleAt DEF IsScene
<1>5. \A c \in Halves(p) : CellChroma(p, c) = Block(c[1], c[2])
  <2>1. Halves(p) = Area(m, n)
    BY <1>1 DEF Halves
  <2>2. \A a \in 0 .. m - 1, b \in 0 .. n - 1 : Sample(p.u, m, a, b) = Block(a, b)
    BY DEF IsScene
  <2>3. \A c \in Halves(p) : CellChroma(p, c) = Sample(p.u, m, c[1], c[2])
    BY <1>1, SampleAt
  <2> HIDE DEF m, n
  <2> QED
    BY <1>3, <2>1, <2>2, <2>3
<1>6. p.u = p.v
  <2>1. PlaneOK(p.u, m, n) /\ PlaneOK(p.v, m, n)
    BY <1>1 DEF Framed
  <2>2. \A a \in 0 .. m - 1, b \in 0 .. n - 1 : Sample(p.u, m, a, b) = Sample(p.v, m, a, b)
    BY DEF IsScene
  <2> HIDE DEF m, n
  <2> QED
    BY <1>1, <2>1, <2>2, SamePlane
<1>7. place \in [Area(p.w, p.h) -> Nat \X Nat] /\ Steady(place)
  <2>1. Area(p.w, p.h) \subseteq Nat \X Nat
    BY <1>1 DEF Area
  <2> QED
    BY <2>1 DEF Steady
<1>8. \A a \in Area(p.w, p.h) : LumaAt(p, a) = {place[a]}
  BY <1>1, <1>4
<1>9. ASSUME NEW c \in Halves(p) PROVE CellChroma(p, c) = {place[a] : a \in Block(c[1], c[2])}
  <2>1. Block(c[1], c[2]) \subseteq Area(p.w, p.h)
    BY <1>1, CellsInside
  <2>2. \A a \in Block(c[1], c[2]) : place[a] = a
    BY <2>1
  <2> DEFINE S == Block(c[1], c[2])
  <2>3. CellChroma(p, c) = S
    BY <1>5
  <2> HIDE DEF S, place
  <2>4. {place[a] : a \in S} = S
    BY <2>2 DEF S
  <2> QED
    BY <2>3, <2>4 DEF S
<1> HIDE DEF place
<1>10. Shows(p, place, events)
  BY <1>7, <1>8, <1>9 DEF Shows
<1>11. NoText(p)
  <2>1. \A x \in Text : x[1] = -4
    BY DEF Text
  <2>2. \A a \in Area(w, h) : a \notin Text
    BY <1>2, <2>1
  <2> QED
    BY <1>1, <1>4, <2>2 DEF NoText
<1> QED
  BY <1>6, <1>10, <1>11 DEF SceneColour

\* The planes of a scene: luma, chroma, and the chroma of I422 and NV12.
LumaScene(q, w, h) == PlaneOK(q, w, h) /\ \A a \in 0 .. w - 1, b \in 0 .. h - 1 : Sample(q, w, a, b) = {<<a, b>>}
CellScene(q, w, h) == PlaneOK(q, w, h) /\ \A a \in 0 .. w - 1, b \in 0 .. h - 1 : Sample(q, w, a, b) = Block(a, b)
RowScene(q, w, h) ==
    PlaneOK(q, w, h) /\ \A a \in 0 .. w - 1, b \in 0 .. h - 1 : Sample(q, w, a, b) = {a} \X {2 * b, 2 * b + 1}
PairScene(q, w, h) ==
    PlaneOK(q, w, h) /\ \A a \in 0 .. w - 1, b \in 0 .. h - 1 : Sample(q, w, a, b) = Block(a \div 2, b)

\* Column and row of an index.
LEMMA PlaceInRow ==
    ASSUME NEW w \in Nat, NEW h \in Nat, NEW a \in 0 .. w - 1, NEW b \in 0 .. h - 1
    PROVE  b * w + a \in 0 .. w * h - 1 /\ (b * w + a) % w = a /\ (b * w + a) \div w = b
<1> DEFINE i == b * w + a
           q == i \div w
           r == i % w
<1>1. i \in 0 .. w * h - 1 /\ i = b * w + a /\ w # 0
  BY IndexInside
<1> HIDE DEF i
<1>2. q \in Nat /\ r \in 0 .. w - 1 /\ q * w + r = b * w + a
  BY <1>1
<1> HIDE DEF q, r
<1>3. r = a /\ q = b
  BY <1>2, IndexInjective
<1> QED
  BY <1>1, <1>3 DEF i, q, r

\* A picture of a scene, made of its planes.
LEMMA SceneBuilt ==
    ASSUME NEW w \in Nat, NEW h \in Nat, NEW y, NEW u, NEW v,
           LumaScene(y, w, h), CellScene(u, w \div 2, h \div 2), CellScene(v, w \div 2, h \div 2)
    PROVE  IsScene([I420New(w, h) EXCEPT !.y = y, !.u = u, !.v = v], w, h)
<1> DEFINE q == [I420New(w, h) EXCEPT !.y = y, !.u = u, !.v = v]
<1>1. \A a, b, c : [I420New(w, h) EXCEPT !.y = a, !.u = b, !.v = c] = [w |-> w, h |-> h, y |-> a, u |-> b, v |-> c]
  BY NewReplaced
<1>2. q = [w |-> w, h |-> h, y |-> y, u |-> u, v |-> v]
  BY <1>1, Zenon
<1> HIDE DEF q
<1>3. PlaneOK(y, w, h) /\ PlaneOK(u, w \div 2, h \div 2) /\ PlaneOK(v, w \div 2, h \div 2)
  BY DEF LumaScene, CellScene
<1>4. Framed(q) /\ q.w = w /\ q.h = h /\ q.y = y /\ q.u = u /\ q.v = v
  BY <1>2, <1>3, FramedOf
<1>5. IsScene(q, w, h)
  BY <1>4 DEF IsScene, LumaScene, CellScene
<1> QED
  BY <1>5 DEF q

\* The luma plane of a camera's picture.
LEMMA LumaIsScene ==
    ASSUME NEW w \in Nat, NEW h \in Nat
    PROVE  /\ LumaScene(Luma(w, h), w, h) /\ DOMAIN SceneARGB(w, h) = 0 .. w * h - 1
           /\ \A a \in 0 .. w - 1, b \in 0 .. h - 1 : SceneARGB(w, h)[b * w + a] = {<<a, b>>}
<1> DEFINE data == [i \in 0 .. w * h - 1 |-> {Point(w, i)}]
<1>1. Luma(w, h) = [stride |-> w, data |-> data] /\ SceneARGB(w, h) = data
  BY DEF SceneARGB, Luma, Plane
<1>2. ASSUME NEW a \in 0 .. w - 1, NEW b \in 0 .. h - 1 PROVE data[b * w + a] = {<<a, b>>}
  <2> DEFINE i == b * w + a
  <2>1. i \in 0 .. w * h - 1 /\ i % w = a /\ i \div w = b
    BY PlaceInRow
  <2> HIDE DEF i
  <2>2. data[i] = {<<i % w, i \div w>>}
    BY <2>1 DEF Point
  <2> QED
    BY <2>1, <2>2 DEF i
<1>3. data = [i \in 0 .. w * h - 1 |-> data[i]] /\ DOMAIN data = 0 .. w * h - 1
  OBVIOUS
<1> HIDE DEF data
<1>4. Luma(w, h).stride = w /\ Luma(w, h).data = data
  BY <1>1
<1>5. PlaneOK(Luma(w, h), w, h)
  BY <1>1, <1>3, <1>4 DEF PlaneOK
<1> QED
  BY <1>1, <1>2, <1>3, <1>4, <1>5 DEF LumaScene, Sample

\* A camera's I420 picture is a scene.
LEMMA SceneI420IsScene ==
    ASSUME NEW w \in Nat, NEW h \in Nat
    PROVE  /\ IsScene(SceneI420(w, h), w, h)
           /\ LumaScene(SceneI420(w, h).y, w, h)
           /\ CellScene(SceneI420(w, h).u, w \div 2, h \div 2) /\ CellScene(SceneI420(w, h).v, w \div 2, h \div 2)
<1> DEFINE s == SceneI420(w, h)
           W == w \div 2
           H == h \div 2
           data == [i \in 0 .. W * H - 1 |-> Block(i % W, i \div W)]
           chroma == [stride |-> W, data |-> data]
           luma == Luma(w, h)
<1>1. s = [w |-> w, h |-> h, y |-> luma, u |-> chroma, v |-> chroma]
  BY DEF SceneI420, Plane
<1>2. W \in Nat /\ H \in Nat
  OBVIOUS
<1>3. CellScene(chroma, W, H)
  <2> HIDE DEF W, H
  <2>1. ASSUME NEW a \in 0 .. W - 1, NEW b \in 0 .. H - 1 PROVE data[b * W + a] = Block(a, b)
    <3> DEFINE i == b * W + a
    <3>1. i \in 0 .. W * H - 1 /\ i % W = a /\ i \div W = b
      BY <1>2, PlaceInRow
    <3> HIDE DEF i
    <3>2. data[i] = Block(i % W, i \div W)
      BY <3>1
    <3> QED
      BY <3>1, <3>2 DEF i
  <2>2. data = [i \in 0 .. W * H - 1 |-> data[i]]
    OBVIOUS
  <2> HIDE DEF data
  <2>3. chroma = [stride |-> W, data |-> data]
    OBVIOUS
  <2> HIDE DEF chroma
  <2>4. chroma.stride = W /\ chroma.data = data
    BY <2>3
  <2>5. PlaneOK(chroma, W, H)
    BY <2>2, <2>3, <2>4 DEF PlaneOK
  <2> QED
    BY <2>1, <2>4, <2>5 DEF CellScene, Sample
<1>4. LumaScene(luma, w, h)
  BY LumaIsScene
<1> HIDE DEF s, luma, chroma
<1>5. PlaneOK(luma, w, h) /\ PlaneOK(chroma, w \div 2, h \div 2)
  BY <1>3, <1>4 DEF LumaScene, CellScene
<1>6. Framed(s) /\ s.w = w /\ s.h = h /\ s.y = luma /\ s.u = chroma /\ s.v = chroma
  BY <1>1, <1>5, FramedOf
<1>7. IsScene(s, w, h)
  BY <1>3, <1>4, <1>6 DEF IsScene, LumaScene, CellScene
<1> QED
  BY <1>3, <1>4, <1>6, <1>7 DEF s

\* A copied luma plane is the same.
LEMMA CopiedScene ==
    ASSUME NEW src, src.w \in Nat, src.h \in Nat, LumaScene(src.y, src.w, src.h)
    PROVE  LumaScene(CopiedLuma(src, I420New(src.w, src.h)), src.w, src.h)
<1>1. PlaneOK(src.y, src.w, src.h)
  BY DEF LumaScene
<1>2. PlaneOK(I420New(src.w, src.h).y, src.w, src.h)
  BY PlanesOfNew
<1>3. CopiedLuma(src, I420New(src.w, src.h)) = src.y
  BY <1>1, <1>2, LumaCopied DEF CopiedLuma
<1> QED
  BY <1>3

\* I422 becomes one: a cell is the union of two rows' pairs.
LEMMA I422Scene ==
    ASSUME NEW src, src.w \in Nat, src.h \in Nat, LumaScene(src.y, src.w, src.h),
           RowScene(src.u, src.w, src.h \div 2), RowScene(src.v, src.w, src.h \div 2)
    PROVE  IsScene(I422ToI420(src), src.w, src.h)
<1> DEFINE w == src.w
           h == src.h
           n == I420New(w, h)
           cells == Area(w \div 2, h \div 2)
           Pair(p, c) == Read(p.data, c[2] * p.stride + 2 * c[1])
                           \cup Read(p.data, c[2] * p.stride + 2 * c[1] + 1)
           Chroma(d, s) == Written(d, cells, LAMBDA c : Index(d.stride, c), LAMBDA c : Pair(s, c))
<1>1. PlaneOK(n.u, w \div 2, h \div 2) /\ PlaneOK(n.v, w \div 2, h \div 2) /\ w \div 2 \in Nat /\ h \div 2 \in Nat
  BY PlanesOfNew
<1>0. w \in Nat /\ h \in Nat /\ RowScene(src.u, w, h \div 2) /\ RowScene(src.v, w, h \div 2)
  OBVIOUS
<1>2. I422ToI420(src) = [n EXCEPT !.y = CopiedLuma(src, n), !.u = Chroma(n.u, src.u), !.v = Chroma(n.v, src.v)]
  BY DEF I422ToI420, Halves
<1>3. LumaScene(CopiedLuma(src, n), w, h)
  BY CopiedScene
<1> HIDE DEF w, h
<1>4. ASSUME NEW d, NEW s, PlaneOK(d, w \div 2, h \div 2), RowScene(s, w, h \div 2)
      PROVE  CellScene(Chroma(d, s), w \div 2, h \div 2)
  <2> DEFINE v == [c \in cells |-> Pair(s, c)]
             at == {Index(d.stride, c) : c \in cells}
             Pick(i) == CHOOSE c \in cells : Index(d.stride, c) = i
             W == w \div 2
             H == h \div 2
  <2>1. \A i \in at : v[Pick(i)] = Pair(s, Pick(i))
    <3>1. \A i \in at : Pick(i) \in cells
      OBVIOUS
    <3> HIDE DEF at, Pick
    <3> QED
      BY <3>1
  <2>2. Chroma(d, s) = Laid(d, d.stride, cells, v)
    <3>1. [i \in DOMAIN d.data \cup at |-> IF i \in at THEN Pair(s, Pick(i)) ELSE d.data[i]]
            = [i \in DOMAIN d.data \cup at |-> IF i \in at THEN v[Pick(i)] ELSE d.data[i]]
      <4> HIDE DEF v, at, Pick, Pair
      <4> QED
        BY <2>1
    <3> QED
      BY <3>1, Zenon DEF Written, Laid
  <2>3. PlaneOK(s, w, H) /\ s.stride = w /\ d.stride = W /\ W \in Nat /\ H \in Nat
    BY <1>1, <1>4 DEF RowScene, PlaneOK
  <2>4. \A x \in 0 .. w - 1, y \in 0 .. H - 1 : Read(s.data, y * s.stride + x) = {x} \X {2 * y, 2 * y + 1}
    <3> SUFFICES ASSUME NEW x \in 0 .. w - 1, NEW y \in 0 .. H - 1
                 PROVE  Read(s.data, y * s.stride + x) = {x} \X {2 * y, 2 * y + 1}
      OBVIOUS
    <3>1. Sample(s, w, x, y) = {x} \X {2 * y, 2 * y + 1}
      BY <1>4 DEF RowScene
    <3>2. w \in Nat /\ H \in Nat /\ PlaneOK(s, w, H)
      BY <1>0, <2>3
    <3> HIDE DEF H
    <3>3. Read(s.data, Index(s.stride, <<x, y>>)) = Sample(s, w, x, y)
      BY <3>2, ReadsInside
    <3> QED
      BY <3>1, <3>3 DEF Index
  <2>5. ASSUME NEW a \in 0 .. W - 1, NEW b \in 0 .. H - 1 PROVE v[<<a, b>>] = Block(a, b)
    <3>1. <<a, b>> \in cells
      BY DEF Area
    <3>2. 2 * a \in 0 .. w - 1 /\ 2 * a + 1 \in 0 .. w - 1
      BY <1>0
    <3>3. b * s.stride + 2 * a + 1 = b * s.stride + (2 * a + 1)
      BY <1>0, <2>3
    <3>4. v[<<a, b>>] = Pair(s, <<a, b>>)
      BY <3>1
    <3>5. Pair(s, <<a, b>>) = Read(s.data, b * s.stride + 2 * a) \cup Read(s.data, b * s.stride + (2 * a + 1))
      BY <3>3
    <3> HIDE DEF v, Pair
    <3>6. v[<<a, b>>] = ({2 * a} \X {2 * b, 2 * b + 1}) \cup ({2 * a + 1} \X {2 * b, 2 * b + 1})
      BY <2>4, <3>2, <3>4, <3>5
    <3>7. ({2 * a} \X {2 * b, 2 * b + 1}) \cup ({2 * a + 1} \X {2 * b, 2 * b + 1}) = Block(a, b)
      BY DEF Block
    <3> QED
      BY <3>6, <3>7
  <2> DEFINE r == Laid(d, d.stride, cells, v)
  <2> HIDE DEF v
  <2>6. PlaneOK(r, W, H) /\ \A a \in 0 .. W - 1, b \in 0 .. H - 1 : Sample(r, W, a, b) = v[<<a, b>>]
    <3>1. PlaneOK(d, W, H)
      BY <1>4
    <3> HIDE DEF W, H
    <3>2. PlaneOK(Laid(d, d.stride, Area(W, H), v), W, H)
          /\ \A a \in 0 .. W - 1, b \in 0 .. H - 1 : Sample(Laid(d, d.stride, Area(W, H), v), W, a, b) = v[<<a, b>>]
      BY <2>3, <3>1, LaidWhole
    <3> QED
      BY <3>2 DEF W, H
  <2> HIDE DEF r
  <2>7. CellScene(r, W, H)
    BY <2>5, <2>6 DEF CellScene
  <2> QED
    BY <2>2, <2>7 DEF r
<1> HIDE DEF Chroma
<1>5. CellScene(Chroma(n.u, src.u), w \div 2, h \div 2) /\ CellScene(Chroma(n.v, src.v), w \div 2, h \div 2)
  BY <1>0, <1>1, <1>4
<1>6. IsScene([n EXCEPT !.y = CopiedLuma(src, n), !.u = Chroma(n.u, src.u), !.v = Chroma(n.v, src.v)], w, h)
  BY <1>0, <1>3, <1>5, SceneBuilt
<1>7. IsScene(I422ToI420(src), w, h)
  BY <1>2, <1>6, Zenon
<1> QED
  BY <1>7 DEF w, h

\* Chroma samples laid cell by cell.
LEMMA CellsLaid ==
    ASSUME NEW w \in Nat, NEW h \in Nat, NEW d, PlaneOK(d, w, h), NEW stride, stride = w, NEW v,
           \A a \in 0 .. w - 1, b \in 0 .. h - 1 : v[<<a, b>>] = Block(a, b)
    PROVE  CellScene(Laid(d, stride, Area(w, h), v), w, h)
<1> DEFINE r == Laid(d, stride, Area(w, h), v)
<1>1. PlaneOK(r, w, h) /\ \A a \in 0 .. w - 1, b \in 0 .. h - 1 : Sample(r, w, a, b) = v[<<a, b>>]
  BY LaidWhole
<1> HIDE DEF r
<1>2. CellScene(r, w, h)
  BY <1>1 DEF CellScene
<1> QED
  BY <1>2 DEF r

\* The four places of a cell, by offset.
LEMMA QuadIsBlock ==
    ASSUME NEW a \in Nat, NEW b \in Nat
    PROVE  UNION {{<<2 * a + e[1], 2 * b + e[2]>>} : e \in {0, 1} \X {0, 1}} = Block(a, b)
<1> DEFINE places == {0, 1} \X {0, 1}
           U == UNION {{<<2 * a + e[1], 2 * b + e[2]>>} : e \in places}
<1>1. ASSUME NEW x \in U PROVE x \in Block(a, b)
  <2>1. PICK e \in places : x = <<2 * a + e[1], 2 * b + e[2]>>
    OBVIOUS
  <2>2. e[1] \in {0, 1} /\ e[2] \in {0, 1}
    OBVIOUS
  <2> QED
    BY <2>1, <2>2 DEF Block
<1>2. ASSUME NEW x \in Block(a, b) PROVE x \in U
  <2>1. PICK i \in {0, 1}, j \in {0, 1} : x = <<2 * a + i, 2 * b + j>>
    BY DEF Block
  <2>2. <<i, j>> \in places /\ x = <<2 * a + <<i, j>>[1], 2 * b + <<i, j>>[2]>>
    BY <2>1
  <2> QED
    BY <2>2
<1> QED
  BY <1>1, <1>2

\* I444 becomes one: a cell is the union of four samples.
LEMMA I444Scene ==
    ASSUME NEW src, src.w \in Nat, src.h \in Nat, LumaScene(src.y, src.w, src.h),
           LumaScene(src.u, src.w, src.h), LumaScene(src.v, src.w, src.h)
    PROVE  IsScene(I444ToI420(src), src.w, src.h)
<1> DEFINE w == src.w
           h == src.h
           n == I420New(w, h)
           cells == Area(w \div 2, h \div 2)
           Quad(p, c) == UNION {Read(p.data, (2 * c[2] + d[2]) * p.stride + 2 * c[1] + d[1]) :
                                  d \in {0, 1} \X {0, 1}}
           Chroma(d, s) == Written(d, cells, LAMBDA c : Index(d.stride, c), LAMBDA c : Quad(s, c))
<1>1. PlaneOK(n.u, w \div 2, h \div 2) /\ PlaneOK(n.v, w \div 2, h \div 2) /\ w \div 2 \in Nat /\ h \div 2 \in Nat
  BY PlanesOfNew
<1>0. w \in Nat /\ h \in Nat /\ LumaScene(src.u, w, h) /\ LumaScene(src.v, w, h)
  OBVIOUS
<1>2. I444ToI420(src) = [n EXCEPT !.y = CopiedLuma(src, n), !.u = Chroma(n.u, src.u), !.v = Chroma(n.v, src.v)]
  BY DEF I444ToI420, Halves
<1>3. LumaScene(CopiedLuma(src, n), w, h)
  BY CopiedScene
<1> HIDE DEF w, h
<1>4. ASSUME NEW d, NEW s, PlaneOK(d, w \div 2, h \div 2), LumaScene(s, w, h)
      PROVE  CellScene(Chroma(d, s), w \div 2, h \div 2)
  <2> DEFINE v == [c \in cells |-> Quad(s, c)]
             at == {Index(d.stride, c) : c \in cells}
             Pick(i) == CHOOSE c \in cells : Index(d.stride, c) = i
             W == w \div 2
             H == h \div 2
  <2>1. \A i \in at : v[Pick(i)] = Quad(s, Pick(i))
    <3>1. \A i \in at : Pick(i) \in cells
      OBVIOUS
    <3> HIDE DEF at, Pick
    <3> QED
      BY <3>1
  <2>2. Chroma(d, s) = Laid(d, d.stride, cells, v)
    <3>1. [i \in DOMAIN d.data \cup at |-> IF i \in at THEN Quad(s, Pick(i)) ELSE d.data[i]]
            = [i \in DOMAIN d.data \cup at |-> IF i \in at THEN v[Pick(i)] ELSE d.data[i]]
      <4> HIDE DEF v, at, Pick, Quad
      <4> QED
        BY <2>1
    <3> QED
      BY <3>1, Zenon DEF Written, Laid
  <2>3. PlaneOK(s, w, h) /\ s.stride = w /\ d.stride = W /\ W \in Nat /\ H \in Nat
    BY <1>1, <1>4 DEF LumaScene, PlaneOK
  <2>4. ASSUME NEW x \in 0 .. w - 1, NEW y \in 0 .. h - 1 PROVE Read(s.data, y * s.stride + x) = {<<x, y>>}
    <3>1. Sample(s, w, x, y) = {<<x, y>>}
      BY <1>4 DEF LumaScene
    <3>2. Read(s.data, Index(s.stride, <<x, y>>)) = Sample(s, w, x, y)
      BY <1>0, <2>3, ReadsInside
    <3> QED
      BY <3>1, <3>2 DEF Index
  <2>5. ASSUME NEW a \in 0 .. W - 1, NEW b \in 0 .. H - 1 PROVE v[<<a, b>>] = Block(a, b)
    <3> DEFINE R(e) == Read(s.data, (2 * b + e[2]) * s.stride + 2 * a + e[1])
    <3>1. <<a, b>> \in cells
      BY DEF Area
    <3>2. v[<<a, b>>] = UNION {R(e) : e \in {0, 1} \X {0, 1}}
      BY <3>1
    <3>3. ASSUME NEW e \in {0, 1} \X {0, 1} PROVE R(e) = {<<2 * a + e[1], 2 * b + e[2]>>}
      <4>1. e[1] \in {0, 1} /\ e[2] \in {0, 1}
        OBVIOUS
      <4>2. 2 * a + e[1] \in 0 .. w - 1 /\ 2 * b + e[2] \in 0 .. h - 1
        BY <1>0, <4>1
      <4>3. (2 * b + e[2]) * s.stride + 2 * a + e[1] = (2 * b + e[2]) * s.stride + (2 * a + e[1])
        BY <1>0, <2>3, <4>1
      <4> QED
        BY <2>4, <4>2, <4>3
    <3> HIDE DEF v, R
    <3>4. {R(e) : e \in {0, 1} \X {0, 1}} = {{<<2 * a + e[1], 2 * b + e[2]>>} : e \in {0, 1} \X {0, 1}}
      BY <3>3
    <3>5. UNION {{<<2 * a + e[1], 2 * b + e[2]>>} : e \in {0, 1} \X {0, 1}} = Block(a, b)
      BY <2>3, QuadIsBlock
    <3> QED
      BY <3>2, <3>4, <3>5
  <2> HIDE DEF v
  <2>6. PlaneOK(d, W, H)
    BY <1>4
  <2>7. CellScene(Laid(d, d.stride, cells, v), W, H)
    <3>1. cells = Area(W, H)
      OBVIOUS
    <3> HIDE DEF W, H, cells
    <3> QED
      BY <2>3, <2>5, <2>6, <3>1, CellsLaid
  <2> QED
    BY <2>2, <2>7
<1> HIDE DEF Chroma
<1>5. CellScene(Chroma(n.u, src.u), w \div 2, h \div 2) /\ CellScene(Chroma(n.v, src.v), w \div 2, h \div 2)
  BY <1>0, <1>1, <1>4
<1>6. IsScene([n EXCEPT !.y = CopiedLuma(src, n), !.u = Chroma(n.u, src.u), !.v = Chroma(n.v, src.v)], w, h)
  BY <1>0, <1>3, <1>5, SceneBuilt
<1>7. IsScene(I444ToI420(src), w, h)
  BY <1>2, <1>6, Zenon
<1> QED
  BY <1>7 DEF w, h

\* An NV12 buffer becomes one: U and V are taken apart.
LEMMA NV12BufferScene ==
    ASSUME NEW src, src.w \in Nat, src.h \in Nat, LumaScene(src.y, src.w, src.h),
           PairScene(src.uv, src.w, src.h \div 2)
    PROVE  IsScene(NV12BufferToI420(src), src.w, src.h)
<1> DEFINE w == src.w
           h == src.h
           n == I420New(w, h)
           cells == Area(w \div 2, h \div 2)
           Chroma(d, k) == Written(d, cells, LAMBDA c : Index(n.u.stride, c),
                                   LAMBDA c : Read(src.uv.data, c[2] * src.uv.stride + 2 * c[1] + k))
<1>1. PlaneOK(n.u, w \div 2, h \div 2) /\ PlaneOK(n.v, w \div 2, h \div 2) /\ w \div 2 \in Nat /\ h \div 2 \in Nat
  BY PlanesOfNew
<1>0. w \in Nat /\ h \in Nat /\ PairScene(src.uv, w, h \div 2)
  OBVIOUS
<1>2. NV12BufferToI420(src) = [n EXCEPT !.y = CopiedLuma(src, n), !.u = Chroma(n.u, 0), !.v = Chroma(n.v, 1)]
  BY DEF NV12BufferToI420, Halves
<1>3. LumaScene(CopiedLuma(src, n), w, h)
  BY CopiedScene
<1> HIDE DEF w, h, n
<1>4. ASSUME NEW d, PlaneOK(d, w \div 2, h \div 2), NEW k \in {0, 1}
      PROVE  CellScene(Chroma(d, k), w \div 2, h \div 2)
  <2> DEFINE Val(c) == Read(src.uv.data, c[2] * src.uv.stride + 2 * c[1] + k)
             v == [c \in cells |-> Val(c)]
             at == {Index(n.u.stride, c) : c \in cells}
             Pick(i) == CHOOSE c \in cells : Index(n.u.stride, c) = i
             W == w \div 2
             H == h \div 2
  <2>1. \A i \in at : v[Pick(i)] = Val(Pick(i))
    <3>1. \A i \in at : Pick(i) \in cells
      OBVIOUS
    <3> HIDE DEF at, Pick
    <3> QED
      BY <3>1
  <2>2. Chroma(d, k) = Laid(d, n.u.stride, cells, v)
    <3>1. [i \in DOMAIN d.data \cup at |-> IF i \in at THEN Val(Pick(i)) ELSE d.data[i]]
            = [i \in DOMAIN d.data \cup at |-> IF i \in at THEN v[Pick(i)] ELSE d.data[i]]
      <4> HIDE DEF v, at, Pick, Val
      <4> QED
        BY <2>1
    <3> QED
      BY <3>1, Zenon DEF Written, Laid
  <2>3. PlaneOK(src.uv, w, H) /\ src.uv.stride = w /\ n.u.stride = W /\ W \in Nat /\ H \in Nat
    BY <1>0, <1>1 DEF PairScene, PlaneOK
  <2>4. ASSUME NEW x \in 0 .. w - 1, NEW y \in 0 .. H - 1 PROVE Read(src.uv.data, y * src.uv.stride + x) = Block(x \div 2, y)
    <3>1. Sample(src.uv, w, x, y) = Block(x \div 2, y)
      BY <1>0 DEF PairScene
    <3>2. w \in Nat /\ H \in Nat /\ PlaneOK(src.uv, w, H)
      BY <1>0, <2>3
    <3> HIDE DEF H
    <3>3. Read(src.uv.data, Index(src.uv.stride, <<x, y>>)) = Sample(src.uv, w, x, y)
      BY <3>2, ReadsInside
    <3> QED
      BY <3>1, <3>3 DEF Index
  <2>5. ASSUME NEW a \in 0 .. W - 1, NEW b \in 0 .. H - 1 PROVE v[<<a, b>>] = Block(a, b)
    <3>1. <<a, b>> \in cells
      BY DEF Area
    <3>2. v[<<a, b>>] = Read(src.uv.data, b * src.uv.stride + 2 * a + k)
      BY <3>1
    <3>3. 2 * a + k \in 0 .. w - 1 /\ (2 * a + k) \div 2 = a
      BY <1>0
    <3>4. b * src.uv.stride + 2 * a + k = b * src.uv.stride + (2 * a + k)
      BY <1>0, <2>3
    <3> HIDE DEF v
    <3> QED
      BY <2>4, <3>2, <3>3, <3>4
  <2> HIDE DEF v
  <2>6. PlaneOK(d, W, H)
    BY <1>4
  <2>7. CellScene(Laid(d, n.u.stride, cells, v), W, H)
    <3>1. cells = Area(W, H)
      OBVIOUS
    <3> HIDE DEF W, H, cells
    <3> QED
      BY <2>3, <2>5, <2>6, <3>1, CellsLaid
  <2> QED
    BY <2>2, <2>7
<1> HIDE DEF Chroma
<1>5. CellScene(Chroma(n.u, 0), w \div 2, h \div 2) /\ CellScene(Chroma(n.v, 1), w \div 2, h \div 2)
  BY <1>1, <1>4
<1>6. IsScene([n EXCEPT !.y = CopiedLuma(src, n), !.u = Chroma(n.u, 0), !.v = Chroma(n.v, 1)], w, h)
  BY <1>0, <1>3, <1>5, SceneBuilt DEF n
<1>7. IsScene(NV12BufferToI420(src), w, h)
  BY <1>2, <1>6, Zenon
<1> QED
  BY <1>7 DEF w, h

\* A ten bit picture becomes one: chroma is walked as one row.
LEMMA I010Scene ==
    ASSUME NEW w \in Nat, NEW h \in Nat
    PROVE  IsScene(I010ToI420(SceneI420(w, h)), w, h)
<1> DEFINE s == SceneI420(w, h)
           n == I420New(w, h)
           W == w \div 2
           H == h \div 2
           Narrow(d, q) == Written(d, 0 .. W * H - 1, LAMBDA i : i, LAMBDA i : Read(q.data, i))
<1>1. /\ LumaScene(s.y, w, h) /\ CellScene(s.u, W, H) /\ CellScene(s.v, W, H)
      /\ s.w = w /\ s.h = h
  BY SceneI420IsScene DEF IsScene
<1>2. PlaneOK(n.u, W, H) /\ PlaneOK(n.v, W, H) /\ W \in Nat /\ H \in Nat
  BY PlanesOfNew
<1> HIDE DEF s
<1>3. LumaScene(CopiedLuma(s, n), w, h)
  BY <1>1, CopiedScene
<1>4. I010ToI420(s) = [n EXCEPT !.y = CopiedLuma(s, n), !.u = Narrow(n.u, s.u), !.v = Narrow(n.v, s.v)]
  BY <1>1 DEF I010ToI420
<1>5. Narrow(n.u, s.u) = s.u /\ Narrow(n.v, s.v) = s.v
  <2>1. PlaneOK(s.u, W, H) /\ PlaneOK(s.v, W, H)
    BY <1>1 DEF CellScene
  <2> HIDE DEF W, H, n
  <2> QED
    BY <1>2, <2>1, LumaCopied
<1> HIDE DEF Narrow
<1>6. IsScene([n EXCEPT !.y = CopiedLuma(s, n), !.u = Narrow(n.u, s.u), !.v = Narrow(n.v, s.v)], w, h)
  BY <1>1, <1>3, <1>5, SceneBuilt
<1>7. IsScene(I010ToI420(s), w, h)
  BY <1>4, <1>6, Zenon
<1> QED
  BY <1>7 DEF s

\* Packed pixels of the scene.
PixelScene(argb, w, h) ==
    DOMAIN argb = 0 .. w * h - 1 /\ \A a \in 0 .. w - 1, b \in 0 .. h - 1 : argb[b * w + a] = {<<a, b>>}

\* Packed pixels laid in a luma plane.
Unpacked(d, stride, argb, w, h) ==
    Written(d, Area(w, h), LAMBDA c : Index(stride, c), LAMBDA c : Read(argb, Index(w, c)))

\* Packed pixels give the luma of the scene.
LEMMA PixelLuma ==
    ASSUME NEW w \in Nat, NEW h \in Nat, NEW d, PlaneOK(d, w, h), NEW stride, stride = w, NEW argb, PixelScene(argb, w, h)
    PROVE  LumaScene(Unpacked(d, stride, argb, w, h), w, h)
<1> DEFINE cells == Area(w, h)
           Val(c) == Read(argb, Index(w, c))
           v == [c \in cells |-> Val(c)]
           at == {Index(stride, c) : c \in cells}
           Pick(i) == CHOOSE c \in cells : Index(stride, c) = i
           lum == Unpacked(d, stride, argb, w, h)
           r == Laid(d, stride, cells, v)
<1>1. \A i \in at : v[Pick(i)] = Val(Pick(i))
  <2>1. \A i \in at : Pick(i) \in cells
    OBVIOUS
  <2> HIDE DEF at, Pick
  <2> QED
    BY <2>1
<1>2. lum = r
  <2>1. [i \in DOMAIN d.data \cup at |-> IF i \in at THEN Val(Pick(i)) ELSE d.data[i]]
          = [i \in DOMAIN d.data \cup at |-> IF i \in at THEN v[Pick(i)] ELSE d.data[i]]
    <3> HIDE DEF v, at, Pick, Val
    <3> QED
      BY <1>1
  <2> QED
    BY <2>1, Zenon DEF Written, Laid, Unpacked
<1>3. ASSUME NEW a \in 0 .. w - 1, NEW b \in 0 .. h - 1 PROVE v[<<a, b>>] = {<<a, b>>}
  <2>1. <<a, b>> \in cells
    BY DEF Area
  <2>2. v[<<a, b>>] = Read(argb, b * w + a)
    BY <2>1 DEF Index
  <2>3. b * w + a \in 0 .. w * h - 1
    BY IndexInside
  <2>4. Read(argb, b * w + a) = {<<a, b>>}
    BY <2>3 DEF Read, PixelScene
  <2> QED
    BY <2>2, <2>4
<1> HIDE DEF v
<1>4. PlaneOK(r, w, h) /\ \A a \in 0 .. w - 1, b \in 0 .. h - 1 : Sample(r, w, a, b) = v[<<a, b>>]
  BY LaidWhole
<1> HIDE DEF r
<1>5. LumaScene(r, w, h)
  BY <1>3, <1>4 DEF LumaScene
<1> HIDE DEF lum
<1>6. LumaScene(lum, w, h)
  BY <1>2, <1>5
<1> QED
  BY <1>6 DEF lum

\* The native conversion of packed pixels gives a scene.
LEMMA ARGBScene ==
    ASSUME NEW w \in Nat, NEW h \in Nat, w % 2 = 0, h % 2 = 0, NEW argb, PixelScene(argb, w, h)
    PROVE  IsScene(ARGBToI420(argb, w, h), w, h)
<1> DEFINE n == I420New(w, h)
           W == w \div 2
           H == h \div 2
           cells == Area(W, H)
           Quad(c) == UNION {Read(argb, (2 * c[2] + e[2]) * w + 2 * c[1] + e[1]) : e \in {0, 1} \X {0, 1}}
           Lum(d) == Unpacked(d, n.y.stride, argb, w, h)
           Chroma(d) == Written(d, cells, LAMBDA c : Index(n.u.stride, c), Quad)
<1>1. /\ PlaneOK(n.y, w, h) /\ PlaneOK(n.u, W, H) /\ PlaneOK(n.v, W, H) /\ W \in Nat /\ H \in Nat
      /\ 2 * W = w /\ 2 * H = h
  <2>1. W \in Nat /\ H \in Nat /\ 2 * W = w /\ 2 * H = h
    OBVIOUS
  <2>2. PlaneOK(n.y, w, h) /\ PlaneOK(n.u, W, H) /\ PlaneOK(n.v, W, H)
    BY PlanesOfNew
  <2> QED
    BY <2>1, <2>2
<1>2. ARGBToI420(argb, w, h) = [n EXCEPT !.y = Lum(n.y), !.u = Chroma(n.u), !.v = Chroma(n.v)]
  BY <1>1 DEF ARGBToI420, Unpacked
<1> HIDE DEF n
<1>3. n.y.stride = w /\ n.u.stride = W
  BY <1>1, StrideIs, Zenon
<1>4. LumaScene(Lum(n.y), w, h)
  BY <1>1, <1>3, PixelLuma
<1>5. ASSUME NEW d, PlaneOK(d, W, H) PROVE CellScene(Chroma(d), W, H)
  <2> DEFINE v == [c \in cells |-> Quad(c)]
             at == {Index(n.u.stride, c) : c \in cells}
             Pick(i) == CHOOSE c \in cells : Index(n.u.stride, c) = i
  <2>1. \A i \in at : v[Pick(i)] = Quad(Pick(i))
    <3>1. \A i \in at : Pick(i) \in cells
      OBVIOUS
    <3> HIDE DEF at, Pick
    <3> QED
      BY <3>1
  <2>2. Chroma(d) = Laid(d, n.u.stride, cells, v)
    <3>1. [i \in DOMAIN d.data \cup at |-> IF i \in at THEN Quad(Pick(i)) ELSE d.data[i]]
            = [i \in DOMAIN d.data \cup at |-> IF i \in at THEN v[Pick(i)] ELSE d.data[i]]
      <4> HIDE DEF v, at, Pick, Quad
      <4> QED
        BY <2>1
    <3> QED
      BY <3>1, Zenon DEF Written, Laid
  <2>3. ASSUME NEW x \in 0 .. w - 1, NEW y \in 0 .. h - 1 PROVE Read(argb, y * w + x) = {<<x, y>>}
    <3>1. y * w + x \in 0 .. w * h - 1
      BY IndexInside
    <3> QED
      BY <3>1 DEF Read, PixelScene
  <2>4. ASSUME NEW a \in 0 .. W - 1, NEW b \in 0 .. H - 1 PROVE v[<<a, b>>] = Block(a, b)
    <3> DEFINE R(e) == Read(argb, (2 * b + e[2]) * w + 2 * a + e[1])
    <3>1. <<a, b>> \in cells
      BY DEF Area
    <3>2. v[<<a, b>>] = UNION {R(e) : e \in {0, 1} \X {0, 1}}
      BY <3>1
    <3>3. ASSUME NEW e \in {0, 1} \X {0, 1} PROVE R(e) = {<<2 * a + e[1], 2 * b + e[2]>>}
      <4>1. e[1] \in {0, 1} /\ e[2] \in {0, 1}
        OBVIOUS
      <4>2. 2 * a + e[1] \in 0 .. w - 1 /\ 2 * b + e[2] \in 0 .. h - 1
        BY <1>1, <4>1
      <4>3. (2 * b + e[2]) * w + 2 * a + e[1] = (2 * b + e[2]) * w + (2 * a + e[1])
        BY <1>1, <4>1
      <4> QED
        BY <2>3, <4>2, <4>3
    <3> HIDE DEF v, R
    <3>4. {R(e) : e \in {0, 1} \X {0, 1}} = {{<<2 * a + e[1], 2 * b + e[2]>>} : e \in {0, 1} \X {0, 1}}
      BY <3>3
    <3>5. UNION {{<<2 * a + e[1], 2 * b + e[2]>>} : e \in {0, 1} \X {0, 1}} = Block(a, b)
      BY <1>1, QuadIsBlock
    <3> QED
      BY <3>2, <3>4, <3>5
  <2> HIDE DEF v
  <2>5. CellScene(Laid(d, n.u.stride, cells, v), W, H)
    <3> HIDE DEF W, H
    <3> QED
      BY <1>1, <1>3, <1>5, <2>4, CellsLaid
  <2> QED
    BY <2>2, <2>5
<1> HIDE DEF Chroma, Lum
<1>6. CellScene(Chroma(n.u), w \div 2, h \div 2) /\ CellScene(Chroma(n.v), w \div 2, h \div 2)
  BY <1>1, <1>5
<1>7. IsScene([n EXCEPT !.y = Lum(n.y), !.u = Chroma(n.u), !.v = Chroma(n.v)], w, h)
  BY <1>4, <1>6, SceneBuilt DEF n
<1> QED
  BY <1>2, <1>7, Zenon

\* So does libyuv's.
LEMMA LibyuvARGBScene ==
    ASSUME NEW w \in Nat, NEW h \in Nat, w % 2 = 0, h % 2 = 0, NEW argb, PixelScene(argb, w, h)
    PROVE  IsScene(LibyuvARGBToI420(argb, w, h), w, h)
<1> DEFINE n == I420New(w, h)
           W == w \div 2
           H == h \div 2
           cells == Area(W, H)
           Quad(c) == UNION {argb[Index(w, p)] : p \in Block(c[1], c[2]) \cap Area(w, h)}
           Lum(d) == Unpacked(d, n.y.stride, argb, w, h)
           Chroma(d) == Written(d, cells, LAMBDA c : Index(d.stride, c), Quad)
<1>1. /\ PlaneOK(n.y, w, h) /\ PlaneOK(n.u, W, H) /\ PlaneOK(n.v, W, H) /\ W \in Nat /\ H \in Nat
      /\ 2 * W = w /\ 2 * H = h
  <2>1. W \in Nat /\ H \in Nat /\ 2 * W = w /\ 2 * H = h
    OBVIOUS
  <2>2. PlaneOK(n.y, w, h) /\ PlaneOK(n.u, W, H) /\ PlaneOK(n.v, W, H)
    BY PlanesOfNew
  <2> QED
    BY <2>1, <2>2
<1>2. LibyuvARGBToI420(argb, w, h) = [n EXCEPT !.y = Lum(n.y), !.u = Chroma(n.u), !.v = Chroma(n.v)]
  <2>1. Up(w, 2) = W /\ Up(h, 2) = H
    BY HalvesAndWholes
  <2> QED
    BY <2>1 DEF LibyuvARGBToI420, Unpacked
<1> HIDE DEF n
<1>3. n.y.stride = w
  BY <1>1, StrideIs, Zenon
<1>4. LumaScene(Lum(n.y), w, h)
  BY <1>1, <1>3, PixelLuma
<1>5. ASSUME NEW d, PlaneOK(d, W, H) PROVE CellScene(Chroma(d), W, H)
  <2> DEFINE v == [c \in cells |-> Quad(c)]
             at == {Index(d.stride, c) : c \in cells}
             Pick(i) == CHOOSE c \in cells : Index(d.stride, c) = i
  <2>1. \A i \in at : v[Pick(i)] = Quad(Pick(i))
    <3>1. \A i \in at : Pick(i) \in cells
      OBVIOUS
    <3> HIDE DEF at, Pick
    <3> QED
      BY <3>1
  <2>2. Chroma(d) = Laid(d, d.stride, cells, v)
    <3>1. [i \in DOMAIN d.data \cup at |-> IF i \in at THEN Quad(Pick(i)) ELSE d.data[i]]
            = [i \in DOMAIN d.data \cup at |-> IF i \in at THEN v[Pick(i)] ELSE d.data[i]]
      <4> HIDE DEF v, at, Pick, Quad
      <4> QED
        BY <2>1
    <3> QED
      BY <3>1, Zenon DEF Written, Laid
  <2>3. ASSUME NEW a \in 0 .. W - 1, NEW b \in 0 .. H - 1 PROVE v[<<a, b>>] = Block(a, b)
    <3> DEFINE B == Block(a, b)
    <3>1. <<a, b>> \in cells
      BY DEF Area
    <3>2. v[<<a, b>>] = UNION {argb[Index(w, p)] : p \in B \cap Area(w, h)}
      BY <3>1
    <3>3. B \subseteq Area(w, h)
      <4>1. 2 * a \in 0 .. w - 1 /\ 2 * a + 1 \in 0 .. w - 1 /\ 2 * b \in 0 .. h - 1 /\ 2 * b + 1 \in 0 .. h - 1
        BY <1>1
      <4> QED
        BY <4>1 DEF Block, Area
    <3>4. ASSUME NEW p \in B PROVE argb[Index(w, p)] = {p}
      <4>1. p[1] \in 0 .. w - 1 /\ p[2] \in 0 .. h - 1 /\ p = <<p[1], p[2]>>
        BY <3>3, AreaPair
      <4>2. Index(w, p) = p[2] * w + p[1]
        BY DEF Index
      <4> QED
        BY <4>1, <4>2 DEF PixelScene
    <3> HIDE DEF v, B
    <3>5. {argb[Index(w, p)] : p \in B \cap Area(w, h)} = {{p} : p \in B}
      BY <3>3, <3>4
    <3>6. UNION {{p} : p \in B} = B
      OBVIOUS
    <3> QED
      BY <3>2, <3>5, <3>6 DEF B
  <2> HIDE DEF v
  <2>4. CellScene(Laid(d, d.stride, cells, v), W, H)
    <3>1. d.stride = W
      BY <1>5 DEF PlaneOK
    <3> HIDE DEF W, H
    <3> QED
      BY <1>1, <1>5, <2>3, <3>1, CellsLaid
  <2> QED
    BY <2>2, <2>4
<1> HIDE DEF Chroma, Lum
<1>6. CellScene(Chroma(n.u), w \div 2, h \div 2) /\ CellScene(Chroma(n.v), w \div 2, h \div 2)
  BY <1>1, <1>5
<1>7. IsScene([n EXCEPT !.y = Lum(n.y), !.u = Chroma(n.u), !.v = Chroma(n.v)], w, h)
  BY <1>4, <1>6, SceneBuilt DEF n
<1> QED
  BY <1>2, <1>7, Zenon

\* Whatever the format, of an even size the picture received is the scene.
LEMMA ConvertedScene ==
    ASSUME NEW fmt \in Formats, NEW w \in Nat, NEW h \in Nat, w % 2 = 0, h % 2 = 0
    PROVE  IsScene(Converted(fmt, w, h), w, h)
<1>0. LumaScene(Luma(w, h), w, h) /\ PixelScene(SceneARGB(w, h), w, h)
  BY LumaIsScene DEF PixelScene
<1> DEFINE H == h \div 2
<1>h. H \in Nat
  OBVIOUS
<1>1. CASE fmt = "I420"
  BY <1>1, SceneI420IsScene DEF Converted
<1>2. CASE fmt = "I422"
  <2> DEFINE s == SceneI422(w, h)
             data == [i \in 0 .. w * H - 1 |-> {i % w} \X {2 * (i \div w), 2 * (i \div w) + 1}]
             chroma == [stride |-> w, data |-> data]
  <2>1. s.w = w /\ s.h = h /\ s.y = Luma(w, h) /\ s.u = chroma /\ s.v = chroma
    BY DEF SceneI422, Plane
  <2>2. Converted(fmt, w, h) = I422ToI420(s)
    BY <1>2 DEF Converted
  <2>3. RowScene(chroma, w, H)
    <3> HIDE DEF H
    <3>1. ASSUME NEW a \in 0 .. w - 1, NEW b \in 0 .. H - 1 PROVE data[b * w + a] = {a} \X {2 * b, 2 * b + 1}
      <4> DEFINE i == b * w + a
      <4>1. i \in 0 .. w * H - 1 /\ i % w = a /\ i \div w = b
        BY <1>h, PlaceInRow
      <4> HIDE DEF i
      <4>2. data[i] = {i % w} \X {2 * (i \div w), 2 * (i \div w) + 1}
        BY <4>1
      <4> QED
        BY <4>1, <4>2 DEF i
    <3>2. data = [i \in 0 .. w * H - 1 |-> data[i]]
      OBVIOUS
    <3> HIDE DEF data
    <3>3. chroma = [stride |-> w, data |-> data]
      OBVIOUS
    <3> HIDE DEF chroma
    <3>4. chroma.stride = w /\ chroma.data = data
      BY <3>3
    <3>5. PlaneOK(chroma, w, H)
      BY <3>2, <3>3, <3>4 DEF PlaneOK
    <3> QED
      BY <3>1, <3>4, <3>5 DEF RowScene, Sample
  <2> HIDE DEF s, chroma
  <2> QED
    BY <1>0, <2>1, <2>2, <2>3, I422Scene
<1>3. CASE fmt = "I444"
  <2> DEFINE s == SceneI444(w, h)
  <2>1. s.w = w /\ s.h = h /\ s.y = Luma(w, h) /\ s.u = Luma(w, h) /\ s.v = Luma(w, h)
    BY DEF SceneI444
  <2>2. Converted(fmt, w, h) = I444ToI420(s)
    BY <1>3 DEF Converted
  <2> HIDE DEF s
  <2> QED
    BY <1>0, <2>1, <2>2, I444Scene
<1>4. CASE fmt = "NV12"
  <2> DEFINE s == SceneNV12(w, h)
             data == [i \in 0 .. w * H - 1 |-> Block((i % w) \div 2, i \div w)]
             chroma == [stride |-> w, data |-> data]
  <2>1. s.w = w /\ s.h = h /\ s.y = Luma(w, h) /\ s.uv = chroma
    BY DEF SceneNV12, Plane
  <2>2. Converted(fmt, w, h) = NV12BufferToI420(s)
    BY <1>4 DEF Converted
  <2>3. PairScene(chroma, w, H)
    <3> HIDE DEF H
    <3>1. ASSUME NEW a \in 0 .. w - 1, NEW b \in 0 .. H - 1 PROVE data[b * w + a] = Block(a \div 2, b)
      <4> DEFINE i == b * w + a
      <4>1. i \in 0 .. w * H - 1 /\ i % w = a /\ i \div w = b
        BY <1>h, PlaceInRow
      <4> HIDE DEF i
      <4>2. data[i] = Block((i % w) \div 2, i \div w)
        BY <4>1
      <4> QED
        BY <4>1, <4>2, Zenon DEF i
    <3>2. data = [i \in 0 .. w * H - 1 |-> data[i]]
      OBVIOUS
    <3> HIDE DEF data
    <3>3. chroma = [stride |-> w, data |-> data]
      OBVIOUS
    <3> HIDE DEF chroma
    <3>4. chroma.stride = w /\ chroma.data = data
      BY <3>3
    <3>5. PlaneOK(chroma, w, H)
      BY <3>2, <3>3, <3>4 DEF PlaneOK
    <3> QED
      BY <3>1, <3>4, <3>5 DEF PairScene, Sample
  <2> HIDE DEF s, chroma
  <2> QED
    BY <1>0, <2>1, <2>2, <2>3, NV12BufferScene
<1>5. CASE fmt = "I010"
  BY <1>5, I010Scene DEF Converted, SceneI010
<1>6. CASE fmt = "ARGB"
  <2>1. Converted(fmt, w, h) = FromARGB(SceneARGB(w, h), w, h)
    BY <1>6 DEF Converted
  <2> QED
    BY <1>0, <2>1, ARGBScene, LibyuvARGBScene DEF FromARGB
<1> QED
  BY <1>1, <1>2, <1>3, <1>4, <1>5, <1>6 DEF Formats

(***************************************************************************)
(* Colour bars: every chroma cell has the bar of one of its columns, or is *)
(* over the gradient.                                                      *)
(***************************************************************************)

\* Of some of the numbers up to n one is the last.
LEMMA LastOf ==
    ASSUME NEW n \in Nat, NEW S, S \subseteq 0 .. n, NEW x \in S
    PROVE  \E k \in S : \A j \in S : j <= k
<1> DEFINE m == n + 1
           f == [i \in 1 .. m |-> IF i - 1 \in S THEN i - 1 ELSE 0]
<1>1. m \in Nat \ {0} /\ \A i \in 1 .. m : f[i] \in Nat
  OBVIOUS
<1>2. \A s \in S : s \in Nat /\ s + 1 \in 1 .. m /\ f[s + 1] = s
  OBVIOUS
<1>3. \A i \in 1 .. m : f[i] \in S \/ f[i] = 0
  OBVIOUS
<1> HIDE DEF f, m
<1>4. PICK j \in 1 .. m : \A i \in 1 .. m : f[i] <= f[j]
  BY <1>1, Greatest
<1>5. \A s \in S : s <= f[j]
  BY <1>2, <1>4
<1>6. f[j] \in S
  <2>1. CASE f[j] = 0
    <3>1. x <= 0 /\ x \in Nat
      BY <1>2, <1>5, <2>1
    <3> QED
      BY <2>1, <3>1
  <2> QED
    BY <1>3, <2>1
<1> QED
  BY <1>5, <1>6

\* The columns of a bar, and of its chroma.
BarWidth(w) == IF w >= Bars THEN w \div Bars ELSE 1
BarStart(w, i) == i * BarWidth(w)
BarEnd(w, i) == IF i = Bars - 1 THEN w ELSE Least((i + 1) * BarWidth(w), w)
HalfBarStart(w, i) == Least(BarStart(w, i) \div 2, Minus(w \div 2, 1))
HalfBarEnd(w, i) == Most(Least(BarEnd(w, i) \div 2, w \div 2), HalfBarStart(w, i) + 1)

\* Where a bar begins and ends: within the frame, and one after the other.
LEMMA BarColumns ==
    ASSUME NEW w \in Nat, w >= Bars
    PROVE  /\ \A i \in 0 .. Bars - 1 : /\ BarStart(w, i) \in Nat /\ BarEnd(w, i) \in Nat
                                       /\ BarStart(w, i) < BarEnd(w, i) /\ BarEnd(w, i) <= w
           /\ \A i, j \in 0 .. Bars - 1 : i < j => BarEnd(w, i) <= BarStart(w, j)
           /\ \A i \in 0 .. Bars - 1 : i < Bars - 1 => BarEnd(w, i) = BarStart(w, i + 1)
           /\ BarEnd(w, Bars - 1) = w
           /\ \A x \in 0 .. w - 1 : \E i \in 0 .. Bars - 1 : BarStart(w, i) <= x /\ x < BarEnd(w, i)
<1> DEFINE n == Bars
           b == w \div n
<1>1. n \in Nat \ {0} /\ w \in Nat /\ n <= w
  BY PatternConstantsOK
<1>2. BarWidth(w) = b /\ n = Bars
  BY <1>1 DEF BarWidth
<1>3. b \in Nat /\ b * n <= w /\ b >= 1
  <2> HIDE DEF n
  <2>1. b \in Nat /\ b * n <= w /\ w < (b + 1) * n
    BY <1>1
  <2>2. b # 0
    BY <1>1, <2>1
  <2> QED
    BY <2>1, <2>2
<1> HIDE DEF n, b
<1>4. \A i \in 0 .. n - 1 : BarStart(w, i) = i * b /\ i * b \in Nat /\ (i + 1) * b = i * b + b /\ (i + 1) * b <= w
  <2> SUFFICES ASSUME NEW i \in 0 .. n - 1
               PROVE  BarStart(w, i) = i * b /\ i * b \in Nat /\ (i + 1) * b = i * b + b /\ (i + 1) * b <= w
    OBVIOUS
  <2>1. BarStart(w, i) = i * b
    BY <1>2 DEF BarStart
  <2>2. i * b \in Nat /\ (i + 1) * b = i * b + b
    BY <1>1, <1>3
  <2>3. (i + 1) * b <= n * b
    BY <1>1, <1>3
  <2>4. n * b = b * n
    BY <1>1, <1>3
  <2> QED
    BY <1>1, <1>3, <2>1, <2>2, <2>3, <2>4
<1>5. \A i \in 0 .. n - 1 : BarEnd(w, i) = IF i = n - 1 THEN w ELSE (i + 1) * b
  BY <1>1, <1>2, <1>3, <1>4 DEF BarEnd, Least
<1>6. \A i \in 0 .. n - 1 : /\ BarStart(w, i) \in Nat /\ BarEnd(w, i) \in Nat
                            /\ BarStart(w, i) < BarEnd(w, i) /\ BarEnd(w, i) <= w
  BY <1>1, <1>3, <1>4, <1>5
<1>7. \A i \in 0 .. n - 1 : i < n - 1 => BarEnd(w, i) = BarStart(w, i + 1)
  BY <1>1, <1>4, <1>5
<1>8. ASSUME NEW i \in 0 .. n - 1, NEW j \in 0 .. n - 1, i < j PROVE BarEnd(w, i) <= BarStart(w, j)
  <2>1. (i + 1) * b <= j * b
    BY <1>1, <1>3, <1>8
  <2> QED
    BY <1>1, <1>4, <1>5, <1>8, <2>1
<1>9. ASSUME NEW x \in 0 .. w - 1 PROVE \E i \in 0 .. n - 1 : BarStart(w, i) <= x /\ x < BarEnd(w, i)
  <2> DEFINE q == x \div b
  <2>1. q \in Nat /\ q * b <= x /\ x < q * b + b
    BY <1>3
  <2> HIDE DEF q
  <2>2. CASE q <= n - 1
    <3>1. q \in 0 .. n - 1
      BY <1>1, <2>1, <2>2
    <3>2. BarStart(w, q) <= x /\ x < BarEnd(w, q)
      BY <1>1, <1>4, <1>5, <2>1, <3>1
    <3> QED
      BY <3>1, <3>2
  <2>3. CASE q > n - 1
    <3>1. n - 1 \in 0 .. n - 1 /\ (n - 1) * b <= q * b
      BY <1>1, <1>3, <2>1, <2>3
    <3>2. BarStart(w, n - 1) = (n - 1) * b /\ (n - 1) * b \in Nat /\ BarEnd(w, n - 1) = w
      BY <1>4, <1>5, <3>1
    <3>3. q * b \in Nat
      BY <1>3, <2>1
    <3>4. BarStart(w, n - 1) <= x /\ x < BarEnd(w, n - 1)
      BY <1>1, <2>1, <3>1, <3>2, <3>3
    <3> QED
      BY <3>1, <3>4
  <2> QED
    BY <1>1, <2>1, <2>2, <2>3
<1>10. BarEnd(w, n - 1) = w
  BY <1>1, <1>5
<1>11. \A i, j \in 0 .. n - 1 : i < j => BarEnd(w, i) <= BarStart(w, j)
  BY <1>8
<1>12. \A x \in 0 .. w - 1 : \E i \in 0 .. n - 1 : BarStart(w, i) <= x /\ x < BarEnd(w, i)
  BY <1>9
<1> QED
  BY <1>6, <1>7, <1>10, <1>11, <1>12 DEF n

\* The same in chroma.
LEMMA HalfBarColumns ==
    ASSUME NEW w \in Nat, w >= Bars, w % 2 = 0, NEW x \in 0 .. (w \div 2) - 1
    PROVE  /\ \E i \in 0 .. Bars - 1 : HalfBarStart(w, i) <= x /\ x < HalfBarEnd(w, i)
           /\ \A i \in 0 .. Bars - 1 :
                 HalfBarStart(w, i) <= x /\ x < HalfBarEnd(w, i) =>
                    \E d \in {0, 1} : BarStart(w, i) <= 2 * x + d /\ 2 * x + d < BarEnd(w, i)
<1> DEFINE n == Bars
           W == w \div 2
           S(i) == BarStart(w, i)
           E(i) == BarEnd(w, i)
<1>0. n \in Nat \ {0}
  BY PatternConstantsOK
<1>1. W \in Nat /\ w = 2 * W /\ x \in Nat /\ x < W /\ 2 * x \in 0 .. w - 1
  OBVIOUS
<1>2. \A i \in 0 .. n - 1 : S(i) \in Nat /\ E(i) \in Nat /\ S(i) < E(i) /\ E(i) <= w
  BY BarColumns
<1>3. \A i \in 0 .. n - 1 : i < n - 1 => E(i) = S(i + 1)
  BY BarColumns
<1>4. E(n - 1) = w
  BY BarColumns
<1>5. PICK i \in 0 .. n - 1 : S(i) <= 2 * x /\ 2 * x < E(i)
  BY <1>1, BarColumns
<1>6. \A k : HalfBarStart(w, k) = Least(S(k) \div 2, Minus(W, 1)) /\ HalfBarEnd(w, k) = Most(Least(E(k) \div 2, W), HalfBarStart(w, k) + 1)
  BY DEF HalfBarStart, HalfBarEnd
<1> HIDE DEF n, W, S, E
<1>7. ASSUME NEW k \in 0 .. n - 1
      PROVE  HalfBarStart(w, k) = S(k) \div 2 /\ HalfBarEnd(w, k) = Most(E(k) \div 2, S(k) \div 2 + 1)
  <2>1. S(k) \in Nat /\ E(k) \in Nat /\ S(k) < 2 * W /\ E(k) <= 2 * W
    BY <1>1, <1>2
  <2>2. Minus(W, 1) = W - 1
    BY <1>1 DEF Minus, Most
  <2>3. S(k) \div 2 <= W - 1 /\ E(k) \div 2 <= W /\ S(k) \div 2 \in Nat /\ E(k) \div 2 \in Nat
    BY <1>1, <2>1
  <2>4. Least(S(k) \div 2, W - 1) = S(k) \div 2 /\ Least(E(k) \div 2, W) = E(k) \div 2
    BY <2>3 DEF Least
  <2> QED
    BY <1>6, <2>2, <2>4
<1>8. ASSUME NEW k \in 0 .. n - 1, HalfBarStart(w, k) <= x, x < HalfBarEnd(w, k)
      PROVE  \E d \in {0, 1} : S(k) <= 2 * x + d /\ 2 * x + d < E(k)
  <2>1. S(k) \in Nat /\ E(k) \in Nat /\ S(k) < E(k)
    BY <1>2
  <2>2. S(k) \div 2 <= x /\ (x < E(k) \div 2 \/ x < S(k) \div 2 + 1)
    BY <1>7, <1>8 DEF Most
  <2>3. CASE x < E(k) \div 2
    <3>1. S(k) <= 2 * x + 1 /\ 2 * x + 1 < E(k)
      BY <1>1, <2>1, <2>2, <2>3
    <3> QED
      BY <3>1
  <2>4. CASE x < S(k) \div 2 + 1
    <3>1. S(k) = 2 * x \/ S(k) = 2 * x + 1
      BY <1>1, <2>1, <2>2, <2>4
    <3> QED
      BY <1>1, <2>1, <3>1
  <2> QED
    BY <2>2, <2>3, <2>4
<1>9. \E k \in 0 .. n - 1 : HalfBarStart(w, k) <= x /\ x < HalfBarEnd(w, k)
  <2>1. S(i) \in Nat /\ E(i) \in Nat /\ E(i) <= w
    BY <1>2
  <2>2. CASE E(i) # 2 * x + 1
    <3>1. S(i) \div 2 <= x /\ x < E(i) \div 2
      BY <1>1, <1>5, <2>1, <2>2
    <3>2. HalfBarStart(w, i) <= x /\ x < HalfBarEnd(w, i)
      <4>1. E(i) \div 2 \in Nat /\ S(i) \div 2 \in Nat
        BY <2>1
      <4> QED
        BY <1>1, <1>7, <3>1, <4>1 DEF Most
    <3> QED
      BY <3>2
  <2>3. CASE E(i) = 2 * x + 1
    <3>1. i # n - 1
      BY <1>1, <1>4, <2>3
    <3>2. i + 1 \in 0 .. n - 1 /\ S(i + 1) = 2 * x + 1
      BY <1>0, <1>3, <2>3, <3>1
    <3>3. S(i + 1) \div 2 = x
      BY <1>1, <3>2
    <3>4. HalfBarStart(w, i + 1) <= x /\ x < HalfBarEnd(w, i + 1)
      <4>1. E(i + 1) \div 2 \in Int
        BY <1>2, <3>2
      <4> QED
        BY <1>1, <1>7, <3>2, <3>3, <4>1 DEF Most
    <3> QED
      BY <3>2, <3>4
  <2> QED
    BY <2>2, <2>3
<1> QED
  BY <1>8, <1>9 DEF n, S, E

\* The rectangles of the bars, the last one the gradient below them.
BarHeight(h) == (h * 2) \div 3
BarLuma(w, h, i) ==
    IF i < Bars THEN Rect(BarStart(w, i), BarEnd(w, i), 0, BarHeight(h)) ELSE Rect(0, w, BarHeight(h), h)
BarChroma(w, h, i) ==
    IF i < Bars THEN Rect(HalfBarStart(w, i), HalfBarEnd(w, i), 0, BarHeight(h) \div 2)
                ELSE {c \in Rect(0, w \div 2, BarHeight(h) \div 2, h) : c[2] < h \div 2}
BarPaint(i, ground) == IF i < Bars THEN Bar(i) ELSE ground
BarredLuma(d, w, h) == Painted(d, 0 .. Bars, LAMBDA i : BarLuma(w, h, i), LAMBDA i : BarPaint(i, Gradient))
BarredChroma(d, w, h) == Painted(d, 0 .. Bars, LAMBDA i : BarChroma(w, h, i), LAMBDA i : BarPaint(i, Neutral))

\* The bars, plane by plane.
LEMMA BarPlanes ==
    ASSUME NEW p
    PROVE  SmpteBars(p) = [p EXCEPT !.y = BarredLuma(p.y, p.w, p.h), !.u = BarredChroma(p.u, p.w, p.h),
                                    !.v = BarredChroma(p.v, p.w, p.h)]
BY DEF SmpteBars, BarredLuma, BarredChroma, BarLuma, BarChroma, BarPaint, BarHeight, BarStart, BarEnd, BarWidth,
       HalfBarStart, HalfBarEnd

\* What LaidSample says, in one word.
LaidShown(d, stride, cells, v, w, h) ==
    /\ PlaneOK(Laid(d, stride, cells, v), w, h)
    /\ \A a \in 0 .. w - 1, b \in 0 .. h - 1 :
          Sample(Laid(d, stride, cells, v), w, a, b) = IF <<a, b>> \in cells THEN v[<<a, b>>] ELSE Sample(d, w, a, b)

\* Which holds of a plane of its own size.
LEMMA LaidIsShown ==
    ASSUME NEW w, NEW h, NEW d, NEW stride, NEW cells, NEW v,
           w \in Nat /\ h \in Nat /\ PlaneOK(d, w, h) /\ stride = w /\ cells \subseteq Area(w, h)
    PROVE  LaidShown(d, stride, cells, v, w, h)
<1>1. w \in Nat /\ h \in Nat /\ PlaneOK(d, w, h) /\ stride = w /\ cells \subseteq Area(w, h)
  OBVIOUS
<1>2. PlaneOK(Laid(d, stride, cells, v), w, h)
  BY <1>1, LaidSample
<1>3. ASSUME NEW a \in 0 .. w - 1, NEW b \in 0 .. h - 1
      PROVE  Sample(Laid(d, stride, cells, v), w, a, b) = IF <<a, b>> \in cells THEN v[<<a, b>>] ELSE Sample(d, w, a, b)
  BY <1>1, LaidSample
<1> QED
  BY <1>2, <1>3, Zenon DEF LaidShown

\* A place that rectangles cover has the paint of the last of them.
LEMMA BarsOnLuma ==
    ASSUME NEW w \in Nat, NEW h \in Nat, NEW d, PlaneOK(d, w, h),
           \A k \in 0 .. Bars : BarLuma(w, h, k) \subseteq Area(w, h)
    PROVE  /\ PlaneOK(BarredLuma(d, w, h), w, h)
           /\ \A a \in 0 .. w - 1, b \in 0 .. h - 1 :
                 \/ \E k \in 0 .. Bars : /\ <<a, b>> \in BarLuma(w, h, k)
                                         /\ \A j \in 0 .. Bars : <<a, b>> \in BarLuma(w, h, j) => j <= k
                                         /\ Sample(BarredLuma(d, w, h), w, a, b) = BarPaint(k, Gradient)
                 \/ /\ \A k \in 0 .. Bars : <<a, b>> \notin BarLuma(w, h, k)
                    /\ Sample(BarredLuma(d, w, h), w, a, b) = Sample(d, w, a, b)
<1> DEFINE n == Bars
           ks == 0 .. n
           Of(k) == BarLuma(w, h, k)
           all == UNION {Of(k) : k \in ks}
           at == {Index(d.stride, c) : c \in all}
           Pick(i) == CHOOSE c \in all : Index(d.stride, c) = i
           Top(c) == CHOOSE k \in ks : c \in Of(k) /\ \A j \in ks : c \in Of(j) => j <= k
           Val(k) == BarPaint(k, Gradient)
           v == [c \in all |-> Val(Top(c))]
           r == BarredLuma(d, w, h)
<1>0. n \in Nat
  BY PatternConstantsOK
<1>1. r = Laid(d, d.stride, all, v)
  <2>1. \A i \in at : v[Pick(i)] = Val(Top(Pick(i)))
    <3>1. \A i \in at : Pick(i) \in all
      OBVIOUS
    <3> HIDE DEF at, Pick, all, Val, Top
    <3> QED
      BY <3>1
  <2>2. [i \in DOMAIN d.data \cup at |-> IF i \in at THEN Val(Top(Pick(i))) ELSE d.data[i]]
          = [i \in DOMAIN d.data \cup at |-> IF i \in at THEN v[Pick(i)] ELSE d.data[i]]
    <3> HIDE DEF v, at, Pick, Val, Top
    <3> QED
      BY <2>1
  <2> QED
    BY <2>2, Zenon DEF Written, Laid, Painted, BarredLuma
<1>2. all \subseteq Area(w, h) /\ d.stride = w
  BY DEF PlaneOK
<1>3. ASSUME NEW c \in all
      PROVE  Top(c) \in ks /\ c \in Of(Top(c)) /\ \A j \in ks : c \in Of(j) => j <= Top(c)
  <2> DEFINE S == {k \in ks : c \in Of(k)}
  <2>1. PICK x \in ks : c \in Of(x)
    BY <1>3
  <2> HIDE DEF Of
  <2>2. S \subseteq 0 .. n /\ x \in S
    BY <2>1
  <2> HIDE DEF S
  <2>3. PICK k \in S : \A j \in S : j <= k
    BY <1>0, <2>2, LastOf
  <2>4. \E t \in ks : c \in Of(t) /\ \A j \in ks : c \in Of(j) => j <= t
    BY <2>3 DEF S
  <2> QED
    BY <2>4
<1>4. \A c \in all : v[c] = Val(Top(c))
  OBVIOUS
<1>5. \A c : c \notin all => \A k \in ks : c \notin Of(k)
  OBVIOUS
<1> HIDE DEF n, all, Top, Of, Val, v, r
<1>6. /\ PlaneOK(Laid(d, d.stride, all, v), w, h)
      /\ \A a \in 0 .. w - 1, b \in 0 .. h - 1 :
            Sample(Laid(d, d.stride, all, v), w, a, b) = IF <<a, b>> \in all THEN v[<<a, b>>] ELSE Sample(d, w, a, b)
  <2> DEFINE stride == d.stride
  <2>1. w \in Nat /\ h \in Nat /\ PlaneOK(d, w, h) /\ stride = w /\ all \subseteq Area(w, h)
    BY <1>2
  <2> HIDE DEF stride
  <2>2. LaidShown(d, stride, all, v, w, h)
    BY <2>1, LaidIsShown, Zenon
  <2> QED
    BY <2>2 DEF stride, LaidShown
<1>7. ASSUME NEW a \in 0 .. w - 1, NEW b \in 0 .. h - 1
      PROVE  \/ \E k \in ks : /\ <<a, b>> \in Of(k) /\ \A j \in ks : <<a, b>> \in Of(j) => j <= k
                              /\ Sample(r, w, a, b) = Val(k)
             \/ (\A k \in ks : <<a, b>> \notin Of(k)) /\ Sample(r, w, a, b) = Sample(d, w, a, b)
  <2> DEFINE c == <<a, b>>
  <2>1. Sample(r, w, a, b) = IF c \in all THEN v[c] ELSE Sample(d, w, a, b)
    BY <1>1, <1>6
  <2> HIDE DEF c
  <2>2. CASE c \in all
    <3>1. Sample(r, w, a, b) = Val(Top(c))
      BY <1>4, <2>1, <2>2
    <3> QED
      BY <1>3, <2>2, <3>1 DEF c
  <2>3. CASE c \notin all
    BY <1>5, <2>1, <2>3 DEF c
  <2> QED
    BY <2>2, <2>3
<1> QED
  BY <1>1, <1>6, <1>7 DEF n, Of, Val, r

\* The same of the chroma planes.
LEMMA BarsOnChroma ==
    ASSUME NEW w, NEW h, NEW m \in Nat, NEW l \in Nat, NEW d, PlaneOK(d, m, l),
           \A k \in 0 .. Bars : BarChroma(w, h, k) \subseteq Area(m, l)
    PROVE  /\ PlaneOK(BarredChroma(d, w, h), m, l)
           /\ \A a \in 0 .. m - 1, b \in 0 .. l - 1 :
                 \/ \E k \in 0 .. Bars : /\ <<a, b>> \in BarChroma(w, h, k)
                                         /\ \A j \in 0 .. Bars : <<a, b>> \in BarChroma(w, h, j) => j <= k
                                         /\ Sample(BarredChroma(d, w, h), m, a, b) = BarPaint(k, Neutral)
                 \/ /\ \A k \in 0 .. Bars : <<a, b>> \notin BarChroma(w, h, k)
                    /\ Sample(BarredChroma(d, w, h), m, a, b) = Sample(d, m, a, b)
<1> DEFINE n == Bars
           ks == 0 .. n
           Of(k) == BarChroma(w, h, k)
           all == UNION {Of(k) : k \in ks}
           at == {Index(d.stride, c) : c \in all}
           Pick(i) == CHOOSE c \in all : Index(d.stride, c) = i
           Top(c) == CHOOSE k \in ks : c \in Of(k) /\ \A j \in ks : c \in Of(j) => j <= k
           Val(k) == BarPaint(k, Neutral)
           v == [c \in all |-> Val(Top(c))]
           r == BarredChroma(d, w, h)
<1>0. n \in Nat
  BY PatternConstantsOK
<1>1. r = Laid(d, d.stride, all, v)
  <2>1. \A i \in at : v[Pick(i)] = Val(Top(Pick(i)))
    <3>1. \A i \in at : Pick(i) \in all
      OBVIOUS
    <3> HIDE DEF at, Pick, all, Val, Top
    <3> QED
      BY <3>1
  <2>2. [i \in DOMAIN d.data \cup at |-> IF i \in at THEN Val(Top(Pick(i))) ELSE d.data[i]]
          = [i \in DOMAIN d.data \cup at |-> IF i \in at THEN v[Pick(i)] ELSE d.data[i]]
    <3> HIDE DEF v, at, Pick, Val, Top
    <3> QED
      BY <2>1
  <2> QED
    BY <2>2, Zenon DEF Written, Laid, Painted, BarredChroma
<1>2. all \subseteq Area(m, l) /\ d.stride = m
  BY DEF PlaneOK
<1>3. ASSUME NEW c \in all
      PROVE  Top(c) \in ks /\ c \in Of(Top(c)) /\ \A j \in ks : c \in Of(j) => j <= Top(c)
  <2> DEFINE S == {k \in ks : c \in Of(k)}
  <2>1. PICK x \in ks : c \in Of(x)
    BY <1>3
  <2> HIDE DEF Of
  <2>2. S \subseteq 0 .. n /\ x \in S
    BY <2>1
  <2> HIDE DEF S
  <2>3. PICK k \in S : \A j \in S : j <= k
    BY <1>0, <2>2, LastOf
  <2>4. \E t \in ks : c \in Of(t) /\ \A j \in ks : c \in Of(j) => j <= t
    BY <2>3 DEF S
  <2> QED
    BY <2>4
<1>4. \A c \in all : v[c] = Val(Top(c))
  OBVIOUS
<1>5. \A c : c \notin all => \A k \in ks : c \notin Of(k)
  OBVIOUS
<1> HIDE DEF n, all, Top, Of, Val, v, r
<1>6. /\ PlaneOK(Laid(d, d.stride, all, v), m, l)
      /\ \A a \in 0 .. m - 1, b \in 0 .. l - 1 :
            Sample(Laid(d, d.stride, all, v), m, a, b) = IF <<a, b>> \in all THEN v[<<a, b>>] ELSE Sample(d, m, a, b)
  <2> DEFINE stride == d.stride
  <2>1. m \in Nat /\ l \in Nat /\ PlaneOK(d, m, l) /\ stride = m /\ all \subseteq Area(m, l)
    BY <1>2
  <2> HIDE DEF stride
  <2>2. LaidShown(d, stride, all, v, m, l)
    BY <2>1, LaidIsShown, Zenon
  <2> QED
    BY <2>2 DEF stride, LaidShown
<1>7. ASSUME NEW a \in 0 .. m - 1, NEW b \in 0 .. l - 1
      PROVE  \/ \E k \in ks : /\ <<a, b>> \in Of(k) /\ \A j \in ks : <<a, b>> \in Of(j) => j <= k
                              /\ Sample(r, m, a, b) = Val(k)
             \/ (\A k \in ks : <<a, b>> \notin Of(k)) /\ Sample(r, m, a, b) = Sample(d, m, a, b)
  <2> DEFINE c == <<a, b>>
  <2>1. Sample(r, m, a, b) = IF c \in all THEN v[c] ELSE Sample(d, m, a, b)
    BY <1>1, <1>6
  <2> HIDE DEF c
  <2>2. CASE c \in all
    <3>1. Sample(r, m, a, b) = Val(Top(c))
      BY <1>4, <2>1, <2>2
    <3> QED
      BY <1>3, <2>2, <3>1 DEF c
  <2>3. CASE c \notin all
    BY <1>5, <2>1, <2>3 DEF c
  <2> QED
    BY <2>2, <2>3
<1> QED
  BY <1>1, <1>6, <1>7 DEF n, Of, Val, r

\* The bars keep to a picture of at least two columns.
LEMMA BarsInside ==
    ASSUME NEW w \in Nat, NEW h \in Nat, w >= 2
    PROVE  \A k \in 0 .. Bars : /\ BarLuma(w, h, k) \subseteq Area(w, h)
                                /\ BarChroma(w, h, k) \subseteq Area(w \div 2, h \div 2)
<1> DEFINE halfW == w \div 2
           halfH == h \div 2
           barH == BarHeight(h)
           barW == BarWidth(w)
<1>1. /\ halfW \in Nat /\ halfW >= 1 /\ halfW <= w /\ halfH \in Nat /\ halfH <= h
      /\ barH \in Nat /\ barH <= h /\ barH \div 2 \in Nat /\ barH \div 2 <= halfH
  BY DEF BarHeight
<1>2. barW \in Nat
  BY PatternConstantsOK DEF BarWidth
<1>3. \A k : HalfBarStart(w, k) = Least(BarStart(w, k) \div 2, Minus(halfW, 1)) /\ HalfBarEnd(w, k) = Most(Least(BarEnd(w, k) \div 2, halfW), HalfBarStart(w, k) + 1)
  BY DEF HalfBarStart, HalfBarEnd
<1> HIDE DEF halfW, halfH, barH, barW
<1> SUFFICES ASSUME NEW k \in 0 .. Bars
             PROVE  BarLuma(w, h, k) \subseteq Area(w, h) /\ BarChroma(w, h, k) \subseteq Area(halfW, halfH)
  BY DEF halfW, halfH
<1>4. CASE k < Bars
  <2>1. k \in Nat /\ k * barW \in Nat /\ (k + 1) * barW \in Nat
    BY <1>2
  <2>2. BarStart(w, k) \in Nat /\ BarEnd(w, k) \in Nat /\ BarEnd(w, k) <= w
    BY <2>1 DEF BarStart, BarEnd, Least, barW
  <2>3. Minus(halfW, 1) = halfW - 1 /\ halfW - 1 \in Nat /\ BarStart(w, k) \div 2 \in Nat /\ BarEnd(w, k) \div 2 \in Nat
    BY <1>1, <2>2 DEF Minus, Most
  <2>4. HalfBarStart(w, k) \in Nat /\ HalfBarStart(w, k) <= halfW - 1
    BY <1>3, <2>3 DEF Least
  <2>5. HalfBarEnd(w, k) \in Nat /\ HalfBarEnd(w, k) <= halfW
    BY <1>1, <1>3, <2>3, <2>4 DEF Least, Most
  <2>6. BarLuma(w, h, k) = Rect(BarStart(w, k), BarEnd(w, k), 0, barH) /\ BarChroma(w, h, k) = Rect(HalfBarStart(w, k), HalfBarEnd(w, k), 0, barH \div 2)
    BY <1>4 DEF BarLuma, BarChroma, barH
  <2>7. Rect(BarStart(w, k), BarEnd(w, k), 0, barH) \subseteq Area(w, h)
    BY <1>1, <2>2, RectIn
  <2>8. Rect(HalfBarStart(w, k), HalfBarEnd(w, k), 0, barH \div 2) \subseteq Area(halfW, halfH)
    BY <1>1, <2>4, <2>5, RectIn
  <2> QED
    BY <2>6, <2>7, <2>8
<1>5. CASE ~(k < Bars)
  <2>1. BarLuma(w, h, k) = Rect(0, w, barH, h) /\ BarChroma(w, h, k) = {c \in Rect(0, halfW, barH \div 2, h) : c[2] < halfH}
    BY <1>5 DEF BarLuma, BarChroma, barH, halfW, halfH
  <2>2. w \in Int /\ h \in Int /\ 0 \in Int /\ barH \in Int /\ halfW \in Int /\ barH \div 2 \in Int /\ 0 >= 0 /\ barH >= 0 /\ barH \div 2 >= 0 /\ w <= w /\ h <= h /\ halfW <= halfW
    BY <1>1
  <2>3. Rect(0, w, barH, h) \subseteq Area(w, h)
    BY <2>2, RectIn, Zenon
  <2>4. Rect(0, halfW, barH \div 2, h) \subseteq Area(halfW, h)
    BY <2>2, RectIn, Zenon
  <2>5. \A c \in Area(halfW, h) : c[2] < halfH => c \in Area(halfW, halfH)
    BY <1>1 DEF Area
  <2> QED
    BY <2>1, <2>3, <2>4, <2>5
<1> QED
  BY <1>4, <1>5

\* What is in a rectangle.
LEMMA RectPair ==
    ASSUME NEW a, NEW b, NEW x0, NEW x1, NEW y0, NEW y1
    PROVE  <<a, b>> \in Rect(x0, x1, y0, y1) <=> a \in x0 .. x1 - 1 /\ b \in y0 .. y1 - 1
BY DEF Rect

\* A picture of colour bars, sample by sample.
BarsSamples(q, w, h) ==
    /\ Framed(q) /\ q.w = w /\ q.h = h /\ q.u = q.v
    /\ \A a \in 0 .. w - 1, b \in 0 .. h - 1 :
          \/ \E k \in 0 .. Bars : /\ <<a, b>> \in BarLuma(w, h, k)
                                  /\ \A j \in 0 .. Bars : <<a, b>> \in BarLuma(w, h, j) => j <= k
                                  /\ Sample(q.y, w, a, b) = BarPaint(k, Gradient)
          \/ (\A k \in 0 .. Bars : <<a, b>> \notin BarLuma(w, h, k)) /\ Sample(q.y, w, a, b) = Blank
    /\ \A a \in 0 .. (w \div 2) - 1, b \in 0 .. (h \div 2) - 1 :
          \/ \E k \in 0 .. Bars : /\ <<a, b>> \in BarChroma(w, h, k)
                                  /\ \A j \in 0 .. Bars : <<a, b>> \in BarChroma(w, h, j) => j <= k
                                  /\ Sample(q.u, w \div 2, a, b) = BarPaint(k, Neutral)
          \/ \A k \in 0 .. Bars : <<a, b>> \notin BarChroma(w, h, k)

\* The bars of a new even frame, sample by sample.
LEMMA BarsAreSamples ==
    ASSUME NEW w \in Nat, NEW h \in Nat, w >= 2
    PROVE  BarsSamples(SmpteBars(I420New(w, h)), w, h)
<1> DEFINE n == I420New(w, h)
           q == SmpteBars(n)
           y == BarredLuma(n.y, w, h)
           u == BarredChroma(n.u, w, h)
           W == w \div 2
           H == h \div 2
<1>1. PlaneOK(n.y, w, h) /\ PlaneOK(n.u, W, H) /\ n.w = w /\ n.h = h /\ n.u = n.v /\ W \in Nat /\ H \in Nat
  <2>1. n.w = w /\ n.h = h /\ n.u = n.v
    BY DEF I420New
  <2> HIDE DEF n
  <2>2. PlaneOK(n.y, w, h) /\ PlaneOK(n.u, W, H)
    BY PlanesOfNew DEF n
  <2> QED
    BY <2>1, <2>2
<1>2. \A a \in 0 .. w - 1, b \in 0 .. h - 1 : Sample(n.y, w, a, b) = Blank
  <2>1. n.y = BlankPlane(w, w * h)
    BY DEF I420New
  <2>2. n.y.data = [i \in 0 .. w * h - 1 |-> Blank]
    BY <2>1 DEF BlankPlane, Plane
  <2> HIDE DEF n
  <2>3. \A a \in 0 .. w - 1, b \in 0 .. h - 1 : b * w + a \in 0 .. w * h - 1
    BY IndexInside
  <2> QED
    BY <2>2, <2>3 DEF Sample
<1>3. q = [w |-> w, h |-> h, y |-> y, u |-> u, v |-> u]
  <2>1. q = [n EXCEPT !.y = BarredLuma(n.y, n.w, n.h), !.u = BarredChroma(n.u, n.w, n.h), !.v = BarredChroma(n.v, n.w, n.h)]
    BY BarPlanes
  <2>2. q = [n EXCEPT !.y = y, !.u = u, !.v = u]
    BY <1>1, <2>1
  <2>3. \A a, b, c : [n EXCEPT !.y = a, !.u = b, !.v = c] = [w |-> w, h |-> h, y |-> a, u |-> b, v |-> c]
    BY NewReplaced
  <2> HIDE DEF n, q, y, u
  <2> QED
    BY <2>2, <2>3, Zenon
<1> HIDE DEF n, q, W, H
<1>4. \A k \in 0 .. Bars : BarLuma(w, h, k) \subseteq Area(w, h) /\ BarChroma(w, h, k) \subseteq Area(W, H)
  BY BarsInside DEF W, H
<1>5. /\ PlaneOK(y, w, h)
      /\ \A a \in 0 .. w - 1, b \in 0 .. h - 1 :
            \/ \E k \in 0 .. Bars : /\ <<a, b>> \in BarLuma(w, h, k)
                                    /\ \A j \in 0 .. Bars : <<a, b>> \in BarLuma(w, h, j) => j <= k
                                    /\ Sample(y, w, a, b) = BarPaint(k, Gradient)
            \/ (\A k \in 0 .. Bars : <<a, b>> \notin BarLuma(w, h, k)) /\ Sample(y, w, a, b) = Sample(n.y, w, a, b)
  BY <1>1, <1>4, BarsOnLuma
<1>6. /\ PlaneOK(u, W, H)
      /\ \A a \in 0 .. W - 1, b \in 0 .. H - 1 :
            \/ \E k \in 0 .. Bars : /\ <<a, b>> \in BarChroma(w, h, k)
                                    /\ \A j \in 0 .. Bars : <<a, b>> \in BarChroma(w, h, j) => j <= k
                                    /\ Sample(u, W, a, b) = BarPaint(k, Neutral)
            \/ \A k \in 0 .. Bars : <<a, b>> \notin BarChroma(w, h, k)
  <2>1. \A k \in 0 .. Bars : BarChroma(w, h, k) \subseteq Area(W, H)
    BY <1>4
  <2>2. PlaneOK(n.u, W, H) /\ W \in Nat /\ H \in Nat
    BY <1>1
  <2>3. /\ PlaneOK(u, W, H)
        /\ \A a \in 0 .. W - 1, b \in 0 .. H - 1 :
              \/ \E k \in 0 .. Bars : /\ <<a, b>> \in BarChroma(w, h, k)
                                      /\ \A j \in 0 .. Bars : <<a, b>> \in BarChroma(w, h, j) => j <= k
                                      /\ Sample(u, W, a, b) = BarPaint(k, Neutral)
              \/ /\ \A k \in 0 .. Bars : <<a, b>> \notin BarChroma(w, h, k)
                 /\ Sample(u, W, a, b) = Sample(n.u, W, a, b)
    BY <2>1, <2>2, BarsOnChroma
  <2> QED
    BY <2>3, Zenon
<1> HIDE DEF y, u
<1>7. Framed(q) /\ q.w = w /\ q.h = h /\ q.y = y /\ q.u = u /\ q.v = u
  BY <1>3, <1>5, <1>6, FramedOf DEF W, H
<1> QED
  BY <1>2, <1>5, <1>6, <1>7 DEF BarsSamples, q, n, W, H

\* Which rectangles have a place.
LEMMA InBar ==
    ASSUME NEW w \in Nat, NEW h \in Nat, NEW a, NEW b, NEW k \in 0 .. Bars
    PROVE  /\ k < Bars => (<<a, b>> \in BarLuma(w, h, k) <=> a \in BarStart(w, k) .. BarEnd(w, k) - 1 /\ b \in 0 .. BarHeight(h) - 1)
           /\ k = Bars => (<<a, b>> \in BarLuma(w, h, k) <=> a \in 0 .. w - 1 /\ b \in BarHeight(h) .. h - 1)
           /\ k < Bars => (<<a, b>> \in BarChroma(w, h, k) <=> a \in HalfBarStart(w, k) .. HalfBarEnd(w, k) - 1 /\ b \in 0 .. (BarHeight(h) \div 2) - 1)
           /\ k = Bars => (<<a, b>> \in BarChroma(w, h, k) <=> a \in 0 .. (w \div 2) - 1 /\ b \in (BarHeight(h) \div 2) .. h - 1 /\ b < h \div 2)
<1> DEFINE barH == BarHeight(h)
           W == w \div 2
           H == h \div 2
           half == barH \div 2
           c == <<a, b>>
<1>1. k < Bars => BarLuma(w, h, k) = Rect(BarStart(w, k), BarEnd(w, k), 0, barH) /\ BarChroma(w, h, k) = Rect(HalfBarStart(w, k), HalfBarEnd(w, k), 0, half)
  BY DEF BarLuma, BarChroma
<1>2. k = Bars => ~(k < Bars)
  BY PatternConstantsOK
<1>3. k = Bars => BarLuma(w, h, k) = Rect(0, w, barH, h) /\ BarChroma(w, h, k) = {x \in Rect(0, W, half, h) : x[2] < H}
  BY <1>2 DEF BarLuma, BarChroma
<1>4. c[2] = b
  OBVIOUS
<1>5. \A x0, x1, y0, y1 : c \in Rect(x0, x1, y0, y1) <=> a \in x0 .. x1 - 1 /\ b \in y0 .. y1 - 1
  BY RectPair
<1> HIDE DEF barH, W, H, half, c
<1>6. k < Bars => (c \in BarLuma(w, h, k) <=> a \in BarStart(w, k) .. BarEnd(w, k) - 1 /\ b \in 0 .. barH - 1)
  BY <1>1, <1>5
<1>7. k = Bars => (c \in BarLuma(w, h, k) <=> a \in 0 .. w - 1 /\ b \in barH .. h - 1)
  BY <1>3, <1>5
<1>8. k < Bars => (c \in BarChroma(w, h, k) <=> a \in HalfBarStart(w, k) .. HalfBarEnd(w, k) - 1 /\ b \in 0 .. half - 1)
  BY <1>1, <1>5
<1>9. k = Bars => (c \in BarChroma(w, h, k) <=> a \in 0 .. W - 1 /\ b \in half .. h - 1 /\ b < H)
  BY <1>3, <1>4, <1>5
<1> QED
  BY <1>6, <1>7, <1>8, <1>9 DEF c, barH, W, H, half

\* The bar of a luma sample is that of its column; below the bars it is the gradient.
LEMMA BarOfLuma ==
    ASSUME NEW q, NEW w \in Nat, NEW h \in Nat, w >= Bars, BarsSamples(q, w, h),
           NEW a \in 0 .. w - 1, NEW b \in 0 .. h - 1
    PROVE  /\ b >= BarHeight(h) => Sample(q.y, w, a, b) = Gradient
           /\ b < BarHeight(h) => \A i \in 0 .. Bars - 1 : BarStart(w, i) <= a /\ a < BarEnd(w, i) => Sample(q.y, w, a, b) = Bar(i)
           /\ Sample(q.y, w, a, b) = Gradient \/ \E i : Sample(q.y, w, a, b) = Bar(i)
<1> DEFINE n == Bars
           barH == BarHeight(h)
           s == Sample(q.y, w, a, b)
<1>0. n \in Nat \ {0} /\ barH \in Nat /\ barH <= h
  BY PatternConstantsOK DEF BarHeight
<1>1. \/ \E k \in 0 .. n : /\ <<a, b>> \in BarLuma(w, h, k)
                           /\ \A j \in 0 .. n : <<a, b>> \in BarLuma(w, h, j) => j <= k
                           /\ s = BarPaint(k, Gradient)
      \/ \A k \in 0 .. n : <<a, b>> \notin BarLuma(w, h, k)
  BY DEF BarsSamples
<1>2. \A k \in 0 .. n : /\ k < n => (<<a, b>> \in BarLuma(w, h, k) <=> a \in BarStart(w, k) .. BarEnd(w, k) - 1 /\ b \in 0 .. barH - 1)
                        /\ k = n => (<<a, b>> \in BarLuma(w, h, k) <=> a \in 0 .. w - 1 /\ b \in barH .. h - 1)
  BY InBar
<1>3. PICK i \in 0 .. n - 1 : BarStart(w, i) <= a /\ a < BarEnd(w, i)
  BY BarColumns
<1>4. \A k \in 0 .. n - 1 : BarStart(w, k) \in Nat /\ BarEnd(w, k) \in Nat
  BY BarColumns
<1>5. \A k, j \in 0 .. n - 1 : k < j => BarEnd(w, k) <= BarStart(w, j)
  BY BarColumns
<1>6. \A k \in 0 .. n : BarPaint(k, Gradient) = IF k < n THEN Bar(k) ELSE Gradient
  BY DEF BarPaint
<1> HIDE DEF n, barH, s
<1>7. PICK k \in 0 .. n : /\ <<a, b>> \in BarLuma(w, h, k)
                          /\ \A j \in 0 .. n : <<a, b>> \in BarLuma(w, h, j) => j <= k
                          /\ s = BarPaint(k, Gradient)
  <2>1. \E k \in 0 .. n : <<a, b>> \in BarLuma(w, h, k)
    <3>1. CASE b < barH
      <4>1. i \in 0 .. n /\ i < n /\ a \in BarStart(w, i) .. BarEnd(w, i) - 1 /\ b \in 0 .. barH - 1
        BY <1>0, <1>3, <1>4, <3>1
      <4> QED
        BY <1>2, <4>1
    <3>2. CASE b >= barH
      <4>1. n \in 0 .. n /\ a \in 0 .. w - 1 /\ b \in barH .. h - 1
        BY <1>0, <3>2
      <4> QED
        BY <1>2, <4>1
    <3> QED
      BY <1>0, <3>1, <3>2
  <2> QED
    BY <1>1, <2>1
<1>8. CASE k = n
  <2>1. b \in barH .. h - 1
    BY <1>0, <1>2, <1>7, <1>8
  <2>2. s = Gradient
    BY <1>0, <1>6, <1>7, <1>8
  <2>3. ~(b < barH)
    BY <1>0, <2>1
  <2> QED
    BY <2>2, <2>3 DEF n, barH, s
<1>9. CASE k < n
  <2>1. k \in 0 .. n - 1 /\ a \in BarStart(w, k) .. BarEnd(w, k) - 1 /\ b \in 0 .. barH - 1
    BY <1>0, <1>2, <1>7, <1>9
  <2>2. s = Bar(k)
    BY <1>6, <1>7, <1>9
  <2>3. ASSUME NEW j \in 0 .. n - 1, BarStart(w, j) <= a, a < BarEnd(w, j) PROVE j = k
    <3>1. ~(k < j) /\ ~(j < k)
      BY <1>4, <1>5, <2>1, <2>3
    <3> QED
      BY <1>0, <2>1, <3>1
  <2>4. ~(b >= barH)
    BY <1>0, <2>1
  <2> QED
    BY <2>2, <2>3, <2>4 DEF n, barH, s
<1> QED
  BY <1>0, <1>7, <1>8, <1>9

\* The chroma of a cell is the bar of one of its columns; below the bars it is none.
LEMMA BarOfCell ==
    ASSUME NEW q, NEW w \in Nat, NEW h \in Nat, w >= Bars, w % 2 = 0, h % 2 = 0, BarsSamples(q, w, h),
           NEW x \in 0 .. (w \div 2) - 1, NEW y \in 0 .. (h \div 2) - 1
    PROVE  LET s == Sample(q.u, w \div 2, x, y) IN
           \/ s = Neutral /\ Sample(q.y, w, 2 * x, 2 * y + 1) = Gradient
           \/ \E k : s = Bar(k) /\ \E d \in {0, 1} : Sample(q.y, w, 2 * x + d, 2 * y) = Bar(k)
<1> DEFINE n == Bars
           W == w \div 2
           H == h \div 2
           barH == BarHeight(h)
           half == barH \div 2
           s == Sample(q.u, W, x, y)
<1>0. /\ n \in Nat \ {0} /\ W \in Nat /\ H \in Nat /\ w = 2 * W /\ h = 2 * H /\ barH \in Nat /\ barH <= h /\ half \in Nat
      /\ 2 * half <= barH /\ barH <= 2 * half + 1 /\ x \in 0 .. W - 1 /\ y \in 0 .. H - 1
  BY PatternConstantsOK DEF BarHeight
<1>1. \/ \E k \in 0 .. n : /\ <<x, y>> \in BarChroma(w, h, k)
                           /\ \A j \in 0 .. n : <<x, y>> \in BarChroma(w, h, j) => j <= k
                           /\ s = BarPaint(k, Neutral)
      \/ \A k \in 0 .. n : <<x, y>> \notin BarChroma(w, h, k)
  BY DEF BarsSamples
<1>2. \A k \in 0 .. n : /\ k < n => (<<x, y>> \in BarChroma(w, h, k) <=> x \in HalfBarStart(w, k) .. HalfBarEnd(w, k) - 1 /\ y \in 0 .. half - 1)
                        /\ k = n => (<<x, y>> \in BarChroma(w, h, k) <=> x \in 0 .. W - 1 /\ y \in half .. h - 1 /\ y < H)
  BY InBar
<1>3. PICK i \in 0 .. n - 1 : HalfBarStart(w, i) <= x /\ x < HalfBarEnd(w, i)
  BY HalfBarColumns
<1>4. \A k \in 0 .. n - 1 : HalfBarStart(w, k) <= x /\ x < HalfBarEnd(w, k) =>
                               \E d \in {0, 1} : BarStart(w, k) <= 2 * x + d /\ 2 * x + d < BarEnd(w, k)
  BY HalfBarColumns
<1>5. \A k \in 0 .. n : HalfBarStart(w, k) \in Int /\ HalfBarEnd(w, k) \in Int
  <2> SUFFICES ASSUME NEW k \in 0 .. n PROVE HalfBarStart(w, k) \in Int /\ HalfBarEnd(w, k) \in Int
    OBVIOUS
  <2>1. BarWidth(w) \in Nat
    BY <1>0 DEF BarWidth
  <2>2. k * BarWidth(w) \in Nat /\ (k + 1) * BarWidth(w) \in Nat
    BY <1>0, <2>1
  <2>3. BarStart(w, k) \in Nat /\ BarEnd(w, k) \in Nat
    BY <2>2 DEF BarStart, BarEnd, Least
  <2>4. BarStart(w, k) \div 2 \in Int /\ BarEnd(w, k) \div 2 \in Int /\ W \in Int /\ Minus(W, 1) \in Int
    BY <1>0, <2>3 DEF Minus, Most
  <2> QED
    BY <2>4 DEF HalfBarStart, HalfBarEnd, Least, Most
<1>6. \A k \in 0 .. n : BarPaint(k, Neutral) = IF k < n THEN Bar(k) ELSE Neutral
  BY DEF BarPaint
<1>7. ASSUME NEW a \in 0 .. w - 1, NEW b \in 0 .. h - 1
      PROVE  /\ b >= barH => Sample(q.y, w, a, b) = Gradient
             /\ b < barH => \A k \in 0 .. n - 1 : BarStart(w, k) <= a /\ a < BarEnd(w, k) => Sample(q.y, w, a, b) = Bar(k)
  BY BarOfLuma
<1> HIDE DEF n, W, H, barH, half, s
<1>8. PICK k \in 0 .. n : /\ <<x, y>> \in BarChroma(w, h, k)
                          /\ \A j \in 0 .. n : <<x, y>> \in BarChroma(w, h, j) => j <= k
                          /\ s = BarPaint(k, Neutral)
  <2>1. \E k \in 0 .. n : <<x, y>> \in BarChroma(w, h, k)
    <3>1. CASE y < half
      <4>1. i \in 0 .. n /\ i < n /\ x \in HalfBarStart(w, i) .. HalfBarEnd(w, i) - 1 /\ y \in 0 .. half - 1
        BY <1>0, <1>3, <1>5, <3>1
      <4> QED
        BY <1>2, <4>1
    <3>2. CASE y >= half
      <4>1. n \in 0 .. n /\ x \in 0 .. W - 1 /\ y \in half .. h - 1 /\ y < H
        BY <1>0, <3>2
      <4> QED
        BY <1>2, <4>1
    <3> QED
      BY <1>0, <3>1, <3>2
  <2> QED
    BY <1>1, <2>1
<1>9. CASE k = n
  <2>1. y \in half .. h - 1
    BY <1>0, <1>2, <1>8, <1>9
  <2>2. s = Neutral
    BY <1>0, <1>6, <1>8, <1>9
  <2>3. 2 * x \in 0 .. w - 1 /\ 2 * y + 1 \in 0 .. h - 1 /\ 2 * y + 1 >= barH
    BY <1>0, <2>1
  <2>4. Sample(q.y, w, 2 * x, 2 * y + 1) = Gradient
    BY <1>7, <2>3
  <2> QED
    BY <2>2, <2>4 DEF s, W
<1>10. CASE k < n
  <2>1. k \in 0 .. n - 1 /\ x \in HalfBarStart(w, k) .. HalfBarEnd(w, k) - 1 /\ y \in 0 .. half - 1
    BY <1>0, <1>2, <1>8, <1>10
  <2>2. s = Bar(k)
    BY <1>6, <1>8, <1>10
  <2>3. HalfBarStart(w, k) <= x /\ x < HalfBarEnd(w, k)
    BY <1>5, <1>10, <2>1
  <2>4. PICK d \in {0, 1} : BarStart(w, k) <= 2 * x + d /\ 2 * x + d < BarEnd(w, k)
    BY <1>4, <2>1, <2>3
  <2>5. 2 * x + d \in 0 .. w - 1 /\ 2 * y \in 0 .. h - 1 /\ 2 * y < barH
    BY <1>0, <2>1
  <2>6. Sample(q.y, w, 2 * x + d, 2 * y) = Bar(k)
    BY <1>7, <2>1, <2>4, <2>5
  <2> QED
    BY <2>2, <2>6 DEF s, W
<1> QED
  BY <1>0, <1>8, <1>9, <1>10

\* Colour bars have their colour in place, and no text.
LEMMA BarsPicture ==
    ASSUME NEW q, NEW w \in Nat, NEW h \in Nat, w % 2 = 0, h % 2 = 0, BarsSamples(q, w, h), NEW events
    PROVE  NoText(q) /\ (w >= Bars => BarsColour(q, events))
<1> DEFINE W == w \div 2
           H == h \div 2
<1>1. Framed(q) /\ q.w = w /\ q.h = h /\ q.u = q.v /\ W \in Nat /\ H \in Nat
  BY DEF BarsSamples
<1>2. \A a \in Area(w, h) : a[1] \in 0 .. w - 1 /\ a[2] \in 0 .. h - 1 /\ a = <<a[1], a[2]>>
  BY AreaPair
<1>3. \A a \in Area(w, h) : LumaAt(q, a) = Sample(q.y, w, a[1], a[2])
  BY <1>1, SampleAt
<1>4. NoText(q)
  <2>1. ASSUME NEW a \in 0 .. w - 1, NEW b \in 0 .. h - 1 PROVE Sample(q.y, w, a, b) # Text
    <3>1. Sample(q.y, w, a, b) = Blank \/ \E k : Sample(q.y, w, a, b) = BarPaint(k, Gradient)
      BY DEF BarsSamples
    <3>2. Text # Blank /\ \A k : BarPaint(k, Gradient) # Text
      BY PaintsDiffer DEF BarPaint
    <3> QED
      BY <3>1, <3>2
  <2> QED
    BY <1>1, <1>2, <1>3, <2>1 DEF NoText
<1>5. ASSUME w >= Bars PROVE BarsColour(q, events)
  <2>1. \A a \in 0 .. w - 1, b \in 0 .. h - 1 : Sample(q.y, w, a, b) = Gradient \/ \E i : Sample(q.y, w, a, b) = Bar(i)
    BY <1>5, BarOfLuma
  <2>2. \A a \in Area(w, h) : LumaAt(q, a) \in {Gradient, Text, Label} \/ \E i : LumaAt(q, a) = Bar(i)
    BY <1>2, <1>3, <2>1
  <2>3. ASSUME NEW c \in Halves(q)
        PROVE  /\ CellChroma(q, c) = Neutral \/ \E i : CellChroma(q, c) = Bar(i)
               /\ \/ CellChroma(q, c) \in CellLuma(q, c)
                  \/ CellChroma(q, c) = Neutral /\ Gradient \in CellLuma(q, c)
    <3>1. Halves(q) = Area(W, H)
      BY <1>1 DEF Halves
    <3> DEFINE x == c[1]
               y == c[2]
    <3>2. x \in 0 .. W - 1 /\ y \in 0 .. H - 1
      BY <1>1, <3>1, AreaPair
    <3>3. CellChroma(q, c) = Sample(q.u, W, x, y)
      BY <1>1, SampleAt
    <3>4. /\ Block(x, y) \subseteq Area(w, h) /\ \A a \in Block(x, y) : LumaAt(q, a) \in CellLuma(q, c)
      BY <1>1, CellsInside
    <3>5. \A d, e \in {0, 1} : <<2 * x + d, 2 * y + e>> \in Block(x, y)
      BY <3>2 DEF Block
    <3>6. \/ Sample(q.u, W, x, y) = Neutral /\ Sample(q.y, w, 2 * x, 2 * y + 1) = Gradient
          \/ \E k : Sample(q.u, W, x, y) = Bar(k) /\ \E d \in {0, 1} : Sample(q.y, w, 2 * x + d, 2 * y) = Bar(k)
      BY <1>5, <3>2, BarOfCell
    <3>7. \A d, e \in {0, 1} : Sample(q.y, w, 2 * x + d, 2 * y + e) \in CellLuma(q, c)
      <4> SUFFICES ASSUME NEW d \in {0, 1}, NEW e \in {0, 1} PROVE Sample(q.y, w, 2 * x + d, 2 * y + e) \in CellLuma(q, c)
        OBVIOUS
      <4> DEFINE a == <<2 * x + d, 2 * y + e>>
      <4>1. a \in Block(x, y) /\ a \in Area(w, h) /\ a[1] = 2 * x + d /\ a[2] = 2 * y + e
        BY <3>4, <3>5
      <4> HIDE DEF a
      <4>2. LumaAt(q, a) = Sample(q.y, w, a[1], a[2]) /\ LumaAt(q, a) \in CellLuma(q, c)
        BY <1>3, <3>4, <4>1
      <4> QED
        BY <4>1, <4>2
    <3>8. 2 * x + 0 = 2 * x /\ 2 * y + 0 = 2 * y
      BY <3>2
    <3> HIDE DEF x, y
    <3>9. Sample(q.y, w, 2 * x, 2 * y + 1) \in CellLuma(q, c)
      BY <3>7, <3>8
    <3>10. \A d \in {0, 1} : Sample(q.y, w, 2 * x + d, 2 * y) \in CellLuma(q, c)
      BY <3>7, <3>8
    <3> QED
      BY <3>3, <3>6, <3>9, <3>10
  <2> QED
    BY <1>1, <2>2, <2>3 DEF BarsColour
<1> QED
  BY <1>4, <1>5

(***************************************************************************)
(* Squares: one of any size, or several even ones one over the other.      *)
(***************************************************************************)

SquareLuma(sqs, w, h, i) ==
    Rect(sqs[i].x, Least(sqs[i].x + sqs[i].size, w), sqs[i].y, Least(sqs[i].y + sqs[i].size, h))
HalfStart(x, half) == Least(x \div 2, Minus(half, 1))
HalfEnd(x, size, side, half) == Most(Least(Least(x + size, side) \div 2, half), HalfStart(x, half) + 1)
SquareChroma(sqs, w, h, i) ==
    Rect(HalfStart(sqs[i].x, w \div 2), HalfEnd(sqs[i].x, sqs[i].size, w, w \div 2),
         HalfStart(sqs[i].y, h \div 2), HalfEnd(sqs[i].y, sqs[i].size, h, h \div 2))
SquaredLuma(d, sqs, w, h) == Painted(Filled(d, Background), DOMAIN sqs, LAMBDA i : SquareLuma(sqs, w, h, i), Square)
SquaredChroma(d, sqs, w, h) == Painted(Filled(d, Neutral), DOMAIN sqs, LAMBDA i : SquareChroma(sqs, w, h, i), Square)

\* The squares, plane by plane.
LEMMA SquarePlanes ==
    ASSUME NEW p, NEW sqs
    PROVE  DrawnSquares(p, sqs) = [p EXCEPT !.y = SquaredLuma(p.y, sqs, p.w, p.h), !.u = SquaredChroma(p.u, sqs, p.w, p.h),
                                            !.v = SquaredChroma(p.v, sqs, p.w, p.h)]
BY DEF DrawnSquares, SquaredLuma, SquaredChroma, SquareLuma, SquareChroma, HalfStart, HalfEnd

\* A filled plane has one paint.
LEMMA FilledSamples ==
    ASSUME NEW w \in Nat, NEW h \in Nat, NEW d, PlaneOK(d, w, h), NEW paint
    PROVE  /\ PlaneOK(Filled(d, paint), w, h)
           /\ \A a \in 0 .. w - 1, b \in 0 .. h - 1 : Sample(Filled(d, paint), w, a, b) = paint
<1> DEFINE data == [i \in 0 .. w * h - 1 |-> paint]
<1>1. d = [stride |-> w, data |-> d.data] /\ DOMAIN d.data = 0 .. w * h - 1
  BY DEF PlaneOK
<1>2. Filled(d, paint) = [d EXCEPT !.data = data]
  BY <1>1 DEF Filled
<1>3. data = [i \in 0 .. w * h - 1 |-> data[i]] /\ \A i \in 0 .. w * h - 1 : data[i] = paint
  OBVIOUS
<1> HIDE DEF data
<1>4. [d EXCEPT !.data = data] = [stride |-> w, data |-> data]
  <2>1. PICK f : d = [stride |-> w, data |-> f]
    BY <1>1
  <2> QED
    BY <2>1
<1>5. Filled(d, paint).data = data /\ PlaneOK(Filled(d, paint), w, h)
  BY <1>2, <1>3, <1>4 DEF PlaneOK
<1>6. \A a \in 0 .. w - 1, b \in 0 .. h - 1 : b * w + a \in 0 .. w * h - 1
  BY IndexInside
<1> QED
  BY <1>3, <1>5, <1>6 DEF Sample

\* A place that rectangles cover has the paint of the last of them.
LEMMA SquaresOnLuma ==
    ASSUME NEW w \in Nat, NEW h \in Nat, NEW e, PlaneOK(e, w, h),
           NEW sqs, NEW n \in Nat, DOMAIN sqs = 1 .. n,
           \A k \in DOMAIN sqs : SquareLuma(sqs, w, h, k) \subseteq Area(w, h)
    PROVE  /\ PlaneOK(SquaredLuma(e, sqs, w, h), w, h)
           /\ \A a \in 0 .. w - 1, b \in 0 .. h - 1 :
                 \/ \E k \in DOMAIN sqs : /\ <<a, b>> \in SquareLuma(sqs, w, h, k)
                                         /\ \A j \in DOMAIN sqs : <<a, b>> \in SquareLuma(sqs, w, h, j) => j <= k
                                         /\ Sample(SquaredLuma(e, sqs, w, h), w, a, b) = Square(k)
                 \/ /\ \A k \in DOMAIN sqs : <<a, b>> \notin SquareLuma(sqs, w, h, k)
                    /\ Sample(SquaredLuma(e, sqs, w, h), w, a, b) = Background
<1> DEFINE d == Filled(e, Background)
           ks == DOMAIN sqs
           Of(k) == SquareLuma(sqs, w, h, k)
           all == UNION {Of(k) : k \in ks}
           at == {Index(d.stride, c) : c \in all}
           Pick(i) == CHOOSE c \in all : Index(d.stride, c) = i
           Top(c) == CHOOSE k \in ks : c \in Of(k) /\ \A j \in ks : c \in Of(j) => j <= k
           Val(k) == Square(k)
           v == [c \in all |-> Val(Top(c))]
           r == SquaredLuma(e, sqs, w, h)
<1>0. PlaneOK(d, w, h) /\ \A a \in 0 .. w - 1, b \in 0 .. h - 1 : Sample(d, w, a, b) = Background
  BY FilledSamples
<1>1. r = Laid(d, d.stride, all, v)
  <2>1. \A i \in at : v[Pick(i)] = Val(Top(Pick(i)))
    <3>1. \A i \in at : Pick(i) \in all
      OBVIOUS
    <3> HIDE DEF at, Pick, all, Val, Top
    <3> QED
      BY <3>1
  <2>2. [i \in DOMAIN d.data \cup at |-> IF i \in at THEN Val(Top(Pick(i))) ELSE d.data[i]]
          = [i \in DOMAIN d.data \cup at |-> IF i \in at THEN v[Pick(i)] ELSE d.data[i]]
    <3> HIDE DEF v, at, Pick, Val, Top
    <3> QED
      BY <2>1
  <2> QED
    BY <2>2, Zenon DEF Written, Laid, Painted, SquaredLuma
<1>2. all \subseteq Area(w, h) /\ d.stride = w
  BY <1>0 DEF PlaneOK
<1>3. ASSUME NEW c \in all
      PROVE  Top(c) \in ks /\ c \in Of(Top(c)) /\ \A j \in ks : c \in Of(j) => j <= Top(c)
  <2> DEFINE S == {k \in ks : c \in Of(k)}
  <2>1. PICK x \in ks : c \in Of(x)
    BY <1>3
  <2> HIDE DEF Of
  <2>2. S \subseteq 0 .. n /\ x \in S
    BY <2>1
  <2> HIDE DEF S
  <2>3. PICK k \in S : \A j \in S : j <= k
    BY <2>2, LastOf
  <2>4. \E t \in ks : c \in Of(t) /\ \A j \in ks : c \in Of(j) => j <= t
    BY <2>3 DEF S
  <2> QED
    BY <2>4
<1>4. \A c \in all : v[c] = Val(Top(c))
  OBVIOUS
<1>5. \A c : c \notin all => \A k \in ks : c \notin Of(k)
  OBVIOUS
<1> HIDE DEF d, ks, all, Top, Of, Val, v, r
<1>6. /\ PlaneOK(Laid(d, d.stride, all, v), w, h)
      /\ \A a \in 0 .. w - 1, b \in 0 .. h - 1 :
            Sample(Laid(d, d.stride, all, v), w, a, b) = IF <<a, b>> \in all THEN v[<<a, b>>] ELSE Sample(d, w, a, b)
  <2> DEFINE stride == d.stride
  <2>1. w \in Nat /\ h \in Nat /\ PlaneOK(d, w, h) /\ stride = w /\ all \subseteq Area(w, h)
    BY <1>0, <1>2
  <2> HIDE DEF stride
  <2>2. LaidShown(d, stride, all, v, w, h)
    BY <2>1, LaidIsShown, Zenon
  <2> QED
    BY <2>2 DEF stride, LaidShown
<1>7. ASSUME NEW a \in 0 .. w - 1, NEW b \in 0 .. h - 1
      PROVE  \/ \E k \in ks : /\ <<a, b>> \in Of(k) /\ \A j \in ks : <<a, b>> \in Of(j) => j <= k
                              /\ Sample(r, w, a, b) = Val(k)
             \/ (\A k \in ks : <<a, b>> \notin Of(k)) /\ Sample(r, w, a, b) = Sample(d, w, a, b)
  <2> DEFINE c == <<a, b>>
  <2>1. Sample(r, w, a, b) = IF c \in all THEN v[c] ELSE Sample(d, w, a, b)
    BY <1>1, <1>6
  <2> HIDE DEF c
  <2>2. CASE c \in all
    <3>1. Sample(r, w, a, b) = Val(Top(c))
      BY <1>4, <2>1, <2>2
    <3> QED
      BY <1>3, <2>2, <3>1 DEF c
  <2>3. CASE c \notin all
    BY <1>5, <2>1, <2>3 DEF c
  <2> QED
    BY <2>2, <2>3
<1> QED
  BY <1>0, <1>1, <1>6, <1>7 DEF ks, Of, Val, r


\* A place that rectangles cover has the paint of the last of them.
ChromaSquares(r, sqs, w, h, m, l) ==
    /\ PlaneOK(r, m, l)
    /\ \A a \in 0 .. m - 1, b \in 0 .. l - 1 :
          \/ \E k \in DOMAIN sqs : /\ <<a, b>> \in SquareChroma(sqs, w, h, k)
                                   /\ \A j \in DOMAIN sqs : <<a, b>> \in SquareChroma(sqs, w, h, j) => j <= k
                                   /\ Sample(r, m, a, b) = Square(k)
          \/ (\A k \in DOMAIN sqs : <<a, b>> \notin SquareChroma(sqs, w, h, k)) /\ Sample(r, m, a, b) = Neutral

\* The same of the chroma planes.
LEMMA SquaresOnChroma ==
    ASSUME NEW w, NEW h, NEW m, NEW l, NEW e, NEW sqs, NEW n,
           /\ m \in Nat /\ l \in Nat /\ PlaneOK(e, m, l) /\ n \in Nat /\ DOMAIN sqs = 1 .. n
           /\ \A k \in DOMAIN sqs : SquareChroma(sqs, w, h, k) \subseteq Area(m, l)
    PROVE  ChromaSquares(SquaredChroma(e, sqs, w, h), sqs, w, h, m, l)
<1>a. m \in Nat /\ l \in Nat /\ PlaneOK(e, m, l) /\ n \in Nat /\ DOMAIN sqs = 1 .. n
  OBVIOUS
<1> DEFINE d == Filled(e, Neutral)
           ks == DOMAIN sqs
           Of(k) == SquareChroma(sqs, w, h, k)
           all == UNION {Of(k) : k \in ks}
           at == {Index(d.stride, c) : c \in all}
           Pick(i) == CHOOSE c \in all : Index(d.stride, c) = i
           Top(c) == CHOOSE k \in ks : c \in Of(k) /\ \A j \in ks : c \in Of(j) => j <= k
           Val(k) == Square(k)
           v == [c \in all |-> Val(Top(c))]
           r == SquaredChroma(e, sqs, w, h)
<1>0. PlaneOK(d, m, l) /\ \A a \in 0 .. m - 1, b \in 0 .. l - 1 : Sample(d, m, a, b) = Neutral
  BY <1>a, FilledSamples
<1>1. r = Laid(d, d.stride, all, v)
  <2>1. \A i \in at : v[Pick(i)] = Val(Top(Pick(i)))
    <3>1. \A i \in at : Pick(i) \in all
      OBVIOUS
    <3> HIDE DEF at, Pick, all, Val, Top
    <3> QED
      BY <3>1
  <2>2. [i \in DOMAIN d.data \cup at |-> IF i \in at THEN Val(Top(Pick(i))) ELSE d.data[i]]
          = [i \in DOMAIN d.data \cup at |-> IF i \in at THEN v[Pick(i)] ELSE d.data[i]]
    <3> HIDE DEF v, at, Pick, Val, Top
    <3> QED
      BY <2>1
  <2> QED
    BY <2>2, Zenon DEF Written, Laid, Painted, SquaredChroma
<1>2. all \subseteq Area(m, l) /\ d.stride = m
  BY <1>a, <1>0 DEF PlaneOK
<1>3. ASSUME NEW c \in all
      PROVE  Top(c) \in ks /\ c \in Of(Top(c)) /\ \A j \in ks : c \in Of(j) => j <= Top(c)
  <2> DEFINE S == {k \in ks : c \in Of(k)}
  <2>1. PICK x \in ks : c \in Of(x)
    BY <1>3
  <2> HIDE DEF Of
  <2>2. S \subseteq 0 .. n /\ x \in S
    BY <1>a, <2>1
  <2> HIDE DEF S
  <2>3. PICK k \in S : \A j \in S : j <= k
    BY <1>a, <2>2, LastOf
  <2>4. \E t \in ks : c \in Of(t) /\ \A j \in ks : c \in Of(j) => j <= t
    BY <2>3 DEF S
  <2> QED
    BY <2>4
<1>4. \A c \in all : v[c] = Val(Top(c))
  OBVIOUS
<1>5. \A c : c \notin all => \A k \in ks : c \notin Of(k)
  OBVIOUS
<1> HIDE DEF d, ks, all, Top, Of, Val, v, r
<1>6. /\ PlaneOK(Laid(d, d.stride, all, v), m, l)
      /\ \A a \in 0 .. m - 1, b \in 0 .. l - 1 :
            Sample(Laid(d, d.stride, all, v), m, a, b) = IF <<a, b>> \in all THEN v[<<a, b>>] ELSE Sample(d, m, a, b)
  <2> DEFINE stride == d.stride
  <2>1. m \in Nat /\ l \in Nat /\ PlaneOK(d, m, l) /\ stride = m /\ all \subseteq Area(m, l)
    BY <1>a, <1>0, <1>2
  <2> HIDE DEF stride
  <2>2. LaidShown(d, stride, all, v, m, l)
    BY <2>1, LaidIsShown, Zenon
  <2> QED
    BY <2>2 DEF stride, LaidShown
<1>7. ASSUME NEW a \in 0 .. m - 1, NEW b \in 0 .. l - 1
      PROVE  \/ \E k \in ks : /\ <<a, b>> \in Of(k) /\ \A j \in ks : <<a, b>> \in Of(j) => j <= k
                              /\ Sample(r, m, a, b) = Val(k)
             \/ (\A k \in ks : <<a, b>> \notin Of(k)) /\ Sample(r, m, a, b) = Sample(d, m, a, b)
  <2> DEFINE c == <<a, b>>
  <2>1. Sample(r, m, a, b) = IF c \in all THEN v[c] ELSE Sample(d, m, a, b)
    BY <1>1, <1>6
  <2> HIDE DEF c
  <2>2. CASE c \in all
    <3>1. Sample(r, m, a, b) = Val(Top(c))
      BY <1>4, <2>1, <2>2
    <3> QED
      BY <1>3, <2>2, <3>1 DEF c
  <2>3. CASE c \notin all
    BY <1>5, <2>1, <2>3 DEF c
  <2> QED
    BY <2>2, <2>3
<1> QED
  BY <1>0, <1>1, <1>6, <1>7 DEF ks, Of, Val, r, ChromaSquares


\* Bars and squares are painted in none of the greys of a text.
LEMMA PaintsApart ==
    /\ \A i : Bar(i) # Text /\ Bar(i) # Blank /\ Square(i) # Text /\ Square(i) # Blank
    /\ Gradient # Text /\ Gradient # Blank /\ Background # Text /\ Background # Blank
    /\ Text # Blank /\ Label # Text /\ Label # Blank /\ Neutral # Blank
<1>1. \A i : <<-2, i>> \in Bar(i) /\ <<-3, i>> \in Square(i)
  BY DEF Bar, Square
<1>2. Text = {<<-4, 2>>} /\ Gradient = {<<-4, 1>>} /\ Background = {<<-4, 0>>} /\ Label = {<<-4, 3>>} /\ Neutral = {<<-5, 0>>} /\ Blank = {}
  BY DEF Background, Gradient, Text, Label, Neutral, Blank
<1>3. \A i : <<-2, i>>[1] = -2 /\ <<-3, i>>[1] = -3
  OBVIOUS
<1>4. \A i : <<-2, i>> \notin Text /\ <<-3, i>> \notin Text
  <2>1. \A x \in Text : x[1] = -4
    BY <1>2
  <2> QED
    BY <1>3, <2>1
<1>5. <<-4, 0>> # <<-4, 2>> /\ <<-4, 1>> # <<-4, 2>> /\ <<-4, 3>> # <<-4, 2>>
  OBVIOUS
<1> QED
  BY <1>1, <1>2, <1>4, <1>5

\* A square's span on one axis, in luma and in chroma.
LEMMA SquareSpan ==
    ASSUME NEW side \in Nat, NEW half \in Nat, side = 2 * half, half >= 1,
           NEW x \in Nat, NEW size \in Nat, x <= Minus(side, size)
    PROVE  LET e == Least(x + size, side) IN
           /\ e \in Nat /\ e <= side /\ HalfStart(x, half) \in Nat
           /\ HalfEnd(x, size, side, half) \in Nat /\ HalfEnd(x, size, side, half) <= half
           /\ size >= 1 => \A c \in 0 .. half - 1 :
                 /\ c \in HalfStart(x, half) .. HalfEnd(x, size, side, half) - 1 => \E d \in {0, 1} : 2 * c + d \in x .. e - 1
                 /\ c \notin HalfStart(x, half) .. HalfEnd(x, size, side, half) - 1 => \E d \in {0, 1} : 2 * c + d \notin x .. e - 1
                 /\ x % 2 = 0 /\ size % 2 = 0 =>
                       (c \in HalfStart(x, half) .. HalfEnd(x, size, side, half) - 1 <=> 2 * c \in x .. e - 1)
<1> DEFINE e == Least(x + size, side)
           l == HalfStart(x, half)
           r == HalfEnd(x, size, side, half)
<1>1. e \in Nat /\ e <= side /\ (e = side \/ e = x + size)
  BY DEF Least
<1>2. Minus(half, 1) = half - 1 /\ x \div 2 \in Nat
  BY DEF Minus, Most
<1>3. l \in Nat /\ l <= half - 1 /\ (l = x \div 2 \/ (l = half - 1 /\ half - 1 < x \div 2))
  BY <1>2 DEF HalfStart, Least
<1>4. r = Most(Least(e \div 2, half), l + 1)
  BY DEF HalfEnd
<1> HIDE DEF e, l, r
<1>5. e \div 2 \in Nat /\ e \div 2 <= half
  BY <1>1
<1>6. r = Most(e \div 2, l + 1)
  BY <1>4, <1>5 DEF Least
<1>7. r \in Nat /\ r <= half
  BY <1>3, <1>5, <1>6 DEF Most
<1>8. ASSUME size >= 1, NEW c \in 0 .. half - 1
      PROVE  /\ c \in l .. r - 1 => \E d \in {0, 1} : 2 * c + d \in x .. e - 1
             /\ c \notin l .. r - 1 => \E d \in {0, 1} : 2 * c + d \notin x .. e - 1
             /\ x % 2 = 0 /\ size % 2 = 0 => (c \in l .. r - 1 <=> 2 * c \in x .. e - 1)
  <2>1. x <= side - 1
    BY <1>8 DEF Minus, Most
  <2>2. l = x \div 2 /\ x < e
    BY <1>1, <1>3, <1>8, <2>1
  <2>3. c \in l .. r - 1 <=> x \div 2 <= c /\ (c < e \div 2 \/ c = x \div 2)
    BY <1>3, <1>5, <1>6, <2>2 DEF Most
  <2>4. ASSUME x \div 2 <= c, c < e \div 2 \/ c = x \div 2 PROVE \E d \in {0, 1} : 2 * c + d \in x .. e - 1
    <3>1. CASE c < e \div 2
      <4>1. 2 * c + 1 \in x .. e - 1
        BY <1>1, <2>4, <3>1
      <4> QED
        BY <4>1
    <3>2. CASE c = x \div 2
      <4>1. 2 * c + 0 = x \/ 2 * c + 1 = x
        BY <3>2
      <4>2. x \in x .. e - 1
        BY <1>1, <2>2
      <4> QED
        BY <4>1, <4>2
    <3> QED
      BY <2>4, <3>1, <3>2
  <2>5. ASSUME ~(x \div 2 <= c /\ (c < e \div 2 \/ c = x \div 2)) PROVE \E d \in {0, 1} : 2 * c + d \notin x .. e - 1
    <3>1. CASE c < x \div 2
      <4>1. 2 * c + 0 \notin x .. e - 1
        BY <1>1, <3>1
      <4> QED
        BY <4>1
    <3>2. CASE x \div 2 <= c
      <4>1. e \div 2 <= c
        BY <1>5, <2>5, <3>2
      <4>2. 2 * c + 1 \notin x .. e - 1
        BY <1>1, <4>1
      <4> QED
        BY <4>2
    <3> QED
      BY <1>2, <3>1, <3>2
  <2>6. ASSUME x % 2 = 0, size % 2 = 0 PROVE x \div 2 <= c /\ (c < e \div 2 \/ c = x \div 2) <=> 2 * c \in x .. e - 1
    <3>1. e % 2 = 0
      BY <1>1, <2>6
    <3>2. x = 2 * (x \div 2) /\ e = 2 * (e \div 2)
      BY <1>1, <2>6, <3>1
    <3>3. x \div 2 < e \div 2
      BY <1>2, <1>5, <2>2, <3>2
    <3> QED
      BY <1>1, <1>2, <1>5, <3>2, <3>3
  <2> QED
    BY <2>3, <2>4, <2>5, <2>6
<1> QED
  BY <1>1, <1>3, <1>7, <1>8 DEF e, l, r

\* Squares that are in their places.
Placed(sqs, n, w, h) ==
    /\ n \in Nat /\ DOMAIN sqs = 1 .. n
    /\ \A k \in 1 .. n : /\ sqs[k].x \in Nat /\ sqs[k].y \in Nat /\ sqs[k].size \in Nat
                         /\ sqs[k].x <= Minus(w, sqs[k].size) /\ sqs[k].y <= Minus(h, sqs[k].size)

\* A frame that shows the last square at every place, in luma and in chroma.
SquareSamples(q, sqs, w, h) ==
    /\ Framed(q) /\ q.w = w /\ q.h = h /\ q.u = q.v
    /\ \A a \in 0 .. w - 1, b \in 0 .. h - 1 :
          \/ \E k \in DOMAIN sqs : /\ <<a, b>> \in SquareLuma(sqs, w, h, k)
                                   /\ \A j \in DOMAIN sqs : <<a, b>> \in SquareLuma(sqs, w, h, j) => j <= k
                                   /\ Sample(q.y, w, a, b) = Square(k)
          \/ (\A k \in DOMAIN sqs : <<a, b>> \notin SquareLuma(sqs, w, h, k)) /\ Sample(q.y, w, a, b) = Background
    /\ \A a \in 0 .. (w \div 2) - 1, b \in 0 .. (h \div 2) - 1 :
          \/ \E k \in DOMAIN sqs : /\ <<a, b>> \in SquareChroma(sqs, w, h, k)
                                   /\ \A j \in DOMAIN sqs : <<a, b>> \in SquareChroma(sqs, w, h, j) => j <= k
                                   /\ Sample(q.u, w \div 2, a, b) = Square(k)
          \/ (\A k \in DOMAIN sqs : <<a, b>> \notin SquareChroma(sqs, w, h, k)) /\ Sample(q.u, w \div 2, a, b) = Neutral

\* Squares in their places are inside the frame, and so is their chroma.
LEMMA SquaresInside ==
    ASSUME NEW w \in Nat, NEW h \in Nat, w % 2 = 0, h % 2 = 0, w >= 2, h >= 2, NEW sqs, NEW n, Placed(sqs, n, w, h),
           NEW k \in DOMAIN sqs
    PROVE  /\ SquareLuma(sqs, w, h, k) \subseteq Area(w, h)
           /\ SquareChroma(sqs, w, h, k) \subseteq Area(w \div 2, h \div 2)
<1> DEFINE W == w \div 2
           H == h \div 2
           x == sqs[k].x
           y == sqs[k].y
           z == sqs[k].size
<1>1. W \in Nat /\ H \in Nat /\ W >= 1 /\ H >= 1 /\ w = 2 * W /\ h = 2 * H
  OBVIOUS
<1>2. x \in Nat /\ y \in Nat /\ z \in Nat /\ x <= Minus(w, z) /\ y <= Minus(h, z)
  BY DEF Placed
<1>3. SquareLuma(sqs, w, h, k) = Rect(x, Least(x + z, w), y, Least(y + z, h))
  BY DEF SquareLuma
<1>4. SquareChroma(sqs, w, h, k) = Rect(HalfStart(x, W), HalfEnd(x, z, w, W), HalfStart(y, H), HalfEnd(y, z, h, H))
  BY DEF SquareChroma
<1> HIDE DEF W, H, x, y, z
<1>5. Least(x + z, w) \in Nat /\ Least(x + z, w) <= w /\ HalfStart(x, W) \in Nat /\ HalfEnd(x, z, w, W) \in Nat /\ HalfEnd(x, z, w, W) <= W
  BY <1>1, <1>2, SquareSpan
<1>6. Least(y + z, h) \in Nat /\ Least(y + z, h) <= h /\ HalfStart(y, H) \in Nat /\ HalfEnd(y, z, h, H) \in Nat /\ HalfEnd(y, z, h, H) <= H
  BY <1>1, <1>2, SquareSpan
<1>7. Rect(x, Least(x + z, w), y, Least(y + z, h)) \subseteq Area(w, h)
  BY <1>2, <1>5, <1>6, RectIn
<1>8. Rect(HalfStart(x, W), HalfEnd(x, z, w, W), HalfStart(y, H), HalfEnd(y, z, h, H)) \subseteq Area(W, H)
  BY <1>1, <1>5, <1>6, RectIn
<1> QED
  BY <1>3, <1>4, <1>7, <1>8 DEF W, H

\* The squares on a new even frame, sample by sample.
LEMMA SquaresAreSamples ==
    ASSUME NEW w \in Nat, NEW h \in Nat, w % 2 = 0, h % 2 = 0, w >= 2, h >= 2, NEW sqs, NEW m, Placed(sqs, m, w, h)
    PROVE  SquareSamples(DrawnSquares(I420New(w, h), sqs), sqs, w, h)
<1> DEFINE n == I420New(w, h)
           q == DrawnSquares(n, sqs)
           y == SquaredLuma(n.y, sqs, w, h)
           u == SquaredChroma(n.u, sqs, w, h)
           W == w \div 2
           H == h \div 2
<1>1. PlaneOK(n.y, w, h) /\ PlaneOK(n.u, W, H) /\ n.w = w /\ n.h = h /\ n.u = n.v /\ W \in Nat /\ H \in Nat
  <2>1. n.w = w /\ n.h = h /\ n.u = n.v
    BY DEF I420New
  <2> HIDE DEF n
  <2>2. PlaneOK(n.y, w, h) /\ PlaneOK(n.u, W, H)
    BY PlanesOfNew DEF n
  <2> QED
    BY <2>1, <2>2
<1>2. q = [w |-> w, h |-> h, y |-> y, u |-> u, v |-> u]
  <2>1. q = [n EXCEPT !.y = SquaredLuma(n.y, sqs, n.w, n.h), !.u = SquaredChroma(n.u, sqs, n.w, n.h), !.v = SquaredChroma(n.v, sqs, n.w, n.h)]
    BY SquarePlanes
  <2>2. q = [n EXCEPT !.y = y, !.u = u, !.v = u]
    BY <1>1, <2>1
  <2>3. \A a, b, c : [n EXCEPT !.y = a, !.u = b, !.v = c] = [w |-> w, h |-> h, y |-> a, u |-> b, v |-> c]
    BY NewReplaced
  <2> HIDE DEF n, q, y, u
  <2> QED
    BY <2>2, <2>3, Zenon
<1>3. \A j \in DOMAIN sqs : SquareLuma(sqs, w, h, j) \subseteq Area(w, h) /\ SquareChroma(sqs, w, h, j) \subseteq Area(W, H)
  BY SquaresInside
<1>4. m \in Nat /\ DOMAIN sqs = 1 .. m
  BY DEF Placed
<1> HIDE DEF n, q, W, H
<1>5. /\ PlaneOK(y, w, h)
      /\ \A a \in 0 .. w - 1, b \in 0 .. h - 1 :
            \/ \E k \in DOMAIN sqs : /\ <<a, b>> \in SquareLuma(sqs, w, h, k)
                                     /\ \A j \in DOMAIN sqs : <<a, b>> \in SquareLuma(sqs, w, h, j) => j <= k
                                     /\ Sample(y, w, a, b) = Square(k)
            \/ (\A k \in DOMAIN sqs : <<a, b>> \notin SquareLuma(sqs, w, h, k)) /\ Sample(y, w, a, b) = Background
  <2> DEFINE e == n.y
  <2>1. w \in Nat /\ h \in Nat /\ PlaneOK(e, w, h) /\ m \in Nat /\ DOMAIN sqs = 1 .. m /\ \A k \in DOMAIN sqs : SquareLuma(sqs, w, h, k) \subseteq Area(w, h)
    BY <1>1, <1>3, <1>4
  <2> HIDE DEF e
  <2> QED
    BY <2>1, SquaresOnLuma, Zenon DEF e
<1>6. /\ PlaneOK(u, W, H)
      /\ \A a \in 0 .. W - 1, b \in 0 .. H - 1 :
            \/ \E k \in DOMAIN sqs : /\ <<a, b>> \in SquareChroma(sqs, w, h, k)
                                     /\ \A j \in DOMAIN sqs : <<a, b>> \in SquareChroma(sqs, w, h, j) => j <= k
                                     /\ Sample(u, W, a, b) = Square(k)
            \/ (\A k \in DOMAIN sqs : <<a, b>> \notin SquareChroma(sqs, w, h, k)) /\ Sample(u, W, a, b) = Neutral
  <2> DEFINE e == n.u
  <2>1. /\ W \in Nat /\ H \in Nat /\ PlaneOK(e, W, H) /\ m \in Nat /\ DOMAIN sqs = 1 .. m
        /\ \A k \in DOMAIN sqs : SquareChroma(sqs, w, h, k) \subseteq Area(W, H)
    BY <1>1, <1>3, <1>4
  <2> HIDE DEF e
  <2>2. ChromaSquares(SquaredChroma(e, sqs, w, h), sqs, w, h, W, H)
    BY <2>1, SquaresOnChroma, Zenon
  <2> QED
    BY <2>2 DEF e, ChromaSquares
<1> HIDE DEF y, u
<1>7. Framed(q) /\ q.w = w /\ q.h = h /\ q.y = y /\ q.u = u /\ q.v = u
  BY <1>2, <1>5, <1>6, FramedOf DEF W, H
<1> QED
  BY <1>5, <1>6, <1>7 DEF SquareSamples, q, n, W, H

\* A cell of a square's chroma has a luma sample in the square, and one that is
\* not has one outside; where all is even, they go together.
LEMMA InSquare ==
    ASSUME NEW w \in Nat, NEW h \in Nat, w % 2 = 0, h % 2 = 0, w >= 2, h >= 2, NEW sqs, NEW n, Placed(sqs, n, w, h),
           NEW k \in DOMAIN sqs, sqs[k].size >= 1, NEW a \in 0 .. (w \div 2) - 1, NEW b \in 0 .. (h \div 2) - 1
    PROVE  /\ <<a, b>> \in SquareChroma(sqs, w, h, k) =>
                 \E d, e \in {0, 1} : <<2 * a + d, 2 * b + e>> \in SquareLuma(sqs, w, h, k)
           /\ <<a, b>> \notin SquareChroma(sqs, w, h, k) =>
                 \E d, e \in {0, 1} : <<2 * a + d, 2 * b + e>> \notin SquareLuma(sqs, w, h, k)
           /\ sqs[k].x % 2 = 0 /\ sqs[k].y % 2 = 0 /\ sqs[k].size % 2 = 0 =>
                 (<<a, b>> \in SquareChroma(sqs, w, h, k) <=> <<2 * a, 2 * b>> \in SquareLuma(sqs, w, h, k))
<1> DEFINE W == w \div 2
           H == h \div 2
           x == sqs[k].x
           y == sqs[k].y
           z == sqs[k].size
           X == x .. Least(x + z, w) - 1
           Y == y .. Least(y + z, h) - 1
           U == HalfStart(x, W) .. HalfEnd(x, z, w, W) - 1
           V == HalfStart(y, H) .. HalfEnd(y, z, h, H) - 1
<1>1. W \in Nat /\ H \in Nat /\ W >= 1 /\ H >= 1 /\ w = 2 * W /\ h = 2 * H /\ a \in 0 .. W - 1 /\ b \in 0 .. H - 1
  OBVIOUS
<1>2. x \in Nat /\ y \in Nat /\ z \in Nat /\ z >= 1 /\ x <= Minus(w, z) /\ y <= Minus(h, z)
  BY DEF Placed
<1>3. \A c, d : <<c, d>> \in SquareLuma(sqs, w, h, k) <=> c \in X /\ d \in Y
  BY RectPair DEF SquareLuma
<1>4. <<a, b>> \in SquareChroma(sqs, w, h, k) <=> a \in U /\ b \in V
  BY RectPair DEF SquareChroma
<1> HIDE DEF W, H, x, y, z
<1>5. /\ a \in U => \E d \in {0, 1} : 2 * a + d \in X
      /\ a \notin U => \E d \in {0, 1} : 2 * a + d \notin X
      /\ x % 2 = 0 /\ z % 2 = 0 => (a \in U <=> 2 * a \in X)
  BY <1>1, <1>2, SquareSpan
<1>6. /\ b \in V => \E d \in {0, 1} : 2 * b + d \in Y
      /\ b \notin V => \E d \in {0, 1} : 2 * b + d \notin Y
      /\ y % 2 = 0 /\ z % 2 = 0 => (b \in V <=> 2 * b \in Y)
  BY <1>1, <1>2, SquareSpan
<1> HIDE DEF X, Y, U, V
<1>7. <<a, b>> \in SquareChroma(sqs, w, h, k) => \E d, e \in {0, 1} : <<2 * a + d, 2 * b + e>> \in SquareLuma(sqs, w, h, k)
  BY <1>3, <1>4, <1>5, <1>6
<1>8. <<a, b>> \notin SquareChroma(sqs, w, h, k) => \E d, e \in {0, 1} : <<2 * a + d, 2 * b + e>> \notin SquareLuma(sqs, w, h, k)
  BY <1>3, <1>4, <1>5, <1>6
<1>9. x % 2 = 0 /\ y % 2 = 0 /\ z % 2 = 0 => (<<a, b>> \in SquareChroma(sqs, w, h, k) <=> <<2 * a, 2 * b>> \in SquareLuma(sqs, w, h, k))
  BY <1>3, <1>4, <1>5, <1>6
<1> QED
  BY <1>7, <1>8, <1>9 DEF x, y, z

\* The one square, or the even squares, of a chroma cell are those of its luma.
LEMMA SquareOfCell ==
    ASSUME NEW q, NEW w \in Nat, NEW h \in Nat, w % 2 = 0, h % 2 = 0, w >= 2, h >= 2, NEW sqs, NEW n, Placed(sqs, n, w, h),
           SquareSamples(q, sqs, w, h), \A k \in DOMAIN sqs : sqs[k].size >= 1,
           n = 1 \/ \A k \in DOMAIN sqs : sqs[k].x % 2 = 0 /\ sqs[k].y % 2 = 0 /\ sqs[k].size % 2 = 0,
           NEW x \in 0 .. (w \div 2) - 1, NEW y \in 0 .. (h \div 2) - 1
    PROVE  LET s == Sample(q.u, w \div 2, x, y)
               Shade(d, e) == Sample(q.y, w, 2 * x + d, 2 * y + e)
           IN  \/ s = Neutral /\ \E d, e \in {0, 1} : Shade(d, e) = Background
               \/ \E d, e \in {0, 1} : s = Shade(d, e)
<1> DEFINE W == w \div 2
           H == h \div 2
           s == Sample(q.u, W, x, y)
           L(d, e) == Sample(q.y, w, 2 * x + d, 2 * y + e)
           Place(d, e) == <<2 * x + d, 2 * y + e>>
           c == <<x, y>>
           ks == DOMAIN sqs
           Luma2(k) == SquareLuma(sqs, w, h, k)
           Chroma2(k) == SquareChroma(sqs, w, h, k)
<1>1. n \in Nat /\ ks = 1 .. n
  BY DEF Placed
<1>2. \A d, e \in {0, 1} : 2 * x + d \in 0 .. w - 1 /\ 2 * y + e \in 0 .. h - 1
  OBVIOUS
<1>3. \A d, e \in {0, 1} :
         \/ \E k \in ks : Place(d, e) \in Luma2(k) /\ (\A j \in ks : Place(d, e) \in Luma2(j) => j <= k) /\ L(d, e) = Square(k)
         \/ (\A k \in ks : Place(d, e) \notin Luma2(k)) /\ L(d, e) = Background
  BY <1>2 DEF SquareSamples
<1>4. \/ \E k \in ks : c \in Chroma2(k) /\ (\A j \in ks : c \in Chroma2(j) => j <= k) /\ s = Square(k)
      \/ (\A k \in ks : c \notin Chroma2(k)) /\ s = Neutral
  BY DEF SquareSamples
<1>5. ASSUME NEW k \in ks
      PROVE  /\ c \in Chroma2(k) => \E d, e \in {0, 1} : Place(d, e) \in Luma2(k)
             /\ c \notin Chroma2(k) => \E d, e \in {0, 1} : Place(d, e) \notin Luma2(k)
  BY InSquare
<1>6. n = 1 \/ \A k \in ks : c \in Chroma2(k) <=> Place(0, 0) \in Luma2(k)
  <2>1. CASE n # 1
    <3> SUFFICES ASSUME NEW k \in ks PROVE c \in Chroma2(k) <=> Place(0, 0) \in Luma2(k)
      OBVIOUS
    <3>1. c \in Chroma2(k) <=> <<2 * x, 2 * y>> \in Luma2(k)
      BY <2>1, InSquare
    <3>2. 2 * x + 0 = 2 * x /\ 2 * y + 0 = 2 * y
      OBVIOUS
    <3> QED
      BY <3>1, <3>2
  <2> QED
    BY <2>1
<1> HIDE DEF W, H, s, L, Place, c, ks, Luma2, Chroma2
<1>7. \/ s = Neutral /\ \E d, e \in {0, 1} : L(d, e) = Background
      \/ \E d, e \in {0, 1} : s = L(d, e)
  <2>1. CASE n = 1
    <3>1. ks = {1} /\ 1 \in ks
      BY <1>1, <2>1
    <3>2. \A d, e \in {0, 1} : \/ Place(d, e) \in Luma2(1) /\ L(d, e) = Square(1)
                               \/ Place(d, e) \notin Luma2(1) /\ L(d, e) = Background
      BY <1>3, <3>1
    <3>3. (c \in Chroma2(1) /\ s = Square(1)) \/ (c \notin Chroma2(1) /\ s = Neutral)
      BY <1>4, <3>1
    <3>4. /\ c \in Chroma2(1) => \E d, e \in {0, 1} : Place(d, e) \in Luma2(1)
          /\ c \notin Chroma2(1) => \E d, e \in {0, 1} : Place(d, e) \notin Luma2(1)
      BY <1>5, <3>1
    <3> QED
      BY <3>2, <3>3, <3>4
  <2>2. CASE n # 1
    <3>1. \A k \in ks : c \in Chroma2(k) <=> Place(0, 0) \in Luma2(k)
      BY <1>6, <2>2
    <3>2. \/ \E k \in ks : Place(0, 0) \in Luma2(k) /\ (\A j \in ks : Place(0, 0) \in Luma2(j) => j <= k) /\ L(0, 0) = Square(k)
          \/ (\A k \in ks : Place(0, 0) \notin Luma2(k)) /\ L(0, 0) = Background
      BY <1>3
    <3>3. CASE (\A k \in ks : Place(0, 0) \notin Luma2(k)) /\ L(0, 0) = Background
      BY <1>4, <3>1, <3>3
    <3>4. CASE \E k \in ks : Place(0, 0) \in Luma2(k) /\ (\A j \in ks : Place(0, 0) \in Luma2(j) => j <= k) /\ L(0, 0) = Square(k)
      <4>1. PICK k \in ks : Place(0, 0) \in Luma2(k) /\ (\A j \in ks : Place(0, 0) \in Luma2(j) => j <= k) /\ L(0, 0) = Square(k)
        BY <3>4
      <4>2. PICK i \in ks : c \in Chroma2(i) /\ (\A j \in ks : c \in Chroma2(j) => j <= i) /\ s = Square(i)
        BY <1>4, <3>1, <4>1
      <4>3. i <= k /\ k <= i
        BY <3>1, <4>1, <4>2
      <4>4. i = k
        BY <1>1, <4>3
      <4> QED
        BY <4>1, <4>2, <4>4
    <3> QED
      BY <3>2, <3>3, <3>4
  <2> QED
    BY <2>1, <2>2
<1> QED
  BY <1>7 DEF s, L, W

\* Squares have their colour in place, and no text.
LEMMA SquaresPicture ==
    ASSUME NEW q, NEW w \in Nat, NEW h \in Nat, w % 2 = 0, h % 2 = 0, w >= 2, h >= 2, NEW sqs, NEW n, Placed(sqs, n, w, h),
           SquareSamples(q, sqs, w, h), NEW events, NEW b
    PROVE  /\ NoText(q)
           /\ /\ \A k \in DOMAIN sqs : sqs[k].size >= 1
              /\ n = 1 \/ \A k \in DOMAIN sqs : sqs[k].x % 2 = 0 /\ sqs[k].y % 2 = 0 /\ sqs[k].size % 2 = 0
              => Holds(q, events, b)
<1> DEFINE W == w \div 2
           H == h \div 2
<1>1. Framed(q) /\ q.w = w /\ q.h = h /\ q.u = q.v /\ W \in Nat /\ H \in Nat
  BY DEF SquareSamples
<1>2. \A a \in Area(w, h) : a[1] \in 0 .. w - 1 /\ a[2] \in 0 .. h - 1 /\ a = <<a[1], a[2]>>
  BY AreaPair
<1>3. \A a \in Area(w, h) : LumaAt(q, a) = Sample(q.y, w, a[1], a[2])
  BY <1>1, SampleAt
<1>4. ASSUME NEW a \in Area(w, h) PROVE LumaAt(q, a) = Background \/ \E k : LumaAt(q, a) = Square(k)
  <2>1. \A d \in 0 .. w - 1, e \in 0 .. h - 1 : Sample(q.y, w, d, e) = Background \/ \E k : Sample(q.y, w, d, e) = Square(k)
    BY DEF SquareSamples
  <2> QED
    BY <1>2, <1>3, <2>1
<1>5. \A a \in Area(w, h) : LumaAt(q, a) # Text /\ LumaAt(q, a) # Blank
  BY <1>4, PaintsApart
<1>6. NoText(q)
  BY <1>1, <1>5 DEF NoText
<1>7. ASSUME \A k \in DOMAIN sqs : sqs[k].size >= 1,
             n = 1 \/ \A k \in DOMAIN sqs : sqs[k].x % 2 = 0 /\ sqs[k].y % 2 = 0 /\ sqs[k].size % 2 = 0
      PROVE  Holds(q, events, b)
  <2>1. ASSUME NEW c \in Halves(q) PROVE AmongLumas(CellChroma(q, c), CellLuma(q, c))
    <3>1. Halves(q) = Area(W, H)
      BY <1>1 DEF Halves
    <3> DEFINE x == c[1]
               y == c[2]
    <3>2. x \in 0 .. W - 1 /\ y \in 0 .. H - 1
      BY <1>1, <3>1, AreaPair
    <3>3. CellChroma(q, c) = Sample(q.u, W, x, y)
      BY <1>1, SampleAt
    <3>4. /\ Block(x, y) \subseteq Area(w, h) /\ \A a \in Block(x, y) : LumaAt(q, a) \in CellLuma(q, c)
      BY <1>1, CellsInside
    <3>5. \A d, e \in {0, 1} : <<2 * x + d, 2 * y + e>> \in Block(x, y)
      BY <3>2 DEF Block
    <3>6. \/ Sample(q.u, W, x, y) = Neutral /\ \E d, e \in {0, 1} : Sample(q.y, w, 2 * x + d, 2 * y + e) = Background
          \/ \E d, e \in {0, 1} : Sample(q.u, W, x, y) = Sample(q.y, w, 2 * x + d, 2 * y + e)
      BY <1>7, <3>2, SquareOfCell
    <3>7. \A d, e \in {0, 1} : Sample(q.y, w, 2 * x + d, 2 * y + e) \in CellLuma(q, c)
      <4> SUFFICES ASSUME NEW d \in {0, 1}, NEW e \in {0, 1} PROVE Sample(q.y, w, 2 * x + d, 2 * y + e) \in CellLuma(q, c)
        OBVIOUS
      <4> DEFINE a == <<2 * x + d, 2 * y + e>>
      <4>1. a \in Block(x, y) /\ a \in Area(w, h) /\ a[1] = 2 * x + d /\ a[2] = 2 * y + e
        BY <3>4, <3>5
      <4> HIDE DEF a
      <4>2. LumaAt(q, a) = Sample(q.y, w, a[1], a[2]) /\ LumaAt(q, a) \in CellLuma(q, c)
        BY <1>3, <3>4, <4>1
      <4> QED
        BY <4>1, <4>2
    <3> HIDE DEF x, y
    <3>8. \/ CellChroma(q, c) = Neutral /\ Background \in CellLuma(q, c)
          \/ CellChroma(q, c) \in CellLuma(q, c)
      BY <3>3, <3>6, <3>7
    <3>9. Background \in Grey
      BY DEF Grey
    <3>10. Background \in CellLuma(q, c) => CellLuma(q, c) \cap Grey # {}
      BY <3>9
    <3> QED
      BY <3>8, <3>10 DEF AmongLumas
  <2> QED
    BY <1>1, <1>5, <2>1 DEF Holds, CellHolds
<1> QED
  BY <1>6, <1>7

(***************************************************************************)
(* Text and labels: chroma is cleared in every cell that letters reach.    *)
(***************************************************************************)

\* Letters are in the box of their line.
LEMMA LettersInBox ==
    ASSUME NEW line \in Seq(BOOLEAN), NEW ox \in Nat, NEW oy \in Nat, NEW scale \in Nat, NEW w \in Nat, NEW h \in Nat,
           NEW c \in TextCells(line, ox, oy, scale, w, h)
    PROVE  /\ c \in Area(w, h)
           /\ ox <= c[1] /\ c[1] < ox + Len(line) * GlyphW * scale
           /\ oy <= c[2] /\ c[2] < oy + GlyphH * scale
<1> DEFINE n == Len(line)
           X == GlyphW
           Y == GlyphH
           z == scale
<1>0. X \in Nat \ {0} /\ Y \in Nat \ {0} /\ Lit \subseteq Area(X, Y) /\ z \in Nat /\ n \in Nat /\ ox \in Nat /\ oy \in Nat
  BY PatternConstantsOK
<1>1. PICK i \in DOMAIN line : c \in GlyphCells(ox + (i - 1) * X * z, oy, z, w, h)
  BY DEF TextCells
<1>2. i \in 1 .. n
  OBVIOUS
<1>3. c \in Area(w, h)
  BY <1>1 DEF GlyphCells
<1> DEFINE left == ox + (i - 1) * X * z
<1>4. PICK l \in Lit, sx \in 0 .. z - 1, sy \in 0 .. z - 1 : c = <<left + l[1] * z + sx, oy + l[2] * z + sy>>
  BY <1>1 DEF GlyphCells
<1>5. l[1] \in 0 .. X - 1 /\ l[2] \in 0 .. Y - 1
  BY <1>0, <1>4 DEF Area
<1>6. c[1] = left + l[1] * z + sx /\ c[2] = oy + l[2] * z + sy
  BY <1>4
<1> HIDE DEF n, X, Y, z
<1>7. \A m \in Nat : \A k \in 0 .. m - 1 : k * z \in Nat /\ m * z \in Nat /\ (k + 1) * z = k * z + z /\ (k + 1) * z <= m * z
  <2> SUFFICES ASSUME NEW m \in Nat, NEW k \in 0 .. m - 1
               PROVE  k * z \in Nat /\ m * z \in Nat /\ (k + 1) * z = k * z + z /\ (k + 1) * z <= m * z
    OBVIOUS
  <2>1. k \in Nat /\ k + 1 \in Nat /\ k + 1 <= m /\ z \in Nat
    BY <1>0
  <2>2. k * z \in Nat /\ m * z \in Nat /\ (k + 1) * z = k * z + z
    BY <2>1
  <2>3. (k + 1) * z <= m * z
    BY <2>1
  <2> QED
    BY <2>2, <2>3
<1>8. l[2] * z \in Nat /\ l[2] * z + z <= Y * z /\ Y * z \in Nat
  BY <1>0, <1>5, <1>7
<1>9. oy <= c[2] /\ c[2] < oy + Y * z
  <2> DEFINE p == l[2] * z
             r == Y * z
  <2>1. p \in Nat /\ p + z <= r /\ r \in Nat /\ c[2] = oy + p + sy
    BY <1>6, <1>8
  <2>2. sy \in Nat /\ sy < z
    BY <1>0, <1>4
  <2> HIDE DEF p, r
  <2>3. oy <= c[2] /\ c[2] < oy + r
    BY <1>0, <2>1, <2>2
  <2> QED
    BY <2>3 DEF r
<1>10. l[1] * z \in Nat /\ l[1] * z + z <= X * z /\ X * z \in Nat
  BY <1>0, <1>5, <1>7
<1>11. /\ (i - 1) * X * z = (i - 1) * (X * z) /\ n * X * z = n * (X * z)
  <2>1. i - 1 \in Nat /\ n \in Nat /\ X \in Nat /\ z \in Nat
    BY <1>0, <1>2
  <2>2. \A a, b, d \in Nat : a * b * d = a * (b * d)
    OBVIOUS
  <2> QED
    BY <2>1, <2>2
<1> DEFINE g == X * z
           k == i - 1
<1>12. g \in Nat /\ k \in Nat /\ k + 1 <= n
  BY <1>0, <1>2, <1>10
<1>13. k * g \in Nat /\ n * g \in Nat /\ k * g + g <= n * g
  <2> HIDE DEF g, k
  <2>1. k * g \in Nat /\ n * g \in Nat /\ (k + 1) * g = k * g + g
    BY <1>0, <1>12
  <2>2. (k + 1) * g <= n * g
    BY <1>0, <1>12
  <2> QED
    BY <2>1, <2>2
<1>14. left = ox + k * g
  BY <1>11
<1>15. l[1] * z + z <= g
  BY <1>10
<1> HIDE DEF left, g, k
<1>16. ox <= c[1] /\ c[1] < ox + n * g
  <2> DEFINE p == l[1] * z
             r == k * g
             t == n * g
  <2>1. p \in Nat /\ p + z <= g /\ r \in Nat /\ t \in Nat /\ r + g <= t /\ c[1] = ox + r + p + sx
    BY <1>6, <1>10, <1>13, <1>14, <1>15
  <2>2. sx \in Nat /\ sx < z
    BY <1>0, <1>4
  <2> HIDE DEF p, r, t
  <2>3. ox <= c[1] /\ c[1] < ox + t
    BY <1>0, <1>12, <2>1, <2>2
  <2> QED
    BY <2>3 DEF t
<1> QED
  BY <1>3, <1>9, <1>11, <1>16 DEF n, X, Y, z, g

\* Products with an even factor are even.
LEMMA EvenProduct ==
    ASSUME NEW a \in Nat, NEW b \in Nat, NEW c \in Nat, b % 2 = 0
    PROVE  a * b * c \in Nat /\ (a * b * c) % 2 = 0 /\ b * c \in Nat /\ (b * c) % 2 = 0
<1>1. PICK d \in Nat : b = 2 * d
  <2>1. b = 2 * (b \div 2) /\ b \div 2 \in Nat
    OBVIOUS
  <2> QED
    BY <2>1
<1> DEFINE e == a * d * c
           f == d * c
<1>2. e \in Nat /\ f \in Nat
  <2>1. \A x, y \in Nat : x * y \in Nat
    OBVIOUS
  <2>2. a * d \in Nat
    BY <2>1
  <2> QED
    BY <2>1, <2>2
<1>3. a * b * c = 2 * e /\ b * c = 2 * f
  BY <1>1
<1> HIDE DEF e, f
<1> QED
  BY <1>2, <1>3

\* No line is longer than the longest.
LEMMA LongestIs ==
    ASSUME NEW lines \in Lines
    PROVE  LET longest == CHOOSE n \in {Len(lines[i]) : i \in DOMAIN lines} : \A i \in DOMAIN lines : Len(lines[i]) <= n
           IN  /\ longest \in Nat /\ Len(lines) \in Nat /\ DOMAIN lines = 1 .. Len(lines)
               /\ \A i \in DOMAIN lines : lines[i] \in Seq(BOOLEAN) /\ Len(lines[i]) \in Nat /\ Len(lines[i]) <= longest
<1>1. lines \in Seq(Seq(BOOLEAN)) /\ lines # <<>>
  BY WorkbenchConstantsOK
<1> DEFINE n == Len(lines)
           f == [i \in 1 .. n |-> Len(lines[i])]
           longest == CHOOSE m \in {Len(lines[i]) : i \in DOMAIN lines} : \A i \in DOMAIN lines : Len(lines[i]) <= m
<1>2. n \in Nat \ {0} /\ DOMAIN lines = 1 .. n /\ \A i \in 1 .. n : lines[i] \in Seq(BOOLEAN)
  BY <1>1
<1>3. \A i \in 1 .. n : f[i] = Len(lines[i]) /\ f[i] \in Nat
  BY <1>2
<1> HIDE DEF n, f
<1>4. PICK j \in 1 .. n : \A i \in 1 .. n : f[i] <= f[j]
  BY <1>2, <1>3, Greatest
<1>5. \E m \in {Len(lines[i]) : i \in DOMAIN lines} : \A i \in DOMAIN lines : Len(lines[i]) <= m
  BY <1>2, <1>3, <1>4
<1>6. longest \in {Len(lines[i]) : i \in DOMAIN lines} /\ \A i \in DOMAIN lines : Len(lines[i]) <= longest
  BY <1>5
<1> HIDE DEF longest
<1>7. longest \in Nat
  BY <1>2, <1>3, <1>6
<1>8. \A i \in DOMAIN lines : lines[i] \in Seq(BOOLEAN) /\ Len(lines[i]) \in Nat
  BY <1>2, <1>3
<1> QED
  BY <1>2, <1>6, <1>7, <1>8 DEF n, longest

\* A chroma cell that the box of a text reaches is cleared, on each axis.
LEMMA BoxCleared ==
    ASSUME NEW o \in Nat, o % 2 = 0, NEW text \in Nat, text % 2 = 0, NEW side \in Nat, NEW half \in Nat, side = 2 * half, half >= 1
    PROVE  LET e == Least((o + text) \div 2, Most(half, 1))
               b == Least(o \div 2, Minus(e, 1))
           IN  /\ e \in Int /\ e <= half /\ b \in Int /\ b >= 0
               /\ \A a \in 0 .. side - 1, c \in 0 .. half - 1, d \in {0, 1} :
                     a = 2 * c + d /\ o <= a /\ a < o + text => c \in b .. e - 1
<1> DEFINE e == Least((o + text) \div 2, Most(half, 1))
           b == Least(o \div 2, Minus(e, 1))
<1>1. Most(half, 1) = half /\ (o + text) \div 2 \in Nat /\ o \div 2 \in Nat
  BY DEF Most
<1>2. e \in Nat /\ e <= half /\ (e = half \/ e = (o + text) \div 2)
  BY <1>1 DEF Least
<1> HIDE DEF e
<1>3. Minus(e, 1) \in Nat
  BY <1>2 DEF Minus, Most
<1>4. b \in Nat /\ b <= o \div 2
  BY <1>1, <1>3 DEF Least
<1> HIDE DEF b
<1>5. ASSUME NEW a \in 0 .. side - 1, NEW c \in 0 .. half - 1, NEW d \in {0, 1}, a = 2 * c + d, o <= a, a < o + text
      PROVE  c \in b .. e - 1
  <2>1. o \div 2 <= c
    BY <1>5
  <2>2. c < (o + text) \div 2
    BY <1>5
  <2> QED
    BY <1>1, <1>2, <1>4, <2>1, <2>2
<1> QED
  BY <1>2, <1>4, <1>5 DEF b, e

\* An anchor on even places, or at the margins, begins a chroma cell.
EvenPlace(o) == o[1] % 2 = 0 /\ o[2] % 2 = 0

\* Where an even anchor puts a text: at even places.
LEMMA AnchorEven ==
    ASSUME NEW a, NEW textH, NEW w, NEW h,
           /\ a \in Anchors /\ textH \in Nat /\ w \in Nat /\ h \in Nat /\ textH % 2 = 0 /\ h % 2 = 0
           /\ a.kind # "position"
    PROVE  EvenPlace(ResolvedAnchor(a, textH, w, h))
<1>0. a \in Anchors /\ textH \in Nat /\ h \in Nat /\ textH % 2 = 0 /\ h % 2 = 0 /\ a.kind # "position"
  OBVIOUS
<1>1. a.kind \in {"top left", "bottom left"}
  BY <1>0, WorkbenchConstantsOK
<1>2. Margin \in Nat /\ Margin % 2 = 0
  BY PatternConstantsOK
<1>3. CASE a.kind = "top left"
  BY <1>2, <1>3 DEF ResolvedAnchor, EvenPlace
<1>4. CASE a.kind = "bottom left"
  <2>1. ResolvedAnchor(a, textH, w, h) = <<Margin, Minus(h, textH + Margin)>>
    BY <1>4 DEF ResolvedAnchor
  <2>2. Minus(h, textH + Margin) % 2 = 0
    BY <1>0, <1>2 DEF Minus, Most
  <2> QED
    BY <1>2, <2>1, <2>2 DEF EvenPlace
<1> QED
  BY <1>1, <1>3, <1>4

\* A plane with one paint at some places.
Coated(r, d, w, h, cells, paint) ==
    /\ PlaneOK(r, w, h)
    /\ \A a \in 0 .. w - 1, b \in 0 .. h - 1 : Sample(r, w, a, b) = IF <<a, b>> \in cells THEN paint ELSE Sample(d, w, a, b)

\* Places laid with one paint are coated.
LEMMA LaidCoated ==
    ASSUME NEW w, NEW h, NEW d, NEW cells, NEW paint,
           w \in Nat /\ h \in Nat /\ PlaneOK(d, w, h) /\ cells \subseteq Area(w, h)
    PROVE  Coated(Laid(d, d.stride, cells, [c \in cells |-> paint]), d, w, h, cells, paint)
<1> DEFINE v == [c \in cells |-> paint]
           stride == d.stride
<1>1. w \in Nat /\ h \in Nat /\ PlaneOK(d, w, h) /\ stride = w /\ cells \subseteq Area(w, h)
  BY DEF PlaneOK
<1>2. \A c \in cells : v[c] = paint
  OBVIOUS
<1> HIDE DEF v, stride
<1>3. LaidShown(d, stride, cells, v, w, h)
  BY <1>1, LaidIsShown, Zenon
<1> QED
  BY <1>2, <1>3 DEF LaidShown, Coated, v, stride

\* A timestamp at an even anchor is a mark: a cell it writes on loses its
\* chroma, and any other keeps it.
LEMMA OverlaidIsMarked ==
    ASSUME NEW p, NEW w, NEW h, Framed(p), p.w = w, p.h = h, w % 2 = 0, h % 2 = 0, w >= 2, h >= 2,
           NEW lines \in Lines, NEW anchor \in Anchors, anchor.at[1] % 2 = 0, anchor.at[2] % 2 = 0, NEW scale \in Scales,
           NEW events, "stamped" \in events
    PROVE  LET q == Overlaid(p, lines, anchor, scale) IN Framed(q) /\ Marked(p, q, events)
<1> DEFINE longest == CHOOSE n \in {Len(lines[i]) : i \in DOMAIN lines} :
                         \A i \in DOMAIN lines : Len(lines[i]) <= n
           textW == longest * GlyphW * scale
           textH == Len(lines) * GlyphH * scale
           o == IF anchor.kind = "position" THEN anchor.at ELSE ResolvedAnchor(anchor, textH, p.w, p.h)
           endX == Least((o[1] + textW) \div 2, Most(p.w \div 2, 1))
           endY == Least((o[2] + textH) \div 2, Most(p.h \div 2, 1))
           beginX == Least(o[1] \div 2, Minus(endX, 1))
           beginY == Least(o[2] \div 2, Minus(endY, 1))
           Cleared(k) == Rect(beginX, endX, beginY, endY)
           cleared == Rect(beginX, endX, beginY, endY)
           Line(i) == TextCells(lines[i], o[1], o[2] + (i - 1) * GlyphH * scale, scale, p.w, p.h)
           ks == DOMAIN lines
           all == UNION {Line(k) : k \in ks}
           A == Painted(p.y, ks, Line, LAMBDA i : Text)
           Chroma(x) == Painted(x, {0}, Cleared, LAMBDA k : Neutral)
           q == Overlaid(p, lines, anchor, scale)
           W == w \div 2
           H == h \div 2
<1>0. /\ w \in Nat /\ h \in Nat /\ W \in Nat /\ H \in Nat /\ w = 2 * W /\ h = 2 * H /\ W >= 1 /\ H >= 1
      /\ PlaneOK(p.y, w, h) /\ PlaneOK(p.u, W, H) /\ PlaneOK(p.v, W, H)
  <2>1. p.w \in Nat /\ p.h \in Nat /\ PlaneOK(p.y, p.w, p.h) /\ PlaneOK(p.u, p.w \div 2, p.h \div 2) /\ PlaneOK(p.v, p.w \div 2, p.h \div 2)
    BY DEF Framed
  <2>2. PlaneOK(p.y, w, h) /\ PlaneOK(p.u, W, H) /\ PlaneOK(p.v, W, H) /\ w \in Nat /\ h \in Nat
    BY <2>1
  <2> QED
    BY <2>2
<1>1. q = [p EXCEPT !.y = A, !.u = Chroma(p.u), !.v = Chroma(p.v)]
  BY DEF Overlaid
<1>2. /\ longest \in Nat /\ Len(lines) \in Nat /\ ks = 1 .. Len(lines)
      /\ \A i \in ks : lines[i] \in Seq(BOOLEAN) /\ Len(lines[i]) \in Nat /\ Len(lines[i]) <= longest
  BY LongestIs
<1>3. /\ GlyphW \in Nat /\ GlyphH \in Nat /\ scale \in Nat /\ GlyphW % 2 = 0 /\ GlyphH % 2 = 0
      /\ anchor.at[1] \in Nat /\ anchor.at[2] \in Nat
  BY PatternConstantsOK, WorkbenchConstantsOK
<1> HIDE DEF longest
<1>4. textW \in Nat /\ textH \in Nat /\ textW % 2 = 0 /\ textH % 2 = 0
  BY <1>2, <1>3, EvenProduct
<1>5. \A k \in Nat : k * GlyphH * scale \in Nat
  BY <1>3, EvenProduct
<1>6. \A i \in ks : Len(lines[i]) * GlyphW * scale \in Nat /\ Len(lines[i]) * GlyphW * scale <= textW
  <2> SUFFICES ASSUME NEW i \in ks PROVE Len(lines[i]) * GlyphW * scale \in Nat /\ Len(lines[i]) * GlyphW * scale <= textW
    OBVIOUS
  <2> DEFINE m == Len(lines[i])
             g == GlyphW
             z == scale
  <2>1. m \in Nat /\ m <= longest /\ longest \in Nat /\ g \in Nat /\ z \in Nat /\ textW = longest * g * z
    BY <1>2, <1>3
  <2> HIDE DEF m, g, z, textW
  <2>2. m * g \in Nat /\ longest * g \in Nat /\ m * g <= longest * g
    BY <2>1
  <2> DEFINE x == m * g
             y == longest * g
  <2>3. x \in Nat /\ y \in Nat /\ x <= y
    BY <2>2
  <2>4. textW = y * z
    BY <2>1
  <2> HIDE DEF x, y
  <2>5. x * z \in Nat /\ x * z <= y * z
    BY <2>1, <2>3
  <2> QED
    BY <2>4, <2>5 DEF x, m, g, z
<1>7. \A i \in ks : (i - 1) * GlyphH * scale \in Nat /\ (i - 1) * GlyphH * scale + GlyphH * scale <= textH /\ GlyphH * scale \in Nat
  <2> SUFFICES ASSUME NEW i \in ks PROVE (i - 1) * GlyphH * scale \in Nat /\ (i - 1) * GlyphH * scale + GlyphH * scale <= textH /\ GlyphH * scale \in Nat
    OBVIOUS
  <2> DEFINE n == Len(lines)
             k == i - 1
             y == GlyphH
             z == scale
             g == y * z
  <2>1. n \in Nat /\ k \in Nat /\ k + 1 <= n /\ y \in Nat /\ z \in Nat
    BY <1>2, <1>3
  <2>2. \A a, b, c \in Nat : a * b * c = a * (b * c)
    OBVIOUS
  <2>3. k * y * z = k * g /\ textH = n * g
    BY <2>1, <2>2
  <2>4. g \in Nat
    BY <2>1
  <2> HIDE DEF n, k, g
  <2>5. k * g \in Nat /\ n * g \in Nat /\ (k + 1) * g = k * g + g
    BY <2>1, <2>4
  <2>6. (k + 1) * g <= n * g
    BY <2>1, <2>4
  <2>7. k * y * z \in Nat /\ k * y * z + g <= textH /\ g \in Nat
    BY <2>3, <2>4, <2>5, <2>6
  <2> QED
    BY <2>7 DEF k, g
<1> HIDE DEF textW, textH
<1>8. o[1] \in Nat /\ o[2] \in Nat /\ o[1] % 2 = 0 /\ o[2] % 2 = 0
  <2>1. CASE anchor.kind = "position"
    BY <1>3, <2>1
  <2>2. CASE anchor.kind # "position"
    <3>1. o = ResolvedAnchor(anchor, textH, w, h)
      BY <2>2
    <3>2. LET r == ResolvedAnchor(anchor, textH, w, h) IN r[1] \in Nat /\ r[2] \in Nat
      BY <1>0, <1>4, AnchorIn
    <3>3. EvenPlace(ResolvedAnchor(anchor, textH, w, h))
      <4>1. /\ anchor \in Anchors /\ textH \in Nat /\ w \in Nat /\ h \in Nat /\ textH % 2 = 0 /\ h % 2 = 0
            /\ anchor.kind # "position"
        BY <1>0, <1>4, <2>2
      <4> QED
        BY <4>1, AnchorEven, Zenon
    <3> HIDE DEF o
    <3> QED
      BY <3>1, <3>2, <3>3 DEF EvenPlace
  <2> QED
    BY <2>1, <2>2
<1> HIDE DEF o
<1> DEFINE o1 == o[1]
           o2 == o[2]
<1>9. /\ endX \in Int /\ endX <= W /\ beginX \in Int /\ beginX >= 0
      /\ \A a \in 0 .. w - 1, c \in 0 .. W - 1, d \in {0, 1} : a = 2 * c + d /\ o1 <= a /\ a < o1 + textW => c \in beginX .. endX - 1
  <2>1. w \in Nat /\ W \in Nat /\ w = 2 * W /\ W >= 1 /\ o1 \in Nat /\ o1 % 2 = 0 /\ textW \in Nat /\ textW % 2 = 0 /\ p.w \div 2 = W
    BY <1>0, <1>4, <1>8
  <2> HIDE DEF W, o1
  <2>2. LET e == Least((o1 + textW) \div 2, Most(W, 1))
            b == Least(o1 \div 2, Minus(e, 1))
        IN  /\ e \in Int /\ e <= W /\ b \in Int /\ b >= 0
            /\ \A a \in 0 .. w - 1, c \in 0 .. W - 1, d \in {0, 1} :
                  a = 2 * c + d /\ o1 <= a /\ a < o1 + textW => c \in b .. e - 1
    BY <2>1, BoxCleared
  <2> QED
    BY <2>1, <2>2 DEF o1
<1>10. /\ endY \in Int /\ endY <= H /\ beginY \in Int /\ beginY >= 0
       /\ \A a \in 0 .. h - 1, c \in 0 .. H - 1, d \in {0, 1} : a = 2 * c + d /\ o2 <= a /\ a < o2 + textH => c \in beginY .. endY - 1
  <2>1. h \in Nat /\ H \in Nat /\ h = 2 * H /\ H >= 1 /\ o2 \in Nat /\ o2 % 2 = 0 /\ textH \in Nat /\ textH % 2 = 0 /\ p.h \div 2 = H
    BY <1>0, <1>4, <1>8
  <2> HIDE DEF H, o2
  <2>2. LET e == Least((o2 + textH) \div 2, Most(H, 1))
            b == Least(o2 \div 2, Minus(e, 1))
        IN  /\ e \in Int /\ e <= H /\ b \in Int /\ b >= 0
            /\ \A a \in 0 .. h - 1, c \in 0 .. H - 1, d \in {0, 1} :
                  a = 2 * c + d /\ o2 <= a /\ a < o2 + textH => c \in b .. e - 1
    BY <2>1, BoxCleared
  <2> QED
    BY <2>1, <2>2 DEF o2
<1> HIDE DEF endX, endY, beginX, beginY, q, W, H
<1>11. ASSUME NEW c \in all
       PROVE  c \in Area(w, h) /\ o1 <= c[1] /\ c[1] < o1 + textW /\ o2 <= c[2] /\ c[2] < o2 + textH
  <2>1. PICK i \in ks : c \in Line(i)
    BY <1>11
  <2> DEFINE oy == o2 + (i - 1) * GlyphH * scale
             line == lines[i]
  <2>2. oy \in Nat /\ line \in Seq(BOOLEAN) /\ o1 \in Nat /\ scale \in Nat /\ w \in Nat /\ h \in Nat
    <3>1. o1 \in Nat /\ o2 \in Nat
      BY <1>8
    <3>2. (i - 1) * GlyphH * scale \in Nat
      BY <1>7
    <3> DEFINE k == (i - 1) * GlyphH * scale
    <3> HIDE DEF k, o1, o2
    <3>3. o2 + k \in Nat
      BY <3>1, <3>2 DEF k
    <3>4. oy \in Nat
      BY <3>3 DEF k
    <3> QED
      BY <1>0, <1>2, <1>3, <3>1, <3>4
  <2>3. c \in TextCells(line, o1, oy, scale, w, h)
    BY <2>1
  <2> HIDE DEF oy, line, o1
  <2>4. /\ c \in Area(w, h) /\ o1 <= c[1] /\ c[1] < o1 + Len(line) * GlyphW * scale
        /\ oy <= c[2] /\ c[2] < oy + GlyphH * scale
    BY <2>2, <2>3, LettersInBox
  <2>5. c[1] \in Nat /\ c[2] \in Nat
    BY <1>0, <2>4 DEF Area
  <2> DEFINE tw == Len(line) * GlyphW * scale
             g == GlyphH * scale
             k == (i - 1) * GlyphH * scale
  <2>6. tw \in Nat /\ tw <= textW /\ k \in Nat /\ g \in Nat /\ k + g <= textH /\ oy = o2 + k
    BY <1>6, <1>7 DEF line, oy
  <2>7. o1 <= c[1] /\ c[1] < o1 + tw /\ oy <= c[2] /\ c[2] < oy + g
    BY <2>4
  <2>8. o2 \in Nat
    BY <1>8
  <2>9. textW \in Nat /\ textH \in Nat /\ o1 \in Nat
    BY <1>4, <2>2
  <2> HIDE DEF tw, g, k, o2
  <2>10. c[1] < o1 + textW /\ o1 <= c[1]
    BY <2>5, <2>6, <2>7, <2>9
  <2>11. o2 <= c[2] /\ c[2] < o2 + textH
    BY <2>5, <2>6, <2>7, <2>8, <2>9
  <2> QED
    BY <2>4, <2>10, <2>11
<1>12. all \subseteq Area(w, h)
  BY <1>11
<1>13. cleared \subseteq Area(W, H)
  BY <1>0, <1>9, <1>10, RectIn
<1>14. Coated(A, p.y, w, h, all, Text)
  <2> DEFINE d == p.y
             at == {Index(d.stride, c) : c \in all}
             Pick(i) == CHOOSE c \in all : Index(d.stride, c) = i
             v == [c \in all |-> Text]
  <2>1. \A i \in at : v[Pick(i)] = Text
    <3>1. \A i \in at : Pick(i) \in all
      OBVIOUS
    <3> HIDE DEF at, Pick, all
    <3> QED
      BY <3>1
  <2>2. [i \in DOMAIN d.data \cup at |-> IF i \in at THEN Text ELSE d.data[i]]
          = [i \in DOMAIN d.data \cup at |-> IF i \in at THEN v[Pick(i)] ELSE d.data[i]]
    <3> HIDE DEF v, at, Pick
    <3> QED
      BY <2>1
  <2>3. A = Laid(d, d.stride, all, v)
    <3> HIDE DEF Line
    <3> QED
      BY <2>2, Zenon DEF Written, Laid, Painted
  <2>4. w \in Nat /\ h \in Nat /\ PlaneOK(d, w, h) /\ all \subseteq Area(w, h)
    BY <1>0, <1>12
  <2> HIDE DEF d, all, A
  <2>5. Coated(Laid(d, d.stride, all, v), d, w, h, all, Text)
    BY <2>4, LaidCoated, Zenon
  <2> QED
    BY <2>3, <2>5 DEF d
<1>15. ASSUME NEW x, PlaneOK(x, W, H) PROVE Coated(Chroma(x), x, W, H, cleared, Neutral)
  <2> DEFINE at == {Index(x.stride, c) : c \in cleared}
             Pick(i) == CHOOSE c \in cleared : Index(x.stride, c) = i
             v == [c \in cleared |-> Neutral]
  <2>1. \A i \in at : v[Pick(i)] = Neutral
    <3>1. \A i \in at : Pick(i) \in cleared
      OBVIOUS
    <3> HIDE DEF at, Pick, cleared
    <3> QED
      BY <3>1
  <2>2. [i \in DOMAIN x.data \cup at |-> IF i \in at THEN Neutral ELSE x.data[i]]
          = [i \in DOMAIN x.data \cup at |-> IF i \in at THEN v[Pick(i)] ELSE x.data[i]]
    <3> HIDE DEF v, at, Pick
    <3> QED
      BY <2>1
  <2>3. UNION {Cleared(k) : k \in {0}} = cleared
    <3>1. \A k \in {0} : Cleared(k) = cleared
      OBVIOUS
    <3> QED
      BY <3>1
  <2>4. Chroma(x) = Laid(x, x.stride, cleared, v)
    <3> DEFINE every == UNION {Cleared(k) : k \in {0}}
    <3>1. Chroma(x) = Written(x, every, LAMBDA c : Index(x.stride, c), LAMBDA c : Neutral)
      BY DEF Painted, Written
    <3>2. every = cleared
      BY <2>3
    <3> HIDE DEF every, cleared, Chroma
    <3>3. Chroma(x) = Written(x, cleared, LAMBDA c : Index(x.stride, c), LAMBDA c : Neutral)
      BY <3>1, <3>2
    <3> QED
      BY <2>2, <3>3, Zenon DEF Written, Laid
  <2>5. W \in Nat /\ H \in Nat /\ PlaneOK(x, W, H) /\ cleared \subseteq Area(W, H)
    BY <1>0, <1>13, <1>15
  <2> HIDE DEF cleared, Chroma
  <2>6. Coated(Laid(x, x.stride, cleared, v), x, W, H, cleared, Neutral)
    BY <2>5, LaidCoated, Zenon
  <2> QED
    BY <2>4, <2>6
<1>16. Coated(Chroma(p.u), p.u, W, H, cleared, Neutral) /\ Coated(Chroma(p.v), p.v, W, H, cleared, Neutral)
  BY <1>0, <1>15
<1>17. p.u = p.v => Chroma(p.u) = Chroma(p.v)
  OBVIOUS
<1> DEFINE B == Chroma(p.u)
           C == Chroma(p.v)
<1>18. q = [w |-> w, h |-> h, y |-> A, u |-> B, v |-> C]
  <2> HIDE DEF A, Chroma
  <2>1. q = [p EXCEPT !.y = A, !.u = B, !.v = C]
    BY <1>1
  <2> HIDE DEF B, C
  <2>2. [p EXCEPT !.y = A, !.u = B, !.v = C] = [w |-> p.w, h |-> p.h, y |-> A, u |-> B, v |-> C]
    BY Replaced, Zenon
  <2> QED
    BY <2>1, <2>2
<1> HIDE DEF A, B, C, all, cleared
<1>19. PlaneOK(A, w, h) /\ PlaneOK(B, w \div 2, h \div 2) /\ PlaneOK(C, w \div 2, h \div 2)
  BY <1>14, <1>16 DEF Coated, B, C, W, H
<1>20. Framed(q) /\ q.w = w /\ q.h = h /\ q.y = A /\ q.u = B /\ q.v = C
  <2>1. w \in Nat /\ h \in Nat
    BY <1>0
  <2> HIDE DEF o1, o2
  <2> QED
    BY <2>1, <1>18, <1>19, FramedOf
<1>21. \A a \in Area(w, h) : LumaAt(q, a) = IF a \in all THEN Text ELSE LumaAt(p, a)
  <2>1. \A a \in Area(w, h) : a[1] \in 0 .. w - 1 /\ a[2] \in 0 .. h - 1 /\ a = <<a[1], a[2]>>
    BY <1>0, AreaPair
  <2>2. \A a \in Area(w, h) : LumaAt(q, a) = Sample(A, w, a[1], a[2]) /\ LumaAt(p, a) = Sample(p.y, w, a[1], a[2])
    BY <1>20, SampleAt
  <2> QED
    BY <1>14, <2>1, <2>2 DEF Coated
<1>22. Halves(p) = Area(W, H) /\ Halves(q) = Area(W, H)
  BY <1>20 DEF Halves, W, H
<1>23. \A c \in Area(W, H) : CellChroma(q, c) = IF c \in cleared THEN Neutral ELSE CellChroma(p, c)
  <2>1. \A c \in Area(W, H) : c[1] \in 0 .. W - 1 /\ c[2] \in 0 .. H - 1 /\ c = <<c[1], c[2]>>
    BY <1>0, AreaPair
  <2>2. \A c \in Area(W, H) : CellChroma(q, c) = Sample(B, W, c[1], c[2]) /\ CellChroma(p, c) = Sample(p.u, W, c[1], c[2])
    BY <1>20, <1>22, SampleAt DEF W
  <2> QED
    BY <1>16, <2>1, <2>2 DEF Coated, B
<1>24. ASSUME NEW c \in Area(W, H), NEW a \in Block(c[1], c[2]), a \in all PROVE c \in cleared
  <2>1. c[1] \in 0 .. W - 1 /\ c[2] \in 0 .. H - 1 /\ c = <<c[1], c[2]>>
    BY <1>0, AreaPair
  <2>2. /\ a[1] \in {2 * c[1], 2 * c[1] + 1} /\ a[2] \in {2 * c[2], 2 * c[2] + 1}
    BY <1>24 DEF Block
  <2>3. /\ a[1] \in 0 .. w - 1 /\ a[2] \in 0 .. h - 1 /\ o1 <= a[1] /\ a[1] < o1 + textW /\ o2 <= a[2] /\ a[2] < o2 + textH
    <3>1. a \in Area(w, h) /\ o1 <= a[1] /\ a[1] < o1 + textW /\ o2 <= a[2] /\ a[2] < o2 + textH
      BY <1>11, <1>24
    <3>2. a[1] \in 0 .. w - 1 /\ a[2] \in 0 .. h - 1
      BY <1>0, <3>1, AreaPair
    <3> QED
      BY <3>1, <3>2
  <2>4. \E d \in {0, 1} : a[1] = 2 * c[1] + d
    BY <2>1, <2>2
  <2>5. \E d \in {0, 1} : a[2] = 2 * c[2] + d
    BY <2>1, <2>2
  <2>6. c[1] \in beginX .. endX - 1
    BY <1>9, <2>1, <2>3, <2>4
  <2>7. c[2] \in beginY .. endY - 1
    BY <1>10, <2>1, <2>3, <2>5
  <2>8. <<c[1], c[2]>> \in Rect(beginX, endX, beginY, endY)
    BY <2>6, <2>7, RectPair
  <2> QED
    BY <2>1, <2>8 DEF cleared
<1>25. \A c \in Area(W, H) : Block(c[1], c[2]) \subseteq Area(w, h)
  BY <1>0, <1>20, <1>22, CellsInside
<1>26. ASSUME NEW c \in Area(W, H)
       PROVE  \/ /\ CellChroma(q, c) = CellChroma(p, c)
                 /\ \A a \in Block(c[1], c[2]) : LumaAt(q, a) \in {LumaAt(p, a), Label}
              \/ CellChroma(q, c) = Neutral /\ "stamped" \in events
  <2>1. CASE c \in cleared
    BY <1>23, <2>1
  <2>2. CASE c \notin cleared
    <3>1. \A a \in Block(c[1], c[2]) : LumaAt(q, a) = LumaAt(p, a)
      BY <1>21, <1>24, <1>25, <2>2
    <3> QED
      BY <1>23, <2>2, <3>1
  <2> QED
    BY <2>1, <2>2
<1>27. p.u = p.v => q.u = q.v
  BY <1>17, <1>20 DEF B, C
<1>28. Marked(p, q, events)
  BY <1>20, <1>21, <1>22, <1>26, <1>27 DEF Marked
<1> QED
  BY <1>20, <1>28 DEF q

\* A label is luma alone.
LEMMA BurnedIsMarked ==
    ASSUME NEW p, Framed(p), NEW line \in Seq(BOOLEAN), NEW anchor \in Anchors, NEW scale \in Scales, NEW fill, NEW events
    PROVE  LET q == Burned(p, line, anchor, scale, fill) IN Framed(q) /\ Marked(p, q, events)
<1> DEFINE w == p.w
           h == p.h
           textW == Len(line) * GlyphW * scale
           textH == GlyphH * scale
           o == ResolvedAnchor(anchor, textH, p.w, p.h)
           ground == IF fill THEN Rect(o[1], Least(o[1] + textW, p.w), o[2], Least(o[2] + textH, p.h)) ELSE {}
           Layer(k) == IF k = 0 THEN ground ELSE TextCells(line, o[1], o[2], scale, p.w, p.h)
           all == UNION {Layer(k) : k \in {0, 1}}
           A == Painted(p.y, {0, 1}, Layer, LAMBDA k : Label)
           q == Burned(p, line, anchor, scale, fill)
<1>0. w \in Nat /\ h \in Nat /\ PlaneOK(p.y, w, h) /\ PlaneOK(p.u, w \div 2, h \div 2) /\ PlaneOK(p.v, w \div 2, h \div 2)
  BY DEF Framed
<1>1. q = [p EXCEPT !.y = A]
  BY DEF Burned
<1>2. textW \in Nat /\ textH \in Nat
  <2>0. Len(line) \in Nat
    OBVIOUS
  <2>1. GlyphW \in Nat /\ GlyphH \in Nat /\ scale \in Nat /\ Len(line) \in Nat
    BY <2>0, PatternConstantsOK, WorkbenchConstantsOK
  <2>2. \A a, b \in Nat : a * b \in Nat
    OBVIOUS
  <2>3. Len(line) * GlyphW \in Nat
    BY <2>1, <2>2
  <2> QED
    BY <2>1, <2>2, <2>3
<1> HIDE DEF textW, textH
<1>3. o[1] \in Nat /\ o[2] \in Nat
  BY <1>0, <1>2, AnchorIn
<1> HIDE DEF o
<1>4. ground \subseteq Area(w, h)
  <2>1. /\ Least(o[1] + textW, p.w) \in Int /\ Least(o[1] + textW, p.w) <= w
        /\ Least(o[2] + textH, p.h) \in Int /\ Least(o[2] + textH, p.h) <= h
    BY <1>0, <1>2, <1>3 DEF Least
  <2>2. Rect(o[1], Least(o[1] + textW, p.w), o[2], Least(o[2] + textH, p.h)) \subseteq Area(w, h)
    BY <1>0, <1>3, <2>1, RectIn
  <2> QED
    BY <2>2
<1> HIDE DEF ground, q
<1>5. all \subseteq Area(w, h)
  BY <1>0, <1>4, TextIn
<1>6. Coated(A, p.y, w, h, all, Label)
  <2> DEFINE d == p.y
             at == {Index(d.stride, c) : c \in all}
             Pick(i) == CHOOSE c \in all : Index(d.stride, c) = i
             v == [c \in all |-> Label]
  <2>1. \A i \in at : v[Pick(i)] = Label
    <3>1. \A i \in at : Pick(i) \in all
      OBVIOUS
    <3> HIDE DEF at, Pick, all
    <3> QED
      BY <3>1
  <2>2. [i \in DOMAIN d.data \cup at |-> IF i \in at THEN Label ELSE d.data[i]]
          = [i \in DOMAIN d.data \cup at |-> IF i \in at THEN v[Pick(i)] ELSE d.data[i]]
    <3> HIDE DEF v, at, Pick
    <3> QED
      BY <2>1
  <2>3. A = Laid(d, d.stride, all, v)
    <3> HIDE DEF Layer
    <3> QED
      BY <2>2, Zenon DEF Written, Laid, Painted
  <2>4. w \in Nat /\ h \in Nat /\ PlaneOK(d, w, h) /\ all \subseteq Area(w, h)
    BY <1>0, <1>5
  <2> HIDE DEF d, all, A
  <2>5. Coated(Laid(d, d.stride, all, v), d, w, h, all, Label)
    BY <2>4, LaidCoated, Zenon
  <2> QED
    BY <2>3, <2>5 DEF d
<1> HIDE DEF A, all
<1>7. q = [w |-> w, h |-> h, y |-> A, u |-> p.u, v |-> p.v]
  <2> DEFINE y == p.y
             u == p.u
             v == p.v
  <2>1. p = [w |-> w, h |-> h, y |-> y, u |-> u, v |-> v]
    BY DEF Framed
  <2> HIDE DEF w, h, y, u, v
  <2>2. [p EXCEPT !.y = A] = [w |-> w, h |-> h, y |-> A, u |-> u, v |-> v]
    BY <2>1
  <2> QED
    BY <1>1, <2>2 DEF u, v
<1>8. PlaneOK(A, w, h)
  BY <1>6 DEF Coated
<1> DEFINE u == p.u
           v == p.v
<1>9. Framed(q) /\ q.w = w /\ q.h = h /\ q.y = A /\ q.u = u /\ q.v = v
  <2>1. w \in Nat /\ h \in Nat /\ q = [w |-> w, h |-> h, y |-> A, u |-> u, v |-> v] /\ PlaneOK(u, w \div 2, h \div 2) /\ PlaneOK(v, w \div 2, h \div 2)
    BY <1>0, <1>7
  <2> HIDE DEF u, v, w, h
  <2> QED
    BY <1>8, <2>1, FramedOf
<1>10. \A a \in Area(w, h) : LumaAt(q, a) = IF a \in all THEN Label ELSE LumaAt(p, a)
  <2>1. \A a \in Area(w, h) : a[1] \in 0 .. w - 1 /\ a[2] \in 0 .. h - 1 /\ a = <<a[1], a[2]>>
    BY <1>0, AreaPair
  <2>2. \A a \in Area(w, h) : LumaAt(q, a) = Sample(A, w, a[1], a[2]) /\ LumaAt(p, a) = Sample(p.y, w, a[1], a[2])
    BY <1>9, SampleAt
  <2> QED
    BY <1>6, <2>1, <2>2 DEF Coated
<1>11. \A c \in Halves(p) : CellChroma(q, c) = CellChroma(p, c)
  BY <1>9 DEF CellChroma
<1>12. \A c \in Halves(p) : Block(c[1], c[2]) \subseteq Area(w, h)
  BY <1>0, CellsInside
<1>13. Marked(p, q, events)
  BY <1>9, <1>10, <1>11, <1>12 DEF Marked
<1> QED
  BY <1>9, <1>13 DEF q

\* A picture without a sample cannot be made larger: what is read is outside.
LEMMA NothingToThin ==
    ASSUME NEW w, NEW h, w \in Nat /\ h \in Nat /\ w # 0 /\ h # 0, NEW m, NEW n, NEW d, PlaneOK(d, w, h),
           NEW s, DOMAIN s.data = {}
    PROVE  /\ \E i \in DOMAIN Thinned(d, s, w, h, m, n).data : Nowhere \in Thinned(d, s, w, h, m, n).data[i]
           /\ \E i \in DOMAIN Centred(d, s, w, h, m, n).data : Nowhere \in Centred(d, s, w, h, m, n).data[i]
<1> DEFINE cells == Area(w, h)
           at == {Index(d.stride, c) : c \in cells}
           Pick(i) == CHOOSE c \in cells : Index(d.stride, c) = i
           Val1(c) == Read(s.data, Index(s.stride, <<(c[1] * m) \div w, (c[2] * n) \div h>>))
           Val2(c) == Read(s.data, Index(s.stride, <<((2 * c[1] + 1) * m) \div (2 * w), ((2 * c[2] + 1) * n) \div (2 * h)>>))
           new1 == [i \in DOMAIN d.data \cup at |-> IF i \in at THEN Val1(Pick(i)) ELSE d.data[i]]
           new2 == [i \in DOMAIN d.data \cup at |-> IF i \in at THEN Val2(Pick(i)) ELSE d.data[i]]
           o == <<0, 0>>
           k == Index(d.stride, o)
<1>1. Thinned(d, s, w, h, m, n) = [d EXCEPT !.data = new1] /\ Centred(d, s, w, h, m, n) = [d EXCEPT !.data = new2]
  BY DEF Thinned, Centred, Written
<1>2. o \in cells
  BY DEF Area
<1>3. \A i : Nowhere \in Read(s.data, i)
  BY DEF Read, Outside
<1>4. \A c : Nowhere \in Val1(c) /\ Nowhere \in Val2(c)
  BY <1>3
<1> HIDE DEF o, cells, Val1, Val2
<1>5. k \in at
  BY <1>2
<1> HIDE DEF k, at, Pick
<1>6. k \in DOMAIN new1 /\ Nowhere \in new1[k] /\ k \in DOMAIN new2 /\ Nowhere \in new2[k]
  BY <1>4, <1>5
<1> HIDE DEF new1, new2
<1>7. [d EXCEPT !.data = new1].data = new1 /\ [d EXCEPT !.data = new2].data = new2
  BY DEF PlaneOK
<1> QED
  BY <1>1, <1>6, <1>7

\* Nor can a picture without a sample: the program ends.
LEMMA NothingToScale ==
    ASSUME NEW p, Framed(p), Even(p), p.w = 0 \/ p.h = 0, NEW w \in Nat, NEW h \in Nat, w % 2 = 0, h % 2 = 0,
           w # 0, h # 0
    PROVE  ~WellFormed(Scale(p, w, h)) /\ ~WellFormed(LibyuvScale(p, w, h))
<1> DEFINE N == I420New(w, h)
           W == w \div 2  H == h \div 2  M == p.w \div 2  K == p.h \div 2
           y1 == Thinned(N.y, p.y, w, h, p.w, p.h)
           y2 == Centred(N.y, p.y, w, h, p.w, p.h)
           q1 == Scale(p, w, h)
           q2 == LibyuvScale(p, w, h)
           u1 == Thinned(N.u, p.u, W, H, M, K)
           u2 == Centred(N.u, p.u, W, H, M, K)
           v1 == Thinned(N.v, p.v, W, H, M, K)
           v2 == Centred(N.v, p.v, W, H, M, K)
<1>1. /\ q1 = [w |-> w, h |-> h, y |-> y1, u |-> u1, v |-> v1]
      /\ q2 = [w |-> w, h |-> h, y |-> y2, u |-> u2, v |-> v2]
  BY ScaleByPlane
<1>2. PlaneOK(N.y, w, h)
  BY NewIsFramed, PlanesOfNew
<1>3. DOMAIN p.y.data = {}
  <2>1. PlaneOK(p.y, p.w, p.h) /\ p.w \in Nat /\ p.h \in Nat
    BY DEF Framed
  <2>2. p.w * p.h = 0
    BY <2>1
  <2>3. DOMAIN p.y.data = 0 .. 0 - 1
    BY <2>1, <2>2 DEF PlaneOK
  <2> QED
    BY <2>3
<1> HIDE DEF N
<1>4. /\ \E i \in DOMAIN y1.data : Nowhere \in y1.data[i]
      /\ \E i \in DOMAIN y2.data : Nowhere \in y2.data[i]
  BY <1>2, <1>3, NothingToThin
<1> HIDE DEF q1, q2, y1, y2, u1, u2, v1, v2
<1>5. q1["y"] = y1 /\ q2["y"] = y2
  BY <1>1
<1>6. ~WellFormed(q1) /\ ~WellFormed(q2)
  BY <1>4, <1>5 DEF WellFormed
<1> QED
  BY <1>6 DEF q1, q2

-----------------------------------------------------------------------------
(* Workbench: colour, step by step. *)

\* Colour is where the picture has it, and text has none, as far as the events
\* allow.
InPlace(p, events, b) ==
    /\ events \cap {"odd", "scaled"} = {} => TextClear(p)
    /\ events \cap {"odd", "thin", "rescaled"} = {} => Holds(p, events, b)

\* What a library caller's picture has besides: it is even, and before it is
\* scaled it shows a scene or bars, cell by cell.
Coloured(p, events, b) ==
    /\ InPlace(p, events, b)
    /\ "odd" \notin events => Even(p)
    /\ events \cap {"odd", "thin", "rescaled", "scaled"} = {} => SceneColour(p, events) \/ BarsColour(p, events)

\* A scene without text is such a picture, whatever it has been through.
LEMMA SceneColoured ==
    ASSUME NEW p, p.w \in Nat, p.h \in Nat, Even(p), NEW events, SceneColour(p, events), NoText(p), NEW b
    PROVE  Coloured(p, events, b)
<1>1. TextClear(p)
  BY NoTextClear
<1>2. Holds(p, events, b)
  BY <1>1, SceneHolds
<1> QED
  BY <1>1, <1>2 DEF Coloured, InPlace

\* More events, none of them a scaling, leave it one.
LEMMA ColouredMore ==
    ASSUME NEW p, p.w \in Nat, p.h \in Nat, NEW events, NEW more, events \subseteq more, "scaled" \in more => "scaled" \in events,
           "odd" \notin more => Even(p), NEW b, Coloured(p, events, b)
    PROVE  Coloured(p, more, b)
<1>1. Marked(p, p, more)
  BY DEF Marked
<1>2. /\ Holds(p, events, b) => Holds(p, more, b)
      /\ SceneColour(p, events) => SceneColour(p, more)
      /\ BarsColour(p, events) => BarsColour(p, more)
  BY <1>1, MarkedHolds
<1> QED
  BY <1>2 DEF Coloured, InPlace

\* A mirror, a turn, a crop or NV12 and back.
LEMMA ColouredView ==
    ASSUME NEW p, NEW q, p.w \in Nat, p.h \in Nat, q.w \in Nat, q.h \in Nat, NEW events, NEW b, Coloured(p, events, b),
           "odd" \notin events => Viewed(p, q) /\ Even(q)
    PROVE  Coloured(q, events, b)
<1> SUFFICES ASSUME "odd" \notin events PROVE Coloured(q, events, b)
  BY DEF Coloured, InPlace
<1>1. Viewed(p, q) /\ Even(q)
  OBVIOUS
<1>2. /\ TextClear(p) => TextClear(q) /\ (Holds(p, events, b) => Holds(q, events, b))
      /\ BarsColour(p, events) => BarsColour(q, events)
      /\ Holds(p, events, b) => Holds(q, events, b)
  BY <1>1, ViewHolds
<1>3. SceneColour(p, events) => SceneColour(q, events)
  BY <1>1, ViewScene
<1> QED
  BY <1>1, <1>2, <1>3 DEF Coloured, InPlace

\* A text over the picture.
LEMMA ColouredMarked ==
    ASSUME NEW p, NEW q, p.w \in Nat, p.h \in Nat, NEW events, NEW more, events \subseteq more,
           "scaled" \in more => "scaled" \in events, NEW b, Coloured(p, events, b),
           "odd" \notin more => Marked(p, q, more)
    PROVE  Coloured(q, more, b)
<1> SUFFICES ASSUME "odd" \notin more PROVE Coloured(q, more, b)
  BY DEF Coloured, InPlace
<1>1. Marked(p, q, more)
  OBVIOUS
<1>2. /\ Holds(p, events, b) => Holds(q, more, b)
      /\ TextClear(p) => TextClear(q)
      /\ SceneColour(p, events) => SceneColour(q, more)
      /\ BarsColour(p, events) => BarsColour(q, more)
  BY <1>1, MarkedHolds
<1>3. Even(p) => Even(q)
  BY <1>1 DEF Marked, Even
<1> QED
  BY <1>2, <1>3 DEF Coloured, InPlace

\* The picture scaled, which is claimed of once.
LEMMA ColouredScaled ==
    ASSUME NEW p, NEW q, p.w \in Nat, p.h \in Nat, q.w \in Nat, q.h \in Nat, NEW events, NEW more, events \subseteq more,
           "scaled" \in more, "scaled" \in events => "rescaled" \in more, NEW b, Coloured(p, events, b),
           "odd" \notin more => Even(q) /\ Sampled(p, q, b)
    PROVE  Coloured(q, more, b)
<1> SUFFICES ASSUME "odd" \notin more PROVE Coloured(q, more, b)
  BY DEF Coloured, InPlace
<1>1. Even(q) /\ Sampled(p, q, b)
  OBVIOUS
<1>2. ASSUME more \cap {"odd", "thin", "rescaled"} = {} PROVE Holds(q, more, b)
  <2>1. "scaled" \notin events /\ events \cap {"odd", "scaled"} = {} /\ events \cap {"odd", "thin", "rescaled"} = {}
    BY <1>2
  <2>2. TextClear(p) /\ (SceneColour(p, events) \/ BarsColour(p, events))
    BY <2>1 DEF Coloured, InPlace
  <2>3. SceneColour(p, events) => Holds(q, more, b)
    BY <1>1, <2>2, SceneSampled
  <2>4. BarsColour(p, events) => Holds(q, more, b)
    BY <1>1, BarsSampled
  <2> QED
    BY <2>2, <2>3, <2>4
<1> QED
  BY <1>1, <1>2 DEF Coloured, InPlace

\* A picture of the library's callers, and one of the pattern's owner, which
\* paints a new one every frame.
LibraryColour == app = "library" /\ ~dead => Coloured(pic, past, backend)
PatternColour ==
    /\ squares \in Seq([x : Nat, y : Nat, size : SquareSizes, dx : Int, dy : Int])
    /\ app = "squares" /\ ~dead => InPlace(pic, past, backend)

\* What the viewer loads is a scene; what it shows is one, or made of it.
ViewerColour ==
    app = "viewer" =>
        /\ past \subseteq {"odd"}
        /\ ~dead /\ orig.w > 0 => orig.w >= Window[1] /\ orig.h >= Window[2]
        /\ "odd" \notin past => SceneColour(orig, {}) /\ NoText(orig)
        /\ ~dead => InPlace(pic, past, backend)

\* The inductive invariant: every caller's picture, and what is known of its
\* planes.
ColourInv ==
    /\ app \in {"library", "squares", "viewer"}
    /\ SafeInv /\ LibraryColour /\ PatternColour /\ ViewerColour

\* Sides that are even and small are none.
LEMMA EvenSmall ==
    ASSUME NEW w \in Nat, NEW h \in Nat, w % 2 = 0, h % 2 = 0, "small" \in Small(w, h)
    PROVE  w = 0 \/ h = 0
BY DEF Small

\* An even picture without samples.
LEMMA EmptyColoured ==
    ASSUME NEW p, Framed(p), Even(p), p.w = 0 \/ p.h = 0, NEW events, NEW b
    PROVE  Coloured(p, events, b)
<1>1. p.w \in Nat /\ p.h \in Nat
  BY DEF Framed
<1>2. SceneColour(p, events) /\ NoText(p)
  BY EmptyScene
<1> QED
  BY <1>1, <1>2, SceneColoured

\* A received picture is a scene.
LEMMA ReceiveColour ==
    ASSUME ColourInv, Receive, ~dead'
    PROVE  Coloured(pic, past, backend)'
<1>1. PICK s \in Sizes, fmt \in Formats : Made(Converted(fmt, s[1], s[2]), {})
  BY DEF Receive
<1>2. s[1] \in Nat /\ s[2] \in Nat
  BY SizesAreNat
<1> DEFINE w == s[1]
           h == s[2]
           p == Converted(fmt, w, h)
<1>3. Made(p, {})
  BY <1>1
<1>4. p.w = w /\ p.h = h /\ Shaped(p)
  BY <1>2, ConvertedShaped DEF Sized
<1>5. w \in Nat /\ h \in Nat
  BY <1>2
<1> HIDE DEF w, h, p
<1>6. pic' = p /\ past' = Sides(w, h) /\ backend' = backend
  BY <1>3, <1>4 DEF Made
<1>7. ASSUME "odd" \notin past' PROVE Coloured(p, past', backend)
  <2>1. w % 2 = 0 /\ h % 2 = 0
    BY <1>6, <1>7, NotOdd DEF Sides
  <2>2. IsScene(p, w, h)
    BY <1>5, <2>1, ConvertedScene DEF p
  <2>3. SceneColour(p, past') /\ NoText(p)
    BY <1>5, <2>2, SceneIsScene
  <2>4. Even(p)
    BY <1>4, <2>1 DEF Even
  <2> QED
    BY <1>4, <1>5, <2>3, <2>4, SceneColoured
<1>8. Coloured(p, past', backend)
  BY <1>7 DEF Coloured, InPlace
<1> QED
  BY <1>6, <1>8

\* Painted bars have their colour, all of them if there is a column for each.
LEMMA PaintBarsColour ==
    ASSUME ColourInv, PaintBars, ~dead'
    PROVE  Coloured(pic, past, backend)'
<1>1. PICK s \in Sizes : Made(SmpteBars(I420New(s[1], s[2])), ThinIf(s[1] < Bars))
  BY DEF PaintBars
<1> DEFINE w == s[1]
           h == s[2]
           n == I420New(w, h)
           p == SmpteBars(n)
<1>2. w \in Nat /\ h \in Nat
  BY SizesAreNat
<1>3. Made(p, ThinIf(w < Bars))
  BY <1>1
<1> HIDE DEF w, h
<1>4. Sized(n, w, h)
  BY <1>2, NewRefills
<1> HIDE DEF n
<1>5. Sized(p, w, h)
  BY <1>4, BarsShaped
<1> HIDE DEF p
<1>6. /\ pic' = p /\ past' = Sides(w, h) \cup ThinIf(w < Bars) /\ backend' = backend /\ WellFormed(p)
      /\ p.w = w /\ p.h = h /\ Shaped(p)
  BY <1>3, <1>5 DEF Made, Sized
<1>7. ASSUME "odd" \notin past' PROVE Coloured(p, past', backend)
  <2>1. w % 2 = 0 /\ h % 2 = 0
    BY <1>6, <1>7, NotOdd DEF Sides
  <2>2. Framed(p)
    BY <1>6, ShapedIsFramed
  <2>3. Even(p)
    BY <1>6, <2>1 DEF Even
  <2>4. CASE w = 0
    BY <1>6, <2>2, <2>3, <2>4, EmptyColoured
  <2>5. CASE w # 0
    <3>1. w >= 2
      BY <1>2, <2>1, <2>5
    <3>2. BarsSamples(p, w, h)
      BY <1>2, <3>1, BarsAreSamples DEF p, n
    <3>3. NoText(p) /\ (w >= Bars => BarsColour(p, past'))
      BY <1>2, <2>1, <3>2, BarsPicture
    <3>4. TextClear(p)
      BY <1>2, <1>6, <3>3, NoTextClear
    <3>5. "thin" \notin past' => w >= Bars
      <4>1. Bars \in Nat
        BY PatternConstantsOK
      <4> QED
        BY <1>2, <1>6, <4>1 DEF ThinIf
    <3>6. BarsColour(p, past') => Holds(p, past', backend)
      BY <1>2, <1>6, BarsHold
    <3> QED
      BY <2>3, <3>3, <3>4, <3>5, <3>6 DEF Coloured, InPlace
  <2> QED
    BY <2>4, <2>5
<1>8. Coloured(p, past', backend)
  BY <1>7 DEF Coloured, InPlace
<1> QED
  BY <1>6, <1>8

\* The picture that a library caller transforms.
LEMMA InHandColoured ==
    ASSUME ColourInv, Library
    PROVE  /\ Coloured(pic, past, backend) /\ Framed(pic) /\ Shaped(pic) /\ WellFormed(pic)
           /\ pic.w \in Nat /\ pic.h \in Nat /\ backend \in {"native", "libyuv"}
           /\ "odd" \notin past => Even(pic)
<1>1. Coloured(pic, past, backend)
  BY DEF ColourInv, LibraryColour, Library
<1>2. Shaped(pic) /\ WellFormed(pic) /\ backend \in {"native", "libyuv"}
  BY DEF ColourInv, SafeInv, WorkInv, Library
<1>3. Framed(pic)
  BY <1>2, ShapedIsFramed
<1> QED
  BY <1>1, <1>2, <1>3 DEF Coloured, InPlace, Framed

\* A mirror, a turn and NV12 and back keep colour in its place.
LEMMA TurnedColour ==
    ASSUME ColourInv, EditMirror \/ EditRotate \/ EditNV12, ~dead'
    PROVE  Coloured(pic, past, backend)'
<1>1. Library
  BY DEF EditMirror, EditRotate, EditNV12
<1>2. /\ Coloured(pic, past, backend) /\ Framed(pic) /\ Shaped(pic) /\ pic.w \in Nat /\ pic.h \in Nat
      /\ backend \in {"native", "libyuv"}
      /\ "odd" \notin past => Even(pic)
  BY <1>1, InHandColoured
<1>3. PICK q \in {Mirrored(pic), NV12RoundTrip(pic)} \cup {Rotated(pic, rot) : rot \in {0, 90, 180, 270}} : Edited(q, {})
  BY DEF EditMirror, EditRotate, EditNV12
<1>4. pic' = q /\ past' = past /\ backend' = backend
  BY <1>3 DEF Edited
<1>5. Sized(q, pic.w, pic.h) \/ Sized(q, pic.h, pic.w)
  BY <1>2, EditedShaped DEF TurnedW, TurnedH
<1>6. "odd" \notin past => Viewed(pic, q) /\ Even(q)
  <2> SUFFICES ASSUME "odd" \notin past PROVE Viewed(pic, q) /\ Even(q)
    OBVIOUS
  <2>1. Even(pic)
    BY <1>2
  <2>2. Viewed(pic, q)
    BY <1>2, <2>1, EditsAreViews
  <2>3. Even(q)
    BY <1>5, <2>1 DEF Sized, Even
  <2> QED
    BY <2>2, <2>3
<1>7. q.w \in Nat /\ q.h \in Nat
  BY <1>2, <1>5 DEF Sized
<1>8. Coloured(q, past, backend)
  BY <1>2, <1>6, <1>7, ColouredView
<1> QED
  BY <1>4, <1>8

\* So does a crop.
LEMMA CroppedColour ==
    ASSUME ColourInv, EditCrop, ~dead'
    PROVE  Coloured(pic, past, backend)'
<1>1. Library
  BY DEF EditCrop
<1>2. /\ Coloured(pic, past, backend) /\ Framed(pic) /\ Shaped(pic) /\ pic.w \in Nat /\ pic.h \in Nat
      /\ backend \in {"native", "libyuv"}
      /\ "odd" \notin past => Even(pic)
  BY <1>1, InHandColoured
<1>3. PICK s \in Sizes, x \in 0 .. 2, y \in 0 .. 1 :
         /\ x + s[1] <= pic.w /\ y + s[2] <= pic.h
         /\ Edited(Cropped(pic, x, y, s[1], s[2]), Sides(s[1], s[2]) \cup Odd(x, y))
  BY DEF EditCrop
<1> DEFINE w == s[1]
           h == s[2]
           q == Cropped(pic, x, y, w, h)
           more == past \cup (Sides(w, h) \cup Odd(x, y))
<1>4. w \in Nat /\ h \in Nat /\ x \in Nat /\ y \in Nat /\ x + w <= pic.w /\ y + h <= pic.h
  BY <1>3, SizesAreNat
<1>5. Edited(q, Sides(w, h) \cup Odd(x, y))
  BY <1>3
<1>6. Sized(q, w, h)
  BY <1>2, <1>4, EditedShaped
<1> HIDE DEF w, h
<1>7. pic' = q /\ past' = more /\ backend' = backend
  BY <1>5 DEF Edited
<1>8. past \subseteq more /\ ("scaled" \in more => "scaled" \in past)
      /\ ("odd" \notin more => w % 2 = 0 /\ h % 2 = 0 /\ x % 2 = 0 /\ y % 2 = 0)
  <2>1. "scaled" \notin Sides(w, h) /\ "scaled" \notin Odd(x, y)
    BY DEF Sides, Odd, OddIf, Small
  <2>2. "odd" \notin more => "odd" \notin Odd(w, h) /\ "odd" \notin Odd(x, y)
    BY DEF Sides
  <2> QED
    BY <2>1, <2>2, NotOdd
<1>9. q.w = w /\ q.h = h
  BY <1>6 DEF Sized
<1> HIDE DEF more
<1>10. "odd" \notin more => Viewed(pic, q) /\ Even(q)
  <2> SUFFICES ASSUME "odd" \notin more PROVE Viewed(pic, q) /\ Even(q)
    OBVIOUS
  <2>1. Even(pic)
    BY <1>2, <1>8
  <2>2. Piece(w, h, x, y, pic.w, pic.h) /\ EvenPiece(w, h, x, y)
    BY <1>2, <1>4, <1>8 DEF Piece, EvenPiece
  <2>3. Viewed(pic, q)
    BY <1>2, <2>1, <2>2, EditsAreViews
  <2> QED
    BY <1>8, <1>9, <2>3 DEF Even
<1> HIDE DEF q
<1>11. Coloured(q, more, backend)
  <2> SUFFICES ASSUME "odd" \notin more PROVE Coloured(q, more, backend)
    BY DEF Coloured, InPlace
  <2>1. Viewed(pic, q) /\ Even(q)
    BY <1>10
  <2>2. Coloured(q, past, backend)
    BY <1>2, <1>4, <1>9, <2>1, ColouredView
  <2> QED
    BY <1>4, <1>8, <1>9, <2>1, <2>2, ColouredMore
<1> QED
  BY <1>7, <1>11

\* So does the first scaling.
LEMMA ScaledColour ==
    ASSUME ColourInv, EditScale, ~dead'
    PROVE  Coloured(pic, past, backend)'
<1>1. Library
  BY DEF EditScale
<1>2. /\ Coloured(pic, past, backend) /\ Framed(pic) /\ Shaped(pic) /\ pic.w \in Nat /\ pic.h \in Nat
      /\ backend \in {"native", "libyuv"}
      /\ "odd" \notin past => Even(pic)
  BY <1>1, InHandColoured
<1>3. PICK s \in Sizes, m \in {"backend", "buffer"} :
         Edited(IF m = "backend" THEN ScaledTo(pic, s[1], s[2]) ELSE BufferScale(pic, s[1], s[2]),
                Sides(s[1], s[2]) \cup ScaledOnce)
  BY DEF EditScale
<1> DEFINE w == s[1]
           h == s[2]
           q == IF m = "backend" THEN ScaledTo(pic, w, h) ELSE BufferScale(pic, w, h)
           more == past \cup (Sides(w, h) \cup ScaledOnce)
<1>4. w \in Nat /\ h \in Nat
  BY SizesAreNat
<1>5. Edited(q, Sides(w, h) \cup ScaledOnce)
  BY <1>3
<1>6. q = Scale(pic, w, h) \/ (backend = "libyuv" /\ q = LibyuvScale(pic, w, h))
  BY <1>2 DEF ScaledTo, BufferScale
<1> HIDE DEF w, h, q
<1>7. pic' = q /\ past' = more /\ backend' = backend /\ WellFormed(q)
  BY <1>5 DEF Edited
<1>8. past \subseteq more /\ "scaled" \in more /\ ("scaled" \in past => "rescaled" \in more)
      /\ ("odd" \notin more => w % 2 = 0 /\ h % 2 = 0)
  <2>1. "odd" \notin more => "odd" \notin Odd(w, h)
    BY DEF Sides
  <2> QED
    BY <2>1, NotOdd DEF ScaledOnce
<1> HIDE DEF more
<1>9. ASSUME "odd" \notin more PROVE Coloured(q, more, backend)
  <2>1. Even(pic) /\ w % 2 = 0 /\ h % 2 = 0
    BY <1>2, <1>8, <1>9
  <2>2. CASE pic.w # 0 /\ pic.h # 0
    <3>1. Framed(q) /\ q.w = w /\ q.h = h /\ Sampled(pic, q, backend)
      BY <1>2, <1>4, <1>6, <2>1, <2>2, ScaleSamples
    <3>2. Even(q)
      BY <2>1, <3>1 DEF Even
    <3> QED
      BY <1>2, <1>4, <1>8, <3>1, <3>2, ColouredScaled
  <2>3. CASE pic.w = 0 \/ pic.h = 0
    <3>1. w = 0 \/ h = 0
      BY <1>2, <1>4, <1>6, <1>7, <2>1, <2>3, NothingToScale
    <3>2. Shaped(q) /\ q.w = w /\ q.h = h
      BY <1>2, <1>4, <1>6, ScaleShaped, LibyuvScaleShaped DEF Sized
    <3>3. Framed(q)
      BY <1>7, <3>2, ShapedIsFramed
    <3>4. Even(q)
      BY <2>1, <3>2 DEF Even
    <3> QED
      BY <3>1, <3>2, <3>3, <3>4, EmptyColoured
  <2> QED
    BY <1>2, <2>2, <2>3
<1>10. Coloured(q, more, backend)
  BY <1>9 DEF Coloured, InPlace
<1> QED
  BY <1>7, <1>10

\* So do texts: the timestamp clears what is under it, a label does not.
LEMMA TextColour ==
    ASSUME ColourInv, EditStamp \/ EditLabel, ~dead'
    PROVE  Coloured(pic, past, backend)'
<1>1. Library
  BY DEF EditStamp, EditLabel
<1>2. /\ Coloured(pic, past, backend) /\ Framed(pic) /\ Shaped(pic) /\ pic.w \in Nat /\ pic.h \in Nat
      /\ backend \in {"native", "libyuv"}
      /\ "odd" \notin past => Even(pic)
  BY <1>1, InHandColoured
<1>3. CASE EditLabel
  <2>1. PICK lines \in Lines, a \in Anchors, z \in Scales, fill \in BOOLEAN :
           Edited(Burned(pic, lines[1], a, z, fill), {})
    BY <1>3 DEF EditLabel
  <2> DEFINE q == Burned(pic, lines[1], a, z, fill)
  <2>2. lines[1] \in Seq(BOOLEAN)
    BY LongestLine
  <2>3. Marked(pic, q, past)
    BY <1>2, <2>2, BurnedIsMarked
  <2>4. Edited(q, {})
    BY <2>1
  <2> HIDE DEF q
  <2>5. pic' = q /\ past' = past /\ backend' = backend
    BY <2>4 DEF Edited
  <2>6. Coloured(q, past, backend)
    BY <1>2, <2>3, ColouredMarked
  <2> QED
    BY <2>5, <2>6
<1>4. CASE EditStamp
  <2>1. PICK lines \in Lines, a \in Anchors, z \in Scales :
           Edited(Overlaid(pic, lines, a, z), {"stamped"} \cup Odd(a.at[1], a.at[2]))
    BY <1>4 DEF EditStamp
  <2> DEFINE q == Overlaid(pic, lines, a, z)
             event == {"stamped"} \cup Odd(a.at[1], a.at[2])
             more == past \cup event
  <2>2. Edited(q, event)
    BY <2>1
  <2>3. Sized(q, pic.w, pic.h)
    BY <1>2, OverlaidShaped DEF Sized
  <2>4. /\ past \subseteq more /\ "stamped" \in more /\ ("scaled" \in more => "scaled" \in past)
        /\ "odd" \notin more => a.at[1] % 2 = 0 /\ a.at[2] % 2 = 0
    <3>1. "scaled" \notin Odd(a.at[1], a.at[2])
      BY DEF Odd, OddIf
    <3>2. "odd" \notin more => "odd" \notin Odd(a.at[1], a.at[2])
      OBVIOUS
    <3> QED
      BY <3>1, <3>2, NotOdd
  <2>5. pic' = q /\ past' = more /\ backend' = backend /\ WellFormed(q)
    BY <2>2 DEF Edited
  <2> HIDE DEF event, more
  <2>6. ASSUME "odd" \notin more PROVE Coloured(q, more, backend)
    <3>1. Even(pic) /\ pic.w % 2 = 0 /\ pic.h % 2 = 0
      BY <1>2, <2>4, <2>6 DEF Even
    <3>2. CASE pic.w >= 2 /\ pic.h >= 2
      <4>1. a.at[1] % 2 = 0 /\ a.at[2] % 2 = 0
        BY <2>4, <2>6
      <4>2. Marked(pic, q, more)
        BY <1>2, <2>4, <3>1, <3>2, <4>1, OverlaidIsMarked
      <4> HIDE DEF q
      <4> QED
        BY <1>2, <2>4, <4>2, ColouredMarked
    <3>3. CASE ~(pic.w >= 2 /\ pic.h >= 2)
      <4> HIDE DEF q
      <4>1. q.w = pic.w /\ q.h = pic.h /\ Framed(q)
        BY <2>3, <2>5, ShapedIsFramed DEF Sized
      <4>2. q.w = 0 \/ q.h = 0
        BY <1>2, <3>1, <3>3, <4>1
      <4>3. Even(q)
        BY <3>1, <4>1 DEF Even
      <4> QED
        BY <4>1, <4>2, <4>3, EmptyColoured
    <3> QED
      BY <3>2, <3>3
  <2>7. Coloured(q, more, backend)
    BY <2>6 DEF Coloured, InPlace
  <2> QED
    BY <2>5, <2>7
<1> QED
  BY <1>3, <1>4

\* The squares stay a sequence, one for each square the pattern began with.
LEMMA SquaresAreSequence ==
    ASSUME SafeInv, PatternColour, [WorkNext]_workVars
    PROVE  /\ squares' \in Seq([x : Nat, y : Nat, size : SquareSizes, dx : Int, dy : Int])
           /\ PaintSquares => Len(squares') = Len(squares)
<1> DEFINE S == [x : Nat, y : Nat, size : SquareSizes, dx : Int, dy : Int]
<1>1. SquaresPlaced' /\ squares \in Seq(S)
  BY SquaresStep DEF SafeInv, PatternColour
<1>2. \A i \in DOMAIN squares' : squares'[i] \in S
  BY <1>1 DEF SquaresPlaced, PlacedSquare
<1> HIDE DEF S
<1>3. CASE UNCHANGED squares
  BY <1>1, <1>3 DEF S
<1>4. CASE NewSquares
  <2>1. PICK n \in 1 .. MaxSquares : squares' \in [1 .. n -> SquaresOf(SquareSizes, Speed, FrameSize[1], FrameSize[2])]
    BY <1>4 DEF NewSquares
  <2>2. n \in Nat
    BY <2>1, SizesAreNat
  <2>3. squares' \in [1 .. n -> S]
    BY <1>2, <2>1
  <2>4. ~PaintSquares
    BY <1>4 DEF PaintSquares, NewSquares
  <2>5. squares' \in Seq(S)
    BY <2>2, <2>3
  <2> QED
    BY <2>4, <2>5 DEF S
<1>5. CASE PaintSquares
  <2>1. squares' = [i \in DOMAIN squares |-> MovedSquare(squares[i], FrameSize[1], FrameSize[2])]
    BY <1>5 DEF PaintSquares
  <2> DEFINE n == Len(squares)
  <2>2. n \in Nat /\ DOMAIN squares = 1 .. n
    BY <1>1
  <2>3. DOMAIN squares' = 1 .. n
    BY <2>1, <2>2
  <2>4. squares' = [i \in 1 .. n |-> squares'[i]]
    BY <2>1, <2>2
  <2> HIDE DEF n
  <2>5. squares' \in [1 .. n -> S]
    BY <1>2, <2>3, <2>4
  <2>6. squares' \in Seq(S)
    BY <2>2, <2>5
  <2>7. Len(squares') = n
    BY <2>2, <2>3, <2>6
  <2> QED
    BY <2>6, <2>7 DEF S, n
<1> QED
  BY <1>3, <1>4, <1>5, SquaresKept

\* Every frame of the pattern has its squares' colour under them.
LEMMA PaintSquaresColour ==
    ASSUME ColourInv, PaintSquares, ~dead'
    PROVE  InPlace(pic, past, backend)'
<1> DEFINE w == FrameSize[1]
           h == FrameSize[2]
           n == I420New(w, h)
           p == DrawnSquares(n, squares')
           m == Len(squares)
           OddSide(q) == "odd" \in Odd(q.x, q.y) \cup Odd(q.size, q.size)
<1>1. w \in Nat /\ h \in Nat /\ \A z \in SquareSizes : z \in Nat
  BY SizesAreNat
<1>2. /\ pic' = p /\ backend' = backend /\ WellFormed(p)
      /\ past' = OddIf(m > 1 /\ \E i \in DOMAIN squares : OddSide(squares'[i]))
                 \cup ThinIf(\E i \in DOMAIN squares : squares[i].size = 0) \cup Sides(w, h)
  BY DEF PaintSquares
<1>3. squares # <<>> /\ squares \in Seq([x : Nat, y : Nat, size : SquareSizes, dx : Int, dy : Int]) /\ SquaresPlaced /\ SquaresPlaced'
  BY SquaresStep DEF PaintSquares, ColourInv, SafeInv, PatternColour, WorkNext
<1>4. m \in Nat /\ m # 0 /\ DOMAIN squares = 1 .. m
  BY <1>3
<1>5. DOMAIN squares' = 1 .. m /\ \A i \in 1 .. m : squares'[i].size = squares[i].size
  <2>1. squares' = [i \in DOMAIN squares |-> MovedSquare(squares[i], w, h)]
    BY DEF PaintSquares
  <2>2. \A i \in 1 .. m : squares'[i] = MovedSquare(squares[i], w, h) /\ PlacedSquare(squares[i])
    BY <1>3, <1>4, <2>1 DEF SquaresPlaced
  <2>3. \A i \in 1 .. m : squares'[i].size = squares[i].size
    BY <2>2, SquareMoves
  <2> QED
    BY <1>4, <2>1, <2>3
<1>6. Placed(squares', m, w, h)
  <2>1. \A i \in 1 .. m : PlacedSquare(squares'[i])
    BY <1>3, <1>5 DEF SquaresPlaced
  <2>2. \A i \in 1 .. m : /\ squares'[i].x \in Nat /\ squares'[i].y \in Nat /\ squares'[i].size \in Nat
                          /\ squares'[i].x <= Minus(w, squares'[i].size) /\ squares'[i].y <= Minus(h, squares'[i].size)
    BY <1>1, <2>1 DEF PlacedSquare
  <2> QED
    BY <1>4, <1>5, <2>2 DEF Placed
<1> HIDE DEF w, h, m
<1>7. Sized(n, w, h)
  BY <1>1, NewRefills
<1> HIDE DEF n
<1>8. Shaped(p) /\ p.w = w /\ p.h = h
  BY <1>7, SquaresShaped DEF Sized
<1> HIDE DEF p, OddSide
<1>9. ASSUME "odd" \notin past' PROVE InPlace(p, past', backend)
  <2>1. w % 2 = 0 /\ h % 2 = 0
    BY <1>2, <1>9, NotOdd DEF Sides
  <2>2. Framed(p)
    BY <1>2, <1>8, ShapedIsFramed
  <2>3. Even(p)
    BY <1>8, <2>1 DEF Even
  <2>4. CASE w = 0 \/ h = 0
    BY <1>8, <2>2, <2>3, <2>4, EmptyColoured DEF Coloured
  <2>5. CASE w # 0 /\ h # 0
    <3>1. w >= 2 /\ h >= 2
      BY <1>1, <2>1, <2>5
    <3>2. SquareSamples(p, squares', w, h)
      BY <1>1, <1>6, <2>1, <3>1, SquaresAreSamples DEF p, n
    <3>3. \A k \in 1 .. m : squares'[k].size \in Nat
      BY <1>6 DEF Placed
    <3>4. "thin" \notin past' => \A k \in DOMAIN squares' : squares'[k].size >= 1
      BY <1>2, <1>4, <1>5, <3>3 DEF ThinIf
    <3>5. m = 1 \/ \A k \in DOMAIN squares' : squares'[k].x % 2 = 0 /\ squares'[k].y % 2 = 0 /\ squares'[k].size % 2 = 0
      <4>1. ~(m > 1 /\ \E i \in DOMAIN squares : OddSide(squares'[i]))
        BY <1>2, <1>9 DEF OddIf
      <4>2. CASE ~(m > 1)
        BY <1>4, <4>2
      <4>3. CASE \A i \in DOMAIN squares : ~OddSide(squares'[i])
        <5>1. ASSUME NEW k \in DOMAIN squares'
              PROVE  squares'[k].x % 2 = 0 /\ squares'[k].y % 2 = 0 /\ squares'[k].size % 2 = 0
          <6>1. ~OddSide(squares'[k])
            BY <1>4, <1>5, <4>3
          <6>2. "odd" \notin Odd(squares'[k].x, squares'[k].y) /\ "odd" \notin Odd(squares'[k].size, squares'[k].size)
            BY <6>1 DEF OddSide
          <6> QED
            BY <6>2, NotOdd
        <5> QED
          BY <5>1
      <4> QED
        BY <4>1, <4>2, <4>3
    <3>6. NoText(p) /\ ("thin" \notin past' => Holds(p, past', backend))
      BY <1>1, <1>6, <2>1, <3>1, <3>2, <3>4, <3>5, SquaresPicture
    <3>7. TextClear(p)
      BY <1>1, <1>8, <3>6, NoTextClear
    <3> QED
      BY <3>6, <3>7 DEF InPlace
  <2> QED
    BY <2>4, <2>5
<1>10. InPlace(p, past', backend)
  BY <1>9 DEF InPlace
<1> QED
  BY <1>2, <1>10

\* A picture with planes of its size is shaped like one.
LEMMA FramedIsShaped ==
    ASSUME NEW p, Framed(p)
    PROVE  Shaped(p)
<1>1. \A d, w, h : PlaneOK(d, w, h) => Loose(d, w)
  <2> SUFFICES ASSUME NEW d, NEW w, NEW h, PlaneOK(d, w, h) PROVE Loose(d, w)
    OBVIOUS
  <2>1. d = [stride |-> w, data |-> d.data] /\ d.data = [i \in 0 .. w * h - 1 |-> d.data[i]]
    BY DEF PlaneOK
  <2>2. d.data = [i \in DOMAIN d.data |-> d.data[i]]
    BY <2>1
  <2> QED
    BY <2>1, <2>2 DEF Loose
<1> QED
  BY <1>1, Zenon DEF Framed, Shaped

\* Whatever button is pressed, an original that is a scene without text becomes
\* a picture whose colour is in its place.
ButtonColour(q) == Holds(q, {}, "native") /\ NoText(q)

\* A view of such a picture is one.
LEMMA ViewShown ==
    ASSUME NEW p, NEW q, p.w \in Nat, p.h \in Nat, q.w \in Nat, q.h \in Nat, Viewed(p, q), ButtonColour(p)
    PROVE  ButtonColour(q)
<1>1. Holds(q, {}, "native")
  BY ViewHolds DEF ButtonColour
<1>2. NoText(q)
  BY NoTextKept DEF ButtonColour
<1> QED
  BY <1>1, <1>2 DEF ButtonColour

\* A scaled scene, and a turned scene.
LEMMA SceneShown ==
    ASSUME NEW p, Framed(p), Even(p), SceneColour(p, {}), NoText(p), backend = "native"
    PROVE  /\ ButtonColour(p) /\ ButtonColour(NV12RoundTrip(p))
           /\ \A rot \in {0, 90, 180, 270} : /\ ButtonColour(Rotated(p, rot)) /\ SceneColour(Rotated(p, rot), {})
                                             /\ NoText(Rotated(p, rot))
           /\ p.w # 0 /\ p.h # 0 =>
                 \A w, h \in Nat : w % 2 = 0 /\ h % 2 = 0 =>
                    ButtonColour(ScaledTo(p, w, h)) /\ FramedAs(ScaledTo(p, w, h), w, h)
<1>1. p.w \in Nat /\ p.h \in Nat /\ TextClear(p)
  BY NoTextClear DEF Framed
<1>2. ButtonColour(p)
  BY <1>1, SceneHolds DEF ButtonColour
<1>3. ASSUME NEW q \in {NV12RoundTrip(p)} \cup {Rotated(p, rot) : rot \in {0, 90, 180, 270}}
      PROVE  ButtonColour(q) /\ SceneColour(q, {}) /\ NoText(q)
  <2>1. Viewed(p, q)
    BY <1>3, EditsAreViews
  <2>2. Shaped(p)
    BY FramedIsShaped
  <2>3. Sized(q, p.w, p.h) \/ Sized(q, p.h, p.w)
    BY <1>3, <2>2, EditedShaped DEF TurnedW, TurnedH
  <2>4. q.w \in Nat /\ q.h \in Nat
    BY <1>1, <2>3 DEF Sized
  <2>5. ButtonColour(q)
    BY <1>1, <1>2, <2>1, <2>4, ViewShown
  <2>6. SceneColour(q, {})
    BY <1>1, <2>1, <2>4, ViewScene
  <2> QED
    BY <2>5, <2>6 DEF ButtonColour
<1>4. ASSUME p.w # 0, p.h # 0, NEW w \in Nat, NEW h \in Nat, w % 2 = 0, h % 2 = 0
      PROVE  ButtonColour(ScaledTo(p, w, h)) /\ FramedAs(ScaledTo(p, w, h), w, h)
  <2> DEFINE q == ScaledTo(p, w, h)
  <2>1. q = Scale(p, w, h)
    BY DEF ScaledTo
  <2> HIDE DEF q
  <2>2. FramedAs(q, w, h) /\ Sampled(p, q, "native")
    BY <1>4, <2>1, ScaleSamples DEF FramedAs
  <2>3. q.w \in Nat /\ q.h \in Nat
    BY <1>4, <2>2 DEF FramedAs
  <2>4. Holds(q, {}, "native")
    BY <1>1, <2>2, <2>3, SceneSampled
  <2>5. NoText(q)
    BY <2>2, NoTextKept
  <2> QED
    BY <2>2, <2>4, <2>5 DEF ButtonColour, q
<1> QED
  BY <1>2, <1>3, <1>4

\* A centred crop of even size too.
LEMMA CentreShown ==
    ASSUME NEW p, Framed(p), Even(p), ButtonColour(p), backend = "native",
           NEW w \in Nat, NEW h \in Nat, w <= p.w, h <= p.h, w % 2 = 0, h % 2 = 0
    PROVE  ButtonColour(CentreCrop(p, w, h))
<1> DEFINE x == Centre(p.w, w)
           y == Centre(p.h, h)
           q == Cropped(p, x, y, w, h)
<1>1. p.w \in Nat /\ p.h \in Nat
  BY DEF Framed
<1>2. x \in Nat /\ y \in Nat /\ x + w <= p.w /\ y + h <= p.h
  BY <1>1, CentreInside
<1>3. x % 2 = 0 /\ y % 2 = 0
  BY <1>1 DEF Centre
<1> HIDE DEF x, y
<1>4. Piece(w, h, x, y, p.w, p.h) /\ EvenPiece(w, h, x, y)
  BY <1>1, <1>2, <1>3 DEF Piece, EvenPiece
<1>5. q.w = w /\ q.h = h /\ Viewed(p, q)
  BY <1>4, EditsAreViews
<1> HIDE DEF q
<1>6. ButtonColour(q)
  BY <1>1, <1>5, ViewShown
<1> QED
  BY <1>6 DEF q, x, y, CentreCrop

\* Whatever button is pressed, what the viewer shows has its colour in place.
LEMMA ButtonShows ==
    ASSUME NEW p, Framed(p), backend = "native", p.w % 8 = 0, p.h % 8 = 0, p.w # 0, p.h # 0,
           SceneColour(p, {}), NoText(p), NEW b \in ViewerButtons
    PROVE  ButtonColour(Pressed(b, p))
<1> DEFINE m == p.w
           n == p.h
           mm == m \div 2
           nn == n \div 2
           mq == m \div 4
           nq == n \div 4
<1>1. /\ m \in Nat /\ n \in Nat /\ mm \in Nat /\ nn \in Nat /\ mq \in Nat /\ nq \in Nat
      /\ m % 2 = 0 /\ n % 2 = 0 /\ mm % 2 = 0 /\ nn % 2 = 0 /\ mq % 2 = 0 /\ nq % 2 = 0
      /\ mm <= m /\ nn <= n /\ mq <= mm /\ nq <= nn /\ mm \div 2 = mq /\ nn \div 2 = nq
  <2>1. m \in Nat /\ n \in Nat
    BY DEF Framed
  <2> QED
    BY <2>1
<1>2. Even(p)
  BY <1>1 DEF Even
<1> DEFINE half == Half(p)
           turned == Rotated(p, 90)
<1>3. /\ ButtonColour(p) /\ ButtonColour(NV12RoundTrip(p))
      /\ ButtonColour(Rotated(p, 90)) /\ ButtonColour(Rotated(p, 180)) /\ ButtonColour(Rotated(p, 270))
      /\ SceneColour(turned, {}) /\ NoText(turned)
  BY <1>2, SceneShown
<1> HIDE DEF mm, nn, mq, nq
<1>4. \A w, h \in Nat : w % 2 = 0 /\ h % 2 = 0 => ButtonColour(ScaledTo(p, w, h)) /\ FramedAs(ScaledTo(p, w, h), w, h)
  BY <1>2, SceneShown
<1>5. ButtonColour(half) /\ FramedAs(half, mm, nn) /\ ButtonColour(Quarter(p))
  BY <1>1, <1>4 DEF Half, Quarter, mm, nn, mq, nq
<1>6. Framed(turned) /\ turned.w = n /\ turned.h = m
  <2>1. Shaped(p)
    BY FramedIsShaped
  <2>2. Sized(turned, TurnedW(m, n, 90), TurnedH(m, n, 90))
    BY <2>1, EditedShaped
  <2>3. turned = Rotate(p, 90)
    BY DEF Rotated
  <2>4. Framed(turned)
    BY <2>3, RotatePlanes DEF Turns
  <2> QED
    BY <2>2, <2>4 DEF Sized, TurnedW, TurnedH
<1>7. CASE b \in {"original", "nv12", "50%", "25%", "90", "180", "270"}
  BY <1>3, <1>5, <1>7 DEF Pressed
<1>8. CASE b = "crop"
  <2>1. Pressed(b, p) = CentreCrop(p, mm, nn)
    BY <1>8 DEF Pressed, mm, nn
  <2> QED
    BY <1>1, <1>2, <1>3, <2>1, CentreShown
<1>9. CASE b = "scale crop"
  <2>1. Pressed(b, p) = CentreCrop(half, half.w \div 2, half.h \div 2)
    BY <1>9 DEF Pressed
  <2> HIDE DEF half
  <2>2. Framed(half) /\ half.w = mm /\ half.h = nn /\ ButtonColour(half)
    BY <1>5 DEF FramedAs
  <2>3. Even(half)
    BY <1>1, <2>2 DEF Even
  <2> QED
    BY <1>1, <2>1, <2>2, <2>3, CentreShown
<1>10. CASE b = "rotate scale"
  <2>1. Pressed(b, p) = Half(turned)
    BY <1>10 DEF Pressed
  <2> HIDE DEF turned
  <2>2. Even(turned)
    BY <1>1, <1>6 DEF Even
  <2>3. \A w, h \in Nat : w % 2 = 0 /\ h % 2 = 0 => ButtonColour(ScaledTo(turned, w, h))
    BY <1>3, <1>6, <2>2, SceneShown
  <2>4. Half(turned) = ScaledTo(turned, nn, mm)
    BY <1>6 DEF Half, mm, nn
  <2> QED
    BY <1>1, <2>1, <2>3, <2>4
<1> QED
  BY <1>7, <1>8, <1>9, <1>10 DEF ViewerButtons

\* What the viewer loads is a scene.
LEMMA LoadColour ==
    ASSUME ColourInv, Load
    PROVE  ViewerColour'
<1>1. PICK s \in Images \cup {Fallback} :
        LET p == IF s = Fallback THEN SceneI420(s[1], s[2]) ELSE FromARGB(SceneARGB(s[1], s[2]), s[1], s[2])
        IN  /\ orig' = p /\ pic' = p
            /\ past' = OddIf(s[1] % 8 # 0 \/ s[2] % 8 # 0)
            /\ dead' = ~VariantsOK(p)
  BY DEF Load
<1> DEFINE w == s[1]
           h == s[2]
           p == IF s = Fallback THEN SceneI420(w, h) ELSE FromARGB(SceneARGB(w, h), w, h)
<1>2. w \in Nat /\ h \in Nat
  BY SizesAreNat
<1>3. app' = "viewer" /\ backend = "native" /\ backend' = backend
  BY DEF Load, ColourInv, SafeInv, WorkInv
<1>4. orig' = p /\ pic' = p /\ past' = OddIf(w % 8 # 0 \/ h % 8 # 0) /\ dead' = ~VariantsOK(p)
  BY <1>1
<1>5. p = Converted("I420", w, h) \/ p = Converted("ARGB", w, h)
  BY DEF Converted
<1> HIDE DEF w, h, p
<1>6. past' \subseteq {"odd"} /\ ("odd" \notin past' => w % 8 = 0 /\ h % 8 = 0)
  BY <1>4 DEF OddIf
<1>7. ~dead' => p.w >= Window[1] /\ p.h >= Window[2]
  BY <1>4 DEF VariantsOK
<1>8. ASSUME "odd" \notin past' PROVE SceneColour(p, {}) /\ NoText(p) /\ InPlace(p, past', backend)
  <2>1. w % 2 = 0 /\ h % 2 = 0
    BY <1>2, <1>6, <1>8
  <2>2. IsScene(p, w, h)
    BY <1>2, <1>5, <2>1, ConvertedScene DEF Formats
  <2>3. p.w = w /\ p.h = h
    BY <2>2 DEF IsScene
  <2>4. SceneColour(p, {}) /\ SceneColour(p, past') /\ NoText(p)
    BY <1>2, <2>2, SceneIsScene
  <2>5. Even(p)
    BY <2>1, <2>3 DEF Even
  <2>6. Coloured(p, past', backend)
    BY <1>2, <2>3, <2>4, <2>5, SceneColoured
  <2> QED
    BY <2>4, <2>6 DEF Coloured
<1>9. InPlace(p, past', backend)
  BY <1>8 DEF InPlace
<1> QED
  BY <1>3, <1>4, <1>6, <1>7, <1>8, <1>9 DEF ViewerColour

\* What it shows at a button has its colour in place.
LEMMA PressColour ==
    ASSUME ColourInv, Press
    PROVE  ViewerColour'
<1>1. PICK b \in ViewerButtons : pic' = Pressed(b, orig) /\ dead' = ~Showable(Pressed(b, orig))
  BY DEF Press
<1>2. app = "viewer" /\ ~dead /\ orig.w > 0 /\ UNCHANGED <<backend, app, orig, past>>
  BY DEF Press
<1>3. /\ past \subseteq {"odd"} /\ orig.w >= Window[1] /\ orig.h >= Window[2]
      /\ "odd" \notin past => SceneColour(orig, {}) /\ NoText(orig)
  BY <1>2 DEF ColourInv, ViewerColour
<1>4. ASSUME "odd" \notin past, ~dead' PROVE InPlace(pic', past, backend)
  <2>1. /\ orig.w \in Nat /\ orig.h \in Nat /\ orig.w % 8 = 0 /\ orig.h % 8 = 0
        /\ orig.w # 0 /\ orig.h # 0
        /\ Whole(orig, orig.w, orig.h) /\ backend = "native"
    BY <1>2, <1>3, <1>4, SoundOriginal DEF ColourInv
  <2>2. Framed(orig) /\ SceneColour(orig, {}) /\ NoText(orig)
    BY <1>3, <1>4, <2>1, WholeIsWellFormed
  <2>3. ButtonColour(Pressed(b, orig))
    BY <2>1, <2>2, ButtonShows
  <2>4. \E w, h \in Nat : EvenWhole(Pressed(b, orig), w, h)
    BY <2>1, ButtonWhole
  <2> DEFINE q == Pressed(b, orig)
  <2>5. pic' = q /\ Holds(q, {}, "native") /\ NoText(q) /\ past = {}
    BY <1>1, <1>3, <1>4, <2>3 DEF ButtonColour
  <2>6. q.w \in Nat /\ q.h \in Nat
    BY <2>4, WholeIsWellFormed DEF EvenWhole
  <2> HIDE DEF q
  <2>7. TextClear(q)
    BY <2>5, <2>6, NoTextClear
  <2> QED
    BY <2>1, <2>5, <2>7 DEF InPlace
<1>5. ~dead' => InPlace(pic', past, backend)
  BY <1>4 DEF InPlace
<1> QED
  BY <1>2, <1>3, <1>5 DEF ViewerColour

\* The invariant holds of the empty picture callers begin with.
LEMMA ColourInvInit == WorkInit => ColourInv
<1> SUFFICES ASSUME WorkInit PROVE ColourInv
  OBVIOUS
<1>1. SafeInv
  BY SafeInvInit
<1>2. orig = I420New(0, 0) /\ pic = I420New(0, 0) /\ past = {} /\ squares = <<>>
  BY DEF WorkInit
<1>3. Framed(pic) /\ pic.w = 0 /\ pic.h = 0
  BY <1>2, NewIsFramed
<1>4. Even(pic)
  BY <1>3 DEF Even
<1>5. Coloured(pic, past, backend)
  BY <1>3, <1>4, EmptyColoured
<1>6. SceneColour(orig, {}) /\ NoText(orig)
  BY <1>2, <1>3, EmptyScene
<1>7. squares \in Seq([x : Nat, y : Nat, size : SquareSizes, dx : Int, dy : Int])
  BY <1>2
<1>8. ~(orig.w > 0)
  BY <1>2, <1>3
<1>9. app \in {"library", "squares", "viewer"}
  BY DEF WorkInit
<1> QED
  BY <1>1, <1>2, <1>9, <1>5, <1>6, <1>7, <1>8 DEF ColourInv, LibraryColour, PatternColour, ViewerColour, Coloured

\* And every step keeps it.
LEMMA ColourInvNext ==
    ASSUME ColourInv, [WorkNext]_workVars
    PROVE  ColourInv'
<1>1. SafeInv' /\ SafeInv
  BY SafeInvNext DEF ColourInv
<1>10. app' = app /\ app' \in {"library", "squares", "viewer"}
  <2>1. app' = app
    BY DEF workVars, WorkNext, Receive, PaintBars, NewSquares, PaintSquares, EditScale, EditMirror, EditRotate, EditNV12,
           EditCrop, EditStamp, EditLabel, Load, Press, PickThumb, Made, Edited
  <2> QED
    BY <2>1 DEF ColourInv
<1>2. squares' \in Seq([x : Nat, y : Nat, size : SquareSizes, dx : Int, dy : Int])
  BY SquaresAreSequence DEF ColourInv
<1>3. CASE Receive \/ PaintBars \/ EditScale \/ EditMirror \/ EditRotate \/ EditNV12 \/ EditCrop \/ EditStamp \/ EditLabel
  <2>1. app' = "library"
    BY <1>3 DEF Receive, PaintBars, EditScale, EditMirror, EditRotate, EditNV12, EditCrop, EditStamp, EditLabel,
                Library, Made, Edited
  <2>2. ~dead' => Coloured(pic, past, backend)'
    BY <1>3, ReceiveColour, PaintBarsColour, ScaledColour, TurnedColour, CroppedColour, TextColour
  <2> QED
    BY <1>1, <1>10, <1>2, <2>1, <2>2 DEF ColourInv, LibraryColour, PatternColour, ViewerColour
<1>4. CASE NewSquares
  <2>1. app' = "squares" /\ UNCHANGED <<backend, app, pic, past, dead>>
    BY <1>4 DEF NewSquares
  <2> QED
    BY <1>1, <1>10, <1>2, <2>1 DEF ColourInv, LibraryColour, PatternColour, ViewerColour
<1>5. CASE PaintSquares
  <2>1. app' = "squares"
    BY <1>5 DEF PaintSquares
  <2>2. ~dead' => InPlace(pic, past, backend)'
    BY <1>5, PaintSquaresColour
  <2> QED
    BY <1>1, <1>10, <1>2, <2>1, <2>2 DEF ColourInv, LibraryColour, PatternColour, ViewerColour
<1>6. CASE Load
  <2>1. app' = "viewer"
    BY <1>6 DEF Load
  <2> QED
    BY <1>1, <1>10, <1>2, <1>6, <2>1, LoadColour DEF ColourInv, LibraryColour, PatternColour
<1>7. CASE Press
  <2>1. app' = "viewer"
    BY <1>7 DEF Press
  <2> QED
    BY <1>1, <1>10, <1>2, <1>7, <2>1, PressColour DEF ColourInv, LibraryColour, PatternColour
<1>8. CASE PickThumb
  <2>1. app' = "viewer" /\ ~dead /\ UNCHANGED <<backend, app, orig, pic, past>>
    BY <1>8 DEF PickThumb
  <2> QED
    BY <1>1, <1>10, <1>2, <2>1 DEF ColourInv, LibraryColour, PatternColour, ViewerColour
<1>9. CASE UNCHANGED workVars
  BY <1>1, <1>10, <1>2, <1>9 DEF workVars, ColourInv, LibraryColour, PatternColour, ViewerColour
<1> QED
  BY <1>3, <1>4, <1>5, <1>6, <1>7, <1>8, <1>9 DEF WorkNext

\* What the invariant says of samples is what the property says of their cells.
LEMMA InPlaceIs ==
    ASSUME SafeInv, ~dead => InPlace(pic, past, backend)
    PROVE  ColourStaysInPlace
<1>1. ASSUME ~dead PROVE Framed(pic) /\ pic.w \in Nat /\ pic.h \in Nat
  BY <1>1, ShapedIsFramed DEF SafeInv, WorkInv, Framed
<1>2. ASSUME ~dead, past \cap {"odd", "thin", "rescaled"} = {}
      PROVE  /\ pic.u = pic.v
             /\ \A i \in DOMAIN pic.y.data : pic.y.data[i] # Blank
             /\ \A c \in Halves(pic) : CellHolds(CellLuma(pic, c), CellChroma(pic, c), past, backend)
  <2>1. Holds(pic, past, backend)
    BY <1>2 DEF InPlace
  <2>2. ASSUME NEW i \in DOMAIN pic.y.data PROVE pic.y.data[i] # Blank
    <3>1. PlaneOK(pic.y, pic.w, pic.h)
      BY <1>1, <1>2 DEF Framed
    <3>2. i \in 0 .. pic.w * pic.h - 1 /\ pic.y.stride = pic.w
      BY <3>1 DEF PlaneOK
    <3>3. PICK a \in 0 .. pic.w - 1, b \in 0 .. pic.h - 1 : b * pic.w + a = i
      BY <1>1, <1>2, <3>2, IndexOnto
    <3>4. LumaAt(pic, <<a, b>>) = pic.y.data[i]
      BY <3>2, <3>3 DEF LumaAt, Index
    <3>5. <<a, b>> \in Area(pic.w, pic.h)
      BY DEF Area
    <3> QED
      BY <2>1, <3>4, <3>5 DEF Holds
  <2> QED
    BY <2>1, <2>2 DEF Holds
<1>3. ChromaStaysWithLuma
  BY <1>2 DEF ChromaStaysWithLuma, CellHolds
<1>4. TextHasNoColour
  BY DEF TextHasNoColour, InPlace, TextClear
<1> QED
  BY <1>3, <1>4 DEF ColourStaysInPlace

\* Colour stays in place, whatever the constants: after every sequence of
\* conversions, patterns, overlays and transforms of either backend, and
\* whatever button of the viewer is pressed.
THEOREM ColourInPlace == WorkSpec => []ColourStaysInPlace
<1>1. WorkInit => ColourInv
  BY ColourInvInit
<1>2. ColourInv /\ [WorkNext]_workVars => ColourInv'
  BY ColourInvNext
<1>3. ColourInv => ColourStaysInPlace
  <2> SUFFICES ASSUME ColourInv PROVE ColourStaysInPlace
    OBVIOUS
  <2>1. ~dead => InPlace(pic, past, backend)
    BY DEF ColourInv, LibraryColour, PatternColour, ViewerColour, Coloured
  <2> QED
    BY <2>1, InPlaceIs DEF ColourInv
<1> QED
  BY <1>1, <1>2, <1>3, PTL DEF WorkSpec
=============================================================================
