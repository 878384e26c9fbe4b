------------------------------ MODULE Patterns ------------------------------
(***************************************************************************)
(* What the generator paints into a new buffer: coloured squares, colour   *)
(* bars and text (media/src/pipeline/generator: squares.rs, smpte_bars.rs, *)
(* timestamp.rs, fonts/).                                                  *)
(*                                                                         *)
(* A painted sample is the one "point" of its paint.  Which colour a paint *)
(* is does not matter here, only whether chroma has the paint of its luma: *)
(* Grey paints (background, gradient, text) go with Neutral chroma.        *)
(***************************************************************************)
EXTENDS FrameOps, Sequences

CONSTANTS
    Bars,       \* colour bars side by side (7 in the code)
    GlyphW, GlyphH, Lit,    \* a glyph's cell, and what of it a digit lights (6 x 10)
    Margin      \* of an anchored text (4 in the code)

\* A glyph's sides and the margin are even: text fills whole chroma cells.
ASSUME PatternConstantsOK ==
    /\ Bars \in Nat \ {0} /\ GlyphW \in Nat \ {0} /\ GlyphH \in Nat \ {0}
    /\ Lit \subseteq Area(GlyphW, GlyphH) /\ Margin \in Nat
    /\ \A n \in {GlyphW, GlyphH, Margin} : n % 2 = 0

Bar(i)     == {<<-2, i>>}
Square(i)  == {<<-3, i>>}
Background == {<<-4, 0>>}
Gradient   == {<<-4, 1>>}
Text       == {<<-4, 2>>}
Label      == {<<-4, 3>>}
Neutral    == {<<-5, 0>>}
Grey       == {Background, Gradient, Text, Label}

Least(a, b) == IF a <= b THEN a ELSE b
Most(a, b)  == IF a >= b THEN a ELSE b
Minus(a, b) == Most(a - b, 0)                   \* saturating_sub

Rect(x0, x1, y0, y1) == (x0 .. x1 - 1) \X (y0 .. y1 - 1)

\* Rectangles painted one after the other: a later one covers an earlier one.
Painted(plane, ks, Cells(_), Val(_)) ==
    LET Top(c) == CHOOSE k \in ks : c \in Cells(k) /\ \A j \in ks : c \in Cells(j) => j <= k
    IN  Written(plane, UNION {Cells(k) : k \in ks}, LAMBDA c : Index(plane.stride, c),
                LAMBDA c : Val(Top(c)))

Filled(plane, val) == [plane EXCEPT !.data = [i \in DOMAIN plane.data |-> val]]

----------------------------------------------------------------------------
(* SmpteBarsPattern::draw                                                  *)

\* Bars over two thirds of the height, a grey gradient below.
SmpteBars(pic) ==
    LET w == pic.w  h == pic.h  halfW == w \div 2
        barH == (h * 2) \div 3
        barW == IF w >= Bars THEN w \div Bars ELSE 1
        Start(i) == i * barW
        End(i) == IF i = Bars - 1 THEN w ELSE Least((i + 1) * barW, w)
        HalfStart(i) == Least(Start(i) \div 2, Minus(halfW, 1))
        HalfEnd(i) == Most(Least(End(i) \div 2, halfW), HalfStart(i) + 1)
        LumaOf(i) == IF i < Bars THEN Rect(Start(i), End(i), 0, barH) ELSE Rect(0, w, barH, h)
        ChromaOf(i) ==
            IF i < Bars THEN Rect(HalfStart(i), HalfEnd(i), 0, barH \div 2)
                        ELSE {c \in Rect(0, halfW, barH \div 2, h) : c[2] < h \div 2}
        Chroma(p) == Painted(p, 0 .. Bars, ChromaOf, LAMBDA i : IF i < Bars THEN Bar(i) ELSE Neutral)
    IN  [pic EXCEPT !.y = Painted(@, 0 .. Bars, LumaOf, LAMBDA i : IF i < Bars THEN Bar(i) ELSE Gradient),
                    !.u = Chroma(@), !.v = Chroma(@)]

----------------------------------------------------------------------------
(* SquaresPattern                                                          *)

\* generate_squares: anywhere in the frame, a velocity of 1..speed either way.
SquaresOf(sizes, speed, w, h) ==
    LET Place(max) == IF max > 0 THEN 0 .. max - 1 ELSE {0}
        Velocity == {d \in -speed .. speed : speed > 0 => d # 0}
    IN  UNION {[x : Place(Minus(w, z)), y : Place(Minus(h, z)), size : {z}, dx : Velocity, dy : Velocity] :
                 z \in sizes}

\* Mutation: the reflected place is not clamped.
BouncedUnclamped(at, by, max) ==
    LET new == at + by
    IN  [at |-> IF new < 0 THEN -new ELSE IF new > max THEN 2 * max - new ELSE new,
         by |-> IF new < 0 \/ new > max THEN -by ELSE by]

\* One axis of a step: reflected at an edge, and never beyond either.
Bounced(at, by, max) ==
    LET new == at + by
        reflected == IF new < 0 THEN -new ELSE IF new > max THEN 2 * max - new ELSE new
    IN  [at |-> Most(0, Least(reflected, max)), by |-> IF new < 0 \/ new > max THEN -by ELSE by]

MovedSquare(sq, w, h) ==
    LET nx == Bounced(sq.x, sq.dx, Minus(w, sq.size))
        ny == Bounced(sq.y, sq.dy, Minus(h, sq.size))
    IN  [sq EXCEPT !.x = nx.at, !.dx = nx.by, !.y = ny.at, !.dy = ny.by]

\* The squares in their places over a grey background.
DrawnSquares(pic, squares) ==
    LET halfW == pic.w \div 2  halfH == pic.h \div 2
        EndX(sq) == Least(sq.x + sq.size, pic.w)
        EndY(sq) == Least(sq.y + sq.size, pic.h)
        LumaOf(i) == Rect(squares[i].x, EndX(squares[i]), squares[i].y, EndY(squares[i]))
        ChromaOf(i) ==
            LET ux == Least(squares[i].x \div 2, Minus(halfW, 1))
                uy == Least(squares[i].y \div 2, Minus(halfH, 1))
            IN  Rect(ux, Most(Least(EndX(squares[i]) \div 2, halfW), ux + 1),
                     uy, Most(Least(EndY(squares[i]) \div 2, halfH), uy + 1))
        Draw(p, Of(_), ground) == Painted(Filled(p, ground), DOMAIN squares, Of, Square)
    IN  [pic EXCEPT !.y = Draw(@, LumaOf, Background), !.u = Draw(@, ChromaOf, Neutral),
                    !.v = Draw(@, ChromaOf, Neutral)]

----------------------------------------------------------------------------
(* Text: BitmapFont, TextBurner and TimestampOverlay.                      *)

\* An anchor is "top left", "bottom left" or an explicit position.
TopLeft    == [kind |-> "top left", at |-> <<0, 0>>]
BottomLeft == [kind |-> "bottom left", at |-> <<0, 0>>]
At(x, y)   == [kind |-> "position", at |-> <<x, y>>]

\* draw_glyph: what a lit place becomes at a scale, clipped to the frame.
GlyphCells(ox, oy, scale, w, h) ==
    {c \in Area(w, h) :
        \E l \in Lit, sx \in 0 .. scale - 1, sy \in 0 .. scale - 1 :
            c = <<ox + l[1] * scale + sx, oy + l[2] * scale + sy>>}

\* draw_text: glyphs side by side.  A line is a sequence of booleans, false
\* for a character the font lacks (the space), which leaves its place empty.
TextCells(line, ox, oy, scale, w, h) ==
    UNION {GlyphCells(ox + (i - 1) * GlyphW * scale, oy, scale, w, h) :
             i \in {i \in DOMAIN line : line[i]}}

\* TextBurner::resolve_anchor keeps an explicit position inside the frame.
ResolvedAnchor(anchor, textH, w, h) ==
    CASE anchor.kind = "top left"    -> <<Margin, Margin>>
      [] anchor.kind = "bottom left" -> <<Margin, Minus(h, textH + Margin)>>
      [] anchor.kind = "position"    -> <<Least(anchor.at[1], Minus(w, 1)), Least(anchor.at[2], Minus(h, 1))>>

\* TextBurner::burn: luma only, over a filled rectangle if asked to.
Burned(pic, line, anchor, scale, fill) ==
    LET o == ResolvedAnchor(anchor, GlyphH * scale, pic.w, pic.h)
        ground == IF fill THEN Rect(o[1], Least(o[1] + Len(line) * GlyphW * scale, pic.w),
                                    o[2], Least(o[2] + GlyphH * scale, pic.h)) ELSE {}
        Layer(k) == IF k = 0 THEN ground ELSE TextCells(line, o[1], o[2], scale, pic.w, pic.h)
    IN  [pic EXCEPT !.y = Painted(@, {0, 1}, Layer, LAMBDA k : Label)]

\* Mutation: chroma is cleared for one line, whatever their number.
OverlaidOneLine(pic, lines, anchor, scale) ==
    LET w == pic.w  h == pic.h
        textW == Len(lines[1]) * GlyphW * scale
        o == IF anchor.kind = "position" THEN anchor.at
             ELSE ResolvedAnchor(anchor, Len(lines) * GlyphH * scale, w, h)
        endX == Least((o[1] + textW) \div 2, Most(w \div 2, 1))
        endY == Least((o[2] + GlyphH * scale) \div 2, Most(h \div 2, 1))
        cleared == Rect(Least(o[1] \div 2, Minus(endX, 1)), endX, Least(o[2] \div 2, Minus(endY, 1)), endY)
        Clear(p) == Painted(p, {0}, LAMBDA k : cleared, LAMBDA k : Neutral)
        Line(i) == TextCells(lines[i], o[1], o[2] + (i - 1) * GlyphH * scale, scale, w, h)
    IN  [pic EXCEPT !.y = Painted(@, DOMAIN lines, Line, LAMBDA i : Text), !.u = Clear(@), !.v = Clear(@)]

\* TimestampOverlay::burn_i420: the anchor's position is taken as it is, the
\* chroma under the text is cleared, then every line is drawn.
Overlaid(pic, lines, anchor, scale) ==
    LET w == pic.w  h == pic.h
        longest == CHOOSE n \in {Len(lines[i]) : i \in DOMAIN lines} :
                      \A i \in DOMAIN lines : Len(lines[i]) <= n
        textW == longest * GlyphW * scale
        textH == Len(lines) * GlyphH * scale
        o == IF anchor.kind = "position" THEN anchor.at ELSE ResolvedAnchor(anchor, textH, w, h)
        endX == Least((o[1] + textW) \div 2, Most(w \div 2, 1))
        endY == Least((o[2] + textH) \div 2, Most(h \div 2, 1))
        cleared == Rect(Least(o[1] \div 2, Minus(endX, 1)), endX, Least(o[2] \div 2, Minus(endY, 1)), endY)
        Clear(p) == Painted(p, {0}, LAMBDA k : cleared, LAMBDA k : Neutral)
        Line(i) == TextCells(lines[i], o[1], o[2] + (i - 1) * GlyphH * scale, scale, w, h)
    IN  [pic EXCEPT !.y = Painted(@, DOMAIN lines, Line, LAMBDA i : Text), !.u = Clear(@), !.v = Clear(@)]
=============================================================================
