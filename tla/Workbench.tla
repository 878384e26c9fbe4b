----------------------------- MODULE Workbench -----------------------------
(***************************************************************************)
(* Callers of the media library's pictures: the tests in media/tests,      *)
(* which fill a buffer and put it through transforms, and the viewer       *)
(* (media/examples/viewer.rs), which loads an image, prepares a set of     *)
(* variants and applies a transform to the original at each button.        *)
(*                                                                         *)
(* The backend is chosen when the library is built.  A picture that is not *)
(* WellFormed ends the program: a panic in the Rust code, memory that is   *)
(* not the buffer's in libyuv.  The viewer is written against the native   *)
(* backend; its arithmetic is that of a build with overflow checks.        *)
(***************************************************************************)
EXTENDS Patterns

CONSTANTS
    Sizes,          \* <<width, height>> of the pictures callers make
    Images,         \* sizes of the image file the viewer may find
    Fallback,       \* of its test pattern (320 x 240)
    Window,         \* of its centre crop (960 x 540)
    ThumbSizes,     \* thumbnail widths on offer (120 .. 480)
    FrameSize,      \* of the pattern generator's frames
    SquareSizes, Speed, MaxSquares,     \* SquaresConfig
    Lines,          \* texts that are put over a picture
    Anchors, Scales,
    MaxEdits        \* bound: transforms in a row

\* The viewer's window is even and not too elongated for its thumbnails.
ASSUME WorkbenchConstantsOK ==
    /\ \A s \in Sizes \cup Images \cup {Fallback, Window, FrameSize} : s[1] \in Nat /\ s[2] \in Nat
    /\ \A d \in {1, 2} : Window[d] # 0 /\ Window[d] % 2 = 0
    /\ ThumbSizes \subseteq Nat
    /\ \A t \in ThumbSizes : Least(Window[1], Window[2]) * t >= Most(Window[1], Window[2])
    /\ SquareSizes \subseteq Nat /\ Speed \in Nat /\ MaxSquares \in Nat /\ MaxEdits \in Nat
    /\ Lines \subseteq Seq(Seq(BOOLEAN)) \ {<<>>} /\ Scales \subseteq Nat
    /\ \A a \in Anchors : /\ a.kind \in {"top left", "bottom left", "position"}
                          /\ a.at[1] \in Nat /\ a.at[2] \in Nat

VARIABLES
    backend,    \* "native" or "libyuv"
    app,        \* who calls: "library", the "squares" pattern's owner or the "viewer"
    orig,       \* the viewer's original (single.orig_i420)
    pic,        \* the picture in hand; the one the viewer shows
    past,       \* what the picture has been through, as far as it matters below
    edits,      \* transforms since the picture was made
    squares,    \* the squares of the generator's pattern
    thumb,      \* the viewer's thumbnail width
    dead        \* the program has ended in the way described above

workVars == <<backend, app, orig, pic, past, edits, squares, thumb, dead>>

\* "odd": a size or a corner that chroma cannot halve; "small": a size that has
\* no chroma; "thin": a bar or a square that has no luma sample of its own;
\* "scaled", "rescaled": once, more than once; "stamped": a text whose chroma was
\* cleared.
OddIf(b) == IF b THEN {"odd"} ELSE {}
Odd(w, h) == OddIf(w % 2 # 0 \/ h % 2 # 0)
Small(w, h) == IF w < 2 \/ h < 2 THEN {"small"} ELSE {}
Sides(w, h) == Odd(w, h) \cup Small(w, h)
ThinIf(b) == IF b THEN {"thin"} ELSE {}
ScaledOnce == IF "scaled" \in past THEN {"rescaled"} ELSE {"scaled"}

----------------------------------------------------------------------------
(* The transforms of the backend in use.                                   *)

ScaledTo(p, w, h) == IF backend = "native" THEN Scale(p, w, h) ELSE LibyuvScale(p, w, h)
Mirrored(p)       == IF backend = "native" THEN Mirror(p) ELSE LibyuvMirror(p)
Cropped(p, x, y, w, h) == IF backend = "native" THEN Crop(p, x, y, w, h) ELSE LibyuvCrop(p, x, y, w, h)
Rotated(p, rot)   == IF backend = "native" THEN Rotate(p, rot) ELSE LibyuvRotate(p, rot)
FromARGB(argb, w, h) == IF backend = "native" THEN ARGBToI420(argb, w, h) ELSE LibyuvARGBToI420(argb, w, h)
ToARGB(p)         == IF backend = "native" THEN I420ToARGB(p) ELSE LibyuvI420ToARGB(p)
NV12RoundTrip(p)  == IF backend = "native" THEN NV12ToI420(I420ToNV12(p))
                                           ELSE LibyuvNV12ToI420(LibyuvI420ToNV12(p))

----------------------------------------------------------------------------
(* The library's callers.                                                  *)

Formats == {"I420", "I422", "I444", "NV12", "I010", "ARGB"}

Converted(fmt, w, h) ==
    CASE fmt = "I420" -> SceneI420(w, h)
      [] fmt = "I422" -> I422ToI420(SceneI422(w, h))
      [] fmt = "I444" -> I444ToI420(SceneI444(w, h))
      [] fmt = "NV12" -> NV12BufferToI420(SceneNV12(w, h))
      [] fmt = "I010" -> I010ToI420(SceneI010(w, h))
      [] fmt = "ARGB" -> FromARGB(SceneARGB(w, h), w, h)

\* A new picture in hand.
Made(p, event) ==
    /\ pic' = p
    /\ past' = Sides(p.w, p.h) \cup event
    /\ edits' = 0
    /\ dead' = ~WellFormed(p)
    /\ UNCHANGED <<backend, app, orig, squares, thumb>>

\* The picture in hand replaced by a transform of it.
Edited(p, event) ==
    /\ edits < MaxEdits
    /\ pic' = p
    /\ past' = past \cup event
    /\ edits' = edits + 1
    /\ dead' = ~WellFormed(p)
    /\ UNCHANGED <<backend, app, orig, squares, thumb>>

Library == app = "library" /\ ~dead

Receive == /\ Library
           /\ \E s \in Sizes, fmt \in Formats : Made(Converted(fmt, s[1], s[2]), {})

\* A bar of a frame that has fewer columns than bars may have chroma alone.
PaintBars == /\ Library
             /\ \E s \in Sizes : Made(SmpteBars(I420New(s[1], s[2])), ThinIf(s[1] < Bars))

\* SquaresPattern::with_config
NewSquares ==
    /\ app = "squares" /\ squares = <<>>
    /\ \E n \in 1 .. MaxSquares :
          squares' \in [1 .. n -> SquaresOf(SquareSizes, Speed, FrameSize[1], FrameSize[2])]
    /\ UNCHANGED <<backend, app, orig, pic, past, edits, thumb, dead>>

\* Every frame moves the squares, then draws them.  Of two squares the one
\* behind may leave its chroma where the one in front has an odd edge.
PaintSquares ==
    /\ app = "squares" /\ ~dead /\ squares # <<>>
    /\ squares' = [i \in DOMAIN squares |-> MovedSquare(squares[i], FrameSize[1], FrameSize[2])]
    /\ pic' = DrawnSquares(I420New(FrameSize[1], FrameSize[2]), squares')
    /\ past' = OddIf(Len(squares) > 1 /\ \E i \in DOMAIN squares : LET q == squares'[i] IN
                       "odd" \in Odd(q.x, q.y) \cup Odd(q.size, q.size))
             \cup ThinIf(\E i \in DOMAIN squares : squares[i].size = 0)
             \cup Sides(FrameSize[1], FrameSize[2])
    /\ dead' = ~WellFormed(pic')
    /\ UNCHANGED <<backend, app, orig, edits, thumb>>

EditScale  == /\ Library
              /\ \E s \in Sizes, m \in {"backend", "buffer"} :
                    Edited(IF m = "backend" THEN ScaledTo(pic, s[1], s[2]) ELSE BufferScale(pic, s[1], s[2]),
                           Sides(s[1], s[2]) \cup ScaledOnce)
EditMirror == Library /\ Edited(Mirrored(pic), {})
EditRotate == Library /\ \E rot \in {0, 90, 180, 270} : Edited(Rotated(pic, rot), {})
EditNV12   == Library /\ Edited(NV12RoundTrip(pic), {})
EditCrop   == /\ Library
              /\ \E s \in Sizes, x \in 0 .. 2, y \in 0 .. 1 :
                    /\ x + s[1] <= pic.w /\ y + s[2] <= pic.h
                    /\ Edited(Cropped(pic, x, y, s[1], s[2]), Sides(s[1], s[2]) \cup Odd(x, y))
EditStamp  == /\ Library
              /\ \E lines \in Lines, a \in Anchors, z \in Scales :
                    Edited(Overlaid(pic, lines, a, z), {"stamped"} \cup Odd(a.at[1], a.at[2]))
EditLabel  == /\ Library
              /\ \E lines \in Lines, a \in Anchors, z \in Scales, fill \in BOOLEAN :
                    Edited(Burned(pic, lines[1], a, z, fill), {})

----------------------------------------------------------------------------
(* The viewer.                                                             *)

Half(p)    == ScaledTo(p, p.w \div 2, p.h \div 2)
Quarter(p) == ScaledTo(p, p.w \div 4, p.h \div 4)

\* cx = ((w - cw) / 2) & !1
Centre(full, part) == 2 * (((full - part) \div 2) \div 2)
CentreCrop(p, w, h) == Cropped(p, Centre(p.w, w), Centre(p.h, h), w, h)

ViewerButtons == {"original", "nv12", "50%", "25%", "crop", "90", "180", "270",
                  "scale crop", "rotate scale"}

Pressed(b, p) ==
    CASE b = "original" -> p
      [] b = "nv12" -> NV12RoundTrip(p)
      [] b = "50%"  -> Half(p)
      [] b = "25%"  -> Quarter(p)
      [] b = "crop" -> CentreCrop(p, p.w \div 2, p.h \div 2)
      [] b = "90"   -> Rotated(p, 90)
      [] b = "180"  -> Rotated(p, 180)
      [] b = "270"  -> Rotated(p, 270)
      [] b = "scale crop"   -> LET half == Half(p) IN CentreCrop(half, half.w \div 2, half.h \div 2)
      [] b = "rotate scale" -> Half(Rotated(p, 90))

\* What cannot be turned into RGBA is not shown: the conversion panics.
Showable(p) ==
    /\ WellFormed(p)
    /\ LET argb == ToARGB(p)
       IN  \A i \in DOMAIN argb : Nowhere \notin argb[i].u \cup argb[i].v

\* build_variants: all that is prepared for the grid.  The centre crop's
\* w - 960 and h - 540 underflow for a smaller picture.
Variants(p) ==
    {Pressed(b, p) : b \in ViewerButtons \ {"crop"}}
    \cup {CentreCrop(p, Least(p.w, Window[1]), Least(p.h, Window[2]))}
VariantsOK(p) ==
    /\ p.w >= Window[1] /\ p.h >= Window[2]
    /\ \A v \in Variants(p) : Showable(v)

\* App::default and the Reload button: the image, or the test pattern.
Load ==
    /\ app = "viewer" /\ ~dead
    /\ \E s \in Images \cup {Fallback} :
        LET p == IF s = Fallback THEN SceneI420(s[1], s[2]) ELSE FromARGB(SceneARGB(s[1], s[2]), s[1], s[2])
        IN  /\ orig' = p /\ pic' = p
            /\ past' = OddIf(s[1] % 8 # 0 \/ s[2] % 8 # 0)
            /\ dead' = ~VariantsOK(p)
    /\ UNCHANGED <<backend, app, edits, squares, thumb>>

\* apply_single: always from the original.
Press ==
    /\ app = "viewer" /\ ~dead /\ orig.w > 0
    /\ \E b \in ViewerButtons :
        /\ pic' = Pressed(b, orig)
        /\ dead' = ~Showable(Pressed(b, orig))
    /\ UNCHANGED <<backend, app, orig, past, edits, squares, thumb>>

\* thumb_dims; a side that comes out as 0 makes load_texture's image and its
\* size disagree.
ThumbSide(side, longest, t) == IF longest <= t THEN side ELSE (side * t) \div longest
PickThumb ==
    /\ app = "viewer" /\ ~dead /\ orig.w > 0
    /\ \E t \in ThumbSizes :
        /\ thumb' = t
        /\ dead' = (\E v \in Variants(orig) :
                       0 \in {ThumbSide(v.w, Most(v.w, v.h), t), ThumbSide(v.h, Most(v.w, v.h), t)})
    /\ UNCHANGED <<backend, app, orig, pic, past, edits, squares>>

----------------------------------------------------------------------------
WorkInit ==
    /\ backend \in {"native", "libyuv"}
    /\ app \in {"library", "squares", "viewer"}
    /\ app # "library" => backend = "native"
    /\ orig = I420New(0, 0)
    /\ pic = I420New(0, 0)
    /\ past = {}
    /\ edits = MaxEdits
    /\ squares = <<>>
    /\ thumb = CHOOSE t \in ThumbSizes : \A o \in ThumbSizes : t >= o
    /\ dead = FALSE

WorkNext ==
    \/ Receive \/ PaintBars \/ NewSquares \/ PaintSquares
    \/ EditScale \/ EditMirror \/ EditRotate \/ EditNV12 \/ EditCrop \/ EditStamp \/ EditLabel
    \/ Load \/ Press \/ PickThumb

WorkSpec == WorkInit /\ [][WorkNext]_workVars

----------------------------------------------------------------------------
(* Properties.                                                             *)

Elongated(p) == \E t \in ThumbSizes : Least(p.w, p.h) * t < Most(p.w, p.h)

\* Whatever sequence of conversions, drawing and transforms a caller makes, no
\* read or write leaves a plane, as long as sizes and corners are even and there
\* is chroma at all, and of the native backend's none if they are odd.  What can
\* end the program is an odd size in libyuv's hands or shown by the viewer, a
\* picture of one column or row (scaled up, or painted), an image smaller than
\* the viewer's crop window, or one too elongated for a thumbnail.
OnlyOddOrSmallPicturesFail ==
    dead => \/ "odd" \in past /\ (backend = "libyuv" \/ app = "viewer")
            \/ "small" \in past
            \/ app = "viewer" /\ (orig.w < Window[1] \/ orig.h < Window[2] \/ Elongated(orig))

CellLuma(p, c) == {p.y.data[Index(p.y.stride, l)] : l \in Block(c[1], c[2])}
CellChroma(p, c) == p.u.data[Index(p.u.stride, c)]

\* Between the outermost points of the scene that the lumas show, or of a
\* paint that one of them has.
AmongLumas(chroma, lumas) ==
    LET pts == {q \in UNION lumas : q[1] >= 0}
    IN  \/ \E q \in chroma : \A d \in {1, 2} :
               /\ \E a \in pts : a[d] <= q[d]
               /\ \E b \in pts : b[d] >= q[d]
        \/ chroma \in lumas
        \/ chroma = Neutral /\ lumas \cap Grey # {}

\* The three planes of an even picture keep together: U and V agree, nothing
\* is left unwritten, and the colour of a cell is the colour of what its four
\* luma samples show.  Each transform computes the chroma plane's geometry on
\* its own, from halved sizes, halved corners and strides, and a pattern or an
\* overlay paints it with loops of its own.
ChromaStaysWithLuma ==
    dead \/ past \cap {"odd", "thin", "rescaled"} # {} \/
    (/\ pic.u = pic.v
     /\ \A i \in DOMAIN pic.y.data : pic.y.data[i] # Blank
     /\ \A c \in Halves(pic) :
          LET lumas == CellLuma(pic, c)  chroma == CellChroma(pic, c)
          IN  \/ AmongLumas(chroma, lumas)
              \/ Label \in lumas                             \* drawn on luma alone
              \/ chroma = Neutral /\ "stamped" \in past      \* beside the letters
              \/ chroma # Blank /\ "scaled" \in past /\ \A q \in chroma : q[1] < 0
              \/ Text \in lumas /\ "scaled" \in past /\ backend = "libyuv")

\* Text of the timestamp overlay has no colour under it, wherever an even
\* anchor and a clipping frame edge put it, and keeps none through mirrors,
\* turns and crops.
TextHasNoColour ==
    (~dead /\ past \cap {"odd", "scaled"} = {}) =>
        \A c \in Halves(pic) : Text \in CellLuma(pic, c) => CellChroma(pic, c) = Neutral

\* Colour is where the picture has it and nowhere else, after any patterns,
\* overlays and transforms of either backend.
ColourStaysInPlace == ChromaStaysWithLuma /\ TextHasNoColour

\* On every even picture the backend's transforms undo each other, plane by
\* plane: mirroring twice, turning there and back, a crop of the whole, NV12
\* and back; and the two backends' crops agree.
TransformsUndoEachOther ==
    (~dead /\ "odd" \notin past) =>
        /\ Mirrored(Mirrored(pic)) = pic
        /\ Rotated(Rotated(pic, 90), 270) = pic
        /\ Rotated(Rotated(pic, 90), 90) = Rotated(pic, 180)
        /\ Mirrored(Rotated(Mirrored(pic), 180)) = Rotated(pic, 180)
        /\ NV12RoundTrip(pic) = pic
        /\ LibyuvCrop(pic, 0, 0, pic.w, pic.h) = Crop(pic, 0, 0, pic.w, pic.h)

\* From frame to frame a square keeps its size and its speed, moves by no more
\* than that on each axis, and is within the frame, however its speed compares
\* with the room it has (SquaresPattern::draw, reflection and clamp).
SquaresMoveSteadily ==
    [][(squares # <<>> /\ squares' # <<>>) =>
         \A i \in DOMAIN squares :
            LET q == squares[i]  r == squares'[i]
                Far(a, b) == IF a < b THEN b - a ELSE a - b
            IN  /\ r.size = q.size
                /\ r.dx \in {q.dx, -q.dx} /\ r.dy \in {q.dy, -q.dy}
                /\ Far(q.x, r.x) <= Most(q.dx, -q.dx) /\ Far(q.y, r.y) <= Most(q.dy, -q.dy)
                /\ r.x \in 0 .. Minus(FrameSize[1], r.size) /\ r.y \in 0 .. Minus(FrameSize[2], r.size)
      ]_squares
============================================================================
