----------------------------- MODULE FrameOps ------------------------------
(***************************************************************************)
(* Frame buffers and the transforms on them (media/src/base/buffer.rs,     *)
(* backend/native.rs, backend/libyuv.rs).                                  *)
(*                                                                         *)
(* What is kept of the code is its addressing: which place of which plane  *)
(* every loop reads and writes.  What is abstracted is the value of a      *)
(* sample: instead of a brightness it is the set of points <<column, row>> *)
(* of the original scene that it shows.  Averaging is the union, copying   *)
(* and narrowing keep the set, and the colour arithmetic of one pixel is   *)
(* left out.                                                               *)
(*                                                                         *)
(* An index that is outside its plane does not disappear: a read yields    *)
(* Outside, a write makes the plane longer than it may be.  WellFormed is  *)
(* false of such a picture: the pure Rust code panics there, the libyuv    *)
(* code reads or writes memory that is not the plane's.                    *)
(***************************************************************************)
EXTENDS Integers, FiniteSets

Nowhere == <<-1, -1>>
Outside == {Nowhere}
Blank   == {}               \* what a new buffer holds

Area(w, h) == (0 .. w-1) \X (0 .. h-1)
Index(stride, c) == c[2] * stride + c[1]
Read(data, i) == IF i \in DOMAIN data THEN data[i] ELSE Outside

Plane(stride, len, Val(_)) == [stride |-> stride, data |-> [i \in 0 .. len-1 |-> Val(i)]]
BlankPlane(stride, len) == Plane(stride, len, LAMBDA i : Blank)

\* One sample per cell c of the loops, from Val(c) to the index To(c).
Written(plane, cells, To(_), Val(_)) ==
    LET at == {To(c) : c \in cells}
    IN  [plane EXCEPT !.data = [i \in DOMAIN plane.data \cup at |->
            IF i \in at THEN Val(CHOOSE c \in cells : To(c) = i) ELSE plane.data[i]]]

----------------------------------------------------------------------------
(* The buffers.                                                            *)

\* A zero-filled I420 buffer: odd sizes round the chroma planes down.
I420New(w, h) ==
    [w |-> w, h |-> h,
     y |-> BlankPlane(w, w * h),
     u |-> BlankPlane(w \div 2, (w \div 2) * (h \div 2)),
     v |-> BlankPlane(w \div 2, (w \div 2) * (h \div 2))]

\* Nothing was read from outside a plane or written there.
WellFormed(pic) ==
    /\ \A p \in {"y", "u", "v"} : \A i \in DOMAIN pic[p].data : Nowhere \notin pic[p].data[i]
    /\ \A p \in {"y", "u", "v"} : DOMAIN pic[p].data = DOMAIN I420New(pic.w, pic.h)[p].data

\* A scene in each of the formats, as a camera or a test fills the buffer.
Point(w, i) == <<i % w, i \div w>>
Block(cx, cy) == {2 * cx, 2 * cx + 1} \X {2 * cy, 2 * cy + 1}

Luma(w, h) == Plane(w, w * h, LAMBDA i : {Point(w, i)})

SceneI420(w, h) ==
    LET chroma == Plane(w \div 2, (w \div 2) * (h \div 2),
                        LAMBDA i : Block(i % (w \div 2), i \div (w \div 2)))
    IN  [w |-> w, h |-> h, y |-> Luma(w, h), u |-> chroma, v |-> chroma]

\* Full-width chroma of half the height.
SceneI422(w, h) ==
    LET chroma == Plane(w, w * (h \div 2),
                        LAMBDA i : {i % w} \X {2 * (i \div w), 2 * (i \div w) + 1})
    IN  [w |-> w, h |-> h, y |-> Luma(w, h), u |-> chroma, v |-> chroma]

SceneI444(w, h) == [w |-> w, h |-> h, y |-> Luma(w, h), u |-> Luma(w, h), v |-> Luma(w, h)]

\* One chroma plane: U and V of the same cell side by side in a row of width w.
SceneNV12(w, h) ==
    [w |-> w, h |-> h, y |-> Luma(w, h),
     uv |-> Plane(w, w * (h \div 2), LAMBDA i : Block((i % w) \div 2, i \div w))]

\* Ten bits a sample instead of eight, the same places.
SceneI010(w, h) == SceneI420(w, h)

\* Packed pixels, four bytes each: the model's index counts pixels.
SceneARGB(w, h) == Luma(w, h).data

----------------------------------------------------------------------------
(* VideoBuffer::to_i420 of each format.                                    *)

CopiedLuma(pic, out) ==
    Written(out.y, 0 .. pic.w * pic.h - 1, LAMBDA i : i, LAMBDA i : Read(pic.y.data, i))

Halves(pic) == Area(pic.w \div 2, pic.h \div 2)

I422ToI420(pic) ==
    LET out == I420New(pic.w, pic.h)
        Pair(p, c) == Read(p.data, c[2] * p.stride + 2 * c[1])
                        \cup Read(p.data, c[2] * p.stride + 2 * c[1] + 1)
        Chroma(d, s) == Written(d, Halves(pic), LAMBDA c : Index(d.stride, c), LAMBDA c : Pair(s, c))
    IN  [out EXCEPT !.y = CopiedLuma(pic, out), !.u = Chroma(out.u, pic.u), !.v = Chroma(out.v, pic.v)]

I444ToI420(pic) ==
    LET out == I420New(pic.w, pic.h)
        Quad(p, c) == UNION {Read(p.data, (2 * c[2] + d[2]) * p.stride + 2 * c[1] + d[1]) :
                               d \in {0, 1} \X {0, 1}}
        Chroma(d, s) == Written(d, Halves(pic), LAMBDA c : Index(d.stride, c), LAMBDA c : Quad(s, c))
    IN  [out EXCEPT !.y = CopiedLuma(pic, out), !.u = Chroma(out.u, pic.u), !.v = Chroma(out.v, pic.v)]

NV12BufferToI420(pic) ==
    LET out == I420New(pic.w, pic.h)
        Chroma(d, k) == Written(d, Halves(pic), LAMBDA c : Index(out.u.stride, c),
                                LAMBDA c : Read(pic.uv.data, c[2] * pic.uv.stride + 2 * c[1] + k))
    IN  [out EXCEPT !.y = CopiedLuma(pic, out), !.u = Chroma(out.u, 0), !.v = Chroma(out.v, 1)]

\* The chroma planes are walked as one row.
I010ToI420(pic) ==
    LET out == I420New(pic.w, pic.h)
        Narrow(d, s) == Written(d, 0 .. (pic.w \div 2) * (pic.h \div 2) - 1,
                                LAMBDA i : i, LAMBDA i : Read(s.data, i))
    IN  [out EXCEPT !.y = CopiedLuma(pic, out), !.u = Narrow(out.u, pic.u), !.v = Narrow(out.v, pic.v)]

----------------------------------------------------------------------------
(* Planewise transforms: the same loops on the luma plane (k = 1) and on   *)
(* the chroma planes (k = 2).  Sub says how a chroma size follows from a   *)
(* luma size.                                                              *)

Down(n, k) == n \div k              \* native.rs and I420Buffer: w / 2
Up(n, k)   == (n + k - 1) \div k    \* libyuv: (w + 1) / 2

\* A sample for every cell of w x h: from From(c, k) of src to To(c, k) of dst.
Planewise(src, dst, w, h, Sub(_, _), To(_, _), From(_, _)) ==
    LET Each(d, s, k) == Written(d, Area(Sub(w, k), Sub(h, k)),
                                 LAMBDA c : Index(d.stride, To(c, k)),
                                 LAMBDA c : Read(s.data, Index(s.stride, From(c, k))))
    IN  [dst EXCEPT !.y = Each(dst.y, src.y, 1), !.u = Each(dst.u, src.u, 2), !.v = Each(dst.v, src.v, 2)]

Same(c, k) == c

\* Nearest neighbour, without a fraction: the first source column of each.
Scale(src, dw, dh) ==
    Planewise(src, I420New(dw, dh), dw, dh, Down, Same,
              LAMBDA c, k : <<(c[1] * (src.w \div k)) \div (dw \div k),
                              (c[2] * (src.h \div k)) \div (dh \div k)>>)

\* I420Buffer::scale has the same loops as the native backend.
BufferScale(src, dw, dh) == Scale(src, dw, dh)

Mirror(src) ==
    Planewise(src, I420New(src.w, src.h), src.w, src.h, Down,
              LAMBDA c, k : <<(src.w \div k) - 1 - c[1], c[2]>>, Same)

\* Mutation: the corner is used as it is for the chroma planes too.
CropCornerUnhalved(src, x, y, w, h) ==
    Planewise(src, I420New(w, h), w, h, Down, Same,
              LAMBDA c, k : <<x + c[1], y + c[2]>>)

\* The corner is halved for the chroma planes as the sizes are.
Crop(src, x, y, w, h) ==
    Planewise(src, I420New(w, h), w, h, Down, Same,
              LAMBDA c, k : <<(x \div k) + c[1], (y \div k) + c[2]>>)

\* Mutation: three quarters of a turn leave the rows upside down.
TurnedFlipped(c, w, h, rot) ==
    CASE rot = 0   -> c
      [] rot = 90  -> <<h - 1 - c[2], c[1]>>
      [] rot = 180 -> <<w - 1 - c[1], h - 1 - c[2]>>
      [] rot = 270 -> <<c[2], c[1]>>

\* Where a cell goes in a turn of a plane of w x h.
Turned(c, w, h, rot) ==
    CASE rot = 0   -> c
      [] rot = 90  -> <<h - 1 - c[2], c[1]>>
      [] rot = 180 -> <<w - 1 - c[1], h - 1 - c[2]>>
      [] rot = 270 -> <<c[2], w - 1 - c[1]>>

\* The caller's buffer has the sides exchanged for a quarter turn.
TurnedBuffer(src, rot) ==
    IF rot \in {90, 270} THEN I420New(src.h, src.w) ELSE I420New(src.w, src.h)

\* Mutation: the chroma planes are turned about the luma plane's height.
RotateUnhalved(src, rot) ==
    Planewise(src, TurnedBuffer(src, rot), src.w, src.h, Down,
              LAMBDA c, k : Turned(c, src.w, src.h, rot), Same)

Rotate(src, rot) ==
    Planewise(src, TurnedBuffer(src, rot), src.w, src.h, Down,
              LAMBDA c, k : Turned(c, src.w \div k, src.h \div k, rot), Same)

----------------------------------------------------------------------------
(* Conversions of the native backend.                                      *)

\* Two by two pixels a step: a last odd column or row is never visited.
ARGBToI420(argb, w, h) ==
    LET dst == I420New(w, h)
        visited == Area(2 * (w \div 2), 2 * (h \div 2))
        Quad(c) == UNION {Read(argb, (2 * c[2] + d[2]) * w + 2 * c[1] + d[1]) : d \in {0, 1} \X {0, 1}}
        Chroma(d) == Written(d, Area(w \div 2, h \div 2), LAMBDA c : Index(dst.u.stride, c), Quad)
    IN  [dst EXCEPT !.y = Written(dst.y, visited, LAMBDA c : Index(dst.y.stride, c),
                                  LAMBDA c : Read(argb, Index(w, c))),
                    !.u = Chroma(dst.u), !.v = Chroma(dst.v)]

\* A pixel of the result: the samples it is computed from.
I420ToARGB(src) ==
    [i \in 0 .. src.w * src.h - 1 |->
        LET c == Point(src.w, i)
            Half(p) == Read(p.data, Index(p.stride, <<c[1] \div 2, c[2] \div 2>>))
        IN  [y |-> Read(src.y.data, Index(src.y.stride, c)), u |-> Half(src.u), v |-> Half(src.v)]]

\* Rows of half_w pairs: for an odd width one place shorter than NV12Buffer's.
I420ToNV12(src) ==
    LET halfW == src.w \div 2
        cells == Area(halfW, src.h \div 2)
        blank == BlankPlane(src.w, src.w * (src.h \div 2))
        U == Written(blank, cells, LAMBDA c : 2 * Index(halfW, c),
                     LAMBDA c : Read(src.u.data, Index(src.u.stride, c)))
        UV == Written(U, cells, LAMBDA c : 2 * Index(halfW, c) + 1,
                      LAMBDA c : Read(src.v.data, Index(src.u.stride, c)))
    IN  [w |-> src.w, h |-> src.h, y |-> CopiedLuma(src, [y |-> BlankPlane(src.w, src.w * src.h)]), uv |-> UV]

NV12ToI420(nv12) ==
    LET dst == I420New(nv12.w, nv12.h)
        halfW == nv12.w \div 2
        Chroma(d, k) == Written(d, Halves(nv12), LAMBDA c : Index(dst.u.stride, c),
                                LAMBDA c : Read(nv12.uv.data, 2 * Index(halfW, c) + k))
    IN  [dst EXCEPT !.y = CopiedLuma(nv12, dst), !.u = Chroma(dst.u, 0), !.v = Chroma(dst.v, 1)]

----------------------------------------------------------------------------
(* The libyuv backend.  Its functions round chroma sizes up, whatever the  *)
(* buffer's own planes are, and are modelled from libyuv's own behaviour;  *)
(* crop is written in Rust and rounds down.                                *)

\* kFilterNone takes the source column at the middle of each.
LibyuvScale(src, dw, dh) ==
    Planewise(src, I420New(dw, dh), dw, dh, Up, Same,
              LAMBDA c, k : <<((2 * c[1] + 1) * Up(src.w, k)) \div (2 * Up(dw, k)),
                              ((2 * c[2] + 1) * Up(src.h, k)) \div (2 * Up(dh, k))>>)

LibyuvMirror(src) ==
    Planewise(src, I420New(src.w, src.h), src.w, src.h, Up,
              LAMBDA c, k : <<Up(src.w, k) - 1 - c[1], c[2]>>, Same)

\* Row by row from an offset computed once.
LibyuvCrop(src, x, y, w, h) ==
    LET dst == I420New(w, h)
        Rows(d, s, k) ==
            LET srcOff == (y \div k) * s.stride + (x \div k)
            IN  Written(d, Area(w \div k, h \div k), LAMBDA c : Index(d.stride, c),
                        LAMBDA c : Read(s.data, srcOff + Index(s.stride, c)))
    IN  [dst EXCEPT !.y = Rows(dst.y, src.y, 1), !.u = Rows(dst.u, src.u, 2), !.v = Rows(dst.v, src.v, 2)]

LibyuvRotate(src, rot) ==
    Planewise(src, TurnedBuffer(src, rot), src.w, src.h, Up,
              LAMBDA c, k : Turned(c, Up(src.w, k), Up(src.h, k), rot), Same)

\* A last odd column or row makes a chroma sample of its own.
LibyuvARGBToI420(argb, w, h) ==
    LET dst == I420New(w, h)
        Quad(c) == UNION {argb[Index(w, p)] : p \in Block(c[1], c[2]) \cap Area(w, h)}
        Chroma(d) == Written(d, Area(Up(w, 2), Up(h, 2)), LAMBDA c : Index(d.stride, c), Quad)
    IN  [dst EXCEPT !.y = Written(dst.y, Area(w, h), LAMBDA c : Index(dst.y.stride, c),
                                  LAMBDA c : Read(argb, Index(w, c))),
                    !.u = Chroma(dst.u), !.v = Chroma(dst.v)]

LibyuvI420ToARGB(src) == I420ToARGB(src)

\* Rows of w places, as NV12Buffer has them.
LibyuvI420ToNV12(src) ==
    LET cells == Area(Up(src.w, 2), Up(src.h, 2))
        Put(plane, s, k) == Written(plane, cells, LAMBDA c : c[2] * src.w + 2 * c[1] + k,
                                    LAMBDA c : Read(s.data, Index(s.stride, c)))
    IN  [w |-> src.w, h |-> src.h, y |-> CopiedLuma(src, [y |-> BlankPlane(src.w, src.w * src.h)]),
         uv |-> Put(Put(BlankPlane(src.w, src.w * (src.h \div 2)), src.u, 0), src.v, 1)]

LibyuvNV12ToI420(nv12) ==
    LET dst == I420New(nv12.w, nv12.h)
        Chroma(d, k) == Written(d, Area(Up(nv12.w, 2), Up(nv12.h, 2)), LAMBDA c : Index(d.stride, c),
                                LAMBDA c : Read(nv12.uv.data, c[2] * nv12.w + 2 * c[1] + k))
    IN  [dst EXCEPT !.y = CopiedLuma(nv12, dst), !.u = Chroma(dst.u, 0), !.v = Chroma(dst.v, 1)]
=============================================================================
