------------------------------ MODULE Rotation ------------------------------
(***************************************************************************)
(* scranrot: rotating a captured buffer into an RGBA picture or into the   *)
(* three planes of a YUV 4:2:0 frame.  An entry point picks the widest     *)
(* implementation the CPU has, which hands an image too small for its      *)
(* tile down to the next one.  The dispatcher then calls the kernel four   *)
(* times: for the area its tiles divide, for the right edge, the bottom    *)
(* edge and the corner, each edge being a tile that ends where the image   *)
(* ends and so writes again what is already there.                         *)
(*                                                                         *)
(* A store is <<plane, address, pixel>>: the byte (RGBA: the pixel) of dst *)
(* that is written and the source pixel it is made from, both as linear    *)
(* offsets; a chroma store names the first pixel of its 2x2 block.  What   *)
(* happens to a block between its load and its store is the subject of     *)
(* SimdBlocks; the arithmetic of the colours is left out.                  *)
(***************************************************************************)
EXTENDS Integers

CONSTANTS Images,   \* what is converted: records [fmt, cpu, w, h]
          Padding   \* pixels between the end of a source row and the next

ImagesAssumption ==
    \A m \in Images : /\ m.fmt \in {"rgba32", "yuv420"}
                      /\ m.cpu \in {"fallback", "ssse3", "avx2"}
                      /\ m.w \in Nat /\ m.h \in Nat
PaddingAssumption == Padding \in Nat

VARIABLES image,      \* the image being converted
          transform,  \* how the output is turned
          impl,       \* the implementation that has the call
          step,       \* how far the call has come
          stores      \* what has been written to dst

vars == <<image, transform, impl, step, stores>>

w == image.w
h == image.h
SrcStride == w + Padding
Turned == transform \in {"90", "270"}

(* The size of the output: a quarter turn swaps the sides. *)
TransformedWidth == IF Turned THEN h ELSE w
TransformedHeight == IF Turned THEN w ELSE h

(* The implementation the CPU gets: rgba32 has no AVX2 one. *)
RgbaFn(cpu) == IF cpu = "fallback" THEN "fallback" ELSE "ssse3"
Yuv420Fn(cpu) == cpu

Init ==
    /\ image \in Images
    /\ transform \in {"normal", "90", "180", "270", "flipped"}
    /\ impl = IF image.fmt = "rgba32" THEN RgbaFn(image.cpu) ELSE Yuv420Fn(image.cpu)
    /\ step = "enter"
    /\ stores = {}

(* Width and height of the kernels' tiles. *)
TileW ==
    CASE impl = "avx2" -> 64
      [] impl = "ssse3" -> IF image.fmt = "rgba32" THEN 4 ELSE 32
      [] impl = "fallback" -> IF image.fmt = "rgba32" THEN 1 ELSE 2
TileH ==
    CASE impl = "avx2" -> 64
      [] impl = "ssse3" -> IF image.fmt = "rgba32" THEN 4 ELSE 32
      [] impl = "fallback" -> IF image.fmt = "rgba32" THEN 4 ELSE 2

TooSmall == w < TileW \/ h < TileH
OddYuv == image.fmt = "yuv420" /\ (w % 2 = 1 \/ h % 2 = 1)

-----------------------------------------------------------------------------
(* An implementation that cannot take the image hands it down: AVX2 to     *)
(* SSSE3 when it is small, both to the fallback when it is mirrored.       *)
HandDown ==
    /\ step = "enter" /\ ~OddYuv
    /\ impl # "fallback" /\ (TooSmall \/ transform = "flipped")
    /\ impl' = IF impl = "avx2" /\ TooSmall THEN "ssse3" ELSE "fallback"
    /\ UNCHANGED <<image, transform, step, stores>>

(* false is returned: odd sizes have no chroma plane, the fallback's own   *)
(* tile is the smallest there is, and no kernel mirrors.                   *)
Refuse ==
    /\ step = "enter"
    /\ OddYuv \/ (impl = "fallback" /\ (TooSmall \/ transform = "flipped"))
    /\ step' = "refused"
    /\ UNCHANGED <<image, transform, impl, stores>>

Accept ==
    /\ step = "enter" /\ ~OddYuv
    /\ ~TooSmall /\ transform # "flipped"
    /\ step' = "divisible"
    /\ UNCHANGED <<image, transform, impl, stores>>

-----------------------------------------------------------------------------
(* Where a kernel stores pixel (x + i, y + j) of a crop: the block that    *)
(* starts at (x, y), column i and row j in it.  p is the plane the crop is *)
(* seen in: its size w by h there, the output's stride s and the size bw   *)
(* by bh of a block.                                                       *)

RgbaFallback270(p, x, y, i, j) == (p.w - 1) * p.s + y - x * p.s + j - i * p.s
RgbaFallback180(p, x, y, i, j) == (p.h - 1) * p.s + p.w - 1 - (y + j) * p.s - (x + i)
RgbaFallback90(p, x, y, i, j) == p.h - 1 - y + x * p.s - j + i * p.s
RgbaFallback0(p, x, y, i, j) == (y + j) * p.s + x + i

(* Mutant: the tile starts at the last row of its column. *)
RgbaSsse3_270_LastRow(p, x, y, i, j) ==
    LET tile == (p.w - 1) * p.s + y - x * p.s
    IN  tile + (p.bw - 1 - i) * p.s + j

(* rotate_tile_270() leaves the last column in the first of the four rows. *)
RgbaSsse3_270(p, x, y, i, j) ==
    LET tile == (p.w - 1) * p.s - (p.bw - 1) * p.s + y - x * p.s
    IN  tile + (p.bw - 1 - i) * p.s + j
RgbaSsse3_180(p, x, y, i, j) ==
    LET quad == (p.h - 1) * p.s + p.w - p.bw - (y + j) * p.s - x
    IN  quad + (p.bw - 1 - i)
RgbaSsse3_90(p, x, y, i, j) ==
    LET tile == p.h - p.bh + x * p.s - y
    IN  tile + i * p.s + (p.bh - 1 - j)
RgbaSsse3_0(p, x, y, i, j) == (y + j) * p.s + x + i

YuvFallback270(p, x, y, i, j) == (p.w - 1) * p.s + y - x * p.s - i * p.s + j
YuvFallback180(p, x, y, i, j) ==
    (p.h - 1) * p.s + p.w - 1 - y * p.s - x - j * p.s - i
YuvFallback90(p, x, y, i, j) == p.h - 1 - y + x * p.s + i * p.s - j
YuvFallback0(p, x, y, i, j) == y * p.s + x + j * p.s + i

(* The transposed block is stored upwards from the end of the column.      *)
YuvSsse3_270(p, x, y, i, j) ==
    LET start == (p.w - 1) * p.s + y - x * p.s
    IN  start - i * p.s + j
YuvSsse3_180(p, x, y, i, j) ==
    LET start == (p.h - 1) * p.s + p.w - p.bw - y * p.s - x
    IN  start - j * p.s + (p.bw - 1 - i)
YuvSsse3_90(p, x, y, i, j) ==
    LET start == p.h - p.bh - y + x * p.s
    IN  start + i * p.s + (p.bh - 1 - j)
YuvSsse3_0(p, x, y, i, j) ==
    LET start == y * p.s + x
    IN  start + j * p.s + i

YuvAvx2_270(p, x, y, i, j) ==
    LET start == (p.w - 1) * p.s + y - x * p.s
    IN  start - i * p.s + j
YuvAvx2_180(p, x, y, i, j) ==
    LET start == (p.h - 1) * p.s + p.w - p.bw - y * p.s - x
    IN  start - j * p.s + (p.bw - 1 - i)
YuvAvx2_90(p, x, y, i, j) ==
    LET start == p.h - p.bh - y + x * p.s
    IN  start + i * p.s + (p.bh - 1 - j)
YuvAvx2_0(p, x, y, i, j) ==
    LET start == y * p.s + x
    IN  start + j * p.s + i

(* The kernel an entry point of each implementation selects. *)
RgbaFallback(p, x, y, i, j) ==
    CASE transform = "270" -> RgbaFallback270(p, x, y, i, j)
      [] transform = "180" -> RgbaFallback180(p, x, y, i, j)
      [] transform = "90" -> RgbaFallback90(p, x, y, i, j)
      [] transform = "normal" -> RgbaFallback0(p, x, y, i, j)
RgbaSsse3(p, x, y, i, j) ==
    CASE transform = "270" -> RgbaSsse3_270(p, x, y, i, j)
      [] transform = "180" -> RgbaSsse3_180(p, x, y, i, j)
      [] transform = "90" -> RgbaSsse3_90(p, x, y, i, j)
      [] transform = "normal" -> RgbaSsse3_0(p, x, y, i, j)
YuvFallback(p, x, y, i, j) ==
    CASE transform = "270" -> YuvFallback270(p, x, y, i, j)
      [] transform = "180" -> YuvFallback180(p, x, y, i, j)
      [] transform = "90" -> YuvFallback90(p, x, y, i, j)
      [] transform = "normal" -> YuvFallback0(p, x, y, i, j)
YuvSsse3(p, x, y, i, j) ==
    CASE transform = "270" -> YuvSsse3_270(p, x, y, i, j)
      [] transform = "180" -> YuvSsse3_180(p, x, y, i, j)
      [] transform = "90" -> YuvSsse3_90(p, x, y, i, j)
      [] transform = "normal" -> YuvSsse3_0(p, x, y, i, j)
YuvAvx2(p, x, y, i, j) ==
    CASE transform = "270" -> YuvAvx2_270(p, x, y, i, j)
      [] transform = "180" -> YuvAvx2_180(p, x, y, i, j)
      [] transform = "90" -> YuvAvx2_90(p, x, y, i, j)
      [] transform = "normal" -> YuvAvx2_0(p, x, y, i, j)

Address(p, x, y, i, j) ==
    CASE image.fmt = "rgba32" /\ impl = "fallback" -> RgbaFallback(p, x, y, i, j)
      [] image.fmt = "rgba32" /\ impl = "ssse3" -> RgbaSsse3(p, x, y, i, j)
      [] image.fmt = "yuv420" /\ impl = "fallback" -> YuvFallback(p, x, y, i, j)
      [] image.fmt = "yuv420" /\ impl = "ssse3" -> YuvSsse3(p, x, y, i, j)
      [] image.fmt = "yuv420" /\ impl = "avx2" -> YuvAvx2(p, x, y, i, j)

(* The block a kernel loads and stores at once, <<width, height>>. *)
RgbaBlock == IF impl = "fallback" THEN <<1, 4>> ELSE IF Turned THEN <<4, 4>> ELSE <<4, 1>>
LumaBlock ==
    CASE impl = "fallback" -> <<2, 2>>
      [] impl = "ssse3" -> <<16, 16>>
      [] impl = "avx2" -> IF Turned THEN <<32, 32>> ELSE <<32, 2>>
ChromaBlock ==
    CASE impl = "fallback" -> <<1, 1>>
      [] impl = "ssse3" -> <<16, 16>>
      [] impl = "avx2" -> IF Turned THEN <<32, 32>> ELSE <<32, 1>>

(* The pixels of a crop in the blocks of the kernel's loops: block starts  *)
(* and positions in a block.                                               *)
Steps(size, by) == {n \in 0..(size - 1) : n % by = 0}
Pixels(p) == Steps(p.w, p.bw) \X Steps(p.h, p.bh) \X (0..(p.bw - 1)) \X (0..(p.bh - 1))

View(cw, ch, s, block) == [w |-> cw, h |-> ch, s |-> s, bw |-> block[1], bh |-> block[2]]

(* One kernel call on the crop c = [x, y, w, h] of the source, whose       *)
(* output starts at dst.                                                   *)
PlaneStores(plane, c, p, dst, scale) ==
    {<<plane, dst + Address(p, q[1], q[2], q[3], q[4]),
       (c.y + scale * (q[2] + q[4])) * SrcStride + c.x + scale * (q[1] + q[3])>> :
         q \in Pixels(p)}

RgbaKernel(c, dst) ==
    PlaneStores("p", c, View(c.w, c.h, TransformedWidth, RgbaBlock), dst, 1)

YuvKernel(c, dst) ==
    LET half == View(c.w \div 2, c.h \div 2, TransformedWidth \div 2, ChromaBlock)
    IN  PlaneStores("y", c, View(c.w, c.h, TransformedWidth, LumaBlock), dst.y, 1)
          \cup PlaneStores("u", c, half, dst.u, 2)
          \cup PlaneStores("v", c, half, dst.v, 2)

-----------------------------------------------------------------------------
(* The dispatchers. *)

RestW == w % TileW
RestH == h % TileH

(* Mutant: the right edge starts where the divisible area ends. *)
Crop_AtTheRest(part) ==
    [x |-> IF part \in {"right", "corner"} THEN w - RestW ELSE 0,
     y |-> IF part \in {"bottom", "corner"} THEN h - TileH ELSE 0,
     w |-> IF part \in {"right", "corner"} THEN TileW ELSE w - RestW,
     h |-> IF part \in {"bottom", "corner"} THEN TileH ELSE h - RestH]

(* Where each of the four calls finds its source ... *)
Crop(part) ==
    [x |-> IF part \in {"right", "corner"} THEN w - TileW ELSE 0,
     y |-> IF part \in {"bottom", "corner"} THEN h - TileH ELSE 0,
     w |-> IF part \in {"right", "corner"} THEN TileW ELSE w - RestW,
     h |-> IF part \in {"bottom", "corner"} THEN TileH ELSE h - RestH]

(* ... and its output: how far the parts are from the start of dst, for    *)
(* each way of turning.                                                    *)
RgbaOffset ==
    LET s == TransformedWidth IN
    CASE transform = "270" ->
           [divW |-> s * RestW, divH |-> 0, right |-> 0, bottom |-> h - TileH]
      [] transform = "180" ->
           [divW |-> RestW, divH |-> s * RestH, right |-> 0, bottom |-> 0]
      [] transform = "90" ->
           [divW |-> 0, divH |-> RestH, right |-> (w - TileW) * s, bottom |-> 0]
      [] transform = "normal" ->
           [divW |-> 0, divH |-> 0, right |-> w - TileW, bottom |-> (h - TileH) * s]

RgbaDst(part) ==
    LET o == RgbaOffset IN
    CASE part = "divisible" -> o.divW + o.divH
      [] part = "right" -> o.right + o.divH
      [] part = "bottom" -> o.bottom + o.divW
      [] part = "corner" -> o.right + o.bottom

(* In YUV 4:2:0 rows and columns apart, as the chroma planes halve both:   *)
(* <<row, column>>.                                                        *)
YuvOffset ==
    CASE transform = "270" ->
           [divW |-> <<RestW, 0>>, divH |-> <<0, 0>>, right |-> <<0, 0>>, bottom |-> <<0, h - TileH>>]
      [] transform = "180" ->
           [divW |-> <<0, RestW>>, divH |-> <<RestH, 0>>, right |-> <<0, 0>>, bottom |-> <<0, 0>>]
      [] transform = "90" ->
           [divW |-> <<0, 0>>, divH |-> <<0, RestH>>, right |-> <<w - TileW, 0>>, bottom |-> <<0, 0>>]
      [] transform = "normal" ->
           [divW |-> <<0, 0>>, divH |-> <<0, 0>>, right |-> <<0, w - TileW>>, bottom |-> <<h - TileH, 0>>]

(* The planes follow each other without gaps. *)
UPlane == (TransformedHeight - 1) * TransformedWidth + TransformedWidth
VPlane == UPlane + (TransformedHeight \div 2 - 1) * (TransformedWidth \div 2) + TransformedWidth \div 2
End == VPlane + (TransformedHeight \div 2) * (TransformedWidth \div 2)

YuvDst(part) ==
    LET o == YuvOffset
        at == CASE part = "divisible" -> <<o.divW, o.divH>>
                [] part = "right" -> <<o.right, o.divH>>
                [] part = "bottom" -> <<o.bottom, o.divW>>
                [] part = "corner" -> <<o.bottom, o.right>>
        row == at[1][1] + at[2][1]
        col == at[1][2] + at[2][2]
        chroma == (row \div 2) * (TransformedWidth \div 2) + col \div 2
    IN  [y |-> row * TransformedWidth + col, u |-> UPlane + chroma, v |-> VPlane + chroma]

Call(part) ==
    IF image.fmt = "rgba32" THEN RgbaKernel(Crop(part), RgbaDst(part))
    ELSE YuvKernel(Crop(part), YuvDst(part))

-----------------------------------------------------------------------------
DivisibleArea ==
    /\ step = "divisible"
    /\ stores' = stores \cup Call("divisible")
    /\ step' = "right"
    /\ UNCHANGED <<image, transform, impl>>

RightEdge ==
    /\ step = "right"
    /\ stores' = IF RestW > 0 THEN stores \cup Call("right") ELSE stores
    /\ step' = "bottom"
    /\ UNCHANGED <<image, transform, impl>>

BottomEdge ==
    /\ step = "bottom"
    /\ stores' = IF RestH > 0 THEN stores \cup Call("bottom") ELSE stores
    /\ step' = "corner"
    /\ UNCHANGED <<image, transform, impl>>

Corner ==
    /\ step = "corner"
    /\ stores' = IF RestW > 0 /\ RestH > 0 THEN stores \cup Call("corner") ELSE stores
    /\ step' = "done"
    /\ UNCHANGED <<image, transform, impl>>

Returned ==
    /\ step \in {"done", "refused"}
    /\ UNCHANGED vars

Next ==
    \/ HandDown \/ Refuse \/ Accept
    \/ DivisibleArea \/ RightEdge \/ BottomEdge \/ Corner
    \/ Returned

Spec == Init /\ [][Next]_vars

-----------------------------------------------------------------------------
(* Where the source pixel (x, y) belongs: the definition the tests compare *)
(* with.                                                                   *)
Place(x, y) ==
    CASE transform = "270" -> <<y, w - 1 - x>>
      [] transform = "180" -> <<w - 1 - x, h - 1 - y>>
      [] transform = "90" -> <<h - 1 - y, x>>
      [] transform = "normal" -> <<x, y>>

X(pixel) == pixel % SrcStride
Y(pixel) == pixel \div SrcStride

LumaIsRight(address, pixel) ==
    LET at == Place(X(pixel), Y(pixel))
    IN  address = at[2] * TransformedWidth + at[1]

(* A chroma byte stands for the 2x2 block of output pixels it lies under.  *)
ChromaIsRight(address, pixel) ==
    LET under == {Place(X(pixel) + dx, Y(pixel) + dy) : dx \in 0..1, dy \in 0..1}
        half == TransformedWidth \div 2
    IN  {<<at[1] \div 2, at[2] \div 2>> : at \in under} = {<<address % half, address \div half>>}

(* Every store of every call, those of the overlapping edges included,     *)
(* puts into its own plane the source pixel the reference puts there, so   *)
(* that it does not matter that the edges are written twice.               *)
EveryStoreIsRight ==
    \A st \in stores :
        CASE st[1] \in {"p", "y"} -> st[2] < UPlane /\ LumaIsRight(st[2], st[3])
          [] st[1] = "u" -> st[2] < VPlane /\ ChromaIsRight(st[2] - UPlane, st[3])
          [] st[1] = "v" -> st[2] < End /\ ChromaIsRight(st[2] - VPlane, st[3])

(* No kernel reads past the image, into the padding of a row or below the  *)
(* last one.                                                               *)
ReadsStayInside ==
    \A st \in stores :
        LET far == IF st[1] \in {"u", "v"} THEN 1 ELSE 0
        IN  /\ X(st[3]) + far < w
            /\ Y(st[3]) + far < h

(* When the call returns true nothing of the output is left unwritten:     *)
(* the buffer comes from malloc() and holds whatever was there.            *)
NothingIsLeftOut ==
    step = "done" =>
        {st[2] : st \in stores} = 0..((IF image.fmt = "rgba32" THEN UPlane ELSE End) - 1)

(* A picture the fallback could convert is never refused by a wider        *)
(* implementation: the CPU changes the speed and not the result.           *)
CpuDoesNotDecide ==
    step = "refused" =>
        \/ OddYuv
        \/ transform = "flipped"
        \/ image.fmt = "rgba32" /\ (w < 1 \/ h < 4)
        \/ image.fmt = "yuv420" /\ (w < 2 \/ h < 2)
=============================================================================
