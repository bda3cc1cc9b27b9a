-------------------------- MODULE Rotation_proofs --------------------------
(***************************************************************************)
(* Theorems about the conversion of images of every size, whatever the     *)
(* padding of their rows, the CPU and the transform.                       *)
(*                                                                         *)
(* There is no loop to do an induction over: a kernel's blocks are all     *)
(* multiples of their size, and a store depends on its pixel alone.  Every *)
(* kernel turns its crop by itself (KernelTurns), and blocks that divide a *)
(* crop cover it (BlocksCover); the dispatcher moves the turned crop to    *)
(* where the turned image has it (OutputsAreMoved), so that a part stores  *)
(* its pixels as the image does, and its blocks of chroma as the image of  *)
(* half the size (CallStores); and the parts cover the image (PartsCover). *)
(***************************************************************************)
EXTENDS Rotation, TLAPS

-----------------------------------------------------------------------------
(* Arithmetic                                                              *)

\* A number is the product of divisor and quotient, and the rest.
LEMMA RestAndQuotient ==
  ASSUME NEW x \in Int, NEW n \in Nat, n > 0
  PROVE  x % n \in 0..(n - 1) /\ x \div n \in Int /\ x = n * (x \div n) + (x % n)
OBVIOUS

\* Products of sums and of differences.
LEMMA Distributes ==
  ASSUME NEW a \in Int, NEW b \in Int, NEW c \in Int
  PROVE  /\ a * c \in Int /\ b * c \in Int /\ (a + b) * c \in Int /\ (a - b) * c \in Int
         /\ (a + b) * c = a * c + b * c /\ (a - b) * c = a * c - b * c
OBVIOUS

\* A place in rows of n is inside the first t of them.
LEMMA InsideRows ==
  ASSUME NEW n \in Nat, NEW t \in Nat, NEW r \in 0..(t - 1), NEW c \in 0..(n - 1)
  PROVE  r * n + c \in 0..(t * n - 1)
<1>1. r * n \in Int /\ t * n \in Int /\ (t - 1 - r) * n \in Int
  OBVIOUS
<1>2. r * n >= 0 /\ (t - 1 - r) * n >= 0
  OBVIOUS
<1>3. (t - 1 - r) * n = t * n - n - r * n
  OBVIOUS
<1> QED BY <1>1, <1>2, <1>3

\* What is left of a place in rows of n is its column, and how often n goes into it its row.
LEMMA RowAndColumn ==
  ASSUME NEW n \in Nat, NEW r \in Nat, NEW c \in 0..(n - 1)
  PROVE  (r * n + c) % n = c /\ (r * n + c) \div n = r
<1> DEFINE x == r * n + c
<1>1. x \in Int /\ n > 0
  OBVIOUS
<1>2. x % n \in 0..(n - 1) /\ x \div n \in Int /\ x = n * (x \div n) + (x % n)
  BY <1>1, RestAndQuotient
<1> DEFINE q == x \div n
           m == x % n
<1>3. n * (q - r) = c - m
  BY <1>2
<1>4. q = r
  <2>1. CASE q - r >= 1
    <3>1. n * (q - r) >= n
      BY <1>2, <2>1
    <3> QED BY <1>2, <1>3, <3>1
  <2>2. CASE q - r <= -1
    <3>1. n * (q - r) <= -n
      BY <1>2, <2>2
    <3> QED BY <1>2, <1>3, <3>1
  <2> QED BY <1>2, <2>1, <2>2
<1> QED BY <1>2, <1>3, <1>4

-----------------------------------------------------------------------------
(* Turning a plane                                                         *)

Turns == {"normal", "90", "180", "270"}

\* Column and row at which (x, y) of a plane of a by b comes to lie.
Col(a, b, x, y) ==
  CASE transform = "270" -> y
    [] transform = "180" -> a - 1 - x
    [] transform = "90" -> b - 1 - y
    [] transform = "normal" -> x
Row(a, b, x, y) ==
  CASE transform = "270" -> a - 1 - x
    [] transform = "180" -> b - 1 - y
    [] transform = "90" -> x
    [] transform = "normal" -> y

\* The sides of a plane of a by b when it is turned.
Across(a, b) == IF Turned THEN b ELSE a
Down(a, b) == IF Turned THEN a ELSE b

\* The kernels an implementation has.
HasKernel == \/ image.fmt = "rgba32" /\ impl \in {"fallback", "ssse3"}
             \/ image.fmt = "yuv420" /\ impl \in {"fallback", "ssse3", "avx2"}

\* A turned pixel lies in the turned plane.
LEMMA PlaceIsInside ==
  ASSUME transform \in Turns, NEW a \in Nat, NEW b \in Nat,
         NEW x \in 0..(a - 1), NEW y \in 0..(b - 1)
  PROVE  /\ Col(a, b, x, y) \in 0..(Across(a, b) - 1)
         /\ Row(a, b, x, y) \in 0..(Down(a, b) - 1)
  BY DEF Turns, Col, Row, Across, Down, Turned

\* At every place of the turned plane lies a pixel.
LEMMA PlaceIsTaken ==
  ASSUME transform \in Turns, NEW a \in Nat, NEW b \in Nat,
         NEW col \in 0..(Across(a, b) - 1), NEW row \in 0..(Down(a, b) - 1)
  PROVE  \E x \in 0..(a - 1), y \in 0..(b - 1) : Col(a, b, x, y) = col /\ Row(a, b, x, y) = row
<1>1. CASE transform = "270"
  <2>1. a - 1 - row \in 0..(a - 1) /\ col \in 0..(b - 1)
    BY <1>1 DEF Across, Down, Turned
  <2>2. Col(a, b, a - 1 - row, col) = col /\ Row(a, b, a - 1 - row, col) = row
    BY <1>1 DEF Col, Row, Across, Down, Turned
  <2> QED BY <2>1, <2>2
<1>2. CASE transform = "180"
  <2>1. a - 1 - col \in 0..(a - 1) /\ b - 1 - row \in 0..(b - 1)
    BY <1>2 DEF Across, Down, Turned
  <2>2. Col(a, b, a - 1 - col, b - 1 - row) = col /\ Row(a, b, a - 1 - col, b - 1 - row) = row
    BY <1>2 DEF Col, Row, Across, Down, Turned
  <2> QED BY <2>1, <2>2
<1>3. CASE transform = "90"
  <2>1. row \in 0..(a - 1) /\ b - 1 - col \in 0..(b - 1)
    BY <1>3 DEF Across, Down, Turned
  <2>2. Col(a, b, row, b - 1 - col) = col /\ Row(a, b, row, b - 1 - col) = row
    BY <1>3 DEF Col, Row, Across, Down, Turned
  <2> QED BY <2>1, <2>2
<1>4. CASE transform = "normal"
  <2>1. col \in 0..(a - 1) /\ row \in 0..(b - 1)
    BY <1>4 DEF Across, Down, Turned
  <2>2. Col(a, b, col, row) = col /\ Row(a, b, col, row) = row
    BY <1>4 DEF Col, Row
  <2> QED BY <2>1, <2>2
<1> QED BY <1>1, <1>2, <1>3, <1>4 DEF Turns

\* Every kernel stores a pixel of its crop where the crop turned by itself has it, whichever block it comes in.
LEMMA KernelTurns ==
  ASSUME transform \in Turns, HasKernel,
         NEW p, p.w \in Int, p.h \in Int, p.s \in Int, p.bw \in Int, p.bh \in Int,
         NEW x \in Int, NEW y \in Int, NEW i \in Int, NEW j \in Int
  PROVE  Address(p, x, y, i, j)
           = Row(p.w, p.h, x + i, y + j) * p.s + Col(p.w, p.h, x + i, y + j)
<1> DEFINE a == p.w
           b == p.h
           s == p.s
           bw == p.bw
           bh == p.bh
<1>1. CASE transform = "270"
  <2>1. Address(p, x, y, i, j) \in
          { (a - 1) * s + y - x * s + j - i * s,
            (a - 1) * s - (bw - 1) * s + y - x * s + (bw - 1 - i) * s + j,
            (a - 1) * s + y - x * s - i * s + j }
    BY <1>1 DEF HasKernel, Address, RgbaFallback, RgbaSsse3, YuvFallback, YuvSsse3, YuvAvx2,
                RgbaFallback270, RgbaSsse3_270, YuvFallback270, YuvSsse3_270, YuvAvx2_270
  <2>2. Row(a, b, x + i, y + j) * s + Col(a, b, x + i, y + j) = (a - 1 - (x + i)) * s + (y + j)
    BY <1>1 DEF Row, Col
  <2>3. a \in Int /\ b \in Int /\ s \in Int /\ bw \in Int /\ bh \in Int
    OBVIOUS
  <2> HIDE DEF a, b, s, bw, bh
  <2>4. Address(p, x, y, i, j) = (a - 1 - (x + i)) * s + (y + j)
    BY <2>1, <2>3
  <2> QED BY <2>2, <2>4 DEF a, b, s
<1>2. CASE transform = "180"
  <2>1. Address(p, x, y, i, j) \in
          { (b - 1) * s + a - 1 - (y + j) * s - (x + i),
            (b - 1) * s + a - bw - (y + j) * s - x + (bw - 1 - i),
            (b - 1) * s + a - 1 - y * s - x - j * s - i,
            (b - 1) * s + a - bw - y * s - x - j * s + (bw - 1 - i) }
    BY <1>2 DEF HasKernel, Address, RgbaFallback, RgbaSsse3, YuvFallback, YuvSsse3, YuvAvx2,
                RgbaFallback180, RgbaSsse3_180, YuvFallback180, YuvSsse3_180, YuvAvx2_180
  <2>2. Row(a, b, x + i, y + j) * s + Col(a, b, x + i, y + j) = (b - 1 - (y + j)) * s + (a - 1 - (x + i))
    BY <1>2 DEF Row, Col
  <2>3. a \in Int /\ b \in Int /\ s \in Int /\ bw \in Int /\ bh \in Int
    OBVIOUS
  <2> HIDE DEF a, b, s, bw, bh
  <2>4. Address(p, x, y, i, j) = (b - 1 - (y + j)) * s + (a - 1 - (x + i))
    BY <2>1, <2>3
  <2> QED BY <2>2, <2>4 DEF a, b, s
<1>3. CASE transform = "90"
  <2>1. Address(p, x, y, i, j) \in
          { b - 1 - y + x * s - j + i * s,
            b - bh + x * s - y + i * s + (bh - 1 - j),
            b - 1 - y + x * s + i * s - j,
            b - bh - y + x * s + i * s + (bh - 1 - j) }
    BY <1>3 DEF HasKernel, Address, RgbaFallback, RgbaSsse3, YuvFallback, YuvSsse3, YuvAvx2,
                RgbaFallback90, RgbaSsse3_90, YuvFallback90, YuvSsse3_90, YuvAvx2_90
  <2>2. Row(a, b, x + i, y + j) * s + Col(a, b, x + i, y + j) = (x + i) * s + (b - 1 - (y + j))
    BY <1>3 DEF Row, Col
  <2>3. a \in Int /\ b \in Int /\ s \in Int /\ bw \in Int /\ bh \in Int
    OBVIOUS
  <2> HIDE DEF a, b, s, bw, bh
  <2>4. Address(p, x, y, i, j) = (x + i) * s + (b - 1 - (y + j))
    BY <2>1, <2>3
  <2> QED BY <2>2, <2>4 DEF a, b, s
<1>4. CASE transform = "normal"
  <2>1. Address(p, x, y, i, j) \in
          { (y + j) * s + x + i,
            y * s + x + j * s + i }
    BY <1>4 DEF HasKernel, Address, RgbaFallback, RgbaSsse3, YuvFallback, YuvSsse3, YuvAvx2,
                RgbaFallback0, RgbaSsse3_0, YuvFallback0, YuvSsse3_0, YuvAvx2_0
  <2>2. Row(a, b, x + i, y + j) * s + Col(a, b, x + i, y + j) = (y + j) * s + (x + i)
    BY <1>4 DEF Row, Col
  <2>3. a \in Int /\ b \in Int /\ s \in Int /\ bw \in Int /\ bh \in Int
    OBVIOUS
  <2> HIDE DEF a, b, s, bw, bh
  <2>4. Address(p, x, y, i, j) = (y + j) * s + (x + i)
    BY <2>1, <2>3
  <2> QED BY <2>2, <2>4 DEF a, b, s
<1> QED BY <1>1, <1>2, <1>3, <1>4 DEF Turns

\* The blocks of the loops and the positions in a block are together all columns (rows), if blocks of that size
\* divide the crop.
LEMMA BlocksCover ==
  ASSUME NEW size \in Nat, NEW by \in Nat, by > 0, size % by = 0
  PROVE  /\ \A n \in Steps(size, by), i \in 0..(by - 1) : n \in Int /\ n + i \in 0..(size - 1)
         /\ \A x \in 0..(size - 1) : /\ x - (x % by) \in Steps(size, by)
                                     /\ x % by \in 0..(by - 1)
                                     /\ x = (x - (x % by)) + (x % by)
<1> DEFINE k == size \div by
<1>1. k \in Int /\ size = by * k
  BY RestAndQuotient
<1>2. ASSUME NEW n \in Steps(size, by), NEW i \in 0..(by - 1)
      PROVE  n \in Int /\ n + i \in 0..(size - 1)
  <2>1. n \in 0..(size - 1) /\ n % by = 0
    BY <1>2 DEF Steps
  <2> DEFINE q == n \div by
  <2>2. q \in Int /\ n = by * q
    BY <2>1, RestAndQuotient
  <2> HIDE DEF k, q
  <2>3. k - q >= 1
    <3>1. by * (k - q) > 0
      BY <1>1, <2>1, <2>2
    <3> QED BY <1>1, <2>2, <3>1
  <2>4. by * (k - q) >= by
    BY <1>1, <2>2, <2>3
  <2> QED BY <1>1, <2>1, <2>2, <2>4
<1>3. ASSUME NEW x \in 0..(size - 1)
      PROVE  /\ x - (x % by) \in Steps(size, by)
             /\ x % by \in 0..(by - 1)
             /\ x = (x - (x % by)) + (x % by)
  <2> DEFINE q == x \div by
             r == x % by
  <2>1. r \in 0..(by - 1) /\ q \in Int /\ x = by * q + r
    BY RestAndQuotient
  <2>2. (x - r) % by = 0
    <3>1. q >= 0
      BY <2>1, x \in Nat
    <3>2. x - r = q * by + 0
      BY <2>1
    <3>3. 0 \in 0..(by - 1)
      OBVIOUS
    <3> HIDE DEF q, r
    <3> QED BY <2>1, <3>1, <3>2, <3>3, RowAndColumn
  <2>3. x - r \in 0..(size - 1)
    <3>1. q >= 0
      BY <2>1, x \in Nat
    <3>2. by * q >= 0
      BY <2>1, <3>1
    <3> QED BY <2>1, <3>2
  <2> QED BY <2>1, <2>2, <2>3 DEF Steps
<1> QED BY <1>2, <1>3

\* The store of pixel (x, y) of a crop, seen from the plane.
StoreOf(plane, c, p, dst, scale, x, y) ==
  <<plane, dst + (Row(p.w, p.h, x, y) * p.s + Col(p.w, p.h, x, y)),
    (c.y + scale * y) * SrcStride + c.x + scale * x>>

\* A view of a plane that blocks divide.
Divided(p) == /\ p.w \in Nat /\ p.h \in Nat /\ p.s \in Nat
              /\ p.bw \in Nat /\ p.bw > 0 /\ p.w % p.bw = 0
              /\ p.bh \in Nat /\ p.bh > 0 /\ p.h % p.bh = 0

\* A kernel stores each pixel of its crop.
LEMMA KernelStores ==
  ASSUME transform \in Turns, HasKernel, NEW plane, NEW c, NEW p, Divided(p), NEW dst, NEW scale, NEW st
  PROVE  st \in PlaneStores(plane, c, p, dst, scale)
           <=> \E x \in 0..(p.w - 1), y \in 0..(p.h - 1) : st = StoreOf(plane, c, p, dst, scale, x, y)
<1> DEFINE Of(n, m, i, j) ==
             <<plane, dst + Address(p, n, m, i, j), (c.y + scale * (m + j)) * SrcStride + c.x + scale * (n + i)>>
<1>1. ASSUME NEW n \in Int, NEW m \in Int, NEW i \in Int, NEW j \in Int
      PROVE  Of(n, m, i, j) = StoreOf(plane, c, p, dst, scale, n + i, m + j)
  <2>1. Address(p, n, m, i, j) = Row(p.w, p.h, n + i, m + j) * p.s + Col(p.w, p.h, n + i, m + j)
    BY KernelTurns DEF Divided
  <2> QED BY <2>1 DEF StoreOf
<1>2. st \in PlaneStores(plane, c, p, dst, scale)
        <=> \E n \in Steps(p.w, p.bw), m \in Steps(p.h, p.bh), i \in 0..(p.bw - 1), j \in 0..(p.bh - 1) :
              st = Of(n, m, i, j)
  <2>1. st \in PlaneStores(plane, c, p, dst, scale)
          <=> \E q \in Pixels(p) : st = Of(q[1], q[2], q[3], q[4])
    BY DEF PlaneStores
  <2>2. ASSUME NEW q \in Pixels(p)
        PROVE  /\ q[1] \in Steps(p.w, p.bw) /\ q[2] \in Steps(p.h, p.bh)
               /\ q[3] \in 0..(p.bw - 1) /\ q[4] \in 0..(p.bh - 1)
    BY DEF Pixels
  <2>3. ASSUME NEW n \in Steps(p.w, p.bw), NEW m \in Steps(p.h, p.bh), NEW i \in 0..(p.bw - 1),
               NEW j \in 0..(p.bh - 1)
        PROVE  LET q == <<n, m, i, j>>
               IN  q \in Pixels(p) /\ q[1] = n /\ q[2] = m /\ q[3] = i /\ q[4] = j
    BY DEF Pixels
  <2> HIDE DEF Of
  <2>4. ASSUME NEW n \in Steps(p.w, p.bw), NEW m \in Steps(p.h, p.bh), NEW i \in 0..(p.bw - 1),
               NEW j \in 0..(p.bh - 1), st = Of(n, m, i, j)
        PROVE  \E q \in Pixels(p) : st = Of(q[1], q[2], q[3], q[4])
    <3> DEFINE q == <<n, m, i, j>>
    <3>1. q \in Pixels(p)
      BY <2>3
    <3>2. st = Of(q[1], q[2], q[3], q[4])
      BY <2>4
    <3> QED BY <3>1, <3>2
  <2> QED BY <2>1, <2>2, <2>4
<1>3. ASSUME NEW n \in Steps(p.w, p.bw), NEW m \in Steps(p.h, p.bh), NEW i \in 0..(p.bw - 1), NEW j \in 0..(p.bh - 1),
             st = Of(n, m, i, j)
      PROVE  \E x \in 0..(p.w - 1), y \in 0..(p.h - 1) : st = StoreOf(plane, c, p, dst, scale, x, y)
  <2>1. n \in Int /\ n + i \in 0..(p.w - 1)
    BY BlocksCover DEF Divided
  <2>2. m \in Int /\ m + j \in 0..(p.h - 1)
    BY BlocksCover DEF Divided
  <2>3. i \in Int /\ j \in Int
    BY DEF Divided
  <2> HIDE DEF Of
  <2>4. st = StoreOf(plane, c, p, dst, scale, n + i, m + j)
    <3>1. Of(n, m, i, j) = StoreOf(plane, c, p, dst, scale, n + i, m + j)
      BY <1>1, <2>1, <2>2, <2>3
    <3> QED BY <1>3, <3>1
  <2> QED BY <2>1, <2>2, <2>4
<1>4. ASSUME NEW x \in 0..(p.w - 1), NEW y \in 0..(p.h - 1), st = StoreOf(plane, c, p, dst, scale, x, y)
      PROVE  \E n \in Steps(p.w, p.bw), m \in Steps(p.h, p.bh), i \in 0..(p.bw - 1), j \in 0..(p.bh - 1) :
               st = Of(n, m, i, j)
  <2> DEFINE i == x % p.bw
             j == y % p.bh
             n == x - i
             m == y - j
  <2>1. n \in Steps(p.w, p.bw) /\ i \in 0..(p.bw - 1) /\ x = n + i
    BY BlocksCover DEF Divided
  <2>2. m \in Steps(p.h, p.bh) /\ j \in 0..(p.bh - 1) /\ y = m + j
    BY BlocksCover DEF Divided
  <2>3. n \in Int /\ m \in Int /\ i \in Int /\ j \in Int
    BY <2>1, <2>2 DEF Steps, Divided
  <2> HIDE DEF i, j, n, m, Of
  <2>4. st = Of(n, m, i, j)
    <3>1. Of(n, m, i, j) = StoreOf(plane, c, p, dst, scale, n + i, m + j)
      BY <1>1, <2>3
    <3> QED BY <1>4, <2>1, <2>2, <3>1
  <2> QED BY <2>1, <2>2, <2>4
<1> QED BY <1>2, <1>3, <1>4

-----------------------------------------------------------------------------
(* The four parts of an image                                              *)

Parts == {"divisible", "right", "bottom", "corner"}

\* An image that is being converted.
Accepted == /\ HasKernel /\ transform \in Turns
            /\ w \in Nat /\ h \in Nat /\ Padding \in Nat
            /\ ~OddYuv /\ ~TooSmall

\* How far the crop at (x, y) of cw by ch moves when it is turned with the plane and not by itself.
ColShift(a, b, x, y, cw, ch) ==
  CASE transform = "270" -> y
    [] transform = "180" -> a - x - cw
    [] transform = "90" -> b - y - ch
    [] transform = "normal" -> x
RowShift(a, b, x, y, cw, ch) ==
  CASE transform = "270" -> a - x - cw
    [] transform = "180" -> b - y - ch
    [] transform = "90" -> x
    [] transform = "normal" -> y

\* The sizes of the tiles.
LEMMA TileSizes ==
  ASSUME HasKernel
  PROVE  /\ image.fmt = "rgba32" => /\ impl = "fallback" => TileW = 1 /\ TileH = 4
                                    /\ impl = "ssse3" => TileW = 4 /\ TileH = 4
         /\ image.fmt = "yuv420" => /\ impl = "fallback" => TileW = 2 /\ TileH = 2
                                    /\ impl = "ssse3" => TileW = 32 /\ TileH = 32
                                    /\ impl = "avx2" => TileW = 64 /\ TileH = 64
         /\ TileW \in {1, 2, 4, 32, 64} /\ TileH \in {2, 4, 32, 64}
         /\ image.fmt = "yuv420" => TileW \in {2, 32, 64} /\ TileH \in {2, 32, 64}
  BY DEF HasKernel, TileW, TileH

\* What tiles divide of a side is a multiple of the tile and less than a tile short of the side.
LEMMA TilesDivide ==
  ASSUME NEW n \in Nat, NEW t \in {1, 2, 4, 32, 64}, n >= t
  PROVE  /\ n % t \in 0..(t - 1)
         /\ n - (n % t) \in Nat /\ n - (n % t) >= t
         /\ (n - (n % t)) % t = 0 /\ t % t = 0
<1>1. CASE t = 1
  BY <1>1
<1>2. CASE t = 2
  BY <1>2
<1>3. CASE t = 4
  BY <1>3
<1>4. CASE t = 32
  BY <1>4
<1>5. CASE t = 64
  BY <1>5
<1> QED BY <1>1, <1>2, <1>3, <1>4, <1>5

\* A part lies in the image, and tiles divide it.
LEMMA CropIsInside ==
  ASSUME Accepted, NEW part \in Parts
  PROVE  LET c == Crop(part)
         IN  /\ c.x \in Nat /\ c.y \in Nat /\ c.w \in Nat /\ c.h \in Nat
             /\ c.x + c.w <= w /\ c.y + c.h <= h
             /\ c.w % TileW = 0 /\ c.h % TileH = 0
             /\ RestW \in 0..(TileW - 1) /\ RestH \in 0..(TileH - 1)
<1>1. TileW \in {1, 2, 4, 32, 64} /\ TileH \in {1, 2, 4, 32, 64}
  BY TileSizes DEF Accepted
<1>2. w >= TileW /\ h >= TileH /\ w \in Nat /\ h \in Nat
  BY <1>1 DEF Accepted, TooSmall
<1> HIDE DEF w, h
<1>3. /\ RestW \in 0..(TileW - 1)
      /\ w - RestW \in Nat /\ (w - RestW) % TileW = 0 /\ TileW % TileW = 0
  BY <1>1, <1>2, TilesDivide DEF RestW
<1>4. /\ RestH \in 0..(TileH - 1)
      /\ h - RestH \in Nat /\ (h - RestH) % TileH = 0 /\ TileH % TileH = 0
  BY <1>1, <1>2, TilesDivide DEF RestH
<1> QED BY <1>1, <1>2, <1>3, <1>4 DEF Crop

\* A number that tiles divide is divided by blocks that divide the tile, and in 4:2:0 its half by half of them.
LEMMA Divisors ==
  ASSUME NEW n \in Nat
  PROVE  /\ n % 1 = 0
         /\ n % 2 = 0 => (n \div 2) % 1 = 0 /\ n \div 2 \in Nat /\ 2 * (n \div 2) = n
         /\ n % 4 = 0 => n % 4 = 0
         /\ n % 32 = 0 => n % 16 = 0 /\ (n \div 2) % 16 = 0 /\ n % 2 = 0
         /\ n % 64 = 0 => n % 32 = 0 /\ (n \div 2) % 32 = 0 /\ n % 2 = 0 /\ (n \div 2) % 1 = 0
OBVIOUS

\* The planes of a part of an image, as its kernel sees them.
FullView(c) == View(c.w, c.h, TransformedWidth, IF image.fmt = "rgba32" THEN RgbaBlock ELSE LumaBlock)
HalfView(c) == View(c.w \div 2, c.h \div 2, TransformedWidth \div 2, ChromaBlock)

LEMMA ViewsAreDivided ==
  ASSUME Accepted, NEW part \in Parts
  PROVE  LET c == Crop(part)
         IN  /\ Divided(FullView(c))
             /\ FullView(c).w = c.w /\ FullView(c).h = c.h /\ FullView(c).s = TransformedWidth
             /\ image.fmt = "yuv420" =>
                  /\ Divided(HalfView(c))
                  /\ HalfView(c).w = c.w \div 2 /\ HalfView(c).h = c.h \div 2
                  /\ HalfView(c).s = TransformedWidth \div 2
<1> DEFINE c == Crop(part)
<1>1. /\ c.w \in Nat /\ c.h \in Nat /\ c.w % TileW = 0 /\ c.h % TileH = 0
  BY CropIsInside
<1>2. TransformedWidth \in Nat /\ TransformedWidth \div 2 \in Nat
  <2>1. TransformedWidth \in Nat
    BY DEF Accepted, TransformedWidth
  <2> HIDE DEF TransformedWidth
  <2> QED BY <2>1
<1> DEFINE p == FullView(c)
           q == HalfView(c)
           block == IF image.fmt = "rgba32" THEN RgbaBlock ELSE LumaBlock
<1>3. /\ p.w = c.w /\ p.h = c.h /\ p.s = TransformedWidth
      /\ p.bw = block[1] /\ p.bh = block[2]
  BY DEF FullView, View
<1>4. /\ q.w = c.w \div 2 /\ q.h = c.h \div 2 /\ q.s = TransformedWidth \div 2
      /\ q.bw = ChromaBlock[1] /\ q.bh = ChromaBlock[2]
  BY DEF HalfView, View
<1> HIDE DEF c, p, q
<1>5. Divided(p)
  <2>1. CASE image.fmt = "rgba32" /\ impl = "fallback"
    <3>1. block[1] = 1 /\ block[2] = 4 /\ TileH = 4
      BY <2>1, TileSizes DEF Accepted, RgbaBlock
    <3> QED BY <1>1, <1>2, <1>3, <3>1, Divisors DEF Divided
  <2>2. CASE image.fmt = "rgba32" /\ impl = "ssse3"
    <3>1. block[1] = 4 /\ block[2] \in {1, 4} /\ TileW = 4 /\ TileH = 4
      BY <2>2, TileSizes DEF Accepted, RgbaBlock
    <3> QED BY <1>1, <1>2, <1>3, <3>1, Divisors DEF Divided
  <2>3. CASE image.fmt = "yuv420" /\ impl = "fallback"
    <3>1. block[1] = 2 /\ block[2] = 2 /\ TileW = 2 /\ TileH = 2
      BY <2>3, TileSizes DEF Accepted, LumaBlock
    <3> QED BY <1>1, <1>2, <1>3, <3>1 DEF Divided
  <2>4. CASE image.fmt = "yuv420" /\ impl = "ssse3"
    <3>1. block[1] = 16 /\ block[2] = 16 /\ TileW = 32 /\ TileH = 32
      BY <2>4, TileSizes DEF Accepted, LumaBlock
    <3> QED BY <1>1, <1>2, <1>3, <3>1, Divisors DEF Divided
  <2>5. CASE image.fmt = "yuv420" /\ impl = "avx2"
    <3>1. block[1] = 32 /\ block[2] \in {2, 32} /\ TileW = 64 /\ TileH = 64
      BY <2>5, TileSizes DEF Accepted, LumaBlock
    <3> QED BY <1>1, <1>2, <1>3, <3>1, Divisors DEF Divided
  <2> QED BY <2>1, <2>2, <2>3, <2>4, <2>5 DEF Accepted, HasKernel
<1>6. image.fmt = "yuv420" => Divided(q)
  <2>1. CASE image.fmt = "yuv420" /\ impl = "fallback"
    <3>1. ChromaBlock[1] = 1 /\ ChromaBlock[2] = 1 /\ TileW = 2 /\ TileH = 2
      BY <2>1, TileSizes DEF Accepted, ChromaBlock
    <3> QED BY <1>1, <1>2, <1>4, <3>1, Divisors DEF Divided
  <2>2. CASE image.fmt = "yuv420" /\ impl = "ssse3"
    <3>1. ChromaBlock[1] = 16 /\ ChromaBlock[2] = 16 /\ TileW = 32 /\ TileH = 32
      BY <2>2, TileSizes DEF Accepted, ChromaBlock
    <3> QED BY <1>1, <1>2, <1>4, <3>1, Divisors DEF Divided
  <2>3. CASE image.fmt = "yuv420" /\ impl = "avx2"
    <3>1. ChromaBlock[1] = 32 /\ ChromaBlock[2] \in {1, 32} /\ TileW = 64 /\ TileH = 64
      BY <2>3, TileSizes DEF Accepted, ChromaBlock
    <3> QED BY <1>1, <1>2, <1>4, <3>1, Divisors DEF Divided
  <2> QED BY <2>1, <2>2, <2>3 DEF Accepted, HasKernel
<1> QED BY <1>3, <1>4, <1>5, <1>6 DEF c, p, q

\* The output of a part starts where its crop moves to.
Moved(c) == [row |-> RowShift(w, h, c.x, c.y, c.w, c.h), col |-> ColShift(w, h, c.x, c.y, c.w, c.h)]

LEMMA OutputsAreMoved ==
  ASSUME Accepted, NEW part \in Parts
  PROVE  LET m == Moved(Crop(part))
         IN  /\ image.fmt = "rgba32" => RgbaDst(part) = m.row * TransformedWidth + m.col
             /\ image.fmt = "yuv420" =>
                  LET chroma == (m.row \div 2) * (TransformedWidth \div 2) + m.col \div 2
                  IN  YuvDst(part) = [y |-> m.row * TransformedWidth + m.col,
                                      u |-> UPlane + chroma, v |-> VPlane + chroma]
<1> DEFINE m == Moved(Crop(part))
           s == TransformedWidth
<1>1. /\ TileW \in Nat /\ TileH \in Nat /\ RestW \in Nat /\ RestH \in Nat
      /\ w \in Nat /\ h \in Nat /\ s \in Nat
  BY TileSizes, CropIsInside DEF Accepted, TransformedWidth
<1> HIDE DEF w, h, s
<1>2. image.fmt = "rgba32" => RgbaDst(part) = m.row * s + m.col
  <2>1. CASE transform = "270"
    BY <1>1, <2>1 DEF Moved, RowShift, ColShift, Crop, RgbaDst, RgbaOffset, Parts, s
  <2>2. CASE transform = "180"
    BY <1>1, <2>2 DEF Moved, RowShift, ColShift, Crop, RgbaDst, RgbaOffset, Parts, s
  <2>3. CASE transform = "90"
    BY <1>1, <2>3 DEF Moved, RowShift, ColShift, Crop, RgbaDst, RgbaOffset, Parts, s
  <2>4. CASE transform = "normal"
    BY <1>1, <2>4 DEF Moved, RowShift, ColShift, Crop, RgbaDst, RgbaOffset, Parts, s
  <2> QED BY <2>1, <2>2, <2>3, <2>4 DEF Accepted, Turns
<1> DEFINE o == YuvOffset
           at == CASE part = "divisible" -> <<o.divW, o.divH>>
                   [] part = "right" -> <<o.right, o.divH>>
                   [] part = "bottom" -> <<o.bottom, o.divW>>
                   [] part = "corner" -> <<o.bottom, o.right>>
           row == at[1][1] + at[2][1]
           col == at[1][2] + at[2][2]
<1>3. m.row = row /\ m.col = col
  <2>1. CASE transform = "270"
    BY <1>1, <2>1 DEF Moved, RowShift, ColShift, Crop, YuvOffset, Parts
  <2>2. CASE transform = "180"
    BY <1>1, <2>2 DEF Moved, RowShift, ColShift, Crop, YuvOffset, Parts
  <2>3. CASE transform = "90"
    BY <1>1, <2>3 DEF Moved, RowShift, ColShift, Crop, YuvOffset, Parts
  <2>4. CASE transform = "normal"
    BY <1>1, <2>4 DEF Moved, RowShift, ColShift, Crop, YuvOffset, Parts
  <2> QED BY <2>1, <2>2, <2>3, <2>4 DEF Accepted, Turns
<1>4. YuvDst(part) = LET chroma == (row \div 2) * (s \div 2) + col \div 2
                     IN  [y |-> row * s + col, u |-> UPlane + chroma, v |-> VPlane + chroma]
  BY DEF YuvDst, s
<1> HIDE DEF m, row, col
<1> QED BY <1>2, <1>3, <1>4 DEF m, s

\* The store of the pixel (x, y) of the image, and of the chroma of its block (x, y): in row and column of the
\* turned plane that begins at base.
PixelStore(plane, x, y) ==
  <<plane, Row(w, h, x, y) * TransformedWidth + Col(w, h, x, y), y * SrcStride + x>>
HalfWidth == TransformedWidth \div 2
ChromaStore(plane, base, x, y) ==
  <<plane, base + (Row(w \div 2, h \div 2, x, y) * HalfWidth + Col(w \div 2, h \div 2, x, y)),
    (2 * y) * SrcStride + 2 * x>>

\* Where the output of a crop starts: in the first plane, and in one of half its size.
FullStart(c) == Moved(c).row * TransformedWidth + Moved(c).col
HalfStart(c) == (Moved(c).row \div 2) * HalfWidth + Moved(c).col \div 2

\* A part stores each of its pixels where the turned image has it.
LEMMA PartStoresPixels ==
  ASSUME Accepted, NEW part \in Parts, NEW plane, NEW st
  PROVE  LET c == Crop(part)
         IN  st \in PlaneStores(plane, c, FullView(c), FullStart(c), 1)
               <=> \E x \in c.x..(c.x + c.w - 1), y \in c.y..(c.y + c.h - 1) : st = PixelStore(plane, x, y)
<1> DEFINE c == Crop(part)
           m == Moved(c)
           s == TransformedWidth
           p == FullView(c)
           dst == m.row * s + m.col
<1>1. /\ c.x \in Nat /\ c.y \in Nat /\ c.w \in Nat /\ c.h \in Nat /\ w \in Nat /\ h \in Nat
      /\ s \in Nat /\ SrcStride \in Nat
  BY CropIsInside DEF Accepted, TransformedWidth, SrcStride
<1>2. Divided(p) /\ p.w = c.w /\ p.h = c.h /\ p.s = s
  BY ViewsAreDivided
<1>3. /\ m.row = RowShift(w, h, c.x, c.y, c.w, c.h) /\ m.col = ColShift(w, h, c.x, c.y, c.w, c.h)
  BY DEF Moved
<1>4. transform \in Turns /\ HasKernel
  BY DEF Accepted
<1> HIDE DEF c, m, s, p
<1>5. ASSUME NEW x \in Int, NEW y \in Int
      PROVE  StoreOf(plane, c, p, dst, 1, x, y) = PixelStore(plane, c.x + x, c.y + y)
  <2> DEFINE row == Row(c.w, c.h, x, y)
             col == Col(c.w, c.h, x, y)
  <2>1. /\ Col(w, h, c.x + x, c.y + y) = m.col + col /\ Row(w, h, c.x + x, c.y + y) = m.row + row
        /\ m.col \in Int /\ m.row \in Int /\ col \in Int /\ row \in Int
    <3> DEFINE cs == ColShift(w, h, c.x, c.y, c.w, c.h)
               rs == RowShift(w, h, c.x, c.y, c.w, c.h)
    <3>1. /\ Col(w, h, c.x + x, c.y + y) = cs + col /\ Row(w, h, c.x + x, c.y + y) = rs + row
          /\ cs \in Int /\ rs \in Int /\ col \in Int /\ row \in Int
      <4>1. /\ c.x \in Int /\ c.y \in Int /\ c.w \in Int /\ c.h \in Int /\ w \in Int /\ h \in Int
        BY <1>1
      <4> QED BY <1>4, <4>1 DEF Turns, Col, Row, ColShift, RowShift
    <3>2. m.col = cs /\ m.row = rs
      BY <1>3
    <3> HIDE DEF cs, rs, row, col
    <3> QED BY <3>1, <3>2
  <2> HIDE DEF row, col
  <2>2. dst + (row * s + col) = (m.row + row) * s + (m.col + col)
    BY <1>1, <2>1
  <2>3. (c.y + 1 * y) * SrcStride + c.x + 1 * x = (c.y + y) * SrcStride + (c.x + x)
    <3> HIDE DEF SrcStride
    <3> QED BY <1>1
  <2> QED BY <1>2, <2>1, <2>2, <2>3 DEF StoreOf, PixelStore, row, col, s
<1>6. st \in PlaneStores(plane, c, p, dst, 1)
        <=> \E x \in 0..(c.w - 1), y \in 0..(c.h - 1) : st = PixelStore(plane, c.x + x, c.y + y)
  <2>1. st \in PlaneStores(plane, c, p, dst, 1)
          <=> \E x \in 0..(c.w - 1), y \in 0..(c.h - 1) : st = StoreOf(plane, c, p, dst, 1, x, y)
    BY <1>2, <1>4, KernelStores
  <2> QED BY <1>5, <2>1
<1>7. (\E x \in 0..(c.w - 1), y \in 0..(c.h - 1) : st = PixelStore(plane, c.x + x, c.y + y))
        <=> \E x \in c.x..(c.x + c.w - 1), y \in c.y..(c.y + c.h - 1) : st = PixelStore(plane, x, y)
  <2>1. ASSUME NEW x \in 0..(c.w - 1), NEW y \in 0..(c.h - 1), st = PixelStore(plane, c.x + x, c.y + y)
        PROVE  \E n \in c.x..(c.x + c.w - 1), k \in c.y..(c.y + c.h - 1) : st = PixelStore(plane, n, k)
    <3>1. c.x + x \in c.x..(c.x + c.w - 1) /\ c.y + y \in c.y..(c.y + c.h - 1)
      BY <1>1
    <3> QED BY <2>1, <3>1
  <2>2. ASSUME NEW x \in c.x..(c.x + c.w - 1), NEW y \in c.y..(c.y + c.h - 1), st = PixelStore(plane, x, y)
        PROVE  \E n \in 0..(c.w - 1), k \in 0..(c.h - 1) : st = PixelStore(plane, c.x + n, c.y + k)
    <3>1. /\ x - c.x \in 0..(c.w - 1) /\ y - c.y \in 0..(c.h - 1)
          /\ c.x + (x - c.x) = x /\ c.y + (y - c.y) = y
      BY <1>1
    <3> QED BY <2>2, <3>1
  <2> QED BY <2>1, <2>2
<1> QED BY <1>6, <1>7 DEF c, m, s, p, FullStart

\* In 4:2:0 everything is even.
LEMMA AllIsEven ==
  ASSUME Accepted, image.fmt = "yuv420", NEW part \in Parts
  PROVE  LET c == Crop(part)
         IN  /\ w % 2 = 0 /\ h % 2 = 0
             /\ c.x % 2 = 0 /\ c.y % 2 = 0 /\ c.w % 2 = 0 /\ c.h % 2 = 0
<1>1. w \in Nat /\ h \in Nat /\ w % 2 = 0 /\ h % 2 = 0
  BY DEF Accepted, OddYuv
<1>2. TileW \in {2, 32, 64} /\ TileH \in {2, 32, 64}
  BY TileSizes DEF Accepted
<1>3. w >= TileW /\ h >= TileH
  BY <1>1, <1>2 DEF Accepted, TooSmall
<1> HIDE DEF w, h
<1>4. ASSUME NEW n \in Nat, NEW t \in {2, 32, 64}, n >= t, n % 2 = 0
      PROVE  (n - t) % 2 = 0 /\ t % 2 = 0 /\ (n - (n % t)) % 2 = 0
  BY <1>4
<1> QED BY <1>1, <1>2, <1>3, <1>4 DEF Crop, RestW, RestH

\* A part stores the chroma of each of its blocks where the turned plane of half the size has it.
LEMMA PartStoresChroma ==
  ASSUME Accepted, image.fmt = "yuv420", NEW part \in Parts, NEW plane, NEW base \in Int, NEW st
  PROVE  LET c == Crop(part)
         IN  st \in PlaneStores(plane, c, HalfView(c), base + HalfStart(c), 2)
               <=> \E x \in (c.x \div 2)..((c.x + c.w) \div 2 - 1), y \in (c.y \div 2)..((c.y + c.h) \div 2 - 1) :
                     st = ChromaStore(plane, base, x, y)
<1> DEFINE c == Crop(part)
           m == Moved(c)
           s == HalfWidth
           p == HalfView(c)
           dst == base + ((m.row \div 2) * s + m.col \div 2)
           a == w \div 2
           b == h \div 2
           cx == c.x \div 2
           cy == c.y \div 2
           cw == c.w \div 2
           ch == c.h \div 2
<1>1. /\ c.x \in Nat /\ c.y \in Nat /\ c.w \in Nat /\ c.h \in Nat /\ w \in Nat /\ h \in Nat
      /\ TransformedWidth \in Nat /\ SrcStride \in Nat
  BY CropIsInside DEF Accepted, TransformedWidth, SrcStride
<1>2. Divided(p) /\ p.w = cw /\ p.h = ch /\ p.s = s
  BY ViewsAreDivided DEF HalfWidth
<1>3. /\ m.row = RowShift(w, h, c.x, c.y, c.w, c.h) /\ m.col = ColShift(w, h, c.x, c.y, c.w, c.h)
  BY DEF Moved
<1>4. transform \in Turns /\ HasKernel
  BY DEF Accepted
<1>5. /\ w % 2 = 0 /\ h % 2 = 0
      /\ c.x % 2 = 0 /\ c.y % 2 = 0 /\ c.w % 2 = 0 /\ c.h % 2 = 0
  BY AllIsEven
<1> HIDE DEF c, m, p, w, h
<1>6. /\ a \in Nat /\ b \in Nat /\ cx \in Nat /\ cy \in Nat /\ cw \in Nat /\ ch \in Nat
      /\ w = 2 * a /\ h = 2 * b /\ c.x = 2 * cx /\ c.y = 2 * cy /\ c.w = 2 * cw /\ c.h = 2 * ch
      /\ (c.x + c.w) \div 2 = cx + cw /\ (c.y + c.h) \div 2 = cy + ch
  BY <1>1, <1>5
<1>7. s \in Int
  BY <1>1 DEF HalfWidth
<1> HIDE DEF s, a, b, cx, cy, cw, ch
<1>8. m.row \div 2 = RowShift(a, b, cx, cy, cw, ch) /\ m.col \div 2 = ColShift(a, b, cx, cy, cw, ch)
  BY <1>3, <1>4, <1>6 DEF RowShift, ColShift, Turns
<1>9. ASSUME NEW x \in Int, NEW y \in Int
      PROVE  StoreOf(plane, c, p, dst, 2, x, y) = ChromaStore(plane, base, cx + x, cy + y)
  <2> DEFINE row == Row(cw, ch, x, y)
             col == Col(cw, ch, x, y)
             mr == m.row \div 2
             mc == m.col \div 2
  <2>1. /\ Col(a, b, cx + x, cy + y) = mc + col /\ Row(a, b, cx + x, cy + y) = mr + row
        /\ mc \in Int /\ mr \in Int /\ col \in Int /\ row \in Int
    <3> DEFINE cs == ColShift(a, b, cx, cy, cw, ch)
               rs == RowShift(a, b, cx, cy, cw, ch)
    <3>1. /\ Col(a, b, cx + x, cy + y) = cs + col /\ Row(a, b, cx + x, cy + y) = rs + row
          /\ cs \in Int /\ rs \in Int /\ col \in Int /\ row \in Int
      <4>1. /\ a \in Int /\ b \in Int /\ cx \in Int /\ cy \in Int /\ cw \in Int /\ ch \in Int
        BY <1>6
      <4> QED BY <1>4, <4>1 DEF Turns, Col, Row, ColShift, RowShift
    <3>2. mc = cs /\ mr = rs
      BY <1>8
    <3> HIDE DEF cs, rs, mc, mr, row, col
    <3> QED BY <3>1, <3>2
  <2> HIDE DEF row, col, mr, mc
  <2>2. (base + (mr * s + mc)) + (row * s + col) = base + ((mr + row) * s + (mc + col))
    BY <1>7, <2>1
  <2>3. (c.y + 2 * y) * SrcStride + c.x + 2 * x = (2 * (cy + y)) * SrcStride + 2 * (cx + x)
    <3> HIDE DEF SrcStride
    <3>1. c.y + 2 * y = 2 * (cy + y)
      BY <1>6
    <3>2. (2 * (cy + y)) * SrcStride \in Int
      BY <1>1, <1>6
    <3> QED BY <1>6, <3>1, <3>2
  <2> QED BY <1>2, <2>1, <2>2, <2>3 DEF StoreOf, ChromaStore, row, col, mr, mc, s, a, b
<1>10. st \in PlaneStores(plane, c, p, dst, 2)
         <=> \E x \in 0..(cw - 1), y \in 0..(ch - 1) : st = ChromaStore(plane, base, cx + x, cy + y)
  <2>1. st \in PlaneStores(plane, c, p, dst, 2)
          <=> \E x \in 0..(cw - 1), y \in 0..(ch - 1) : st = StoreOf(plane, c, p, dst, 2, x, y)
    <3> HIDE DEF dst
    <3>1. st \in PlaneStores(plane, c, p, dst, 2)
            <=> \E x \in 0..(p.w - 1), y \in 0..(p.h - 1) : st = StoreOf(plane, c, p, dst, 2, x, y)
      BY <1>2, <1>4, KernelStores
    <3> QED BY <1>2, <3>1
  <2> QED BY <1>9, <2>1
<1>11. (\E x \in 0..(cw - 1), y \in 0..(ch - 1) : st = ChromaStore(plane, base, cx + x, cy + y))
         <=> \E x \in cx..(cx + cw - 1), y \in cy..(cy + ch - 1) : st = ChromaStore(plane, base, x, y)
  <2>1. ASSUME NEW x \in 0..(cw - 1), NEW y \in 0..(ch - 1), st = ChromaStore(plane, base, cx + x, cy + y)
        PROVE  \E n \in cx..(cx + cw - 1), k \in cy..(cy + ch - 1) : st = ChromaStore(plane, base, n, k)
    <3>1. cx + x \in cx..(cx + cw - 1) /\ cy + y \in cy..(cy + ch - 1)
      BY <1>6
    <3> QED BY <2>1, <3>1
  <2>2. ASSUME NEW x \in cx..(cx + cw - 1), NEW y \in cy..(cy + ch - 1), st = ChromaStore(plane, base, x, y)
        PROVE  \E n \in 0..(cw - 1), k \in 0..(ch - 1) : st = ChromaStore(plane, base, cx + n, cy + k)
    <3>1. /\ x - cx \in 0..(cw - 1) /\ y - cy \in 0..(ch - 1)
          /\ cx + (x - cx) = x /\ cy + (y - cy) = y
      BY <1>6
    <3> QED BY <2>2, <3>1
  <2> QED BY <2>1, <2>2
<1> QED BY <1>6, <1>10, <1>11 DEF c, m, s, p, cx, cy, HalfStart

-----------------------------------------------------------------------------
(* What is right about a store                                             *)

LEMMA SidesOfOutput ==
  ASSUME Accepted
  PROVE  /\ w \in Nat /\ h \in Nat /\ w > 0 /\ h > 0
         /\ TransformedWidth = Across(w, h) /\ TransformedHeight = Down(w, h)
         /\ TransformedWidth \in Nat /\ TransformedHeight \in Nat
         /\ SrcStride \in Nat /\ w <= SrcStride
<1>1. TileW \in Nat /\ TileW > 0 /\ TileH \in Nat /\ TileH > 0
  BY TileSizes DEF Accepted
<1> QED BY <1>1 DEF Accepted, TooSmall, TransformedWidth, TransformedHeight, Across, Down, SrcStride

\* The first plane ends after its rows; in 4:2:0 the others follow it, each of a quarter of its size.
LEMMA PlaneSizes ==
  ASSUME Accepted
  PROVE  LET chroma == (TransformedHeight \div 2) * HalfWidth
         IN  /\ UPlane = TransformedHeight * TransformedWidth /\ UPlane \in Nat
             /\ VPlane = UPlane + chroma /\ End = VPlane + chroma /\ chroma \in Nat
<1> DEFINE s == TransformedWidth
           t == TransformedHeight
           a == s \div 2
           b == t \div 2
<1>1. s \in Nat /\ t \in Nat
  BY SidesOfOutput
<1> HIDE DEF s, t
<1>2. a \in Nat /\ b \in Nat
  BY <1>1
<1>3. (t - 1) * s + s = t * s /\ t * s \in Nat
  BY <1>1
<1> HIDE DEF a, b
<1>4. (b - 1) * a + a = b * a /\ b * a \in Nat /\ (b - 1) * a \in Int
  BY <1>2
<1>5. UPlane = t * s
  BY <1>3 DEF UPlane, s, t
<1>6. VPlane = UPlane + (b - 1) * a + a /\ End = VPlane + b * a /\ a = HalfWidth
  BY DEF VPlane, End, HalfWidth, a, b, s, t
<1>7. VPlane = UPlane + b * a
  <2> HIDE DEF UPlane
  <2>1. UPlane \in Int
    BY <1>3, <1>5
  <2> QED BY <1>2, <1>4, <1>6, <2>1
<1> QED BY <1>3, <1>4, <1>5, <1>6, <1>7 DEF b, t, s

\* The source pixel that a store names.
LEMMA PixelOfStore ==
  ASSUME Accepted, NEW x \in 0..(w - 1), NEW y \in 0..(h - 1)
  PROVE  X(y * SrcStride + x) = x /\ Y(y * SrcStride + x) = y
<1>1. x \in 0..(SrcStride - 1) /\ y \in Nat /\ SrcStride \in Nat
  BY SidesOfOutput
<1> QED BY <1>1, RowAndColumn DEF X, Y

\* The store of a pixel is that of the reference, in its plane.
LEMMA PixelStoreIsRight ==
  ASSUME Accepted, NEW x \in 0..(w - 1), NEW y \in 0..(h - 1), NEW plane
  PROVE  LET st == PixelStore(plane, x, y)
         IN  st[2] \in 0..(UPlane - 1) /\ LumaIsRight(st[2], st[3])
<1> DEFINE st == PixelStore(plane, x, y)
           row == Row(w, h, x, y)
           col == Col(w, h, x, y)
<1>1. row \in 0..(TransformedHeight - 1) /\ col \in 0..(TransformedWidth - 1)
  BY SidesOfOutput, PlaceIsInside DEF Accepted
<1>2. st[2] = row * TransformedWidth + col /\ st[3] = y * SrcStride + x
  BY DEF PixelStore
<1> HIDE DEF row, col, st
<1>3. st[2] \in 0..(UPlane - 1)
  BY <1>1, <1>2, InsideRows, SidesOfOutput, PlaneSizes
<1>4. X(st[3]) = x /\ Y(st[3]) = y
  BY <1>2, PixelOfStore
<1>5. Place(x, y)[1] = col /\ Place(x, y)[2] = row
  BY DEF Accepted, Turns, Place, Row, Col, row, col
<1> QED BY <1>2, <1>3, <1>4, <1>5 DEF LumaIsRight, st

\* The store of a block of chroma is that of the reference, in its plane.
LEMMA ChromaStoreIsRight ==
  ASSUME Accepted, image.fmt = "yuv420", NEW base \in Int, NEW plane,
         NEW x \in 0..(w \div 2 - 1), NEW y \in 0..(h \div 2 - 1)
  PROVE  LET st == ChromaStore(plane, base, x, y)
         IN  /\ st[2] \in base..(base + (TransformedHeight \div 2) * HalfWidth - 1)
             /\ ChromaIsRight(st[2] - base, st[3])
             /\ X(st[3]) = 2 * x /\ Y(st[3]) = 2 * y /\ 2 * x + 1 < w /\ 2 * y + 1 < h
<1> DEFINE st == ChromaStore(plane, base, x, y)
           a == w \div 2
           b == h \div 2
           row == Row(a, b, x, y)
           col == Col(a, b, x, y)
<1>1. w \in Nat /\ h \in Nat /\ w % 2 = 0 /\ h % 2 = 0
  BY SidesOfOutput DEF Accepted, OddYuv
<1>2. a \in Nat /\ b \in Nat /\ w = 2 * a /\ h = 2 * b
  <2> HIDE DEF w, h
  <2> QED BY <1>1
<1>3. HalfWidth = Across(a, b) /\ TransformedHeight \div 2 = Down(a, b)
  BY DEF HalfWidth, TransformedWidth, TransformedHeight, Across, Down
<1>4. row \in 0..(Down(a, b) - 1) /\ col \in 0..(Across(a, b) - 1)
  BY <1>2, PlaceIsInside DEF Accepted
<1>5. Across(a, b) \in Nat /\ Down(a, b) \in Nat
  BY <1>2 DEF Across, Down
<1>6. st[2] = base + (row * HalfWidth + col) /\ st[3] = (2 * y) * SrcStride + 2 * x
  BY DEF ChromaStore
<1>7. /\ x \in 0..(a - 1) /\ y \in 0..(b - 1)
  OBVIOUS
<1> HIDE DEF row, col, st, a, b, w, h
<1>8. row * HalfWidth + col \in 0..((TransformedHeight \div 2) * HalfWidth - 1)
  BY <1>3, <1>4, <1>5, InsideRows
<1>9. st[2] - base = row * HalfWidth + col
  <2>1. row * HalfWidth + col \in Int
    BY <1>8
  <2> QED BY <1>6, <2>1
<1>10. /\ 2 * x \in 0..(w - 1) /\ 2 * y \in 0..(h - 1) /\ 2 * x + 1 < w /\ 2 * y + 1 < h
  BY <1>2, <1>7
<1>11. X(st[3]) = 2 * x /\ Y(st[3]) = 2 * y
  BY <1>6, <1>10, PixelOfStore
<1>12. (st[2] - base) % HalfWidth = col /\ (st[2] - base) \div HalfWidth = row
  <2>1. HalfWidth \in Nat /\ row \in Nat /\ col \in 0..(HalfWidth - 1)
    BY <1>3, <1>4, <1>5
  <2>2. (row * HalfWidth + col) % HalfWidth = col /\ (row * HalfWidth + col) \div HalfWidth = row
    BY <2>1, RowAndColumn
  <2> QED BY <1>9, <2>2
<1>13. ASSUME NEW dx \in 0..1, NEW dy \in 0..1
       PROVE  Place(2 * x + dx, 2 * y + dy)[1] \div 2 = col /\ Place(2 * x + dx, 2 * y + dy)[2] \div 2 = row
  <2>1. /\ (2 * x + dx) \div 2 = x /\ (2 * y + dy) \div 2 = y
        /\ (w - 1 - (2 * x + dx)) \div 2 = a - 1 - x /\ (h - 1 - (2 * y + dy)) \div 2 = b - 1 - y
    BY <1>2, <1>7
  <2> QED BY <2>1 DEF Accepted, Turns, Place, Row, Col, row, col
<1>14. ChromaIsRight(st[2] - base, st[3])
  <2> DEFINE under == {Place(2 * x + dx, 2 * y + dy) : dx \in 0..1, dy \in 0..1}
  <2>1. {<<at[1] \div 2, at[2] \div 2>> : at \in under} = {<<col, row>>}
    <3>1. ASSUME NEW at \in under
          PROVE  at[1] \div 2 = col /\ at[2] \div 2 = row
      BY <1>13
    <3>2. Place(2 * x + 0, 2 * y + 0) \in under
      OBVIOUS
    <3> HIDE DEF under
    <3> QED BY <3>1, <3>2
  <2> QED BY <1>11, <1>12, <2>1 DEF ChromaIsRight, HalfWidth
<1>15. st[2] \in base..(base + (TransformedHeight \div 2) * HalfWidth - 1)
  <2> DEFINE n == (TransformedHeight \div 2) * HalfWidth
             k == row * HalfWidth + col
  <2>1. n \in Int /\ k \in 0..(n - 1)
    <3>1. n \in Int
      BY <1>3, <1>5
    <3> QED BY <1>8, <3>1
  <2>2. st[2] = base + k
    BY <1>6
  <2> HIDE DEF n, k
  <2>3. st[2] \in base..(base + n - 1)
    BY <2>1, <2>2
  <2> QED BY <2>3 DEF n
<1> QED BY <1>10, <1>11, <1>14, <1>15 DEF st

-----------------------------------------------------------------------------
(* What the calls store                                                    *)

\* The parts that the dispatcher calls the kernel for.
Needed(part) == /\ part \in {"right", "corner"} => RestW > 0
                /\ part \in {"bottom", "corner"} => RestH > 0

\* Those it has called it for.
Made == {part \in Parts :
           /\ Needed(part)
           /\ \/ part = "divisible" /\ step \in {"right", "bottom", "corner", "done"}
              \/ part = "right" /\ step \in {"bottom", "corner", "done"}
              \/ part = "bottom" /\ step \in {"corner", "done"}
              \/ part = "corner" /\ step = "done"}

InCrop(c, x, y) == x \in c.x..(c.x + c.w - 1) /\ y \in c.y..(c.y + c.h - 1)

\* Every pixel is in a part that the kernel is called for.
LEMMA PartsCover ==
  ASSUME Accepted, NEW x \in 0..(w - 1), NEW y \in 0..(h - 1)
  PROVE  \E part \in Parts : Needed(part) /\ InCrop(Crop(part), x, y)
<1>1. /\ TileW \in Nat /\ TileH \in Nat /\ w \in Nat /\ h \in Nat /\ w >= TileW /\ h >= TileH
  BY TileSizes DEF Accepted, TooSmall
<1>2. RestW \in 0..(TileW - 1) /\ RestH \in 0..(TileH - 1)
  BY CropIsInside DEF Parts
<1>3. CASE x < w - RestW /\ y < h - RestH
  <2>1. Needed("divisible") /\ InCrop(Crop("divisible"), x, y)
    BY <1>1, <1>2, <1>3 DEF Needed, InCrop, Crop
  <2> QED BY <2>1 DEF Parts
<1>4. CASE x >= w - RestW /\ y < h - RestH
  <2>1. Needed("right") /\ InCrop(Crop("right"), x, y)
    BY <1>1, <1>2, <1>4 DEF Needed, InCrop, Crop
  <2> QED BY <2>1 DEF Parts
<1>5. CASE x < w - RestW /\ y >= h - RestH
  <2>1. Needed("bottom") /\ InCrop(Crop("bottom"), x, y)
    BY <1>1, <1>2, <1>5 DEF Needed, InCrop, Crop
  <2> QED BY <2>1 DEF Parts
<1>6. CASE x >= w - RestW /\ y >= h - RestH
  <2>1. Needed("corner") /\ InCrop(Crop("corner"), x, y)
    BY <1>1, <1>2, <1>6 DEF Needed, InCrop, Crop
  <2> QED BY <2>1 DEF Parts
<1> QED BY <1>1, <1>2, <1>3, <1>4, <1>5, <1>6

\* The plane of the pixels.
FirstPlane == IF image.fmt = "rgba32" THEN "p" ELSE "y"

\* What a call stores: each pixel of its part, and in 4:2:0 both chromas of each block of them.
LEMMA CallStores ==
  ASSUME Accepted, NEW part \in Parts, NEW st
  PROVE  LET c == Crop(part)
         IN  st \in Call(part) <=>
               \/ \E x \in 0..(w - 1), y \in 0..(h - 1) :
                    InCrop(c, x, y) /\ st = PixelStore(FirstPlane, x, y)
               \/ /\ image.fmt = "yuv420"
                  /\ \E x \in 0..(w \div 2 - 1), y \in 0..(h \div 2 - 1) :
                       /\ InCrop(c, 2 * x, 2 * y)
                       /\ \/ st = ChromaStore("u", UPlane, x, y)
                          \/ st = ChromaStore("v", VPlane, x, y)
<1> DEFINE c == Crop(part)
           full == FullStart(c)
           half == HalfStart(c)
<1>1. /\ c.x \in Nat /\ c.y \in Nat /\ c.w \in Nat /\ c.h \in Nat
      /\ c.x + c.w <= w /\ c.y + c.h <= h /\ w \in Nat /\ h \in Nat
  BY CropIsInside DEF Accepted
<1>2. UPlane \in Int /\ VPlane \in Int
  BY PlaneSizes
<1> DEFINE Pixel == \E x \in 0..(w - 1), y \in 0..(h - 1) :
                      InCrop(c, x, y) /\ st = PixelStore(FirstPlane, x, y)
           Chroma(plane, base) ==
             \E x \in 0..(w \div 2 - 1), y \in 0..(h \div 2 - 1) :
               InCrop(c, 2 * x, 2 * y) /\ st = ChromaStore(plane, base, x, y)
<1>3. st \in PlaneStores(FirstPlane, c, FullView(c), full, 1) <=> Pixel
  <2>1. st \in PlaneStores(FirstPlane, c, FullView(c), full, 1)
          <=> \E x \in c.x..(c.x + c.w - 1), y \in c.y..(c.y + c.h - 1) : st = PixelStore(FirstPlane, x, y)
    BY PartStoresPixels
  <2> HIDE DEF c, full, w, h
  <2>2. \A x \in c.x..(c.x + c.w - 1), y \in c.y..(c.y + c.h - 1) :
          x \in 0..(w - 1) /\ y \in 0..(h - 1) /\ InCrop(c, x, y)
    BY <1>1 DEF InCrop
  <2>3. \A x, y : InCrop(c, x, y) => x \in c.x..(c.x + c.w - 1) /\ y \in c.y..(c.y + c.h - 1)
    BY DEF InCrop
  <2> QED BY <2>1, <2>2, <2>3
<1>4. ASSUME image.fmt = "yuv420", NEW plane, NEW base \in Int
      PROVE  st \in PlaneStores(plane, c, HalfView(c), base + half, 2) <=> Chroma(plane, base)
  <2> DEFINE XS == (c.x \div 2)..((c.x + c.w) \div 2 - 1)
             YS == (c.y \div 2)..((c.y + c.h) \div 2 - 1)
  <2>1. st \in PlaneStores(plane, c, HalfView(c), base + half, 2)
          <=> \E x \in XS, y \in YS : st = ChromaStore(plane, base, x, y)
    BY <1>4, PartStoresChroma
  <2>2. /\ w % 2 = 0 /\ h % 2 = 0
        /\ c.x % 2 = 0 /\ c.y % 2 = 0 /\ c.w % 2 = 0 /\ c.h % 2 = 0
    BY <1>4, AllIsEven
  <2> HIDE DEF c, half, w, h
  <2>3. \A x \in XS, y \in YS :
          x \in 0..(w \div 2 - 1) /\ y \in 0..(h \div 2 - 1) /\ InCrop(c, 2 * x, 2 * y)
    BY <1>1, <2>2 DEF InCrop
  <2>4. \A x \in 0..(w \div 2 - 1), y \in 0..(h \div 2 - 1) :
          InCrop(c, 2 * x, 2 * y) => x \in XS /\ y \in YS
    BY <1>1, <2>2 DEF InCrop
  <2> HIDE DEF XS, YS
  <2> QED BY <2>1, <2>3, <2>4
<1>5. CASE image.fmt = "rgba32"
  <2>1. Call(part) = PlaneStores(FirstPlane, c, FullView(c), full, 1)
    BY <1>5, OutputsAreMoved DEF Call, RgbaKernel, FullView, FirstPlane, FullStart
  <2> HIDE DEF c, full
  <2> QED BY <1>3, <1>5, <2>1 DEF c
<1>6. CASE image.fmt = "yuv420"
  <2>1. YuvDst(part) = [y |-> full, u |-> UPlane + half, v |-> VPlane + half]
    BY <1>6, OutputsAreMoved DEF HalfWidth, FullStart, HalfStart
  <2>2. Call(part) = PlaneStores("y", c, FullView(c), full, 1)
                       \cup PlaneStores("u", c, HalfView(c), UPlane + half, 2)
                       \cup PlaneStores("v", c, HalfView(c), VPlane + half, 2)
    BY <1>6, <2>1 DEF Call, YuvKernel, FullView, HalfView
  <2>3. FirstPlane = "y"
    BY <1>6 DEF FirstPlane
  <2>4. st \in Call(part) <=> Pixel \/ Chroma("u", UPlane) \/ Chroma("v", VPlane)
    <3> HIDE DEF c, full, half, Pixel, Chroma
    <3> QED BY <1>2, <1>3, <1>4, <1>6, <2>2, <2>3
  <2> HIDE DEF c
  <2> QED BY <1>6, <2>4 DEF c
<1> QED BY <1>5, <1>6 DEF Accepted, HasKernel

-----------------------------------------------------------------------------
(* The invariant                                                           *)

\* What has been stored is what the calls made so far store, and they are made of images they can convert.
RotationInv ==
  /\ image \in Images /\ transform \in Turns \cup {"flipped"} /\ HasKernel
  /\ step \in {"enter", "refused", "divisible", "right", "bottom", "corner", "done"}
  /\ step = "refused" => OddYuv \/ (impl = "fallback" /\ (TooSmall \/ transform = "flipped"))
  /\ step \notin {"enter", "refused"} => transform # "flipped" /\ ~OddYuv /\ ~TooSmall
  /\ stores = UNION {Call(part) : part \in Made}

\* What is stored in a part depends on the image, the transform and the implementation alone.
LEMMA SameCalls ==
  ASSUME UNCHANGED <<image, transform, impl>>
  PROVE  /\ \A part : Call(part)' = Call(part) /\ Needed(part)' = Needed(part)
         /\ TooSmall' = TooSmall /\ OddYuv' = OddYuv /\ HasKernel' = HasKernel
         /\ RestW' = RestW /\ RestH' = RestH
<1>1. /\ w' = w /\ h' = h /\ TileW' = TileW /\ TileH' = TileH
  BY DEF w, h, TileW, TileH
<1>2. /\ RestW' = RestW /\ RestH' = RestH /\ TransformedWidth' = TransformedWidth
      /\ TransformedHeight' = TransformedHeight /\ SrcStride' = SrcStride
  BY <1>1 DEF RestW, RestH, TransformedWidth, TransformedHeight, SrcStride, Turned
<1>3. \A p, x, y, i, j : Address(p, x, y, i, j)' = Address(p, x, y, i, j)
  BY DEF Address, RgbaFallback, RgbaSsse3, YuvFallback, YuvSsse3, YuvAvx2
<1>4. \A plane, c, p, dst, scale :
        PlaneStores(plane, c, p, dst, scale)' = PlaneStores(plane, c, p, dst, scale)
  BY <1>2, <1>3 DEF PlaneStores
<1>5. RgbaBlock' = RgbaBlock /\ LumaBlock' = LumaBlock /\ ChromaBlock' = ChromaBlock
  BY DEF RgbaBlock, LumaBlock, ChromaBlock, Turned
<1>6. UPlane' = UPlane /\ VPlane' = VPlane
  BY <1>2 DEF UPlane, VPlane
<1>7. \A part : Crop(part)' = Crop(part)
  BY <1>1, <1>2 DEF Crop
<1>8. RgbaOffset' = RgbaOffset /\ YuvOffset' = YuvOffset
  BY <1>1, <1>2 DEF RgbaOffset, YuvOffset
<1>9. \A part : RgbaDst(part)' = RgbaDst(part) /\ YuvDst(part)' = YuvDst(part)
  BY <1>2, <1>6, <1>8 DEF RgbaDst, YuvDst
<1>10. \A c, dst : RgbaKernel(c, dst)' = RgbaKernel(c, dst) /\ YuvKernel(c, dst)' = YuvKernel(c, dst)
  BY <1>2, <1>4, <1>5 DEF RgbaKernel, YuvKernel
<1>11. \A part : Call(part)' = Call(part)
  BY <1>7, <1>9, <1>10 DEF Call
<1>12. \A part : Needed(part)' = Needed(part)
  BY <1>2 DEF Needed
<1>13. TooSmall' = TooSmall /\ OddYuv' = OddYuv /\ HasKernel' = HasKernel
  BY <1>1 DEF TooSmall, OddYuv, HasKernel
<1> QED BY <1>2, <1>11, <1>12, <1>13

\* Before the first call nothing has been stored.
LEMMA NothingMadeYet ==
  step \in {"enter", "refused", "divisible"} => UNION {Call(part) : part \in Made} = {}
<1>1. step \in {"enter", "refused", "divisible"} => Made = {}
  BY DEF Made, Parts
<1> QED BY <1>1

\* A step of the dispatcher makes one call, where it is needed.
LEMMA MakesACall ==
  ASSUME RotationInv, UNCHANGED <<image, transform, impl>>, NEW part \in Parts,
         Made' = IF Needed(part) THEN Made \cup {part} ELSE Made,
         stores' = IF Needed(part) THEN stores \cup Call(part) ELSE stores
  PROVE  stores' = UNION {Call(q)' : q \in Made'}
<1>1. stores = UNION {Call(q) : q \in Made}
  BY DEF RotationInv
<1>2. \A q : Call(q)' = Call(q)
  BY SameCalls
<1>3. {Call(q)' : q \in Made'} = {Call(q) : q \in Made'}
  BY <1>2
<1>4. UNION {Call(q) : q \in Made \cup {part}} = (UNION {Call(q) : q \in Made}) \cup Call(part)
  OBVIOUS
<1> QED BY <1>1, <1>3, <1>4

LEMMA RotationInvIsInductive ==
  ASSUME RotationInv, [Next]_vars
  PROVE  RotationInv'
<1> USE DEF RotationInv
<1>1. CASE HandDown
  <2>1. /\ image' = image /\ transform' = transform /\ step' = step /\ stores' = stores
        /\ step = "enter" /\ impl # "fallback"
        /\ impl' \in {"ssse3", "fallback"}
    BY <1>1 DEF HandDown
  <2>2. HasKernel'
    BY <2>1 DEF HasKernel
  <2>3. stores = {}
    BY <2>1, NothingMadeYet
  <2>4. UNION {Call(part)' : part \in Made'} = {}
    <3>1. Made' = {}
      BY <2>1 DEF Made, Parts
    <3> QED BY <3>1
  <2> QED BY <2>1, <2>2, <2>3, <2>4
<1>2. CASE Refuse
  <2>1. /\ UNCHANGED <<image, transform, impl>> /\ stores' = stores /\ step' = "refused" /\ step = "enter"
        /\ OddYuv \/ (impl = "fallback" /\ (TooSmall \/ transform = "flipped"))
    BY <1>2 DEF Refuse
  <2>2. /\ TooSmall' = TooSmall /\ OddYuv' = OddYuv /\ HasKernel' = HasKernel
    BY <2>1, SameCalls
  <2>3. stores = {}
    BY <2>1, NothingMadeYet
  <2>4. UNION {Call(part)' : part \in Made'} = {}
    <3>1. Made' = {}
      BY <2>1 DEF Made, Parts
    <3> QED BY <3>1
  <2> QED BY <2>1, <2>2, <2>3, <2>4
<1>3. CASE Accept
  <2>1. /\ UNCHANGED <<image, transform, impl>> /\ stores' = stores /\ step' = "divisible" /\ step = "enter"
        /\ ~OddYuv /\ ~TooSmall /\ transform # "flipped"
    BY <1>3 DEF Accept
  <2>2. /\ TooSmall' = TooSmall /\ OddYuv' = OddYuv /\ HasKernel' = HasKernel
    BY <2>1, SameCalls
  <2>3. stores = {}
    BY <2>1, NothingMadeYet
  <2>4. UNION {Call(part)' : part \in Made'} = {}
    <3>1. Made' = {}
      BY <2>1 DEF Made, Parts
    <3> QED BY <3>1
  <2> QED BY <2>1, <2>2, <2>3, <2>4
<1>4. ASSUME NEW part \in Parts, UNCHANGED <<image, transform, impl>>,
             step \notin {"enter", "refused"}, step' \in {"right", "bottom", "corner", "done"},
             Made' = IF Needed(part) THEN Made \cup {part} ELSE Made,
             stores' = IF Needed(part) THEN stores \cup Call(part) ELSE stores
      PROVE  RotationInv'
  <2>1. /\ TooSmall' = TooSmall /\ OddYuv' = OddYuv /\ HasKernel' = HasKernel
    BY <1>4, SameCalls
  <2>2. stores' = UNION {Call(q)' : q \in Made'}
    BY <1>4, MakesACall
  <2> QED BY <1>4, <2>1, <2>2
<1>5. CASE DivisibleArea
  <2>1. UNCHANGED <<image, transform, impl>> /\ step = "divisible" /\ step' = "right"
    BY <1>5 DEF DivisibleArea
  <2>2. Needed("divisible") /\ stores' = stores \cup Call("divisible")
    BY <1>5 DEF DivisibleArea, Needed
  <2>3. Made' = Made \cup {"divisible"}
    BY <2>1, <2>2, SameCalls DEF Made, Parts
  <2> QED BY <1>4, <2>1, <2>2, <2>3 DEF Parts
<1>6. CASE RightEdge
  <2>1. UNCHANGED <<image, transform, impl>> /\ step = "right" /\ step' = "bottom"
    BY <1>6 DEF RightEdge
  <2>2. stores' = IF Needed("right") THEN stores \cup Call("right") ELSE stores
    BY <1>6 DEF RightEdge, Needed
  <2>3. Made' = IF Needed("right") THEN Made \cup {"right"} ELSE Made
    BY <2>1, SameCalls DEF Made, Parts
  <2> QED BY <1>4, <2>1, <2>2, <2>3 DEF Parts
<1>7. CASE BottomEdge
  <2>1. UNCHANGED <<image, transform, impl>> /\ step = "bottom" /\ step' = "corner"
    BY <1>7 DEF BottomEdge
  <2>2. stores' = IF Needed("bottom") THEN stores \cup Call("bottom") ELSE stores
    BY <1>7 DEF BottomEdge, Needed
  <2>3. Made' = IF Needed("bottom") THEN Made \cup {"bottom"} ELSE Made
    BY <2>1, SameCalls DEF Made, Parts
  <2> QED BY <1>4, <2>1, <2>2, <2>3 DEF Parts
<1>8. CASE Corner
  <2>1. UNCHANGED <<image, transform, impl>> /\ step = "corner" /\ step' = "done"
    BY <1>8 DEF Corner
  <2>2. stores' = IF Needed("corner") THEN stores \cup Call("corner") ELSE stores
    BY <1>8 DEF Corner, Needed
  <2>3. Made' = IF Needed("corner") THEN Made \cup {"corner"} ELSE Made
    BY <2>1, SameCalls DEF Made, Parts
  <2> QED BY <1>4, <2>1, <2>2, <2>3 DEF Parts
<1>9. CASE UNCHANGED vars
  <2>1. UNCHANGED <<image, transform, impl>> /\ step' = step /\ stores' = stores
    BY <1>9 DEF vars
  <2>2. /\ TooSmall' = TooSmall /\ OddYuv' = OddYuv /\ HasKernel' = HasKernel
        /\ \A q : Call(q)' = Call(q) /\ Needed(q)' = Needed(q)
    BY <2>1, SameCalls
  <2>3. Made' = Made
    BY <2>1, <2>2 DEF Made
  <2>4. UNION {Call(q)' : q \in Made'} = UNION {Call(q) : q \in Made}
    BY <2>2, <2>3
  <2> QED BY <2>1, <2>2, <2>4
<1> QED BY <1>1, <1>2, <1>3, <1>5, <1>6, <1>7, <1>8, <1>9 DEF Next, Returned

LEMMA RotationHolds ==
  ASSUME ImagesAssumption
  PROVE  Spec => []RotationInv
<1>1. Init => RotationInv
  <2> SUFFICES ASSUME Init PROVE RotationInv
    OBVIOUS
  <2>1. HasKernel
    BY DEF Init, ImagesAssumption, HasKernel, RgbaFn, Yuv420Fn
  <2>2. UNION {Call(part) : part \in Made} = {}
    BY NothingMadeYet DEF Init
  <2> QED BY <2>1, <2>2 DEF Init, RotationInv, Turns
<1>2. RotationInv /\ [Next]_vars => RotationInv'
  BY RotationInvIsInductive
<1> QED BY <1>1, <1>2, PTL DEF Spec

-----------------------------------------------------------------------------
(* Theorems                                                                *)

LEMMA AcceptedAfterEnter ==
  ASSUME ImagesAssumption, PaddingAssumption, RotationInv, step \notin {"enter", "refused"}
  PROVE  Accepted
  BY DEF ImagesAssumption, PaddingAssumption, RotationInv, Accepted, w, h

\* Each store is of a pixel of the image, or of the chroma of a block of them.
LEMMA StoresAreOfPixels ==
  ASSUME ImagesAssumption, PaddingAssumption, RotationInv, NEW st \in stores
  PROVE  /\ Accepted
         /\ \/ \E x \in 0..(w - 1), y \in 0..(h - 1) : st = PixelStore(FirstPlane, x, y)
            \/ /\ image.fmt = "yuv420"
               /\ \E x \in 0..(w \div 2 - 1), y \in 0..(h \div 2 - 1) :
                    st = ChromaStore("u", UPlane, x, y) \/ st = ChromaStore("v", VPlane, x, y)
<1>1. PICK part \in Made : st \in Call(part)
  BY DEF RotationInv
<1>2. part \in Parts /\ step \notin {"enter", "refused"}
  BY DEF Made
<1>3. Accepted
  BY <1>2, AcceptedAfterEnter
<1> QED BY <1>1, <1>2, <1>3, CallStores

LEMMA StoresAreRight ==
  ASSUME ImagesAssumption, PaddingAssumption, RotationInv
  PROVE  EveryStoreIsRight
<1> SUFFICES ASSUME NEW st \in stores
             PROVE  CASE st[1] \in {"p", "y"} -> st[2] < UPlane /\ LumaIsRight(st[2], st[3])
                      [] st[1] = "u" -> st[2] < VPlane /\ ChromaIsRight(st[2] - UPlane, st[3])
                      [] st[1] = "v" -> st[2] < End /\ ChromaIsRight(st[2] - VPlane, st[3])
  BY DEF EveryStoreIsRight
<1> DEFINE chroma == (TransformedHeight \div 2) * HalfWidth
<1>1. Accepted
  BY StoresAreOfPixels
<1>2. UPlane \in Int /\ VPlane = UPlane + chroma /\ End = VPlane + chroma /\ chroma \in Int
  BY <1>1, PlaneSizes
<1>3. ASSUME NEW x \in 0..(w - 1), NEW y \in 0..(h - 1), st = PixelStore(FirstPlane, x, y)
      PROVE  st[1] \in {"p", "y"} /\ st[2] < UPlane /\ LumaIsRight(st[2], st[3])
  <2>1. st[2] \in 0..(UPlane - 1) /\ LumaIsRight(st[2], st[3])
    BY <1>1, <1>3, PixelStoreIsRight
  <2>2. st[1] \in {"p", "y"}
    BY <1>3 DEF PixelStore, FirstPlane
  <2> QED BY <1>2, <2>1, <2>2
<1>4. ASSUME image.fmt = "yuv420", NEW x \in 0..(w \div 2 - 1), NEW y \in 0..(h \div 2 - 1),
             NEW plane, NEW base \in Int, st = ChromaStore(plane, base, x, y)
      PROVE  st[1] = plane /\ st[2] < base + chroma /\ ChromaIsRight(st[2] - base, st[3])
  <2>1. st[2] \in base..(base + chroma - 1) /\ ChromaIsRight(st[2] - base, st[3])
    BY <1>1, <1>4, ChromaStoreIsRight
  <2>2. st[1] = plane
    BY <1>4 DEF ChromaStore
  <2> HIDE DEF chroma
  <2> QED BY <1>2, <2>1, <2>2
<1> HIDE DEF chroma
<1>5. CASE \E x \in 0..(w - 1), y \in 0..(h - 1) : st = PixelStore(FirstPlane, x, y)
  BY <1>3, <1>5
<1>6. CASE /\ image.fmt = "yuv420"
           /\ \E x \in 0..(w \div 2 - 1), y \in 0..(h \div 2 - 1) : st = ChromaStore("u", UPlane, x, y)
  <2>1. st[1] = "u" /\ st[2] < UPlane + chroma /\ ChromaIsRight(st[2] - UPlane, st[3])
    BY <1>2, <1>4, <1>6
  <2> QED BY <1>2, <2>1
<1>7. CASE /\ image.fmt = "yuv420"
           /\ \E x \in 0..(w \div 2 - 1), y \in 0..(h \div 2 - 1) : st = ChromaStore("v", VPlane, x, y)
  <2>1. st[1] = "v" /\ st[2] < VPlane + chroma /\ ChromaIsRight(st[2] - VPlane, st[3])
    BY <1>2, <1>4, <1>7
  <2> QED BY <1>2, <2>1
<1> QED BY <1>5, <1>6, <1>7, StoresAreOfPixels

LEMMA ReadsAreInside ==
  ASSUME ImagesAssumption, PaddingAssumption, RotationInv
  PROVE  ReadsStayInside
<1> DEFINE far(st) == IF st[1] \in {"u", "v"} THEN 1 ELSE 0
<1> SUFFICES ASSUME NEW st \in stores
             PROVE  X(st[3]) + far(st) < w /\ Y(st[3]) + far(st) < h
  BY DEF ReadsStayInside
<1>1. Accepted
  BY StoresAreOfPixels
<1>2. w \in Nat /\ h \in Nat
  BY <1>1 DEF Accepted
<1>3. ASSUME NEW x \in 0..(w - 1), NEW y \in 0..(h - 1), st = PixelStore(FirstPlane, x, y)
      PROVE  X(st[3]) + far(st) < w /\ Y(st[3]) + far(st) < h
  <2>1. far(st) = 0 /\ st[3] = y * SrcStride + x
    BY <1>3 DEF PixelStore, FirstPlane
  <2>2. X(st[3]) = x /\ Y(st[3]) = y
    BY <1>1, <2>1, PixelOfStore
  <2> HIDE DEF far
  <2> QED BY <1>2, <2>1, <2>2
<1>4. ASSUME image.fmt = "yuv420", NEW x \in 0..(w \div 2 - 1), NEW y \in 0..(h \div 2 - 1),
             NEW plane \in {"u", "v"}, NEW base \in Int, st = ChromaStore(plane, base, x, y)
      PROVE  X(st[3]) + far(st) < w /\ Y(st[3]) + far(st) < h
  <2>1. X(st[3]) = 2 * x /\ Y(st[3]) = 2 * y /\ 2 * x + 1 < w /\ 2 * y + 1 < h
    BY <1>1, <1>4, ChromaStoreIsRight
  <2>2. far(st) = 1
    BY <1>4 DEF ChromaStore
  <2> HIDE DEF far
  <2> QED BY <2>1, <2>2
<1>5. UPlane \in Int /\ VPlane \in Int
  BY <1>1, PlaneSizes
<1> HIDE DEF far
<1> QED BY <1>3, <1>4, <1>5, StoresAreOfPixels

\* An address in rows of n is that of a column and a row.
LEMMA AddressHasAPlace ==
  ASSUME NEW n \in Nat, NEW t \in Nat, NEW a \in 0..(t * n - 1)
  PROVE  \E row \in 0..(t - 1), col \in 0..(n - 1) : a = row * n + col
<1>1. n > 0
  <2>1. n = 0 => t * n = 0
    OBVIOUS
  <2> QED BY <2>1
<1> DEFINE q == a \div n
           r == a % n
<1>2. r \in 0..(n - 1) /\ q \in Int /\ a = n * q + r
  BY <1>1, RestAndQuotient
<1> HIDE DEF q, r
<1>3. t * n \in Int /\ n * q \in Int /\ n * (t - q) = t * n - n * q
  BY <1>2
<1>4. q >= 0
  <2>1. CASE q <= -1
    <3>1. n * q <= -n
      BY <1>1, <1>2, <2>1
    <3> QED BY <1>2, <3>1
  <2> QED BY <1>2, <2>1
<1>5. q < t
  <2>1. CASE t - q <= 0
    <3>1. n * (t - q) <= 0
      BY <1>1, <1>2, <2>1
    <3> QED BY <1>2, <1>3, <3>1
  <2> QED BY <1>2, <2>1
<1> QED BY <1>2, <1>4, <1>5

\* What is done has been called for wherever it was needed.
LEMMA DoneMakesAll ==
  ASSUME step = "done", NEW part \in Parts, Needed(part)
  PROVE  part \in Made
  BY DEF Made, Parts

\* When the conversion is done, each pixel and each block has been stored.
LEMMA AllIsStored ==
  ASSUME ImagesAssumption, PaddingAssumption, RotationInv, step = "done"
  PROVE  /\ \A x \in 0..(w - 1), y \in 0..(h - 1) : PixelStore(FirstPlane, x, y) \in stores
         /\ image.fmt = "yuv420" =>
              \A x \in 0..(w \div 2 - 1), y \in 0..(h \div 2 - 1) :
                ChromaStore("u", UPlane, x, y) \in stores /\ ChromaStore("v", VPlane, x, y) \in stores
<1>1. Accepted
  BY AcceptedAfterEnter
<1>2. ASSUME NEW x \in 0..(w - 1), NEW y \in 0..(h - 1)
      PROVE  \E part \in Made : part \in Parts /\ InCrop(Crop(part), x, y)
  BY <1>1, PartsCover, DoneMakesAll
<1>3. ASSUME NEW part \in Made, NEW st \in Call(part)
      PROVE  st \in stores
  BY DEF RotationInv
<1>4. ASSUME NEW x \in 0..(w - 1), NEW y \in 0..(h - 1)
      PROVE  PixelStore(FirstPlane, x, y) \in stores
  <2>1. PICK part \in Made : part \in Parts /\ InCrop(Crop(part), x, y)
    BY <1>2
  <2>2. PixelStore(FirstPlane, x, y) \in Call(part)
    BY <1>1, <2>1, CallStores
  <2> QED BY <1>3, <2>2
<1>5. ASSUME image.fmt = "yuv420", NEW x \in 0..(w \div 2 - 1), NEW y \in 0..(h \div 2 - 1)
      PROVE  ChromaStore("u", UPlane, x, y) \in stores /\ ChromaStore("v", VPlane, x, y) \in stores
  <2>1. 2 * x \in 0..(w - 1) /\ 2 * y \in 0..(h - 1)
    <3>1. w \in Nat /\ h \in Nat
      BY <1>1 DEF Accepted
    <3> HIDE DEF w, h
    <3> QED BY <3>1
  <2>2. PICK part \in Made : part \in Parts /\ InCrop(Crop(part), 2 * x, 2 * y)
    BY <1>2, <2>1
  <2>3. ChromaStore("u", UPlane, x, y) \in Call(part) /\ ChromaStore("v", VPlane, x, y) \in Call(part)
    BY <1>1, <1>5, <2>2, CallStores
  <2> QED BY <1>3, <2>3
<1> QED BY <1>4, <1>5

LEMMA AllIsWritten ==
  ASSUME ImagesAssumption, PaddingAssumption, RotationInv
  PROVE  NothingIsLeftOut
<1> SUFFICES ASSUME step = "done"
             PROVE  {st[2] : st \in stores} = 0..((IF image.fmt = "rgba32" THEN UPlane ELSE End) - 1)
  BY DEF NothingIsLeftOut
<1> DEFINE chroma == (TransformedHeight \div 2) * HalfWidth
           size == IF image.fmt = "rgba32" THEN UPlane ELSE End
<1>1. Accepted
  BY AcceptedAfterEnter
<1>2. /\ UPlane = TransformedHeight * TransformedWidth /\ UPlane \in Nat
      /\ VPlane = UPlane + chroma /\ End = VPlane + chroma /\ chroma \in Nat
  BY <1>1, PlaneSizes
<1>3. /\ TransformedWidth = Across(w, h) /\ TransformedHeight = Down(w, h)
      /\ w \in Nat /\ h \in Nat /\ TransformedWidth \in Nat /\ TransformedHeight \in Nat
  BY <1>1, SidesOfOutput
<1>4. transform \in Turns /\ (image.fmt = "rgba32" \/ image.fmt = "yuv420")
  BY <1>1 DEF Accepted, HasKernel
<1>5. ASSUME NEW st \in stores
      PROVE  st[2] \in 0..(size - 1)
  <2>1. ASSUME NEW x \in 0..(w - 1), NEW y \in 0..(h - 1), st = PixelStore(FirstPlane, x, y)
        PROVE  st[2] \in 0..(UPlane - 1)
    BY <1>1, <2>1, PixelStoreIsRight
  <2>2. ASSUME image.fmt = "yuv420", NEW x \in 0..(w \div 2 - 1), NEW y \in 0..(h \div 2 - 1),
               NEW plane, NEW base \in Int, st = ChromaStore(plane, base, x, y)
        PROVE  st[2] \in base..(base + chroma - 1)
    BY <1>1, <2>2, ChromaStoreIsRight
  <2> HIDE DEF chroma
  <2>3. \/ st[2] \in 0..(UPlane - 1)
        \/ image.fmt = "yuv420" /\ st[2] \in UPlane..(UPlane + chroma - 1)
        \/ image.fmt = "yuv420" /\ st[2] \in VPlane..(VPlane + chroma - 1)
    BY <1>2, <2>1, <2>2, StoresAreOfPixels
  <2> QED BY <1>2, <2>3
<1>6. ASSUME NEW a \in 0..(UPlane - 1)
      PROVE  \E st \in stores : st[2] = a
  <2>1. PICK row \in 0..(TransformedHeight - 1), col \in 0..(TransformedWidth - 1) :
          a = row * TransformedWidth + col
    <3>1. a \in 0..(TransformedHeight * TransformedWidth - 1)
      BY <1>2
    <3> QED BY <1>3, <3>1, AddressHasAPlace
  <2>2. PICK x \in 0..(w - 1), y \in 0..(h - 1) : Col(w, h, x, y) = col /\ Row(w, h, x, y) = row
    BY <1>3, <1>4, <2>1, PlaceIsTaken
  <2>3. PixelStore(FirstPlane, x, y)[2] = a
    BY <2>1, <2>2 DEF PixelStore
  <2> QED BY <2>3, AllIsStored
<1>7. ASSUME image.fmt = "yuv420", NEW a \in 0..(chroma - 1)
      PROVE  /\ \E st \in stores : st[2] = UPlane + a
             /\ \E st \in stores : st[2] = VPlane + a
  <2> DEFINE aw == w \div 2
             ah == h \div 2
  <2>1. aw \in Nat /\ ah \in Nat
    <3> HIDE DEF w, h
    <3> QED BY <1>3
  <2>2. HalfWidth = Across(aw, ah) /\ TransformedHeight \div 2 = Down(aw, ah)
    BY DEF HalfWidth, TransformedWidth, TransformedHeight, Across, Down
  <2>3. HalfWidth \in Nat /\ TransformedHeight \div 2 \in Nat
    BY <2>1, <2>2 DEF Across, Down
  <2>4. PICK row \in 0..(TransformedHeight \div 2 - 1), col \in 0..(HalfWidth - 1) :
          a = row * HalfWidth + col
    BY <2>3, AddressHasAPlace
  <2> HIDE DEF aw, ah
  <2>5. PICK x \in 0..(aw - 1), y \in 0..(ah - 1) : Col(aw, ah, x, y) = col /\ Row(aw, ah, x, y) = row
    BY <1>4, <2>1, <2>2, <2>4, PlaceIsTaken
  <2>6. /\ ChromaStore("u", UPlane, x, y)[2] = UPlane + a
        /\ ChromaStore("v", VPlane, x, y)[2] = VPlane + a
    BY <2>4, <2>5 DEF ChromaStore, aw, ah
  <2>7. ChromaStore("u", UPlane, x, y) \in stores /\ ChromaStore("v", VPlane, x, y) \in stores
    BY <1>7, AllIsStored DEF aw, ah
  <2> QED BY <2>6, <2>7
<1> HIDE DEF chroma
<1>8. ASSUME NEW a \in 0..(size - 1)
      PROVE  \E st \in stores : st[2] = a
  <2>1. CASE a < UPlane
    BY <1>2, <1>6, <2>1
  <2>2. CASE a >= UPlane /\ a < VPlane
    <3>1. image.fmt = "yuv420" /\ a - UPlane \in 0..(chroma - 1) /\ UPlane + (a - UPlane) = a
      BY <1>2, <1>4, <2>2
    <3> QED BY <1>7, <3>1
  <2>3. CASE a >= VPlane
    <3>1. image.fmt = "yuv420" /\ a - VPlane \in 0..(chroma - 1) /\ VPlane + (a - VPlane) = a
      BY <1>2, <1>4, <2>3
    <3> QED BY <1>7, <3>1
  <2> QED BY <1>2, <2>1, <2>2, <2>3
<1> HIDE DEF size
<1>9. {st[2] : st \in stores} = 0..(size - 1)
  BY <1>5, <1>8
<1> QED BY <1>9 DEF size

LEMMA CpuDecidesNothing ==
  ASSUME ImagesAssumption, RotationInv
  PROVE  CpuDoesNotDecide
<1> SUFFICES ASSUME step = "refused", ~OddYuv, transform # "flipped"
             PROVE  \/ image.fmt = "rgba32" /\ (w < 1 \/ h < 4)
                    \/ image.fmt = "yuv420" /\ (w < 2 \/ h < 2)
  BY DEF CpuDoesNotDecide
<1>1. impl = "fallback" /\ TooSmall /\ HasKernel
  BY DEF RotationInv
<1> QED BY <1>1, TileSizes DEF TooSmall, HasKernel

\* An image of any size, turned by any implementation into any format, is that of the reference: each store of
\* each of the overlapping parts is of the reference's pixel, at its place of its plane.
THEOREM StoresAreAlwaysRight ==
  ASSUME ImagesAssumption, PaddingAssumption
  PROVE  Spec => []EveryStoreIsRight
<1>1. RotationInv => EveryStoreIsRight
  BY StoresAreRight
<1> QED BY <1>1, RotationHolds, PTL

\* No kernel reads past a row or below the last, whatever the size and its tiles.
THEOREM ReadsAlwaysStayInside ==
  ASSUME ImagesAssumption, PaddingAssumption
  PROVE  Spec => []ReadsStayInside
<1>1. RotationInv => ReadsStayInside
  BY ReadsAreInside
<1> QED BY <1>1, RotationHolds, PTL

\* When true is returned every byte of the output has been written: the divisible area and the edges cover it.
THEOREM NothingIsEverLeftOut ==
  ASSUME ImagesAssumption, PaddingAssumption
  PROVE  Spec => []NothingIsLeftOut
<1>1. RotationInv => NothingIsLeftOut
  BY AllIsWritten
<1> QED BY <1>1, RotationHolds, PTL

\* What one CPU refuses, all refuse.
THEOREM CpuNeverDecides ==
  ASSUME ImagesAssumption
  PROVE  Spec => []CpuDoesNotDecide
<1>1. RotationInv => CpuDoesNotDecide
  BY CpuDecidesNothing
<1> QED BY <1>1, RotationHolds, PTL
=============================================================================
