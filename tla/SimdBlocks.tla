------------------------------ MODULE SimdBlocks ------------------------------
(***************************************************************************)
(* What the SSSE3 and AVX2 kernels of scranrot do to a block between its   *)
(* load and its store: vectors of pixels are narrowed and packed into      *)
(* registers of bytes, AVX2's lanes are put back in order, and the block   *)
(* is turned by passes of interleaving (unpack) instructions.  None of it  *)
(* depends on the data, so a behaviour follows one pixel: vec and at say   *)
(* in which vector and at which element of it the pixel is, reg in which   *)
(* register of the block.                                                  *)
(*                                                                         *)
(* A luma block is 16x16 or 32x32 bytes, a chroma block as many from four  *)
(* times the pixels, and SSSE3's rgba32 tile 4x4 pixels.                   *)
(***************************************************************************)
EXTENDS Integers, Sequences

VARIABLES kernel,  \* [arch, plane, transform]
          from,    \* the row and column of the block the pixel belongs to
          half,    \* chroma: which of its two pixels of a row is followed
          vec, at, reg,
          stage

vars == <<kernel, from, half, vec, at, reg, stage>>

Kernels ==
    [arch : {"ssse3", "avx2"}, plane : {"y", "uv"}, transform : {"normal", "90", "180", "270"}]
      \cup [arch : {"ssse3"}, plane : {"rgba"}, transform : {"normal", "90", "180", "270"}]

Avx2 == kernel.arch = "avx2"
Chroma == kernel.plane = "uv"
Rgba == kernel.plane = "rgba"
Side == IF Rgba THEN 4 ELSE IF Avx2 THEN 32 ELSE 16
PerVector == IF Avx2 THEN 8 ELSE 4

(* The pixel's column within the sub-tile of four vectors it is loaded in: *)
(* a chroma block is two sub-tiles wide.                                   *)
Column == IF Chroma THEN 2 * (from[2] % (Side \div 2)) + half ELSE from[2]
SubTile == IF Chroma THEN from[2] \div (Side \div 2) ELSE 0

(* Turning by 180 loads the vectors of a row in reverse order, reverses    *)
(* the pixels of every 128-bit lane with the byte shuffle that also fixes  *)
(* the pixel format, and fills the sub-tiles from the right.               *)
Loaded180 == [vec |-> 3 - (Column \div PerVector),
              at |-> 4 * ((Column % PerVector) \div 4) + (3 - (Column % 4))]
Loaded == [vec |-> Column \div PerVector, at |-> Column % PerVector]

Init ==
    /\ kernel \in Kernels
    /\ from \in (0..(Side - 1)) \X (0..(Side - 1))
    /\ half \in IF Chroma THEN 0..1 ELSE {0}
    /\ LET l == IF kernel.transform = "180" /\ ~Rgba THEN Loaded180 ELSE Loaded
       IN  vec = l.vec /\ at = l.at
    /\ reg = from[1]
    /\ stage = IF Rgba THEN "tile" ELSE "loaded"

-----------------------------------------------------------------------------
(* Four vectors of 32-bit results become one of bytes: two rounds of       *)
(* packing, each within the 128-bit lanes.                                 *)
PackLuma ==
    /\ stage = "loaded" /\ ~Chroma
    /\ at' = 16 * (at \div 4) + 4 * vec + (at % 4)
    /\ vec' = 0
    /\ stage' = "packed"
    /\ UNCHANGED <<kernel, from, half, reg>>

(* Chroma sums the pixels in pairs in between, which leaves 16-bit         *)
(* elements.                                                               *)
PackChroma ==
    /\ stage = "loaded" /\ Chroma
    /\ at' = 8 * (at \div 4) + 2 * vec + (at % 4) \div 2
    /\ vec' = IF kernel.transform = "180" THEN 1 - SubTile ELSE SubTile
    /\ stage' = "packed"
    /\ UNCHANGED <<kernel, from, half, reg>>

(* The double word a permutation brings to place k is the one at           *)
(* order[k + 1].                                                           *)
PlaceOf(order, d) == (CHOOSE k \in 1..Len(order) : order[k] = d) - 1

(* Two packings left the halves of AVX2's vectors in different lanes: one  *)
(* permutation of the double words puts them together, for 180 degrees the *)
(* upper half first.                                                       *)
Concatenated == <<0, 4, 1, 5, 2, 6, 3, 7>>
LaneSwapped == <<4, 0, 5, 1, 6, 2, 7, 3>>

(* Mutant: 180 degrees takes the order of the other kernels. *)
UnlaneOrder_NotSwapped == Concatenated

UnlaneOrder == IF kernel.transform = "180" THEN LaneSwapped ELSE Concatenated

Unlane ==
    /\ stage = "packed"
    /\ LET n == IF Chroma THEN 2 ELSE 4    \* elements of a double word
       IN  at' = IF Avx2 THEN n * PlaceOf(UnlaneOrder, at \div n) + (at % n) ELSE at
    /\ stage' = IF Chroma THEN "halves" ELSE "block"
    /\ UNCHANGED <<kernel, from, half, vec, reg>>

(* The two sub-tiles of a chroma row are packed into one register, AVX2's  *)
(* quarters put in order again.                                            *)
JoinHalves ==
    /\ stage = "halves"
    /\ at' = IF Avx2
             THEN LET byte == 16 * (at \div 8) + 8 * vec + (at % 8)
                  IN  8 * PlaceOf(<<0, 2, 1, 3>>, byte \div 8) + (byte % 8)
             ELSE 8 * vec + at
    /\ vec' = 0
    /\ stage' = "block"
    /\ UNCHANGED <<kernel, from, half, reg>>

-----------------------------------------------------------------------------
(* The passes of a 16x16 transposition.  Pass p interleaves units of       *)
(* 2^(p-1) bytes of two registers, 2^(p-1) apart: the low halves into one  *)
(* register, the high halves into the next.                                *)
Lane(b) == b \div 16
Unit(p) == 2 ^ (p - 1)
IsSecond(q, p) == (q % (2 * Unit(p))) \div Unit(p)
IsHigh(b, p) == (b % 16) \div 8

Interleaved(q, b, p) ==
    LET unit == (b % 8) \div Unit(p)
        group == q - (q % (2 * Unit(p)))
        pair == q % Unit(p)
    IN  [reg |-> group + 2 * pair + IsHigh(b, p),
         at |-> 16 * Lane(b) + (2 * unit + IsSecond(q, p)) * Unit(p) + (b % Unit(p))]

(* AVX2 turns the two lanes of the upper and of the lower 16 registers     *)
(* each on its own.                                                        *)
Pass(p, register) ==
    LET base == 16 * (reg \div 16)
        to == Interleaved(register, at, p)
    IN  /\ reg' = base + to.reg
        /\ at' = to.at

(* A quarter turn to the other side begins with the last register. *)
FirstRegister == IF kernel.transform = "90" THEN 15 - (reg % 16) ELSE reg % 16

Turned == kernel.transform \in {"90", "270"}

Pass1 ==
    /\ stage = "block" /\ Turned
    /\ Pass(1, FirstRegister)
    /\ stage' = "pass1"
    /\ UNCHANGED <<kernel, from, half, vec>>
Pass2 ==
    /\ stage = "pass1"
    /\ Pass(2, reg % 16)
    /\ stage' = "pass2"
    /\ UNCHANGED <<kernel, from, half, vec>>
Pass3 ==
    /\ stage = "pass2"
    /\ Pass(3, reg % 16)
    /\ stage' = "pass3"
    /\ UNCHANGED <<kernel, from, half, vec>>
Pass4 ==
    /\ stage = "pass3"
    /\ Pass(4, reg % 16)
    /\ stage' = IF Avx2 THEN "blocks" ELSE "stored"
    /\ UNCHANGED <<kernel, from, half, vec>>

(* The four 16x16 blocks of a 32x32 one change places: the low lanes of    *)
(* registers i and i + 16 go to i, the high ones to i + 16.                *)
SwapTranspose ==
    /\ stage = "blocks" /\ kernel.transform = "270"
    /\ reg' = 16 * Lane(at) + (reg % 16)
    /\ at' = 16 * (reg \div 16) + (at % 16)
    /\ stage' = "stored"
    /\ UNCHANGED <<kernel, from, half, vec>>
SwapRotate90 ==
    /\ stage = "blocks" /\ kernel.transform = "90"
    /\ reg' = 16 * Lane(at) + (reg % 16)
    /\ at' = 16 * (1 - reg \div 16) + (at % 16)
    /\ stage' = "stored"
    /\ UNCHANGED <<kernel, from, half, vec>>

StoreStraight ==
    /\ stage = "block" /\ ~Turned
    /\ stage' = "stored"
    /\ UNCHANGED <<kernel, from, half, vec, at, reg>>

-----------------------------------------------------------------------------
(* SSSE3's rgba32 tiles: two rounds of interleaving, of pixels and of      *)
(* pairs.  reg counts the tile's four rows.                                *)
Tile270 ==
    /\ stage = "tile" /\ kernel.transform = "270"
    /\ reg' = IF at < 2 THEN 3 - (at % 2) ELSE 1 - (at % 2)
    /\ at' = 2 * (reg \div 2) + (reg % 2)
    /\ stage' = "stored"
    /\ UNCHANGED <<kernel, from, half, vec>>
Tile90 ==
    /\ stage = "tile" /\ kernel.transform = "90"
    /\ reg' = 2 * (at \div 2) + (at % 2)
    /\ at' = 2 * (1 - reg \div 2) + 1 - (reg % 2)
    /\ stage' = "stored"
    /\ UNCHANGED <<kernel, from, half, vec>>
(* Half a turn reverses a row of four with the shuffle of its bytes. *)
TileRow ==
    /\ stage = "tile" /\ ~Turned
    /\ at' = IF kernel.transform = "180" THEN 3 - at ELSE at
    /\ stage' = "stored"
    /\ UNCHANGED <<kernel, from, half, vec, reg>>

Stored == stage = "stored" /\ UNCHANGED vars

Next ==
    \/ PackLuma \/ PackChroma \/ Unlane \/ JoinHalves
    \/ Pass1 \/ Pass2 \/ Pass3 \/ Pass4 \/ SwapTranspose \/ SwapRotate90
    \/ StoreStraight
    \/ Tile270 \/ Tile90 \/ TileRow
    \/ Stored

Spec == Init /\ [][Next]_vars

-----------------------------------------------------------------------------
(* The register and byte from which module Rotation's kernels store the    *)
(* pixel at row r and column c of a block: 270 degrees is a transposition  *)
(* whose registers are stored upwards (rgba32: already in that order).     *)
StoredFrom(r, c) ==
    CASE kernel.transform = "270" -> <<IF Rgba THEN 3 - c ELSE c, r>>
      [] kernel.transform = "180" -> <<r, Side - 1 - c>>
      [] kernel.transform = "90" -> <<c, Side - 1 - r>>
      [] kernel.transform = "normal" -> <<r, c>>

(* Every byte of every block leaves the register the kernel's stores take  *)
(* it from, and the two pixels of a chroma byte's row end in the same      *)
(* byte: the packing's lane order, the passes and the exchange of the      *)
(* quarters together are the turn, for both instruction sets.              *)
BlockIsTurned == stage = "stored" => <<reg, at>> = StoredFrom(from[1], from[2])
=============================================================================
