----------------------------- MODULE TileRaster -----------------------------
(***************************************************************************)
(* What raster_tile does to one screen tile, stage by stage: the operators *)
(* both cores of TileDispatch run and the serial reference composes.       *)
(*                                                                         *)
(* The data are abstracted to what the stages tell apart.  A tile is one   *)
(* row of TileW pixels (the only neighbours a pixel has are horizontal,    *)
(* aa.cc:24).  A pixel is its 5-bit red channel; packing to and unpacking  *)
(* from RGB565 is modelled by what it does to that channel.  A triangle is *)
(* the set of pixels its edge test covers, with one packed depth, one      *)
(* colour, one alpha and one coverage byte for all of them: setup,         *)
(* interpolation, texturing and the combiner only produce those values.    *)
(***************************************************************************)
EXTENDS Blend, Sequences, FiniteSets, SequencesExt

CONSTANTS
  TileW,   \* RDR_TILE_W: pixels in a row of a tile
  XluCap,  \* RASTER_XLU_TILE_CAP: translucent triangles a tile can gather
  XluSat,  \* RASTER_XLU_SAT: accumulated alpha at which fragments are skipped
  AaOn     \* aa_enabled(), fixed while frames are drawn

ASSUME TileWAssumption == TileW \in Nat \ {0}
ASSUME XluCapAssumption == XluCap \in Nat
ASSUME XluSatAssumption == XluSat \in 0 .. 256
ASSUME AaOnAssumption == AaOn \in BOOLEAN

Px == 0 .. TileW - 1
CovFull == 255
ZCleared == [p \in Px |-> 0]
CovCleared == [p \in Px |-> CovFull]
NoCov == CovCleared

TriRef == [zmode : {"OPAQUE", "DECAL", "XLU"}, textured : BOOLEAN,
           cover : SUBSET Px, keep : SUBSET Px, z : 0 .. 65535, key : Int,
           color : 0 .. 31, alpha : 0 .. 255, cov : 0 .. 255]

-----------------------------------------------------------------------------
(* Sweep 1: opaque and decal triangles, in bin order. *)

(* The fragments of a triangle that reach the depth test.  The flat path   *)
(* has no alpha test; the textured path discards first.                    *)
Fragments(ref) == IF ref.textured THEN ref.cover \cap ref.keep ELSE ref.cover

(* A surface is what the opaque sweep writes: the tile's pixels, the       *)
(* worker's depth scratch and its coverage scratch (NoCov when coverage is *)
(* off, where the code passes a null pointer and skips the write).  A      *)
(* fragment wins when it is at least as close as what is stored.           *)
RasterOne(s, ref) ==
  LET wins == {p \in Fragments(ref) : ref.z >= s.z[p]}
  IN  [fb  |-> [p \in Px |-> IF p \in wins THEN ref.color ELSE s.fb[p]],
       z   |-> [p \in Px |-> IF p \in wins THEN ref.z ELSE s.z[p]],
       cov |-> [p \in Px |-> IF p \in wins THEN ref.cov ELSE s.cov[p]]]

IsXlu(ref) == ref.zmode = "XLU"

OpaqueSweep(bin, s) ==
  FoldLeft(RasterOne, s, SelectSeq(bin, LAMBDA r : ~IsXlu(r)))

(* The bin positions of the translucent triangles, in bin order, as many   *)
(* as the sort scratch holds; the rest are dropped and counted.            *)
XluIndices(bin) == {i \in DOMAIN bin : IsXlu(bin[i])}

XluGather(bin) ==
  LET all == SetToSortSeq(XluIndices(bin), <)
  IN  SubSeq(all, 1, IF Len(all) < XluCap THEN Len(all) ELSE XluCap)

XluDrops(bin) ==
  LET n == Cardinality(XluIndices(bin))
  IN  IF n > XluCap THEN n - XluCap ELSE 0

-----------------------------------------------------------------------------
(* Sweep 2: translucent triangles, nearest first, under one another. *)

(* One pass of the insertion sort: cur moves left past every entry whose   *)
(* key is strictly smaller and stops at the first that is not.             *)
InsertByKey(bin, idx, cur) ==
  LET stops == {j \in DOMAIN idx : bin[idx[j]].key >= bin[cur].key}
      at    == 1 + (IF stops = {} THEN 0
                    ELSE CHOOSE j \in stops : \A k \in stops : k <= j)
  IN  InsertAt(idx, at, cur)

XluSortStable(bin, idx) ==
  FoldLeft(LAMBDA sorted, cur : InsertByKey(bin, sorted, cur), <<>>, idx)

AccClear == [p \in Px |-> [c |-> 0, a |-> 0]]

(* The depth test reads the opaque depth and never writes it; an untextured *)
(* translucent triangle draws nothing.                                      *)
RasterOneXlu(z, acc, ref) ==
  LET lands == {p \in Fragments(ref) :
                  ref.textured /\ ref.z >= z[p] /\ acc[p].a < XluSat}
  IN  [p \in Px |-> IF p \in lands
                      THEN PremulAccumulate(5, acc[p], ref.color, ref.alpha)
                      ELSE acc[p]]

XluSweep(bin, idx, z, acc) ==
  FoldLeft(LAMBDA a, i : RasterOneXlu(z, a, bin[i]), acc,
           XluSortStable(bin, idx))

(* The composite pass writes each touched pixel once, and marks it interior *)
(* so that the coverage resolve leaves it alone.                            *)
Touched(acc) == {p \in Px : acc[p].a # 0}

CompositeFb(fb, acc) ==
  [p \in Px |-> IF p \in Touched(acc) THEN PremulResolve(5, acc[p], fb[p]) ELSE fb[p]]

CompositeCov(cov, acc) ==
  [p \in Px |-> IF p \in Touched(acc) THEN CovFull ELSE cov[p]]

-----------------------------------------------------------------------------
(* aa_resolve_tile: each edge pixel moves toward the middle of its in-tile *)
(* horizontal neighbours' ORIGINAL values.  \div floors, as >> does.       *)
AaResolve(fb, cov) ==
  LET orig == [p \in Px |-> Unpack(5, fb[p])]
      taps(p)  == {orig[n] : n \in {p - 1, p, p + 1} \cap Px}
      lo(p)    == CHOOSE v \in taps(p) : \A w \in taps(p) : v <= w
      hi(p)    == CHOOSE v \in taps(p) : \A w \in taps(p) : v >= w
      blend(p) == LET d == (lo(p) + hi(p)) - (2 * orig[p])
                      v == orig[p] + ((d * (CovFull - cov[p])) \div 256)
                  IN  IF v < 0 THEN 0 ELSE IF v > 255 THEN 255 ELSE v
  IN  [p \in Px |-> IF cov[p] >= CovFull THEN fb[p] ELSE Pack(5, blend(p))]

-----------------------------------------------------------------------------
(* The whole of raster_tile on one thread: clear depth and coverage, sweep *)
(* the opaque triangles, accumulate and composite the translucent ones if  *)
(* there are any, resolve coverage if it is on.                            *)
AfterOpaque(bin, fb) ==
  OpaqueSweep(bin, [fb |-> fb, z |-> ZCleared,
                    cov |-> IF AaOn THEN CovCleared ELSE NoCov])

AfterXlu(bin, fb) ==
  XluSweep(bin, XluGather(bin), AfterOpaque(bin, fb).z, AccClear)

SerialTile(bin, fb) ==
  LET s  == AfterOpaque(bin, fb)
      a  == AfterXlu(bin, fb)
      c  == IF XluGather(bin) = <<>> THEN s.fb ELSE CompositeFb(s.fb, a)
      cv == IF XluGather(bin) = <<>> THEN s.cov ELSE CompositeCov(s.cov, a)
  IN  IF AaOn THEN AaResolve(c, cv) ELSE c
=============================================================================
