------------------------------ MODULE TriRaster ------------------------------
(***************************************************************************)
(* Which pixels a triangle covers, and the values interpolated there:      *)
(* tri_setup and the loops of raster_one and raster_one_xlu (raster.cc),   *)
(* with the DDA of interp.h, over the tiles geom_tri_tile_span (geom.cc)   *)
(* puts the triangle in.  Every interpolant (1/w, texture coordinates,     *)
(* shade, fog) is one more instance of the same stepper; here there is     *)
(* one, q.  What the pixels then do to depth and colour is TileRaster.     *)
(*                                                                         *)
(* Coordinates are whole numbers of 1/Sub pixel, as in the code; the guard *)
(* band keeps every product of the code inside its width.                  *)
(***************************************************************************)
EXTENDS Integers, Sequences

CONSTANTS
  Sub,             \* 2^RASTER_SUBPX, steps per pixel
  TileW, TileH,    \* RDR_TILE_W, RDR_TILE_H
  TilesX, TilesY,  \* GEOM_TILES_X, GEOM_TILES_Y
  Meshes           \* the frames: sequences of triangles, each three vertices

Half == Sub \div 2  \* RASTER_HALF
AreaEps == Sub * Sub  \* RASTER_AREA_EPS
Tiles == TilesX * TilesY
Pixel == (0 .. TilesX * TileW - 1) \X (0 .. TilesY * TileH - 1)

Vertex == [x : Int, y : Int, q : Int]
Triangle == Vertex \X Vertex \X Vertex

(* A pixel centre lies strictly between the pixel's edges. *)
ASSUME SubAssumption == Sub \in Nat /\ Sub >= 2
ASSUME TilesAssumption ==
  /\ TileW \in Nat \ {0} /\ TileH \in Nat \ {0}
  /\ TilesX \in Nat \ {0} /\ TilesY \in Nat \ {0}
ASSUME MeshesAssumption == Meshes \subseteq Seq(Triangle)

Abs(a) == IF a < 0 THEN -a ELSE a
Least(a, b) == IF a < b THEN a ELSE b
Greatest(a, b) == IF a > b THEN a ELSE b

(* C division truncates. *)
CDiv(a, b) == IF a < 0 THEN -((-a) \div b) ELSE a \div b

-----------------------------------------------------------------------------
(* Triangles *)

(* edge_eval: twice the signed area of a, b, p. *)
EdgeEval(a, b, p) == (b.x - a.x) * (p.y - a.y) - (b.y - a.y) * (p.x - a.x)

(* Slip: horizontal edges are inclusive in neither direction. *)
OnlyLeft(a, b) == b.y - a.y < 0

EdgeIsTopLeft(a, b) == b.y - a.y < 0 \/ (b.y = a.y /\ b.x - a.x < 0)

Area2(v) == EdgeEval(v[1], v[2], v[3])

(* tri_setup: what it rejects, and the winding it makes positive. *)
Degenerate(v) == Abs(Area2(v)) <= AreaEps
Wound(v) == IF Area2(v) < 0 THEN <<v[1], v[3], v[2]>> ELSE v

Center(px) == [x |-> px[1] * Sub + Half, y |-> px[2] * Sub + Half]

Inclusive(a, b, p) ==
  EdgeEval(a, b, p) > 0 \/ (EdgeEval(a, b, p) = 0 /\ EdgeIsTopLeft(a, b))

Inside(t, p) ==
  Inclusive(t[2], t[3], p) /\ Inclusive(t[3], t[1], p) /\ Inclusive(t[1], t[2], p)

MinX(v) == Least(Least(v[1].x, v[2].x), v[3].x)
MaxX(v) == Greatest(Greatest(v[1].x, v[2].x), v[3].x)
MinY(v) == Least(Least(v[1].y, v[2].y), v[3].y)
MaxY(v) == Greatest(Greatest(v[1].y, v[2].y), v[3].y)

(* tile_index, geom_tri_tile_span *)
TileIndex(coord, tile_px, ntiles) ==
  Least(Greatest(coord \div Sub, 0) \div tile_px, ntiles - 1)

TileSpan(v) ==
  {ty * TilesX + tx :
     tx \in TileIndex(MinX(v), TileW, TilesX) .. TileIndex(MaxX(v), TileW, TilesX),
     ty \in TileIndex(MinY(v), TileH, TilesY) .. TileIndex(MaxY(v), TileH, TilesY)}

-----------------------------------------------------------------------------
(* The stepper of interp.h *)

(* Slip: the remainder keeps the sign of a. *)
TruncDivmod(a, b) == [q |-> CDiv(a, b), r |-> a - CDiv(a, b) * b]

FloorDivmod(a, b) ==
  LET q == CDiv(a, b)
      rem == a - q * b
  IN  IF rem < 0 THEN [q |-> q - 1, r |-> rem + b] ELSE [q |-> q, r |-> rem]

InterpInit(num_origin, dx, dy, area2) ==
  [row |-> FloorDivmod(num_origin, area2), cur |-> FloorDivmod(num_origin, area2),
   sx |-> FloorDivmod(dx, area2), sy |-> FloorDivmod(dy, area2), area2 |-> area2]

(* One floored step, with at most one carry. *)
Carry(v, step, area2) ==
  IF v.r + step.r >= area2 THEN [q |-> v.q + step.q + 1, r |-> v.r + step.r - area2]
  ELSE [q |-> v.q + step.q, r |-> v.r + step.r]

InterpBeginRow(p) == [p EXCEPT !.cur = p.row, !.row = Carry(p.row, p.sy, p.area2)]
InterpStepX(p) == [p EXCEPT !.cur = Carry(p.cur, p.sx, p.area2)]

InterpValue(p) == IF p.cur.q < 0 /\ p.cur.r # 0 THEN p.cur.q + 1 ELSE p.cur.q

(* edge_affine_init and interp_setup: the numerator at a pixel, and its    *)
(* steps per pixel and per scanline.                                       *)
Num(t, px) ==
    EdgeEval(t[2], t[3], Center(px)) * t[1].q
  + EdgeEval(t[3], t[1], Center(px)) * t[2].q
  + EdgeEval(t[1], t[2], Center(px)) * t[3].q

StepOfX(t) ==
    (t[2].y - t[3].y) * Sub * t[1].q + (t[3].y - t[1].y) * Sub * t[2].q
  + (t[1].y - t[2].y) * Sub * t[3].q
StepOfY(t) ==
    (t[3].x - t[2].x) * Sub * t[1].q + (t[1].x - t[3].x) * Sub * t[2].q
  + (t[2].x - t[1].x) * Sub * t[3].q

InterpSetup(t, px) ==
  InterpInit(Num(t, px) - StepOfX(t), StepOfX(t), StepOfY(t), Area2(t))

-----------------------------------------------------------------------------
VARIABLES
  mesh,   \* the triangles of the frame, in emission order
  tile,   \* the tile under way; Tiles when the frame is drawn
  job,    \* index in mesh of the next triangle
  pc,     \* "frame", "tri", or the loop of raster_one: "row" or "pixel"
  t, box, \* the triangle as set up, its pixels in the tile: [x0, x1) x [y0, y1)
  ip,     \* the stepper
  sx, sy, \* loop counters
  frags   \* per pixel: the triangles that reached it, with q there

locals == <<t, box, ip, sx, sy>>
vars == <<mesh, tile, job, pc, locals, frags>>

NoFragments == [px \in Pixel |-> <<>>]

(* The locals of raster_one while no triangle is under way. *)
NoTri == LET v == [x |-> 0, y |-> 0, q |-> 0] IN <<v, v, v>>
NoStep == [q |-> 0, r |-> 0]
NoBox == [x0 |-> 0, x1 |-> 0, y0 |-> 0, y1 |-> 0]
NoInterp == [row |-> NoStep, cur |-> NoStep, sx |-> NoStep, sy |-> NoStep, area2 |-> 1]

Init ==
  /\ mesh = <<>> /\ tile = Tiles /\ job = 1 /\ pc = "frame"
  /\ t = NoTri /\ box = NoBox /\ ip = NoInterp /\ sx = 0 /\ sy = 0
  /\ frags = NoFragments

BeginFrame ==
  /\ pc = "frame" /\ tile = Tiles /\ mesh = <<>>
  /\ mesh' \in Meshes \ {<<>>}
  /\ tile' = 0 /\ job' = 1 /\ pc' = "tri"
  /\ UNCHANGED <<locals, frags>>

EndFrame ==
  /\ pc = "tri" /\ tile = Tiles
  /\ pc' = "frame" /\ mesh' = <<>> /\ frags' = NoFragments
  /\ UNCHANGED <<tile, job, locals>>

(* The tile's origin, and the bounding box clamped to the tile. *)
OriginX == (tile % TilesX) * TileW
OriginY == (tile \div TilesX) * TileH

Clampi(v, lo, hi) == IF v < lo THEN lo ELSE Least(v, hi)

PixelBounds(v) ==
  [x0 |-> MinX(v) \div Sub, x1 |-> (MaxX(v) + Sub - 1) \div Sub,
   y0 |-> MinY(v) \div Sub, y1 |-> (MaxY(v) + Sub - 1) \div Sub]

ToTileX(x) == Clampi(x, OriginX, OriginX + TileW)
ToTileY(y) == Clampi(y, OriginY, OriginY + TileH)

(* Slip: the left bound is clamped to the screen, not to the tile. *)
BoxPastTile(v) ==
  LET b == PixelBounds(v)
  IN  [x0 |-> Clampi(b.x0, 0, OriginX + TileW), x1 |-> ToTileX(b.x1),
       y0 |-> ToTileY(b.y0), y1 |-> ToTileY(b.y1)]

Box(v) ==
  LET b == PixelBounds(v)
  IN  [x0 |-> ToTileX(b.x0), x1 |-> ToTileX(b.x1),
       y0 |-> ToTileY(b.y0), y1 |-> ToTileY(b.y1)]

InBin == tile \in TileSpan(mesh[job])

(* Triangles that are not binned here, and those tri_setup rejects. *)
Skip ==
  /\ pc = "tri" /\ tile < Tiles /\ job <= Len(mesh)
  /\ ~InBin \/ Degenerate(mesh[job])
  /\ job' = job + 1
  /\ UNCHANGED <<mesh, tile, pc, locals, frags>>

TriSetup ==
  /\ pc = "tri" /\ tile < Tiles /\ job <= Len(mesh)
  /\ InBin /\ ~Degenerate(mesh[job])
  /\ t' = Wound(mesh[job])
  /\ box' = Box(t')
  /\ ip' = InterpSetup(t', <<box'.x0, box'.y0>>)
  /\ sy' = box'.y0
  /\ pc' = "row"
  /\ UNCHANGED <<mesh, tile, job, sx, frags>>

BeginRow ==
  /\ pc = "row" /\ sy < box.y1
  /\ ip' = InterpBeginRow(ip)
  /\ sx' = box.x0
  /\ pc' = "pixel"
  /\ UNCHANGED <<mesh, tile, job, t, box, sy, frags>>

(* Slip: the stepper only moves inside the triangle. *)
StepInside ==
  /\ pc = "pixel" /\ sx < box.x1
  /\ \/ /\ Inside(t, Center(<<sx, sy>>))
        /\ ip' = InterpStepX(ip)
        /\ frags' = [frags EXCEPT ![<<sx, sy>>] =
                       Append(@, [tri |-> job, value |-> InterpValue(ip')])]
     \/ ~Inside(t, Center(<<sx, sy>>)) /\ UNCHANGED <<ip, frags>>
  /\ sx' = sx + 1
  /\ UNCHANGED <<mesh, tile, job, pc, t, box, sy>>

(* The stepper moves at every pixel; a fragment only comes of those inside. *)
Step ==
  /\ pc = "pixel" /\ sx < box.x1
  /\ ip' = InterpStepX(ip)
  /\ \/ /\ Inside(t, Center(<<sx, sy>>))
        /\ frags' = [frags EXCEPT ![<<sx, sy>>] =
                       Append(@, [tri |-> job, value |-> InterpValue(ip')])]
     \/ ~Inside(t, Center(<<sx, sy>>)) /\ UNCHANGED frags
  /\ sx' = sx + 1
  /\ UNCHANGED <<mesh, tile, job, pc, t, box, sy>>

EndRow ==
  /\ pc = "pixel" /\ sx >= box.x1
  /\ sy' = sy + 1
  /\ pc' = "row"
  /\ UNCHANGED <<mesh, tile, job, t, box, ip, sx, frags>>

EndTri ==
  /\ pc = "row" /\ sy >= box.y1
  /\ job' = job + 1
  /\ pc' = "tri"
  /\ t' = NoTri /\ box' = NoBox /\ ip' = NoInterp /\ sx' = 0 /\ sy' = 0
  /\ UNCHANGED <<mesh, tile, frags>>

NextTile ==
  /\ pc = "tri" /\ tile < Tiles /\ job > Len(mesh)
  /\ tile' = tile + 1 /\ job' = 1
  /\ UNCHANGED <<mesh, pc, locals, frags>>

Next == \/ BeginFrame \/ Skip \/ TriSetup \/ BeginRow \/ Step \/ EndRow \/ EndTri
        \/ NextTile \/ EndFrame

Spec == Init /\ [][Next]_vars

-----------------------------------------------------------------------------
(* Properties *)

Divmod == [q : Int, r : Nat]
Fragment == [tri : Nat \ {0}, value : Int]

(* A remainder is in [0, area2), so that one carry a step is enough. *)
TypeOK ==
  /\ mesh \in Meshes \cup {<<>>}
  /\ tile \in 0 .. Tiles /\ job \in 1 .. Len(mesh) + 1
  /\ pc \in {"frame", "tri", "row", "pixel"}
  /\ t \in Triangle
  /\ box \in [x0 : Nat, x1 : Nat, y0 : Nat, y1 : Nat]
  /\ ip \in [row : Divmod, cur : Divmod, sx : Divmod, sy : Divmod, area2 : Nat \ {0}]
  /\ \A d \in {ip.row, ip.cur, ip.sx, ip.sy} : d.r < ip.area2
  /\ sx \in Nat /\ sy \in Nat
  /\ frags \in [Pixel -> Seq(Fragment)]

Value(v, px) == CDiv(Num(Wound(v), px), Area2(Wound(v)))

(* interp.h: the stepped value is the truncated quotient, bit for bit, at  *)
(* every pixel that is drawn, whatever the tile, the row or the sign; and  *)
(* a pixel is drawn only by a triangle it is inside of.                    *)
FragmentsExact ==
  \A px \in Pixel : \A i \in DOMAIN frags[px] :
    LET f == frags[px][i]
    IN  /\ f.tri \in DOMAIN mesh
        /\ ~Degenerate(mesh[f.tri])
        /\ Inside(Wound(mesh[f.tri]), Center(px))
        /\ f.value = Value(mesh[f.tri], px)

(* Drawing by tiles, each from its own bin, is drawing the mesh in order   *)
(* over the whole screen.                                                  *)
Covering(px) ==
  {k \in DOMAIN mesh : ~Degenerate(mesh[k]) /\ Inside(Wound(mesh[k]), Center(px))}

Drawn(px) == {frags[px][i].tri : i \in DOMAIN frags[px]}
InOrder(px) ==
  \A i, j \in DOMAIN frags[px] : i < j => frags[px][i].tri < frags[px][j].tri

TiledIsWhole ==
  tile = Tiles =>
    \A px \in Pixel :
      /\ Drawn(px) = Covering(px)
      /\ InOrder(px)

StrictlyIn(v, p) ==
  LET s == {EdgeEval(v[1], v[2], p), EdgeEval(v[2], v[3], p), EdgeEval(v[3], v[1], p)}
  IN  (\A w \in s : w > 0) \/ (\A w \in s : w < 0)

StrictlyBetween(a, b, p) ==
  /\ EdgeEval(a, b, p) = 0
  /\ (p.x - a.x) * (p.x - b.x) + (p.y - a.y) * (p.y - b.y) < 0

Shared(a, b) ==
  \E k, l \in DOMAIN mesh :
    k # l /\ {a, b} \subseteq {mesh[k][i] : i \in 1 .. 3} \cap {mesh[l][i] : i \in 1 .. 3}

OnSharedEdge(p) ==
  \E k \in DOMAIN mesh : \E i, j \in 1 .. 3 :
    i # j /\ Shared(mesh[k][i], mesh[k][j]) /\ StrictlyBetween(mesh[k][i], mesh[k][j], p)

(* raster.h: a pixel centre on an edge of two triangles belongs to exactly *)
(* one of them, no double cover and no gap.                                *)
SharedEdgeOnce ==
  tile = Tiles =>
    \A px \in Pixel : OnSharedEdge(Center(px)) => Len(frags[px]) = 1

(* Said of a mesh without overlaps, and without the fill rule: a centre    *)
(* strictly inside a triangle, or on an edge of two, is drawn once.        *)
CoveredOnce ==
  /\ SharedEdgeOnce
  /\ tile = Tiles =>
       \A px \in Pixel :
         (\E k \in DOMAIN mesh : StrictlyIn(mesh[k], Center(px))) => Len(frags[px]) = 1

-----------------------------------------------------------------------------
(* The inductive invariant: the tile a triangle is drawn in, and where the  *)
(* stepper stands, quotient and remainder taken together, before a row and  *)
(* before a pixel.                                                          *)

At(d, area2) == d.q * area2 + d.r

Drawing ==
  /\ tile = Tiles => job = 1
  /\ pc \in {"row", "pixel"} =>
       /\ tile < Tiles
       /\ job \in DOMAIN mesh /\ ~Degenerate(mesh[job]) /\ t = Wound(mesh[job])

Stepping ==
  /\ pc \in {"row", "pixel"} =>
       /\ ip.area2 = Area2(t)
       /\ At(ip.sx, ip.area2) = StepOfX(t)
       /\ At(ip.sy, ip.area2) = StepOfY(t)
  /\ pc = "row" => At(ip.row, ip.area2) = Num(t, <<box.x0 - 1, sy>>)
  /\ pc = "pixel" =>
       /\ At(ip.row, ip.area2) = Num(t, <<box.x0 - 1, sy + 1>>)
       /\ At(ip.cur, ip.area2) = Num(t, <<sx - 1, sy>>)

IInv == TypeOK /\ Drawing /\ Stepping /\ FragmentsExact

(* For TiledIsWhole: where the loops stand, and that what they have passed  *)
(* is drawn, in order, and nothing else.                                    *)
TileOf(px) == (px[2] \div TileH) * TilesX + px[1] \div TileW

Placed ==
  /\ pc = "frame" => tile = Tiles
  /\ pc \in {"row", "pixel"} => InBin /\ box = Box(t) /\ box.y0 <= sy
  /\ pc = "pixel" => sy < box.y1 /\ box.x0 <= sx

Scanned(px) ==
  /\ pc \in {"row", "pixel"}
  /\ px[2] < sy \/ (pc = "pixel" /\ px[2] = sy /\ px[1] < sx)

Past(px, k) ==
  \/ TileOf(px) < tile
  \/ TileOf(px) = tile /\ (k < job \/ (k = job /\ Scanned(px)))

Progress ==
  \A px \in Pixel : Drawn(px) = {k \in Covering(px) : Past(px, k)} /\ InOrder(px)

WInv == IInv /\ Placed /\ Progress
=============================================================================
