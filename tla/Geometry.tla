------------------------------- MODULE Geometry -------------------------------
(***************************************************************************)
(* The data of the geometry front end, shared by what it promises          *)
(* (ImmediateMode) and how it works (FrontEnd): commands' operands, vertex *)
(* transformation, and the render state.                                   *)
(*                                                                         *)
(* A modelview-projection product is the pair of its factors; where a      *)
(* vertex lands under one in a viewport is a parameter, so the arithmetic  *)
(* of transform, projection and lighting is left out.  So are the signs    *)
(* that culling compares.  Of the render state, tex stands for the texture *)
(* descriptors that are validated at intern time, cull for itself, and     *)
(* tint for every other field a setter command writes (primitive,          *)
(* environment and fog colour); a vertex keeps the tint in force when it   *)
(* is loaded, as TVtx.rgba and TVtx.fog do.                                *)
(***************************************************************************)
EXTENDS Integers, Sequences, FiniteSets

CONSTANTS
  NumTiles,      \* GEOM_NUM_TILES
  Vertex,        \* source vertices
  CutPoint,      \* vertices the guard-band clipper makes
  Matrix,        \* matrices commands carry
  Identity,
  Viewport,
  WholeScreen,   \* the viewport of rdr_begin_frame
  Screen(_, _, _),  \* source vertex or cut point, product, viewport: where
  Area2(_),      \* geom_signed_area2 of a triangle
  DetSign(_),    \* geom_modelview_det_sign
  Texture, Tint,
  Cull,          \* the culling modes materials name: some of CullMode
  Disabled(_),   \* a texture with its invalid descriptors cleared
  Default        \* rstate_defaults

Tile == 0 .. NumTiles - 1
CullMode == {"none", "back", "front", "both"}
RenderState == [tex : Texture, tint : Tint, cull : Cull]
Product == Matrix \X Matrix
TVtx == [src : Vertex \cup CutPoint, mvp : Product, vp : Viewport, tint : Tint]
Triangle == TVtx \X TVtx \X TVtx

ASSUME GeometryAssumption ==
  /\ NumTiles \in Nat \ {0}
  /\ Identity \in Matrix /\ Default \in RenderState /\ WholeScreen \in Viewport
  /\ Cull \subseteq CullMode
  /\ \A v \in Vertex \cup CutPoint : \A m \in Product : \A vp \in Viewport :
       Screen(v, m, vp) \in [behind : BOOLEAN, inside : BOOLEAN, at : Tile]
  /\ \A m \in Matrix : DetSign(m) \in {-1, 0, 1}
  /\ \A x \in Texture : Disabled(x) \in Texture /\ Disabled(Disabled(x)) = Disabled(x)

Last1(s) == s[Len(s)]

Transformed(v, m, vp, state) == [src |-> v, mvp |-> m, vp |-> vp, tint |-> state.tint]
Behind(tv) == Screen(tv.src, tv.mvp, tv.vp).behind
Inside(tv) == Screen(tv.src, tv.mvp, tv.vp).inside
At(tv) == Screen(tv.src, tv.mvp, tv.vp).at

(* geom_cull_backface: a front face is clockwise on the screen, unless the *)
(* modelview mirrors; without an area a triangle has no faces.             *)
Front(area, det) == IF det < 0 THEN area > 0 ELSE area < 0

Culled(tri, modelview, cull) ==
  \/ Area2(tri) = 0
  \/ cull = "both"
  \/ cull = "back" /\ ~Front(Area2(tri), DetSign(modelview))
  \/ cull = "front" /\ Front(Area2(tri), DetSign(modelview))

(* geom_tri_tile_span, on a strip of tiles. *)
Span(tri) == {t \in Tile : \E a, b \in {At(tri[k]) : k \in 1 .. 3} : a <= t /\ t <= b}

(* material_disable_invalid_textures *)
Corrected(state) == [state EXCEPT !.tex = Disabled(@)]

(* The fan of a clipped triangle's ring.  Cut points carry what the         *)
(* triangle's own vertices, loaded together, have in common.                *)
Fan(ring, tri) ==
  LET cut(i) == [tri[1] EXCEPT !.src = ring[i]]
  IN  [i \in 1 .. Len(ring) - 2 |-> <<cut(1), cut(i + 1), cut(i + 2)>>]
=============================================================================
