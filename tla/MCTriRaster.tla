----------------------------- MODULE MCTriRaster -----------------------------
(***************************************************************************)
(* TriRaster on four by four pixels in four tiles, with quads of two       *)
(* triangles, wound either way.  Points lie on pixel centres, between them *)
(* and off the screen; the attribute has both signs.                       *)
(***************************************************************************)
EXTENDS TriRaster

Pt(a, b, v) == [x |-> a, y |-> b, q |-> v]

Points == {Pt(-3, 2, -7), Pt(2, 2, 5), Pt(6, 6, -2), Pt(10, 2, 9), Pt(18, -3, 0),
           Pt(5, 19, -11), Pt(2, 10, 3)}

Across(a, b, c, d) ==
  \/ EdgeEval(a, b, c) > 0 /\ EdgeEval(a, b, d) < 0
  \/ EdgeEval(a, b, c) < 0 /\ EdgeEval(a, b, d) > 0

Quads ==
  {<<<<a, b, c>>, <<b, a, d>>>> : a, b, c, d \in Points}

MCMeshes ==
  {m \in Quads : LET a == m[1][1] b == m[1][2] c == m[1][3] d == m[2][3]
                 IN  /\ Across(a, b, c, d)
                     /\ ~Degenerate(m[1]) /\ ~Degenerate(m[2])}

(* The same, where a triangle of at most half a pixel may own the pixel    *)
(* centre on the edge it shares.                                           *)
SliverPoints == {Pt(2, 2, 0), Pt(10, 10, 0), Pt(7, 6, 0), Pt(6, 7, 0), Pt(10, 2, 0),
                 Pt(2, 10, 0)}
SliverMeshes ==
  {m \in {<<<<a, b, c>>, <<b, a, d>>>> : a, b, c, d \in SliverPoints} :
     /\ Across(m[1][1], m[1][2], m[1][3], m[2][3])
     /\ Degenerate(m[1]) # Degenerate(m[2])}
=============================================================================
