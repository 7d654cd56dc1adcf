------------------------------ MODULE MCFrontEnd ------------------------------
(***************************************************************************)
(* The front end on a strip of two tiles.  Under the identity product the  *)
(* vertices a, b and c are inside the guard band, d is outside it and e is *)
(* behind the viewer; any other matrix, or the small viewport, moves a to  *)
(* the other tile.  The turned matrix mirrors.  A ring may come back on    *)
(* itself, with a piece that has no area.  The texture "bad" does not      *)
(* validate.                                                               *)
(***************************************************************************)
EXTENDS FrontEnd

MCVertex == {"a", "b", "c", "d", "e"}
MCCutPoint == {"p", "q"}
MCMatrix == {"identity", "turned"}
MCViewport == {"whole", "small"}
MCTexture == {"none", "bad"}
MCTint == {"red", "blue"}
MCCull == {"back", "front", "none"}
MCDefault == [tex |-> "none", tint |-> "red", cull |-> "back"]
MCColor == {"black", "sky"}

MCDisabled(x) == IF x = "bad" THEN "none" ELSE x

MCScreen(v, m, port) ==
  [behind |-> v = "e", inside |-> v # "d",
   at |-> IF v \in {"a", "p"} /\ m = <<"identity", "identity">> /\ port = "whole"
          THEN 0 ELSE 1]

MCDetSign(m) == IF m = "turned" THEN -1 ELSE 1

MCArea2(tri) ==
  IF Cardinality({tri[k].src : k \in 1 .. 3}) < 3 THEN 0
  ELSE -(MCDetSign(tri[1].mvp[1]) * MCDetSign(tri[1].mvp[2]))

MCWindows == {<<"a", "b", "c">>, <<"b", "d", "c", "e">>}
MCTriples == {<<1, 2, 3>>, <<2, 1, 4>>}
MCRings == {<<>>, <<"b", "p", "q">>, <<"b", "p", "q", "b">>}
=============================================================================
