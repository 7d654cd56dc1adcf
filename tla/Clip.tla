--------------------------------- MODULE Clip ---------------------------------
(***************************************************************************)
(* clip.cc: a triangle in screen space is cut at the four edges of the     *)
(* guard band, one after the other.  A vertex is its position and one      *)
(* attribute, iw, for all those that are interpolated like it.             *)
(***************************************************************************)
EXTENDS Fixed, SequencesExt

CONSTANTS
  Guard,       \* clip_guard_rect: minx, maxx, miny, maxy
  ClipMaxOut   \* CLIP_MAX_OUT

ASSUME GuardAssumption ==
  /\ Guard \in [minx : Int, maxx : Int, miny : Int, maxy : Int]
  /\ Guard.minx < Guard.maxx /\ Guard.miny < Guard.maxy
  /\ ClipMaxOut \in Nat \ {0}

Edges == 0 .. 3  \* left, right, top, bottom

EdgeDist(v, edge) ==
  CASE edge = 0 -> v.x - Guard.minx
    [] edge = 1 -> Guard.maxx - v.x
    [] edge = 2 -> v.y - Guard.miny
    [] edge = 3 -> Guard.maxy - v.y

(* The half that rounds is added or taken off by the signs of both; for a  *)
(* negative den that is the wrong way (CutIsNearest).                      *)
Lerp(a, b, num, den) ==
  LET prod == (b - a) * num
      half == Abs(den) \div 2
  IN  IF den = 0 THEN a
      ELSE a + TruncDiv(IF (prod >= 0) = (den > 0) THEN prod + half ELSE prod - half, den)

Lerped(p, c, edge) ==
  LET dp == EdgeDist(p, edge)
      dc == EdgeDist(c, edge)
      at(a, b) == Lerp(a, b, dp, dp - dc)
  IN  [x |-> at(p.x, c.x), y |-> at(p.y, c.y), iw |-> at(p.iw, c.iw)]

Snapped(v, edge) ==
  CASE edge = 0 -> [v EXCEPT !.x = Guard.minx]
    [] edge = 1 -> [v EXCEPT !.x = Guard.maxx]
    [] edge = 2 -> [v EXCEPT !.y = Guard.miny]
    [] edge = 3 -> [v EXCEPT !.y = Guard.maxy]

(* Slip: the cut is left where it was rounded to. *)
CutUnsnapped(p, c, edge) == Lerped(p, c, edge)

Cut(p, c, edge) == Snapped(Lerped(p, c, edge), edge)

Kept(v, edge) == EdgeDist(v, edge) >= 0

(* What is beyond the capacity of dst is dropped. *)
ClipAgainstEdge(ring, edge) ==
  LET prv(i) == ring[IF i = 1 THEN Len(ring) ELSE i - 1]
      crossed(i) == Kept(ring[i], edge) # Kept(prv(i), edge)
      out == FlattenSeq([i \in DOMAIN ring |->
               (IF crossed(i) THEN <<Cut(prv(i), ring[i], edge)>> ELSE <<>>)
               \o (IF Kept(ring[i], edge) THEN <<ring[i]>> ELSE <<>>)])
  IN  SubSeq(out, 1, IF Len(out) < ClipMaxOut THEN Len(out) ELSE ClipMaxOut)
=============================================================================
