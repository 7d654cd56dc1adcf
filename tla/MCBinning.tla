------------------------------- MODULE MCBinning -------------------------------
(***************************************************************************)
(* Binning on a strip of three tiles.  The triangles cover one tile, two   *)
(* or all of them, and two of them cover the same tiles, so that an order  *)
(* turned round inside a bin shows.                                        *)
(***************************************************************************)
EXTENDS Binning

Covers(lo, hi, n) == [from |-> lo, to |-> hi, id |-> n]

MCSpanOf(r) == r.from .. r.to
MCRef == {Covers(0, 1, 1), Covers(0, 1, 2), Covers(1, 2, 1), Covers(0, 2, 1),
          Covers(2, 2, 1)}
=============================================================================
