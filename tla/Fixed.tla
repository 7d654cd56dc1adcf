-------------------------------- MODULE Fixed --------------------------------
(***************************************************************************)
(* Fixed-point arithmetic (fixed.cc) and the projection, fog and depth     *)
(* test of geom.cc that are made of it.  A word has 2 * Frac bits, Frac of *)
(* them behind the point; conversions to it wrap.                          *)
(***************************************************************************)
EXTENDS Powers

CONSTANTS
  Frac,    \* FX_FRAC_BITS
  SubPx    \* bits behind the point of fx12_4

ASSUME FracAssumption == Frac \in Nat \ {0} /\ SubPx \in 0 .. Frac - 1

FxOne == Pow2[Frac]
FxHalf == FxOne \div 2
WordMax == Pow2[2 * Frac - 1] - 1
WordMin == -Pow2[2 * Frac - 1]

Signed(n, bits) == ((n + Pow2[bits - 1]) % Pow2[bits]) - Pow2[bits - 1]
Wrap(n) == Signed(n, 2 * Frac)

Abs(n) == IF n < 0 THEN -n ELSE n

(* / of C *)
TruncDiv(n, d) ==
  LET q == Abs(n) \div Abs(d) IN IF (n < 0) = (d < 0) THEN q ELSE -q

(* The product from the halves of the magnitudes. *)
SMul64(a, b) ==
  LET lo(n) == Abs(n) % FxOne
      hi(n) == Abs(n) \div FxOne
      mid == lo(a) * hi(b) + hi(a) * lo(b)
      mag == lo(a) * lo(b) + mid * FxOne + hi(a) * hi(b) * FxOne * FxOne
  IN  IF (a < 0) = (b < 0) THEN mag ELSE -mag

FxMul(a, b) ==
  LET p == SMul64(a, b)
      q == (Abs(p) + FxHalf) \div FxOne
  IN  Wrap(IF p >= 0 THEN q ELSE -q)

(* Slip: the dividend is not widened. *)
FxDivNarrow(a, b) == IF b = 0 THEN 0 ELSE TruncDiv(Wrap(a * FxOne), b)

FxDiv(a, b) ==
  IF b = 0 THEN (IF a > 0 THEN WordMax ELSE IF a < 0 THEN WordMin ELSE 0)
  ELSE Wrap(TruncDiv(a * FxOne, b))

FxFromInt(n) == Wrap(n * FxOne)
FxToInt(a) == TruncDiv(a, FxOne)

-----------------------------------------------------------------------------
(* geom_project on one axis: the half extent and the centre of the viewport *)
(* in pixels, and the shift to Q12.4 with its rounding.                     *)
Half(extent) == FxFromInt(extent) \div 2
Center(origin, extent) == Wrap(FxFromInt(origin) + Half(extent))
ToSubPx(s) == (s + Pow2[Frac - SubPx - 1]) \div Pow2[Frac - SubPx]

Across(clip, inv_w, origin, extent) ==
  ToSubPx(Center(origin, extent) + FxMul(FxMul(clip, inv_w), Half(extent)))
Down(clip, inv_w, origin, extent) ==
  ToSubPx(Center(origin, extent) - FxMul(FxMul(clip, inv_w), Half(extent)))

(* A vertex as CMD_LOAD_VERTS pools it; 1/w of -1 is one behind the viewer. *)
Behind == -1

InvW(clip) == IF clip.w <= 0 THEN Behind ELSE FxDiv(FxOne, clip.w)

Projected(clip, vp) ==
  LET inv_w == FxDiv(FxOne, clip.w)
  IN  [inv_w |-> inv_w,
       x |-> Across(clip.x, inv_w, vp.x, vp.w),
       y |-> Down(clip.y, inv_w, vp.y, vp.h),
       u_iw |-> Signed(FxToInt(FxMul(FxFromInt(clip.u), inv_w)), Frac)]

(* CMD_BRANCH_LESS_Z *)
LessZ(clip, z) == clip.w > 0 /\ FxDiv(FxOne, clip.w) > z

(* geom_fog_factor, geom_fog_u8 *)
FogFactor(near, far, z) ==
  IF z <= near THEN 0
  ELSE IF z >= far \/ far - near <= 0 THEN FxOne
  ELSE FxDiv(z - near, far - near)

FogU8(near, far, z) == (FogFactor(near, far, z) * 255) \div FxOne
=============================================================================
