-------------------------------- MODULE Texture --------------------------------
(***************************************************************************)
(* tex.cc: which texel a coordinate fetches, what a texture has to be for  *)
(* that, and the three-point filter.  A format is what tells addresses     *)
(* apart: bits per texel and whether they are palette indices.             *)
(***************************************************************************)
EXTENDS Powers

CONSTANT CoordBits  \* bits of a texel coordinate, for &

ASSUME CoordBitsAssumption == CoordBits \in Nat \ {0}

Format == {"rgba565", "rgba4444", "rgba5551", "i8", "i4", "ia8", "ia4", "ci8", "ci4"}
WrapMode == {"repeat", "mirror", "clamp"}
Indexed == {"ci8", "ci4"}
FourBit == {"i4", "ia4", "ci4"}

(* & of a coordinate, also a negative one, with a mask. *)
And(n, mask) == LowAnd[CoordBits][n][mask]

IsPow2(dim) == dim # 0 /\ And(dim, dim - 1) = 0
Log2Pow2(dim) == CHOOSE bits \in 0 .. CoordBits :
                   Pow2[bits] >= dim /\ \A b \in 0 .. bits - 1 : Pow2[b] < dim

WrapCoord(coord, dim, mode) ==
  CASE mode = "clamp" -> IF coord < 0 THEN 0 ELSE IF coord > dim - 1 THEN dim - 1 ELSE coord
    [] mode = "repeat" -> And(coord, dim - 1)
    [] mode = "mirror" ->
         LET phase == And(coord, 2 * dim - 1)
             idx == And(phase, dim - 1)
         IN  IF (phase \div Pow2[Log2Pow2(dim)]) % 2 = 1 THEN dim - 1 - idx ELSE idx

(* tex_validate: what is not refused. *)
Masks(mode) == mode \in {"repeat", "mirror"}

(* Slip: only repeating textures need a power of two. *)
SampleableMirrored(t) ==
  /\ t.wrap_s = "repeat" => IsPow2(t.w)
  /\ t.wrap_t = "repeat" => IsPow2(t.h)
  /\ t.format \in Format
  /\ t.format \in Indexed => t.filter # "three_point" /\ t.tlut

Sampleable(t) ==
  /\ Masks(t.wrap_s) => IsPow2(t.w)
  /\ Masks(t.wrap_t) => IsPow2(t.h)
  /\ t.format \in Format
  /\ t.format \in Indexed => t.filter # "three_point" /\ t.tlut

(* decode_texel_rgba: the position of the texel that is read, in texels. *)
TexelRead(t, su, sv) ==
  LET lin == sv * t.w + su
  IN  IF t.format \in FourBit THEN 2 * (lin \div 2) + (su % 2) ELSE lin

PointTexel(t, s, v) == TexelRead(t, WrapCoord(s, t.w, t.wrap_s), WrapCoord(v, t.h, t.wrap_t))

(* three_point_rgba on one channel of the taps, with fractions of 1/32. *)
ThreePoint(t0, t1, t2, t3, sfrac, tfrac) ==
  IF sfrac + tfrac >= 32
  THEN t3 + (((32 - sfrac) * (t2 - t3) + (32 - tfrac) * (t1 - t3) + 16) \div 32)
  ELSE t0 + ((sfrac * (t1 - t0) + tfrac * (t2 - t0) + 16) \div 32)
=============================================================================
