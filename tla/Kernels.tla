------------------------------- MODULE Kernels -------------------------------
(***************************************************************************)
(* The leaf functions of the renderer on inputs like those the host's unit *)
(* tests give them, but all of a kind: projection and fog, guard-band      *)
(* clip, texel addresses and filter, blending, blits.  One task runs at a  *)
(* time, those with a loop a turn a step.                                  *)
(***************************************************************************)
EXTENDS Clip, Texture, Blend, Blit

CONSTANTS
  ClipPoint,      \* clip-space points: x, y, w and a texture coordinate u
  Viewport,       \* the viewport they are projected to
  Corner,         \* vertices triangles are made of
  TestTexture,    \* textures, sampleable or not
  Coord,          \* texel coordinates
  TapValue,       \* channel values of texels
  Channel,        \* packed values of a colour channel, by its bits
  Alpha,          \* fragment alphas
  MaxFragments,   \* bound: fragments over one pixel
  SpriteSize,     \* widths and heights of sprites and rectangles
  Position,       \* where they are drawn
  SkyRect         \* panorama and cloud rectangles

(* Packed channels and alphas have the range of their bits; the extents of  *)
(* a viewport are not negative and in 16 bits, so that they fit a word; a  *)
(* texture has texels (tex.h:49) and 16 bits for its size, half of what a  *)
(* coordinate has; a sky rectangle is what blit2d.h declares, of a size    *)
(* that blit2d.cc does not refuse.                                         *)
ASSUME KernelAssumption ==
  /\ Channel[5] \subseteq 0 .. 31 /\ Channel[6] \subseteq 0 .. 63
  /\ Alpha \subseteq 0 .. 255
  /\ Corner \subseteq [x : Int, y : Int, iw : Int]
  /\ ClipPoint \subseteq [x : Int, y : Int, w : Int, u : Int]
  /\ Viewport \in [x : Int, y : Int, w : 0 .. FxHalf - 1, h : 0 .. FxHalf - 1]
  /\ \A t \in TestTexture : /\ {t.w, t.h} \subseteq 1 .. Pow2[CoordBits - 1]
                            /\ {t.wrap_s, t.wrap_t} \subseteq WrapMode
  /\ Coord \subseteq Int /\ TapValue \subseteq Int
  /\ Position \subseteq Int /\ SpriteSize \subseteq Nat \ {0}
  /\ SkyRect \subseteq [x : Int, y : Int, w : Nat \ {0}, h : Nat \ {0},
                        src_w : Nat \ {0}, src_h : Nat \ {0},
                        scroll : Nat, elevation : Int, horizon : Int]

VARIABLES
  given,   \* the function under test and what it was given; empty between two
  ring,    \* clip: the polygon so far, and the edges it has been cut at
  edge,
  pixel    \* blend: the accumulator

kernelVars == <<given, ring, edge, pixel>>

Clear == [c |-> 0, a |-> 0]

KernelInit ==
  given = <<>> /\ ring = <<>> /\ edge = 0 /\ pixel = Clear

Idle == given = <<>>
Task(name) == given # <<>> /\ given[1] = name

Start(test) == given' = test /\ UNCHANGED <<edge, pixel>>

StartProject ==
  /\ Idle
  /\ \E a, b \in ClipPoint : Start(<<"project", a, b>>)
  /\ UNCHANGED ring

(* clip_poly_rect: the four passes, and none of an empty polygon. *)
StartClip ==
  /\ Idle
  /\ \E a, b, c \in Corner : Start(<<"clip", a, b, c>>) /\ ring' = <<a, b, c>>

ClipPass ==
  /\ Task("clip") /\ edge < 4 /\ ring # <<>>
  /\ ring' = ClipAgainstEdge(ring, edge) /\ edge' = edge + 1
  /\ UNCHANGED <<given, pixel>>

StartSample ==
  /\ Idle
  /\ \E t \in TestTexture : Sampleable(t) /\ \E s, v \in Coord :
       Start(<<"sample", t, s, v>>)
  /\ UNCHANGED ring

StartFilter ==
  /\ Idle
  /\ \E a, b, c, d \in TapValue : Start(<<"filter", a, b, c, d>>)
  /\ UNCHANGED ring

StartBlend ==
  /\ Idle
  /\ \E bits \in {5, 6} : \E terrain \in Channel[bits] :
       Start(<<"blend", bits, terrain, <<>>>>)
  /\ UNCHANGED ring

(* A fragment of the front-to-back sweep. *)
Fragment ==
  /\ Task("blend") /\ Len(given[4]) < MaxFragments
  /\ \E color \in Channel[given[2]] : \E alpha \in Alpha :
       /\ given' = [given EXCEPT ![4] = Append(@, color)]
       /\ pixel' = PremulAccumulate(given[2], pixel, color, alpha)
  /\ UNCHANGED <<ring, edge>>

StartSprite ==
  /\ Idle
  /\ \E x, y \in Position : \E w, h \in SpriteSize : \E hflip, vflip \in BOOLEAN :
       Start(<<"sprite", x, y, [w |-> w, h |-> h, mask |-> {0, w * h - 1}], hflip, vflip>>)
  /\ UNCHANGED ring

StartSky ==
  /\ Idle
  /\ \E r \in SkyRect : Start(<<"sky", r>>)
  /\ UNCHANGED ring

Finish ==
  /\ ~Idle /\ (Task("clip") => edge = 4 \/ ring = <<>>)
  /\ given' = <<>> /\ ring' = <<>> /\ edge' = 0 /\ pixel' = Clear

KernelNext ==
  \/ StartProject \/ StartClip \/ ClipPass \/ StartSample \/ StartFilter
  \/ StartBlend \/ Fragment \/ StartSprite \/ StartSky \/ Finish

-----------------------------------------------------------------------------
(* Properties *)

(* The products that geom_project forms fit a word. *)
Fits(clip) ==
  LET inv == FxDiv(FxOne, clip.w)
      fits(a, b) == (Abs(a * b) + FxHalf) \div FxOne <= WordMax \div 4
      scaled(c, extent) == fits(c, inv) /\ fits(FxMul(c, inv), Half(extent))
  IN  scaled(clip.x, Viewport.w) /\ scaled(clip.y, Viewport.h)

(* geom.cc:793: a negative 1/w is what a vertex behind the viewer gets,     *)
(* and "no valid vert ever has inv_w<0".  One in front has it, at two units *)
(* of the last place, where the quotient is one more than a word holds; no  *)
(* other has.  Of two vertices farther than that the nearer has the greater *)
(* 1/w and is the one BRANCH_LESS_Z takes, whatever the threshold, and the  *)
(* farther has no less fog; at one depth they keep their order on the       *)
(* screen, left to right and bottom to top.                                 *)
ProjectionKeepsOrder ==
  Task("project") =>
    LET a == given[2]
        b == given[3]
        pa == Projected(a, Viewport)
        pb == Projected(b, Viewport)
    IN  /\ a.w > 0 => (InvW(a) < 0 <=> a.w = 2)
        /\ a.w > 2 /\ b.w > 2 =>
             /\ InvW(a) = pa.inv_w
             /\ a.w <= b.w =>
                  /\ pa.inv_w >= pb.inv_w
                  /\ \A z \in {pa.inv_w - 1, pa.inv_w, pb.inv_w} :
                       LessZ(b, z) => LessZ(a, z)
                  /\ FogU8(FxHalf, 3 * FxOne, a.w) <= FogU8(FxHalf, 3 * FxOne, b.w)
             /\ a.w = b.w /\ Fits(a) /\ Fits(b) =>
                  /\ a.x <= b.x => pa.x <= pb.x
                  /\ a.y <= b.y => pa.y >= pb.y
             /\ a.x = 0 => pa.x = ToSubPx(Center(Viewport.x, Viewport.w))

Least(S) == CHOOSE n \in S : \A k \in S : n <= k
Greatest(S) == CHOOSE n \in S : \A k \in S : n >= k

(* clip.h:29-39: whatever the rounding of the cuts, a clipped triangle lies *)
(* inside every edge it has been cut at, is a ring of no more than three   *)
(* vertices and one for each edge, so that the buffers never overflow, or  *)
(* nothing; its attributes are between the triangle's; and a triangle that *)
(* is inside is left as it is.                                             *)
ClippedRing ==
  Task("clip") =>
    /\ \A i \in DOMAIN ring : \A e \in Edges : e < edge => Kept(ring[i], e)
    /\ Len(ring) <= 3 + edge
    /\ ring = <<>> \/ Len(ring) >= 3
    /\ \A i \in DOMAIN ring :
         /\ ring[i].iw >= Least({given[k].iw : k \in 2 .. 4})
         /\ ring[i].iw <= Greatest({given[k].iw : k \in 2 .. 4})
    /\ (\A k \in 2 .. 4 : \A e \in Edges : Kept(given[k], e)) => ring = Tail(given)

(* clip.cc:14: a cut is the point of the edge rounded to nearest, on every  *)
(* axis but the one that is snapped.                                       *)
CutIsNearest ==
  Task("clip") =>
    LET p == given[2]
        c == given[3]
        dp == EdgeDist(p, 0)
        den == dp - EdgeDist(c, 0)
    IN  Kept(p, 0) # Kept(c, 0) =>
          2 * Abs((Cut(p, c, 0).y - p.y) * den - (c.y - p.y) * dp) <= Abs(den)

(* What the three wrap modes mean (tex.h). *)
Wrapped(coord, dim, mode) ==
  CASE mode = "repeat" -> coord % dim
    [] mode = "mirror" -> LET m == coord % (2 * dim)
                          IN  IF m < dim THEN m ELSE 2 * dim - 1 - m
    [] mode = "clamp" -> IF coord < 0 THEN 0 ELSE IF coord >= dim THEN dim - 1 ELSE coord

(* A texture that tex_validate accepts is read, at any coordinate, at the   *)
(* texel its wrap modes mean; with 4-bit texels, if a row is whole bytes.  *)
(* The filter stays between its taps, and one tap comes through unchanged. *)
TexelAddressed ==
  /\ Task("sample") =>
       LET t == given[2]
       IN  (t.format \in FourBit => t.w % 2 = 0) =>
             PointTexel(t, given[3], given[4])
               = Wrapped(given[4], t.h, t.wrap_t) * t.w + Wrapped(given[3], t.w, t.wrap_s)
  /\ Task("filter") =>
       LET taps == {given[k] : k \in 2 .. 5}
           out(sf, tf) == ThreePoint(given[2], given[3], given[4], given[5], sf, tf)
       IN  /\ \A sf, tf \in 0 .. 31 :
                Least(taps) <= out(sf, tf) /\ out(sf, tf) <= Greatest(taps)
           /\ out(0, 0) = given[2]

Sources == {given[3]} \cup Range(given[4])

(* blend.cc:135: exact sums never overshoot, and each fragment repacks the *)
(* accumulator, so a pixel is brighter than the brightest of the colours   *)
(* over it and the terrain, or darker than the darkest, by at most a step  *)
(* of its channel for each fragment (the tests' 8 * n).  An opaque         *)
(* accumulator hides what comes after, which is why the sweep may stop at  *)
(* 255 (raster.h:53).                                                      *)
BlendBounded ==
  Task("blend") =>
    LET bits == given[2]
        terrain == given[3]
        out == PremulResolve(bits, pixel, terrain)
    IN  /\ out <= Greatest(Sources) + Len(given[4])
        /\ out >= Least(Sources) - Len(given[4])
        /\ pixel.a = 255 => \A color \in Channel[bits] : \A alpha \in Alpha :
             PremulAccumulate(bits, pixel, color, alpha) = pixel
        /\ pixel = Clear => out = terrain
        /\ \A alpha \in Alpha : \A color \in Sources :
             LET over == BlendOver(bits, color, alpha, terrain)
             IN  Least(Sources) <= over /\ over <= Greatest(Sources)

Shown(pos, size) == {p \in OnScreen : pos <= p /\ p < pos + size}

(* A sprite cut at any side of the screen, flipped or not, shows what the   *)
(* whole one would there; an outline has no part that is not the           *)
(* rectangle's.  The sky reads no texel outside its source; going right    *)
(* the panorama goes on without a seam, the gradient stays between its     *)
(* ends, and a cloud over it between the two.                              *)
BlitsAreCut ==
  /\ Task("sprite") =>
       LET x == given[2]
           y == given[3]
           s == given[4]
           source(pos, size, flip, p) == IF flip THEN size - 1 - (p - pos) ELSE p - pos
           whole == [p \in Shown(x, s.w) \X Shown(y, s.h) |->
                       source(y, s.h, given[6], p[2]) * s.w + source(x, s.w, given[5], p[1])]
           border(p) == p[1] \in {x, x + s.w - 1} \/ p[2] \in {y, y + s.h - 1}
       IN  /\ SpriteCopy(s, x, y, given[5], given[6]) = whole
           /\ DOMAIN SpriteMask(s, x, y, given[5], given[6])
                = {p \in DOMAIN whole : whole[p] \in s.mask}
           /\ FRect(x, y, s.w, s.h) = DOMAIN whole
           /\ Rect(x, y, s.w, s.h) = {p \in DOMAIN whole : border(p)}
  /\ Task("sky") =>
       LET r == given[2]
           source == (0 .. r.src_w - 1) \X (0 .. r.src_h - 1)
           sky == Panorama(r)
       IN  /\ \A p \in DOMAIN sky : sky[p] \in source /\ Clouds(r)[p] \in source
           /\ \A p \in DOMAIN sky : <<p[1] + 1, p[2]>> \in DOMAIN sky =>
                sky[<<p[1] + 1, p[2]>>][1] = (sky[p][1] + 1) % r.src_w
           /\ \A p \in DOMAIN sky : \A top, horizon \in Channel[5] :
                LET g == Gradient(r, p[2], top, horizon)
                    between(n, c, d) == n >= Least({c, d}) /\ n <= Greatest({c, d})
                IN  /\ between(g, top, horizon)
                    /\ \A cloud \in Channel[5] : \A a \in Alpha :
                         between(Over8(a, cloud, g), cloud, g)
=============================================================================
