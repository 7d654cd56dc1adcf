--------------------------------- MODULE Blit ---------------------------------
(***************************************************************************)
(* The 2D blits: lines, rectangles and sprites of the template             *)
(* (gfx/blit.cc) and the sky of the demo (blit2d.cc).  A blit is the       *)
(* function from the pixels of the screen it writes to what it puts there. *)
(***************************************************************************)
EXTENDS Fixed, Functions

CONSTANT Extent  \* SCREEN_W and SCREEN_H, RDR_SCREEN_W and RDR_SCREEN_H

ASSUME ExtentAssumption == Extent \in Nat \ {0}

OnScreen == 0 .. Extent - 1

(* clip1d: the part of [pos, pos + len) on the screen. *)
Clip1d(pos, len) ==
  LET from == IF pos < 0 THEN 0 ELSE pos
      left == IF pos < 0 THEN len + pos ELSE len
  IN  IF left <= 0 \/ from >= Extent THEN {}
      ELSE from .. (IF from + left > Extent THEN Extent ELSE from + left) - 1

(* hline, vline, frect: the pixels that are filled. *)
HLine(x, y, len) == IF y \notin OnScreen THEN {} ELSE Clip1d(x, len) \X {y}
VLine(x, y, len) == IF x \notin OnScreen THEN {} ELSE {x} \X Clip1d(y, len)
FRect(x, y, w, h) == Clip1d(x, w) \X Clip1d(y, h)
Rect(x, y, w, h) == HLine(x, y, w) \cup HLine(x, y + h - 1, w)
                    \cup VLine(x, y, h) \cup VLine(x + w - 1, y, h)

(* One axis of blit_copy and blit_mask: where on the screen, and from which *)
(* column (or row) of the sprite. Slip: the flip forgets what is cut off.  *)
FlipVisible(pos, size, flip) ==
  LET start == IF pos < 0 THEN -pos ELSE 0
      px == Clip1d(pos, size)
  IN  [p \in px |-> IF flip THEN size - 1 - (p - (pos + start)) ELSE p - pos]

SpriteAxis(pos, size, flip) ==
  LET start == IF pos < 0 THEN -pos ELSE 0
      at(p) == start + (p - (pos + start))
  IN  [p \in Clip1d(pos, size) |-> IF flip THEN size - 1 - at(p) ELSE at(p)]

(* src_idx *)
SpriteCopy(s, x, y, hflip, vflip) ==
  LET sx == SpriteAxis(x, s.w, hflip)
      sy == SpriteAxis(y, s.h, vflip)
  IN  [p \in (DOMAIN sx) \X (DOMAIN sy) |-> sy[p[2]] * s.w + sx[p[1]]]

SpriteMask(s, x, y, hflip, vflip) ==
  LET copy == SpriteCopy(s, x, y, hflip, vflip)
  IN  Restrict(copy, {p \in DOMAIN copy : copy[p] \in s.mask})

-----------------------------------------------------------------------------
(* blit2d.cc *)

BlitPx(r) == {p \in OnScreen \X OnScreen :
                p[1] - r.x \in 0 .. r.w - 1 /\ p[2] - r.y \in 0 .. r.h - 1}

SourceRow(r, dy, elevation) ==
  LET sy == (dy * r.src_h) \div r.h + elevation
  IN  IF sy < 0 THEN 0 ELSE IF sy >= r.src_h THEN r.src_h - 1 ELSE sy

(* blit2d_panorama and blit2d_clouds: the texel of the source for a pixel. *)
Panorama(r) ==
  [p \in BlitPx(r) |-> <<(r.scroll + (p[1] - r.x)) % r.src_w,
                         SourceRow(r, p[2] - r.y, r.elevation)>>]

Clouds(r) ==
  [p \in BlitPx(r) |-> <<((p[1] - r.x) * r.src_w) \div r.w,
                         SourceRow(r, p[2] - r.y, 0)>>]

(* The gradient behind the clouds, on one channel, and the cloud over it.  *)
Gradient(r, y, top, horizon) ==
  LET span == r.horizon - r.y
      t == IF y - r.y > span THEN span ELSE y - r.y
  IN  IF span <= 0 THEN horizon ELSE top + TruncDiv((horizon - top) * t, span)

Over8(a, cloud, grad) == (a * cloud + (255 - a) * grad + 127) \div 255
=============================================================================
