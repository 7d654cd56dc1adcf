-------------------------------- MODULE Blend --------------------------------
(***************************************************************************)
(* Channel arithmetic of blend.cc on packed RGB565 (gfx/framebuffer.h): a  *)
(* channel of bits bits (5, or 6 for green) is widened to 8, blended with  *)
(* every division by 255 rounded, and truncated again.                     *)
(***************************************************************************)
EXTENDS Integers

Unpack(bits, q) == IF bits = 5 THEN (q * 8) + (q \div 4) ELSE (q * 4) + (q \div 16)
Pack(bits, v) == IF bits = 5 THEN v \div 8 ELSE v \div 4
Mul255(x, y) == ((x * y) + 127) \div 255
AddClamp255(a, b) == IF a + b > 255 THEN 255 ELSE a + b

(* blend_over_channel and blend_add_channel on packed channels; fog_lerp is *)
(* the first with the fog's colour over the pixel's.                       *)
BlendOver(bits, src, alpha, dst) ==
  Pack(bits, (Unpack(bits, src) * alpha + Unpack(bits, dst) * (255 - alpha) + 127) \div 255)

BlendAdd(bits, src, alpha, dst) ==
  Pack(bits, AddClamp255(Mul255(Unpack(bits, src), alpha), Unpack(bits, dst)))

(* Slip: a fragment counts in full, not by what still shines through. *)
AccumulateInFull(bits, acc, color, alpha) ==
  [c |-> Pack(bits, AddClamp255(Unpack(bits, acc.c), Mul255(Unpack(bits, color), alpha))),
   a |-> AddClamp255(acc.a, alpha)]

(* One translucent fragment folded under what a pixel has accumulated. *)
PremulAccumulate(bits, acc, color, alpha) ==
  LET ea == Mul255(alpha, 255 - acc.a)
  IN  IF ea = 0
        THEN acc
        ELSE [c |-> Pack(bits, AddClamp255(Unpack(bits, acc.c),
                                           Mul255(Unpack(bits, color), ea))),
              a |-> AddClamp255(acc.a, ea)]

PremulResolve(bits, acc, terrain) ==
  Pack(bits, AddClamp255(Unpack(bits, acc.c),
                         Mul255(Unpack(bits, terrain), 255 - acc.a)))
=============================================================================
