---------------------------- MODULE FirmwareProof ----------------------------
(***************************************************************************)
(* Proofs about the programs of Firmware.  The two main loops, for any     *)
(* clock, period, path, scroll, exit, buttons and tones: the invariant     *)
(* says, at each statement of a loop, how what has been read so far        *)
(* relates to the device: which press the last poll saw, which camera the  *)
(* picture shows, how long ago the watchdog was fed, when the tone ends.   *)
(* The profiled demo, by ProfilerProof.  Of the leaf functions: blending,  *)
(* blits, clipping, the addresses of texels and the projection, for any    *)
(* colours, screens, pictures, triangles, guard bands, textures and words. *)
(***************************************************************************)
EXTENDS Firmware, ProfilerProof

(* heldPrev is the pad as the last poll left it: a press is fresh if it is  *)
(* an edge, and a release since then is remembered.                        *)
Fingers ==
  /\ fresh \in BOOLEAN /\ lifted \in BOOLEAN
  /\ fresh <=> "A" \in pad /\ "A" \notin heldPrev
  /\ lifted => "A" \in heldPrev
  /\ "A" \in heldPrev /\ "A" \notin pad => lifted

(* Between a poll and the end of the pass the camera is an edge behind. *)
Polled == {"build", "begin", "blits", "submit", "end", "present", "log", "advance"}

Mode ==
  /\ pc \in DemoPc \ Polled => (cam.mode = "freefly" <=> odd)
  /\ pc \in Polled => (cam.mode = "freefly" <=> (odd # ("A" \in in.pressed)))

(* What the frame number determines, and what of it is in the picture. *)
Keys ==
  /\ cam.frame = frame - away
  /\ scroll = (frame * ScrollDelta) % ScrollPeriod
  /\ pc \in Polled \ {"build", "advance"} =>
       drawn.pose = Pose(cam) /\ drawn.phase = scroll
  /\ pc \in {"submit", "end", "present", "log"} => drawn.sky = Pose(cam)

(* The watchdog was fed no earlier than the pass began. *)
Fed ==
  /\ dog \in Nat
  /\ pc \in {"boot", "bootsel"} => armed = 0
  /\ pc \in DemoPc \ {"boot", "bootsel"} =>
       armed = Period /\ (since < Period => dog <= since)

DemoInv == pc \in DemoPc /\ Fingers /\ Mode /\ Keys /\ Fed

(* While the clock has not wrapped, the end of a tone is what it has left, *)
(* and an end that is past is silenced by the next poll.                   *)
ToneInv ==
  /\ pc \in TemplatePc
  /\ now \in 0 .. ClockRange - 1 /\ stop \in 0 .. ClockRange - 1
  /\ sound \in BOOLEAN
  /\ ~crossed => /\ sound <=> stop # 0
                 /\ due > 0 => stop = now + due
                 /\ due = 0 => stop <= now

IInv ==
  /\ image \in Image
  /\ DemoTypeOK /\ TemplateTypeOK
  /\ image = "demo" => DemoInv
  /\ image = "template" => ToneInv

-----------------------------------------------------------------------------
(* Steps taken modulo b one after the other are their product modulo b. *)
LEMMA StepsModulo ==
  ASSUME NEW b \in Nat \ {0}, NEW d \in Nat, NEW k \in Nat
  PROVE  ((((k * d) % b) + d) % b) = (((k + 1) * d) % b)
<1> DEFINE n == k * d
           m == n % b
           t == (m + d) % b
<1>1. n \in Nat  OBVIOUS
<1>2. m \in Int /\ n = b * (n \div b) + m /\ n \div b \in Int
  BY <1>1
<1>3. m + d \in Int  BY <1>2
<1>4. /\ t \in Int /\ 0 <= t /\ t < b
      /\ m + d = b * ((m + d) \div b) + t /\ (m + d) \div b \in Int
  BY <1>3
<1> DEFINE p == n \div b
           q == (m + d) \div b
<1> HIDE DEF m, t, p, q
<1>5. (k + 1) * d = n + d  OBVIOUS
<1>6. n + d = (p + q) * b + t
  <2>1. (p + q) * b = b * p + b * q  BY <1>2, <1>4 DEF p, q
  <2> QED BY <1>1, <1>2, <1>4, <2>1 DEF p, q
<1>7. /\ p + q \in Int /\ n + d \in Int
      /\ t \in Int /\ 0 <= t /\ t < b
  BY <1>1, <1>2, <1>4 DEF p, q
<1>8. (n + d) % b = t
  <2> DEFINE s == n + d
             r == p + q
  <2>1. s \in Int /\ r \in Int /\ s = r * b + t  BY <1>6, <1>7
  <2> HIDE DEF s, r
  <2>2. s % b = t  BY <1>7, <2>1, RemainderUnique
  <2> QED BY <2>2 DEF s
<1> QED BY <1>5, <1>8 DEF t, m

-----------------------------------------------------------------------------
(* Blending.  A step of a packed channel is Unit of its widened values.    *)
Unit(bits) == IF bits = 5 THEN 8 ELSE 4
Top(bits) == IF bits = 5 THEN 31 ELSE 63
Pixel(bits) == [c : 0 .. Top(bits), a : 0 .. 255]

LEMMA LeastIn ==
  ASSUME NEW S \in SUBSET Nat, S # {}
  PROVE  /\ Least(S) \in S
         /\ \A k \in S : Least(S) <= k
<1>1. \E n \in S : \A k \in S : n <= k  BY LeastOf
<1> QED BY <1>1 DEF Least

LEMMA GreatestIn ==
  ASSUME NEW N \in Nat, NEW S \in SUBSET (0 .. N), S # {}
  PROVE  /\ Greatest(S) \in S
         /\ \A k \in S : Greatest(S) >= k
<1> DEFINE T == {N - k : k \in S}
<1>1. T # {}  OBVIOUS
<1>0. \A k \in S : N - k \in Nat  OBVIOUS
<1>6. T \in SUBSET Nat  BY <1>0
<1>2. PICK t \in T : \A m \in T : t <= m  BY <1>1, <1>6, LeastOf
<1>3. PICK n \in S : t = N - n  BY <1>2
<1>4. ASSUME NEW k \in S PROVE n >= k
  <2>1. N - k \in T  OBVIOUS
  <2>2. N - n <= N - k  BY <1>2, <1>3, <2>1
  <2> QED BY <2>2
<1>5. \E m \in S : \A k \in S : m >= k  BY <1>4
<1> QED BY <1>5 DEF Greatest

LEMMA Repacked ==
  ASSUME NEW bits \in {5, 6}, NEW v \in 0 .. 255
  PROVE  /\ Pack(bits, v) \in 0 .. Top(bits)
         /\ Unpack(bits, Pack(bits, v)) <= v + (Unit(bits) - 1)
         /\ v <= Unpack(bits, Pack(bits, v)) + (Unit(bits) - 1)
BY DEF Pack, Unpack, Top, Unit

LEMMA Widened ==
  ASSUME NEW bits \in {5, 6}, NEW q \in 0 .. Top(bits)
  PROVE  /\ Unpack(bits, q) \in 0 .. 255
         /\ Pack(bits, Unpack(bits, q)) = q
BY DEF Pack, Unpack, Top

LEMMA StepsApart ==
  ASSUME NEW bits \in {5, 6}, NEW p \in 0 .. Top(bits), NEW q \in 0 .. Top(bits), NEW n \in Nat,
         p + n <= q
  PROVE  Unpack(bits, p) + Unit(bits) * n <= Unpack(bits, q)
<1>1. CASE bits = 5
  <2>1. p \div 4 <= q \div 4  OBVIOUS
  <2> QED BY <1>1, <2>1 DEF Unpack, Unit, Top
<1>2. CASE bits = 6
  <2>1. p \div 16 <= q \div 16  OBVIOUS
  <2> QED BY <1>2, <2>1 DEF Unpack, Unit, Top
<1> QED BY <1>1, <1>2

LEMMA Products ==
  ASSUME NEW x \in 0 .. 255, NEW y \in 0 .. 255
  PROVE  x * y \in Nat /\ x * y <= 255 * y /\ x * y <= 255 * x
<1>1. \A i, j \in Nat : i * j \in Nat  OBVIOUS
<1>2. (255 - x) * y \in Nat /\ (255 - y) * x \in Nat /\ x * y \in Nat  BY <1>1
<1>3. (255 - x) * y = 255 * y - x * y /\ (255 - y) * x = 255 * x - x * y  OBVIOUS
<1> QED BY <1>2, <1>3

LEMMA Rounded ==
  ASSUME NEW x \in 0 .. 255, NEW y \in 0 .. 255
  PROVE  /\ Mul255(x, y) \in 0 .. 255
         /\ Mul255(x, y) <= y
         /\ 255 * Mul255(x, y) <= x * y + 127
         /\ x * y <= 255 * Mul255(x, y) + 127
<1> DEFINE p == x * y
<1>1. p \in Nat /\ p <= 255 * y  BY Products
<1> HIDE DEF p
<1>2. \A k \in Nat : (k + 127) \div 255 \in Nat
                     /\ 255 * ((k + 127) \div 255) <= k + 127
                     /\ k <= 255 * ((k + 127) \div 255) + 127
  OBVIOUS
<1>3. (p + 127) \div 255 <= y  BY <1>1, <1>2
<1>4. Mul255(x, y) = (p + 127) \div 255  BY DEF Mul255, p
<1>5. Mul255(x, y) \in 0 .. 255 /\ Mul255(x, y) <= y
      /\ 255 * Mul255(x, y) <= p + 127 /\ p <= 255 * Mul255(x, y) + 127
  BY <1>1, <1>2, <1>3, <1>4
<1> QED BY <1>5 DEF p

LEMMA Exact ==
  ASSUME NEW x \in 0 .. 255
  PROVE  Mul255(x, 255) = x /\ Mul255(x, 0) = 0
<1>1. (x * 255 + 127) \div 255 = x  OBVIOUS
<1>2. (x * 0 + 127) \div 255 = 0  OBVIOUS
<1> QED BY <1>1, <1>2 DEF Mul255

LEMMA ClampedType ==
  ASSUME NEW x \in 0 .. 255, NEW y \in 0 .. 255
  PROVE  AddClamp255(x, y) \in 0 .. 255
BY DEF AddClamp255

LEMMA ClampedValue ==
  ASSUME NEW x \in 0 .. 255, NEW y \in 0 .. 255
  PROVE  AddClamp255(x, y) = x + y \/ AddClamp255(x, y) = 255
BY DEF AddClamp255

LEMMA ClampedUp ==
  ASSUME NEW x \in 0 .. 255, NEW y \in 0 .. 255
  PROVE  AddClamp255(x, y) <= x + y
BY DEF AddClamp255

LEMMA Unclamped ==
  ASSUME NEW x \in 0 .. 255, NEW y \in 0 .. 255, x + y \in 0 .. 255
  PROVE  AddClamp255(x, y) = x + y
BY DEF AddClamp255

(* Two values under upper bounds hold a mixture of them under the mixture. *)
LEMMA Scaled ==
  ASSUME NEW x \in Nat, NEW y \in Nat, NEW e \in Nat, x <= y
  PROVE  x * e <= y * e /\ x * e \in Nat /\ y * e \in Nat
<1>1. \A i, j \in Nat : i * j \in Nat  OBVIOUS
<1>2. (y - x) * e \in Nat /\ x * e \in Nat /\ y * e \in Nat  BY <1>1
<1>3. (y - x) * e = y * e - x * e  OBVIOUS
<1> QED BY <1>2, <1>3

(* What is over a pixel so far: 255 times its channel is no more than alpha *)
(* times a bound of the colours, and a step for each of n fragments.       *)
NotOver(bits, px, k, n) ==
  255 * Unpack(bits, px.c) <= Unpack(bits, k) * px.a + 255 * (Unit(bits) * n)
NotUnder(bits, px, k, n) ==
  Unpack(bits, k) * px.a <= 255 * Unpack(bits, px.c) + 255 * (Unit(bits) * n)

(* What a fragment counts for, and what the terrain does. *)
Effective(px, alpha) == Mul255(alpha, 255 - px.a)
Remaining(px) == 255 - px.a

(* A colour of weight e added to the accumulator. *)
Added(bits, px, color, e) ==
  Pack(bits, AddClamp255(Unpack(bits, px.c), Mul255(Unpack(bits, color), e)))

(* The colour that comes of it, against a bound of the colours so far. *)
SumNotOver(bits, px, color, e, k, n) ==
  255 * Unpack(bits, Added(bits, px, color, e))
    <= Unpack(bits, k) * (px.a + e) + 255 * (Unit(bits) * n) + 255 * (Unit(bits) - 1) + 127
SumNotUnder(bits, px, color, e, k, n) ==
  Unpack(bits, k) * (px.a + e)
    <= 255 * Unpack(bits, Added(bits, px, color, e)) + 255 * (Unit(bits) * n)
       + 255 * (Unit(bits) - 1) + 127

LEMMA AddedType ==
  ASSUME NEW bits \in {5, 6}, NEW px \in Pixel(bits), NEW color \in 0 .. Top(bits),
         NEW e \in 0 .. 255
  PROVE  Added(bits, px, color, e) \in 0 .. Top(bits)
<1> DEFINE u == Unpack(bits, px.c)
           m == Mul255(Unpack(bits, color), e)
<1>1. u \in 0 .. 255 /\ m \in 0 .. 255  BY Widened, Rounded DEF Pixel
<1> HIDE DEF u, m
<1>2. AddClamp255(u, m) \in 0 .. 255  BY <1>1, ClampedType
<1> QED BY <1>2, Repacked DEF Added, u, m

LEMMA AddedNotOver ==
  ASSUME NEW bits \in {5, 6}, NEW px \in Pixel(bits), NEW color \in 0 .. Top(bits),
         NEW e \in 0 .. 255, NEW k \in 0 .. Top(bits), NEW n \in Nat,
         px.a + e \in 0 .. 255, color <= k, NotOver(bits, px, k, n)
  PROVE  SumNotOver(bits, px, color, e, k, n)
<1> DEFINE u == Unpack(bits, px.c)
           w == Unpack(bits, color)
           b == Unpack(bits, k)
           a == px.a
           m == Mul255(w, e)
           v == AddClamp255(u, m)
           r == Unpack(bits, Pack(bits, v))
           s == Unit(bits)
           sn == s * n
<1>1. u \in 0 .. 255 /\ w \in 0 .. 255 /\ b \in 0 .. 255 /\ a \in 0 .. 255
  BY Widened DEF Pixel
<1>2. w + Unit(bits) * 0 <= b  BY StepsApart
<1>3. w <= b /\ s \in {4, 8} /\ sn \in Nat  BY <1>1, <1>2 DEF Unit
<1>4. m \in 0 .. 255 /\ 255 * m <= w * e + 127  BY <1>1, Rounded
<1>7. v \in 0 .. 255 /\ v <= u + m  BY <1>1, <1>4, ClampedType, ClampedUp
<1>8. r <= v + (s - 1) /\ r \in 0 .. 255  BY <1>7, Repacked, Widened
<1>9. 255 * u <= b * a + 255 * sn  BY DEF NotOver
<1>0. e \in 0 .. 255 /\ a + e \in 0 .. 255  OBVIOUS
<1> HIDE DEF u, w, b, a, m, v, r, s, sn
<1>5. w * e <= b * e /\ w * e \in Nat /\ b * e \in Nat  BY <1>0, <1>1, <1>3, Scaled
<1>6. b * (a + e) = b * a + b * e /\ b * a \in Int  BY <1>0, <1>1
<1>10. 255 * r <= b * (a + e) + 255 * sn + 255 * (s - 1) + 127
  <2> DEFINE we == w * e
             be == b * e
             ba == b * a
             bae == b * (a + e)
  <2>1. we \in Nat /\ be \in Nat /\ ba \in Int /\ bae = ba + be /\ we <= be  BY <1>5, <1>6
  <2>2. 255 * m <= we + 127 /\ 255 * u <= ba + 255 * sn  BY <1>4, <1>9
  <2>3. r \in Int /\ v \in Int /\ u \in Int /\ m \in Int /\ s \in Int /\ sn \in Int
    BY <1>1, <1>3, <1>4, <1>7, <1>8
  <2>4. r <= v + (s - 1) /\ v <= u + m  BY <1>7, <1>8
  <2> HIDE DEF we, be, ba, bae
  <2>5. 255 * r <= bae + 255 * sn + 255 * (s - 1) + 127  BY <2>1, <2>2, <2>3, <2>4
  <2> QED BY <2>5 DEF bae
<1> QED BY <1>10 DEF SumNotOver, Added, u, w, b, a, m, v, r, s, sn

LEMMA AddedNotUnder ==
  ASSUME NEW bits \in {5, 6}, NEW px \in Pixel(bits), NEW color \in 0 .. Top(bits),
         NEW e \in 0 .. 255, NEW k \in 0 .. Top(bits), NEW n \in Nat,
         px.a + e \in 0 .. 255, k <= color, NotUnder(bits, px, k, n)
  PROVE  SumNotUnder(bits, px, color, e, k, n)
<1> DEFINE u == Unpack(bits, px.c)
           w == Unpack(bits, color)
           b == Unpack(bits, k)
           a == px.a
           m == Mul255(w, e)
           v == AddClamp255(u, m)
           r == Unpack(bits, Pack(bits, v))
           s == Unit(bits)
           sn == s * n
<1>1. u \in 0 .. 255 /\ w \in 0 .. 255 /\ b \in 0 .. 255 /\ a \in 0 .. 255
  BY Widened DEF Pixel
<1>2. b + Unit(bits) * 0 <= w  BY StepsApart
<1>3. b <= w /\ s \in {4, 8} /\ sn \in Nat  BY <1>1, <1>2 DEF Unit
<1>4. m \in 0 .. 255 /\ w * e <= 255 * m + 127  BY <1>1, Rounded
<1>12. v \in 0 .. 255  BY <1>1, <1>4, ClampedType
<1>13. v = u + m \/ v = 255
  <2>1. u \in 0 .. 255  BY <1>1
  <2>2. m \in 0 .. 255  BY <1>4
  <2> HIDE DEF u, m
  <2> QED BY <2>1, <2>2 DEF AddClamp255
<1>7. v \in 0 .. 255 /\ (v = u + m \/ v = 255)  BY <1>12, <1>13
<1>8. v <= r + (s - 1) /\ r \in 0 .. 255  BY <1>12, Repacked, Widened
<1>9. b * a <= 255 * u + 255 * sn  BY DEF NotUnder
<1>0. e \in 0 .. 255 /\ a + e \in 0 .. 255  OBVIOUS
<1> HIDE DEF u, w, b, a, m, v, r, s, sn
<1>5. b * e <= w * e /\ w * e \in Nat /\ b * e \in Nat  BY <1>0, <1>1, <1>3, Scaled
<1>6. b * (a + e) = b * a + b * e /\ b * a \in Int  BY <1>0, <1>1
<1>10. b * (a + e) <= 255 * 255 /\ b * (a + e) \in Int
  <2>1. a + e \in 0 .. 255  BY <1>0, <1>1
  <2>2. ASSUME NEW i \in 0 .. 255 PROVE b * i <= 255 * 255 /\ b * i \in Int
    BY <1>1, Products
  <2> QED BY <2>1, <2>2
<1>11. b * (a + e) <= 255 * r + 255 * sn + 255 * (s - 1) + 127
  <2> DEFINE we == w * e
             be == b * e
             ba == b * a
             bae == b * (a + e)
  <2>1. we \in Nat /\ be \in Nat /\ ba \in Int /\ bae = ba + be /\ be <= we  BY <1>5, <1>6
  <2>2. we <= 255 * m + 127 /\ ba <= 255 * u + 255 * sn  BY <1>4, <1>9
  <2>3. r \in Int /\ v \in Int /\ u \in Int /\ m \in Int /\ s \in Int /\ sn \in Nat
    BY <1>1, <1>3, <1>4, <1>7, <1>8
  <2>4. v <= r + (s - 1) /\ (v = u + m \/ v = 255) /\ bae <= 255 * 255  BY <1>7, <1>8, <1>10
  <2> HIDE DEF we, be, ba, bae
  <2>5. bae <= 255 * r + 255 * sn + 255 * (s - 1) + 127  BY <2>1, <2>2, <2>3, <2>4
  <2> QED BY <2>5 DEF bae
<1> QED BY <1>11 DEF SumNotUnder, Added, u, w, b, a, m, v, r, s, sn

(* A fragment folded in costs a step; the effective alpha is what is left. *)
LEMMA EffectiveType ==
  ASSUME NEW bits \in {5, 6}, NEW px \in Pixel(bits), NEW alpha \in 0 .. 255
  PROVE  Effective(px, alpha) \in 0 .. 255
<1>1. 255 - px.a \in 0 .. 255  BY DEF Pixel
<1> QED BY <1>1, Rounded DEF Effective

LEMMA EffectiveRoom ==
  ASSUME NEW bits \in {5, 6}, NEW px \in Pixel(bits), NEW alpha \in 0 .. 255
  PROVE  px.a + Effective(px, alpha) \in 0 .. 255
<1> DEFINE t == 255 - px.a
<1>1. px.a \in 0 .. 255 /\ px.a = 255 - t  BY DEF Pixel
<1>2. t \in 0 .. 255  BY <1>1
<1> HIDE DEF t
<1>3. Mul255(alpha, t) \in 0 .. 255 /\ Mul255(alpha, t) <= t  BY <1>2, Rounded
<1>4. (255 - t) + Mul255(alpha, t) \in 0 .. 255  BY <1>2, <1>3
<1> QED BY <1>1, <1>4 DEF Effective, t

LEMMA FoldedIs ==
  ASSUME NEW bits \in {5, 6}, NEW px \in Pixel(bits), NEW color \in 0 .. Top(bits),
         NEW alpha \in 0 .. 255
  PROVE  PremulAccumulate(bits, px, color, alpha)
           = IF Effective(px, alpha) = 0 THEN px
             ELSE [c |-> Added(bits, px, color, Effective(px, alpha)),
                   a |-> px.a + Effective(px, alpha)]
<1>1. px.a \in 0 .. 255  BY DEF Pixel
<1>2. Effective(px, alpha) \in 0 .. 255  BY EffectiveType
<1>3. px.a + Effective(px, alpha) \in 0 .. 255  BY EffectiveRoom
<1>4. \A x, y \in 0 .. 255 : x + y \in 0 .. 255 => AddClamp255(x, y) = x + y  BY Unclamped
<1>5. AddClamp255(px.a, Effective(px, alpha)) = px.a + Effective(px, alpha)
  BY <1>1, <1>2, <1>3, <1>4, Zenon
<1> QED BY <1>5 DEF PremulAccumulate, Added, Effective

LEMMA FoldedType ==
  ASSUME NEW bits \in {5, 6}, NEW px \in Pixel(bits), NEW color \in 0 .. Top(bits),
         NEW alpha \in 0 .. 255
  PROVE  PremulAccumulate(bits, px, color, alpha) \in Pixel(bits)
<1> DEFINE e == Effective(px, alpha)
<1>1. e \in 0 .. 255  BY EffectiveType
<1>2. px.a + e \in 0 .. 255  BY EffectiveRoom
<1> HIDE DEF e
<1>3. Added(bits, px, color, e) \in 0 .. Top(bits)  BY <1>1, AddedType
<1>4. [c |-> Added(bits, px, color, e), a |-> px.a + e] \in Pixel(bits)
  BY <1>2, <1>3 DEF Pixel
<1> QED BY <1>4, FoldedIs DEF e

LEMMA FoldedNotOver ==
  ASSUME NEW bits \in {5, 6}, NEW px \in Pixel(bits), NEW color \in 0 .. Top(bits),
         NEW alpha \in 0 .. 255, NEW k \in 0 .. Top(bits), NEW n \in Nat,
         color <= k, NotOver(bits, px, k, n)
  PROVE  NotOver(bits, PremulAccumulate(bits, px, color, alpha), k, n + 1)
<1> DEFINE e == Effective(px, alpha)
           new == PremulAccumulate(bits, px, color, alpha)
           s == Unit(bits)
<1>1. s \in {4, 8} /\ s * (n + 1) = s * n + s /\ s * n \in Nat  BY DEF Unit
<1>2. e \in 0 .. 255  BY EffectiveType
<1>7. px.a + e \in 0 .. 255  BY EffectiveRoom
<1>8. new = IF e = 0 THEN px ELSE [c |-> Added(bits, px, color, e), a |-> px.a + e]
  BY FoldedIs
<1> HIDE DEF e, new
<1>3. px.a \in 0 .. 255 /\ px.c \in 0 .. Top(bits)  BY DEF Pixel
<1>4. Unpack(bits, k) \in 0 .. 255 /\ Unpack(bits, px.c) \in 0 .. 255  BY <1>3, Widened
<1>5. CASE e = 0
  <2>1. new = px  BY <1>5, <1>8
  <2>7. \A i, j \in Int : i * j \in Int  OBVIOUS
  <2>8. Unpack(bits, k) \in Int /\ px.a \in Int  BY <1>3, <1>4
  <2>2. Unpack(bits, k) * px.a \in Int  BY <2>7, <2>8, Zenon
  <2> HIDE DEF s
  <2>3. NotOver(bits, px, k, n + 1)  BY <1>1, <1>3, <1>4, <2>2 DEF NotOver, s
  <2> QED BY <2>1, <2>3 DEF new
<1>6. CASE e # 0
  <2> DEFINE r == Unpack(bits, Added(bits, px, color, e))
             t == Unpack(bits, k) * (px.a + e)
  <2>1. new.c = Added(bits, px, color, e) /\ new.a = px.a + e  BY <1>6, <1>8
  <2>5. SumNotOver(bits, px, color, e, k, n)  BY <1>2, <1>7, AddedNotOver
  <2>2. 255 * r <= t + 255 * (s * n) + 255 * (s - 1) + 127  BY <2>5 DEF SumNotOver
  <2>6. r \in 0 .. 255  BY <1>2, AddedType, Widened
  <2>7. \A i, j \in Int : i * j \in Int  OBVIOUS
  <2>9. Unpack(bits, k) \in Int /\ px.a + e \in Int  BY <1>4, <1>7
  <2>8. t \in Int  BY <2>7, <2>9, Zenon
  <2>3. r \in 0 .. 255 /\ t \in Int  BY <2>6, <2>8
  <2> HIDE DEF r, t, s
  <2>4. 255 * r <= t + 255 * (s * (n + 1))  BY <1>1, <2>2, <2>3
  <2> QED BY <2>1, <2>4 DEF NotOver, r, t, s, new
<1> QED BY <1>5, <1>6

LEMMA FoldedNotUnder ==
  ASSUME NEW bits \in {5, 6}, NEW px \in Pixel(bits), NEW color \in 0 .. Top(bits),
         NEW alpha \in 0 .. 255, NEW k \in 0 .. Top(bits), NEW n \in Nat,
         k <= color, NotUnder(bits, px, k, n)
  PROVE  NotUnder(bits, PremulAccumulate(bits, px, color, alpha), k, n + 1)
<1> DEFINE e == Effective(px, alpha)
           new == PremulAccumulate(bits, px, color, alpha)
           s == Unit(bits)
<1>1. s \in {4, 8} /\ s * (n + 1) = s * n + s /\ s * n \in Nat  BY DEF Unit
<1>2. e \in 0 .. 255  BY EffectiveType
<1>7. px.a + e \in 0 .. 255  BY EffectiveRoom
<1>8. new = IF e = 0 THEN px ELSE [c |-> Added(bits, px, color, e), a |-> px.a + e]
  BY FoldedIs
<1> HIDE DEF e, new
<1>3. px.a \in 0 .. 255 /\ px.c \in 0 .. Top(bits)  BY DEF Pixel
<1>4. Unpack(bits, k) \in 0 .. 255 /\ Unpack(bits, px.c) \in 0 .. 255  BY <1>3, Widened
<1>5. CASE e = 0
  <2>1. new = px  BY <1>5, <1>8
  <2>7. \A i, j \in Int : i * j \in Int  OBVIOUS
  <2>8. Unpack(bits, k) \in Int /\ px.a \in Int  BY <1>3, <1>4
  <2>2. Unpack(bits, k) * px.a \in Int  BY <2>7, <2>8, Zenon
  <2> HIDE DEF s
  <2>3. NotUnder(bits, px, k, n + 1)  BY <1>1, <1>3, <1>4, <2>2 DEF NotUnder, s
  <2> QED BY <2>1, <2>3 DEF new
<1>6. CASE e # 0
  <2> DEFINE r == Unpack(bits, Added(bits, px, color, e))
             t == Unpack(bits, k) * (px.a + e)
  <2>1. new.c = Added(bits, px, color, e) /\ new.a = px.a + e  BY <1>6, <1>8
  <2>5. SumNotUnder(bits, px, color, e, k, n)  BY <1>2, <1>7, AddedNotUnder
  <2>2. t <= 255 * r + 255 * (s * n) + 255 * (s - 1) + 127  BY <2>5 DEF SumNotUnder
  <2>6. r \in 0 .. 255  BY <1>2, AddedType, Widened
  <2>7. \A i, j \in Int : i * j \in Int  OBVIOUS
  <2>9. Unpack(bits, k) \in Int /\ px.a + e \in Int  BY <1>4, <1>7
  <2>8. t \in Int  BY <2>7, <2>9, Zenon
  <2>3. r \in 0 .. 255 /\ t \in Int  BY <2>6, <2>8
  <2> HIDE DEF r, t, s
  <2>4. t <= 255 * r + 255 * (s * (n + 1))  BY <1>1, <2>2, <2>3
  <2> QED BY <2>1, <2>4 DEF NotUnder, r, t, s, new
<1> QED BY <1>5, <1>6

(* Over the terrain: within n steps of the colours. *)
LEMMA Resolved ==
  ASSUME NEW bits \in {5, 6}, NEW px \in Pixel(bits), NEW terrain \in 0 .. Top(bits),
         NEW n \in Nat
  PROVE  LET out == PremulResolve(bits, px, terrain)
         IN  /\ out \in 0 .. Top(bits)
             /\ \A k \in 0 .. Top(bits) : terrain <= k /\ NotOver(bits, px, k, n) => out <= k + n
             /\ \A k \in 0 .. Top(bits) : k <= terrain /\ NotUnder(bits, px, k, n) => out >= k - n
<1> DEFINE e == Remaining(px)
           out == PremulResolve(bits, px, terrain)
           s == Unit(bits)
           r == Unpack(bits, out)
<1>1. e \in 0 .. 255  BY DEF Pixel, Remaining
<1>7. px.a + e = 255  BY DEF Pixel, Remaining
<1>8. px.a + e \in 0 .. 255  BY <1>7
<1>2. out = Added(bits, px, terrain, e)  BY DEF PremulResolve, Added, Remaining
<1> HIDE DEF e
<1>9. Added(bits, px, terrain, e) \in 0 .. Top(bits)  BY <1>1, AddedType
<1>3. out \in 0 .. Top(bits)  BY <1>2, <1>9
<1>4. r \in 0 .. 255 /\ s \in {4, 8} /\ s * n \in Nat  BY <1>3, Widened DEF Unit
<1>5. ASSUME NEW k \in 0 .. Top(bits), terrain <= k, NotOver(bits, px, k, n)
      PROVE  out <= k + n
  <2> DEFINE b == Unpack(bits, k)
  <2>1. b \in 0 .. 255  BY Widened
  <2>2. SumNotOver(bits, px, terrain, e, k, n)  BY <1>1, <1>8, <1>5, AddedNotOver
  <2>3. 255 * r <= b * 255 + 255 * (s * n) + 255 * (s - 1) + 127  BY <1>7, <1>2, <2>2 DEF SumNotOver
  <2>4. SUFFICES ASSUME k + (n + 1) <= out PROVE FALSE  BY <1>3 DEF Top
  <2>5. b + Unit(bits) * (n + 1) <= r  BY <1>3, <2>4, StepsApart
  <2>6. s * (n + 1) = s * n + s  BY <1>4
  <2>7. b + (s * n + s) <= r  BY <2>5, <2>6
  <2> HIDE DEF b, r, s, out
  <2> QED BY <1>4, <2>1, <2>3, <2>7
<1>6. ASSUME NEW k \in 0 .. Top(bits), k <= terrain, NotUnder(bits, px, k, n)
      PROVE  out >= k - n
  <2> DEFINE b == Unpack(bits, k)
  <2>1. b \in 0 .. 255  BY Widened
  <2>2. SumNotUnder(bits, px, terrain, e, k, n)  BY <1>1, <1>8, <1>6, AddedNotUnder
  <2>3. b * 255 <= 255 * r + 255 * (s * n) + 255 * (s - 1) + 127  BY <1>7, <1>2, <2>2 DEF SumNotUnder
  <2>4. SUFFICES ASSUME out + (n + 1) <= k PROVE FALSE  BY <1>3 DEF Top
  <2>5. r + Unit(bits) * (n + 1) <= b  BY <1>3, <2>4, StepsApart
  <2>6. s * (n + 1) = s * n + s  BY <1>4
  <2>7. r + (s * n + s) <= b  BY <2>5, <2>6
  <2> HIDE DEF b, r, s, out
  <2> QED BY <1>4, <2>1, <2>3, <2>7
<1> QED BY <1>3, <1>5, <1>6

-----------------------------------------------------------------------------
(* The functions under test: what they were given, and what the pixel has   *)
(* accumulated of the fragments so far.                                    *)
BlendState ==
  LET bits == given[2]
      frags == given[4]
  IN  /\ given = <<"blend", bits, given[3], frags>>
      /\ bits \in {5, 6} /\ given[3] \in Channel[bits] /\ frags \in Seq(Channel[bits])
      /\ pixel \in Pixel(bits)
      /\ \A k \in 0 .. Top(bits) :
           /\ (\A q \in Range(frags) : q <= k) => NotOver(bits, pixel, k, Len(frags))
           /\ (\A q \in Range(frags) : k <= q) => NotUnder(bits, pixel, k, Len(frags))

SpriteState ==
  /\ given[2] \in Position /\ given[3] \in Position
  /\ given[4].w \in SpriteSize /\ given[4].h \in SpriteSize
  /\ given[5] \in BOOLEAN /\ given[6] \in BOOLEAN

KernelInv ==
  /\ Idle => pixel = Clear
  /\ Task("blend") => BlendState
  /\ Task("sprite") => SpriteState
  /\ Task("sky") => given[2] \in SkyRect

LEMMA ChannelType ==
  ASSUME NEW bits \in {5, 6}
  PROVE  Channel[bits] \subseteq 0 .. Top(bits)
BY KernelAssumption DEF Top

LEMMA KernelInitOK == KernelInit => KernelInv
BY DEF KernelInit, KernelInv, Idle, Task

LEMMA ClearWithin ==
  ASSUME NEW bits \in {5, 6}, NEW k \in 0 .. Top(bits)
  PROVE  NotOver(bits, Clear, k, 0) /\ NotUnder(bits, Clear, k, 0)
<1>1. Unpack(bits, 0) = 0  BY DEF Unpack
<1>2. Unpack(bits, k) \in 0 .. 255  BY Widened
<1>3. Unit(bits) \in {4, 8}  BY DEF Unit
<1>4. Clear.a = 0 /\ Clear.c = 0  BY DEF Clear
<1>5. Unpack(bits, k) * 0 = 0 /\ Unit(bits) * 0 = 0  BY <1>2, <1>3
<1> QED BY <1>1, <1>2, <1>4, <1>5 DEF NotOver, NotUnder

LEMMA StartedKeeps ==
  ASSUME KernelInv, NEW test, Idle, Start(test),
         test # << >>, test[1] \notin {"blend", "sprite", "sky"}
  PROVE  KernelInv'
BY DEF KernelInv, Idle, Task, Start

LEMMA FragmentKeeps == ASSUME KernelInv, Fragment PROVE BlendState'
<1> DEFINE bits == given[2]
           frags == given[4]
           n == Len(frags)
<1>1. BlendState  BY DEF KernelInv, Fragment
<1>2. PICK color \in Channel[bits], alpha \in Alpha :
        /\ given' = [given EXCEPT ![4] = Append(@, color)]
        /\ pixel' = PremulAccumulate(bits, pixel, color, alpha)
  BY DEF Fragment
<1>3. bits \in {5, 6} /\ frags \in Seq(Channel[bits]) /\ pixel \in Pixel(bits)
  BY <1>1 DEF BlendState
<1>4. color \in 0 .. Top(bits) /\ alpha \in 0 .. 255
  BY <1>3, ChannelType, KernelAssumption
<1>5. given' = <<"blend", bits, given[3], Append(frags, color)>>
  BY <1>1, <1>2 DEF BlendState
<1>6. given'[2] = bits /\ given'[3] = given[3] /\ given'[4] = Append(frags, color)
  BY <1>5
<1>7. Append(frags, color) \in Seq(Channel[bits]) /\ Len(Append(frags, color)) = n + 1
      /\ n \in Nat
  <2> HIDE DEF bits, frags
  <2> QED BY <1>2, <1>3
<1>8. pixel' \in Pixel(bits)  BY <1>2, <1>3, <1>4, FoldedType
<1>9. \A q \in Range(frags) : q \in Range(Append(frags, color))
  BY <1>3 DEF Range
<1>10. color \in Range(Append(frags, color))
  <2>1. Append(frags, color)[n + 1] = color /\ n + 1 \in DOMAIN Append(frags, color)
    BY <1>3, <1>7
  <2> QED BY <2>1 DEF Range
<1>11. ASSUME NEW k \in 0 .. Top(bits), \A q \in Range(Append(frags, color)) : q <= k
       PROVE  NotOver(bits, pixel', k, n + 1)
  <2>1. color <= k /\ \A q \in Range(frags) : q <= k  BY <1>9, <1>10, <1>11
  <2>2. NotOver(bits, pixel, k, n)  BY <1>1, <2>1 DEF BlendState
  <2>3. NotOver(bits, PremulAccumulate(bits, pixel, color, alpha), k, n + 1)
    BY <1>3, <1>4, <1>7, <2>1, <2>2, FoldedNotOver
  <2> QED BY <1>2, <2>3
<1>12. ASSUME NEW k \in 0 .. Top(bits), \A q \in Range(Append(frags, color)) : k <= q
       PROVE  NotUnder(bits, pixel', k, n + 1)
  <2>1. k <= color /\ \A q \in Range(frags) : k <= q  BY <1>9, <1>10, <1>12
  <2>2. NotUnder(bits, pixel, k, n)  BY <1>1, <2>1 DEF BlendState
  <2>3. NotUnder(bits, PremulAccumulate(bits, pixel, color, alpha), k, n + 1)
    BY <1>3, <1>4, <1>7, <2>1, <2>2, FoldedNotUnder
  <2> QED BY <1>2, <2>3
<1>13. given'[3] \in Channel[bits]  BY <1>1, <1>6 DEF BlendState
<1> HIDE DEF bits, frags, n
<1> QED BY <1>3, <1>5, <1>6, <1>7, <1>8, <1>11, <1>12, <1>13 DEF BlendState

LEMMA KernelKeeps == KernelInv /\ [KernelNext]_kernelVars => KernelInv'
<1> SUFFICES ASSUME KernelInv, [KernelNext]_kernelVars PROVE KernelInv'
  OBVIOUS
<1>1. CASE StartProject  BY <1>1, StartedKeeps DEF StartProject
<1>2. CASE StartClip  BY <1>2, StartedKeeps DEF StartClip
<1>3. CASE ClipPass
  BY <1>3 DEF ClipPass, KernelInv, Idle, Task
<1>4. CASE StartSample  BY <1>4, StartedKeeps DEF StartSample
<1>5. CASE StartFilter  BY <1>5, StartedKeeps DEF StartFilter
<1>6. CASE StartBlend
  <2>5. PICK bits \in {5, 6} : \E terrain \in Channel[bits] :
          given' = <<"blend", bits, terrain, << >> >> /\ pixel' = pixel
    BY <1>6 DEF StartBlend, Start
  <2>1. PICK terrain \in Channel[bits] :
          given' = <<"blend", bits, terrain, << >> >> /\ pixel' = pixel
    BY <2>5
  <2>2. pixel = Clear  BY <1>6 DEF StartBlend, KernelInv
  <2>3. pixel' = Clear /\ given'[1] = "blend" /\ given' # << >>  BY <2>1, <2>2
  <2>4. BlendState'
    <3>1. pixel' \in Pixel(bits)  BY <2>3 DEF Clear, Pixel, Top
    <3>2. \A k \in 0 .. Top(bits) :
            NotOver(bits, pixel', k, 0) /\ NotUnder(bits, pixel', k, 0)
      BY <2>3, ClearWithin
    <3>3. Len(<< >>) = 0 /\ << >> \in Seq(Channel[bits])  OBVIOUS
    <3>4. given'[2] = bits /\ given'[3] = terrain /\ given'[4] = << >>  BY <2>1
    <3> QED BY <2>1, <3>1, <3>2, <3>3, <3>4 DEF BlendState
  <2> QED BY <2>3, <2>4 DEF KernelInv, Idle, Task
<1>7. CASE Fragment
  <2>1. BlendState'  BY <1>7, FragmentKeeps
  <2>3. given' = <<"blend", given'[2], given'[3], given'[4]>>  BY <2>1 DEF BlendState
  <2>4. \A a, b, c : <<"blend", a, b, c>>[1] = "blend" /\ <<"blend", a, b, c>> # << >>
    OBVIOUS
  <2>2. given' # << >> /\ given'[1] = "blend"  BY <2>3, <2>4
  <2> QED BY <2>1, <2>2 DEF KernelInv, Idle, Task
<1>8. CASE StartSprite
  BY <1>8 DEF StartSprite, Start, KernelInv, Idle, Task, SpriteState
<1>9. CASE StartSky
  BY <1>9 DEF StartSky, Start, KernelInv, Idle, Task
<1>10. CASE Finish
  BY <1>10 DEF Finish, KernelInv, Idle, Task
<1>11. CASE UNCHANGED kernelVars
  BY <1>11 DEF kernelVars, KernelInv, Idle, Task, BlendState, SpriteState
<1> QED
  BY <1>1, <1>2, <1>3, <1>4, <1>5, <1>6, <1>7, <1>8, <1>9, <1>10, <1>11 DEF KernelNext

Mix(x, y, w) == (x * w + y * (255 - w) + 127) \div 255

(* blend_over_channel is between its two colours, whatever the alpha. *)
LEMMA Mixed ==
  ASSUME NEW x \in 0 .. 255, NEW y \in 0 .. 255, NEW w \in 0 .. 255,
         NEW lo \in 0 .. 255, NEW hi \in 0 .. 255,
         lo <= x, lo <= y, x <= hi, y <= hi
  PROVE  Mix(x, y, w) \in 0 .. 255 /\ lo <= Mix(x, y, w) /\ Mix(x, y, w) <= hi
<1> DEFINE t == 255 - w
           a == x * w
           b == y * t
<1>1. t \in 0 .. 255 /\ w + t = 255  OBVIOUS
<1>2. lo * w <= a /\ a <= hi * w /\ a \in Nat /\ lo * w \in Nat /\ hi * w \in Nat
  BY Scaled
<1> HIDE DEF t
<1>3. lo * t <= b /\ b <= hi * t /\ b \in Nat /\ lo * t \in Nat /\ hi * t \in Nat
  BY <1>1, Scaled
<1>4. lo * w + lo * t = lo * 255 /\ hi * w + hi * t = hi * 255
  <2>1. lo * w + lo * t = lo * (w + t) /\ hi * w + hi * t = hi * (w + t)  BY <1>1
  <2> QED BY <1>1, <2>1
<1> HIDE DEF a, b
<1>5. a + b \in Nat /\ lo * 255 <= a + b /\ a + b <= hi * 255
  <2> DEFINE l1 == lo * w
             l2 == lo * t
             h1 == hi * w
             h2 == hi * t
  <2>1. l1 \in Nat /\ l2 \in Nat /\ h1 \in Nat /\ h2 \in Nat /\ a \in Nat /\ b \in Nat
    BY <1>2, <1>3
  <2>2. l1 <= a /\ l2 <= b /\ a <= h1 /\ b <= h2  BY <1>2, <1>3
  <2>3. l1 + l2 = lo * 255 /\ h1 + h2 = hi * 255  BY <1>4
  <2> HIDE DEF l1, l2, h1, h2
  <2> QED BY <2>1, <2>2, <2>3
<1>6. \A n \in Nat : lo * 255 <= n /\ n <= hi * 255 =>
        (n + 127) \div 255 \in 0 .. 255 /\ lo <= (n + 127) \div 255 /\ (n + 127) \div 255 <= hi
  OBVIOUS
<1> QED BY <1>5, <1>6 DEF Mix, a, b, t

LEMMA OverBetween ==
  ASSUME NEW bits \in {5, 6}, NEW src \in 0 .. Top(bits), NEW dst \in 0 .. Top(bits),
         NEW alpha \in 0 .. 255, NEW lo \in 0 .. Top(bits), NEW hi \in 0 .. Top(bits),
         lo <= src, lo <= dst, src <= hi, dst <= hi
  PROVE  lo <= BlendOver(bits, src, alpha, dst) /\ BlendOver(bits, src, alpha, dst) <= hi
<1> DEFINE x == Unpack(bits, src)
           y == Unpack(bits, dst)
           l == Unpack(bits, lo)
           h == Unpack(bits, hi)
           v == Mix(x, y, alpha)
<1>1. x \in 0 .. 255 /\ y \in 0 .. 255 /\ l \in 0 .. 255 /\ h \in 0 .. 255  BY Widened
<1>2. Pack(bits, l) = lo /\ Pack(bits, h) = hi  BY Widened
<1>3. l + Unit(bits) * 0 <= x /\ l + Unit(bits) * 0 <= y
      /\ x + Unit(bits) * 0 <= h /\ y + Unit(bits) * 0 <= h
  BY StepsApart
<1>4. Unit(bits) \in {4, 8}  BY DEF Unit
<1>5. BlendOver(bits, src, alpha, dst) = Pack(bits, v)  BY DEF BlendOver, Mix
<1> HIDE DEF x, y, l, h
<1>6. l <= x /\ l <= y /\ x <= h /\ y <= h  BY <1>1, <1>3, <1>4
<1>7. v \in 0 .. 255 /\ l <= v /\ v <= h  BY <1>1, <1>6, Mixed
<1> HIDE DEF v
<1>8. Pack(bits, l) <= Pack(bits, v) /\ Pack(bits, v) <= Pack(bits, h)
  BY <1>1, <1>7 DEF Pack
<1> QED BY <1>2, <1>5, <1>8

LEMMA Opaque255 ==
  ASSUME NEW bits \in {5, 6}, NEW px \in Pixel(bits), NEW color, NEW alpha \in 0 .. 255,
         px.a = 255
  PROVE  PremulAccumulate(bits, px, color, alpha) = px
<1>1. 255 - px.a = 0  OBVIOUS
<1>2. Mul255(alpha, 255 - px.a) = 0  BY <1>1, Exact
<1> QED BY <1>2 DEF PremulAccumulate

LEMMA ClearResolves ==
  ASSUME NEW bits \in {5, 6}, NEW terrain \in 0 .. Top(bits)
  PROVE  PremulResolve(bits, Clear, terrain) = terrain
<1> DEFINE q == Unpack(bits, terrain)
<1>1. q \in 0 .. 255 /\ Pack(bits, q) = terrain  BY Widened
<1>2. Unpack(bits, 0) = 0  BY DEF Unpack
<1>3. Clear.a = 0 /\ Clear.c = 0  BY DEF Clear
<1>4. 255 - Clear.a = 255  BY <1>3
<1>5. PremulResolve(bits, Clear, terrain) = Pack(bits, AddClamp255(0, Mul255(q, 255)))
  BY <1>2, <1>3, <1>4 DEF PremulResolve
<1> HIDE DEF q
<1>6. Mul255(q, 255) = q  BY <1>1, Exact
<1>7. AddClamp255(0, q) = q  BY <1>1 DEF AddClamp255
<1> QED BY <1>1, <1>5, <1>6, <1>7

LEMMA BlendIsBounded == KernelInv => BlendBounded
<1> SUFFICES ASSUME KernelInv, Task("blend") PROVE BlendBounded
  BY DEF BlendBounded
<1> DEFINE bits == given[2]
           terrain == given[3]
           frags == given[4]
           n == Len(frags)
           out == PremulResolve(bits, pixel, terrain)
           lo == Least(Sources)
           hi == Greatest(Sources)
<1>1. BlendState  BY DEF KernelInv
<1>2. bits \in {5, 6} /\ frags \in Seq(Channel[bits]) /\ pixel \in Pixel(bits)
      /\ terrain \in Channel[bits]
  BY <1>1 DEF BlendState
<1>3. Channel[bits] \subseteq 0 .. Top(bits)  BY <1>2, ChannelType
<1>4. Sources \subseteq Channel[bits] /\ terrain \in Sources /\ Range(frags) \subseteq Sources
  <2>1. Range(frags) \subseteq Channel[bits]  BY <1>2 DEF Range
  <2> QED BY <1>2, <2>1 DEF Sources
<1>5. Top(bits) \in Nat  BY DEF Top
<1>6. lo \in Sources /\ \A k \in Sources : lo <= k
  <2>1. Sources \in SUBSET Nat /\ Sources # {}  BY <1>3, <1>4, <1>5
  <2> QED BY <2>1, LeastIn
<1>7. hi \in Sources /\ \A k \in Sources : hi >= k
  <2>1. Sources \in SUBSET (0 .. Top(bits)) /\ Sources # {}  BY <1>3, <1>4
  <2> QED BY <1>5, <2>1, GreatestIn
<1>8. lo \in 0 .. Top(bits) /\ hi \in 0 .. Top(bits) /\ terrain \in 0 .. Top(bits)
  BY <1>2, <1>3, <1>4, <1>6, <1>7
<1>9. Top(bits) \in {31, 63} /\ n \in Nat  BY <1>2 DEF Top
<1>10. \A k \in Sources : k <= hi
  BY <1>3, <1>4, <1>7, <1>8, <1>9
<1>11. NotOver(bits, pixel, hi, n) /\ NotUnder(bits, pixel, lo, n)
  BY <1>1, <1>4, <1>6, <1>8, <1>10 DEF BlendState
<1>12. lo <= terrain /\ terrain <= hi  BY <1>4, <1>6, <1>10
<1> HIDE DEF bits, terrain, frags, n, lo, hi
<1>13. out \in 0 .. Top(bits) /\ out <= hi + n /\ out >= lo - n
  <2>1. /\ out \in 0 .. Top(bits)
        /\ \A k \in 0 .. Top(bits) : terrain <= k /\ NotOver(bits, pixel, k, n) => out <= k + n
        /\ \A k \in 0 .. Top(bits) : k <= terrain /\ NotUnder(bits, pixel, k, n) => out >= k - n
    BY <1>2, <1>8, <1>9, Resolved
  <2> HIDE DEF out
  <2>2. out <= hi + n  BY <1>8, <1>11, <1>12, <2>1, Zenon
  <2>3. out >= lo - n  BY <1>8, <1>11, <1>12, <2>1, Zenon
  <2> QED BY <2>1, <2>2, <2>3
<1>14. ASSUME pixel.a = 255, NEW color \in Channel[bits], NEW alpha \in Alpha
       PROVE  PremulAccumulate(bits, pixel, color, alpha) = pixel
  <2>1. alpha \in 0 .. 255  BY KernelAssumption
  <2> QED BY <1>2, <1>14, <2>1, Opaque255
<1>15. pixel = Clear => out = terrain  BY <1>2, <1>8, ClearResolves
<1>16. ASSUME NEW alpha \in Alpha, NEW color \in Sources
       PROVE  lo <= BlendOver(bits, color, alpha, terrain)
              /\ BlendOver(bits, color, alpha, terrain) <= hi
  <2>1. alpha \in 0 .. 255 /\ color \in 0 .. Top(bits) /\ lo <= color /\ color <= hi
    <3>1. alpha \in 0 .. 255  BY KernelAssumption
    <3>2. color \in 0 .. Top(bits)  BY <1>3, <1>4
    <3> QED BY <1>6, <1>10, <3>1, <3>2 DEF lo
  <2> QED BY <1>2, <1>8, <1>12, <2>1, OverBetween
<1> QED
  BY <1>13, <1>14, <1>15, <1>16 DEF BlendBounded, bits, terrain, frags, n, lo, hi

-----------------------------------------------------------------------------
(* Blits.  An axis is cut to what the screen shows of it. *)
LEMMA ClipShown ==
  ASSUME NEW pos \in Int, NEW size \in Nat \ {0}
  PROVE  Clip1d(pos, size) = Shown(pos, size)
BY ExtentAssumption DEF Clip1d, Shown, OnScreen

LEMMA AxisSource ==
  ASSUME NEW pos \in Int, NEW size \in Nat \ {0}, NEW flip \in BOOLEAN
  PROVE  SpriteAxis(pos, size, flip)
           = [p \in Shown(pos, size) |-> IF flip THEN size - 1 - (p - pos) ELSE p - pos]
<1>1. Clip1d(pos, size) = Shown(pos, size)  BY ClipShown
<1>2. \A p \in Shown(pos, size) : p \in Int  BY DEF Shown, OnScreen
<1> DEFINE start == IF pos < 0 THEN -pos ELSE 0
<1>3. ASSUME NEW p \in Shown(pos, size) PROVE start + (p - (pos + start)) = p - pos
  BY <1>2
<1> QED BY <1>1, <1>3 DEF SpriteAxis

LEMMA BorderShown ==
  ASSUME NEW x \in Int, NEW y \in Int, NEW w \in Nat \ {0}, NEW h \in Nat \ {0}
  PROVE  Rect(x, y, w, h)
           = {p \in Shown(x, w) \X Shown(y, h) :
                p[1] \in {x, x + w - 1} \/ p[2] \in {y, y + h - 1}}
<1> DEFINE border(p) == p[1] \in {x, x + w - 1} \/ p[2] \in {y, y + h - 1}
           S == {p \in Shown(x, w) \X Shown(y, h) : border(p)}
<1>1. Clip1d(x, w) = Shown(x, w) /\ Clip1d(y, h) = Shown(y, h)  BY ClipShown
<1>2. /\ \A v \in {y, y + h - 1} : v \in OnScreen <=> v \in Shown(y, h)
      /\ \A v \in {x, x + w - 1} : v \in OnScreen <=> v \in Shown(x, w)
  BY DEF Shown, OnScreen
<1>3. /\ HLine(x, y, w) = {p \in Shown(x, w) \X Shown(y, h) : p[2] = y}
      /\ HLine(x, y + h - 1, w) = {p \in Shown(x, w) \X Shown(y, h) : p[2] = y + h - 1}
  BY <1>1, <1>2 DEF HLine
<1>4. /\ VLine(x, y, h) = {p \in Shown(x, w) \X Shown(y, h) : p[1] = x}
      /\ VLine(x + w - 1, y, h) = {p \in Shown(x, w) \X Shown(y, h) : p[1] = x + w - 1}
  BY <1>1, <1>2 DEF VLine
<1> QED BY <1>3, <1>4 DEF Rect

LEMMA SpritesAreCut == KernelInv /\ Task("sprite") => BlitsAreCut
<1> SUFFICES ASSUME KernelInv, Task("sprite") PROVE BlitsAreCut
  OBVIOUS
<1> DEFINE x == given[2]
           y == given[3]
           s == given[4]
           source(pos, size, flip, p) == IF flip THEN size - 1 - (p - pos) ELSE p - pos
           whole == [p \in Shown(x, s.w) \X Shown(y, s.h) |->
                       source(y, s.h, given[6], p[2]) * s.w + source(x, s.w, given[5], p[1])]
           border(p) == p[1] \in {x, x + s.w - 1} \/ p[2] \in {y, y + s.h - 1}
<1>1. x \in Int /\ y \in Int /\ s.w \in Nat \ {0} /\ s.h \in Nat \ {0}
      /\ given[5] \in BOOLEAN /\ given[6] \in BOOLEAN
  BY KernelAssumption DEF KernelInv, SpriteState
<1>2. SpriteAxis(x, s.w, given[5]) = [p \in Shown(x, s.w) |-> source(x, s.w, given[5], p)]
  BY <1>1, AxisSource
<1>3. SpriteAxis(y, s.h, given[6]) = [p \in Shown(y, s.h) |-> source(y, s.h, given[6], p)]
  BY <1>1, AxisSource
<1>4. SpriteCopy(s, x, y, given[5], given[6]) = whole
  BY <1>2, <1>3 DEF SpriteCopy
<1>5. DOMAIN SpriteMask(s, x, y, given[5], given[6])
        = {p \in DOMAIN whole : whole[p] \in s.mask}
  BY <1>4 DEF SpriteMask, Restrict
<1>6. FRect(x, y, s.w, s.h) = DOMAIN whole
  BY <1>1, ClipShown DEF FRect
<1>7. Rect(x, y, s.w, s.h) = {p \in DOMAIN whole : border(p)}
  <2>1. Rect(x, y, s.w, s.h) = {p \in Shown(x, s.w) \X Shown(y, s.h) : border(p)}
    <3> DEFINE w == s.w
               h == s.h
    <3>1. w \in Nat \ {0} /\ h \in Nat \ {0}  BY <1>1
    <3> HIDE DEF x, y, w, h
    <3>2. Rect(x, y, w, h)
            = {p \in Shown(x, w) \X Shown(y, h) :
                 p[1] \in {x, x + w - 1} \/ p[2] \in {y, y + h - 1}}
      BY <1>1, <3>1, BorderShown
    <3> QED BY <3>2 DEF w, h
  <2>2. DOMAIN whole = Shown(x, s.w) \X Shown(y, s.h)  OBVIOUS
  <2> HIDE DEF whole
  <2> QED BY <2>1, <2>2
<1>8. ~Task("sky")  BY DEF Task
<1> QED BY <1>4, <1>5, <1>6, <1>7, <1>8 DEF BlitsAreCut

-----------------------------------------------------------------------------
(* The sky. *)
LEMMA Quotient ==
  ASSUME NEW n \in Nat, NEW d \in Nat \ {0}, NEW q \in Nat, n < q * d
  PROVE  n \div d \in 0 .. q - 1
<1> DEFINE k == n \div d
           m == n % d
<1>1. k \in Int /\ m \in Int /\ 0 <= m /\ m < d /\ n = d * k + m
  OBVIOUS
<1> HIDE DEF k, m
<1>2. k >= 0
  <2>1. SUFFICES ASSUME -k >= 1 PROVE FALSE  BY <1>1
  <2>2. d * (-k) >= d  BY <1>1, <2>1, MulAtLeast
  <2>3. d * (-k) = -(d * k)  BY <1>1
  <2> QED BY <1>1, <2>2, <2>3
<1>3. k < q
  <2>1. SUFFICES ASSUME k >= q PROVE FALSE  BY <1>1
  <2>2. (k - q) \in Nat /\ d * (k - q) \in Nat  BY <1>1, <2>1
  <2>3. d * (k - q) = d * k - q * d  BY <1>1
  <2> QED BY <1>1, <2>2, <2>3
<1> QED BY <1>1, <1>2, <1>3 DEF k

LEMMA RowInside ==
  ASSUME NEW r \in SkyRect, NEW dy \in Nat, NEW elevation \in Int
  PROVE  SourceRow(r, dy, elevation) \in 0 .. r.src_h - 1
<1>1. r.h \in Nat \ {0} /\ r.src_h \in Nat \ {0}  BY KernelAssumption
<1> DEFINE n == dy * r.src_h
           k == n \div r.h
<1>2. n \in Nat  BY <1>1
<1>3. k \in Int  BY <1>1, <1>2
<1> HIDE DEF k
<1> DEFINE sy == k + elevation
<1>4. sy \in Int  BY <1>3
<1>5. SourceRow(r, dy, elevation)
        = IF sy < 0 THEN 0 ELSE IF sy >= r.src_h THEN r.src_h - 1 ELSE sy
  BY DEF SourceRow, k
<1> HIDE DEF sy
<1> QED BY <1>1, <1>4, <1>5

LEMMA SkyPixel ==
  ASSUME NEW r \in SkyRect, NEW p \in BlitPx(r)
  PROVE  /\ p[1] \in OnScreen /\ p[2] \in OnScreen
         /\ p[1] - r.x \in 0 .. r.w - 1
         /\ p[2] - r.y \in 0 .. r.h - 1
BY DEF BlitPx

LEMMA PanoramaInside ==
  ASSUME NEW r \in SkyRect, NEW p \in BlitPx(r)
  PROVE  Panorama(r)[p] \in (0 .. r.src_w - 1) \X (0 .. r.src_h - 1)
<1>1. r.src_w \in Nat \ {0} /\ r.scroll \in Nat /\ r.w \in Nat /\ r.h \in Nat
      /\ r.elevation \in Int
  BY KernelAssumption
<1> DEFINE dx == p[1] - r.x
           dy == p[2] - r.y
<1>2. dx \in Nat /\ dy \in Nat  BY <1>1, SkyPixel
<1> HIDE DEF dx, dy
<1>3. (r.scroll + dx) % r.src_w \in 0 .. r.src_w - 1
  <2>1. r.scroll + dx \in Int  BY <1>1, <1>2
  <2>2. \A n \in Int : n % r.src_w \in 0 .. r.src_w - 1  BY <1>1, RemainderInRange
  <2> QED BY <2>1, <2>2, Zenon
<1>4. SourceRow(r, dy, r.elevation) \in 0 .. r.src_h - 1  BY <1>1, <1>2, RowInside
<1>5. Panorama(r)[p] = <<(r.scroll + dx) % r.src_w, SourceRow(r, dy, r.elevation)>>
  BY DEF Panorama, dx, dy
<1> QED BY <1>3, <1>4, <1>5

LEMMA CloudsInside ==
  ASSUME NEW r \in SkyRect, NEW p \in BlitPx(r)
  PROVE  Clouds(r)[p] \in (0 .. r.src_w - 1) \X (0 .. r.src_h - 1)
<1>1. r.src_w \in Nat \ {0} /\ r.w \in Nat \ {0} /\ r.h \in Nat
  BY KernelAssumption
<1> DEFINE dx == p[1] - r.x
           dy == p[2] - r.y
<1>2. dx \in Nat /\ dy \in Nat /\ dx < r.w  BY <1>1, SkyPixel
<1> HIDE DEF dx, dy
<1>3. (dx * r.src_w) \div r.w \in 0 .. r.src_w - 1
  <2> DEFINE n == dx * r.src_w
             sw == r.src_w
             w == r.w
  <2>1. n \in Nat  BY <1>1, <1>2
  <2>2. w - dx \in Nat /\ w - dx >= 1  BY <1>1, <1>2
  <2>3. sw * (w - dx) >= sw  BY <1>1, <2>2, MulAtLeast
  <2>4. sw * (w - dx) = sw * w - n  BY <1>1, <1>2
  <2>5. n < sw * w  BY <1>1, <2>1, <2>3, <2>4
  <2> HIDE DEF n, sw, w
  <2>6. n \div w \in 0 .. sw - 1  BY <1>1, <2>1, <2>5, Quotient DEF sw, w
  <2> QED BY <2>6 DEF n, sw, w
<1>6. \A e \in Int : SourceRow(r, dy, e) \in 0 .. r.src_h - 1  BY <1>1, <1>2, RowInside
<1>4. SourceRow(r, dy, 0) \in 0 .. r.src_h - 1  BY <1>6
<1>5. Clouds(r)[p] = <<(dx * r.src_w) \div r.w, SourceRow(r, dy, 0)>>
  BY DEF Clouds, dx, dy
<1> QED BY <1>3, <1>4, <1>5

LEMMA NoSeam ==
  ASSUME NEW r \in SkyRect, NEW p \in BlitPx(r), <<p[1] + 1, p[2]>> \in BlitPx(r)
  PROVE  Panorama(r)[<<p[1] + 1, p[2]>>][1] = (Panorama(r)[p][1] + 1) % r.src_w
<1>1. r.src_w \in Nat \ {0} /\ r.scroll \in Nat /\ r.w \in Nat /\ r.x \in Int
  BY KernelAssumption
<1>2. p[1] \in Int  BY SkyPixel DEF OnScreen
<1>3. p[1] - r.x \in Nat  BY <1>1, SkyPixel
<1> DEFINE n == r.scroll + (p[1] - r.x)
           b == r.src_w
<1>4. n \in Nat /\ r.scroll + ((p[1] + 1) - r.x) = n + 1  BY <1>1, <1>2, <1>3
<1>5. Panorama(r)[p][1] = n % b  BY DEF Panorama
<1>6. Panorama(r)[<<p[1] + 1, p[2]>>][1] = (n + 1) % b
  BY <1>4 DEF Panorama
<1>7. n * 1 = n /\ (n + 1) * 1 = n + 1  BY <1>4
<1>8. ((((n * 1) % b) + 1) % b) = (((n + 1) * 1) % b)
  BY <1>1, <1>4, StepsModulo
<1> QED BY <1>5, <1>6, <1>7, <1>8

LEMMA Ends ==
  ASSUME NEW c \in Nat, NEW d \in Nat
  PROVE  /\ Least({c, d}) \in Nat /\ Least({c, d}) <= c /\ Least({c, d}) <= d
         /\ Greatest({c, d}) \in Nat /\ c <= Greatest({c, d}) /\ d <= Greatest({c, d})
         /\ \A n \in Int : (c <= n /\ n <= d) \/ (d <= n /\ n <= c) =>
              n >= Least({c, d}) /\ n <= Greatest({c, d})
<1>1. Least({c, d}) \in {c, d} /\ \A k \in {c, d} : Least({c, d}) <= k
  <2>1. {c, d} \in SUBSET Nat /\ {c, d} # {}  OBVIOUS
  <2> QED BY <2>1, LeastIn
<1>2. Greatest({c, d}) \in {c, d} /\ \A k \in {c, d} : Greatest({c, d}) >= k
  <2>1. \E m \in {c, d} : \A k \in {c, d} : m >= k
    <3>1. CASE c <= d  BY <3>1
    <3>2. CASE d <= c  BY <3>2
    <3> QED BY <3>1, <3>2
  <2> QED BY <2>1 DEF Greatest
<1> DEFINE l == Least({c, d})
           g == Greatest({c, d})
<1>3. l \in Nat /\ l <= c /\ l <= d  BY <1>1
<1>4. g \in Nat /\ g >= c /\ g >= d  BY <1>2
<1> HIDE DEF l, g
<1>5. \A n \in Int : (c <= n /\ n <= d) \/ (d <= n /\ n <= c) => n >= l /\ n <= g
  BY <1>3, <1>4
<1> QED BY <1>3, <1>4, <1>5 DEF l, g

(* The part of a way that is gone is no more than the way. *)
LEMMA PartOfWay ==
  ASSUME NEW d \in Nat, NEW span \in Nat \ {0}, NEW t \in 0 .. span
  PROVE  (d * t) \div span \in 0 .. d
<1>1. d * t \in Nat  OBVIOUS
<1>2. d * t <= d * span
  <2>1. span - t \in Nat  OBVIOUS
  <2>2. d * (span - t) \in Nat  BY <2>1
  <2>3. d * (span - t) = d * span - d * t  OBVIOUS
  <2> QED BY <1>1, <2>2, <2>3
<1>3. d * t < (d + 1) * span
  <2>1. (d + 1) * span = d * span + span  OBVIOUS
  <2>2. d * span \in Nat  OBVIOUS
  <2> QED BY <1>1, <1>2, <2>1, <2>2
<1>4. d + 1 \in Nat /\ (d + 1) - 1 = d  OBVIOUS
<1> QED BY <1>1, <1>3, <1>4, Quotient

LEMMA TruncWay ==
  ASSUME NEW d \in Int, NEW span \in Nat \ {0}, NEW t \in 0 .. span
  PROVE  LET q == TruncDiv(d * t, span)
         IN  q \in Int /\ ((0 <= q /\ q <= d) \/ (d <= q /\ q <= 0))
<1>1. Abs(span) = span  BY DEF Abs
<1>2. ~(span < 0)  OBVIOUS
<1>3. CASE d >= 0
  <2>1. d * t \in Nat  BY <1>3
  <2>2. Abs(d * t) = d * t /\ ~(d * t < 0)  BY <2>1 DEF Abs
  <2>3. TruncDiv(d * t, span) = (d * t) \div span  BY <1>1, <1>2, <2>2 DEF TruncDiv
  <2> DEFINE q == (d * t) \div span
  <2>4. q \in 0 .. d  BY <1>3, PartOfWay
  <2>5. TruncDiv(d * t, span) = q  BY <2>3
  <2> HIDE DEF q
  <2> QED BY <1>3, <2>4, <2>5
<1>4. CASE d < 0 /\ t = 0
  <2>1. d * t = 0  BY <1>4
  <2>2. 0 \div span = 0
    <3>1. 0 \div span \in 0 .. 1 - 1  BY Quotient
    <3> QED BY <3>1
  <2>3. TruncDiv(0, span) = 0  BY <1>1, <1>2, <2>2 DEF TruncDiv, Abs
  <2> QED BY <1>4, <2>1, <2>3
<1>5. CASE d < 0 /\ t # 0
  <2> DEFINE e == -d
  <2>1. e \in Nat \ {0} /\ d = -e  BY <1>5
  <2> HIDE DEF e
  <2>2. e * t \in Nat /\ e * t >= 1
    <3>1. e * t >= e  BY <1>5, <2>1, MulAtLeast
    <3> QED BY <2>1, <3>1
  <2>3. d * t = -(e * t)  BY <2>1
  <2>4. d * t < 0 /\ Abs(d * t) = e * t  BY <2>2, <2>3 DEF Abs
  <2>5. TruncDiv(d * t, span) = -((e * t) \div span)
    BY <1>1, <1>2, <2>4 DEF TruncDiv
  <2>6. (e * t) \div span \in 0 .. e  BY <2>1, PartOfWay
  <2> QED BY <2>1, <2>5, <2>6
<1> QED BY <1>3, <1>4, <1>5

LEMMA GradientBetween ==
  ASSUME NEW r \in SkyRect, NEW y \in Int, y - r.y \in Nat,
         NEW top \in Nat, NEW horizon \in Nat
  PROVE  /\ Gradient(r, y, top, horizon) \in Int
         /\ Gradient(r, y, top, horizon) >= Least({top, horizon})
         /\ Gradient(r, y, top, horizon) <= Greatest({top, horizon})
<1> DEFINE span == r.horizon - r.y
           dy == y - r.y
           t == IF dy > span THEN span ELSE dy
           g == Gradient(r, y, top, horizon)
           d == horizon - top
           q == TruncDiv(d * t, span)
<1>1. span \in Int /\ dy \in Nat /\ d \in Int  BY KernelAssumption
<1>2. g = IF span <= 0 THEN horizon ELSE top + q  BY DEF Gradient
<1> HIDE DEF span, dy, g
<1>3. CASE span <= 0
  <2>1. g = horizon  BY <1>2, <1>3
  <2>2. horizon >= Least({top, horizon}) /\ horizon <= Greatest({top, horizon})  BY Ends
  <2> QED BY <2>1, <2>2 DEF g
<1>4. CASE span > 0
  <2>1. span \in Nat \ {0} /\ t \in 0 .. span  BY <1>1, <1>4
  <2> HIDE DEF t, d
  <2>2. q \in Int /\ ((0 <= q /\ q <= d) \/ (d <= q /\ q <= 0))  BY <1>1, <2>1, TruncWay
  <2> HIDE DEF q
  <2>3. g = top + q  BY <1>1, <1>2, <1>4
  <2>4. g \in Int /\ ((top <= g /\ g <= horizon) \/ (horizon <= g /\ g <= top))
    BY <2>2, <2>3 DEF d
  <2>5. g >= Least({top, horizon}) /\ g <= Greatest({top, horizon})  BY <2>4, Ends
  <2> QED BY <2>4, <2>5 DEF g
<1> QED BY <1>1, <1>3, <1>4

LEMMA CloudBetween ==
  ASSUME NEW a \in 0 .. 255, NEW cloud \in 0 .. 255, NEW g \in 0 .. 255
  PROVE  /\ Over8(a, cloud, g) >= Least({cloud, g})
         /\ Over8(a, cloud, g) <= Greatest({cloud, g})
<1>1. Over8(a, cloud, g) = Mix(cloud, g, a)
  <2>1. a * cloud = cloud * a /\ (255 - a) * g = g * (255 - a)  OBVIOUS
  <2> QED BY <2>1 DEF Over8, Mix
<1> DEFINE v == Mix(cloud, g, a)
<1>2. v \in Int /\ ((cloud <= v /\ v <= g) \/ (g <= v /\ v <= cloud))
  <2>1. cloud <= cloud /\ g <= g  OBVIOUS
  <2>2. CASE cloud <= g
    <3>1. v \in 0 .. 255 /\ cloud <= v /\ v <= g  BY <2>1, <2>2, Mixed
    <3> HIDE DEF v
    <3> QED BY <3>1
  <2>3. CASE g <= cloud
    <3>1. v \in 0 .. 255 /\ g <= v /\ v <= cloud  BY <2>1, <2>3, Mixed
    <3> HIDE DEF v
    <3> QED BY <3>1
  <2> QED BY <2>2, <2>3
<1> HIDE DEF v
<1>3. v >= Least({cloud, g}) /\ v <= Greatest({cloud, g})
  <2>1. \A n \in Int : ((cloud <= n /\ n <= g) \/ (g <= n /\ n <= cloud)) =>
          n >= Least({cloud, g}) /\ n <= Greatest({cloud, g})
    <3>1. cloud \in Nat /\ g \in Nat  OBVIOUS
    <3> QED BY <3>1, Ends
  <2> QED BY <1>2, <2>1
<1> QED BY <1>1, <1>3 DEF v

LEMMA SkiesAreCut == KernelInv /\ Task("sky") => BlitsAreCut
<1> SUFFICES ASSUME KernelInv, Task("sky") PROVE BlitsAreCut
  OBVIOUS
<1> DEFINE r == given[2]
           source == (0 .. r.src_w - 1) \X (0 .. r.src_h - 1)
           sky == Panorama(r)
           between(n, c, d) == n >= Least({c, d}) /\ n <= Greatest({c, d})
<1>1. r \in SkyRect  BY DEF KernelInv
<1>2. DOMAIN sky = BlitPx(r)  BY DEF Panorama
<1> HIDE DEF r
<1>3. ASSUME NEW p \in BlitPx(r) PROVE sky[p] \in source /\ Clouds(r)[p] \in source
  BY <1>1, PanoramaInside, CloudsInside
<1>4. ASSUME NEW p \in BlitPx(r), <<p[1] + 1, p[2]>> \in BlitPx(r)
      PROVE  sky[<<p[1] + 1, p[2]>>][1] = (sky[p][1] + 1) % r.src_w
  BY <1>1, <1>4, NoSeam
<1>5. ASSUME NEW p \in BlitPx(r), NEW top \in Channel[5], NEW horizon \in Channel[5]
      PROVE  LET g == Gradient(r, p[2], top, horizon)
             IN  /\ between(g, top, horizon)
                 /\ \A cloud \in Channel[5] : \A a \in Alpha :
                      between(Over8(a, cloud, g), cloud, g)
  <2> DEFINE g == Gradient(r, p[2], top, horizon)
  <2>1. \A c \in Channel[5] : c \in 0 .. 31  BY KernelAssumption
  <2>2. top \in 0 .. 31 /\ horizon \in 0 .. 31  BY <2>1
  <2>3. p[2] \in Int /\ r.h \in Nat
    <3>1. p[2] \in OnScreen  BY <1>1, SkyPixel
    <3>2. OnScreen \subseteq Int  BY ExtentAssumption DEF OnScreen
    <3>3. r.h \in Nat \ {0}  BY <1>1, KernelAssumption
    <3> QED BY <3>1, <3>2, <3>3
  <2>4. p[2] - r.y \in Nat
    <3>1. p[2] - r.y \in 0 .. r.h - 1  BY <1>1, SkyPixel
    <3> QED BY <2>3, <3>1
  <2>5. g \in Int /\ between(g, top, horizon)
    <3>1. top \in Nat /\ horizon \in Nat  BY <2>2
    <3> QED BY <1>1, <2>3, <2>4, <3>1, GradientBetween, Zenon
  <2>6. Least({top, horizon}) \in {top, horizon} /\ Greatest({top, horizon}) \in {top, horizon}
    <3>1. {top, horizon} \in SUBSET (0 .. 31) /\ {top, horizon} # {}  BY <2>2
    <3>2. {top, horizon} \in SUBSET Nat  BY <3>1
    <3> QED BY <3>1, <3>2, LeastIn, GreatestIn
  <2>7. g \in 0 .. 255  BY <2>2, <2>5, <2>6
  <2> HIDE DEF g
  <2>8. ASSUME NEW cloud \in Channel[5], NEW a \in Alpha
        PROVE  between(Over8(a, cloud, g), cloud, g)
    <3>1. cloud \in 0 .. 255 /\ a \in 0 .. 255  BY <2>1, KernelAssumption
    <3> QED BY <2>7, <3>1, CloudBetween
  <2> QED BY <2>5, <2>8 DEF g
<1>6. ~Task("sprite")  BY DEF Task
<1> HIDE DEF sky
<1> QED BY <1>2, <1>3, <1>4, <1>5, <1>6 DEF BlitsAreCut, r, sky

-----------------------------------------------------------------------------
USE ClockAssumption, WatchdogAssumption, PeriodAssumption, FramesAssumption,
    PathAssumption, ScrollAssumption, MaxPosAssumption, CueDurAssumption

(* The clock of the device within its range, and at its end. *)
LEMMA ClockStep ==
  ASSUME NEW t \in 0 .. ClockRange - 1, NEW d \in 0 .. ClockRange - 1
  PROVE  /\ (t + d) % ClockRange \in 0 .. ClockRange - 1
         /\ t + d < ClockRange => (t + d) % ClockRange = t + d
<1>1. t + d \in Int /\ t + d = 0 * ClockRange + (t + d)  OBVIOUS
<1>2. (t + d) % ClockRange \in 0 .. ClockRange - 1
  BY <1>1, RemainderInRange
<1>3. ASSUME t + d < ClockRange PROVE (t + d) % ClockRange = t + d
  BY <1>1, <1>3, RemainderUnique
<1> QED BY <1>2, <1>3

LEMMA PoseTypeCorrect ==
  ASSUME NEW c \in [mode : {"scripted", "freefly"}, frame : Nat,
                    eye : [Axis -> 0 .. EyeSteps - 1]]
  PROVE  Pose(c) \in PoseType
<1>1. c.frame \in Int /\ PathLen \in Nat \ {0}  OBVIOUS
<1>2. c.frame % PathLen \in 0 .. PathLen - 1  BY <1>1, RemainderInRange
<1> QED BY <1>2 DEF Pose, PoseType

LEMMA NudgedType ==
  ASSUME NEW eye \in [Axis -> 0 .. EyeSteps - 1], NEW held
  PROVE  Nudged(eye, held) \in [Axis -> 0 .. EyeSteps - 1]
<1>1. ASSUME NEW a \in Axis
      PROVE  (eye[a] + (IF Plus[a] \in held THEN 1 ELSE 0)
                     - (IF Minus[a] \in held THEN 1 ELSE 0)) % EyeSteps
               \in 0 .. EyeSteps - 1
  <2>1. eye[a] \in Int  OBVIOUS
  <2>2. eye[a] + (IF Plus[a] \in held THEN 1 ELSE 0)
               - (IF Minus[a] \in held THEN 1 ELSE 0) \in Int
    BY <2>1
  <2> QED BY <2>2, RemainderInRange
<1> QED BY <1>1 DEF Nudged

(* What a reset leaves is what the invariant asks of a boot. *)
LEMMA CameraInitType ==
  /\ CameraInit \in [mode : {"scripted", "freefly"}, frame : Nat,
                     eye : [Axis -> 0 .. EyeSteps - 1]]
  /\ CameraInit.mode = "scripted" /\ CameraInit.frame = 0
  /\ NothingDrawn \in [pose : PoseType, sky : PoseType, phase : 0 .. ScrollPeriod - 1]
  /\ (0 * ScrollDelta) % ScrollPeriod = 0
<1>1. CameraInit \in [mode : {"scripted", "freefly"}, frame : Nat,
                      eye : [Axis -> 0 .. EyeSteps - 1]]
  BY DEF CameraInit
<1>2. Pose(CameraInit) \in PoseType  BY <1>1, PoseTypeCorrect
<1>3. 0 * ScrollDelta = 0 * ScrollPeriod + 0  OBVIOUS
<1>4. (0 * ScrollDelta) % ScrollPeriod = 0
  BY <1>3, RemainderUnique
<1> QED BY <1>1, <1>2, <1>4 DEF CameraInit, NothingDrawn

-----------------------------------------------------------------------------
LEMMA InitOK == Init => IInv
<1> SUFFICES ASSUME Init PROVE IInv  OBVIOUS
<1> USE DEF Init
<1>1. image \in Image  BY ImagesAssumption
<1>2. DemoTypeOK
  <2>1. cam = CameraInit /\ drawn = NothingDrawn  BY DEF DemoInit
  <2>2. scroll = 0 /\ frame = 0 /\ away = 0 /\ since = 0  BY DEF DemoInit
  <2>3. hung \in BOOLEAN /\ odd \in BOOLEAN  BY DEF DemoInit
  <2>4. scroll \in 0 .. ScrollPeriod - 1 /\ since \in 0 .. Period
    BY <2>2 DEF Period
  <2> QED BY <2>1, <2>2, <2>3, <2>4, CameraInitType DEF DemoTypeOK
<1>3. TemplateTypeOK
  <2>1. MaxPos \div 2 \in 0 .. MaxPos  OBVIOUS
  <2>2. app \in [state : {"title", "playing"}, x : 0 .. MaxPos, y : 0 .. MaxPos,
                cue : {"none", "select", "move"}]
    BY <2>1 DEF TemplateInit, AppInit
  <2>3. crossed \in BOOLEAN  BY DEF TemplateInit
  <2>4. due = 0  BY DEF TemplateInit
  <2> QED BY <2>2, <2>3, <2>4 DEF TemplateTypeOK
<1>4. ASSUME image = "demo" PROVE DemoInv
  <2>1. pc = "boot"  BY <1>4
  <2>2. pc \in DemoPc /\ pc \notin Polled  BY <2>1 DEF DemoPc, Polled
  <2>3. Fingers  BY DEF Fingers, PlatInit
  <2>4. Mode  BY <2>2, CameraInitType DEF Mode, DemoInit
  <2>5. Keys  BY <2>1, <2>2, CameraInitType DEF Keys, DemoInit
  <2>6. Fed  BY <2>1 DEF Fed, PlatInit
  <2> QED BY <2>2, <2>3, <2>4, <2>5, <2>6 DEF DemoInv
<1>5. ASSUME image = "template" PROVE ToneInv
  <2>1. pc \in TemplatePc /\ now = 0  BY <1>5 DEF TemplatePc
  <2>2. stop = 0 /\ sound = FALSE /\ due = 0  BY DEF PlatInit, TemplateInit
  <2>3. sound \in BOOLEAN /\ (sound <=> stop # 0)  BY <2>2
  <2> QED BY <2>1, <2>2, <2>3 DEF ToneInv
<1> QED BY <1>1, <1>2, <1>3, <1>4, <1>5 DEF IInv

(* The demo, an action at a time. *)
LEMMA PollKeeps ==
  ASSUME DemoTypeOK, DemoInv, Poll
  PROVE  DemoTypeOK' /\ DemoInv'
<1> USE DEF Poll, PollInput, camera
<1>1. DemoTypeOK'  BY DEF DemoTypeOK, DemoInv, Fingers
<1>2. pc = "poll" /\ pc' = "build"  OBVIOUS
<1>3. pc' \in DemoPc /\ pc' \in Polled /\ pc \in DemoPc \ Polled
  BY <1>2 DEF DemoPc, Polled
<1>4. Fingers'  BY DEF Fingers, DemoInv
<1>5. Mode'
  <2>1. cam.mode = "freefly" <=> odd  BY <1>3 DEF DemoInv, Mode
  <2>2. "A" \in in'.pressed <=> fresh  BY DEF DemoInv, Fingers
  <2>3. odd \in BOOLEAN /\ fresh \in BOOLEAN
    BY DEF DemoInv, Fingers, DemoTypeOK
  <2>4. cam' = cam /\ odd' = (odd # fresh)  OBVIOUS
  <2>5. cam'.mode = "freefly" <=> (odd' # ("A" \in in'.pressed))
    BY <2>1, <2>2, <2>3, <2>4
  <2> QED BY <1>3, <2>5 DEF Mode
<1>6. Keys'  BY <1>2 DEF Keys, DemoInv
<1>7. Fed'  BY <1>2 DEF Fed, DemoInv, watchdog, DemoPc
<1> QED BY <1>1, <1>3, <1>4, <1>5, <1>6, <1>7 DEF DemoInv

LEMMA BootKicks ==
  ASSUME DemoTypeOK, DemoInv, Boot \/ KickDog \/ ExitKick \/ ResetToBootsel
  PROVE  DemoTypeOK' /\ DemoInv'
<1> USE DEF Boot, KickDog, ExitKick, ResetToBootsel, camera, ghosts, demoVars, device, finger
<1>1. cam' = cam /\ scroll' = scroll /\ frame' = frame /\ drawn' = drawn /\ odd' = odd
      /\ away' = away /\ hung' = hung
  OBVIOUS
<1>2. since' = since \/ since' = 0  OBVIOUS
<1>3. DemoTypeOK'  BY <1>1, <1>2 DEF DemoTypeOK, Period
<1>4. /\ pc \in DemoPc \ Polled /\ pc' \in DemoPc \ Polled
  BY DEF DemoPc, Polled
<1>5. Fingers'  BY DEF Fingers, DemoInv
<1>6. Mode'  BY <1>1, <1>4 DEF Mode, DemoInv
<1>7. Keys'
  <2>1. pc' \notin {"submit", "end", "present", "log"}  OBVIOUS
  <2> QED BY <1>1, <1>4, <2>1 DEF Keys, DemoInv, Pose
<1>8. Fed'
  <2>1. since \in 0 .. Period  BY DEF DemoTypeOK
  <2>2. CASE Boot  BY <2>1, <2>2 DEF Fed, DemoInv, DemoPc, Arm, Period
  <2>3. CASE KickDog \/ ExitKick
    BY <2>1, <2>3 DEF Fed, DemoInv, DemoPc, Kick, Period
  <2>4. CASE ResetToBootsel  BY <2>4 DEF Fed
  <2> QED BY <2>2, <2>3, <2>4
<1> QED BY <1>3, <1>4, <1>5, <1>6, <1>7, <1>8 DEF DemoInv

LEMMA DrawKeeps ==
  ASSUME DemoTypeOK, DemoInv, Build \/ FillBlits \/ Stage \/ Log
  PROVE  DemoTypeOK' /\ DemoInv'
<1> USE DEF Build, FillBlits, Stage, Log, ghosts, demoVars, camera, device, finger, watchdog,
            Follows
<1>1. /\ cam' = cam /\ scroll' = scroll /\ frame' = frame /\ odd' = odd /\ away' = away
      /\ hung' = hung /\ since' = since /\ in' = in
  OBVIOUS
<1>2. pc \in Polled /\ pc' \in Polled /\ pc' \in DemoPc  BY DEF Polled, DemoPc
<1>3. Pose(cam) \in PoseType  BY PoseTypeCorrect DEF DemoTypeOK
<1>4. drawn' \in [pose : PoseType, sky : PoseType, phase : 0 .. ScrollPeriod - 1]
  BY <1>3 DEF DemoTypeOK
<1>5. DemoTypeOK'  BY <1>1, <1>4 DEF DemoTypeOK
<1>6. Fingers'  BY DEF Fingers, DemoInv
<1>7. Mode'  BY <1>1, <1>2 DEF Mode, DemoInv, DemoPc
<1>8. Keys'
  <2>1. Pose(cam') = Pose(cam)  BY <1>1
  <2>2. cam'.frame = frame' - away' /\ scroll' = (frame' * ScrollDelta) % ScrollPeriod
    BY <1>1 DEF DemoInv, Keys
  <2>3. CASE Build  BY <1>1, <2>1, <2>2, <2>3 DEF Keys, DemoTypeOK
  <2>4. CASE FillBlits
    BY <1>1, <2>1, <2>2, <2>4 DEF Keys, DemoTypeOK, DemoInv, Polled
  <2>5. CASE Stage \/ Log
    <3>1. drawn' = drawn  BY <2>5
    <3>2. /\ pc \in Polled \ {"build", "advance"}
          /\ pc' \in {"submit", "end", "present", "log"} =>
               pc \in {"submit", "end", "present", "log"}
          /\ pc' \in {"blits", "end", "present", "log", "advance"}
      BY <2>5 DEF Polled
    <3> QED BY <1>1, <2>1, <2>2, <3>1, <3>2 DEF Keys, DemoInv
  <2> QED BY <2>3, <2>4, <2>5
<1>9. Fed'  BY DEF Fed, DemoInv, DemoPc
<1> QED BY <1>2, <1>5, <1>6, <1>7, <1>8, <1>9 DEF DemoInv

LEMMA AdvanceKeeps ==
  ASSUME DemoTypeOK, DemoInv, Advance
  PROVE  DemoTypeOK' /\ DemoInv'
<1> USE DEF Advance
<1> DEFINE CamType == [mode : {"scripted", "freefly"}, frame : Nat,
                       eye : [Axis -> 0 .. EyeSteps - 1]]
           toggled == IF "A" \in in.pressed THEN Toggled(cam.mode) ELSE cam.mode
<1>1. cam \in CamType /\ frame \in Nat /\ away \in Nat /\ odd \in BOOLEAN
  BY DEF DemoTypeOK
<1>2. toggled \in {"scripted", "freefly"} /\ (toggled = "freefly" <=> odd)
  <2>1. cam.mode = "freefly" <=> (odd # ("A" \in in.pressed))
    BY DEF DemoInv, Mode, Polled
  <2>2. cam.mode \in {"scripted", "freefly"}  BY <1>1
  <2> QED BY <1>1, <2>1, <2>2 DEF Toggled
<1>3. Nudged(cam.eye, in.held) \in [Axis -> 0 .. EyeSteps - 1]
  BY <1>1, NudgedType
<1> HIDE DEF toggled
<1>4. /\ cam' \in CamType /\ cam'.mode = toggled
      /\ odd => cam'.frame = cam.frame
      /\ ~odd => cam'.frame = cam.frame + 1
  <2>1. CASE odd
    <3>1. cam' = [cam EXCEPT !.mode = toggled, !.eye = Nudged(cam.eye, in.held)]
      BY <1>2, <2>1 DEF CameraAdvance, toggled
    <3> QED BY <1>1, <1>2, <1>3, <2>1, <3>1
  <2>2. CASE ~odd
    <3>1. cam' = [cam EXCEPT !.mode = toggled, !.frame = cam.frame + 1]
      BY <1>2, <2>2 DEF CameraAdvance, toggled
    <3>2. cam.frame + 1 \in Nat  BY <1>1
    <3> DEFINE next == cam.frame + 1
    <3> HIDE DEF next
    <3>3. /\ [cam EXCEPT !.mode = toggled, !.frame = next] \in CamType
          /\ [cam EXCEPT !.mode = toggled, !.frame = next].mode = toggled
          /\ [cam EXCEPT !.mode = toggled, !.frame = next].frame = next
      BY <1>1, <1>2, <3>2 DEF next
    <3> QED BY <2>2, <3>1, <3>3 DEF next
  <2> HIDE DEF CamType
  <2> QED BY <2>1, <2>2
<1>5. /\ frame' = frame + 1 /\ odd' = odd /\ drawn' = drawn
      /\ away' = IF odd THEN away + 1 ELSE away
  OBVIOUS
<1>6. scroll' = (frame' * ScrollDelta) % ScrollPeriod /\ scroll' \in 0 .. ScrollPeriod - 1
  <2>1. scroll' = (((frame * ScrollDelta) % ScrollPeriod) + ScrollDelta) % ScrollPeriod
    BY DEF DemoInv, Keys, ScrollAdvance
  <2>2. scroll' = (frame' * ScrollDelta) % ScrollPeriod
    BY <1>1, <1>5, <2>1, StepsModulo
  <2>3. frame' * ScrollDelta \in Int  BY <1>1, <1>5
  <2> QED BY <2>2, <2>3, RemainderInRange
<1>7. DemoTypeOK'  BY <1>1, <1>4, <1>5, <1>6 DEF DemoTypeOK, Period
<1>8. pc = "advance" /\ pc' \in {"exit", "top"}  OBVIOUS
<1>9. pc' \in DemoPc \ Polled  BY <1>8 DEF DemoPc, Polled
<1>10. Fingers'  BY DEF Fingers, DemoInv, device, finger
<1>11. Mode'  BY <1>2, <1>4, <1>5, <1>9 DEF Mode
<1>12. Keys'
  <2>1. cam.frame = frame - away  BY DEF DemoInv, Keys
  <2>2. cam'.frame = frame' - away'  BY <1>1, <1>4, <1>5, <2>1
  <2>3. pc' \notin {"submit", "end", "present", "log"}  BY <1>8
  <2> QED BY <1>6, <1>9, <2>2, <2>3 DEF Keys
<1>13. Fed'  BY <1>8 DEF Fed, DemoInv, DemoPc, watchdog
<1> QED BY <1>7, <1>9, <1>10, <1>11, <1>12, <1>13 DEF DemoInv

(* A reset clears what polls have left, not what fingers hold down. *)
LEMMA ResetKeeps ==
  ASSUME DemoTypeOK, DemoInv, ChipReset
  PROVE  DemoTypeOK' /\ DemoInv'
<1> USE DEF ChipReset, PlatReset
<1>1. /\ cam' = CameraInit /\ drawn' = NothingDrawn /\ scroll' = 0 /\ frame' = 0
      /\ since' = 0 /\ away' = 0 /\ pc' = "boot" /\ pad' = pad /\ heldPrev' = {}
      /\ armed' = 0 /\ dog' = 0
  OBVIOUS
<1>2. odd' = FALSE /\ hung' = FALSE /\ lifted' = FALSE /\ fresh' = ("A" \in pad)
  OBVIOUS
<1>3. DemoTypeOK'
  <2>1. hung' \in BOOLEAN /\ odd' \in BOOLEAN  BY <1>2
  <2>2. scroll' \in 0 .. ScrollPeriod - 1 /\ since' \in 0 .. Period
    BY <1>1 DEF Period
  <2> QED BY <1>1, <2>1, <2>2, CameraInitType DEF DemoTypeOK
<1>4. pc' \in DemoPc \ Polled  BY <1>1 DEF DemoPc, Polled
<1>5. Fingers'
  <2>1. fresh' \in BOOLEAN  BY <1>2
  <2>4. lifted' \in BOOLEAN  BY <1>2
  <2>2. "A" \notin heldPrev' /\ ~lifted'  BY <1>1, <1>2
  <2>3. fresh' <=> "A" \in pad'  BY <1>1, <1>2
  <2> QED BY <2>1, <2>2, <2>3, <2>4 DEF Fingers
<1>6. Mode'  BY <1>1, <1>2, <1>4, CameraInitType DEF Mode
<1>7. Keys'
  <2>1. cam'.frame = frame' - away'  BY <1>1, CameraInitType
  <2>2. scroll' = (frame' * ScrollDelta) % ScrollPeriod  BY <1>1, CameraInitType
  <2> QED BY <1>1, <1>4, <2>1, <2>2 DEF Keys
<1>8. Fed'  BY <1>1 DEF Fed
<1> QED BY <1>3, <1>4, <1>5, <1>6, <1>7, <1>8 DEF DemoInv

LEMMA TickKeeps ==
  ASSUME DemoTypeOK, DemoInv, DemoTick
  PROVE  DemoTypeOK' /\ DemoInv'
<1>1. CASE DogBites /\ ChipReset  BY <1>1, ResetKeeps
<1>2. CASE ~DogBites /\ ~(DogBites /\ ChipReset)
  <2> USE DEF DemoTick, camera, device, finger
  <2>1. /\ cam' = cam /\ scroll' = scroll /\ frame' = frame /\ drawn' = drawn
        /\ odd' = odd /\ away' = away /\ hung' = hung /\ pc' = pc /\ in' = in
        /\ armed' = armed
        /\ dog' = (IF armed # 0 THEN dog + 1 ELSE 0)
        /\ since' = (IF since < Period THEN since + 1 ELSE since)
    BY <1>2
  <2>2. since \in 0 .. Period /\ Period \in Nat  BY DEF DemoTypeOK, Period
  <2>3. DemoTypeOK'  BY <2>1, <2>2 DEF DemoTypeOK
  <2>4. Fingers'  BY <1>2 DEF Fingers, DemoInv
  <2>5. Mode'  BY <2>1 DEF Mode, DemoInv
  <2>6. Keys'  BY <2>1 DEF Keys, DemoInv, Pose
  <2>7. Fed'
    <3>1. Fed  BY DEF DemoInv
    <3>2. dog' \in Nat  BY <2>1, <3>1 DEF Fed
    <3>3. pc \in {"boot", "bootsel"} => armed' = 0  BY <2>1, <3>1 DEF Fed
    <3>4. ASSUME pc \in DemoPc \ {"boot", "bootsel"}
          PROVE  armed' = Period /\ (since' < Period => dog' <= since')
      BY <2>1, <2>2, <3>1, <3>4 DEF Fed
    <3> QED BY <2>1, <3>2, <3>3, <3>4 DEF Fed
  <2>8. pc' \in DemoPc  BY <2>1 DEF DemoInv
  <2> QED BY <2>3, <2>4, <2>5, <2>6, <2>7, <2>8 DEF DemoInv
<1> QED BY <1>1, <1>2 DEF DemoTick

LEMMA FingerKeeps ==
  ASSUME DemoTypeOK, DemoInv, DemoFinger
  PROVE  DemoTypeOK' /\ DemoInv'
<1> USE DEF DemoFinger, demoVars, camera, ghosts, device, watchdog
<1>1. /\ cam' = cam /\ scroll' = scroll /\ frame' = frame /\ drawn' = drawn
      /\ odd' = odd /\ away' = away /\ hung' = hung /\ pc' = pc /\ in' = in
      /\ armed' = armed /\ dog' = dog /\ since' = since /\ heldPrev' = heldPrev
  OBVIOUS
<1>2. Fingers'
  <2>1. Fingers  BY DEF DemoInv
  <2>2. PICK b \in Button : Press(b) \/ Release(b)  OBVIOUS
  <2>3. CASE Press(b)
    <3>1. /\ b \notin pad /\ pad' = pad \cup {b}
          /\ fresh' = (fresh \/ (b = "A" /\ ~lifted)) /\ lifted' = lifted
      BY <2>3 DEF Press
    <3>2. CASE b = "A"  BY <1>1, <2>1, <3>1, <3>2 DEF Fingers
    <3>3. CASE b # "A"  BY <1>1, <2>1, <3>1, <3>3 DEF Fingers
    <3> QED BY <3>2, <3>3
  <2>4. CASE Release(b)
    <3>1. /\ b \in pad /\ pad' = pad \ {b}
          /\ fresh' = (fresh /\ b # "A")
          /\ lifted' = (lifted \/ (b = "A" /\ ~fresh))
      BY <2>4 DEF Release
    <3>2. CASE b = "A"  BY <1>1, <2>1, <3>1, <3>2 DEF Fingers
    <3>3. CASE b # "A"  BY <1>1, <2>1, <3>1, <3>3 DEF Fingers
    <3> QED BY <3>2, <3>3
  <2> QED BY <2>2, <2>3, <2>4
<1>3. DemoTypeOK'  BY <1>1 DEF DemoTypeOK
<1>4. pc' \in DemoPc /\ Mode'  BY <1>1 DEF Mode, DemoInv
<1>5. Keys'  BY <1>1 DEF Keys, DemoInv, Pose
<1>6. Fed'  BY <1>1 DEF Fed, DemoInv
<1> QED BY <1>2, <1>3, <1>4, <1>5, <1>6 DEF DemoInv

LEMMA HangKeeps ==
  ASSUME DemoTypeOK, DemoInv, Hang
  PROVE  DemoTypeOK' /\ DemoInv'
<1> USE DEF Hang, platformVars, camera, ghosts, device, watchdog, finger
<1>1. /\ cam' = cam /\ scroll' = scroll /\ frame' = frame /\ drawn' = drawn
      /\ odd' = odd /\ away' = away /\ hung' = TRUE /\ pc' = pc /\ in' = in
      /\ armed' = armed /\ dog' = dog /\ since' = since /\ heldPrev' = heldPrev
      /\ pad' = pad /\ fresh' = fresh /\ lifted' = lifted
  OBVIOUS
<1>2. hung' \in BOOLEAN  BY <1>1
<1>3. DemoTypeOK'  BY <1>1, <1>2 DEF DemoTypeOK
<1>4. pc' \in DemoPc /\ Mode' /\ Fingers'  BY <1>1 DEF Mode, Fingers, DemoInv
<1>5. Keys'  BY <1>1 DEF Keys, DemoInv, Pose
<1>6. Fed'  BY <1>1 DEF Fed, DemoInv
<1> QED BY <1>3, <1>4, <1>5, <1>6 DEF DemoInv

LEMMA DemoKeeps ==
  ASSUME IInv, Demo /\ DemoNext
  PROVE  IInv'
<1>1. image = "demo" /\ image' = image
  BY DEF Demo, DemoNext, DemoStep, Boot, KickDog, Poll, Build, FillBlits, Stage, Log,
         Advance, ExitKick, ResetToBootsel, DemoTick, DemoFinger, Hang, Flash, ChipReset,
         platformVars
<1>2. DemoTypeOK /\ DemoInv  BY <1>1 DEF IInv
<1>3. DemoTypeOK' /\ DemoInv'
  BY <1>2, PollKeeps, BootKicks, DrawKeeps, AdvanceKeeps, ResetKeeps, TickKeeps,
     FingerKeeps, HangKeeps DEF DemoNext, DemoStep, Flash
<1>4. TemplateTypeOK'  BY DEF Demo, templateVars, TemplateTypeOK, IInv
<1> QED BY <1>1, <1>3, <1>4 DEF IInv

-----------------------------------------------------------------------------
(* The template. A tone that is set while the clock will not pass 0 ends   *)
(* at a later value; one step of the clock takes one unit off it.          *)
LEMMA PlayType ==
  ASSUME TemplateTypeOK, AppTick
  PROVE  app' \in [state : {"title", "playing"}, x : 0 .. MaxPos, y : 0 .. MaxPos,
                   cue : {"none", "select", "move"}]
<1> DEFINE AppType == [state : {"title", "playing"}, x : 0 .. MaxPos, y : 0 .. MaxPos,
                       cue : {"none", "select", "move"}]
<1>1. app \in AppType  BY DEF TemplateTypeOK
<1>2. \A v \in Int : Clamped(v) \in 0 .. MaxPos  BY DEF Clamped
<1>3. \A v \in 0 .. MaxPos : \A held, minus, plus :
        Moved(v, held, minus, plus) \in 0 .. MaxPos
  BY <1>2 DEF Moved
<1>4. CASE app.state = "title" /\ "A" \in in.pressed
  <2>1. PICK x0, y0 \in 0 .. MaxPos - 1 : app' = StartGame(app, x0, y0)
    BY <1>4 DEF AppTick
  <2> QED BY <2>1 DEF StartGame
<1>5. CASE app' = app  BY <1>1, <1>5
<1>6. CASE app' = Play(app, in)
  <2>1. app.x \in 0 .. MaxPos /\ app.y \in 0 .. MaxPos  BY <1>1
  <2>2. /\ Moved(app.x, in.held, "LEFT", "RIGHT") \in 0 .. MaxPos
        /\ Moved(app.y, in.held, "UP", "DOWN") \in 0 .. MaxPos
    BY <1>3, <2>1
  <2> QED BY <1>1, <1>6, <2>2 DEF Play
<1> QED BY <1>4, <1>5, <1>6 DEF AppTick

LEMMA CueKeeps ==
  ASSUME TemplateTypeOK, ToneInv, Cue
  PROVE  TemplateTypeOK' /\ ToneInv'
<1> USE DEF Cue
<1>1. app' \in [state : {"title", "playing"}, x : 0 .. MaxPos, y : 0 .. MaxPos,
                cue : {"none", "select", "move"}]
  BY DEF TemplateTypeOK
<1>2. pc' \in TemplatePc /\ now' = now  BY DEF TemplatePc
<1>3. CASE app.cue # "none"
  <2> DEFINE d == CueDur[app.cue]
  <2>1. d \in 1 .. ClockRange - 1  BY <1>3 DEF TemplateTypeOK
  <2>2. /\ sound' = TRUE /\ stop' = (now + d) % ClockRange /\ due' = d
        /\ crossed' = (now + d >= ClockRange)
    BY <1>3, <2>1 DEF PlatAudio
  <2> HIDE DEF d
  <2>3. /\ stop' \in 0 .. ClockRange - 1
        /\ now + d < ClockRange => stop' = now + d
    BY <2>1, <2>2, ClockStep DEF ToneInv
  <2>4. now \in 0 .. ClockRange - 1  BY DEF ToneInv
  <2>5. ASSUME ~crossed' PROVE stop' = now' + due' /\ due' > 0 /\ stop' # 0
    <3>1. ~(now + d >= ClockRange)  BY <2>2, <2>5
    <3>2. now + d < ClockRange  BY <2>1, <2>4, <3>1
    <3>3. stop' = now + d /\ due' = d  BY <2>2, <2>3, <3>2
    <3> QED BY <1>2, <2>1, <2>4, <3>3
  <2>6. due' \in 0 .. ClockRange - 1  BY <2>1, <2>2
  <2>7. sound' /\ sound' \in BOOLEAN /\ crossed' \in BOOLEAN  BY <2>2
  <2>8. ~crossed' => /\ sound' <=> stop' # 0
                     /\ due' > 0 => stop' = now' + due'
                     /\ due' = 0 => stop' <= now'
    BY <2>5, <2>6, <2>7
  <2> QED BY <1>1, <1>2, <2>3, <2>4, <2>6, <2>7, <2>8 DEF TemplateTypeOK, ToneInv
<1>4. CASE app.cue = "none"
  <2>1. stop' = stop /\ sound' = sound /\ due' = due /\ crossed' = crossed
    BY <1>4
  <2> QED BY <1>1, <1>2, <2>1 DEF TemplateTypeOK, ToneInv
<1> QED BY <1>3, <1>4

LEMMA TonePoll ==
  ASSUME TemplateTypeOK, ToneInv, SilenceWhenDue
  PROVE  /\ stop' \in 0 .. ClockRange - 1 /\ sound' \in BOOLEAN
         /\ ~crossed => /\ sound' <=> stop' # 0
                        /\ sound' <=> due > 0
                        /\ due > 0 => stop' = now + due
                        /\ due = 0 => stop' <= now
<1>1. /\ stop \in 0 .. ClockRange - 1 /\ now \in 0 .. ClockRange - 1
      /\ due \in 0 .. ClockRange - 1 /\ sound \in BOOLEAN
  BY DEF ToneInv, TemplateTypeOK
<1>2. CASE stop # 0 /\ now >= stop
  <2>1. sound' = FALSE /\ stop' = 0  BY <1>2 DEF SilenceWhenDue
  <2>2. ~crossed => ~(due > 0)  BY <1>1, <1>2 DEF ToneInv
  <2>3. sound' \in BOOLEAN  BY <2>1
  <2>4. ~sound'  BY <2>1
  <2> QED BY <1>1, <2>1, <2>2, <2>3, <2>4
<1>3. CASE ~(stop # 0 /\ now >= stop)
  <2>1. sound' = sound /\ stop' = stop  BY <1>3 DEF SilenceWhenDue
  <2>2. ASSUME ~crossed PROVE stop # 0 <=> due > 0
    <3>1. due = 0 => stop <= now  BY <2>2 DEF ToneInv
    <3>2. due > 0 => stop = now + due  BY <2>2 DEF ToneInv
    <3> QED BY <1>1, <1>3, <3>1, <3>2
  <2> QED BY <1>1, <2>1, <2>2 DEF ToneInv
<1> QED BY <1>2, <1>3

LEMMA TemplateStepKeeps ==
  ASSUME TemplateTypeOK, ToneInv, TemplateNext
  PROVE  TemplateTypeOK' /\ ToneInv'
<1>2. TemplateTypeOK /\ ToneInv  OBVIOUS
<1>3. CASE TemplatePoll
  <2>1. /\ pc' = "tick" /\ now' = now /\ app' = app /\ due' = due
        /\ crossed' = crossed /\ SilenceWhenDue
    BY <1>3 DEF TemplatePoll, PollInput, templateVars
  <2>2. TemplateTypeOK'  BY <1>2, <2>1 DEF TemplateTypeOK
  <2>3. pc' \in TemplatePc /\ now' \in 0 .. ClockRange - 1
    BY <1>2, <2>1 DEF ToneInv, TemplatePc
  <2>4. ~crossed => sound' = (stop' # 0)  BY <1>2, <2>1, TonePoll
  <2> QED BY <1>2, <2>1, <2>2, <2>3, TonePoll DEF ToneInv
<1>4. CASE AppTick
  <2>1. /\ pc' \in TemplatePc /\ now' = now /\ stop' = stop /\ sound' = sound
        /\ due' = due /\ crossed' = crossed
    BY <1>4 DEF AppTick, device, TemplatePc
  <2>2. TemplateTypeOK'  BY <1>2, <1>4, <2>1, PlayType DEF TemplateTypeOK
  <2>3. ToneInv'  BY <1>2, <2>1 DEF ToneInv
  <2> QED BY <2>2, <2>3
<1>5. CASE Cue  BY <1>2, <1>5, CueKeeps
<1>6. CASE Presented \/ TemplateFinger
  <2>1. /\ pc' \in TemplatePc /\ now' = now /\ stop' = stop /\ sound' = sound
        /\ app' = app /\ due' = due /\ crossed' = crossed
    BY <1>2, <1>6 DEF Presented, TemplateFinger, device, templateVars, TemplatePc, ToneInv
  <2>2. TemplateTypeOK'  BY <1>2, <2>1 DEF TemplateTypeOK
  <2>3. ToneInv'  BY <1>2, <2>1 DEF ToneInv
  <2> QED BY <2>2, <2>3
<1>7. CASE TemplateTick
  <2>1. /\ pc' = pc /\ stop' = stop /\ sound' = sound /\ app' = app
        /\ now' = (now + 1) % ClockRange
        /\ due' = (IF due > 0 THEN due - 1 ELSE 0)
        /\ crossed' = (crossed \/ now' = 0)
    BY <1>7 DEF TemplateTick, device
  <2>2. /\ now \in 0 .. ClockRange - 1 /\ stop \in 0 .. ClockRange - 1
        /\ due \in 0 .. ClockRange - 1 /\ sound \in BOOLEAN
    BY <1>2 DEF ToneInv, TemplateTypeOK
  <2>3. now' \in 0 .. ClockRange - 1 /\ (now' # 0 => now' = now + 1)
    <3>0. now + 1 \in Int /\ now + 1 <= ClockRange  BY <2>2
    <3>1. (now + 1) % ClockRange \in 0 .. ClockRange - 1
      BY <3>0, RemainderInRange
    <3>2. CASE now + 1 < ClockRange
      <4>1. now + 1 = 0 * ClockRange + (now + 1)  BY <2>2
      <4>2. (now + 1) % ClockRange = now + 1
        BY <2>2, <3>2, <4>1, RemainderUnique
      <4> QED BY <2>1, <3>1, <4>2
    <3>3. CASE now + 1 = ClockRange
      <4>1. now + 1 = 1 * ClockRange + 0  BY <3>3
      <4>2. (now + 1) % ClockRange = 0  BY <2>2, <4>1, RemainderUnique
      <4> QED BY <2>1, <3>1, <4>2
    <3> QED BY <3>0, <3>2, <3>3
  <2>4. due' \in 0 .. ClockRange - 1 /\ crossed' \in BOOLEAN
    BY <1>2, <2>1, <2>2 DEF TemplateTypeOK
  <2>5. ASSUME ~crossed'
        PROVE  /\ sound' <=> stop' # 0
               /\ due' > 0 => stop' = now' + due'
               /\ due' = 0 => stop' <= now'
    <3>1. ~crossed /\ now' = now + 1  BY <2>1, <2>3, <2>5
    <3>2. /\ sound <=> stop # 0
          /\ due > 0 => stop = now + due
          /\ due = 0 => stop <= now
      BY <1>2, <3>1 DEF ToneInv
    <3> QED BY <2>1, <2>2, <3>1, <3>2
  <2>6. TemplateTypeOK'  BY <1>2, <2>1, <2>4 DEF TemplateTypeOK
  <2>7. ToneInv'  BY <1>2, <2>1, <2>2, <2>3, <2>5 DEF ToneInv
  <2> QED BY <2>6, <2>7
<1> QED BY <1>3, <1>4, <1>5, <1>6, <1>7 DEF TemplateNext, TemplateStep

LEMMA TemplateKeeps ==
  ASSUME IInv, Template /\ TemplateNext
  PROVE  IInv'
<1>1. image = "template" /\ image' = image
  BY DEF Template, TemplateNext, TemplateStep, TemplatePoll, AppTick, Cue, Presented,
         TemplateTick, TemplateFinger
<1>2. TemplateTypeOK /\ ToneInv  BY <1>1 DEF IInv
<1>3. TemplateTypeOK' /\ ToneInv'  BY <1>2, TemplateStepKeeps
<1>4. DemoTypeOK'
  <2>1. DemoTypeOK  BY DEF IInv
  <2> QED BY <2>1 DEF Template, demoVars, camera, ghosts, DemoTypeOK
<1> QED BY <1>1, <1>3, <1>4 DEF IInv

-----------------------------------------------------------------------------
(* What no action of a program touches keeps what is said of it. *)
LEMMA OthersKeep ==
  ASSUME IInv, PicoProf \/ HostTests \/ UNCHANGED vars
  PROVE  IInv'
<1>1. /\ UNCHANGED <<image, pc, now, stop, sound, heldPrev, in, armed, dog>>
      /\ UNCHANGED <<pad, fresh, lifted>>
  BY DEF PicoProf, HostTests, vars, platformVars, device, watchdog, finger
<1>2. /\ UNCHANGED <<cam, scroll, frame, drawn, hung, since, odd, away>>
      /\ UNCHANGED <<app, due, crossed>>
  BY DEF PicoProf, HostTests, vars, demoVars, camera, ghosts, templateVars
<1>3. DemoTypeOK' /\ TemplateTypeOK'
  BY <1>2 DEF IInv, DemoTypeOK, TemplateTypeOK
<1>4. image' \in Image  BY <1>1 DEF IInv
<1>5. ASSUME image' = "demo" PROVE DemoInv'
  <2>1. DemoInv  BY <1>1, <1>5 DEF IInv
  <2>2. Fingers' /\ Mode' /\ Fed'
    BY <1>1, <1>2, <2>1 DEF DemoInv, Fingers, Mode, Fed
  <2>3. Keys'  BY <1>1, <1>2, <2>1 DEF DemoInv, Keys, Pose
  <2> QED BY <1>1, <2>1, <2>2, <2>3 DEF DemoInv
<1>6. ASSUME image' = "template" PROVE ToneInv'
  <2>1. ToneInv  BY <1>1, <1>6 DEF IInv
  <2> QED BY <1>1, <1>2, <2>1 DEF ToneInv
<1> QED BY <1>3, <1>4, <1>5, <1>6 DEF IInv

(* The invariant holds for any programs that are built. *)
THEOREM Inductive == Spec => []IInv
<1>1. Init => IInv  BY InitOK
<1>2. IInv /\ [Next]_vars => IInv'
  BY DemoKeeps, TemplateKeeps, OthersKeep DEF Next
<1> QED BY <1>1, <1>2, PTL DEF Spec

(* main.cc, demo_scene.cc: a press toggles the camera once, however long   *)
(* it is held and whatever the fingers and the watchdog do, and shows in   *)
(* the picture after the one whose poll saw it.                            *)
THEOREM PressesToggleOnce == Spec => []ModeFollowsPresses
<1>1. IInv => ModeFollowsPresses
  <2> SUFFICES ASSUME IInv, image = "demo" PROVE
        /\ pc = "top" => (cam.mode = "freefly" <=> odd)
        /\ pc = "log" => (drawn.pose[1] = "freefly" <=> (odd # ("A" \in in.pressed)))
    BY DEF ModeFollowsPresses
  <2>1. Mode /\ Keys  BY DEF IInv, DemoInv
  <2>2. pc = "top" => (cam.mode = "freefly" <=> odd)
    BY <2>1 DEF Mode, DemoPc, Polled
  <2>3. ASSUME pc = "log"
        PROVE  drawn.pose[1] = "freefly" <=> (odd # ("A" \in in.pressed))
    <3>1. cam.mode = "freefly" <=> (odd # ("A" \in in.pressed))
      BY <2>1, <2>3 DEF Mode, Polled
    <3>2. drawn.pose = Pose(cam)  BY <2>1, <2>3 DEF Keys, Polled
    <3>3. cam.mode \in {"scripted", "freefly"}  BY DEF IInv, DemoTypeOK
    <3>4. Pose(cam)[1] = cam.mode  BY <3>3 DEF Pose
    <3> QED BY <3>1, <3>2, <3>4
  <2> QED BY <2>2, <2>3
<1> QED BY <1>1, Inductive, PTL

(* Taking a off f changes the remainder of f, unless a is whole rounds. *)
LEMMA RoundsOnly ==
  ASSUME NEW b \in Nat \ {0}, NEW f \in Nat, NEW a \in Nat
  PROVE  (f - a) % b = f % b <=> a % b = 0
<1> DEFINE r == f % b
           p == f \div b
           u == a % b
           q == a \div b
           n == f - a
           m == p - q
<1>1. r \in Int /\ 0 <= r /\ r < b /\ p \in Int /\ f = b * p + r
  OBVIOUS
<1>2. u \in Int /\ 0 <= u /\ u < b /\ q \in Int /\ a = b * q + u
  OBVIOUS
<1> HIDE DEF r, p, u, q
<1>3. n \in Int /\ m \in Int /\ m - 1 \in Int  BY <1>1, <1>2
<1>4. m * b = b * p - b * q  BY <1>1, <1>2
<1>5. n = m * b + (r - u)  BY <1>1, <1>2, <1>4
<1> HIDE DEF n, m
<1>6. CASE u <= r
  <2> DEFINE v == r - u
  <2>1. v \in Int /\ 0 <= v /\ v < b /\ (v = r <=> u = 0)
    BY <1>1, <1>2, <1>6
  <2>2. n = m * b + v  BY <1>5
  <2> HIDE DEF v
  <2>3. n % b = v  BY <1>3, <2>1, <2>2, RemainderUnique
  <2> QED BY <2>1, <2>3 DEF r, u, n
<1>7. CASE r < u
  <2> DEFINE k == m - 1
             v == r - u + b
  <2>1. v \in Int /\ 0 <= v /\ v < b /\ v # r /\ u # 0
    BY <1>1, <1>2, <1>7
  <2>2. k \in Int /\ k * b = m * b - b  BY <1>3
  <2>3. n = k * b + v  BY <1>1, <1>2, <1>3, <1>5, <2>2
  <2> HIDE DEF k, v
  <2>4. n % b = v  BY <1>3, <2>1, <2>2, <2>3, RemainderUnique
  <2> QED BY <2>1, <2>4 DEF r, u, n
<1> QED BY <1>1, <1>2, <1>6, <1>7

(* main.cc:139: when a scripted picture is logged under the index it was   *)
(* drawn from, for any path, scroll and number of frames, and across       *)
(* resets: before any free flight, after whole rounds of it, never else.   *)
THEOREM NumberIsIndexUntilFlown == Spec => []FrameKeysPicture
<1>1. IInv => FrameKeysPicture
  <2> SUFFICES ASSUME IInv, image = "demo", pc = "log" PROVE
        /\ drawn.sky = drawn.pose
        /\ drawn.phase = (frame * ScrollDelta) % ScrollPeriod
        /\ drawn.pose[1] = "scripted" =>
             (drawn.pose[2] = frame % PathLen <=> away % PathLen = 0)
    BY DEF FrameKeysPicture
  <2>1. Keys  BY DEF IInv, DemoInv
  <2>2. /\ drawn.pose = Pose(cam) /\ drawn.sky = Pose(cam) /\ drawn.phase = scroll
        /\ cam.frame = frame - away
        /\ scroll = (frame * ScrollDelta) % ScrollPeriod
    BY <2>1 DEF Keys, Polled
  <2>3. Pose(cam)[1] = "scripted" => Pose(cam)[2] = cam.frame % PathLen
    BY DEF Pose
  <2>4. frame \in Nat /\ away \in Nat  BY DEF IInv, DemoTypeOK
  <2>5. (frame - away) % PathLen = frame % PathLen <=> away % PathLen = 0
    BY <2>4, RoundsOnly, PathAssumption
  <2> QED BY <2>2, <2>3, <2>5
<1> QED BY <1>1, Inductive, PTL

(* main.cc:84: the watchdog never resets a pass that is over in time.      *)
THEOREM NoEarlyReset == Spec => OnlyLateResets
<1> DEFINE Late == pc \notin {"boot", "bootsel"} /\ pc' = "boot" => since + 1 >= Period
<1>1. ASSUME IInv, [Next]_vars PROVE [Late]_<<pc, since>>
  <2> SUFFICES ASSUME pc \notin {"boot", "bootsel"}, pc' = "boot"
               PROVE  since + 1 >= Period
    OBVIOUS
  <2>1. pc' # pc  OBVIOUS
  <2>2. CASE Demo /\ DemoNext
    <3>1. image = "demo" /\ DemoTypeOK /\ DemoInv  BY <1>1, <2>2 DEF Demo, IInv
    <3>2. DemoTick
      BY <2>2, <2>1 DEF DemoNext, DemoStep, Boot, KickDog, Poll, Build, FillBlits, Stage,
                        Follows, Log, Advance, ExitKick, ResetToBootsel, DemoFinger, Hang,
                        platformVars, Flash
    <3>3. DogBites  BY <3>2, <2>1 DEF DemoTick
    <3>4. armed = Period /\ (since < Period => dog <= since) /\ dog \in Nat
      BY <3>1 DEF DemoInv, Fed
    <3>5. since \in 0 .. Period /\ Period \in Nat
      BY <3>1 DEF DemoTypeOK, Period
    <3> QED BY <3>3, <3>4, <3>5 DEF DogBites
  <2>3. CASE Template /\ TemplateNext
    BY <2>1, <2>3 DEF TemplateNext, TemplateStep, TemplatePoll, AppTick, Cue, Presented,
                      TemplateTick, TemplateFinger
  <2>4. CASE PicoProf \/ HostTests \/ UNCHANGED vars
    BY <2>1, <2>4 DEF PicoProf, HostTests, vars, platformVars
  <2> QED BY <1>1, <2>2, <2>3, <2>4 DEF Next
<1>2. IInv /\ [Next]_vars => [Late]_<<pc, since>>  BY <1>1
<1> QED BY <1>2, Inductive, PTL DEF Spec, OnlyLateResets

(* platform_pico.cc: a poll silences a tone that is over, and no other, for *)
(* any durations and any clock, away from the wrap.                        *)
THEOREM TonesEndOnTime == Spec => ToneEndsOnTime
<1> DEFINE OnTime == image = "template" /\ pc = "poll" /\ pc' = "tick" /\ ~crossed
                     => (sound' <=> due > 0)
<1>1. ASSUME IInv, [Next]_vars PROVE [OnTime]_<<image, pc, crossed, sound, due>>
  <2> SUFFICES ASSUME image = "template", pc = "poll", pc' = "tick", ~crossed
               PROVE  sound' <=> due > 0
    OBVIOUS
  <2>1. TemplateTypeOK /\ ToneInv  BY <1>1 DEF IInv
  <2>2. TemplatePoll
    BY <1>1 DEF Next, Demo, PicoProf, HostTests, vars, platformVars, Template, TemplateNext,
           TemplateStep, AppTick, Cue, Presented, TemplateTick, TemplateFinger
  <2>3. SilenceWhenDue  BY <2>2 DEF TemplatePoll, PollInput
  <2> QED BY <2>1, <2>3, TonePoll
<1>2. IInv /\ [Next]_vars => [OnTime]_<<image, pc, crossed, sound, due>>  BY <1>1
<1> QED BY <1>2, Inductive, PTL DEF Spec, ToneEndsOnTime

-----------------------------------------------------------------------------
(* The profiler's invariant holds of every image: no other takes a step of *)
(* its variables.                                                          *)
LEMMA ProfilerKeeps == ProfInv /\ [Next]_vars => ProfInv'
<1> SUFFICES ASSUME ProfInv, [Next]_vars PROVE ProfInv'  OBVIOUS
<1>1. CASE PicoProf /\ ProfNext  BY <1>1, ProfInductive
<1>2. CASE UNCHANGED profVars  BY <1>2, ProfInductive
<1>3. UNCHANGED profVars \/ (PicoProf /\ ProfNext)
  BY DEF Next, Demo, Template, HostTests, vars
<1> QED BY <1>1, <1>2, <1>3

THEOREM ProfilerInductive == Spec => []ProfInv
<1>1. Init => ProfInv  BY ProfInitOK DEF Init
<1> QED BY <1>1, ProfilerKeeps, PTL DEF Spec

(* prof.h:172, prof.cc: a row of the profile holds the true times of every *)
(* block, and a fine block that outran its timer says so and spoils no     *)
(* other than the one around it, for any tiles, triangles, timer span and  *)
(* frames, however the two cores interleave.                               *)
THEOREM ProfilerTellsTrueTimes == Spec => []TrueTimes
BY ProfilerInductive, TimesAreTrue, PTL

(* prof.cc:9-17: each tile is counted once, within core 0's span of the    *)
(* dispatch, and the report is of every frame but those of the warm-up.    *)
THEOREM TilesWithinDispatch == Spec => []DispatchHoldsTiles
BY ProfilerInductive, TilesAreInDispatch, PTL

-----------------------------------------------------------------------------
(* The types of what the programs share. *)
PlatTypeOK ==
  /\ pc \in DemoPc \cup TemplatePc
  /\ pad \subseteq Button /\ heldPrev \subseteq Button
  /\ in \in [held : SUBSET Button, pressed : SUBSET Button]
  /\ now \in 0 .. ClockRange - 1 /\ stop \in 0 .. ClockRange - 1
  /\ sound \in BOOLEAN /\ fresh \in BOOLEAN /\ lifted \in BOOLEAN
  /\ armed \in 0 .. WatchdogMax /\ dog \in Nat

LEMMA PollTypes ==
  ASSUME PlatTypeOK, PollInput
  PROVE  /\ heldPrev' \subseteq Button
         /\ in' \in [held : SUBSET Button, pressed : SUBSET Button]
         /\ stop' \in 0 .. ClockRange - 1 /\ sound' \in BOOLEAN
<1> USE DEF PlatTypeOK
<1>1. heldPrev' = pad /\ in' = [held |-> pad, pressed |-> pad \ heldPrev] /\ SilenceWhenDue
  BY DEF PollInput
<1>2. CASE stop # 0 /\ now >= stop
  <2>1. sound' = FALSE /\ stop' = 0  BY <1>1, <1>2 DEF SilenceWhenDue
  <2>2. sound' \in BOOLEAN  BY <2>1
  <2>3. 0 \in 0 .. ClockRange - 1  OBVIOUS
  <2>4. pad \in SUBSET Button /\ pad \ heldPrev \in SUBSET Button  OBVIOUS
  <2> HIDE DEF PlatTypeOK
  <2> QED BY <1>1, <2>1, <2>2, <2>3, <2>4
<1>3. CASE ~(stop # 0 /\ now >= stop)
  <2>1. sound' = sound /\ stop' = stop  BY <1>1, <1>3 DEF SilenceWhenDue
  <2> QED BY <1>1, <2>1
<1> QED BY <1>2, <1>3

LEMMA FingerTypes ==
  ASSUME PlatTypeOK, \E b \in Button : Press(b) \/ Release(b)
  PROVE  pad' \subseteq Button /\ fresh' \in BOOLEAN /\ lifted' \in BOOLEAN
<1> USE DEF PlatTypeOK
<1>1. PICK b \in Button : Press(b) \/ Release(b)  OBVIOUS
<1>2. CASE Press(b)
  <2>1. pad' = pad \cup {b} /\ lifted' = lifted /\ fresh' = (fresh \/ (b = "A" /\ ~lifted))
    BY <1>2 DEF Press
  <2>2. fresh' \in BOOLEAN  BY <2>1
  <2> QED BY <2>1, <2>2
<1>3. CASE Release(b)
  <2>1. /\ pad' = pad \ {b} /\ fresh' = (fresh /\ b # "A")
        /\ lifted' = (lifted \/ (b = "A" /\ ~fresh))
    BY <1>3 DEF Release
  <2>2. fresh' \in BOOLEAN /\ lifted' \in BOOLEAN  BY <2>1
  <2> QED BY <2>1, <2>2
<1> QED BY <1>1, <1>2, <1>3

LEMMA DemoTypes ==
  ASSUME PlatTypeOK, DemoNext, pc' \in DemoPc
  PROVE  PlatTypeOK'
<1> USE DEF PlatTypeOK, device, watchdog, finger, platformVars
<1>1. CASE Boot
  <2>1. armed' \in 0 .. WatchdogMax /\ dog' = 0  BY <1>1 DEF Boot, Arm
  <2> QED BY <1>1, <2>1 DEF Boot
<1>2. CASE KickDog  BY <1>2 DEF KickDog, Kick
<1>3. CASE Poll
  <2>1. PollInput /\ UNCHANGED <<now, armed, dog, pad>> /\ fresh' = FALSE /\ lifted' = FALSE
    BY <1>3 DEF Poll
  <2> QED BY <2>1, PollTypes
<1>4. CASE Build \/ FillBlits \/ Stage \/ Log \/ Advance \/ Hang
  BY <1>4 DEF Build, FillBlits, Stage, Log, Advance, Hang
<1>5. CASE ExitKick  BY <1>5 DEF ExitKick, Kick
<1>6. CASE ResetToBootsel  BY <1>6 DEF ResetToBootsel
<1>7. CASE ChipReset
  <2>1. /\ UNCHANGED <<pad, now>> /\ heldPrev' = {} /\ in' = NoInput /\ stop' = 0
        /\ armed' = 0 /\ dog' = 0 /\ fresh' = ("A" \in pad) /\ sound' = FALSE /\ lifted' = FALSE
    BY <1>7 DEF ChipReset, PlatReset
  <2>2. fresh' \in BOOLEAN  BY <2>1
  <2>3. sound' \in BOOLEAN  BY <2>1
  <2>4. lifted' \in BOOLEAN  BY <2>1
  <2>5. 0 \in 0 .. ClockRange - 1 /\ 0 \in 0 .. WatchdogMax
        /\ NoInput \in [held : SUBSET Button, pressed : SUBSET Button]
    BY DEF NoInput
  <2> QED BY <2>1, <2>2, <2>3, <2>4, <2>5
<1>8. CASE DemoTick /\ ~ChipReset
  <2>1. UNCHANGED <<now, heldPrev, in, stop, sound, armed, pad, fresh, lifted>>
        /\ dog' = IF armed # 0 THEN dog + 1 ELSE 0
    BY <1>8 DEF DemoTick
  <2> QED BY <2>1
<1>9. CASE DemoFinger
  <2>1. UNCHANGED <<now, heldPrev, in, stop, sound, armed, dog>>
        /\ \E b \in Button : Press(b) \/ Release(b)
    BY <1>9 DEF DemoFinger
  <2> QED BY <2>1, FingerTypes
<1> QED BY <1>1, <1>2, <1>3, <1>4, <1>5, <1>6, <1>7, <1>8, <1>9 DEF DemoNext, DemoStep, Flash

LEMMA TemplateTypes ==
  ASSUME PlatTypeOK, TemplateNext, ToneInv'
  PROVE  PlatTypeOK'
<1> USE DEF PlatTypeOK, device, watchdog, finger
<1>1. /\ pc' \in TemplatePc /\ now' \in 0 .. ClockRange - 1 /\ stop' \in 0 .. ClockRange - 1
      /\ sound' \in BOOLEAN
  BY DEF ToneInv
<1>2. CASE TemplatePoll
  <2>1. PollInput /\ UNCHANGED <<armed, dog, pad>> /\ fresh' = FALSE /\ lifted' = FALSE
    BY <1>2 DEF TemplatePoll
  <2> QED BY <1>1, <2>1, PollTypes
<1>3. CASE AppTick \/ Cue \/ Presented \/ TemplateTick
  BY <1>1, <1>3 DEF AppTick, Cue, Presented, TemplateTick
<1>4. CASE TemplateFinger
  <2>1. UNCHANGED <<heldPrev, in, armed, dog>> /\ \E b \in Button : Press(b) \/ Release(b)
    BY <1>4 DEF TemplateFinger
  <2> QED BY <1>1, <2>1, FingerTypes
<1> QED BY <1>2, <1>3, <1>4 DEF TemplateNext, TemplateStep

(* Every variable of every program keeps its type, the registers of the    *)
(* device and the profile among them.                                      *)
THEOREM FirmwareTypeCorrect == Spec => []TypeOK
<1>1. Init => PlatTypeOK
  <2> SUFFICES ASSUME Init PROVE PlatTypeOK  OBVIOUS
  <2>1. /\ pad = {} /\ heldPrev = {} /\ in = NoInput /\ now = 0 /\ stop = 0
        /\ armed = 0 /\ dog = 0 /\ pc \in {"boot", "poll"}
    BY DEF Init, PlatInit
  <2>2. sound \in BOOLEAN /\ fresh \in BOOLEAN /\ lifted \in BOOLEAN  BY DEF Init, PlatInit
  <2>3. pc \in DemoPc  BY <2>1 DEF DemoPc
  <2> QED BY <2>1, <2>2, <2>3 DEF PlatTypeOK, NoInput
<1>2. PlatTypeOK /\ IInv /\ IInv' /\ [Next]_vars => PlatTypeOK'
  <2> SUFFICES ASSUME PlatTypeOK, IInv, IInv', [Next]_vars PROVE PlatTypeOK'  OBVIOUS
  <2>1. CASE Demo /\ DemoNext
    <3>1. image' = "demo"
      BY <2>1 DEF Demo, DemoNext, DemoStep, Boot, KickDog, Poll, Build, FillBlits, Stage, Log,
                  Advance, ExitKick, ResetToBootsel, DemoTick, DemoFinger, Hang, Flash, ChipReset,
                  platformVars
    <3>2. pc' \in DemoPc  BY <3>1 DEF IInv, DemoInv
    <3> QED BY <2>1, <3>2, DemoTypes
  <2>2. CASE Template /\ TemplateNext
    <3>1. image' = "template"
      BY <2>2 DEF Template, TemplateNext, TemplateStep, TemplatePoll, AppTick, Cue, Presented,
                  TemplateTick, TemplateFinger
    <3>2. ToneInv'  BY <3>1 DEF IInv
    <3> QED BY <2>2, <3>2, TemplateTypes
  <2>3. CASE PicoProf \/ HostTests \/ UNCHANGED vars
    BY <2>3 DEF PicoProf, HostTests, vars, platformVars, device, watchdog, finger, PlatTypeOK
  <2> QED BY <2>1, <2>2, <2>3 DEF Next
<1>3. PlatTypeOK /\ IInv /\ ProfInv => TypeOK
  BY DEF PlatTypeOK, IInv, ProfInv, TypeOK
<1> QED BY <1>1, <1>2, <1>3, Inductive, ProfilerInductive, PTL DEF Spec

-----------------------------------------------------------------------------
LEMMA TestsKeep == KernelInv /\ [Next]_vars => KernelInv'
<1>1. [Next]_vars => [KernelNext]_kernelVars
  BY DEF Next, vars, Demo, Template, PicoProf, HostTests
<1> QED BY <1>1, KernelKeeps

(* What the leaf functions are given, and what a pixel has accumulated. *)
THEOREM KernelInductive == Spec => []KernelInv
<1>1. Init => KernelInv  BY KernelInitOK DEF Init
<1> QED BY <1>1, TestsKeep, PTL DEF Spec

(* blend.cc: translucent fragments, any number of them, drift by no more    *)
(* than a step of the channel each, up or down; an opaque accumulator      *)
(* hides the rest, a clear one leaves the terrain, and alpha-over and fog  *)
(* stay between their two colours; for all channel values and alphas.      *)
THEOREM BlendDriftsByFragment == Spec => []BlendBounded
BY KernelInductive, BlendIsBounded, PTL

(* blit.cc, blit2d.cc: sprites, outlines and rectangles anywhere, on a      *)
(* screen of any size, are those of the plane cut by it; the sky reads its *)
(* source inside, goes on without a seam, and blends between its ends.     *)
THEOREM BlitsCutByScreen == Spec => []BlitsAreCut
<1>1. KernelInv => BlitsAreCut
  <2>1. CASE Task("sprite")  BY <2>1, SpritesAreCut
  <2>2. CASE Task("sky")  BY <2>2, SkiesAreCut
  <2>3. CASE ~Task("sprite") /\ ~Task("sky")  BY <2>3 DEF BlitsAreCut
  <2> QED BY <2>1, <2>2, <2>3
<1> QED BY <1>1, KernelInductive, PTL

-----------------------------------------------------------------------------
(* The clipped ring.  A cut is between the two vertices, on every axis and  *)
(* in what is interpolated, to whichever side the half was rounded.        *)
Mid(n, a, b) == (a <= n /\ n <= b) \/ (b <= n /\ n <= a)

(* A quotient rounded from n / d with a half either way is no more than e   *)
(* if n / d is not.                                                        *)
LEMMA RoundedPart ==
  ASSUME NEW e \in Nat, NEW d \in Nat \ {0}, NEW n \in 0 .. d
  PROVE  /\ (e * n + (d \div 2)) \div d \in 0 .. e
         /\ e * n >= d \div 2 => (e * n - (d \div 2)) \div d \in 0 .. e
         /\ e * n < d \div 2 => ((d \div 2) - e * n) \div d = 0
         /\ (d \div 2) \div d = 0
<1>1. d \div 2 \in Nat /\ d \div 2 < d  OBVIOUS
<1>2. e * n \in Nat /\ e * d \in Nat  OBVIOUS
<1>3. e * n <= e * d
  <2>1. d - n \in Nat  OBVIOUS
  <2>2. e * (d - n) \in Nat  BY <2>1
  <2>3. e * (d - n) = e * d - e * n  OBVIOUS
  <2> QED BY <1>2, <2>2, <2>3
<1>4. (e + 1) * d = e * d + d /\ 1 * d = d  OBVIOUS
<1> DEFINE h == d \div 2
           p == e * n
           m == e * d
<1>5. h \in Nat /\ h < d /\ p \in Nat /\ m \in Nat /\ p <= m /\ (e + 1) * d = m + d
  BY <1>1, <1>2, <1>3, <1>4
<1> HIDE DEF h, p, m
<1>6. (p + h) \div d \in 0 .. e
  <2>1. p + h \in Nat /\ p + h < (e + 1) * d /\ e + 1 \in Nat  BY <1>5
  <2>2. (p + h) \div d \in 0 .. (e + 1) - 1  BY <2>1, Quotient
  <2> QED BY <2>2
<1>7. p >= h => (p - h) \div d \in 0 .. e
  <2>1. ASSUME p >= h PROVE (p - h) \div d \in 0 .. e
    <3>1. p - h \in Nat /\ p - h < (e + 1) * d /\ e + 1 \in Nat  BY <1>5, <2>1
    <3>2. (p - h) \div d \in 0 .. (e + 1) - 1  BY <3>1, Quotient
    <3> QED BY <3>2
  <2> QED BY <2>1
<1>8. \A k \in Nat : k < d => k \div d = 0
  <2>1. ASSUME NEW k \in Nat, k < d PROVE k \div d = 0
    <3>1. k < 1 * d  BY <1>4, <2>1
    <3>2. k \div d \in 0 .. 1 - 1  BY <3>1, Quotient
    <3> QED BY <3>2
  <2> QED BY <2>1
<1>9. p < h => (h - p) \div d = 0
  <2>1. p < h => h - p \in Nat /\ h - p < d  BY <1>5
  <2> QED BY <1>8, <2>1
<1>10. h \div d = 0  BY <1>5, <1>8
<1> QED BY <1>6, <1>7, <1>9, <1>10 DEF h, p

LEMMA LerpForward ==
  ASSUME NEW a \in Int, NEW b \in Int, NEW d \in Nat \ {0}, NEW n \in 0 .. d
  PROVE  Lerp(a, b, n, d) \in Int /\ Mid(Lerp(a, b, n, d), a, b)
<1> DEFINE h == d \div 2
           w == b - a
           prod == w * n
<1>1. Abs(d) = d /\ ~(d < 0) /\ d # 0 /\ d > 0  BY DEF Abs
<1>2. Lerp(a, b, n, d)
      = a + TruncDiv(IF prod >= 0 THEN prod + h ELSE prod - h, d)
  BY <1>1 DEF Lerp
<1>3. \A k \in Nat : TruncDiv(k, d) = k \div d
  BY <1>1 DEF TruncDiv, Abs
<1>4. \A k \in Nat \ {0} : TruncDiv(-k, d) = -(k \div d)
  BY <1>1 DEF TruncDiv, Abs
<1>5. w \in Int /\ b = a + w /\ h \in Nat  OBVIOUS
<1>6. CASE w >= 0
  <2>1. w \in Nat /\ prod \in Nat  BY <1>6
  <2>2. (prod + h) \div d \in 0 .. w  BY <2>1, RoundedPart
  <2>3. Lerp(a, b, n, d) = a + ((prod + h) \div d)  BY <1>2, <1>3, <1>5, <2>1
  <2> HIDE DEF w, prod, h
  <2> QED BY <1>5, <2>1, <2>2, <2>3 DEF Mid
<1>7. CASE w < 0 /\ n = 0
  <2>1. prod = 0  BY <1>7
  <2>2. h \div d = 0  BY RoundedPart
  <2>3. TruncDiv(prod + h, d) = 0  BY <1>3, <1>5, <2>1, <2>2
  <2>4. Lerp(a, b, n, d) = a  BY <1>2, <2>1, <2>3
  <2> HIDE DEF w, prod, h
  <2> QED BY <1>5, <1>7, <2>4 DEF Mid
<1>8. CASE w < 0 /\ n # 0
  <2> DEFINE e == -w
             p == e * n
  <2>1. e \in Nat \ {0} /\ w = -e  BY <1>8
  <2>2. p >= 1 /\ p \in Nat
    <3>1. e * n >= e  BY <1>8, <2>1, MulAtLeast
    <3> QED BY <2>1, <3>1
  <2>3. prod = -p  BY <2>1
  <2>4. (p + h) \div d \in 0 .. e  BY <2>1, RoundedPart
  <2>5. ~(prod >= 0) /\ prod - h = -(p + h) /\ p + h \in Nat \ {0}
    <3> HIDE DEF prod, p, h
    <3> QED BY <1>5, <2>2, <2>3
  <2> HIDE DEF prod, p, h, e
  <2>6. Lerp(a, b, n, d) = a - ((p + h) \div d)
    <3>1. TruncDiv(-(p + h), d) = -((p + h) \div d)  BY <1>4, <2>5
    <3>2. Lerp(a, b, n, d) = a + -((p + h) \div d)  BY <1>2, <2>5, <3>1
    <3> QED BY <2>4, <3>2
  <2> HIDE DEF w
  <2> QED BY <1>5, <2>1, <2>4, <2>6 DEF Mid
<1> QED BY <1>5, <1>6, <1>7, <1>8

LEMMA LerpBackward ==
  ASSUME NEW a \in Int, NEW b \in Int, NEW d \in Nat \ {0}, NEW n \in 0 .. d, n # 0
  PROVE  Lerp(a, b, -n, -d) \in Int /\ Mid(Lerp(a, b, -n, -d), a, b)
<1> DEFINE h == d \div 2
           w == b - a
           prod == w * (-n)
<1>1. Abs(-d) = d /\ -d < 0 /\ -d # 0 /\ ~(-d > 0)  BY DEF Abs
<1>2. Lerp(a, b, -n, -d)
      = a + TruncDiv(IF prod >= 0 THEN prod - h ELSE prod + h, -d)
  BY <1>1 DEF Lerp
<1>3. \A k \in Nat : TruncDiv(k, -d) = -(k \div d)
  BY <1>1 DEF TruncDiv, Abs
<1>4. \A k \in Nat \ {0} : TruncDiv(-k, -d) = k \div d
  BY <1>1 DEF TruncDiv, Abs
<1>5. w \in Int /\ b = a + w /\ h \in Nat  OBVIOUS
<1>6. CASE w > 0
  <2> DEFINE p == w * n
  <2>1. w \in Nat \ {0} /\ p \in Nat /\ p >= 1
    <3>1. w * n >= w  BY <1>6, MulAtLeast
    <3> QED BY <1>6, <3>1
  <2>2. prod = -p  OBVIOUS
  <2>3. p >= h => (p - h) \div d \in 0 .. w  BY <2>1, RoundedPart
  <2>4. p < h => (h - p) \div d = 0  BY <2>1, RoundedPart
  <2> HIDE DEF prod, p, h
  <2>5. Lerp(a, b, -n, -d) = a + TruncDiv(h - p, -d)
    <3>1. ~(prod >= 0) /\ prod + h = h - p  BY <1>5, <2>1, <2>2
    <3> QED BY <1>2, <3>1
  <2>6. CASE p > h
    <3>1. p - h \in Nat \ {0} /\ h - p = -(p - h)  BY <1>5, <2>1, <2>6
    <3>2. TruncDiv(h - p, -d) = (p - h) \div d  BY <1>4, <3>1
    <3>3. (p - h) \div d \in 0 .. w  BY <1>5, <2>1, <2>3, <2>6
    <3> HIDE DEF w
    <3> QED BY <1>5, <2>5, <3>2, <3>3 DEF Mid
  <2>7. CASE p <= h
    <3>1. h - p \in Nat  BY <1>5, <2>1, <2>7
    <3>2. TruncDiv(h - p, -d) = -((h - p) \div d)  BY <1>3, <3>1
    <3>3. (h - p) \div d = 0
      <4>1. CASE p < h  BY <2>4, <4>1
      <4>2. CASE p = h
        <5>1. p >= h /\ p - h = 0 /\ h - p = 0  BY <1>5, <2>1, <4>2
        <5>2. 0 \div d = 0
          <6>1. 0 < 1 * d  OBVIOUS
          <6>2. 0 \div d \in 0 .. 1 - 1  BY <6>1, Quotient
          <6> QED BY <6>2
        <5> QED BY <5>1, <5>2
      <4> QED BY <1>5, <2>1, <2>7, <4>1, <4>2
    <3>4. Lerp(a, b, -n, -d) = a  BY <2>5, <3>2, <3>3
    <3> HIDE DEF w
    <3> QED BY <1>5, <1>6, <3>4 DEF Mid
  <2> QED BY <1>5, <2>1, <2>6, <2>7
<1>7. CASE w <= 0
  <2> DEFINE e == -w
             p == e * n
  <2>1. e \in Nat /\ w = -e /\ p \in Nat  BY <1>7
  <2>2. prod = p  BY <2>1
  <2>3. p >= h => (p - h) \div d \in 0 .. e  BY <2>1, RoundedPart
  <2>4. p < h => (h - p) \div d = 0  BY <2>1, RoundedPart
  <2> HIDE DEF prod, p, h, e
  <2>5. Lerp(a, b, -n, -d) = a + TruncDiv(p - h, -d)
    BY <1>2, <2>1, <2>2
  <2>6. CASE p >= h
    <3>1. p - h \in Nat  BY <1>5, <2>1, <2>6
    <3>2. TruncDiv(p - h, -d) = -((p - h) \div d)  BY <1>3, <3>1
    <3>3. (p - h) \div d \in 0 .. e  BY <2>3, <2>6
    <3> HIDE DEF w
    <3> QED BY <1>5, <2>1, <2>5, <3>2, <3>3 DEF Mid
  <2>7. CASE p < h
    <3>1. h - p \in Nat \ {0} /\ p - h = -(h - p)  BY <1>5, <2>1, <2>7
    <3>2. TruncDiv(p - h, -d) = (h - p) \div d  BY <1>4, <3>1
    <3>3. Lerp(a, b, -n, -d) = a  BY <2>4, <2>5, <2>7, <3>2
    <3> HIDE DEF w
    <3> QED BY <1>5, <1>7, <3>3 DEF Mid
  <2> QED BY <1>5, <2>1, <2>6, <2>7
<1> QED BY <1>5, <1>6, <1>7

LEMMA LerpBetween ==
  ASSUME NEW a \in Int, NEW b \in Int, NEW dp \in Int, NEW dc \in Int,
         \/ dp >= 0 /\ dc < 0
         \/ dp < 0 /\ dc >= 0
  PROVE  Lerp(a, b, dp, dp - dc) \in Int /\ Mid(Lerp(a, b, dp, dp - dc), a, b)
<1>1. CASE dp >= 0 /\ dc < 0
  <2> DEFINE d == dp - dc
  <2>1. d \in Nat \ {0} /\ dp \in 0 .. d  BY <1>1
  <2> HIDE DEF d
  <2>2. Lerp(a, b, dp, d) \in Int /\ Mid(Lerp(a, b, dp, d), a, b)  BY <2>1, LerpForward
  <2> QED BY <2>2 DEF d
<1>2. CASE dp < 0 /\ dc >= 0
  <2> DEFINE d == dc - dp
             n == -dp
  <2>1. d \in Nat \ {0} /\ n \in 0 .. d /\ n # 0 /\ dp = -n /\ dp - dc = -d  BY <1>2
  <2> HIDE DEF d, n
  <2>2. Lerp(a, b, -n, -d) \in Int /\ Mid(Lerp(a, b, -n, -d), a, b)
    BY <2>1, LerpBackward
  <2> QED BY <2>1, <2>2
<1> QED BY <1>1, <1>2

RingVertex == [x : Int, y : Int, iw : Int]

LEMMA DistType ==
  ASSUME NEW v \in RingVertex, NEW e \in Edges
  PROVE  EdgeDist(v, e) \in Int
BY GuardAssumption DEF EdgeDist, RingVertex, Edges

LEMMA CutBetween ==
  ASSUME NEW p \in RingVertex, NEW c \in RingVertex, NEW e \in Edges,
         Kept(c, e) # Kept(p, e)
  PROVE  LET v == Cut(p, c, e)
         IN  /\ v \in RingVertex /\ EdgeDist(v, e) = 0
             /\ Mid(v.x, p.x, c.x) /\ Mid(v.y, p.y, c.y) /\ Mid(v.iw, p.iw, c.iw)
<1> DEFINE dp == EdgeDist(p, e)
           dc == EdgeDist(c, e)
           l == Lerped(p, c, e)
           v == Cut(p, c, e)
<1>1. dp \in Int /\ dc \in Int  BY DistType
<1>2. (dp >= 0 /\ dc < 0) \/ (dp < 0 /\ dc >= 0)
  <2>1. (dc >= 0) # (dp >= 0)  BY DEF Kept
  <2> HIDE DEF dp, dc
  <2> QED BY <1>1, <2>1
<1>3. /\ p.x \in Int /\ p.y \in Int /\ p.iw \in Int
      /\ c.x \in Int /\ c.y \in Int /\ c.iw \in Int
  BY DEF RingVertex
<1>4. l = [x |-> Lerp(p.x, c.x, dp, dp - dc), y |-> Lerp(p.y, c.y, dp, dp - dc),
           iw |-> Lerp(p.iw, c.iw, dp, dp - dc)]
  BY DEF Lerped
<1> HIDE DEF dp, dc
<1> HIDE DEF l
<1>5. \A a, b \in Int :
         Lerp(a, b, dp, dp - dc) \in Int /\ Mid(Lerp(a, b, dp, dp - dc), a, b)
  BY <1>1, <1>2, LerpBetween
<1>6. /\ l.x = Lerp(p.x, c.x, dp, dp - dc) /\ l.y = Lerp(p.y, c.y, dp, dp - dc)
       /\ l.iw = Lerp(p.iw, c.iw, dp, dp - dc)
  BY <1>4
<1>7. l.x \in Int /\ Mid(l.x, p.x, c.x)  BY <1>3, <1>5, <1>6
<1>8. l.y \in Int /\ Mid(l.y, p.y, c.y)  BY <1>3, <1>5, <1>6
<1>9. l.iw \in Int /\ Mid(l.iw, p.iw, c.iw)  BY <1>3, <1>5, <1>6
<1>10. l \in RingVertex  BY <1>4, <1>7, <1>8, <1>9 DEF RingVertex
<1>11. v = Snapped(l, e)  BY DEF Cut, l
<1>12. Guard.minx \in Int /\ Guard.maxx \in Int /\ Guard.miny \in Int /\ Guard.maxy \in Int
  BY GuardAssumption
<1> HIDE DEF v
<1>13. CASE e = 0
  <2>1. v = [l EXCEPT !.x = Guard.minx]  BY <1>11, <1>13 DEF Snapped
  <2>2. v \in RingVertex /\ v.x = Guard.minx /\ v.y = l.y /\ v.iw = l.iw
    BY <1>10, <1>12, <2>1 DEF RingVertex
  <2>3. dp = p.x - Guard.minx /\ dc = c.x - Guard.minx /\ EdgeDist(v, e) = v.x - Guard.minx
    BY <1>13 DEF EdgeDist, dp, dc
  <2>4. Mid(v.x, p.x, c.x)  BY <1>2, <1>3, <1>12, <2>2, <2>3 DEF Mid
  <2>5. EdgeDist(v, e) = 0  BY <1>12, <2>2, <2>3
  <2> QED BY <1>8, <1>9, <2>2, <2>4, <2>5 DEF v
<1>14. CASE e = 1
  <2>1. v = [l EXCEPT !.x = Guard.maxx]  BY <1>11, <1>14 DEF Snapped
  <2>2. v \in RingVertex /\ v.x = Guard.maxx /\ v.y = l.y /\ v.iw = l.iw
    BY <1>10, <1>12, <2>1 DEF RingVertex
  <2>3. dp = Guard.maxx - p.x /\ dc = Guard.maxx - c.x /\ EdgeDist(v, e) = Guard.maxx - v.x
    BY <1>14 DEF EdgeDist, dp, dc
  <2>4. Mid(v.x, p.x, c.x)  BY <1>2, <1>3, <1>12, <2>2, <2>3 DEF Mid
  <2>5. EdgeDist(v, e) = 0  BY <1>12, <2>2, <2>3
  <2> QED BY <1>8, <1>9, <2>2, <2>4, <2>5 DEF v
<1>15. CASE e = 2
  <2>1. v = [l EXCEPT !.y = Guard.miny]  BY <1>11, <1>15 DEF Snapped
  <2>2. v \in RingVertex /\ v.y = Guard.miny /\ v.x = l.x /\ v.iw = l.iw
    BY <1>10, <1>12, <2>1 DEF RingVertex
  <2>3. dp = p.y - Guard.miny /\ dc = c.y - Guard.miny /\ EdgeDist(v, e) = v.y - Guard.miny
    BY <1>15 DEF EdgeDist, dp, dc
  <2>4. Mid(v.y, p.y, c.y)  BY <1>2, <1>3, <1>12, <2>2, <2>3 DEF Mid
  <2>5. EdgeDist(v, e) = 0  BY <1>12, <2>2, <2>3
  <2> QED BY <1>7, <1>9, <2>2, <2>4, <2>5 DEF v
<1>16. CASE e = 3
  <2>1. v = [l EXCEPT !.y = Guard.maxy]  BY <1>11, <1>16 DEF Snapped
  <2>2. v \in RingVertex /\ v.y = Guard.maxy /\ v.x = l.x /\ v.iw = l.iw
    BY <1>10, <1>12, <2>1 DEF RingVertex
  <2>3. dp = Guard.maxy - p.y /\ dc = Guard.maxy - c.y /\ EdgeDist(v, e) = Guard.maxy - v.y
    BY <1>16 DEF EdgeDist, dp, dc
  <2>4. Mid(v.y, p.y, c.y)  BY <1>2, <1>3, <1>12, <2>2, <2>3 DEF Mid
  <2>5. EdgeDist(v, e) = 0  BY <1>12, <2>2, <2>3
  <2> QED BY <1>7, <1>9, <2>2, <2>4, <2>5 DEF v
<1> QED BY <1>13, <1>14, <1>15, <1>16 DEF Edges, v

(* The halves of the plane that an upright or level line cuts off.  A cut   *)
(* is in the half of one of the two vertices.                              *)
FromX(t) == {v \in RingVertex : v.x >= t}
ToX(t) == {v \in RingVertex : v.x <= t}
FromY(t) == {v \in RingVertex : v.y >= t}
ToY(t) == {v \in RingVertex : v.y <= t}

HalfPlanes ==
  {FromX(t) : t \in Int} \cup {ToX(t) : t \in Int} \cup {FromY(t) : t \in Int} \cup {ToY(t) : t \in Int}

KeptHalf(e) ==
  CASE e = 0 -> FromX(Guard.minx)
    [] e = 1 -> ToX(Guard.maxx)
    [] e = 2 -> FromY(Guard.miny)
    [] e = 3 -> ToY(Guard.maxy)

LEMMA KeptIsHalf ==
  ASSUME NEW e \in Edges
  PROVE  /\ KeptHalf(e) \in HalfPlanes
         /\ \A v \in RingVertex : v \in KeptHalf(e) <=> Kept(v, e)
<1>1. Guard.minx \in Int /\ Guard.maxx \in Int /\ Guard.miny \in Int /\ Guard.maxy \in Int
  BY GuardAssumption
<1>2. \A v \in RingVertex : v.x \in Int /\ v.y \in Int  BY DEF RingVertex
<1>3. CASE e = 0
  <2>1. KeptHalf(e) = FromX(Guard.minx)  BY <1>3 DEF KeptHalf
  <2>2. \A v \in RingVertex : Kept(v, e) <=> v.x >= Guard.minx
    BY <1>1, <1>2, <1>3 DEF Kept, EdgeDist
  <2> QED BY <1>1, <2>1, <2>2 DEF HalfPlanes, FromX
<1>4. CASE e = 1
  <2>1. KeptHalf(e) = ToX(Guard.maxx)  BY <1>4 DEF KeptHalf
  <2>2. \A v \in RingVertex : Kept(v, e) <=> v.x <= Guard.maxx
    BY <1>1, <1>2, <1>4 DEF Kept, EdgeDist
  <2> QED BY <1>1, <2>1, <2>2 DEF HalfPlanes, ToX
<1>5. CASE e = 2
  <2>1. KeptHalf(e) = FromY(Guard.miny)  BY <1>5 DEF KeptHalf
  <2>2. \A v \in RingVertex : Kept(v, e) <=> v.y >= Guard.miny
    BY <1>1, <1>2, <1>5 DEF Kept, EdgeDist
  <2> QED BY <1>1, <2>1, <2>2 DEF HalfPlanes, FromY
<1>6. CASE e = 3
  <2>1. KeptHalf(e) = ToY(Guard.maxy)  BY <1>6 DEF KeptHalf
  <2>2. \A v \in RingVertex : Kept(v, e) <=> v.y <= Guard.maxy
    BY <1>1, <1>2, <1>6 DEF Kept, EdgeDist
  <2> QED BY <1>1, <2>1, <2>2 DEF HalfPlanes, ToY
<1> QED BY <1>3, <1>4, <1>5, <1>6 DEF Edges

LEMMA MidSide ==
  ASSUME NEW v \in RingVertex, NEW p \in RingVertex, NEW c \in RingVertex,
         Mid(v.x, p.x, c.x), Mid(v.y, p.y, c.y), NEW H \in HalfPlanes
  PROVE  \/ v \in H <=> p \in H
         \/ v \in H <=> c \in H
<1>1. /\ v.x \in Int /\ v.y \in Int /\ p.x \in Int /\ p.y \in Int
      /\ c.x \in Int /\ c.y \in Int
  BY DEF RingVertex
<1>2. ASSUME NEW t \in Int, H = FromX(t)
      PROVE  (v \in H <=> p \in H) \/ (v \in H <=> c \in H)
  <2>1. (v \in H <=> v.x >= t) /\ (p \in H <=> p.x >= t) /\ (c \in H <=> c.x >= t)
    BY <1>2 DEF FromX
  <2> QED BY <1>1, <2>1 DEF Mid
<1>3. ASSUME NEW t \in Int, H = ToX(t)
      PROVE  (v \in H <=> p \in H) \/ (v \in H <=> c \in H)
  <2>1. (v \in H <=> v.x <= t) /\ (p \in H <=> p.x <= t) /\ (c \in H <=> c.x <= t)
    BY <1>3 DEF ToX
  <2> QED BY <1>1, <2>1 DEF Mid
<1>4. ASSUME NEW t \in Int, H = FromY(t)
      PROVE  (v \in H <=> p \in H) \/ (v \in H <=> c \in H)
  <2>1. (v \in H <=> v.y >= t) /\ (p \in H <=> p.y >= t) /\ (c \in H <=> c.y >= t)
    BY <1>4 DEF FromY
  <2> QED BY <1>1, <2>1 DEF Mid
<1>5. ASSUME NEW t \in Int, H = ToY(t)
      PROVE  (v \in H <=> p \in H) \/ (v \in H <=> c \in H)
  <2>1. (v \in H <=> v.y <= t) /\ (p \in H <=> p.y <= t) /\ (c \in H <=> c.y <= t)
    BY <1>5 DEF ToY
  <2> QED BY <1>1, <2>1 DEF Mid
<1>6. \E t \in Int : H \in {FromX(t), ToX(t), FromY(t), ToY(t)}  BY DEF HalfPlanes
<1> QED BY <1>2, <1>3, <1>4, <1>5, <1>6

(* A pass joins, vertex by vertex, the cut before it and the vertex. *)
Before(s, i) == s[IF i = 1 THEN Len(s) ELSE i - 1]
Crossed(s, e, i) == Kept(s[i], e) # Kept(Before(s, i), e)
CutAt(s, e, i) == Cut(Before(s, i), s[i], e)
IfSo(c, v) == IF c THEN <<v>> ELSE <<>>
Piece(s, e, i) ==
  IfSo(Crossed(s, e, i), CutAt(s, e, i)) \o IfSo(Kept(s[i], e), s[i])
Joined(s, e) == FlattenSeq([i \in DOMAIN s |-> Piece(s, e, i)])

LEMMA PassIs ==
  ASSUME NEW s, NEW e
  PROVE  ClipAgainstEdge(s, e)
         = SubSeq(Joined(s, e), 1,
                  IF Len(Joined(s, e)) < ClipMaxOut THEN Len(Joined(s, e)) ELSE ClipMaxOut)
BY DEF ClipAgainstEdge, Joined, Piece, IfSo, Crossed, CutAt, Before

Bit(c) == IF c THEN 1 ELSE 0
More(c, out, v) == IF c THEN Append(out, v) ELSE out

LEMMA IfSoType ==
  ASSUME NEW S, NEW c \in BOOLEAN, NEW v, c => v \in S
  PROVE  IfSo(c, v) \in Seq(S)
BY DEF IfSo

LEMMA MoreType ==
  ASSUME NEW S, NEW out \in Seq(S), NEW c \in BOOLEAN, NEW v, c => v \in S
  PROVE  More(c, out, v) \in Seq(S)
BY DEF More

LEMMA MoreIsJoin ==
  ASSUME NEW S, NEW out \in Seq(S), NEW c \in BOOLEAN, NEW v, c => v \in S
  PROVE  More(c, out, v) = out \o IfSo(c, v)
<1>1. CASE c
  <2>1. IfSo(c, v) = <<v>> /\ More(c, out, v) = Append(out, v)  BY <1>1 DEF IfSo, More
  <2>2. v \in S  BY <1>1
  <2>3. out \o <<v>> = Append(out, v)  BY <2>2
  <2> QED BY <2>1, <2>3
<1>2. CASE ~c
  <2>1. IfSo(c, v) = <<>> /\ More(c, out, v) = out  BY <1>2 DEF IfSo, More
  <2>2. out \o <<>> = out  OBVIOUS
  <2> QED BY <2>1, <2>2
<1> QED BY <1>1, <1>2

LEMMA MoreLength ==
  ASSUME NEW S, NEW out \in Seq(S), NEW c \in BOOLEAN, NEW v, c => v \in S
  PROVE  Len(More(c, out, v)) = Len(out) + Bit(c)
<1>1. CASE c
  <2>1. More(c, out, v) = Append(out, v) /\ Bit(c) = 1 /\ v \in S  BY <1>1 DEF More, Bit
  <2>2. Len(Append(out, v)) = Len(out) + 1  BY <2>1
  <2> QED BY <2>1, <2>2
<1>2. CASE ~c
  <2>1. More(c, out, v) = out /\ Bit(c) = 0  BY <1>2 DEF More, Bit
  <2>2. Len(out) = Len(out) + 0  OBVIOUS
  <2> QED BY <2>1, <2>2
<1> QED BY <1>1, <1>2

LEMMA Regrouped ==
  ASSUME NEW S, NEW a \in Seq(S), NEW b \in Seq(S), NEW c \in Seq(S)
  PROVE  a \o (b \o c) = (a \o b) \o c
OBVIOUS

(* out with the cut before vertex i and the vertex, if they are there. *)
Grown(out, s, e, i) ==
  More(Kept(s[i], e), More(Crossed(s, e, i), out, CutAt(s, e, i)), s[i])

(* g[i] holds what a pass has joined at the first i vertices. *)
Built(g, s, e, n) ==
  g[0] = <<>> /\ \A i \in 1 .. n : g[i] = Grown(g[i - 1], s, e, i)

PieceIn(s, e, i, S) ==
  (Crossed(s, e, i) => CutAt(s, e, i) \in S) /\ (Kept(s[i], e) => s[i] \in S)

LEMMA KeptBool ==
  ASSUME NEW s, NEW e, NEW i
  PROVE  Kept(s[i], e) \in BOOLEAN /\ Crossed(s, e, i) \in BOOLEAN
BY DEF Kept, Crossed

LEMMA PieceType ==
  ASSUME NEW S, NEW s, NEW e, NEW i, PieceIn(s, e, i, S)
  PROVE  Piece(s, e, i) \in Seq(S)
<1>1. <<>> \in Seq(S)  OBVIOUS
<1>2. /\ IfSo(Crossed(s, e, i), CutAt(s, e, i)) \in Seq(S)
      /\ IfSo(Kept(s[i], e), s[i]) \in Seq(S)
  BY KeptBool, IfSoType DEF PieceIn
<1> QED BY <1>2, ConcatProperties DEF Piece

GrowsTo(out, s, e, i) == out \o Piece(s, e, i) = Grown(out, s, e, i)

LEMMA TwoMore ==
  ASSUME NEW S, NEW out \in Seq(S), NEW c \in BOOLEAN, NEW u, c => u \in S,
         NEW d \in BOOLEAN, NEW v, d => v \in S
  PROVE  out \o (IfSo(c, u) \o IfSo(d, v)) = More(d, More(c, out, u), v)
<1>1. IfSo(c, u) \in Seq(S)  BY IfSoType
<1>2. IfSo(d, v) \in Seq(S)  BY IfSoType
<1>3. More(c, out, u) \in Seq(S)  BY MoreType
<1>4. More(c, out, u) = out \o IfSo(c, u)  BY MoreIsJoin
<1>5. More(d, More(c, out, u), v) = More(c, out, u) \o IfSo(d, v)
  <2>1. \A m \in Seq(S) : More(d, m, v) = m \o IfSo(d, v)  BY MoreIsJoin
  <2> QED BY <1>3, <2>1, Zenon
<1>6. out \o (IfSo(c, u) \o IfSo(d, v)) = (out \o IfSo(c, u)) \o IfSo(d, v)
  <2>1. \A x, y, z \in Seq(S) : x \o (y \o z) = (x \o y) \o z  BY Regrouped
  <2> QED BY <1>1, <1>2, <2>1, Zenon
<1> QED BY <1>4, <1>5, <1>6, Zenon

LEMMA GrownBy ==
  ASSUME NEW S, NEW out \in Seq(S), NEW s, NEW e, NEW i, PieceIn(s, e, i, S)
  PROVE  GrowsTo(out, s, e, i)
<1>1. Crossed(s, e, i) \in BOOLEAN  BY KeptBool
<1>2. Kept(s[i], e) \in BOOLEAN  BY KeptBool
<1>3. Crossed(s, e, i) => CutAt(s, e, i) \in S  BY DEF PieceIn
<1>4. Kept(s[i], e) => s[i] \in S  BY DEF PieceIn
<1>5. \A c \in BOOLEAN, d \in BOOLEAN : \A u, v :
        (c => u \in S) /\ (d => v \in S)
          => out \o (IfSo(c, u) \o IfSo(d, v)) = More(d, More(c, out, u), v)
  BY TwoMore
<1>6. \A u, v :
        (Crossed(s, e, i) => u \in S) /\ (Kept(s[i], e) => v \in S)
          => out \o (IfSo(Crossed(s, e, i), u) \o IfSo(Kept(s[i], e), v))
             = More(Kept(s[i], e), More(Crossed(s, e, i), out, u), v)
  BY <1>1, <1>2, <1>5
<1>7. out \o (IfSo(Crossed(s, e, i), CutAt(s, e, i)) \o IfSo(Kept(s[i], e), s[i]))
      = More(Kept(s[i], e), More(Crossed(s, e, i), out, CutAt(s, e, i)), s[i])
  BY <1>3, <1>4, <1>6
<1>8. Piece(s, e, i) = IfSo(Crossed(s, e, i), CutAt(s, e, i)) \o IfSo(Kept(s[i], e), s[i])
  BY DEF Piece
<1>9. Grown(out, s, e, i)
      = More(Kept(s[i], e), More(Crossed(s, e, i), out, CutAt(s, e, i)), s[i])
  BY DEF Grown
<1> QED BY <1>7, <1>8, <1>9 DEF GrowsTo

CanBuild(s, e, n, S) ==
  \E g \in [0 .. n -> Seq(S)] : Built(g, s, e, n) /\ g[n] = Joined(s, e)

LEMMA Building ==
  ASSUME NEW S, NEW n \in Nat \ {0}, NEW s, DOMAIN s = 1 .. n, NEW e,
         \A i \in 1 .. n : PieceIn(s, e, i, S)
  PROVE  CanBuild(s, e, n, S)
<1> DEFINE pieces == [i \in 1 .. n |-> Piece(s, e, i)]
<1>1. <<>> \in Seq(S)  OBVIOUS
<1>2. pieces \in [1 .. n -> Seq(S)]  BY PieceType
<1>3. Joined(s, e) = FlattenSeq(pieces)  BY DEF Joined
<1>4. \A i \in 1 .. n : pieces[i] = Piece(s, e, i)  OBVIOUS
<1> HIDE DEF pieces
<1>5. PICK f \in [1 .. n -> Seq(S)] : FlattenSeq(pieces) = f[n] /\ Joins(f, pieces, n)
  BY <1>2, Flattened
<1> DEFINE g == [i \in 0 .. n |-> IF i = 0 THEN <<>> ELSE f[i]]
<1>6. g \in [0 .. n -> Seq(S)]
  <2>1. \A i \in 0 .. n : i # 0 => i \in 1 .. n  OBVIOUS
  <2> QED BY <1>1, <2>1
<1>7. g[0] = <<>> /\ \A i \in 1 .. n : g[i] = f[i] /\ i \in 0 .. n /\ i - 1 \in 0 .. n
  OBVIOUS
<1>8. \A i \in 1 .. n : i # 1 => g[i - 1] = f[i - 1]
  <2>1. \A i \in 1 .. n : i # 1 => i - 1 \in 1 .. n  OBVIOUS
  <2> QED BY <1>7, <2>1
<1>9. g[1 - 1] = <<>>  BY <1>7
<1> HIDE DEF g
<1>10. ASSUME NEW i \in 1 .. n PROVE g[i] = Grown(g[i - 1], s, e, i)
  <2>1. g[i - 1] \in Seq(S)  BY <1>6, <1>7
  <2>2. g[i] = g[i - 1] \o pieces[i]
    <3>1. f[i] = IF i = 1 THEN pieces[i] ELSE f[i - 1] \o pieces[i]
      BY <1>5 DEF Joins
    <3>2. CASE i = 1
      <4>1. pieces[i] \in Seq(S)  BY <1>2
      <4>2. <<>> \o pieces[i] = pieces[i]  BY <4>1
      <4> QED BY <1>7, <1>9, <3>1, <3>2, <4>2
    <3>3. CASE i # 1  BY <1>7, <1>8, <3>1, <3>3
    <3> QED BY <3>2, <3>3
  <2>3. PieceIn(s, e, i, S)  OBVIOUS
  <2>4. \A out \in Seq(S) : GrowsTo(out, s, e, i)
    BY <2>3, GrownBy
  <2> QED BY <1>4, <2>1, <2>2, <2>4 DEF GrowsTo
<1>11. g[n] = Joined(s, e)  BY <1>3, <1>5, <1>7
<1> QED BY <1>6, <1>7, <1>10, <1>11 DEF Built, CanBuild

(* A ring is folded at a line if it changes sides three times along it.     *)
(* What a pass has joined changes sides no more often than the ring: each  *)
(* of it is on the side of a vertex, taken in the order of the ring.       *)
Turns(s, H, i, j, k, l) ==
  /\ i < j /\ j < k /\ k < l
  /\ ~(s[i] \in H <=> s[j] \in H)
  /\ ~(s[j] \in H <=> s[k] \in H)
  /\ ~(s[k] \in H <=> s[l] \in H)

Folded(s, H) ==
  \E i \in 1 .. Len(s) : \E j \in 1 .. Len(s) : \E k \in 1 .. Len(s) : \E l \in 1 .. Len(s) :
    Turns(s, H, i, j, k, l)

At(s, k) == s[IF k = 0 THEN Len(s) ELSE k]

SameSide(v, w, H) == v \in H <=> w \in H

TakenAlong(r, out, s, H) ==
  /\ \A i, j \in 1 .. Len(out) : i <= j => r[i] <= r[j]
  /\ \A i \in 1 .. Len(out) : SameSide(out[i], At(s, r[i]), H)

Represented(out, s, H, m) == \E r \in [1 .. Len(out) -> 0 .. m] : TakenAlong(r, out, s, H)

LEMMA RepresentedNone ==
  ASSUME NEW s, NEW H
  PROVE  Represented(<<>>, s, H, 0)
<1> DEFINE r == [i \in 1 .. 0 |-> 0]
<1>1. Len(<<>>) = 0 /\ 1 .. 0 = {}  OBVIOUS
<1>2. r \in [1 .. Len(<<>>) -> 0 .. 0]  BY <1>1
<1>3. TakenAlong(r, <<>>, s, H)  BY <1>1 DEF TakenAlong
<1> QED BY <1>2, <1>3 DEF Represented

LEMMA RepresentedLater ==
  ASSUME NEW out, NEW s, NEW H, NEW m \in Nat, NEW k \in Nat, m <= k, Represented(out, s, H, m)
  PROVE  Represented(out, s, H, k)
<1> PICK r \in [1 .. Len(out) -> 0 .. m] : TakenAlong(r, out, s, H)  BY DEF Represented
<1>1. 0 .. m \subseteq 0 .. k  OBVIOUS
<1>2. r \in [1 .. Len(out) -> 0 .. k]  BY <1>1
<1> QED BY <1>2 DEF Represented

LEMMA RepresentedMore ==
  ASSUME NEW S, NEW out \in Seq(S), NEW s, NEW H, NEW m \in Nat, Represented(out, s, H, m),
         NEW v \in S, SameSide(v, At(s, m), H)
  PROVE  Represented(Append(out, v), s, H, m)
<1> PICK r \in [1 .. Len(out) -> 0 .. m] : TakenAlong(r, out, s, H)  BY DEF Represented
<1> DEFINE n == Len(out)
           new == Append(out, v)
           q == [i \in 1 .. n + 1 |-> IF i <= n THEN r[i] ELSE m]
<1>1. n \in Nat /\ Len(new) = n + 1 /\ new[n + 1] = v /\ \A i \in 1 .. n : new[i] = out[i]
  OBVIOUS
<1> HIDE DEF n, new
<1>2. r \in [1 .. n -> 0 .. m]  BY DEF n
<1>3. \A i \in 1 .. n : q[i] = r[i] /\ r[i] \in 0 .. m /\ i <= n  BY <1>1, <1>2
<1>4. q[n + 1] = m  BY <1>1
<1>5. q \in [1 .. n + 1 -> 0 .. m]
  <2>1. \A i \in 1 .. n + 1 : i <= n => i \in 1 .. n  BY <1>1
  <2>2. m \in 0 .. m  OBVIOUS
  <2>3. \A i \in 1 .. n : r[i] \in 0 .. m  BY <1>2
  <2> QED BY <2>1, <2>2, <2>3
<1> HIDE DEF q
<1>6. \A i \in 1 .. n + 1 : i \in 1 .. n \/ i = n + 1  BY <1>1
<1>7. ASSUME NEW i \in 1 .. n + 1, NEW j \in 1 .. n + 1, i <= j PROVE q[i] <= q[j]
  <2>1. CASE j \in 1 .. n
    <3>1. i \in 1 .. n  BY <1>1, <1>7, <2>1
    <3>2. r[i] <= r[j]  BY <1>7, <2>1, <3>1 DEF TakenAlong, n
    <3> QED BY <1>3, <2>1, <3>1, <3>2
  <2>2. CASE j = n + 1
    <3>1. q[i] \in 0 .. m  BY <1>5
    <3> QED BY <1>4, <2>2, <3>1
  <2> QED BY <1>6, <2>1, <2>2
<1>8. ASSUME NEW i \in 1 .. n + 1 PROVE SameSide(new[i], At(s, q[i]), H)
  <2>1. CASE i \in 1 .. n
    <3>1. SameSide(out[i], At(s, r[i]), H)  BY <2>1 DEF TakenAlong, n
    <3> QED BY <1>1, <1>3, <2>1, <3>1
  <2>2. CASE i = n + 1  BY <1>1, <1>4, <2>2
  <2> QED BY <1>6, <2>1, <2>2
<1>9. TakenAlong(q, new, s, H)  BY <1>1, <1>7, <1>8 DEF TakenAlong
<1> QED BY <1>1, <1>5, <1>9 DEF Represented, new

LEMMA StaysUnfolded ==
  ASSUME NEW s, NEW out, NEW H, Len(s) \in Nat \ {0}, ~Folded(s, H),
         Represented(out, s, H, Len(s))
  PROVE  ~Folded(out, H)
<1> DEFINE n == Len(s)
           o == Len(out)
<1> PICK r \in [1 .. o -> 0 .. n] : TakenAlong(r, out, s, H)  BY DEF Represented
<1> SUFFICES ASSUME NEW i \in 1 .. o, NEW j \in 1 .. o, NEW k \in 1 .. o, NEW l \in 1 .. o,
                    Turns(out, H, i, j, k, l)
             PROVE  FALSE
  BY DEF Folded
<1>1. n \in Nat \ {0}  OBVIOUS
<1>2. r[i] \in 0 .. n /\ r[j] \in 0 .. n /\ r[k] \in 0 .. n /\ r[l] \in 0 .. n  OBVIOUS
<1>3. i <= j /\ j <= k /\ k <= l  BY DEF Turns
<1>4. r[i] <= r[j] /\ r[j] <= r[k] /\ r[k] <= r[l]  BY <1>3 DEF TakenAlong
<1>5. /\ SameSide(out[i], At(s, r[i]), H) /\ SameSide(out[j], At(s, r[j]), H)
      /\ SameSide(out[k], At(s, r[k]), H) /\ SameSide(out[l], At(s, r[l]), H)
  BY DEF TakenAlong
<1> DEFINE In(x) == At(s, x) \in H
<1>6. ~(In(r[i]) <=> In(r[j])) /\ ~(In(r[j]) <=> In(r[k])) /\ ~(In(r[k]) <=> In(r[l]))
  BY <1>5 DEF Turns, SameSide
<1>7. In(0) <=> In(n)  BY <1>1 DEF At
<1>8. \A x \in 1 .. n : In(x) <=> s[x] \in H
  <2>1. \A x \in 1 .. n : x # 0  BY <1>1
  <2> QED BY <2>1 DEF At
<1> HIDE DEF In, n, o
<1>9. r[i] # r[j] /\ r[j] # r[k] /\ r[k] # r[l]  BY <1>6
<1>10. r[i] < r[j] /\ r[j] < r[k] /\ r[k] < r[l]  BY <1>1, <1>2, <1>4, <1>9
<1>11. r[j] \in 1 .. n /\ r[k] \in 1 .. n /\ r[l] \in 1 .. n  BY <1>1, <1>2, <1>10
<1>12. \A x, y, z, w \in 1 .. n : ~Turns(s, H, x, y, z, w)  BY DEF Folded, n
<1>13. CASE r[i] # 0
  <2>1. r[i] \in 1 .. n  BY <1>1, <1>2, <1>13
  <2>2. Turns(s, H, r[i], r[j], r[k], r[l])
    BY <1>6, <1>8, <1>10, <1>11, <2>1 DEF Turns
  <2> QED BY <1>11, <1>12, <2>1, <2>2
<1>14. CASE r[i] = 0
  <2>1. ~(In(n) <=> In(r[j])) /\ ~(In(r[l]) <=> In(n))
    <3>1. ~(In(0) <=> In(r[j]))  BY <1>6, <1>14
    <3> QED BY <1>6, <1>7, <3>1
  <2>2. r[l] # n  BY <2>1
  <2>3. r[l] < n /\ n \in 1 .. n  BY <1>1, <1>2, <2>2
  <2>4. Turns(s, H, r[j], r[k], r[l], n)
    BY <1>6, <1>8, <1>10, <1>11, <2>1, <2>3 DEF Turns
  <2> QED BY <1>11, <1>12, <2>3, <2>4
<1> QED BY <1>13, <1>14

(* The vertices of an unfolded ring that are on the other side of a line    *)
(* than its last one follow one another: those after p up to q.            *)
Away(p, q, i) == p < i /\ i <= q

Arc(s, H, p, q) ==
  /\ p <= q /\ (p # q => q < Len(s))
  /\ \A i \in 1 .. Len(s) : SameSide(s[i], s[Len(s)], H) <=> ~Away(p, q, i)

LEMMA UnfoldedArc ==
  ASSUME NEW s, NEW H, Len(s) \in Nat \ {0}, ~Folded(s, H)
  PROVE  \E p \in 0 .. Len(s) : \E q \in 0 .. Len(s) : Arc(s, H, p, q)
<1> DEFINE n == Len(s)
           X == {i \in 1 .. n : ~SameSide(s[i], s[n], H)}
<1>1. n \in Nat \ {0} /\ n \in 1 .. n /\ 0 \in 0 .. n  OBVIOUS
<1>2. CASE X = {}
  <2>1. \A i \in 1 .. n : SameSide(s[i], s[n], H)  BY <1>2
  <2>2. \A i \in 1 .. n : ~Away(0, 0, i)  BY <1>1 DEF Away
  <2>3. Arc(s, H, 0, 0)  BY <2>1, <2>2 DEF Arc
  <2> QED BY <1>1, <2>3
<1>3. CASE X # {}
  <2> DEFINE l == Least(X)
             q == Greatest(X)
  <2>1. X \in SUBSET Nat /\ X \in SUBSET (0 .. n)  BY <1>1
  <2>2. l \in X /\ \A i \in X : l <= i  BY <1>3, <2>1, LeastIn
  <2>3. q \in X /\ \A i \in X : q >= i  BY <1>1, <1>3, <2>1, GreatestIn
  <2>4. \A i \in 1 .. n : i \in X <=> ~SameSide(s[i], s[n], H)  OBVIOUS
  <2>5. X \subseteq 1 .. n  OBVIOUS
  <2>6. n \notin X  BY <1>1, <2>4 DEF SameSide
  <2> HIDE DEF X, l, q
  <2>7. l \in 1 .. n /\ q \in 1 .. n /\ q # n /\ l <= q  BY <2>2, <2>3, <2>5, <2>6
  <2>8. ASSUME NEW i \in 1 .. n, l < i, i < q, i \notin X PROVE FALSE
    <3>1. SameSide(s[i], s[n], H) /\ ~SameSide(s[l], s[n], H) /\ ~SameSide(s[q], s[n], H)
      BY <2>2, <2>3, <2>4, <2>7, <2>8
    <3>2. ~(s[l] \in H <=> s[i] \in H) /\ ~(s[i] \in H <=> s[q] \in H)
          /\ ~(s[q] \in H <=> s[n] \in H)
      BY <3>1 DEF SameSide
    <3>3. q < n  BY <1>1, <2>7
    <3>4. Turns(s, H, l, i, q, n)  BY <2>8, <3>2, <3>3 DEF Turns
    <3> QED BY <1>1, <2>7, <3>4 DEF Folded
  <2>9. \A i \in 1 .. n : i \in X <=> Away(l - 1, q, i)
    <3>1. ASSUME NEW i \in 1 .. n PROVE i \in X <=> Away(l - 1, q, i)
      <4>1. i \in X => l <= i /\ i <= q  BY <2>2, <2>3, <2>7
      <4>2. l <= i /\ i <= q => i \in X
        <5> SUFFICES ASSUME l <= i, i <= q, i \notin X PROVE FALSE  OBVIOUS
        <5>1. i # l /\ i # q  BY <2>2, <2>3
        <5>2. l < i /\ i < q  BY <2>7, <5>1
        <5> QED BY <2>8, <5>2
      <4>3. l - 1 < i <=> l <= i  BY <2>7
      <4> QED BY <4>1, <4>2, <4>3 DEF Away
    <3> QED BY <3>1
  <2>10. l - 1 \in 0 .. n /\ q \in 0 .. n /\ l - 1 <= q /\ q < n  BY <1>1, <2>7
  <2>11. \A i \in 1 .. n : SameSide(s[i], s[n], H) <=> ~Away(l - 1, q, i)
    BY <2>4, <2>9
  <2>12. Arc(s, H, l - 1, q)  BY <2>10, <2>11 DEF Arc
  <2> QED BY <2>10, <2>12
<1> QED BY <1>2, <1>3

(* How much a pass has joined at the first i vertices: those kept, and a    *)
(* cut where the arc begins and where it ends.                             *)
LenAt(b, p, q, i) ==
  IF i <= p \/ p = q THEN (IF b THEN i ELSE 0)
  ELSE IF i <= q THEN (IF b THEN p + 1 ELSE 1 + (i - p))
  ELSE IF b THEN p + 2 + (i - q) ELSE 2 + (q - p)

LEMMA LenAtNext ==
  ASSUME NEW b \in BOOLEAN, NEW p \in Nat, NEW q \in Nat, p <= q, NEW i \in Nat
  PROVE  LenAt(b, p, q, i + 1)
         = LenAt(b, p, q, i) + Bit(p # q /\ (i + 1 = p + 1 \/ i + 1 = q + 1))
           + Bit(b <=> ~Away(p, q, i + 1))
<1>1. CASE b = TRUE  BY <1>1 DEF LenAt, Bit, Away
<1>2. CASE b = FALSE  BY <1>2 DEF LenAt, Bit, Away
<1> QED BY <1>1, <1>2

LEMMA LenAtEnd ==
  ASSUME NEW b \in BOOLEAN, NEW p \in Nat, NEW q \in Nat, p <= q,
         NEW n \in Nat, n >= 3, p # q => q < n
  PROVE  /\ LenAt(b, p, q, n) <= n + 1
         /\ LenAt(b, p, q, n) = 0 \/ LenAt(b, p, q, n) >= 3
<1>1. CASE b = TRUE  BY <1>1 DEF LenAt
<1>2. CASE b = FALSE  BY <1>2 DEF LenAt
<1> QED BY <1>1, <1>2

LEMMA JoinedLength ==
  ASSUME NEW s \in Seq(RingVertex), Len(s) >= 3, NEW e \in Edges,
         ~Folded(s, KeptHalf(e)), NEW S, NEW g \in [0 .. Len(s) -> Seq(S)],
         Built(g, s, e, Len(s)), \A i \in 1 .. Len(s) : PieceIn(s, e, i, S)
  PROVE  /\ Len(g[Len(s)]) <= Len(s) + 1
         /\ Len(g[Len(s)]) = 0 \/ Len(g[Len(s)]) >= 3
<1> DEFINE n == Len(s)
           H == KeptHalf(e)
           b == Kept(s[n], e)
<1>1. n \in Nat /\ n >= 3 /\ n \in 1 .. n /\ Len(s) = n  OBVIOUS
<1>2. \A i \in 1 .. n : s[i] \in H <=> Kept(s[i], e)  BY KeptIsHalf
<1>3. PICK p \in 0 .. n, q \in 0 .. n : Arc(s, H, p, q)  BY <1>1, UnfoldedArc
<1> HIDE DEF n, H
<1>4. p \in Nat /\ q \in Nat /\ p <= q /\ (p # q => q < n)  BY <1>1, <1>3 DEF Arc, n
<1>5. \A i \in 1 .. n : (Kept(s[i], e) <=> b) <=> ~Away(p, q, i)
  BY <1>1, <1>2, <1>3 DEF Arc, SameSide, n
<1>6. b \in BOOLEAN  BY DEF Kept
<1> HIDE DEF b
<1>7. \A i \in 1 .. n : Kept(s[i], e) <=> (b <=> ~Away(p, q, i))  BY <1>5, <1>6, KeptBool
<1>8. ASSUME NEW i \in 1 .. n
      PROVE  Crossed(s, e, i) <=> (p # q /\ (i = p + 1 \/ i = q + 1))
  <2>1. CASE i = 1
    <3>1. Before(s, i) = s[n]  BY <1>1, <2>1 DEF Before
    <3>2. Crossed(s, e, i) <=> ~(Kept(s[i], e) <=> Kept(s[n], e))
      BY <3>1 DEF Crossed, Kept
    <3>3. Crossed(s, e, i) <=> Away(p, q, i)  BY <1>5, <3>2 DEF b
    <3>4. Away(p, q, i) <=> (p # q /\ (i = p + 1 \/ i = q + 1))
      BY <1>4, <2>1 DEF Away
    <3> QED BY <3>3, <3>4
  <2>2. CASE i # 1
    <3>1. i - 1 \in 1 .. n  BY <1>1, <2>2
    <3>2. Before(s, i) = s[i - 1]  BY <2>2 DEF Before
    <3>3. Crossed(s, e, i) <=> ~(Kept(s[i], e) <=> Kept(s[i - 1], e))
      BY <3>2 DEF Crossed, Kept
    <3>4. Crossed(s, e, i) <=> ~(Away(p, q, i) <=> Away(p, q, i - 1))
      BY <1>5, <3>1, <3>3
    <3>5. ~(Away(p, q, i) <=> Away(p, q, i - 1)) <=> (p # q /\ (i = p + 1 \/ i = q + 1))
      BY <1>4, <3>1 DEF Away
    <3> QED BY <3>4, <3>5
  <2> QED BY <2>1, <2>2
<1> DEFINE Good == {i \in Nat : i <= n => Len(g[i]) = LenAt(b, p, q, i)}
<1>9. 0 \in Good
  <2>1. Len(g[0]) = 0  BY DEF Built
  <2>2. LenAt(b, p, q, 0) = 0  BY <1>4, <1>6 DEF LenAt
  <2> QED BY <2>1, <2>2
<1>10. ASSUME NEW i \in Nat, i \in Good PROVE i + 1 \in Good
  <2> SUFFICES ASSUME i + 1 <= n PROVE Len(g[i + 1]) = LenAt(b, p, q, i + 1)
    OBVIOUS
  <2> DEFINE k == i + 1
  <2>1. k \in 1 .. n /\ i \in 0 .. n /\ i <= n /\ k - 1 = i  BY <1>1
  <2>2. Len(g[i]) = LenAt(b, p, q, i)  BY <1>10, <2>1
  <2> HIDE DEF Good
  <2>3. g[k] = Grown(g[i], s, e, k)  BY <2>1 DEF Built, n
  <2>4. g[i] \in Seq(S)  BY <2>1 DEF n
  <2>5. PieceIn(s, e, k, S)  BY <2>1 DEF n
  <2> DEFINE m == More(Crossed(s, e, k), g[i], CutAt(s, e, k))
  <2> HIDE DEF k
  <2>6. m \in Seq(S) /\ Len(m) = Len(g[i]) + Bit(Crossed(s, e, k))
    <3>1. m \in Seq(S)  BY <2>4, <2>5, KeptBool, MoreType DEF PieceIn
    <3>2. Len(m) = Len(g[i]) + Bit(Crossed(s, e, k))
      BY <2>4, <2>5, KeptBool, MoreLength DEF PieceIn
    <3> QED BY <3>1, <3>2
  <2> HIDE DEF m
  <2>7. Len(More(Kept(s[k], e), m, s[k])) = Len(m) + Bit(Kept(s[k], e))
    BY <2>5, <2>6, KeptBool, MoreLength DEF PieceIn
  <2>8. g[k] = More(Kept(s[k], e), m, s[k])  BY <2>3 DEF Grown, m
  <2>9. Bit(Crossed(s, e, k)) = Bit(p # q /\ (k = p + 1 \/ k = q + 1))
    BY <1>8, <2>1 DEF Bit
  <2>10. Bit(Kept(s[k], e)) = Bit(b <=> ~Away(p, q, k))  BY <1>7, <2>1 DEF Bit
  <2>11. LenAt(b, p, q, i + 1)
         = LenAt(b, p, q, i) + Bit(p # q /\ (i + 1 = p + 1 \/ i + 1 = q + 1))
           + Bit(b <=> ~Away(p, q, i + 1))
    BY <1>4, <1>6, LenAtNext
  <2> QED BY <2>2, <2>6, <2>7, <2>8, <2>9, <2>10, <2>11 DEF k
<1> HIDE DEF Good
<1>11. n \in Good  BY <1>1, <1>9, <1>10, SetInduction
<1>12. Len(g[n]) = LenAt(b, p, q, n)  BY <1>1, <1>11 DEF Good
<1> QED BY <1>1, <1>4, <1>6, <1>12, LenAtEnd

LEMMA CutSides ==
  ASSUME NEW s \in Seq(RingVertex), NEW e \in Edges, NEW i \in 1 .. Len(s), Crossed(s, e, i)
  PROVE  /\ Before(s, i) \in RingVertex /\ s[i] \in RingVertex
         /\ CutAt(s, e, i) \in RingVertex
         /\ EdgeDist(CutAt(s, e, i), e) = 0
         /\ Mid(CutAt(s, e, i).iw, Before(s, i).iw, s[i].iw)
         /\ \A H \in HalfPlanes : \/ SameSide(CutAt(s, e, i), Before(s, i), H)
                                  \/ SameSide(CutAt(s, e, i), s[i], H)
<1> DEFINE p == Before(s, i)
           c == s[i]
           v == CutAt(s, e, i)
<1>1. p \in RingVertex /\ c \in RingVertex
  <2>1. Len(s) \in 1 .. Len(s) /\ (i # 1 => i - 1 \in 1 .. Len(s))  OBVIOUS
  <2>2. \A k \in 1 .. Len(s) : s[k] \in RingVertex  OBVIOUS
  <2> QED BY <2>1, <2>2 DEF Before
<1>2. v = Cut(p, c, e) /\ Kept(c, e) # Kept(p, e)  BY DEF CutAt, Crossed
<1> HIDE DEF p, c, v
<1>3. /\ v \in RingVertex /\ EdgeDist(v, e) = 0
      /\ Mid(v.x, p.x, c.x) /\ Mid(v.y, p.y, c.y) /\ Mid(v.iw, p.iw, c.iw)
  BY <1>1, <1>2, CutBetween
<1>4. \A H \in HalfPlanes : (v \in H <=> p \in H) \/ (v \in H <=> c \in H)
  BY <1>1, <1>3, MidSide
<1> QED BY <1>1, <1>3, <1>4 DEF p, c, v, SameSide

LEMMA JoinedFollows ==
  ASSUME NEW s \in Seq(RingVertex), Len(s) \in Nat \ {0}, NEW e \in Edges, NEW H \in HalfPlanes,
         NEW S, NEW g \in [0 .. Len(s) -> Seq(S)], Built(g, s, e, Len(s)),
         \A i \in 1 .. Len(s) : PieceIn(s, e, i, S)
  PROVE  Represented(g[Len(s)], s, H, Len(s))
<1> DEFINE n == Len(s)
           Good == {i \in Nat : i <= n => Represented(g[i], s, H, i)}
<1>1. 0 \in Good
  <2>1. g[0] = <<>>  BY DEF Built
  <2> QED BY <2>1, RepresentedNone
<1>2. ASSUME NEW i \in Nat, i \in Good PROVE i + 1 \in Good
  <2> SUFFICES ASSUME i + 1 <= n PROVE Represented(g[i + 1], s, H, i + 1)
    OBVIOUS
  <2> DEFINE k == i + 1
  <2>1. /\ k \in 1 .. n /\ i \in 0 .. n /\ i <= n /\ k - 1 = i /\ k \in Nat /\ i <= k
        /\ k # 0 /\ (k = 1 <=> i = 0)
    OBVIOUS
  <2>2. Represented(g[i], s, H, i)  BY <1>2, <2>1
  <2> HIDE DEF Good
  <2>3. g[k] = Grown(g[i], s, e, k)  BY <2>1 DEF Built
  <2>4. g[i] \in Seq(S)  BY <2>1
  <2>5. /\ Crossed(s, e, k) => CutAt(s, e, k) \in S
        /\ Kept(s[k], e) => s[k] \in S
    BY <2>1 DEF PieceIn
  <2>6. At(s, k) = s[k] /\ At(s, i) = Before(s, k)  BY <2>1 DEF At, Before
  <2> DEFINE m == More(Crossed(s, e, k), g[i], CutAt(s, e, k))
  <2> HIDE DEF k
  <2>7. m \in Seq(S)  BY <2>4, <2>5, KeptBool, MoreType
  <2>8. Represented(m, s, H, k)
    <3>1. CASE ~Crossed(s, e, k)
      <4>1. m = g[i]  BY <3>1 DEF More
      <4> QED BY <2>1, <2>2, <4>1, RepresentedLater
    <3>2. CASE Crossed(s, e, k)
      <4>1. m = Append(g[i], CutAt(s, e, k))  BY <3>2 DEF More
      <4>2. CutAt(s, e, k) \in S  BY <2>5, <3>2
      <4>3. \/ SameSide(CutAt(s, e, k), At(s, i), H)
            \/ SameSide(CutAt(s, e, k), At(s, k), H)
        BY <2>1, <2>6, <3>2, CutSides
      <4>4. CASE SameSide(CutAt(s, e, k), At(s, i), H)
        <5>1. Represented(m, s, H, i)
          BY <2>2, <2>4, <4>1, <4>2, <4>4, RepresentedMore
        <5> QED BY <2>1, <5>1, RepresentedLater
      <4>5. CASE SameSide(CutAt(s, e, k), At(s, k), H)
        <5>1. Represented(g[i], s, H, k)  BY <2>1, <2>2, RepresentedLater
        <5> QED BY <2>1, <2>4, <4>1, <4>2, <4>5, <5>1, RepresentedMore
      <4> QED BY <4>3, <4>4, <4>5
    <3> QED BY <3>1, <3>2
  <2> HIDE DEF m
  <2>9. Represented(g[k], s, H, k)
    <3>0. g[k] = More(Kept(s[k], e), m, s[k])  BY <2>3 DEF Grown, m
    <3>1. CASE ~Kept(s[k], e)
      <4>1. g[k] = m  BY <3>0, <3>1 DEF More
      <4> QED BY <2>8, <4>1
    <3>2. CASE Kept(s[k], e)
      <4>1. g[k] = Append(m, s[k]) /\ s[k] \in S  BY <2>5, <3>0, <3>2 DEF More
      <4>2. SameSide(s[k], At(s, k), H)  BY <2>6 DEF SameSide
      <4> QED BY <2>1, <2>7, <2>8, <4>1, <4>2, RepresentedMore
    <3> QED BY <3>1, <3>2
  <2> QED BY <2>9 DEF k
<1> HIDE DEF Good
<1>3. n \in Good  BY <1>1, <1>2, SetInduction
<1> QED BY <1>3 DEF Good

LEMMA JoinedWhole ==
  ASSUME NEW s \in Seq(RingVertex), NEW e \in Edges,
         NEW S, NEW g \in [0 .. Len(s) -> Seq(S)], Built(g, s, e, Len(s)),
         \A i \in 1 .. Len(s) : Kept(s[i], e)
  PROVE  g[Len(s)] = s
<1> DEFINE n == Len(s)
           Good == {i \in Nat : i <= n => g[i] = SubSeq(s, 1, i)}
<1>1. 0 \in Good
  <2>1. g[0] = <<>>  BY DEF Built
  <2>2. SubSeq(s, 1, 0) = <<>>  OBVIOUS
  <2> QED BY <2>1, <2>2
<1>2. ASSUME NEW i \in Nat, i \in Good PROVE i + 1 \in Good
  <2> SUFFICES ASSUME i + 1 <= n PROVE g[i + 1] = SubSeq(s, 1, i + 1)
    OBVIOUS
  <2> DEFINE k == i + 1
  <2>1. k \in 1 .. n /\ i \in 0 .. n /\ i <= n /\ k - 1 = i  OBVIOUS
  <2>2. g[i] = SubSeq(s, 1, i)  BY <1>2, <2>1
  <2>3. g[k] = Grown(g[i], s, e, k)  BY <2>1 DEF Built
  <2>4. Kept(s[k], e)  BY <2>1
  <2>5. ~Crossed(s, e, k)
    <3>1. n \in 1 .. n /\ (k # 1 => k - 1 \in 1 .. n)  BY <2>1
    <3>2. Kept(Before(s, k), e)  BY <3>1 DEF Before
    <3> QED BY <2>4, <3>2 DEF Crossed, Kept
  <2>6. g[k] = Append(g[i], s[k])  BY <2>3, <2>4, <2>5 DEF Grown, More
  <2>7. SubSeq(s, 1, i + 1) = Append(SubSeq(s, 1, i), s[i + 1])  BY <2>1
  <2> QED BY <2>2, <2>6, <2>7
<1> HIDE DEF Good
<1>3. n \in Nat /\ n \in Good  BY <1>1, <1>2, SetInduction
<1>4. g[n] = SubSeq(s, 1, n)  BY <1>3 DEF Good
<1>5. SubSeq(s, 1, n) = s  OBVIOUS
<1> QED BY <1>4, <1>5

(* The polygon of a triangle g after the passes before e: inside the edges  *)
(* it has been cut at, its attribute between the triangle's, and nowhere   *)
(* folded, which is what leaves it convex enough for the next pass.        *)
Within(v, g) ==
  \A n \in Int : /\ (\A k \in 2 .. 4 : n <= g[k].iw) => n <= v.iw
                 /\ (\A k \in 2 .. 4 : g[k].iw <= n) => v.iw <= n

Clipped(g, e) ==
  {v \in RingVertex : Within(v, g) /\ \A x \in Edges : x < e => Kept(v, x)}

TestTriangle(g) ==
  /\ g = <<"clip", g[2], g[3], g[4]>>
  /\ g[2] \in RingVertex /\ g[3] \in RingVertex /\ g[4] \in RingVertex

InsideAsIs(g, s) ==
  (\A k \in 2 .. 4 : \A x \in Edges : Kept(g[k], x)) => s = <<g[2], g[3], g[4]>>

RingOf(g, s, e) ==
  /\ TestTriangle(g) /\ e \in 0 .. 4
  /\ s \in Seq(Clipped(g, e))
  /\ Len(s) <= 3 + e /\ (Len(s) = 0 \/ Len(s) >= 3)
  /\ \A H \in HalfPlanes : ~Folded(s, H)
  /\ InsideAsIs(g, s)

LEMMA CutIsClipped ==
  ASSUME NEW g, TestTriangle(g), NEW e \in Edges, NEW s \in Seq(Clipped(g, e)),
         NEW i \in 1 .. Len(s)
  PROVE  PieceIn(s, e, i, Clipped(g, e + 1))
<1>1. s \in Seq(RingVertex)  BY DEF Clipped
<1>2. e \in 0 .. 3 /\ \A x \in Edges : x \in 0 .. 3 /\ (x < e + 1 <=> x < e \/ x = e)
  BY DEF Edges
<1>3. \A k \in 1 .. Len(s) : s[k] \in Clipped(g, e)  OBVIOUS
<1>4. ASSUME Kept(s[i], e) PROVE s[i] \in Clipped(g, e + 1)
  BY <1>2, <1>3, <1>4 DEF Clipped
<1>5. ASSUME Crossed(s, e, i) PROVE CutAt(s, e, i) \in Clipped(g, e + 1)
  <2> DEFINE p == Before(s, i)
             c == s[i]
             v == CutAt(s, e, i)
  <2>1. p \in Clipped(g, e) /\ c \in Clipped(g, e)
    <3>1. Len(s) \in 1 .. Len(s) /\ (i # 1 => i - 1 \in 1 .. Len(s))  OBVIOUS
    <3> QED BY <1>3, <3>1 DEF Before
  <2> HIDE DEF p, c, v
  <2>2. /\ v \in RingVertex /\ EdgeDist(v, e) = 0 /\ Mid(v.iw, p.iw, c.iw)
        /\ \A H \in HalfPlanes : SameSide(v, p, H) \/ SameSide(v, c, H)
    BY <1>1, <1>5, CutSides DEF p, c, v
  <2>3. p \in RingVertex /\ c \in RingVertex /\ Within(p, g) /\ Within(c, g)
        /\ \A x \in Edges : x < e => Kept(p, x) /\ Kept(c, x)
    BY <2>1 DEF Clipped
  <2>4. Within(v, g)
    <3>1. v.iw \in Int /\ p.iw \in Int /\ c.iw \in Int  BY <2>2, <2>3 DEF RingVertex
    <3>2. ASSUME NEW n \in Int, \A k \in 2 .. 4 : n <= g[k].iw PROVE n <= v.iw
      <4>1. n <= p.iw /\ n <= c.iw  BY <2>3, <3>2 DEF Within
      <4> QED BY <2>2, <3>1, <4>1 DEF Mid
    <3>3. ASSUME NEW n \in Int, \A k \in 2 .. 4 : g[k].iw <= n PROVE v.iw <= n
      <4>1. p.iw <= n /\ c.iw <= n  BY <2>3, <3>3 DEF Within
      <4> QED BY <2>2, <3>1, <4>1 DEF Mid
    <3> QED BY <3>2, <3>3 DEF Within
  <2>5. ASSUME NEW x \in Edges, x < e PROVE Kept(v, x)
    <3>1. p \in KeptHalf(x) /\ c \in KeptHalf(x)  BY <2>3, <2>5, KeptIsHalf
    <3>2. v \in KeptHalf(x)  BY <2>2, <3>1, KeptIsHalf DEF SameSide
    <3> QED BY <2>2, <3>2, KeptIsHalf
  <2>6. Kept(v, e)  BY <2>2 DEF Kept
  <2>7. \A x \in Edges : x < e + 1 => Kept(v, x)  BY <1>2, <2>5, <2>6
  <2> QED BY <2>2, <2>4, <2>7 DEF Clipped, v
<1> QED BY <1>4, <1>5 DEF PieceIn

(* What a pass makes of an unfolded ring of vertices it leaves in S.        *)
LEMMA JoinedRing ==
  ASSUME NEW s \in Seq(RingVertex), Len(s) >= 3, NEW e \in Edges, NEW S,
         \A i \in 1 .. Len(s) : PieceIn(s, e, i, S), \A H \in HalfPlanes : ~Folded(s, H)
  PROVE  /\ Joined(s, e) \in Seq(S)
         /\ Len(Joined(s, e)) <= Len(s) + 1
         /\ Len(Joined(s, e)) = 0 \/ Len(Joined(s, e)) >= 3
         /\ \A H \in HalfPlanes : ~Folded(Joined(s, e), H)
         /\ (\A i \in 1 .. Len(s) : Kept(s[i], e)) => Joined(s, e) = s
<1>1. Len(s) \in Nat \ {0} /\ DOMAIN s = 1 .. Len(s) /\ Len(s) \in 0 .. Len(s)  OBVIOUS
<1>2. PICK b \in [0 .. Len(s) -> Seq(S)] : Built(b, s, e, Len(s)) /\ b[Len(s)] = Joined(s, e)
  <2>1. CanBuild(s, e, Len(s), S)  BY <1>1, Building
  <2> QED BY <2>1 DEF CanBuild
<1>3. Joined(s, e) \in Seq(S)  BY <1>1, <1>2
<1>4. /\ Len(b[Len(s)]) <= Len(s) + 1
      /\ Len(b[Len(s)]) = 0 \/ Len(b[Len(s)]) >= 3
  <2>1. ~Folded(s, KeptHalf(e))  BY KeptIsHalf
  <2> QED BY <1>2, <2>1, JoinedLength
<1>5. ASSUME NEW H \in HalfPlanes PROVE ~Folded(b[Len(s)], H)
  <2>1. Represented(b[Len(s)], s, H, Len(s))  BY <1>1, <1>2, JoinedFollows
  <2>2. ~Folded(s, H)  OBVIOUS
  <2> QED BY <1>1, <2>1, <2>2, StaysUnfolded
<1>6. (\A i \in 1 .. Len(s) : Kept(s[i], e)) => b[Len(s)] = s
  BY <1>2, JoinedWhole
<1> QED BY <1>2, <1>3, <1>4, <1>5, <1>6

LEMMA PassKeeps ==
  ASSUME ClipMaxOut >= 7, NEW g, NEW s, NEW e \in Edges, RingOf(g, s, e), s # <<>>
  PROVE  RingOf(g, ClipAgainstEdge(s, e), e + 1)
<1> DEFINE n == Len(s)
           out == Joined(s, e)
<1>1. s \in Seq(Clipped(g, e)) /\ s \in Seq(RingVertex) /\ e \in 0 .. 3 /\ TestTriangle(g)
  BY DEF RingOf, Clipped, Edges
<1>2. n \in Nat /\ n >= 3 /\ n <= 3 + e
  <2>1. n \in Nat /\ n # 0  BY <1>1
  <2> QED BY <1>1, <2>1 DEF RingOf
<1>3. \A i \in 1 .. n : PieceIn(s, e, i, Clipped(g, e + 1))  BY <1>1, CutIsClipped
<1>4. \A H \in HalfPlanes : ~Folded(s, H)  BY DEF RingOf
<1>5. out \in Seq(Clipped(g, e + 1))  BY <1>1, <1>2, <1>3, <1>4, JoinedRing
<1>6. Len(out) <= n + 1 /\ (Len(out) = 0 \/ Len(out) >= 3)
  BY <1>1, <1>2, <1>3, <1>4, JoinedRing
<1>7. \A H \in HalfPlanes : ~Folded(out, H)  BY <1>1, <1>2, <1>3, <1>4, JoinedRing
<1>8. (\A i \in 1 .. n : Kept(s[i], e)) => out = s
  BY <1>1, <1>2, <1>3, <1>4, JoinedRing
<1> HIDE DEF out
<1>9. InsideAsIs(g, out)
  <2>1. ASSUME \A k \in 2 .. 4 : \A x \in Edges : Kept(g[k], x)
        PROVE  out = s
    <3>1. s = <<g[2], g[3], g[4]>>  BY <2>1 DEF RingOf, InsideAsIs
    <3>2. \A i \in 1 .. n : Kept(s[i], e)
      <4>1. n = 3 /\ s[1] = g[2] /\ s[2] = g[3] /\ s[3] = g[4]  BY <3>1
      <4>2. \A i \in 1 .. 3 : i = 1 \/ i = 2 \/ i = 3  OBVIOUS
      <4> QED BY <2>1, <4>1, <4>2
    <3> QED BY <1>8, <3>2
  <2> QED BY <2>1 DEF RingOf, InsideAsIs
<1>10. ClipAgainstEdge(s, e) = out
  <2>1. Len(out) \in Nat /\ Len(out) <= 7  BY <1>1, <1>2, <1>5, <1>6
  <2>2. ClipMaxOut \in Nat  BY GuardAssumption
  <2>3. (IF Len(out) < ClipMaxOut THEN Len(out) ELSE ClipMaxOut) = Len(out)  BY <2>1, <2>2
  <2>4. SubSeq(out, 1, Len(out)) = out  BY <1>5
  <2> QED BY <2>3, <2>4, PassIs DEF out
<1>11. e + 1 \in 0 .. 4 /\ Len(out) <= 3 + (e + 1)
  <2>1. Len(out) \in Nat  BY <1>5
  <2> QED BY <1>1, <1>2, <1>6, <2>1
<1> QED BY <1>1, <1>5, <1>6, <1>7, <1>9, <1>10, <1>11 DEF RingOf

LEMMA FirstRing ==
  ASSUME NEW a \in Corner, NEW b \in Corner, NEW c \in Corner
  PROVE  RingOf(<<"clip", a, b, c>>, <<a, b, c>>, 0)
<1> DEFINE g == <<"clip", a, b, c>>
           s == <<a, b, c>>
<1>1. a \in RingVertex /\ b \in RingVertex /\ c \in RingVertex
  BY KernelAssumption DEF RingVertex
<1>2. g[2] = a /\ g[3] = b /\ g[4] = c /\ Len(s) = 3 /\ s[1] = a /\ s[2] = b /\ s[3] = c
  OBVIOUS
<1>3. TestTriangle(g)  BY <1>1, <1>2 DEF TestTriangle
<1> HIDE DEF g
<1>4. \A v \in {a, b, c} : Within(v, g)
  <2>1. 2 \in 2 .. 4 /\ 3 \in 2 .. 4 /\ 4 \in 2 .. 4  OBVIOUS
  <2> QED BY <1>2, <2>1 DEF Within
<1>5. \A x \in Edges : ~(x < 0)  BY DEF Edges
<1>6. {a, b, c} \subseteq Clipped(g, 0)  BY <1>1, <1>4, <1>5 DEF Clipped
<1>7. s \in Seq(Clipped(g, 0))  BY <1>6
<1>8. ASSUME NEW H \in HalfPlanes, Folded(s, H) PROVE FALSE
  <2>1. \A i, j, k, l \in 1 .. 3 : ~(i < j /\ j < k /\ k < l)  OBVIOUS
  <2> QED BY <1>2, <1>8, <2>1 DEF Folded, Turns
<1>9. InsideAsIs(g, s)  BY <1>2 DEF InsideAsIs
<1> HIDE DEF s
<1>10. RingOf(g, s, 0)  BY <1>2, <1>3, <1>7, <1>8, <1>9 DEF RingOf
<1> QED BY <1>10 DEF g, s

ClipInv ==
  /\ ~Task("clip") => edge = 0
  /\ Task("clip") => RingOf(given, ring, edge)

LEMMA StartedOther ==
  ASSUME ClipInv, NEW test, Idle, Start(test), test # <<>>, test[1] # "clip"
  PROVE  ClipInv'
BY DEF ClipInv, Idle, Task, Start

LEMMA ClipKeeps ==
  ASSUME ClipMaxOut >= 7
  PROVE  KernelInv /\ ClipInv /\ [KernelNext]_kernelVars => ClipInv'
<1> SUFFICES ASSUME KernelInv, ClipInv, [KernelNext]_kernelVars PROVE ClipInv'
  OBVIOUS
<1>1. CASE StartProject  BY <1>1, StartedOther DEF StartProject
<1>2. CASE StartClip
  <2>1. PICK a \in Corner, b \in Corner, c \in Corner :
          Start(<<"clip", a, b, c>>) /\ ring' = <<a, b, c>>
    BY <1>2 DEF StartClip
  <2>2. edge' = 0 /\ given' = <<"clip", a, b, c>>
    BY <1>2, <2>1 DEF StartClip, Start, ClipInv, Idle, Task
  <2>3. RingOf(given', ring', edge')  BY <2>1, <2>2, FirstRing
  <2>4. given' # <<>> /\ given'[1] = "clip"  BY <2>2
  <2> QED BY <2>3, <2>4 DEF ClipInv, Task
<1>3. CASE ClipPass
  <2>1. /\ Task("clip") /\ edge < 4 /\ ring # <<>> /\ given' = given
        /\ ring' = ClipAgainstEdge(ring, edge) /\ edge' = edge + 1
    BY <1>3 DEF ClipPass
  <2>2. RingOf(given, ring, edge)  BY <2>1 DEF ClipInv
  <2>3. edge \in Edges  BY <2>1, <2>2 DEF RingOf, Edges
  <2>4. RingOf(given, ring', edge')  BY <2>1, <2>2, <2>3, PassKeeps
  <2> QED BY <2>1, <2>4 DEF ClipInv, Task
<1>4. CASE StartSample  BY <1>4, StartedOther DEF StartSample
<1>5. CASE StartFilter  BY <1>5, StartedOther DEF StartFilter
<1>6. CASE StartBlend  BY <1>6, StartedOther DEF StartBlend
<1>7. CASE Fragment
  <2>1. BlendState'  BY <1>7, FragmentKeeps
  <2>2. given' = <<"blend", given'[2], given'[3], given'[4]>>  BY <2>1 DEF BlendState
  <2>3. \A a, b, c : <<"blend", a, b, c>>[1] = "blend" /\ <<"blend", a, b, c>> # << >>
    OBVIOUS
  <2>4. given' # << >> /\ given'[1] = "blend"  BY <2>2, <2>3
  <2>5. edge' = 0  BY <1>7 DEF Fragment, ClipInv, Task
  <2> QED BY <2>4, <2>5 DEF ClipInv, Task
<1>8. CASE StartSprite  BY <1>8, StartedOther DEF StartSprite
<1>9. CASE StartSky  BY <1>9, StartedOther DEF StartSky
<1>10. CASE Finish  BY <1>10 DEF Finish, ClipInv, Task
<1>11. CASE UNCHANGED kernelVars  BY <1>11 DEF kernelVars, ClipInv, Task
<1> QED
  BY <1>1, <1>2, <1>3, <1>4, <1>5, <1>6, <1>7, <1>8, <1>9, <1>10, <1>11 DEF KernelNext

LEMMA ThreeBounds ==
  ASSUME NEW a \in Int, NEW b \in Int, NEW c \in Int, NEW X, X = {a, b, c}
  PROVE  /\ Least(X) \in Int /\ Least(X) <= a /\ Least(X) <= b /\ Least(X) <= c
         /\ Greatest(X) \in Int /\ Greatest(X) >= a /\ Greatest(X) >= b /\ Greatest(X) >= c
<1>1. \E n \in X : \A k \in X : n <= k
  <2>1. CASE a <= b /\ a <= c  BY <2>1
  <2>2. CASE b <= a /\ b <= c  BY <2>2
  <2>3. CASE c <= a /\ c <= b  BY <2>3
  <2> QED BY <2>1, <2>2, <2>3
<1>2. \E n \in X : \A k \in X : n >= k
  <2>1. CASE a >= b /\ a >= c  BY <2>1
  <2>2. CASE b >= a /\ b >= c  BY <2>2
  <2>3. CASE c >= a /\ c >= b  BY <2>3
  <2> QED BY <2>1, <2>2, <2>3
<1>3. Least(X) \in X /\ \A k \in X : Least(X) <= k  BY <1>1 DEF Least
<1>4. Greatest(X) \in X /\ \A k \in X : Greatest(X) >= k  BY <1>2 DEF Greatest
<1> QED BY <1>3, <1>4

LEMMA RingIsClipped == ClipInv => ClippedRing
<1> SUFFICES ASSUME ClipInv, Task("clip") PROVE ClippedRing
  BY DEF ClippedRing
<1>1. RingOf(given, ring, edge)  BY DEF ClipInv
<1>2. /\ TestTriangle(given) /\ ring \in Seq(Clipped(given, edge))
      /\ Len(ring) <= 3 + edge /\ (Len(ring) = 0 \/ Len(ring) >= 3)
      /\ InsideAsIs(given, ring)
  BY <1>1 DEF RingOf
<1>3. \A i \in DOMAIN ring : ring[i] \in Clipped(given, edge)  BY <1>2
<1>4. \A i \in DOMAIN ring : \A e \in Edges : e < edge => Kept(ring[i], e)
  BY <1>3 DEF Clipped
<1>5. ring = <<>> \/ Len(ring) >= 3
  <2>1. Len(ring) = 0 => ring = <<>>  BY <1>2
  <2> QED BY <1>2, <2>1
<1> DEFINE X == {given[k].iw : k \in 2 .. 4}
<1>6. /\ given[2].iw \in Int /\ given[3].iw \in Int /\ given[4].iw \in Int
  BY <1>2 DEF TestTriangle, RingVertex
<1>7. X = {given[2].iw, given[3].iw, given[4].iw}
  <2>1. 2 .. 4 = {2, 3, 4}  OBVIOUS
  <2> QED BY <2>1
<1> HIDE DEF X
<1>8. /\ Least(X) \in Int /\ Greatest(X) \in Int
      /\ \A k \in 2 .. 4 : Least(X) <= given[k].iw /\ given[k].iw <= Greatest(X)
  <2>1. /\ Least(X) \in Int /\ Least(X) <= given[2].iw
        /\ Least(X) <= given[3].iw /\ Least(X) <= given[4].iw
        /\ Greatest(X) \in Int /\ Greatest(X) >= given[2].iw
        /\ Greatest(X) >= given[3].iw /\ Greatest(X) >= given[4].iw
    BY <1>6, <1>7, ThreeBounds
  <2>2. \A k \in 2 .. 4 : k = 2 \/ k = 3 \/ k = 4  OBVIOUS
  <2> QED BY <1>6, <2>1, <2>2
<1>9. ASSUME NEW i \in DOMAIN ring
      PROVE  ring[i].iw >= Least(X) /\ ring[i].iw <= Greatest(X)
  <2>1. Within(ring[i], given) /\ ring[i].iw \in Int  BY <1>3 DEF Clipped, RingVertex
  <2>2. Least(X) <= ring[i].iw  BY <1>8, <2>1 DEF Within
  <2>3. ring[i].iw <= Greatest(X)  BY <1>8, <2>1 DEF Within
  <2> QED BY <1>8, <2>1, <2>2, <2>3
<1>10. (\A k \in 2 .. 4 : \A e \in Edges : Kept(given[k], e)) => ring = Tail(given)
  <2>1. Tail(given) = <<given[2], given[3], given[4]>>
    <3>1. \A a, b, c, d : Tail(<<a, b, c, d>>) = <<b, c, d>>  OBVIOUS
    <3>2. given = <<"clip", given[2], given[3], given[4]>>  BY <1>2 DEF TestTriangle
    <3>3. Tail(<<"clip", given[2], given[3], given[4]>>) = <<given[2], given[3], given[4]>>
      BY <3>1, Zenon
    <3> QED BY <3>2, <3>3, Zenon
  <2> QED BY <1>2, <2>1 DEF InsideAsIs
<1> QED BY <1>2, <1>4, <1>5, <1>9, <1>10 DEF ClippedRing, X

LEMMA TestsKeepRing ==
  ASSUME ClipMaxOut >= 7
  PROVE  KernelInv /\ ClipInv /\ [Next]_vars => ClipInv'
<1>1. [Next]_vars => [KernelNext]_kernelVars
  BY DEF Next, vars, Demo, Template, PicoProf, HostTests
<1> QED BY <1>1, ClipKeeps

(* clip.h:29: with room for a triangle and a vertex for each edge, which    *)
(* CLIP_MAX_OUT is, no pass drops a vertex.                                *)
THEOREM ClipInductive ==
  ASSUME ClipMaxOut >= 7 PROVE Spec => []ClipInv
<1>1. Init => ClipInv  BY DEF Init, KernelInit, ClipInv, Task
<1>2. KernelInv /\ ClipInv /\ [Next]_vars => ClipInv'  BY TestsKeepRing
<1> QED BY <1>1, <1>2, KernelInductive, PTL DEF Spec

(* clip.cc, clip.h:29-39: any triangle, cut at the four edges of any guard *)
(* band, however the cuts are rounded, stays in the buffers, inside the    *)
(* band and between the attributes of its corners; one that is inside is   *)
(* left as it is.                                                          *)
THEOREM ClipStaysRing ==
  ASSUME ClipMaxOut >= 7 PROVE Spec => []ClippedRing
BY ClipInductive, RingIsClipped, PTL
-----------------------------------------------------------------------------
(* Powers and masks.  What is defined by recursion exists: a map of a set   *)
(* to itself can be applied over and over.                                  *)
Iterates(X, x, T, n, g) ==
  g \in [0 .. n -> X] /\ g[0] = x /\ \A i \in 0 .. n - 1 : g[i + 1] = T[g[i]]

LEMMA IterateOn ==
  ASSUME NEW X, NEW x \in X, NEW T \in [X -> X], NEW n \in Nat, NEW g, Iterates(X, x, T, n, g)
  PROVE  \E h : Iterates(X, x, T, n + 1, h)
<1> DEFINE h == [i \in 0 .. n + 1 |-> IF i <= n THEN g[i] ELSE T[g[n]]]
<1>1. /\ g \in [0 .. n -> X] /\ g[0] = x /\ g[n] \in X
      /\ \A i \in 0 .. n - 1 : g[i + 1] = T[g[i]]
  BY DEF Iterates
<1>2. \A i \in 0 .. n : i \in 0 .. n + 1 /\ h[i] = g[i] /\ g[i] \in X
  BY <1>1
<1>3. n + 1 \in 0 .. n + 1 /\ h[n + 1] = T[g[n]]
  OBVIOUS
<1>4. h \in [0 .. n + 1 -> X]
  BY <1>1
<1> HIDE DEF h
<1>5. ASSUME NEW i \in 0 .. n + 1 - 1 PROVE h[i + 1] = T[h[i]]
  <2>1. CASE i = n  BY <1>2, <1>3, <2>1
  <2>2. CASE i # n
    <3>1. i \in 0 .. n /\ i + 1 \in 0 .. n /\ i \in 0 .. n - 1  BY <2>2
    <3> QED BY <1>1, <1>2, <3>1
  <2> QED BY <2>1, <2>2
<1>6. h[0] = x  BY <1>1, <1>2
<1> QED BY <1>4, <1>5, <1>6 DEF Iterates

LEMMA IteratesAgree ==
  ASSUME NEW X, NEW x \in X, NEW T \in [X -> X], NEW n \in Nat, NEW g, NEW h,
         Iterates(X, x, T, n, g), Iterates(X, x, T, n + 1, h)
  PROVE  g[n] = h[n]
<1> DEFINE Same == {i \in Nat : i <= n => g[i] = h[i]}
<1>1. 0 \in Same  BY DEF Iterates
<1>2. ASSUME NEW i \in Nat, i \in Same PROVE i + 1 \in Same
  <2>1. i + 1 <= n => i \in 0 .. n - 1 /\ i \in 0 .. n + 1 - 1 /\ i <= n  OBVIOUS
  <2> QED BY <1>2, <2>1 DEF Iterates
<1>3. n \in Same
  <2> HIDE DEF Same
  <2> QED BY <1>1, <1>2, SetInduction
<1> QED BY <1>3

Iterable(X, x, T) == \E f \in [Nat -> X] : f[0] = x /\ \A n \in Nat : f[n + 1] = T[f[n]]

LEMMA Iteration ==
  ASSUME NEW X, NEW x \in X, NEW T \in [X -> X]
  PROVE  Iterable(X, x, T)
<1> DEFINE Good == {n \in Nat : \E g : Iterates(X, x, T, n, g)}
           to(n) == CHOOSE g : Iterates(X, x, T, n, g)
           f == [n \in Nat |-> to(n)[n]]
<1>1. 0 \in Good
  <2> DEFINE g == [i \in 0 .. 0 |-> x]
  <2>1. g \in [0 .. 0 -> X] /\ g[0] = x  OBVIOUS
  <2>2. \A i \in 0 .. 0 - 1 : FALSE  OBVIOUS
  <2> HIDE DEF g
  <2>3. Iterates(X, x, T, 0, g)  BY <2>1, <2>2 DEF Iterates
  <2> QED BY <2>3
<1>2. \A n \in Nat : n \in Good => n + 1 \in Good
  BY IterateOn
<1>3. \A n \in Nat : n \in Good
  <2> HIDE DEF Good
  <2> QED BY <1>1, <1>2, SetInduction
<1>4. \A n \in Nat : Iterates(X, x, T, n, to(n))
  BY <1>3
<1> HIDE DEF to, Good
<1>5. \A n \in Nat : to(n)[n] = to(n + 1)[n]
  BY <1>4, IteratesAgree
<1>6. \A n \in Nat : to(n)[n] \in X
  BY <1>4 DEF Iterates
<1>7. \A n \in Nat : to(n + 1)[n + 1] = T[to(n + 1)[n]]
  <2> TAKE n \in Nat
  <2>1. n \in 0 .. n + 1 - 1 /\ n + 1 \in Nat  OBVIOUS
  <2> QED BY <1>4, <2>1 DEF Iterates
<1>8. to(0)[0] = x  BY <1>4 DEF Iterates
<1>9. f \in [Nat -> X]  BY <1>6
<1>10. f[0] = x  BY <1>8
<1>11. \A n \in Nat : f[n + 1] = T[f[n]]
  BY <1>5, <1>7
<1> HIDE DEF f
<1> QED BY <1>9, <1>10, <1>11 DEF Iterable

Positive == Nat \ {0}

LEMMA PositivesOn ==
  ASSUME NEW x \in Positive, NEW T \in [Positive -> Positive]
  PROVE  \E f \in [Nat -> Positive] : f[0] = x /\ \A n \in Nat : f[n + 1] = T[f[n]]
<1>1. Iterable(Positive, x, T)  BY Iteration
<1> QED BY <1>1 DEF Iterable

LEMMA PowersExist ==
  \E f : f = [n \in Nat |-> IF n = 0 THEN 1 ELSE 2 * f[n - 1]]
<1> DEFINE twice == [k \in Positive |-> 2 * k]
<1>1. twice \in [Positive -> Positive] /\ 1 \in Positive  BY DEF Positive
<1>2. PICK f \in [Nat -> Positive] : f[0] = 1 /\ \A n \in Nat : f[n + 1] = twice[f[n]]
  <2> HIDE DEF twice
  <2> QED BY <1>1, PositivesOn
<1>3. ASSUME NEW n \in Nat PROVE f[n] = IF n = 0 THEN 1 ELSE 2 * f[n - 1]
  <2>1. CASE n = 0  BY <1>2, <2>1
  <2>2. CASE n # 0
    <3>1. n - 1 \in Nat /\ (n - 1) + 1 = n  BY <2>2
    <3>2. f[n] = twice[f[n - 1]] /\ f[n - 1] \in Positive  BY <1>2, <3>1
    <3> QED BY <2>2, <3>2
  <2> QED BY <2>1, <2>2
<1>4. f = [n \in Nat |-> IF n = 0 THEN 1 ELSE 2 * f[n - 1]]
  <2> HIDE DEF twice
  <2> QED BY <1>2, <1>3
<1> QED BY <1>4

LEMMA Pow2Zero == Pow2[0] = 1
<1>1. Pow2 = [n \in Nat |-> IF n = 0 THEN 1 ELSE 2 * Pow2[n - 1]]
  BY PowersExist, Zenon DEF Pow2
<1> QED BY <1>1

LEMMA Pow2Next ==
  ASSUME NEW n \in Nat
  PROVE  Pow2[n + 1] = 2 * Pow2[n]
<1>1. Pow2 = [k \in Nat |-> IF k = 0 THEN 1 ELSE 2 * Pow2[k - 1]]
  BY PowersExist, Zenon DEF Pow2
<1>2. n + 1 \in Nat /\ n + 1 # 0 /\ (n + 1) - 1 = n  OBVIOUS
<1>3. Pow2[n + 1] = IF n + 1 = 0 THEN 1 ELSE 2 * Pow2[(n + 1) - 1]  BY <1>1, <1>2
<1> QED BY <1>2, <1>3

LEMMA Pow2Type ==
  ASSUME NEW n \in Nat
  PROVE  Pow2[n] \in Nat \ {0}
<1> DEFINE Typed == {k \in Nat : Pow2[k] \in Nat \ {0}}
<1>1. 0 \in Typed  BY Pow2Zero
<1>2. ASSUME NEW k \in Nat, k \in Typed PROVE k + 1 \in Typed  BY <1>2, Pow2Next
<1>3. Nat \subseteq Typed
  <2> HIDE DEF Typed
  <2> QED BY <1>1, <1>2, SetInduction
<1> QED BY <1>3

LEMMA Pow2Less ==
  ASSUME NEW a \in Nat, NEW b \in Nat, a < b
  PROVE  2 * Pow2[a] <= Pow2[b]
<1> DEFINE Above == {k \in Nat : 2 * Pow2[a] <= Pow2[a + 1 + k]}
<1>1. 0 \in Above
  <2>1. a + 1 + 0 = a + 1 /\ Pow2[a] \in Nat  BY Pow2Type
  <2> QED BY <2>1, Pow2Next
<1>2. ASSUME NEW k \in Nat, k \in Above PROVE k + 1 \in Above
  <2>1. a + 1 + (k + 1) = (a + 1 + k) + 1 /\ a + 1 + k \in Nat  OBVIOUS
  <2>2. Pow2[a + 1 + (k + 1)] = 2 * Pow2[a + 1 + k]  BY <2>1, Pow2Next
  <2>3. Pow2[a + 1 + k] \in Nat /\ Pow2[a] \in Nat  BY <2>1, Pow2Type
  <2> QED BY <1>2, <2>2, <2>3
<1>3. Nat \subseteq Above
  <2> HIDE DEF Above
  <2> QED BY <1>1, <1>2, SetInduction
<1>4. b - (a + 1) \in Nat /\ a + 1 + (b - (a + 1)) = b  OBVIOUS
<1>5. b - (a + 1) \in Above  BY <1>3, <1>4
<1> QED BY <1>4, <1>5

LEMMA Pow2Sum ==
  ASSUME NEW a \in Nat, NEW b \in Nat
  PROVE  Pow2[a + b] = Pow2[a] * Pow2[b]
<1> DEFINE Adds == {k \in Nat : Pow2[a + k] = Pow2[a] * Pow2[k]}
<1>1. 0 \in Adds  BY Pow2Zero, Pow2Type
<1>2. ASSUME NEW k \in Nat, k \in Adds PROVE k + 1 \in Adds
  <2>1. a + (k + 1) = (a + k) + 1 /\ a + k \in Nat  OBVIOUS
  <2>2. Pow2[a + (k + 1)] = 2 * Pow2[a + k] /\ Pow2[k + 1] = 2 * Pow2[k]
    BY <2>1, Pow2Next
  <2>3. Pow2[a] \in Nat /\ Pow2[k] \in Nat  BY Pow2Type
  <2>4. \A i, j \in Nat : 2 * (i * j) = i * (2 * j)  OBVIOUS
  <2>5. Pow2[a + (k + 1)] = Pow2[a] * Pow2[k + 1]  BY <1>2, <2>2, <2>3, <2>4
  <2> QED BY <2>5
<1>3. Nat \subseteq Adds
  <2> HIDE DEF Adds
  <2> QED BY <1>1, <1>2, SetInduction
<1> QED BY <1>3

(* A number is its quotient times the divisor and its remainder.           *)
LEMMA Halves ==
  ASSUME NEW n \in Int
  PROVE  n = 2 * (n \div 2) + (n % 2) /\ n \div 2 \in Int /\ n % 2 \in {0, 1}
OBVIOUS

Masks2 == [Int -> [Int -> Nat]]
OneBit(n, m) == (n % 2) * (m % 2)
NextBit(g) == [n \in Int |-> [m \in Int |-> OneBit(n, m) + 2 * g[n \div 2][m \div 2]]]
NoBit == [n \in Int |-> [m \in Int |-> 0]]

LEMMA OneBitType ==
  ASSUME NEW n \in Int, NEW m \in Int
  PROVE  OneBit(n, m) \in {0, 1} /\ (m % 2 = 1 => OneBit(n, m) = n % 2)
         /\ (m % 2 = 0 => OneBit(n, m) = 0)
<1>1. n % 2 \in {0, 1} /\ m % 2 \in {0, 1}  BY Halves
<1>2. \A i, j \in {0, 1} : i * j \in {0, 1} /\ (j = 1 => i * j = i) /\ (j = 0 => i * j = 0)
  OBVIOUS
<1> QED BY <1>1, <1>2 DEF OneBit

LEMMA NextBitType ==
  ASSUME NEW g \in Masks2
  PROVE  NextBit(g) \in Masks2
<1>1. ASSUME NEW n \in Int, NEW m \in Int
      PROVE  OneBit(n, m) + 2 * g[n \div 2][m \div 2] \in Nat
  <2>1. n \div 2 \in Int /\ m \div 2 \in Int  OBVIOUS
  <2>2. g[n \div 2][m \div 2] \in Nat  BY <2>1 DEF Masks2
  <2>3. OneBit(n, m) \in Nat  BY OneBitType
  <2> QED BY <2>2, <2>3
<1> QED BY <1>1 DEF NextBit, Masks2

LEMMA MasksOn ==
  ASSUME NEW x \in Masks2, NEW T \in [Masks2 -> Masks2]
  PROVE  \E f \in [Nat -> Masks2] : f[0] = x /\ \A n \in Nat : f[n + 1] = T[f[n]]
<1>1. Iterable(Masks2, x, T)  BY Iteration
<1> QED BY <1>1 DEF Iterable

LEMMA MasksExist ==
  \E f : f = [b \in Nat |-> [n \in Int |-> [m \in Int |->
               IF b = 0 THEN 0 ELSE (n % 2) * (m % 2) + 2 * f[b - 1][n \div 2][m \div 2]]]]
<1> DEFINE more == [g \in Masks2 |-> NextBit(g)]
<1>1. more \in [Masks2 -> Masks2]  BY NextBitType
<1>2. NoBit \in Masks2  BY DEF NoBit, Masks2
<1>3. PICK f \in [Nat -> Masks2] : f[0] = NoBit /\ \A b \in Nat : f[b + 1] = more[f[b]]
  <2> HIDE DEF more
  <2> QED BY <1>1, <1>2, MasksOn
<1> DEFINE Bits(b) == [n \in Int |-> [m \in Int |->
               IF b = 0 THEN 0 ELSE (n % 2) * (m % 2) + 2 * f[b - 1][n \div 2][m \div 2]]]
<1>4. ASSUME NEW b \in Nat PROVE f[b] = Bits(b)
  <2>1. CASE b = 0  BY <1>3, <2>1 DEF NoBit
  <2>2. CASE b # 0
    <3>1. b - 1 \in Nat /\ (b - 1) + 1 = b  BY <2>2
    <3>2. f[b] = more[f[b - 1]] /\ f[b - 1] \in Masks2  BY <1>3, <3>1
    <3>3. f[b] = NextBit(f[b - 1])  BY <3>2
    <3> QED BY <2>2, <3>3 DEF NextBit, OneBit
  <2> QED BY <2>1, <2>2
<1>5. f = [b \in Nat |-> Bits(b)]
  <2> HIDE DEF more, Bits
  <2> QED BY <1>3, <1>4
<1> QED BY <1>5

LEMMA LowAndIs ==
  LowAnd = [b \in Nat |-> [n \in Int |-> [m \in Int |->
             IF b = 0 THEN 0 ELSE (n % 2) * (m % 2) + 2 * LowAnd[b - 1][n \div 2][m \div 2]]]]
BY MasksExist, Zenon DEF LowAnd

LEMMA NoBits ==
  ASSUME NEW n \in Int, NEW m \in Int
  PROVE  LowAnd[0][n][m] = 0
BY LowAndIs

LEMMA LowBitsIs ==
  ASSUME NEW b \in Nat
  PROVE  LowAnd[b + 1] = NextBit(LowAnd[b])
<1> DEFINE c == b + 1
<1>1. c \in Nat /\ c # 0 /\ c - 1 = b  OBVIOUS
<1> HIDE DEF c
<1>2. LowAnd[c] = [i \in Int |-> [j \in Int |->
        IF c = 0 THEN 0 ELSE (i % 2) * (j % 2) + 2 * LowAnd[c - 1][i \div 2][j \div 2]]]
  BY <1>1, LowAndIs, Zenon
<1>3. LowAnd[c] = [i \in Int |-> [j \in Int |-> OneBit(i, j) + 2 * LowAnd[b][i \div 2][j \div 2]]]
  BY <1>1, <1>2 DEF OneBit
<1> QED BY <1>3 DEF c, NextBit

LEMMA LowBits ==
  ASSUME NEW b \in Nat, NEW n \in Int, NEW m \in Int
  PROVE  LowAnd[b + 1][n][m] = OneBit(n, m) + 2 * LowAnd[b][n \div 2][m \div 2]
<1>1. NextBit(LowAnd[b])[n] = [j \in Int |-> OneBit(n, j) + 2 * LowAnd[b][n \div 2][j \div 2]]
  BY DEF NextBit
<1> QED BY <1>1, LowBitsIs

LEMMA LowAndType ==
  ASSUME NEW b \in Nat
  PROVE  LowAnd[b] \in Masks2
<1> DEFINE Typed == {c \in Nat : LowAnd[c] \in Masks2}
<1>1. 0 \in Typed
  <2>1. LowAnd[0] = NoBit  BY LowAndIs DEF NoBit
  <2> QED BY <2>1 DEF NoBit, Masks2
<1>2. ASSUME NEW c \in Nat, c \in Typed PROVE c + 1 \in Typed
  <2>1. LowAnd[c + 1] = NextBit(LowAnd[c])  BY LowBitsIs
  <2> QED BY <1>2, <2>1, NextBitType
<1>3. Nat \subseteq Typed
  <2> HIDE DEF Typed
  <2> QED BY <1>1, <1>2, SetInduction
<1> QED BY <1>3

(* A mask of the k low bits takes the remainder. *)
MasksLow(b) ==
  \A n \in Int : \A k \in 0 .. b : LowAnd[b][n][Pow2[k] - 1] = n % Pow2[k]

LEMMA RemainderByHalves ==
  ASSUME NEW n \in Int, NEW p \in Nat \ {0}
  PROVE  n % (2 * p) = (n % 2) + 2 * ((n \div 2) % p)
<1> DEFINE h == n \div 2
           r == h % p
           q == h \div p
           s == (n % 2) + 2 * r
<1>1. n = 2 * h + (n % 2) /\ h \in Int /\ n % 2 \in {0, 1}  BY Halves
<1>2. r \in Int /\ 0 <= r /\ r < p /\ h = p * q + r /\ q \in Int  BY <1>1
<1> HIDE DEF h, r, q
<1>3. s \in Int /\ 0 <= s /\ s < 2 * p  BY <1>1, <1>2
<1>4. 2 * h = 2 * (p * q) + 2 * r  BY <1>2
<1>5. 2 * (p * q) = q * (2 * p)  BY <1>2
<1>6. n = q * (2 * p) + s  BY <1>1, <1>2, <1>4, <1>5
<1> DEFINE d == 2 * p
<1>7. d \in Nat \ {0} /\ n = q * d + s /\ s < d  BY <1>3, <1>6
<1> HIDE DEF s, d
<1>8. n % d = s  BY <1>2, <1>3, <1>7, RemainderUnique
<1> QED BY <1>8 DEF s, d, r, h

LEMMA MasksLowAll ==
  ASSUME NEW b \in Nat
  PROVE  MasksLow(b)
<1> DEFINE Good == {c \in Nat : MasksLow(c)}
<1>1. 0 \in Good
  <2>1. ASSUME NEW n \in Int, NEW k \in 0 .. 0 PROVE LowAnd[0][n][Pow2[k] - 1] = n % Pow2[k]
    <3>1. k = 0 /\ Pow2[k] = 1  BY Pow2Zero
    <3>2. n % 1 = 0  OBVIOUS
    <3> QED BY <3>1, <3>2, NoBits
  <2> QED BY <2>1 DEF MasksLow
<1>2. ASSUME NEW c \in Nat, c \in Good PROVE c + 1 \in Good
  <2>1. ASSUME NEW n \in Int, NEW k \in 0 .. c + 1
        PROVE  LowAnd[c + 1][n][Pow2[k] - 1] = n % Pow2[k]
    <3> DEFINE h == n \div 2
    <3>1. h \in Int  OBVIOUS
    <3> HIDE DEF h
    <3>2. CASE k = 0
      <4> DEFINE m == Pow2[0] - 1
      <4>1. m \in Int /\ m % 2 = 0 /\ m \div 2 = m /\ Pow2[0] = 1  BY Pow2Zero
      <4>2. LowAnd[c][h][m] = h % 1
        <5>1. 0 \in 0 .. c  OBVIOUS
        <5> QED BY <1>2, <3>1, <4>1, <5>1 DEF MasksLow
      <4> HIDE DEF m
      <4>3. LowAnd[c + 1][n][m] = OneBit(n, m) + 2 * LowAnd[c][h][m]
        <5>1. LowAnd[c + 1][n][m] = OneBit(n, m) + 2 * LowAnd[c][n \div 2][m \div 2]
          BY <4>1, LowBits
        <5> QED BY <4>1, <5>1 DEF h
      <4>4. OneBit(n, m) = 0  BY <4>1, OneBitType
      <4>5. n % 1 = 0 /\ h % 1 = 0  BY <3>1
      <4>6. LowAnd[c + 1][n][m] = n % 1  BY <4>2, <4>3, <4>4, <4>5
      <4> QED BY <3>2, <4>1, <4>6 DEF m
    <3>3. CASE k # 0
      <4> DEFINE j == k - 1
                 p == Pow2[j]
      <4>1. j \in 0 .. c /\ j \in Nat /\ k = j + 1  BY <3>3
      <4>2. p \in Nat \ {0} /\ Pow2[k] = 2 * p  BY <4>1, Pow2Type, Pow2Next
      <4>3. LowAnd[c][h][p - 1] = h % p  BY <1>2, <3>1, <4>1 DEF MasksLow
      <4> HIDE DEF j, p
      <4>4. 2 * p - 1 \in Int /\ (2 * p - 1) \div 2 = p - 1 /\ (2 * p - 1) % 2 = 1  BY <4>2
      <4>5. LowAnd[c + 1][n][2 * p - 1] = OneBit(n, 2 * p - 1) + 2 * LowAnd[c][h][p - 1]
        <5> DEFINE m == 2 * p - 1
        <5>1. m \in Int /\ m \div 2 = p - 1  BY <4>4
        <5> HIDE DEF m
        <5>2. LowAnd[c + 1][n][m] = OneBit(n, m) + 2 * LowAnd[c][n \div 2][m \div 2]
          BY <5>1, LowBits
        <5>3. LowAnd[c + 1][n][m] = OneBit(n, m) + 2 * LowAnd[c][h][p - 1]
          BY <5>1, <5>2 DEF h
        <5> QED BY <5>3 DEF m
      <4>6. OneBit(n, 2 * p - 1) = n % 2  BY <4>4, OneBitType
      <4>7. n % (2 * p) = (n % 2) + 2 * (h % p)  BY <4>2, RemainderByHalves DEF h
      <4> QED BY <4>2, <4>3, <4>5, <4>6, <4>7
    <3> QED BY <3>2, <3>3
  <2> QED BY <2>1 DEF MasksLow
<1>3. Nat \subseteq Good
  <2> HIDE DEF Good
  <2> QED BY <1>1, <1>2, SetInduction
<1> QED BY <1>3

(* A number has a bit, so that its & with itself is not 0.                  *)
SelfLow(b) == \A n \in Nat : n < Pow2[b] /\ LowAnd[b][n][n] = 0 => n = 0

LEMMA SelfLowAll ==
  ASSUME NEW b \in Nat
  PROVE  SelfLow(b)
<1> DEFINE Good == {c \in Nat : SelfLow(c)}
<1>1. 0 \in Good
  <2>1. \A n \in Nat : n < 1 => n = 0  OBVIOUS
  <2> QED BY <2>1, Pow2Zero DEF SelfLow
<1>2. ASSUME NEW c \in Nat, c \in Good PROVE c + 1 \in Good
  <2>1. ASSUME NEW n \in Nat, n < Pow2[c + 1], LowAnd[c + 1][n][n] = 0
        PROVE  n = 0
    <3> DEFINE h == n \div 2
               p == Pow2[c]
    <3>1. h \in Nat /\ n = 2 * h + (n % 2) /\ n % 2 \in {0, 1} /\ n \in Int  OBVIOUS
    <3>2. p \in Nat /\ n < 2 * p  BY <2>1, Pow2Type, Pow2Next
    <3>3. OneBit(n, n) + 2 * LowAnd[c][h][h] = 0  BY <2>1, <3>1, LowBits
    <3>4. LowAnd[c][h][h] \in Nat
      <4>1. h \in Int /\ LowAnd[c] \in Masks2  BY <3>1, LowAndType
      <4> HIDE DEF h
      <4> QED BY <4>1 DEF Masks2
    <3> HIDE DEF h, p
    <3>5. OneBit(n, n) \in {0, 1} /\ (n % 2 = 1 => OneBit(n, n) = 1)
      BY <3>1, OneBitType
    <3>6. LowAnd[c][h][h] = 0 /\ n % 2 = 0  BY <3>1, <3>3, <3>4, <3>5
    <3>7. h < p  BY <3>1, <3>2
    <3>8. h = 0  BY <1>2, <3>1, <3>6, <3>7 DEF SelfLow, p
    <3> QED BY <3>1, <3>6, <3>8
  <2> QED BY <2>1 DEF SelfLow
<1>3. Nat \subseteq Good
  <2> HIDE DEF Good
  <2> QED BY <1>1, <1>2, SetInduction
<1> QED BY <1>3

(* What is_pow2 accepts is a power of two.                                  *)
IsPower(d, b) == \E k \in 0 .. b : d = Pow2[k]
PowersOnly(b) ==
  \A d \in Nat \ {0} : d <= Pow2[b] /\ LowAnd[b][d][d - 1] = 0 => IsPower(d, b)

LEMMA PowersOnlyAll ==
  ASSUME NEW b \in Nat
  PROVE  PowersOnly(b)
<1> DEFINE Good == {c \in Nat : PowersOnly(c)}
<1>1. 0 \in Good
  <2>1. \A d \in Nat \ {0} : d <= 1 => d = 1  OBVIOUS
  <2>2. 0 \in 0 .. 0  OBVIOUS
  <2> QED BY <2>1, <2>2, Pow2Zero DEF PowersOnly, IsPower
<1>2. ASSUME NEW c \in Nat, c \in Good PROVE c + 1 \in Good
  <2>1. ASSUME NEW d \in Nat \ {0}, d <= Pow2[c + 1], LowAnd[c + 1][d][d - 1] = 0
        PROVE  IsPower(d, c + 1)
    <3> DEFINE e == d \div 2
               f == (d - 1) \div 2
               p == Pow2[c]
    <3>1. /\ e \in Nat /\ f \in Nat /\ d \in Int /\ d - 1 \in Int
          /\ d = 2 * e + (d % 2) /\ d % 2 \in {0, 1}
          /\ (d % 2 = 0 => (d - 1) % 2 = 1 /\ f = e - 1)
          /\ (d % 2 = 1 => (d - 1) % 2 = 0 /\ f = e)
      OBVIOUS
    <3>2. p \in Nat /\ d <= 2 * p  BY <2>1, Pow2Type, Pow2Next
    <3>3. OneBit(d, d - 1) + 2 * LowAnd[c][e][f] = 0  BY <2>1, <3>1, LowBits
    <3>4. LowAnd[c][e][f] \in Nat
      <4>1. e \in Int /\ f \in Int /\ LowAnd[c] \in Masks2  BY <3>1, LowAndType
      <4> HIDE DEF e, f
      <4> QED BY <4>1 DEF Masks2
    <3> HIDE DEF e, f, p
    <3>5. OneBit(d, d - 1) \in Nat  BY <3>1, OneBitType
    <3>6. LowAnd[c][e][f] = 0  BY <3>3, <3>4, <3>5
    <3>7. CASE d % 2 = 0
      <4>1. e \in Nat \ {0} /\ e <= p /\ f = e - 1  BY <3>1, <3>2, <3>7
      <4>2. IsPower(e, c)  BY <1>2, <3>6, <4>1 DEF PowersOnly, p
      <4>3. PICK k \in 0 .. c : e = Pow2[k]  BY <4>2 DEF IsPower
      <4>4. k \in Nat /\ k + 1 \in 0 .. c + 1  OBVIOUS
      <4>5. d = Pow2[k + 1]  BY <3>1, <3>7, <4>3, <4>4, Pow2Next
      <4> QED BY <4>4, <4>5 DEF IsPower
    <3>8. CASE d % 2 = 1
      <4>1. f = e /\ e < p  BY <3>1, <3>2, <3>8
      <4>2. SelfLow(c)  BY SelfLowAll
      <4>3. e = 0  BY <3>1, <3>6, <4>1, <4>2 DEF SelfLow, p
      <4>4. d = Pow2[0]  BY <3>1, <3>8, <4>3, Pow2Zero
      <4>5. 0 \in 0 .. c + 1  OBVIOUS
      <4> QED BY <4>4, <4>5 DEF IsPower
    <3> QED BY <3>1, <3>7, <3>8
  <2> QED BY <2>1 DEF PowersOnly
<1>3. Nat \subseteq Good
  <2> HIDE DEF Good
  <2> QED BY <1>1, <1>2, SetInduction
<1> QED BY <1>3

-----------------------------------------------------------------------------
(* Texel addresses.                                                        *)
Dim == 1 .. Pow2[CoordBits - 1]

LEMMA DimPower ==
  ASSUME NEW d \in Dim, IsPow2(d)
  PROVE  \E k \in Nat : k + 1 <= CoordBits /\ d = Pow2[k]
<1> DEFINE b == CoordBits - 1
<1>1. b \in Nat /\ CoordBits = b + 1  BY CoordBitsAssumption
<1>2. Pow2[b] \in Nat /\ Pow2[CoordBits] = 2 * Pow2[b]  BY <1>1, Pow2Type, Pow2Next
<1>3. d \in Nat \ {0} /\ d <= Pow2[b]  BY <1>2 DEF Dim
<1>4. d <= Pow2[CoordBits]  BY <1>2, <1>3
<1>5. LowAnd[CoordBits][d][d - 1] = 0  BY DEF IsPow2, And
<1>6. PowersOnly(CoordBits)  BY CoordBitsAssumption, PowersOnlyAll
<1>7. PICK k \in 0 .. CoordBits : d = Pow2[k]
  BY <1>3, <1>4, <1>5, <1>6 DEF PowersOnly, IsPower
<1> HIDE DEF b
<1>8. k <= b
  <2>1. SUFFICES ASSUME b < k PROVE FALSE  BY <1>1
  <2>2. 2 * Pow2[b] <= Pow2[k]  BY <1>1, <2>1, Pow2Less
  <2>3. Pow2[b] \in Nat \ {0}  BY <1>1, Pow2Type
  <2> QED BY <1>3, <1>7, <2>2, <2>3
<1> QED BY <1>1, <1>7, <1>8

LEMMA MaskIs ==
  ASSUME NEW n \in Int, NEW k \in Nat, k <= CoordBits
  PROVE  And(n, Pow2[k] - 1) = n % Pow2[k]
<1>1. MasksLow(CoordBits) /\ CoordBits \in Nat  BY CoordBitsAssumption, MasksLowAll
<1>2. k \in 0 .. CoordBits  BY <1>1
<1> QED BY <1>1, <1>2 DEF And, MasksLow

LEMMA Log2Is ==
  ASSUME NEW k \in Nat, k <= CoordBits
  PROVE  Log2Pow2(Pow2[k]) = k
<1> DEFINE Fits2(m) == Pow2[m] >= Pow2[k] /\ \A b \in 0 .. m - 1 : Pow2[b] < Pow2[k]
<1>1. CoordBits \in Nat /\ k \in 0 .. CoordBits  BY CoordBitsAssumption
<1>2. \A m \in Nat : Pow2[m] \in Nat \ {0}  BY Pow2Type
<1>3. \A b, c \in Nat : b < c => Pow2[b] < Pow2[c]
  <2>1. \A b, c \in Nat : b < c => 2 * Pow2[b] <= Pow2[c]  BY Pow2Less
  <2> QED BY <1>2, <2>1
<1>4. Fits2(k)  BY <1>2, <1>3
<1>5. ASSUME NEW m \in 0 .. CoordBits, Fits2(m) PROVE m = k
  <2>1. ~(m < k)  BY <1>2, <1>3, <1>5
  <2>2. ~(k < m)
    <3>1. k < m => k \in 0 .. m - 1  BY <1>1
    <3> QED BY <1>2, <1>5, <3>1
  <2> QED BY <1>1, <2>1, <2>2
<1> HIDE DEF Fits2
<1>6. Log2Pow2(Pow2[k]) = CHOOSE m \in 0 .. CoordBits : Fits2(m)
  BY DEF Log2Pow2, Fits2
<1> QED BY <1>1, <1>4, <1>5, <1>6

LEMMA ByUpperHalf ==
  ASSUME NEW d \in Nat \ {0}, NEW n \in 0 .. 2 * d - 1
  PROVE  /\ n < d => n \div d = 0 /\ n % d = n
         /\ n >= d => n \div d = 1 /\ n % d = n - d
<1> DEFINE q == n \div d
           r == n % d
<1>1. q \in Int /\ r \in Int /\ 0 <= r /\ r < d /\ n = d * q + r  OBVIOUS
<1>2. n < 2 * d /\ n \in Nat  OBVIOUS
<1>3. q \in 0 .. 1  BY <1>2, Quotient
<1> HIDE DEF q, r
<1>4. q = 0 \/ q = 1  BY <1>3
<1>5. CASE q = 0
  <2>1. n = r  BY <1>1, <1>5
  <2> QED BY <1>1, <1>5, <2>1 DEF q, r
<1>6. CASE q = 1
  <2>1. n = d + r  BY <1>1, <1>6
  <2> QED BY <1>1, <1>6, <2>1 DEF q, r
<1> QED BY <1>4, <1>5, <1>6

(* wrap_coord is what its modes mean.                                      *)
LEMMA ClampIs ==
  ASSUME NEW n \in Int, NEW d \in Nat \ {0}
  PROVE  WrapCoord(n, d, "clamp") = Wrapped(n, d, "clamp") /\ Wrapped(n, d, "clamp") \in Int
BY DEF WrapCoord, Wrapped

LEMMA RepeatIs ==
  ASSUME NEW n \in Int, NEW d \in Dim, IsPow2(d)
  PROVE  WrapCoord(n, d, "repeat") = Wrapped(n, d, "repeat") /\ Wrapped(n, d, "repeat") \in Int
<1>1. PICK k \in Nat : k + 1 <= CoordBits /\ d = Pow2[k]  BY DimPower
<1>2. k <= CoordBits  BY <1>1, CoordBitsAssumption
<1>3. And(n, d - 1) = n % d  BY <1>1, <1>2, MaskIs
<1>4. WrapCoord(n, d, "repeat") = And(n, d - 1)  BY DEF WrapCoord
<1>5. Wrapped(n, d, "repeat") = n % d  BY DEF Wrapped
<1>6. n % d \in Int  BY <1>1, Pow2Type
<1> QED BY <1>3, <1>4, <1>5, <1>6

LEMMA MirrorIs ==
  ASSUME NEW n \in Int, NEW d \in Dim, IsPow2(d)
  PROVE  WrapCoord(n, d, "mirror") = Wrapped(n, d, "mirror") /\ Wrapped(n, d, "mirror") \in Int
<1>1. PICK k \in Nat : k + 1 <= CoordBits /\ d = Pow2[k]  BY DimPower
<1>2. k <= CoordBits /\ k + 1 \in Nat  BY <1>1, CoordBitsAssumption
<1>3. d \in Nat \ {0} /\ Pow2[k + 1] = 2 * d  BY <1>1, Pow2Type, Pow2Next
<1> DEFINE m == n % (2 * d)
<1>4. m \in Int /\ m \in 0 .. 2 * d - 1
  <2>1. 2 * d \in Nat \ {0}  BY <1>3
  <2> DEFINE e == 2 * d
  <2> HIDE DEF e
  <2>2. n % e \in 0 .. e - 1  BY <2>1 DEF e
  <2> QED BY <2>2 DEF e
<1>5. And(n, 2 * d - 1) = m
  <2>1. And(n, Pow2[k + 1] - 1) = n % Pow2[k + 1]  BY <1>1, <1>2, MaskIs
  <2> QED BY <1>3, <2>1
<1> HIDE DEF m
<1>6. And(m, d - 1) = m % d  BY <1>1, <1>2, <1>4, MaskIs
<1>7. Pow2[Log2Pow2(d)] = d  BY <1>1, <1>2, Log2Is
<1>8. WrapCoord(n, d, "mirror") = IF (m \div d) % 2 = 1 THEN d - 1 - (m % d) ELSE m % d
  BY <1>5, <1>6, <1>7 DEF WrapCoord
<1>9. Wrapped(n, d, "mirror") = IF m < d THEN m ELSE 2 * d - 1 - m
  BY DEF Wrapped, m
<1>10. CASE m < d
  <2>1. m \div d = 0 /\ m % d = m  BY <1>3, <1>4, <1>10, ByUpperHalf
  <2> QED BY <1>4, <1>8, <1>9, <1>10, <2>1
<1>11. CASE m >= d
  <2>1. m \div d = 1 /\ m % d = m - d  BY <1>3, <1>4, <1>11, ByUpperHalf
  <2>2. d - 1 - (m - d) = 2 * d - 1 - m /\ ~(m < d)  BY <1>3, <1>4, <1>11
  <2> QED BY <1>3, <1>4, <1>8, <1>9, <2>1, <2>2
<1> QED BY <1>3, <1>4, <1>10, <1>11

LEMMA WrapIs ==
  ASSUME NEW n \in Int, NEW d \in Dim, NEW mode \in WrapMode, Masks(mode) => IsPow2(d)
  PROVE  WrapCoord(n, d, mode) = Wrapped(n, d, mode) /\ Wrapped(n, d, mode) \in Int
<1>1. CASE mode = "clamp"
  <2>1. d \in Nat \ {0}
    <3>1. CoordBits - 1 \in Nat  BY CoordBitsAssumption
    <3>2. Pow2[CoordBits - 1] \in Nat  BY <3>1, Pow2Type
    <3> QED BY <3>2 DEF Dim
  <2> QED BY <1>1, <2>1, ClampIs
<1>2. CASE mode = "repeat"  BY <1>2, RepeatIs DEF Masks
<1>3. CASE mode = "mirror"  BY <1>3, MirrorIs DEF Masks
<1> QED BY <1>1, <1>2, <1>3 DEF WrapMode

LEMMA TexelIs ==
  ASSUME NEW t, NEW su \in Int, NEW sv \in Int, t.w \in Nat,
         t.format \in FourBit => t.w % 2 = 0
  PROVE  TexelRead(t, su, sv) = sv * t.w + su
<1> DEFINE lin == sv * t.w + su
<1>1. CASE t.format \in FourBit
  <2> DEFINE h == t.w \div 2
             p == sv * h
  <2>1. t.w = 2 * h /\ h \in Int  BY <1>1
  <2> HIDE DEF h
  <2>2. p \in Int /\ sv * t.w = 2 * p  BY <2>1
  <2> HIDE DEF p
  <2>3. lin = 2 * p + su  BY <2>2
  <2>4. 2 * ((2 * p + su) \div 2) + (su % 2) = 2 * p + su  BY <2>2
  <2>5. TexelRead(t, su, sv) = 2 * (lin \div 2) + (su % 2)  BY <1>1 DEF TexelRead
  <2> HIDE DEF lin
  <2> QED BY <2>3, <2>4, <2>5 DEF lin
<1>2. CASE t.format \notin FourBit  BY <1>2 DEF TexelRead
<1> QED BY <1>1, <1>2

LEMMA PointIs ==
  ASSUME NEW t \in TestTexture, Sampleable(t), NEW s \in Int, NEW v \in Int,
         t.format \in FourBit => t.w % 2 = 0
  PROVE  PointTexel(t, s, v) = Wrapped(v, t.h, t.wrap_t) * t.w + Wrapped(s, t.w, t.wrap_s)
<1>1. /\ t.w \in Dim /\ t.h \in Dim /\ t.wrap_s \in WrapMode /\ t.wrap_t \in WrapMode
  BY KernelAssumption DEF Dim
<1>2. (Masks(t.wrap_s) => IsPow2(t.w)) /\ (Masks(t.wrap_t) => IsPow2(t.h))
  BY DEF Sampleable
<1>3. /\ WrapCoord(s, t.w, t.wrap_s) = Wrapped(s, t.w, t.wrap_s)
      /\ Wrapped(s, t.w, t.wrap_s) \in Int
  BY <1>1, <1>2, WrapIs
<1>4. /\ WrapCoord(v, t.h, t.wrap_t) = Wrapped(v, t.h, t.wrap_t)
      /\ Wrapped(v, t.h, t.wrap_t) \in Int
  BY <1>1, <1>2, WrapIs
<1>5. t.w \in Nat
  <2>1. CoordBits - 1 \in Nat  BY CoordBitsAssumption
  <2>2. Pow2[CoordBits - 1] \in Nat  BY <2>1, Pow2Type
  <2> QED BY <1>1, <2>2 DEF Dim
<1>6. \A a, b \in Int : TexelRead(t, a, b) = b * t.w + a  BY <1>5, TexelIs
<1> QED BY <1>3, <1>4, <1>6 DEF PointTexel

-----------------------------------------------------------------------------
(* The filter: a tap with parts of the ways to two others.                  *)
LEMMA NotNegative ==
  ASSUME NEW i \in Nat, NEW j \in Nat
  PROVE  i * j \in Nat
OBVIOUS

LEMMA WeighedSum ==
  ASSUME NEW a \in Int, NEW b \in Int, NEW c \in Int, NEW l \in Int, NEW u \in Int, NEW v \in Int
  PROVE  u * (b - a) + v * (c - a) + 32 * a - 32 * l
         = u * (b - l) + v * (c - l) + (32 - u - v) * (a - l)
<1>1. u * (b - a) = u * b - u * a /\ v * (c - a) = v * c - v * a  OBVIOUS
<1>2. u * (b - l) = u * b - u * l /\ v * (c - l) = v * c - v * l  OBVIOUS
<1>3. (32 - u - v) * (a - l) = 32 * a - 32 * l - u * a + u * l - v * a + v * l  OBVIOUS
<1> QED BY <1>1, <1>2, <1>3

LEMMA BetweenTaps ==
  ASSUME NEW a \in Int, NEW b \in Int, NEW c \in Int, NEW l \in Int, NEW g \in Int,
         l <= a, l <= b, l <= c, a <= g, b <= g, c <= g,
         NEW u \in 0 .. 32, NEW v \in 0 .. 32, u + v <= 32
  PROVE  LET o == a + ((u * (b - a) + v * (c - a) + 16) \div 32) IN l <= o /\ o <= g
<1> DEFINE p == u * (b - a) + v * (c - a)
           w == 32 - u - v
<1>1. u \in Nat /\ v \in Nat /\ w \in Nat  OBVIOUS
<1>2. p \in Int  OBVIOUS
<1>3. p + 32 * a - 32 * l >= 0
  <2>1. p + 32 * a - 32 * l = u * (b - l) + v * (c - l) + w * (a - l)  BY WeighedSum
  <2>2. b - l \in Nat /\ c - l \in Nat /\ a - l \in Nat  OBVIOUS
  <2> HIDE DEF p, w
  <2>3. u * (b - l) \in Nat /\ v * (c - l) \in Nat /\ w * (a - l) \in Nat
    BY <1>1, <2>2, NotNegative
  <2> QED BY <2>1, <2>3
<1>4. p + 32 * a - 32 * g <= 0
  <2>1. p + 32 * a - 32 * g = u * (b - g) + v * (c - g) + w * (a - g)  BY WeighedSum
  <2>2. g - b \in Nat /\ g - c \in Nat /\ g - a \in Nat  OBVIOUS
  <2> HIDE DEF p, w
  <2>3. u * (g - b) \in Nat /\ v * (g - c) \in Nat /\ w * (g - a) \in Nat
    BY <1>1, <2>2, NotNegative
  <2>4. u * (b - g) = -(u * (g - b)) /\ v * (c - g) = -(v * (g - c))  OBVIOUS
  <2>5. w * (a - g) = -(w * (g - a))  BY <1>1
  <2> QED BY <2>1, <2>3, <2>4, <2>5
<1> HIDE DEF p, w
<1>5. l <= a + ((p + 16) \div 32) /\ a + ((p + 16) \div 32) <= g  BY <1>2, <1>3, <1>4
<1> QED BY <1>5 DEF p

LEMMA FourBounds ==
  ASSUME NEW a \in Int, NEW b \in Int, NEW c \in Int, NEW d \in Int, NEW X, X = {a, b, c, d}
  PROVE  /\ Least(X) \in Int /\ \A k \in X : Least(X) <= k
         /\ Greatest(X) \in Int /\ \A k \in X : k <= Greatest(X)
<1>1. \E n \in X : \A k \in X : n <= k
  <2>1. CASE a <= b /\ a <= c /\ a <= d  BY <2>1
  <2>2. CASE b <= a /\ b <= c /\ b <= d  BY <2>2
  <2>3. CASE c <= a /\ c <= b /\ c <= d  BY <2>3
  <2>4. CASE d <= a /\ d <= b /\ d <= c  BY <2>4
  <2> QED BY <2>1, <2>2, <2>3, <2>4
<1>2. \E n \in X : \A k \in X : n >= k
  <2>1. CASE a >= b /\ a >= c /\ a >= d  BY <2>1
  <2>2. CASE b >= a /\ b >= c /\ b >= d  BY <2>2
  <2>3. CASE c >= a /\ c >= b /\ c >= d  BY <2>3
  <2>4. CASE d >= a /\ d >= b /\ d >= c  BY <2>4
  <2> QED BY <2>1, <2>2, <2>3, <2>4
<1>3. Least(X) \in X /\ \A k \in X : Least(X) <= k  BY <1>1 DEF Least
<1>4. Greatest(X) \in X /\ \A k \in X : Greatest(X) >= k  BY <1>2 DEF Greatest
<1>5. X \subseteq Int  OBVIOUS
<1> QED BY <1>3, <1>4, <1>5

LEMMA FilterBetween ==
  ASSUME NEW a \in Int, NEW b \in Int, NEW c \in Int, NEW d \in Int,
         NEW sf \in 0 .. 31, NEW tf \in 0 .. 31, NEW l \in Int, NEW g \in Int,
         \A k \in {a, b, c, d} : l <= k /\ k <= g
  PROVE  l <= ThreePoint(a, b, c, d, sf, tf) /\ ThreePoint(a, b, c, d, sf, tf) <= g
<1>1. l <= a /\ a <= g /\ l <= b /\ b <= g /\ l <= c /\ c <= g /\ l <= d /\ d <= g  OBVIOUS
<1>2. CASE sf + tf >= 32
  <2> DEFINE u == 32 - sf
             v == 32 - tf
  <2>1. u \in 0 .. 32 /\ v \in 0 .. 32 /\ u + v <= 32  BY <1>2
  <2> HIDE DEF u, v
  <2>2. /\ l <= d + ((u * (c - d) + v * (b - d) + 16) \div 32)
        /\ d + ((u * (c - d) + v * (b - d) + 16) \div 32) <= g
    BY <1>1, <2>1, BetweenTaps
  <2> QED BY <1>2, <2>2 DEF ThreePoint, u, v
<1>3. CASE ~(sf + tf >= 32)
  <2>1. sf \in 0 .. 32 /\ tf \in 0 .. 32 /\ sf + tf <= 32  BY <1>3
  <2>2. /\ l <= a + ((sf * (b - a) + tf * (c - a) + 16) \div 32)
        /\ a + ((sf * (b - a) + tf * (c - a) + 16) \div 32) <= g
    BY <1>1, <2>1, BetweenTaps
  <2> QED BY <1>3, <2>2 DEF ThreePoint
<1> QED BY <1>2, <1>3

LEMMA OneTap ==
  ASSUME NEW a \in Int, NEW b \in Int, NEW c \in Int, NEW d \in Int
  PROVE  ThreePoint(a, b, c, d, 0, 0) = a
<1>1. 0 * (b - a) = 0 /\ 0 * (c - a) = 0  OBVIOUS
<1>2. a + ((0 + 0 + 16) \div 32) = a  OBVIOUS
<1>3. ThreePoint(a, b, c, d, 0, 0) = a + ((0 * (b - a) + 0 * (c - a) + 16) \div 32)
  BY DEF ThreePoint
<1> QED BY <1>1, <1>2, <1>3

-----------------------------------------------------------------------------
(* What the functions without a loop were given.                           *)
GivenInv ==
  /\ Task("project") => given[2] \in ClipPoint /\ given[3] \in ClipPoint
  /\ Task("sample") => /\ given[2] \in TestTexture /\ Sampleable(given[2])
                       /\ given[3] \in Coord /\ given[4] \in Coord
  /\ Task("filter") => \A k \in 2 .. 5 : given[k] \in TapValue

LEMMA GivenOther ==
  ASSUME NEW test, test # <<>>, test[1] \notin {"project", "sample", "filter"}, Start(test)
  PROVE  GivenInv'
BY DEF GivenInv, Task, Start

LEMMA GivenKeeps == KernelInv /\ GivenInv /\ [KernelNext]_kernelVars => GivenInv'
<1> SUFFICES ASSUME KernelInv, GivenInv, [KernelNext]_kernelVars PROVE GivenInv'
  OBVIOUS
<1>1. CASE StartProject  BY <1>1 DEF StartProject, Start, GivenInv, Task
<1>2. CASE StartClip  BY <1>2, GivenOther DEF StartClip
<1>3. CASE ClipPass  BY <1>3 DEF ClipPass, GivenInv, Task
<1>4. CASE StartSample  BY <1>4 DEF StartSample, Start, GivenInv, Task
<1>5. CASE StartFilter
  <2>1. PICK a \in TapValue, b \in TapValue, c \in TapValue, d \in TapValue :
          given' = <<"filter", a, b, c, d>>
    BY <1>5 DEF StartFilter, Start
  <2>2. given'[1] = "filter" /\ \A k \in 2 .. 5 : given'[k] \in TapValue
    <3>1. \A k \in 2 .. 5 : k = 2 \/ k = 3 \/ k = 4 \/ k = 5  OBVIOUS
    <3> QED BY <2>1, <3>1
  <2> QED BY <2>2 DEF GivenInv, Task
<1>6. CASE StartBlend  BY <1>6, GivenOther DEF StartBlend
<1>7. CASE Fragment
  <2>1. BlendState'  BY <1>7, FragmentKeeps
  <2>2. given' = <<"blend", given'[2], given'[3], given'[4]>>  BY <2>1 DEF BlendState
  <2>3. \A a, b, c : <<"blend", a, b, c>>[1] = "blend"  OBVIOUS
  <2>4. given'[1] = "blend"  BY <2>2, <2>3
  <2> QED BY <2>4 DEF GivenInv, Task
<1>8. CASE StartSprite  BY <1>8, GivenOther DEF StartSprite
<1>9. CASE StartSky  BY <1>9, GivenOther DEF StartSky
<1>10. CASE Finish  BY <1>10 DEF Finish, GivenInv, Task
<1>11. CASE UNCHANGED kernelVars  BY <1>11 DEF kernelVars, GivenInv, Task
<1> QED
  BY <1>1, <1>2, <1>3, <1>4, <1>5, <1>6, <1>7, <1>8, <1>9, <1>10, <1>11 DEF KernelNext

LEMMA TexelsAreAddressed == GivenInv => TexelAddressed
<1> SUFFICES ASSUME GivenInv PROVE TexelAddressed
  OBVIOUS
<1>1. CASE Task("sample")
  <2> DEFINE t == given[2]
             s == given[3]
             v == given[4]
  <2>1. t \in TestTexture /\ Sampleable(t) /\ s \in Int /\ v \in Int
    BY <1>1, KernelAssumption DEF GivenInv
  <2> HIDE DEF t, s, v
  <2>2. (t.format \in FourBit => t.w % 2 = 0) =>
          PointTexel(t, s, v) = Wrapped(v, t.h, t.wrap_t) * t.w + Wrapped(s, t.w, t.wrap_s)
    BY <2>1, PointIs
  <2> QED BY <1>1, <2>2 DEF TexelAddressed, Task, t, s, v
<1>2. CASE Task("filter")
  <2> DEFINE a == given[2]
             b == given[3]
             c == given[4]
             d == given[5]
             X == {given[k] : k \in 2 .. 5}
  <2>1. a \in Int /\ b \in Int /\ c \in Int /\ d \in Int
    <3>1. 2 \in 2 .. 5 /\ 3 \in 2 .. 5 /\ 4 \in 2 .. 5 /\ 5 \in 2 .. 5  OBVIOUS
    <3> QED BY <1>2, <3>1, KernelAssumption DEF GivenInv
  <2>2. X = {a, b, c, d}
    <3>1. 2 .. 5 = {2, 3, 4, 5}  OBVIOUS
    <3> QED BY <3>1
  <2> HIDE DEF a, b, c, d, X
  <2>3. /\ Least(X) \in Int /\ \A k \in {a, b, c, d} : Least(X) <= k
        /\ Greatest(X) \in Int /\ \A k \in {a, b, c, d} : k <= Greatest(X)
    BY <2>1, <2>2, FourBounds
  <2>4. \A sf, tf \in 0 .. 31 : /\ Least(X) <= ThreePoint(a, b, c, d, sf, tf)
                                /\ ThreePoint(a, b, c, d, sf, tf) <= Greatest(X)
    <3> DEFINE l == Least(X)
               g == Greatest(X)
    <3>1. l \in Int /\ g \in Int /\ \A k \in {a, b, c, d} : l <= k /\ k <= g  BY <2>3
    <3> HIDE DEF l, g
    <3>2. \A sf, tf \in 0 .. 31 : /\ l <= ThreePoint(a, b, c, d, sf, tf)
                                  /\ ThreePoint(a, b, c, d, sf, tf) <= g
      BY <2>1, <3>1, FilterBetween
    <3> QED BY <3>2 DEF l, g
  <2>5. ThreePoint(a, b, c, d, 0, 0) = a  BY <2>1, OneTap
  <2> QED BY <1>2, <2>4, <2>5 DEF TexelAddressed, Task, a, b, c, d, X
<1>3. CASE ~Task("sample") /\ ~Task("filter")  BY <1>3 DEF TexelAddressed
<1> QED BY <1>1, <1>2, <1>3

LEMMA TestsKeepGiven == KernelInv /\ GivenInv /\ [Next]_vars => GivenInv'
<1>1. [Next]_vars => [KernelNext]_kernelVars
  BY DEF Next, vars, Demo, Template, PicoProf, HostTests
<1> QED BY <1>1, GivenKeeps

(* Each of them was given what it may be given. *)
THEOREM GivenInductive == Spec => []GivenInv
<1>1. Init => GivenInv  BY DEF Init, KernelInit, GivenInv, Task
<1> QED BY <1>1, TestsKeepGiven, KernelInductive, PTL DEF Spec

(* tex.cc: any texture that tex_validate accepts, of any size the word of a *)
(* coordinate can mask, is read where its wrap modes say; and the filter   *)
(* stays between its taps, whatever they and the fractions are.            *)
THEOREM TexelsAddressed == Spec => []TexelAddressed
BY GivenInductive, TexelsAreAddressed, PTL

-----------------------------------------------------------------------------
(* Projection.  A quotient is the most that its divisor goes into a number. *)
LEMMA TimesMore ==
  ASSUME NEW i \in Int, NEW j \in Int, NEW d \in Nat, i <= j
  PROVE  d * i <= d * j /\ i * d <= j * d
<1>1. j - i \in Nat  OBVIOUS
<1>2. d * (j - i) \in Nat  BY <1>1, NotNegative
<1>3. d * (j - i) = d * j - d * i /\ d * j = j * d /\ d * i = i * d  OBVIOUS
<1>4. d * i \in Int /\ d * j \in Int  OBVIOUS
<1> QED BY <1>2, <1>3, <1>4

LEMMA DivBounds ==
  ASSUME NEW n \in Int, NEW d \in Nat \ {0}
  PROVE  n \div d \in Int /\ d * (n \div d) <= n /\ n < d * (n \div d) + d
OBVIOUS

LEMMA DivAtMost ==
  ASSUME NEW n \in Int, NEW d \in Nat \ {0}, NEW q \in Int, n < d * q + d
  PROVE  n \div d <= q
<1> DEFINE k == n \div d
<1>1. k \in Int /\ d * k <= n  BY DivBounds
<1> HIDE DEF k
<1>2. SUFFICES ASSUME q + 1 <= k PROVE FALSE  BY <1>1 DEF k
<1>3. d * (q + 1) <= d * k  BY <1>1, <1>2, TimesMore
<1>4. d * (q + 1) = d * q + d /\ d * q \in Int /\ d * k \in Int  BY <1>1
<1> QED BY <1>1, <1>3, <1>4

LEMMA DivAtLeast ==
  ASSUME NEW n \in Int, NEW d \in Nat \ {0}, NEW q \in Int, d * q <= n
  PROVE  q <= n \div d
<1> DEFINE k == n \div d
<1>1. k \in Int /\ n < d * k + d  BY DivBounds
<1> HIDE DEF k
<1>2. SUFFICES ASSUME k + 1 <= q PROVE FALSE  BY <1>1 DEF k
<1>3. d * (k + 1) <= d * q  BY <1>1, <1>2, TimesMore
<1>4. d * (k + 1) = d * k + d /\ d * q \in Int /\ d * k \in Int  BY <1>1
<1> QED BY <1>1, <1>3, <1>4

LEMMA DivMore ==
  ASSUME NEW n \in Int, NEW m \in Int, NEW d \in Nat \ {0}, n <= m
  PROVE  n \div d <= m \div d
<1> DEFINE k == n \div d
<1>1. k \in Int /\ d * k <= n  BY DivBounds
<1> HIDE DEF k
<1>2. d * k \in Int  BY <1>1
<1>3. d * k <= m  BY <1>1, <1>2
<1>4. k <= m \div d  BY <1>1, <1>3, DivAtLeast
<1> QED BY <1>4 DEF k

LEMMA DivNat ==
  ASSUME NEW n \in Nat, NEW d \in Nat \ {0}
  PROVE  n \div d \in Nat
<1>1. d * 0 <= n /\ n \in Int  OBVIOUS
<1>2. 0 <= n \div d  BY <1>1, DivAtLeast
<1> QED BY <1>1, <1>2, DivBounds

LEMMA DivByMore ==
  ASSUME NEW n \in Nat, NEW c \in Nat \ {0}, NEW d \in Nat \ {0}, c <= d
  PROVE  n \div d <= n \div c
<1> DEFINE k == n \div d
<1>1. k \in Nat /\ d * k <= n  BY DivBounds, DivNat
<1> HIDE DEF k
<1>2. c * k <= d * k /\ c * k \in Int /\ d * k \in Int  BY <1>1, TimesMore
<1>3. c * k <= n  BY <1>1, <1>2
<1>4. k <= n \div c  BY <1>1, <1>3, DivAtLeast
<1> QED BY <1>4 DEF k

-----------------------------------------------------------------------------
(* Words.                                                                  *)
LEMMA WordIs ==
  /\ FxHalf \in Nat \ {0} /\ FxOne \in Nat \ {0} /\ FxOne = 2 * FxHalf
  /\ FxOne * FxHalf \in Nat /\ WordMax = FxOne * FxHalf - 1 /\ WordMax \in Nat
  /\ FxOne - 1 <= WordMax
  /\ Pow2[2 * Frac - 1] = FxOne * FxHalf
<1> DEFINE f == Frac - 1
           h == Pow2[f]
<1>1. f \in Nat /\ Frac = f + 1 /\ Frac \in Nat  BY FracAssumption
<1>2. h \in Nat \ {0} /\ FxOne = 2 * h  BY <1>1, Pow2Type, Pow2Next DEF FxOne
<1> HIDE DEF h
<1>3. FxHalf = h  BY <1>2 DEF FxHalf
<1>4. 2 * Frac - 1 = Frac + f  BY <1>1
<1>5. Pow2[2 * Frac - 1] = FxOne * h  BY <1>1, <1>4, Pow2Sum DEF FxOne, h
<1>6. FxOne \in Nat \ {0}  BY <1>2
<1> DEFINE o == FxOne
<1>7. o * h >= o /\ o * h \in Nat
  <2> HIDE DEF o
  <2>1. o * 1 <= o * h /\ o * h \in Nat  BY <1>2, <1>6, TimesMore, NotNegative DEF o
  <2> QED BY <1>6, <2>1 DEF o
<1>8. WordMax = o * h - 1  BY <1>5 DEF WordMax
<1> HIDE DEF o
<1>9. WordMax \in Nat /\ o - 1 <= WordMax  BY <1>6, <1>7, <1>8 DEF o
<1> QED BY <1>2, <1>3, <1>5, <1>6, <1>7, <1>8, <1>9 DEF o

LEMMA SmallRemainder ==
  ASSUME NEW d \in Nat \ {0}, NEW n \in 0 .. d - 1
  PROVE  n % d = n
<1>1. n \in Int /\ n = 0 * d + n /\ 0 <= n /\ n < d  OBVIOUS
<1> QED BY <1>1, RemainderUnique

LEMMA SignedSame ==
  ASSUME NEW k \in Nat, NEW n \in Int, -Pow2[k] <= n, n < Pow2[k]
  PROVE  Signed(n, k + 1) = n
<1> DEFINE p == Pow2[k]
<1>1. p \in Nat \ {0} /\ Pow2[k + 1] = 2 * p  BY Pow2Type, Pow2Next
<1>2. -p <= n /\ n < p  OBVIOUS
<1>3. (k + 1) - 1 = k  OBVIOUS
<1> HIDE DEF p
<1> DEFINE d == 2 * p
           m == n + p
<1>4. d \in Nat \ {0} /\ m \in 0 .. d - 1 /\ m - p = n  BY <1>1, <1>2
<1> HIDE DEF d, m
<1>5. m % d = m  BY <1>4, SmallRemainder
<1>6. Signed(n, k + 1) = (m % d) - p  BY <1>1, <1>3 DEF Signed, m, d, p
<1> QED BY <1>4, <1>5, <1>6

LEMMA SignedType ==
  ASSUME NEW k \in Nat, NEW n \in Int
  PROVE  Signed(n, k + 1) \in Int
<1> DEFINE p == Pow2[k]
           d == Pow2[k + 1]
<1>1. p \in Nat /\ d \in Nat \ {0}  BY Pow2Type
<1>2. (k + 1) - 1 = k  OBVIOUS
<1> HIDE DEF p, d
<1>3. ((n + p) % d) - p \in Int  BY <1>1
<1> QED BY <1>2, <1>3 DEF Signed, p, d

LEMMA WrapSame ==
  ASSUME NEW n \in Int, -WordMax <= n, n <= WordMax
  PROVE  Wrap(n) = n
<1> DEFINE k == 2 * Frac - 1
<1>1. k \in Nat /\ k + 1 = 2 * Frac  BY FracAssumption
<1>2. Pow2[k] \in Nat /\ WordMax = Pow2[k] - 1  BY <1>1, Pow2Type DEF WordMax
<1> HIDE DEF k
<1>3. -Pow2[k] <= n /\ n < Pow2[k]  BY <1>2
<1>4. Signed(n, k + 1) = n  BY <1>1, <1>3, SignedSame
<1> QED BY <1>1, <1>4 DEF Wrap

LEMMA WrapType ==
  ASSUME NEW n \in Int
  PROVE  Wrap(n) \in Int
<1> DEFINE k == 2 * Frac - 1
<1>1. k \in Nat /\ k + 1 = 2 * Frac  BY FracAssumption
<1> HIDE DEF k
<1>2. Signed(n, k + 1) \in Int  BY <1>1, SignedType
<1> QED BY <1>1, <1>2 DEF Wrap

(* fx_div of what is not negative, and fits. *)
LEMMA FxDivIs ==
  ASSUME NEW a \in Nat, NEW d \in Nat \ {0}, (a * FxOne) \div d <= WordMax
  PROVE  FxDiv(a, d) = (a * FxOne) \div d /\ FxDiv(a, d) \in Nat
<1> DEFINE n == a * FxOne
           q == n \div d
<1>1. n \in Nat  BY WordIs, NotNegative
<1> HIDE DEF n
<1>2. q \in Nat  BY <1>1, DivNat
<1>3. TruncDiv(n, d) = q  BY <1>1 DEF TruncDiv, Abs
<1> HIDE DEF q
<1>4. q <= WordMax /\ -WordMax <= q  BY <1>2, WordIs DEF q, n
<1>5. Wrap(q) = q  BY <1>2, <1>4, WrapSame
<1>6. FxDiv(a, d) = Wrap(TruncDiv(n, d))  BY DEF FxDiv, n
<1> QED BY <1>2, <1>3, <1>5, <1>6 DEF q, n

(* 1/w, two units of the last place in front of the viewer and more. *)
LEMMA InverseIs ==
  ASSUME NEW w \in Int, w > 2
  PROVE  FxDiv(FxOne, w) = (FxOne * FxOne) \div w /\ FxDiv(FxOne, w) \in Nat
<1> DEFINE o == FxOne
           h == FxHalf
           y == o * h
           q == (o * o) \div w
<1>1. o \in Nat \ {0} /\ o = 2 * h /\ h \in Nat /\ y \in Nat /\ WordMax = y - 1 /\ WordMax \in Nat
  BY WordIs
<1>2. w \in Nat \ {0}  OBVIOUS
<1>3. o * o \in Nat  BY <1>1, NotNegative
<1>4. q \in Nat /\ w * q <= o * o
  <2> DEFINE n == o * o
  <2>1. n \in Nat /\ n \in Int  BY <1>3
  <2> HIDE DEF n
  <2>2. n \div w \in Nat  BY <1>2, <2>1, DivNat
  <2>3. w * (n \div w) <= n  BY <1>2, <2>1, DivBounds
  <2> QED BY <2>2, <2>3 DEF n
<1>5. o * o = 2 * y
  <2>1. \A i, j \in Nat : i * (2 * j) = 2 * (i * j)  OBVIOUS
  <2> HIDE DEF o, h, y
  <2>2. o * o = o * (2 * h)  BY <1>1
  <2> QED BY <1>1, <2>1, <2>2 DEF y
<1> HIDE DEF q, y, o, h
<1>6. 3 * q <= w * q /\ w * q \in Int  BY <1>2, <1>4, TimesMore
<1>7. 3 * q <= 2 * y  BY <1>1, <1>4, <1>5, <1>6
<1>8. q <= y - 1  BY <1>1, <1>4, <1>7
<1>9. q <= WordMax  BY <1>1, <1>8
<1> QED BY <1>1, <1>2, <1>9, FxDivIs DEF q, o

(* At two units the quotient is the least word, at one it is nothing. *)
LEMMA SentinelIs ==
  ASSUME NEW w \in Int, w > 0
  PROVE  FxDiv(FxOne, w) < 0 <=> w = 2
<1> DEFINE p == FxOne * FxHalf
           n == FxOne * FxOne
           d == Pow2[2 * Frac]
<1>1. p \in Nat \ {0} /\ Pow2[2 * Frac - 1] = p
  <2>1. FxOne * FxHalf - 1 \in Nat /\ FxOne * FxHalf \in Nat  BY WordIs
  <2> QED BY <2>1, WordIs
<1>2. n = 2 * p
  <2>1. \A i, j \in Nat : i * (2 * j) = 2 * (i * j)  OBVIOUS
  <2> QED BY <2>1, WordIs
<1>3. d = 2 * p
  <2> DEFINE k == 2 * Frac - 1
  <2>1. k \in Nat /\ k + 1 = 2 * Frac  BY FracAssumption
  <2> HIDE DEF k
  <2>2. Pow2[k + 1] = 2 * Pow2[k]  BY <2>1, Pow2Next
  <2>3. Pow2[k] = p  BY <1>1 DEF k
  <2> QED BY <2>1, <2>2, <2>3
<1>4. \A q : Wrap(q) = ((q + p) % d) - p  BY <1>1 DEF Wrap, Signed
<1>5. FxDiv(FxOne, w) = Wrap(TruncDiv(n, w))  BY DEF FxDiv
<1> HIDE DEF p, n, d
<1>6. CASE w = 1
  <2>1. TruncDiv(n, w) = d
    <3>1. n \div 1 = n  BY <1>1, <1>2
    <3> QED BY <1>1, <1>2, <1>3, <1>6, <3>1 DEF TruncDiv, Abs
  <2>2. d + p = 1 * d + p /\ d \in Nat \ {0} /\ d + p \in Int /\ 0 <= p /\ p < d
    BY <1>1, <1>3
  <2>3. (d + p) % d = p  BY <1>1, <2>2, RemainderUnique
  <2> QED BY <1>1, <1>4, <1>5, <1>6, <2>1, <2>3
<1>7. CASE w = 2
  <2>1. TruncDiv(n, w) = p
    <3>1. (2 * p) \div 2 = p  BY <1>1
    <3> QED BY <1>1, <1>2, <1>7, <3>1 DEF TruncDiv, Abs
  <2>2. p + p = 1 * d + 0 /\ d \in Nat \ {0} /\ p + p \in Int  BY <1>1, <1>3
  <2>3. (p + p) % d = 0  BY <2>2, RemainderUnique
  <2> QED BY <1>1, <1>4, <1>5, <1>7, <2>1, <2>3
<1>8. CASE w > 2
  <2>1. FxDiv(FxOne, w) \in Nat  BY <1>8, InverseIs
  <2> QED BY <1>8, <2>1
<1> QED BY <1>6, <1>7, <1>8

LEMMA NearerIsGreater ==
  ASSUME NEW a \in Int, NEW b \in Int, a > 2, a <= b
  PROVE  FxDiv(FxOne, b) <= FxDiv(FxOne, a)
<1>1. b > 2 /\ a \in Nat \ {0} /\ b \in Nat \ {0}  OBVIOUS
<1>2. FxOne * FxOne \in Nat  BY WordIs, NotNegative
<1>3. (FxOne * FxOne) \div b <= (FxOne * FxOne) \div a  BY <1>1, <1>2, DivByMore
<1> QED BY <1>1, <1>3, InverseIs

-----------------------------------------------------------------------------
(* Fog between half a unit and three.                                      *)
Fog(z) == FogFactor(FxHalf, 3 * FxOne, z)

LEMMA FogBetween ==
  ASSUME NEW z \in Int, z > FxHalf, z < 3 * FxOne
  PROVE  /\ Fog(z) = ((z - FxHalf) * FxOne) \div (5 * FxHalf)
         /\ Fog(z) \in Nat /\ Fog(z) <= FxOne
<1> DEFINE o == FxOne
           h == FxHalf
           d == 5 * h
           s == z - h
<1>1. o \in Nat \ {0} /\ o = 2 * h /\ h \in Nat \ {0} /\ o - 1 <= WordMax /\ WordMax \in Nat
  BY WordIs
<1>2. s \in Nat \ {0} /\ s <= d - 1 /\ d \in Nat \ {0} /\ 3 * o - h = d  BY <1>1
<1>3. ~(z <= h) /\ ~(z >= 3 * o) /\ ~(3 * o - h <= 0)  BY <1>1, <1>2
<1>4. Fog(z) = FxDiv(s, d)  BY <1>2, <1>3 DEF Fog, FogFactor
<1> HIDE DEF o, h, d, s
<1>5. s * o <= (d - 1) * o /\ s * o \in Int  BY <1>1, <1>2, TimesMore
<1>6. (d - 1) * o = d * o - o /\ d * (o - 1) + d = d * o /\ d * o \in Int  BY <1>1, <1>2
<1>7. s * o < d * (o - 1) + d  BY <1>1, <1>5, <1>6
<1>8. (s * o) \div d <= o - 1
  <2> DEFINE n == s * o
             k == o - 1
  <2>1. n \in Int /\ k \in Int /\ n < d * k + d  BY <1>1, <1>5, <1>7
  <2> HIDE DEF n, k
  <2>2. n \div d <= k  BY <1>2, <2>1, DivAtMost
  <2> QED BY <2>2 DEF n, k
<1>9. (s * o) \div d \in Int  BY <1>2, <1>5, DivBounds
<1>10. (s * o) \div d <= WordMax  BY <1>1, <1>8, <1>9
<1>11. FxDiv(s, d) = (s * o) \div d /\ FxDiv(s, d) \in Nat  BY <1>2, <1>10, FxDivIs DEF o
<1>12. FxDiv(s, d) <= o  BY <1>1, <1>8, <1>9, <1>11
<1> QED BY <1>4, <1>11, <1>12 DEF o, h, d, s

LEMMA FogType ==
  ASSUME NEW z \in Int
  PROVE  Fog(z) \in Nat /\ Fog(z) <= FxOne
<1>1. FxOne \in Nat /\ FxHalf \in Nat  BY WordIs
<1>2. CASE z <= FxHalf  BY <1>1, <1>2 DEF Fog, FogFactor
<1>3. CASE z > FxHalf /\ z >= 3 * FxOne  BY <1>1, <1>3 DEF Fog, FogFactor
<1>4. CASE z > FxHalf /\ z < 3 * FxOne  BY <1>4, FogBetween
<1> QED BY <1>1, <1>2, <1>3, <1>4

LEMMA FogGrows ==
  ASSUME NEW a \in Int, NEW b \in Int, a <= b
  PROVE  Fog(a) <= Fog(b)
<1>1. FxOne \in Nat \ {0} /\ FxHalf \in Nat \ {0}  BY WordIs
<1>2. Fog(a) \in Nat /\ Fog(a) <= FxOne /\ Fog(b) \in Nat  BY FogType
<1>3. CASE a <= FxHalf
  <2>1. Fog(a) = 0  BY <1>3 DEF Fog, FogFactor
  <2> QED BY <1>2, <2>1
<1>4. CASE a > FxHalf /\ b >= 3 * FxOne
  <2>1. ~(b <= FxHalf)  BY <1>1, <1>4
  <2>2. Fog(b) = FxOne  BY <1>4, <2>1 DEF Fog, FogFactor
  <2> QED BY <1>2, <2>2
<1>5. CASE a > FxHalf /\ b < 3 * FxOne
  <2> DEFINE s == a - FxHalf
             t == b - FxHalf
             d == 5 * FxHalf
  <2>1. a < 3 * FxOne /\ b > FxHalf  BY <1>1, <1>5
  <2>2. Fog(a) = (s * FxOne) \div d /\ Fog(b) = (t * FxOne) \div d
    BY <1>5, <2>1, FogBetween
  <2>3. s \in Int /\ t \in Int /\ s <= t /\ d \in Nat \ {0}  BY <1>1
  <2> HIDE DEF s, t, d
  <2>4. s * FxOne <= t * FxOne /\ s * FxOne \in Int /\ t * FxOne \in Int
    BY <1>1, <2>3, TimesMore
  <2> QED BY <2>2, <2>3, <2>4, DivMore
<1> QED BY <1>1, <1>3, <1>4, <1>5

LEMMA FogU8Grows ==
  ASSUME NEW a \in Int, NEW b \in Int, a <= b
  PROVE  FogU8(FxHalf, 3 * FxOne, a) <= FogU8(FxHalf, 3 * FxOne, b)
<1>1. Fog(a) \in Nat /\ Fog(b) \in Nat /\ Fog(a) <= Fog(b)  BY FogType, FogGrows
<1>2. Fog(a) * 255 <= Fog(b) * 255 /\ Fog(a) * 255 \in Int /\ Fog(b) * 255 \in Int  BY <1>1
<1>3. FxOne \in Nat \ {0}  BY WordIs
<1>4. (Fog(a) * 255) \div FxOne <= (Fog(b) * 255) \div FxOne  BY <1>2, <1>3, DivMore
<1> QED BY <1>4 DEF FogU8, Fog

-----------------------------------------------------------------------------
(* Products.  The four of the halves make up the whole.                    *)
LEMMA AbsType ==
  ASSUME NEW n \in Int
  PROVE  Abs(n) \in Nat /\ (Abs(n) = n \/ Abs(n) = -n) /\ (n >= 0 => Abs(n) = n)
         /\ (n < 0 => Abs(n) = -n)
BY DEF Abs

LEMMA OfHalves ==
  ASSUME NEW o \in Int, NEW p \in Int, NEW q \in Int, NEW r \in Int, NEW s \in Int
  PROVE  q * s + (q * r + p * s) * o + p * r * o * o = (o * p + q) * (o * r + s)
<1>1. (o * p + q) * (o * r + s) = (o * p) * (o * r) + (o * p) * s + q * (o * r) + q * s
  <2>1. \A i, j, k, l \in Int : (i + j) * (k + l) = i * k + i * l + j * k + j * l  OBVIOUS
  <2>2. o * p \in Int /\ o * r \in Int  OBVIOUS
  <2> QED BY <2>1, <2>2
<1>2. (o * p) * (o * r) = p * r * o * o /\ (o * p) * s = (p * s) * o /\ q * (o * r) = (q * r) * o
  OBVIOUS
<1>3. (q * r + p * s) * o = (q * r) * o + (p * s) * o
  <2>1. \A i, j \in Int : (i + j) * o = i * o + j * o  OBVIOUS
  <2>2. q * r \in Int /\ p * s \in Int  OBVIOUS
  <2> QED BY <2>1, <2>2
<1> DEFINE t1 == q * s
           t2 == (q * r) * o
           t3 == (p * s) * o
           t4 == p * r * o * o
<1>4. t1 \in Int /\ t2 \in Int /\ t3 \in Int /\ t4 \in Int  OBVIOUS
<1>5. /\ q * s + (q * r + p * s) * o + p * r * o * o = t1 + (t2 + t3) + t4
      /\ (o * p + q) * (o * r + s) = t4 + t3 + t2 + t1
  BY <1>1, <1>2, <1>3
<1> HIDE DEF t1, t2, t3, t4
<1>6. t1 + (t2 + t3) + t4 = t4 + t3 + t2 + t1  BY <1>4
<1> QED BY <1>5, <1>6

LEMMA SignedProduct ==
  ASSUME NEW a \in Int, NEW b \in Int
  PROVE  a * b = IF (a < 0) = (b < 0) THEN Abs(a) * Abs(b) ELSE -(Abs(a) * Abs(b))
<1>1. \A i, j \in Int : (-i) * j = -(i * j) /\ i * (-j) = -(i * j) /\ (-i) * (-j) = i * j
  OBVIOUS
<1>2. CASE a < 0 /\ b < 0  BY <1>1, <1>2, AbsType
<1>3. CASE a < 0 /\ b >= 0
  <2>1. Abs(a) = -a /\ Abs(b) = b  BY <1>3, AbsType
  <2>2. (-a) * b = -(a * b) /\ a * b \in Int  BY <1>1
  <2>3. -(-(a * b)) = a * b  BY <2>2
  <2> QED BY <1>3, <2>1, <2>2, <2>3
<1>4. CASE a >= 0 /\ b < 0
  <2>1. Abs(a) = a /\ Abs(b) = -b  BY <1>4, AbsType
  <2>2. a * (-b) = -(a * b) /\ a * b \in Int  BY <1>1
  <2>3. -(-(a * b)) = a * b  BY <2>2
  <2> QED BY <1>4, <2>1, <2>2, <2>3
<1>5. CASE a >= 0 /\ b >= 0  BY <1>5, AbsType
<1> QED BY <1>2, <1>3, <1>4, <1>5

LEMMA ProductIs ==
  ASSUME NEW a \in Int, NEW b \in Int
  PROVE  SMul64(a, b) = a * b
<1> DEFINE o == FxOne
           p == Abs(a) \div o
           q == Abs(a) % o
           r == Abs(b) \div o
           s == Abs(b) % o
           mag == q * s + (q * r + p * s) * o + p * r * o * o
<1>1. o \in Nat \ {0} /\ Abs(a) \in Nat /\ Abs(b) \in Nat  BY WordIs, AbsType
<1>2. \A n \in Nat : n \div o \in Int /\ n % o \in Int /\ n = o * (n \div o) + (n % o)
  <2> HIDE DEF o
  <2> QED BY <1>1
<1>3. p \in Int /\ q \in Int /\ r \in Int /\ s \in Int /\ o \in Int
  BY <1>1, <1>2
<1>4. Abs(a) = o * p + q /\ Abs(b) = o * r + s  BY <1>1, <1>2
<1>5. SMul64(a, b) = IF (a < 0) = (b < 0) THEN mag ELSE -mag
  BY DEF SMul64
<1> HIDE DEF p, q, r, s, o
<1>6. mag = Abs(a) * Abs(b)  BY <1>3, <1>4, OfHalves
<1> HIDE DEF mag
<1> QED BY <1>5, <1>6, SignedProduct

(* fx_mul rounds the product to the nearest word, halves away from 0.       *)
Nearest(p) == IF p >= 0 THEN (p + FxHalf) \div FxOne ELSE -((-p + FxHalf) \div FxOne)

LEMMA NearestType ==
  ASSUME NEW p \in Int
  PROVE  /\ Nearest(p) \in Int
         /\ p >= 0 => Nearest(p) >= 0
         /\ p < 0 => Nearest(p) <= 0
         /\ Abs(Nearest(p)) = (Abs(p) + FxHalf) \div FxOne
<1>1. FxHalf \in Nat /\ FxOne \in Nat \ {0}  BY WordIs
<1>2. CASE p >= 0
  <2> DEFINE k == (p + FxHalf) \div FxOne
  <2>1. k \in Nat
    <3>1. p + FxHalf \in Nat  BY <1>1, <1>2
    <3> QED BY <1>1, <3>1, DivNat
  <2>2. Nearest(p) = k /\ (Abs(p) + FxHalf) \div FxOne = k  BY <1>2, AbsType DEF Nearest
  <2> HIDE DEF k
  <2>3. Abs(k) = k  BY <2>1, AbsType
  <2> QED BY <1>2, <2>1, <2>2, <2>3
<1>3. CASE p < 0
  <2> DEFINE k == (-p + FxHalf) \div FxOne
  <2>1. k \in Nat
    <3>1. -p + FxHalf \in Nat  BY <1>1, <1>3
    <3> QED BY <1>1, <3>1, DivNat
  <2>2. Nearest(p) = -k  BY <1>3 DEF Nearest
  <2>3. (Abs(p) + FxHalf) \div FxOne = k  BY <1>3, AbsType
  <2> HIDE DEF k
  <2>4. Abs(-k) = k  BY <2>1 DEF Abs
  <2> QED BY <1>3, <2>1, <2>2, <2>3, <2>4
<1> QED BY <1>2, <1>3

LEMMA NearestGrows ==
  ASSUME NEW p \in Int, NEW q \in Int, p <= q
  PROVE  Nearest(p) <= Nearest(q)
<1>1. FxHalf \in Nat /\ FxOne \in Nat \ {0}  BY WordIs
<1>2. CASE p >= 0
  <2>1. q >= 0 /\ p + FxHalf \in Int /\ q + FxHalf \in Int /\ p + FxHalf <= q + FxHalf
    BY <1>1, <1>2
  <2>2. (p + FxHalf) \div FxOne <= (q + FxHalf) \div FxOne  BY <1>1, <2>1, DivMore
  <2> QED BY <1>2, <2>1, <2>2 DEF Nearest
<1>3. CASE p < 0 /\ q >= 0
  <2>1. Nearest(p) \in Int /\ Nearest(q) \in Int /\ Nearest(p) <= 0 /\ Nearest(q) >= 0
    BY <1>3, NearestType
  <2> QED BY <2>1
<1>4. CASE p < 0 /\ q < 0
  <2> DEFINE m == -p + FxHalf
             n == -q + FxHalf
  <2>1. m \in Int /\ n \in Int /\ n <= m  BY <1>1
  <2>2. Nearest(p) = -(m \div FxOne) /\ Nearest(q) = -(n \div FxOne)  BY <1>4 DEF Nearest
  <2> HIDE DEF m, n
  <2>3. n \div FxOne <= m \div FxOne  BY <1>1, <2>1, DivMore
  <2>4. n \div FxOne \in Int /\ m \div FxOne \in Int  BY <1>1, <2>1, DivBounds
  <2> QED BY <2>2, <2>3, <2>4
<1> QED BY <1>2, <1>3, <1>4

FitsWord(a, b) == (Abs(a * b) + FxHalf) \div FxOne <= WordMax \div 4

LEMMA FxMulIs ==
  ASSUME NEW a \in Int, NEW b \in Int, FitsWord(a, b)
  PROVE  FxMul(a, b) = Nearest(a * b) /\ FxMul(a, b) \in Int
<1> DEFINE p == a * b
           k == (Abs(p) + FxHalf) \div FxOne
           n == Nearest(p)
<1>1. p \in Int /\ SMul64(a, b) = p  BY ProductIs
<1>2. FxMul(a, b) = Wrap(IF p >= 0 THEN k ELSE -k)  BY <1>1 DEF FxMul
<1>3. k <= WordMax \div 4  BY DEF FitsWord
<1> HIDE DEF p
<1>4. n \in Int /\ Abs(n) = k /\ (p >= 0 => n >= 0) /\ (p < 0 => n <= 0)  BY <1>1, NearestType
<1> HIDE DEF k, n
<1>5. n = IF p >= 0 THEN k ELSE -k
  <2>1. CASE p >= 0  BY <1>4, <2>1, AbsType
  <2>2. CASE p < 0  BY <1>4, <2>2 DEF Abs
  <2> QED BY <1>1, <2>1, <2>2
<1>6. WordMax \in Nat  BY WordIs
<1>7. k \in Nat /\ (n = k \/ n = -k)  BY <1>4, AbsType
<1>8. -WordMax <= n /\ n <= WordMax  BY <1>3, <1>6, <1>7
<1>9. Wrap(n) = n  BY <1>4, <1>8, WrapSame
<1> QED BY <1>2, <1>4, <1>5, <1>9 DEF n, p

LEMMA MulGrows ==
  ASSUME NEW a \in Int, NEW b \in Int, NEW f \in Nat, FitsWord(a, f), FitsWord(b, f), a <= b
  PROVE  FxMul(a, f) <= FxMul(b, f)
<1>1. a * f <= b * f /\ a * f \in Int /\ b * f \in Int  BY TimesMore
<1>2. Nearest(a * f) <= Nearest(b * f)  BY <1>1, NearestGrows
<1> QED BY <1>2, FxMulIs

LEMMA MulNothing ==
  ASSUME NEW f \in Int
  PROVE  FxMul(0, f) = 0
<1>1. FxHalf \in Nat /\ FxOne \in Nat \ {0} /\ FxOne = 2 * FxHalf /\ WordMax \in Nat  BY WordIs
<1>2. 0 * f = 0  OBVIOUS
<1>3. Abs(0) = 0  BY DEF Abs
<1>4. (0 + FxHalf) \div FxOne = 0
  <2>1. FxHalf \in Nat /\ FxHalf < 1 * FxOne  BY <1>1
  <2>2. FxHalf \div FxOne \in 0 .. 1 - 1  BY <1>1, <2>1, Quotient
  <2> QED BY <1>1, <2>2
<1>5. FitsWord(0, f)
  <2>1. 0 <= WordMax \div 4  BY <1>1
  <2> QED BY <1>2, <1>3, <1>4, <2>1 DEF FitsWord
<1>6. FxMul(0, f) = Nearest(0)  BY <1>2, <1>5, FxMulIs
<1> QED BY <1>4, <1>6 DEF Nearest

-----------------------------------------------------------------------------
(* The screen.                                                             *)
Extents == 0 .. FxHalf - 1

LEMMA HalfType ==
  ASSUME NEW e \in Extents
  PROVE  Half(e) \in Nat
<1> DEFINE o == FxOne
           h == FxHalf
           n == e * o
<1>1. o \in Nat \ {0} /\ h \in Nat /\ WordMax = o * h - 1 /\ o * h \in Nat /\ WordMax \in Nat
  BY WordIs
<1>2. e \in Nat /\ e <= h - 1  BY <1>1 DEF Extents
<1> HIDE DEF o, h
<1>3. n \in Nat /\ n <= (h - 1) * o  BY <1>1, <1>2, NotNegative, TimesMore
<1>4. (h - 1) * o = o * h - o  BY <1>1
<1> HIDE DEF n
<1>5. n <= WordMax /\ -WordMax <= n  BY <1>1, <1>3, <1>4
<1>6. Wrap(n) = n  BY <1>3, <1>5, WrapSame
<1>7. n \div 2 \in Nat  BY <1>3
<1> QED BY <1>6, <1>7 DEF Half, FxFromInt, n, o

LEMMA CenterType ==
  ASSUME NEW x \in Int, NEW e \in Extents
  PROVE  Center(x, e) \in Int
<1>1. FxOne \in Nat  BY WordIs
<1>2. x * FxOne \in Int  BY <1>1
<1>3. FxFromInt(x) \in Int  BY <1>2, WrapType DEF FxFromInt
<1>4. FxFromInt(x) + Half(e) \in Int  BY <1>3, HalfType
<1> QED BY <1>4, WrapType DEF Center

LEMMA SubPxType ==
  ASSUME NEW a \in Int
  PROVE  ToSubPx(a) \in Int
<1>1. Frac - SubPx \in Nat /\ Frac - SubPx - 1 \in Nat  BY FracAssumption
<1> DEFINE d == Pow2[Frac - SubPx]
           h == Pow2[Frac - SubPx - 1]
<1>2. d \in Nat \ {0} /\ h \in Nat  BY <1>1, Pow2Type
<1> HIDE DEF d, h
<1>3. (a + h) \div d \in Int  BY <1>2
<1> QED BY <1>3 DEF ToSubPx, d, h

LEMMA SubPxGrows ==
  ASSUME NEW a \in Int, NEW b \in Int, a <= b
  PROVE  ToSubPx(a) <= ToSubPx(b)
<1>1. Frac - SubPx \in Nat /\ Frac - SubPx - 1 \in Nat  BY FracAssumption
<1> DEFINE d == Pow2[Frac - SubPx]
           h == Pow2[Frac - SubPx - 1]
<1>2. d \in Nat \ {0} /\ h \in Nat  BY <1>1, Pow2Type
<1> HIDE DEF d, h
<1>3. a + h \in Int /\ b + h \in Int /\ a + h <= b + h  BY <1>2
<1>4. (a + h) \div d <= (b + h) \div d  BY <1>2, <1>3, DivMore
<1> QED BY <1>4 DEF ToSubPx, d, h

(* A coordinate under 1/w and a half extent that it fits with. *)
OnAxis(c, inv, e) == FitsWord(c, inv) /\ FitsWord(FxMul(c, inv), Half(e))

LEMMA AxisGrows ==
  ASSUME NEW a \in Int, NEW b \in Int, a <= b, NEW inv \in Nat, NEW e \in Extents,
         OnAxis(a, inv, e), OnAxis(b, inv, e)
  PROVE  /\ FxMul(FxMul(a, inv), Half(e)) \in Int
         /\ FxMul(FxMul(b, inv), Half(e)) \in Int
         /\ FxMul(FxMul(a, inv), Half(e)) <= FxMul(FxMul(b, inv), Half(e))
<1> DEFINE h == Half(e)
           m == FxMul(a, inv)
           n == FxMul(b, inv)
<1>1. h \in Nat /\ h \in Int  BY HalfType
<1>2. FitsWord(a, inv) /\ FitsWord(b, inv) /\ FitsWord(m, h) /\ FitsWord(n, h)  BY DEF OnAxis
<1>3. m \in Int /\ n \in Int /\ m <= n  BY <1>2, MulGrows, FxMulIs
<1> HIDE DEF h, m, n
<1>4. FxMul(m, h) \in Int /\ FxMul(n, h) \in Int  BY <1>1, <1>2, <1>3, FxMulIs
<1>5. FxMul(m, h) <= FxMul(n, h)  BY <1>1, <1>2, <1>3, MulGrows
<1> QED BY <1>4, <1>5 DEF h, m, n

LEMMA AcrossGrows ==
  ASSUME NEW a \in Int, NEW b \in Int, a <= b, NEW inv \in Nat, NEW x \in Int, NEW e \in Extents,
         OnAxis(a, inv, e), OnAxis(b, inv, e)
  PROVE  Across(a, inv, x, e) <= Across(b, inv, x, e)
<1> DEFINE c == Center(x, e)
           m == FxMul(FxMul(a, inv), Half(e))
           n == FxMul(FxMul(b, inv), Half(e))
<1>1. c \in Int  BY CenterType
<1>2. m \in Int /\ n \in Int /\ m <= n  BY AxisGrows
<1> HIDE DEF c, m, n
<1>3. c + m \in Int /\ c + n \in Int /\ c + m <= c + n  BY <1>1, <1>2
<1>4. ToSubPx(c + m) <= ToSubPx(c + n)  BY <1>3, SubPxGrows
<1> QED BY <1>4 DEF Across, c, m, n

LEMMA DownFalls ==
  ASSUME NEW a \in Int, NEW b \in Int, a <= b, NEW inv \in Nat, NEW y \in Int, NEW e \in Extents,
         OnAxis(a, inv, e), OnAxis(b, inv, e)
  PROVE  /\ Down(a, inv, y, e) \in Int /\ Down(b, inv, y, e) \in Int
         /\ Down(b, inv, y, e) <= Down(a, inv, y, e)
<1> DEFINE c == Center(y, e)
           m == FxMul(FxMul(a, inv), Half(e))
           n == FxMul(FxMul(b, inv), Half(e))
<1>1. c \in Int  BY CenterType
<1>2. m \in Int /\ n \in Int /\ m <= n  BY AxisGrows
<1> HIDE DEF c, m, n
<1>3. c - m \in Int /\ c - n \in Int /\ c - n <= c - m  BY <1>1, <1>2
<1>4. /\ ToSubPx(c - m) \in Int /\ ToSubPx(c - n) \in Int
      /\ ToSubPx(c - n) <= ToSubPx(c - m)
  BY <1>3, SubPxGrows, SubPxType
<1> QED BY <1>4 DEF Down, c, m, n

LEMMA AcrossMiddle ==
  ASSUME NEW inv \in Int, NEW x \in Int, NEW e \in Extents
  PROVE  Across(0, inv, x, e) = ToSubPx(Center(x, e))
<1>1. FxMul(0, inv) = 0  BY MulNothing
<1>2. FxMul(FxMul(0, inv), Half(e)) = 0  BY <1>1, HalfType, MulNothing
<1>3. Center(x, e) + 0 = Center(x, e)  BY CenterType
<1> QED BY <1>2, <1>3 DEF Across

LEMMA FitsIs ==
  ASSUME NEW a
  PROVE  Fits(a) <=> /\ OnAxis(a.x, FxDiv(FxOne, a.w), Viewport.w)
                     /\ OnAxis(a.y, FxDiv(FxOne, a.w), Viewport.h)
BY DEF Fits, OnAxis, FitsWord

LEMMA InFrontOnly ==
  ASSUME GivenInv, Task("project"), given[2].w > 0
  PROVE  InvW(given[2]) < 0 <=> given[2].w = 2
<1> DEFINE w == given[2].w
<1>1. w \in Int  BY KernelAssumption DEF GivenInv
<1>2. InvW(given[2]) = FxDiv(FxOne, w)  BY <1>1 DEF InvW
<1> HIDE DEF w
<1>3. w > 0  BY DEF w
<1>4. FxDiv(FxOne, w) < 0 <=> w = 2  BY <1>1, <1>3, SentinelIs
<1> QED BY <1>2, <1>4 DEF w

LEMMA OrderIsKept ==
  ASSUME GivenInv, Task("project"), given[2].w > 2, given[3].w > 2
  PROVE  LET a == given[2]
             b == given[3]
             pa == Projected(a, Viewport)
             pb == Projected(b, Viewport)
         IN  /\ InvW(a) = pa.inv_w
             /\ a.w <= b.w =>
                  /\ pa.inv_w >= pb.inv_w
                  /\ \A z \in {pa.inv_w - 1, pa.inv_w, pb.inv_w} :
                       LessZ(b, z) => LessZ(a, z)
                  /\ FogU8(FxHalf, 3 * FxOne, a.w) <= FogU8(FxHalf, 3 * FxOne, b.w)
             /\ a.w = b.w /\ Fits(a) /\ Fits(b) =>
                  /\ a.x <= b.x => pa.x <= pb.x
                  /\ a.y <= b.y => pa.y >= pb.y
             /\ a.x = 0 => pa.x = ToSubPx(Center(Viewport.x, Viewport.w))
<1> DEFINE a == given[2]
           b == given[3]
           vp == Viewport
           pa == Projected(a, vp)
           pb == Projected(b, vp)
           ia == FxDiv(FxOne, a.w)
           ib == FxDiv(FxOne, b.w)
<1>1. a \in ClipPoint /\ b \in ClipPoint /\ a.w > 2 /\ b.w > 2  BY DEF GivenInv
<1> HIDE DEF a, b
<1>2. a.x \in Int /\ a.y \in Int /\ a.w \in Int /\ b.x \in Int /\ b.y \in Int /\ b.w \in Int
  BY <1>1, KernelAssumption
<1>3. vp.x \in Int /\ vp.y \in Int /\ vp.w \in Extents /\ vp.h \in Extents
  BY KernelAssumption DEF Extents
<1>4. ia \in Nat /\ ib \in Nat  BY <1>1, <1>2, InverseIs
<1>5. /\ pa.inv_w = ia /\ pa.x = Across(a.x, ia, vp.x, vp.w) /\ pa.y = Down(a.y, ia, vp.y, vp.h)
      /\ pb.inv_w = ib /\ pb.x = Across(b.x, ib, vp.x, vp.w) /\ pb.y = Down(b.y, ib, vp.y, vp.h)
  BY DEF Projected
<1>6. InvW(a) = ia  BY <1>1, <1>2 DEF InvW
<1>7. \A z : (LessZ(a, z) <=> ia > z) /\ (LessZ(b, z) <=> ib > z)
  BY <1>1, <1>2 DEF LessZ
<1>8. (Fits(a) => OnAxis(a.x, ia, vp.w) /\ OnAxis(a.y, ia, vp.h))
      /\ (Fits(b) => OnAxis(b.x, ib, vp.w) /\ OnAxis(b.y, ib, vp.h))
  BY FitsIs
<1> HIDE DEF pa, pb, ia, ib, vp
<1>9. ASSUME a.w <= b.w
      PROVE  /\ pa.inv_w >= pb.inv_w
             /\ \A z \in {pa.inv_w - 1, pa.inv_w, pb.inv_w} : LessZ(b, z) => LessZ(a, z)
             /\ FogU8(FxHalf, 3 * FxOne, a.w) <= FogU8(FxHalf, 3 * FxOne, b.w)
  <2>1. ib <= ia  BY <1>1, <1>2, <1>9, NearerIsGreater DEF ia, ib
  <2>2. \A z \in Int : ib > z => ia > z  BY <1>4, <2>1
  <2>3. \A z \in {pa.inv_w - 1, pa.inv_w, pb.inv_w} : z \in Int  BY <1>4, <1>5
  <2>4. \A z \in {pa.inv_w - 1, pa.inv_w, pb.inv_w} : LessZ(b, z) => LessZ(a, z)
    BY <1>7, <2>2, <2>3
  <2>5. FogU8(FxHalf, 3 * FxOne, a.w) <= FogU8(FxHalf, 3 * FxOne, b.w)
    BY <1>2, <1>9, FogU8Grows
  <2> QED BY <1>4, <1>5, <2>1, <2>4, <2>5
<1>10. ASSUME a.w = b.w, Fits(a), Fits(b)
       PROVE  (a.x <= b.x => pa.x <= pb.x) /\ (a.y <= b.y => pa.y >= pb.y)
  <2>1. ib = ia  BY <1>10 DEF ia, ib
  <2>2. /\ OnAxis(a.x, ia, vp.w) /\ OnAxis(a.y, ia, vp.h)
        /\ OnAxis(b.x, ia, vp.w) /\ OnAxis(b.y, ia, vp.h)
    BY <1>8, <1>10, <2>1
  <2>3. ASSUME a.x <= b.x PROVE pa.x <= pb.x
    <3>1. Across(a.x, ia, vp.x, vp.w) <= Across(b.x, ia, vp.x, vp.w)
      BY <1>2, <1>3, <1>4, <2>2, <2>3, AcrossGrows
    <3> QED BY <1>5, <2>1, <3>1
  <2>4. ASSUME a.y <= b.y PROVE pa.y >= pb.y
    <3>1. Down(b.y, ia, vp.y, vp.h) <= Down(a.y, ia, vp.y, vp.h)
      BY <1>2, <1>3, <1>4, <2>2, <2>4, DownFalls
    <3>2. pb.y <= pa.y  BY <1>5, <2>1, <3>1
    <3>3. pa.y \in Int /\ pb.y \in Int
      BY <1>2, <1>3, <1>4, <1>5, <2>1, <2>2, <2>4, DownFalls
    <3> QED BY <3>2, <3>3
  <2> QED BY <2>3, <2>4
<1>11. a.x = 0 => pa.x = ToSubPx(Center(vp.x, vp.w))
  BY <1>3, <1>4, <1>5, AcrossMiddle
<1> QED BY <1>4, <1>5, <1>6, <1>9, <1>10, <1>11 DEF a, b, pa, pb, vp

(* geom.cc, fixed.cc: for any word, viewport and vertices, a vertex in     *)
(* front is taken for one behind the viewer at two units of the last place *)
(* and nowhere else; of two farther than that the nearer has the greater   *)
(* 1/w, the farther has no less fog, and one depth keeps its order on the  *)
(* screen, as long as the products fit the words.                          *)
THEOREM OrderOnScreen == Spec => []ProjectionKeepsOrder
<1>1. GivenInv => ProjectionKeepsOrder
  BY InFrontOnly, OrderIsKept DEF ProjectionKeepsOrder
<1> QED BY <1>1, GivenInductive, PTL
=============================================================================
