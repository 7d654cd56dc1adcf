---------------------------- MODULE TriRasterProof ----------------------------
(***************************************************************************)
(* Proofs about TriRaster, for any tiles, subpixel resolution and meshes:  *)
(* the stepper of interp.h gives the truncated quotient at every pixel,    *)
(* with remainders that stay in range; drawing by tiles, each from its own *)
(* bin, is drawing the whole; two triangles on either side of an edge      *)
(* never share a pixel centre of it; and a mesh without overlaps and       *)
(* slivers has neither gaps nor double cover.                              *)
(***************************************************************************)
EXTENDS TriRaster, SequenceTheorems, TLAPS

(* Arithmetic the solver is led through once. *)
LEMMA MulAtLeast ==
  ASSUME NEW b \in Nat \ {0}, NEW k \in Int, k >= 1 PROVE b * k >= b
<1>1. b * k = b + b * (k - 1)  OBVIOUS
<1>2. b * (k - 1) >= 0  OBVIOUS
<1> QED BY <1>1, <1>2

LEMMA QuotientUnique ==
  ASSUME NEW b \in Nat \ {0}, NEW q \in Int, NEW r \in Int, 0 <= r, r < b,
         NEW n \in Int, n = q * b + r
  PROVE  n \div b = q
<1> DEFINE d == n \div b
           m == n % b
<1>1. d \in Int /\ m \in Int /\ 0 <= m /\ m < b /\ n = b * d + m
  OBVIOUS
<1> HIDE DEF d, m
<1>2. b * (q - d) = m - r /\ b * (d - q) = r - m
  BY <1>1
<1>3. ~(q - d >= 1)
  BY <1>1, <1>2, MulAtLeast
<1>4. ~(d - q >= 1)
  BY <1>1, <1>2, MulAtLeast
<1>5. d = q  BY <1>1, <1>3, <1>4
<1> QED BY <1>5 DEF d

LEMMA TruncatedQuotient ==
  ASSUME NEW b \in Nat \ {0}, NEW q \in Int, NEW r \in Int, 0 <= r, r < b,
         NEW n \in Int, n = q * b + r
  PROVE  CDiv(n, b) = IF q < 0 /\ r # 0 THEN q + 1 ELSE q
<1>1. CASE q >= 0
  <2>1. q * b >= 0  BY <1>1
  <2>2. n >= 0 /\ n \div b = q  BY <2>1, QuotientUnique
  <2> QED BY <1>1, <2>2 DEF CDiv
<1>2. CASE q < 0
  <2>1. b * (-q) >= b  BY <1>2, MulAtLeast
  <2>2. n < 0  BY <2>1
  <2>3. CASE r = 0
    <3>1. -n = (-q) * b + 0  BY <2>3
    <3>2. (-n) \div b = -q  BY <3>1, QuotientUnique
    <3> QED BY <1>2, <2>2, <2>3, <3>2 DEF CDiv
  <2>4. CASE r # 0
    <3>1. -n = (-q - 1) * b + (b - r)  OBVIOUS
    <3>2. (-n) \div b = -q - 1  BY <2>4, <3>1, QuotientUnique
    <3> QED BY <1>2, <2>2, <2>4, <3>2 DEF CDiv
  <2> QED BY <2>3, <2>4
<1> QED BY <1>1, <1>2

LEMMA CDivType ==
  ASSUME NEW n \in Int, NEW b \in Nat \ {0}
  PROVE  /\ CDiv(n, b) \in Int
         /\ n - CDiv(n, b) * b \in Int
         /\ n - CDiv(n, b) * b < b /\ -b < n - CDiv(n, b) * b
<1>1. CASE n < 0
  <2> DEFINE d == (-n) \div b
             m == (-n) % b
  <2>1. d \in Int /\ m \in Int /\ 0 <= m /\ m < b /\ -n = b * d + m
    OBVIOUS
  <2>2. CDiv(n, b) = -d  BY <1>1 DEF CDiv
  <2> HIDE DEF d, m
  <2>3. n - (-d) * b = -m  BY <2>1
  <2> QED BY <2>1, <2>2, <2>3
<1>2. CASE n >= 0
  <2> DEFINE d == n \div b
             m == n % b
  <2>1. d \in Int /\ m \in Int /\ 0 <= m /\ m < b /\ n = b * d + m
    OBVIOUS
  <2>2. CDiv(n, b) = d  BY <1>2 DEF CDiv
  <2> HIDE DEF d, m
  <2>3. n - d * b = m  BY <2>1
  <2> QED BY <2>1, <2>2, <2>3
<1> QED BY <1>1, <1>2

(* floor_divmod: the remainder is never negative, so a step carries at     *)
(* most once.                                                              *)
LEMMA FloorDivmodExact ==
  ASSUME NEW n \in Int, NEW b \in Nat \ {0}
  PROVE  LET d == FloorDivmod(n, b)
         IN  d \in Divmod /\ d.r < b /\ At(d, b) = n
<1> DEFINE q == CDiv(n, b)
           rem == n - q * b
<1>1. q \in Int /\ rem \in Int /\ rem < b /\ -b < rem  BY CDivType
<1>2. n = q * b + rem  BY <1>1
<1>3. FloorDivmod(n, b) =
        IF rem < 0 THEN [q |-> q - 1, r |-> rem + b] ELSE [q |-> q, r |-> rem]
  BY DEF FloorDivmod
<1> HIDE DEF q, rem
<1>4. n = (q - 1) * b + (rem + b)  BY <1>1, <1>2
<1>5. CASE rem < 0
  BY <1>1, <1>3, <1>4, <1>5 DEF Divmod, At
<1>6. CASE rem >= 0
  BY <1>1, <1>2, <1>3, <1>6 DEF Divmod, At
<1> QED BY <1>1, <1>5, <1>6

LEMMA CarryExact ==
  ASSUME NEW b \in Nat \ {0}, NEW v \in Divmod, v.r < b, NEW s \in Divmod, s.r < b
  PROVE  /\ Carry(v, s, b) \in Divmod /\ Carry(v, s, b).r < b
         /\ At(Carry(v, s, b), b) = At(v, b) + At(s, b)
<1>0. v.q \in Int /\ s.q \in Int /\ v.r \in Nat /\ s.r \in Nat  BY DEF Divmod
<1>1. /\ (v.q + s.q + 1) * b + (v.r + s.r - b) = (v.q * b + v.r) + (s.q * b + s.r)
      /\ (v.q + s.q) * b + (v.r + s.r) = (v.q * b + v.r) + (s.q * b + s.r)
  BY <1>0
<1>2. CASE v.r + s.r >= b
  BY <1>0, <1>1, <1>2 DEF Carry, At, Divmod
<1>3. CASE ~(v.r + s.r >= b)
  BY <1>0, <1>1, <1>3 DEF Carry, At, Divmod
<1> QED BY <1>2, <1>3

-----------------------------------------------------------------------------
(* Triangles *)

LEMMA Linear ==
  ASSUME NEW dx \in Int, NEW dy \in Int, NEW ax \in Int, NEW ay \in Int,
         NEW px \in Int, NEW py \in Int, NEW s \in Int
  PROVE  /\ dx * (py - ay) - dy * (px + s - ax) = dx * (py - ay) - dy * (px - ax) - dy * s
         /\ dx * (py + s - ay) - dy * (px - ax) = dx * (py - ay) - dy * (px - ax) + dx * s
  OBVIOUS

LEMMA EdgeSteps ==
  ASSUME NEW a \in Vertex, NEW b \in Vertex, NEW x \in Int, NEW y \in Int
  PROVE  /\ EdgeEval(a, b, Center(<<x, y>>)) \in Int
         /\ EdgeEval(a, b, Center(<<x + 1, y>>)) =
              EdgeEval(a, b, Center(<<x, y>>)) + (a.y - b.y) * Sub
         /\ EdgeEval(a, b, Center(<<x, y + 1>>)) =
              EdgeEval(a, b, Center(<<x, y>>)) + (b.x - a.x) * Sub
<1>1. a.x \in Int /\ a.y \in Int /\ b.x \in Int /\ b.y \in Int /\ Sub \in Int
  BY SubAssumption DEF Vertex
<1>2. Half \in Int
  BY SubAssumption DEF Half
<1> DEFINE dx == b.x - a.x
           dy == b.y - a.y
           px == x * Sub + Half
           py == y * Sub + Half
<1>3. dx \in Int /\ dy \in Int /\ px \in Int /\ py \in Int
  BY <1>1, <1>2
<1>4. (x + 1) * Sub + Half = px + Sub /\ (y + 1) * Sub + Half = py + Sub
  BY <1>1, <1>2
<1>5. /\ EdgeEval(a, b, Center(<<x, y>>)) = dx * (py - a.y) - dy * (px - a.x)
      /\ EdgeEval(a, b, Center(<<x + 1, y>>)) = dx * (py - a.y) - dy * (px + Sub - a.x)
      /\ EdgeEval(a, b, Center(<<x, y + 1>>)) = dx * (py + Sub - a.y) - dy * (px - a.x)
  <2>1. /\ Center(<<x, y>>).x = px /\ Center(<<x, y>>).y = py
        /\ Center(<<x + 1, y>>).x = px + Sub /\ Center(<<x + 1, y>>).y = py
        /\ Center(<<x, y + 1>>).x = px /\ Center(<<x, y + 1>>).y = py + Sub
    BY <1>4 DEF Center
  <2>2. \A p : EdgeEval(a, b, p) = dx * (p.y - a.y) - dy * (p.x - a.x)
    BY DEF EdgeEval
  <2> HIDE DEF dx, dy, px, py
  <2>3. EdgeEval(a, b, Center(<<x, y>>)) = dx * (py - a.y) - dy * (px - a.x)
    BY <1>1, <1>3, <2>1, <2>2
  <2>4. EdgeEval(a, b, Center(<<x + 1, y>>)) = dx * (py - a.y) - dy * (px + Sub - a.x)
    BY <1>1, <1>3, <2>1, <2>2
  <2>5. EdgeEval(a, b, Center(<<x, y + 1>>)) = dx * (py + Sub - a.y) - dy * (px - a.x)
    BY <1>1, <1>3, <2>1, <2>2
  <2> QED BY <2>3, <2>4, <2>5
<1>6. (a.y - b.y) * Sub = -(dy * Sub) /\ (b.x - a.x) * Sub = dx * Sub
  BY <1>1
<1>7. dx * (py - a.y) - dy * (px - a.x) \in Int /\ dy * Sub \in Int /\ dx * Sub \in Int
  BY <1>1, <1>3
<1> HIDE DEF dx, dy, px, py
<1>8. /\ dx * (py - a.y) - dy * (px + Sub - a.x) =
            dx * (py - a.y) - dy * (px - a.x) - dy * Sub
      /\ dx * (py + Sub - a.y) - dy * (px - a.x) =
            dx * (py - a.y) - dy * (px - a.x) + dx * Sub
  BY <1>1, <1>3, Linear
<1> QED BY <1>5, <1>6, <1>7, <1>8

LEMMA Weighted ==
  ASSUME NEW e1 \in Int, NEW e2 \in Int, NEW e3 \in Int,
         NEW s1 \in Int, NEW s2 \in Int, NEW s3 \in Int,
         NEW q1 \in Int, NEW q2 \in Int, NEW q3 \in Int
  PROVE  (e1 + s1) * q1 + (e2 + s2) * q2 + (e3 + s3) * q3 =
           (e1 * q1 + e2 * q2 + e3 * q3) + (s1 * q1 + s2 * q2 + s3 * q3)
  OBVIOUS

LEMMA TriangleType ==
  ASSUME NEW v \in Triangle
  PROVE  /\ v[1] \in Vertex /\ v[2] \in Vertex /\ v[3] \in Vertex
         /\ \A i \in 1 .. 3 : v[i].x \in Int /\ v[i].y \in Int /\ v[i].q \in Int
  BY DEF Triangle, Vertex

(* The numerator is affine in the pixel: edge_affine_init's deltas.        *)
LEMMA NumSteps ==
  ASSUME NEW v \in Triangle, NEW x \in Int, NEW y \in Int
  PROVE  /\ Num(v, <<x, y>>) \in Int /\ StepOfX(v) \in Int /\ StepOfY(v) \in Int
         /\ Num(v, <<x + 1, y>>) = Num(v, <<x, y>>) + StepOfX(v)
         /\ Num(v, <<x, y + 1>>) = Num(v, <<x, y>>) + StepOfY(v)
<1> DEFINE E(i, j, p) == EdgeEval(v[i], v[j], Center(p))
<1>1. /\ v[1] \in Vertex /\ v[2] \in Vertex /\ v[3] \in Vertex
      /\ \A i \in 1 .. 3 : v[i].x \in Int /\ v[i].y \in Int /\ v[i].q \in Int
      /\ Sub \in Int
  BY TriangleType, SubAssumption
<1>2. \A i, j \in 1 .. 3 :
        /\ E(i, j, <<x, y>>) \in Int
        /\ E(i, j, <<x + 1, y>>) = E(i, j, <<x, y>>) + (v[i].y - v[j].y) * Sub
        /\ E(i, j, <<x, y + 1>>) = E(i, j, <<x, y>>) + (v[j].x - v[i].x) * Sub
        /\ (v[i].y - v[j].y) * Sub \in Int /\ (v[j].x - v[i].x) * Sub \in Int
  <2> TAKE i, j \in 1 .. 3
  <2>1. v[i] \in Vertex /\ v[j] \in Vertex  BY <1>1
  <2>2. (v[i].y - v[j].y) * Sub \in Int /\ (v[j].x - v[i].x) * Sub \in Int
    BY <1>1
  <2> QED BY <2>1, <2>2, EdgeSteps
<1>3. \A p : Num(v, p) = E(2, 3, p) * v[1].q + E(3, 1, p) * v[2].q + E(1, 2, p) * v[3].q
  BY DEF Num
<1> HIDE DEF E
<1>4. Num(v, <<x, y>>) \in Int
  BY <1>1, <1>2, <1>3
<1> DEFINE S(i, j) == (v[i].y - v[j].y) * Sub
           T(i, j) == (v[j].x - v[i].x) * Sub
           q1 == v[1].q
           q2 == v[2].q
           q3 == v[3].q
<1>a. /\ StepOfX(v) = S(2, 3) * q1 + S(3, 1) * q2 + S(1, 2) * q3
      /\ StepOfY(v) = T(2, 3) * q1 + T(3, 1) * q2 + T(1, 2) * q3
  BY DEF StepOfX, StepOfY
<1>b. q1 \in Int /\ q2 \in Int /\ q3 \in Int
  BY <1>1
<1>c. \A i, j \in 1 .. 3 :
        /\ E(i, j, <<x, y>>) \in Int /\ S(i, j) \in Int /\ T(i, j) \in Int
        /\ E(i, j, <<x + 1, y>>) = E(i, j, <<x, y>>) + S(i, j)
        /\ E(i, j, <<x, y + 1>>) = E(i, j, <<x, y>>) + T(i, j)
  BY <1>2
<1>d. \A p : Num(v, p) = E(2, 3, p) * q1 + E(3, 1, p) * q2 + E(1, 2, p) * q3
  BY <1>3
<1> HIDE DEF S, T, q1, q2, q3
<1>5. Num(v, <<x + 1, y>>) = Num(v, <<x, y>>) + StepOfX(v)
  <2> DEFINE e1 == E(2, 3, <<x, y>>)
             e2 == E(3, 1, <<x, y>>)
             e3 == E(1, 2, <<x, y>>)
  <2>1. e1 \in Int /\ e2 \in Int /\ e3 \in Int
        /\ S(2, 3) \in Int /\ S(3, 1) \in Int /\ S(1, 2) \in Int
    BY <1>c
  <2>2. Num(v, <<x + 1, y>>) =
          (e1 + S(2, 3)) * q1 + (e2 + S(3, 1)) * q2 + (e3 + S(1, 2)) * q3
    BY <1>c, <1>d
  <2>3. Num(v, <<x, y>>) = e1 * q1 + e2 * q2 + e3 * q3
    BY <1>d
  <2> HIDE DEF e1, e2, e3
  <2> QED BY <1>a, <1>b, <2>1, <2>2, <2>3, Weighted
<1>6. Num(v, <<x, y + 1>>) = Num(v, <<x, y>>) + StepOfY(v)
  <2> DEFINE e1 == E(2, 3, <<x, y>>)
             e2 == E(3, 1, <<x, y>>)
             e3 == E(1, 2, <<x, y>>)
  <2>1. e1 \in Int /\ e2 \in Int /\ e3 \in Int
        /\ T(2, 3) \in Int /\ T(3, 1) \in Int /\ T(1, 2) \in Int
    BY <1>c
  <2>2. Num(v, <<x, y + 1>>) =
          (e1 + T(2, 3)) * q1 + (e2 + T(3, 1)) * q2 + (e3 + T(1, 2)) * q3
    BY <1>c, <1>d
  <2>3. Num(v, <<x, y>>) = e1 * q1 + e2 * q2 + e3 * q3
    BY <1>d
  <2> HIDE DEF e1, e2, e3
  <2> QED BY <1>a, <1>b, <2>1, <2>2, <2>3, Weighted
<1>7. StepOfX(v) \in Int /\ StepOfY(v) \in Int
  BY <1>1 DEF StepOfX, StepOfY
<1> QED BY <1>4, <1>5, <1>6, <1>7

LEMMA SwapArea ==
  ASSUME NEW ax \in Int, NEW ay \in Int, NEW bx \in Int, NEW by \in Int,
         NEW cx \in Int, NEW cy \in Int
  PROVE  (cx - ax) * (by - ay) - (cy - ay) * (bx - ax) =
           -((bx - ax) * (cy - ay) - (by - ay) * (cx - ax))
  OBVIOUS

(* tri_setup: a triangle it keeps comes out with positive area.            *)
LEMMA WoundPositive ==
  ASSUME NEW v \in Triangle
  PROVE  /\ Wound(v) \in Triangle
         /\ ~Degenerate(v) => Area2(Wound(v)) \in Nat \ {0}
<1>1. /\ v[1] \in Vertex /\ v[2] \in Vertex /\ v[3] \in Vertex
      /\ \A i \in 1 .. 3 : v[i].x \in Int /\ v[i].y \in Int
  BY TriangleType
<1>2. Area2(v) \in Int /\ Area2(<<v[1], v[3], v[2]>>) = -Area2(v)
  BY <1>1, SwapArea DEF Area2, EdgeEval
<1>3. AreaEps \in Nat
  BY SubAssumption DEF AreaEps
<1>4. Wound(v) \in Triangle
  BY <1>1 DEF Wound, Triangle
<1>5. ASSUME ~Degenerate(v) PROVE Area2(Wound(v)) \in Nat \ {0}
  BY <1>2, <1>3, <1>5 DEF Degenerate, Abs, Wound
<1> QED BY <1>4, <1>5

-----------------------------------------------------------------------------
(* The steps *)

InterpType == [row : Divmod, cur : Divmod, sx : Divmod, sy : Divmod, area2 : Nat \ {0}]
Bounded(p) == p.row.r < p.area2 /\ p.cur.r < p.area2 /\ p.sx.r < p.area2 /\ p.sy.r < p.area2

LEMMA InterpSetupExact ==
  ASSUME NEW v \in Triangle, Area2(v) \in Nat \ {0}, NEW x \in Int, NEW y \in Int
  PROVE  LET p == InterpSetup(v, <<x, y>>)
         IN  /\ p \in InterpType /\ Bounded(p) /\ p.area2 = Area2(v)
             /\ At(p.row, p.area2) = Num(v, <<x - 1, y>>)
             /\ At(p.sx, p.area2) = StepOfX(v) /\ At(p.sy, p.area2) = StepOfY(v)
<1> DEFINE b == Area2(v)
           n == Num(v, <<x, y>>) - StepOfX(v)
           p == InterpSetup(v, <<x, y>>)
<1>1. x - 1 \in Int /\ (x - 1) + 1 = x
  OBVIOUS
<1>2. Num(v, <<x, y>>) = Num(v, <<x - 1, y>>) + StepOfX(v)
      /\ Num(v, <<x - 1, y>>) \in Int /\ StepOfX(v) \in Int /\ StepOfY(v) \in Int
  <2>1. Num(v, <<(x - 1) + 1, y>>) = Num(v, <<x - 1, y>>) + StepOfX(v)
        /\ Num(v, <<x - 1, y>>) \in Int /\ StepOfX(v) \in Int /\ StepOfY(v) \in Int
    BY <1>1, NumSteps
  <2> QED BY <1>1, <2>1
<1>3. n = Num(v, <<x - 1, y>>) /\ n \in Int
  BY <1>2
<1>4. p = [row |-> FloorDivmod(n, b), cur |-> FloorDivmod(n, b),
           sx |-> FloorDivmod(StepOfX(v), b), sy |-> FloorDivmod(StepOfY(v), b), area2 |-> b]
  BY DEF InterpSetup, InterpInit
<1> HIDE DEF n, b, p
<1>5. \A a \in Int : /\ FloorDivmod(a, b) \in Divmod /\ FloorDivmod(a, b).r < b
                     /\ At(FloorDivmod(a, b), b) = a
  BY FloorDivmodExact DEF b
<1>6. p \in InterpType /\ Bounded(p) /\ p.area2 = b
  BY <1>2, <1>3, <1>4, <1>5 DEF InterpType, Bounded, b
<1>7. At(p.row, p.area2) = n /\ At(p.sx, p.area2) = StepOfX(v)
      /\ At(p.sy, p.area2) = StepOfY(v)
  BY <1>2, <1>3, <1>4, <1>5
<1> QED BY <1>3, <1>6, <1>7 DEF p, b

(* The readout is the truncated quotient of what the stepper stands for.    *)
LEMMA InterpValueExact ==
  ASSUME NEW p \in InterpType, p.cur.r < p.area2
  PROVE  InterpValue(p) = CDiv(At(p.cur, p.area2), p.area2) /\ InterpValue(p) \in Int
<1>1. p.area2 \in Nat \ {0} /\ p.cur.q \in Int /\ p.cur.r \in Int
      /\ 0 <= p.cur.r /\ p.cur.r < p.area2
  BY DEF InterpType, Divmod
<1>2. At(p.cur, p.area2) \in Int /\ At(p.cur, p.area2) = p.cur.q * p.area2 + p.cur.r
  BY <1>1 DEF At
<1>3. CDiv(At(p.cur, p.area2), p.area2) =
        IF p.cur.q < 0 /\ p.cur.r # 0 THEN p.cur.q + 1 ELSE p.cur.q
  BY <1>1, <1>2, TruncatedQuotient
<1> QED BY <1>1, <1>3 DEF InterpValue

LEMMA ClampiType ==
  ASSUME NEW c \in Int, NEW lo \in Nat, NEW hi \in Nat PROVE Clampi(c, lo, hi) \in Nat
  BY DEF Clampi, Least

LEMMA BoxType ==
  ASSUME tile \in 0 .. Tiles - 1, NEW v \in Triangle
  PROVE  Box(v) \in [x0 : Nat, x1 : Nat, y0 : Nat, y1 : Nat]
<1>1. tile \in Nat
  BY TilesAssumption DEF Tiles
<1>2. tile % TilesX \in Nat /\ tile \div TilesX \in Nat
  BY <1>1, TilesAssumption
<1>3. OriginX \in Nat /\ OriginX + TileW \in Nat /\ OriginY \in Nat /\ OriginY + TileH \in Nat
  BY <1>2, TilesAssumption DEF OriginX, OriginY
<1>4. MinX(v) \in Int /\ MaxX(v) \in Int /\ MinY(v) \in Int /\ MaxY(v) \in Int
  BY TriangleType DEF MinX, MaxX, MinY, MaxY, Least, Greatest
<1>5. /\ MinX(v) \div Sub \in Int /\ (MaxX(v) + Sub - 1) \div Sub \in Int
      /\ MinY(v) \div Sub \in Int /\ (MaxY(v) + Sub - 1) \div Sub \in Int
  BY <1>4, SubAssumption
<1> QED BY <1>3, <1>5, ClampiType DEF Box, PixelBounds, ToTileX, ToTileY

LEMMA MeshType ==
  ASSUME TypeOK, NEW k \in DOMAIN mesh PROVE mesh[k] \in Triangle /\ k \in Nat \ {0}
<1>1. mesh \in Seq(Triangle)
  BY MeshesAssumption DEF TypeOK
<1> QED BY <1>1

LEMMA InvInit == Init => IInv
<1> SUFFICES ASSUME Init PROVE IInv
  OBVIOUS
<1>1. Tiles \in Nat /\ Tiles \in 0 .. Tiles
  BY TilesAssumption DEF Tiles
<1>2. NoTri \in Triangle /\ NoStep \in Divmod
  BY DEF NoTri, Triangle, Vertex, NoStep, Divmod
<1>3. TypeOK
  BY <1>1, <1>2 DEF Init, TypeOK, NoBox, NoInterp, NoStep, NoFragments, Fragment
<1>4. Drawing /\ Stepping
  BY DEF Init, Drawing, Stepping
<1>5. FragmentsExact
  BY DEF Init, FragmentsExact, NoFragments
<1> QED BY <1>3, <1>4, <1>5 DEF IInv

(* Steps that leave the fragments and the mesh alone.                      *)
LEMMA FragmentsKept ==
  FragmentsExact /\ UNCHANGED <<mesh, frags>> => FragmentsExact'
  BY DEF FragmentsExact

LEMMA TriSetupInv ==
  ASSUME IInv, TriSetup PROVE IInv'
<1> USE DEF IInv
<1>1. tile \in 0 .. Tiles - 1 /\ job \in DOMAIN mesh
  BY TilesAssumption DEF TriSetup, TypeOK, Tiles
<1>2. mesh[job] \in Triangle
  BY <1>1, MeshType
<1>3. t' = Wound(mesh[job]) /\ t' \in Triangle /\ Area2(t') \in Nat \ {0}
  BY <1>2, WoundPositive DEF TriSetup
<1>4. box' = Box(t') /\ box' \in [x0 : Nat, x1 : Nat, y0 : Nat, y1 : Nat]
  BY <1>1, <1>3, BoxType DEF TriSetup
<1>5. box'.x0 \in Int /\ box'.y0 \in Int
  BY <1>4
<1>6. /\ ip' \in InterpType /\ Bounded(ip') /\ ip'.area2 = Area2(t')
      /\ At(ip'.row, ip'.area2) = Num(t', <<box'.x0 - 1, box'.y0>>)
      /\ At(ip'.sx, ip'.area2) = StepOfX(t') /\ At(ip'.sy, ip'.area2) = StepOfY(t')
  BY <1>3, <1>5, InterpSetupExact DEF TriSetup
<1>7. TypeOK'
  BY <1>3, <1>4, <1>6 DEF TriSetup, TypeOK, InterpType, Bounded
<1>8. Drawing'
  BY <1>1, <1>3 DEF TriSetup, Drawing, TypeOK
<1>9. Stepping'
  BY <1>6 DEF TriSetup, Stepping
<1>10. FragmentsExact'
  BY FragmentsKept DEF TriSetup
<1> QED BY <1>7, <1>8, <1>9, <1>10

(* interp_begin_row: the row's stepper moves down one scanline.            *)
LEMMA BeginRowInv ==
  ASSUME IInv, BeginRow PROVE IInv'
<1> USE DEF IInv
<1>1. /\ ip \in InterpType /\ Bounded(ip) /\ t \in Triangle
      /\ box.x0 \in Nat /\ sy \in Nat
  BY DEF TypeOK, InterpType, Bounded
<1>2. /\ At(ip.sy, ip.area2) = StepOfY(t)
      /\ At(ip.row, ip.area2) = Num(t, <<box.x0 - 1, sy>>)
  BY DEF BeginRow, Stepping
<1> DEFINE row == Carry(ip.row, ip.sy, ip.area2)
<1>3. row \in Divmod /\ row.r < ip.area2
      /\ At(row, ip.area2) = At(ip.row, ip.area2) + At(ip.sy, ip.area2)
  BY <1>1, CarryExact DEF InterpType, Bounded
<1>4. At(row, ip.area2) = Num(t, <<box.x0 - 1, sy + 1>>)
  <2> HIDE DEF row
  <2>1. box.x0 - 1 \in Int /\ sy \in Int  BY <1>1
  <2>2. Num(t, <<box.x0 - 1, sy + 1>>) = Num(t, <<box.x0 - 1, sy>>) + StepOfY(t)
    BY <1>1, <2>1, NumSteps
  <2> QED BY <1>2, <1>3, <2>2
<1> HIDE DEF row
<1>5. ip' = [ip EXCEPT !.cur = ip.row, !.row = row]
  BY DEF BeginRow, InterpBeginRow, row
<1>6. /\ ip' \in InterpType /\ ip'.row = row /\ ip'.cur = ip.row
      /\ ip'.sx = ip.sx /\ ip'.sy = ip.sy /\ ip'.area2 = ip.area2
  BY <1>1, <1>3, <1>5 DEF InterpType
<1>7. TypeOK'
  BY <1>1, <1>3, <1>6 DEF BeginRow, TypeOK, InterpType
<1>8. Drawing'
  BY DEF BeginRow, Drawing
<1>9. Stepping'
  BY <1>2, <1>4, <1>6 DEF BeginRow, Stepping
<1>10. FragmentsExact'
  BY FragmentsKept DEF BeginRow
<1> QED BY <1>7, <1>8, <1>9, <1>10

(* interp_step_x, and the fragment of a pixel inside.                      *)
LEMMA StepInv ==
  ASSUME IInv, Step PROVE IInv'
<1> USE DEF IInv
<1>1. /\ ip \in InterpType /\ Bounded(ip) /\ t \in Triangle
      /\ sx \in Nat /\ sy \in Nat /\ frags \in [Pixel -> Seq(Fragment)]
  BY DEF TypeOK, InterpType, Bounded
<1>2. /\ job \in DOMAIN mesh /\ ~Degenerate(mesh[job]) /\ t = Wound(mesh[job])
      /\ ip.area2 = Area2(t)
      /\ At(ip.sx, ip.area2) = StepOfX(t)
      /\ At(ip.cur, ip.area2) = Num(t, <<sx - 1, sy>>)
  BY DEF Step, Stepping, Drawing
<1> DEFINE cur == Carry(ip.cur, ip.sx, ip.area2)
<1>3. cur \in Divmod /\ cur.r < ip.area2
      /\ At(cur, ip.area2) = At(ip.cur, ip.area2) + At(ip.sx, ip.area2)
  BY <1>1, CarryExact DEF InterpType, Bounded
<1>4. At(cur, ip.area2) = Num(t, <<sx, sy>>)
  <2>1. sx - 1 \in Int /\ sy \in Int /\ (sx - 1) + 1 = sx  BY <1>1
  <2>2. Num(t, <<(sx - 1) + 1, sy>>) = Num(t, <<sx - 1, sy>>) + StepOfX(t)
    BY <1>1, <2>1, NumSteps
  <2> QED BY <1>2, <1>3, <2>1, <2>2
<1> HIDE DEF cur
<1>5. ip' = [ip EXCEPT !.cur = cur]
  BY DEF Step, InterpStepX, cur
<1>6. /\ ip' \in InterpType /\ ip'.cur = cur /\ ip'.row = ip.row
      /\ ip'.sx = ip.sx /\ ip'.sy = ip.sy /\ ip'.area2 = ip.area2
  BY <1>1, <1>3, <1>5 DEF InterpType
<1>7. InterpValue(ip') \in Int /\ InterpValue(ip') = Value(mesh[job], <<sx, sy>>)
  BY <1>2, <1>3, <1>4, <1>6, InterpValueExact DEF Value
<1> DEFINE new == [tri |-> job, value |-> InterpValue(ip')]
<1>8. new \in Fragment
  BY <1>2, <1>7, MeshType DEF Fragment
<1>9. \/ UNCHANGED frags
      \/ /\ Inside(t, Center(<<sx, sy>>))
         /\ frags' = [frags EXCEPT ![<<sx, sy>>] = Append(@, new)]
  BY DEF Step
<1>10. UNCHANGED <<mesh, tile, job, pc, t, box, sy>> /\ sx' = sx + 1
  BY DEF Step
<1> HIDE DEF new
<1>11. frags' \in [Pixel -> Seq(Fragment)]
  <2>1. CASE UNCHANGED frags
    BY <1>1, <2>1
  <2>2. CASE frags' = [frags EXCEPT ![<<sx, sy>>] = Append(@, new)]
    <3>1. ASSUME <<sx, sy>> \in Pixel PROVE Append(frags[<<sx, sy>>], new) \in Seq(Fragment)
      BY <1>1, <1>8, <3>1
    <3> DEFINE extended == Append(frags[<<sx, sy>>], new)
    <3>2. frags' = [frags EXCEPT ![<<sx, sy>>] = extended]
      BY <2>2
    <3> HIDE DEF extended
    <3> QED BY <1>1, <3>1, <3>2 DEF extended
  <2> QED BY <1>9, <2>1, <2>2
<1>12. TypeOK'
  BY <1>1, <1>3, <1>6, <1>10, <1>11 DEF TypeOK, InterpType
<1>13. Drawing'
  BY <1>10 DEF Drawing
<1>14. Stepping'
  <2>1. sx' - 1 = sx  BY <1>1, <1>10
  <2> QED BY <1>4, <1>6, <1>10, <2>1 DEF Stepping, Step
<1>15. FragmentsExact'
  <2>1. CASE UNCHANGED frags
    BY <1>10, <2>1, FragmentsKept
  <2>2. CASE /\ Inside(t, Center(<<sx, sy>>))
             /\ frags' = [frags EXCEPT ![<<sx, sy>>] = Append(@, new)]
    <3> SUFFICES ASSUME NEW px \in Pixel, NEW i \in DOMAIN frags'[px]
                 PROVE  LET f == frags'[px][i]
                        IN  /\ f.tri \in DOMAIN mesh
                            /\ ~Degenerate(mesh[f.tri])
                            /\ Inside(Wound(mesh[f.tri]), Center(px))
                            /\ f.value = Value(mesh[f.tri], px)
      BY <1>10 DEF FragmentsExact
    <3>1. CASE i \in DOMAIN frags[px] /\ frags'[px][i] = frags[px][i]
      BY <3>1 DEF FragmentsExact
    <3>2. CASE px = <<sx, sy>> /\ frags'[px][i] = new
      BY <1>2, <1>7, <2>2, <3>2 DEF new
    <3>3. frags[px] \in Seq(Fragment)
      BY <1>1
    <3>4. CASE px = <<sx, sy>>
      <4>1. frags'[px] = Append(frags[px], new)
        BY <1>1, <2>2, <3>4
      <4>2. \/ i \in DOMAIN frags[px] /\ Append(frags[px], new)[i] = frags[px][i]
            \/ Append(frags[px], new)[i] = new
        BY <1>8, <3>3, <4>1
      <4> QED BY <3>1, <3>2, <3>4, <4>1, <4>2
    <3>5. CASE px # <<sx, sy>>
      BY <1>1, <2>2, <3>1, <3>5
    <3> QED BY <3>4, <3>5
  <2> QED BY <1>9, <2>1, <2>2
<1> QED BY <1>12, <1>13, <1>14, <1>15

LEMMA OtherInv ==
  ASSUME IInv, BeginFrame \/ Skip \/ EndRow \/ EndTri \/ NextTile \/ EndFrame
  PROVE  IInv'
<1> USE DEF IInv
<1>0. Tiles \in Nat \ {0} /\ mesh \in Seq(Triangle)
  <2>1. TilesX * TilesY >= TilesX
    BY TilesAssumption, MulAtLeast
  <2>2. Tiles \in Nat \ {0}
    BY <2>1, TilesAssumption DEF Tiles
  <2>3. mesh \in Meshes \cup {<<>>}
    BY DEF TypeOK
  <2>4. mesh \in Seq(Triangle)
    BY <2>3, MeshesAssumption, EmptySeq
  <2> QED BY <2>2, <2>4
<1>1. CASE BeginFrame
  <2>1. \A m \in Meshes : Len(m) \in Nat
    BY MeshesAssumption
  <2>2. TypeOK'
    BY <1>0, <1>1, <2>1 DEF BeginFrame, TypeOK, locals
  <2>3. Drawing' /\ Stepping'
    BY <1>0, <1>1 DEF BeginFrame, Drawing, Stepping
  <2>4. \A px \in Pixel : DOMAIN frags[px] = {}
    BY <1>1 DEF BeginFrame, FragmentsExact
  <2>5. FragmentsExact'
    BY <1>1, <2>4 DEF BeginFrame, FragmentsExact
  <2> QED BY <2>2, <2>3, <2>5
<1>2. CASE Skip
  <2>1. TypeOK'
    BY <1>0, <1>2 DEF Skip, TypeOK, locals
  <2>2. Drawing' /\ Stepping'
    BY <1>0, <1>2 DEF Skip, Drawing, Stepping, locals, TypeOK
  <2> QED BY <1>2, <2>1, <2>2, FragmentsKept DEF Skip
<1>3. CASE EndRow
  <2>1. TypeOK'
    BY <1>3 DEF EndRow, TypeOK
  <2>2. Drawing'
    BY <1>3 DEF EndRow, Drawing
  <2>3. Stepping'
    BY <1>3 DEF EndRow, Stepping
  <2> QED BY <1>3, <2>1, <2>2, <2>3, FragmentsKept DEF EndRow
<1>4. CASE EndTri
  <2>1. NoTri \in Triangle /\ NoStep \in Divmod
    BY DEF NoTri, Triangle, Vertex, NoStep, Divmod
  <2>2. job \in 1 .. Len(mesh)
    BY <1>0, <1>4 DEF EndTri, Drawing
  <2>3. TypeOK'
    BY <1>0, <1>4, <2>1, <2>2 DEF EndTri, TypeOK, NoBox, NoInterp, NoStep
  <2>4. Drawing' /\ Stepping'
    BY <1>0, <1>4 DEF EndTri, Drawing, Stepping
  <2> QED BY <1>4, <2>3, <2>4, FragmentsKept DEF EndTri
<1>5. CASE NextTile
  <2>1. TypeOK'
    BY <1>0, <1>5 DEF NextTile, TypeOK, locals
  <2>2. Drawing' /\ Stepping'
    BY <1>0, <1>5 DEF NextTile, Drawing, Stepping
  <2> QED BY <1>5, <2>1, <2>2, FragmentsKept DEF NextTile
<1>6. CASE EndFrame
  <2>1. job = 1
    BY <1>6 DEF EndFrame, Drawing
  <2>2. TypeOK'
    BY <1>0, <1>6, <2>1 DEF EndFrame, TypeOK, locals, NoFragments
  <2>3. Drawing' /\ Stepping'
    BY <1>0, <1>6, <2>1 DEF EndFrame, Drawing, Stepping
  <2>4. FragmentsExact'
    BY <1>6 DEF EndFrame, FragmentsExact, NoFragments
  <2> QED BY <2>2, <2>3, <2>4
<1> QED BY <1>1, <1>2, <1>3, <1>4, <1>5, <1>6

LEMMA InvStep == IInv /\ [Next]_vars => IInv'
<1>1. IInv /\ UNCHANGED vars => IInv'
  BY DEF vars, locals, IInv, TypeOK, Drawing, Stepping, FragmentsExact
<1> QED BY <1>1, TriSetupInv, BeginRowInv, StepInv, OtherInv DEF Next

LEMMA InvHolds == Spec => []IInv
  BY InvInit, InvStep, PTL DEF Spec

(* The stepper's state stays in range: every remainder is in [0, area2),   *)
(* which is what lets interp_step_x carry at most once.                    *)
THEOREM TypeCorrect == Spec => []TypeOK
<1>1. IInv => TypeOK  BY DEF IInv
<1> QED BY <1>1, InvHolds, PTL

(* Whatever the tile, the row or the signs, a pixel is drawn only by a     *)
(* triangle it is inside of, and with the quotient the removed division    *)
(* would have given (interp.h).                                            *)
THEOREM StepperExact == Spec => []FragmentsExact
<1>1. IInv => FragmentsExact  BY DEF IInv
<1> QED BY <1>1, InvHolds, PTL

-----------------------------------------------------------------------------
(* The fill rule *)

LEMMA EdgeReversed ==
  ASSUME NEW ax \in Int, NEW ay \in Int, NEW bx \in Int, NEW by \in Int,
         NEW px \in Int, NEW py \in Int
  PROVE  (ax - bx) * (py - by) - (ay - by) * (px - bx) =
           -((bx - ax) * (py - ay) - (by - ay) * (px - ax))
  OBVIOUS

(* edge_is_top_left: of the two directions of an edge, exactly one counts  *)
(* a point as inside, also when the point is on the edge.                  *)
THEOREM OneSideOfAnEdge ==
  ASSUME NEW a \in Vertex, NEW b \in Vertex, NEW p \in [x : Int, y : Int],
         a.x # b.x \/ a.y # b.y
  PROVE  Inclusive(a, b, p) <=> ~Inclusive(b, a, p)
<1>1. a.x \in Int /\ a.y \in Int /\ b.x \in Int /\ b.y \in Int /\ p.x \in Int /\ p.y \in Int
  BY DEF Vertex
<1>2. EdgeEval(b, a, p) = -EdgeEval(a, b, p) /\ EdgeEval(a, b, p) \in Int
  BY <1>1, EdgeReversed DEF EdgeEval
<1>3. EdgeIsTopLeft(a, b) <=> ~EdgeIsTopLeft(b, a)
  BY <1>1 DEF EdgeIsTopLeft
<1> QED BY <1>2, <1>3 DEF Inclusive

(* No double cover: two triangles that tri_setup keeps, with an edge in    *)
(* common and wound to run along it in opposite directions, have no pixel  *)
(* centre in common, wherever it lies.                                     *)
THEOREM NoDoubleCover ==
  ASSUME NEW a \in Vertex, NEW b \in Vertex, NEW c \in Vertex, NEW d \in Vertex,
         a.x # b.x \/ a.y # b.y, NEW p \in [x : Int, y : Int]
  PROVE  ~(Inside(<<a, b, c>>, p) /\ Inside(<<b, a, d>>, p))
  BY OneSideOfAnEdge DEF Inside

-----------------------------------------------------------------------------
(* Where a triangle can be *)

LEMMA DivFacts ==
  ASSUME NEW n \in Int, NEW b \in Nat \ {0}
  PROVE  n \div b \in Int /\ b * (n \div b) <= n /\ n < b * (n \div b) + b
<1> DEFINE d == n \div b
           m == n % b
<1>1. d \in Int /\ m \in Int /\ 0 <= m /\ m < b /\ n = b * d + m
  OBVIOUS
<1> HIDE DEF d, m
<1>2. d \in Int /\ b * d <= n /\ n < b * d + b  BY <1>1
<1> QED BY <1>2 DEF d

LEMMA DivAtLeast ==
  ASSUME NEW n \in Int, NEW b \in Nat \ {0}, NEW k \in Int
  PROVE  k <= n \div b <=> b * k <= n
<1> DEFINE d == n \div b
<1>1. d \in Int /\ b * d <= n /\ n < b * d + b  BY DivFacts
<1> HIDE DEF d
<1>2. ASSUME k <= d PROVE b * k <= n
  <2>1. b * (d - k) >= 0  BY <1>1, <1>2
  <2>2. b * (d - k) = b * d - b * k  BY <1>1
  <2> QED BY <1>1, <2>1, <2>2
<1>3. ASSUME ~(k <= d) PROVE ~(b * k <= n)
  <2>1. k - d \in Int /\ k - d >= 1  BY <1>1, <1>3
  <2>2. b * (k - d) >= b  BY <2>1, MulAtLeast
  <2>3. b * (k - d) = b * k - b * d  BY <1>1
  <2> QED BY <1>1, <2>2, <2>3
<1> QED BY <1>2, <1>3 DEF d

LEMMA DivMonotone ==
  ASSUME NEW m \in Int, NEW n \in Int, m <= n, NEW b \in Nat \ {0}
  PROVE  m \div b <= n \div b
<1>1. m \div b \in Int /\ b * (m \div b) <= m  BY DivFacts
<1>2. b * (m \div b) <= n  BY <1>1
<1> QED BY <1>1, <1>2, DivAtLeast

LEMMA TimesPositive ==
  ASSUME NEW e \in Nat, NEW x \in Nat \ {0} PROVE e * x >= e
<1>1. e * x = e + e * (x - 1)  OBVIOUS
<1>2. e * (x - 1) >= 0  OBVIOUS
<1> QED BY <1>1, <1>2

LEMMA TimesNegated ==
  ASSUME NEW e \in Int, NEW x \in Int PROVE e * (-x) = -(e * x)
  OBVIOUS

LEMMA Triples ==
  ASSUME NEW E \in [1 .. 3 -> Nat], NEW X \in [1 .. 3 -> Int],
         E[1] + E[2] + E[3] > 0, E[1] * X[1] + E[2] * X[2] + E[3] * X[3] = 0
  PROVE  (\E i \in 1 .. 3 : X[i] <= 0) /\ (\E i \in 1 .. 3 : X[i] >= 0)
<1>1. \A i \in 1 .. 3 : E[i] \in Nat /\ X[i] \in Int  OBVIOUS
<1>2. \E i \in 1 .. 3 : X[i] <= 0
  <2> SUFFICES ASSUME \A i \in 1 .. 3 : X[i] > 0 PROVE FALSE
    BY <1>1
  <2>1. \A i \in 1 .. 3 : E[i] * X[i] >= E[i]
    <3> TAKE i \in 1 .. 3
    <3>1. E[i] \in Nat /\ X[i] \in Nat \ {0}  BY <1>1
    <3> QED BY <3>1, TimesPositive
  <2>2. \A i \in 1 .. 3 : E[i] * X[i] \in Int  BY <1>1
  <2> QED BY <1>1, <2>1, <2>2
<1>3. \E i \in 1 .. 3 : X[i] >= 0
  <2> SUFFICES ASSUME \A i \in 1 .. 3 : X[i] < 0 PROVE FALSE
    BY <1>1
  <2>1. \A i \in 1 .. 3 : E[i] * X[i] <= -E[i]
    <3> TAKE i \in 1 .. 3
    <3>1. E[i] \in Nat /\ X[i] \in Int /\ -X[i] \in Nat \ {0}  BY <1>1
    <3>2. E[i] * (-X[i]) >= E[i]  BY <3>1, TimesPositive
    <3>3. E[i] * (-X[i]) = -(E[i] * X[i])  BY <3>1, TimesNegated
    <3> QED BY <3>1, <3>2, <3>3
  <2>2. \A i \in 1 .. 3 : E[i] * X[i] \in Int  BY <1>1
  <2> QED BY <1>1, <2>1, <2>2
<1> QED BY <1>2, <1>3

LEMMA Barycentric ==
  ASSUME NEW x1 \in Int, NEW y1 \in Int, NEW x2 \in Int, NEW y2 \in Int,
         NEW x3 \in Int, NEW y3 \in Int
  PROVE  LET e1 == x2 * y3 - x3 * y2
             e2 == x3 * y1 - x1 * y3
             e3 == x1 * y2 - x2 * y1
         IN  /\ e1 * x1 + e2 * x2 + e3 * x3 = 0
             /\ e1 * y1 + e2 * y2 + e3 * y3 = 0
             /\ (x2 - x1) * (y3 - y1) - (y2 - y1) * (x3 - x1) = e1 + e2 + e3
  OBVIOUS

LEMMA Shifted ==
  ASSUME NEW ax \in Int, NEW ay \in Int, NEW bx \in Int, NEW by \in Int,
         NEW px \in Int, NEW py \in Int
  PROVE  (bx - ax) * (py - ay) - (by - ay) * (px - ax) =
           (ax - px) * (by - py) - (bx - px) * (ay - py)
  OBVIOUS

(* The area does not depend on where the origin is.                        *)
LEMMA AreaShifted ==
  ASSUME NEW ax \in Int, NEW ay \in Int, NEW bx \in Int, NEW by \in Int,
         NEW cx \in Int, NEW cy \in Int, NEW px \in Int, NEW py \in Int
  PROVE  ((bx - px) - (ax - px)) * ((cy - py) - (ay - py))
           - ((by - py) - (ay - py)) * ((cx - px) - (ax - px)) =
         (bx - ax) * (cy - ay) - (by - ay) * (cx - ax)
<1>1. /\ (bx - px) - (ax - px) = bx - ax /\ (cy - py) - (ay - py) = cy - ay
      /\ (by - py) - (ay - py) = by - ay /\ (cx - px) - (ax - px) = cx - ax
  OBVIOUS
<1> QED BY <1>1

(* What is inside a triangle is in its bounding box.                       *)
LEMMA InsideBounds ==
  ASSUME NEW v \in Triangle, Area2(v) \in Nat \ {0}, NEW p \in [x : Int, y : Int],
         Inside(v, p)
  PROVE  /\ MinX(v) <= p.x /\ p.x <= MaxX(v)
         /\ MinY(v) <= p.y /\ p.y <= MaxY(v)
<1>1. \A i \in 1 .. 3 : v[i] \in Vertex /\ v[i].x \in Int /\ v[i].y \in Int
  BY TriangleType
<1>2. p.x \in Int /\ p.y \in Int  OBVIOUS
<1> DEFINE X == [i \in 1 .. 3 |-> v[i].x - p.x]
           Y == [i \in 1 .. 3 |-> v[i].y - p.y]
<1>3. /\ X \in [1 .. 3 -> Int] /\ Y \in [1 .. 3 -> Int]
      /\ \A i \in 1 .. 3 : X[i] = v[i].x - p.x /\ Y[i] = v[i].y - p.y
  BY <1>1, <1>2
<1> HIDE DEF X, Y
<1>4. \A i, j \in 1 .. 3 : EdgeEval(v[i], v[j], p) = X[i] * Y[j] - X[j] * Y[i]
  <2> TAKE i, j \in 1 .. 3
  <2>1. EdgeEval(v[i], v[j], p) =
          (v[j].x - v[i].x) * (p.y - v[i].y) - (v[j].y - v[i].y) * (p.x - v[i].x)
    BY DEF EdgeEval
  <2>2. X[i] = v[i].x - p.x /\ Y[i] = v[i].y - p.y /\ X[j] = v[j].x - p.x /\ Y[j] = v[j].y - p.y
    BY <1>3
  <2>3. v[i].x \in Int /\ v[i].y \in Int /\ v[j].x \in Int /\ v[j].y \in Int
    BY <1>1
  <2> QED BY <1>2, <2>1, <2>2, <2>3, Shifted
<1> DEFINE E == <<EdgeEval(v[2], v[3], p), EdgeEval(v[3], v[1], p), EdgeEval(v[1], v[2], p)>>
<1>5. /\ E[1] = X[2] * Y[3] - X[3] * Y[2]
      /\ E[2] = X[3] * Y[1] - X[1] * Y[3]
      /\ E[3] = X[1] * Y[2] - X[2] * Y[1]
  BY <1>4
<1>6. E \in [1 .. 3 -> Nat]
  <2>1. E[1] \in Int /\ E[2] \in Int /\ E[3] \in Int  BY <1>3, <1>5
  <2>2. E[1] >= 0 /\ E[2] >= 0 /\ E[3] >= 0
    BY <2>1 DEF Inside, Inclusive
  <2> QED BY <2>1, <2>2
<1> HIDE DEF E
<1>7. /\ E[1] * X[1] + E[2] * X[2] + E[3] * X[3] = 0
      /\ E[1] * Y[1] + E[2] * Y[2] + E[3] * Y[3] = 0
      /\ (X[2] - X[1]) * (Y[3] - Y[1]) - (Y[2] - Y[1]) * (X[3] - X[1]) = E[1] + E[2] + E[3]
  BY <1>3, <1>5, Barycentric
<1>8. Area2(v) = E[1] + E[2] + E[3]
  <2>1. Area2(v) = (v[2].x - v[1].x) * (v[3].y - v[1].y) - (v[2].y - v[1].y) * (v[3].x - v[1].x)
    BY DEF Area2, EdgeEval
  <2> QED BY <1>1, <1>2, <1>3, <1>7, <2>1, AreaShifted
<1>9. /\ (\E i \in 1 .. 3 : X[i] <= 0) /\ (\E i \in 1 .. 3 : X[i] >= 0)
      /\ (\E i \in 1 .. 3 : Y[i] <= 0) /\ (\E i \in 1 .. 3 : Y[i] >= 0)
  <2>1. E[1] + E[2] + E[3] > 0  BY <1>8
  <2> QED BY <1>3, <1>6, <1>7, <2>1, Triples
<1>10. /\ \E i \in 1 .. 3 : v[i].x <= p.x
       /\ \E i \in 1 .. 3 : v[i].x >= p.x
       /\ \E i \in 1 .. 3 : v[i].y <= p.y
       /\ \E i \in 1 .. 3 : v[i].y >= p.y
  BY <1>1, <1>2, <1>3, <1>9
<1>11. MinX(v) <= p.x /\ p.x <= MaxX(v)
  BY <1>1, <1>2, <1>10 DEF MinX, MaxX, Least, Greatest
<1>12. MinY(v) <= p.y /\ p.y <= MaxY(v)
  BY <1>1, <1>2, <1>10 DEF MinY, MaxY, Least, Greatest
<1> QED BY <1>11, <1>12

LEMMA WoundBounds ==
  ASSUME NEW v \in Triangle
  PROVE  /\ MinX(Wound(v)) = MinX(v) /\ MaxX(Wound(v)) = MaxX(v)
         /\ MinY(Wound(v)) = MinY(v) /\ MaxY(Wound(v)) = MaxY(v)
         /\ MinX(v) \in Int /\ MaxX(v) \in Int /\ MinY(v) \in Int /\ MaxY(v) \in Int
<1>1. /\ v[1].x \in Int /\ v[1].y \in Int /\ v[2].x \in Int /\ v[2].y \in Int
      /\ v[3].x \in Int /\ v[3].y \in Int
  BY TriangleType
<1>2. Wound(v) = <<v[1], v[3], v[2]>> \/ Wound(v) = v
  BY DEF Wound
<1>3. MinX(Wound(v)) = MinX(v) /\ MaxX(Wound(v)) = MaxX(v)
  BY <1>1, <1>2 DEF MinX, MaxX, Least, Greatest
<1>4. MinY(Wound(v)) = MinY(v) /\ MaxY(Wound(v)) = MaxY(v)
  BY <1>1, <1>2 DEF MinY, MaxY, Least, Greatest
<1>5. MinX(v) \in Int /\ MaxX(v) \in Int /\ MinY(v) \in Int /\ MaxY(v) \in Int
  BY <1>1 DEF MinX, MaxX, MinY, MaxY, Least, Greatest
<1> QED BY <1>3, <1>4, <1>5

(* One axis: a pixel c whose centre is between the bounds lo and hi.        *)
LEMMA CentreBetween ==
  ASSUME NEW c \in Int, NEW lo \in Int, NEW hi \in Int,
         lo <= c * Sub + Half, c * Sub + Half <= hi
  PROVE  /\ lo \div Sub \in Int /\ lo \div Sub <= c
         /\ hi \div Sub \in Int /\ c <= hi \div Sub
         /\ (hi + Sub - 1) \div Sub \in Int /\ c < (hi + Sub - 1) \div Sub
<1>1. Sub \in Nat \ {0} /\ Sub >= 2  BY SubAssumption
<1>2. Half \in Int /\ 1 <= Half /\ Half < Sub
  <2>1. Half \in Int /\ 2 * Half <= Sub /\ Sub < 2 * Half + 2
    BY <1>1 DEF Half
  <2> QED BY <1>1, <2>1
<1> DEFINE s == c * Sub
<1>3. /\ s \in Int /\ Sub * c = s /\ Sub * (c + 1) = s + Sub
      /\ lo <= s + Half /\ s + Half <= hi
  BY <1>1
<1> HIDE DEF s
<1>4. lo \div Sub \in Int /\ hi \div Sub \in Int /\ (hi + Sub - 1) \div Sub \in Int
      /\ hi + Sub - 1 \in Int /\ c + 1 \in Int
  BY <1>1
<1>5. lo \div Sub <= c
  <2>2. ~(Sub * (c + 1) <= lo)  BY <1>1, <1>2, <1>3
  <2>3. ~(c + 1 <= lo \div Sub)  BY <1>1, <1>4, <2>2, DivAtLeast
  <2> QED BY <1>4, <2>3
<1>6. c <= hi \div Sub
  <2>1. Sub * c <= hi  BY <1>2, <1>3
  <2> QED BY <1>1, <2>1, DivAtLeast
<1>7. c < (hi + Sub - 1) \div Sub
  <2>1. Sub * (c + 1) <= hi + Sub - 1  BY <1>1, <1>2, <1>3
  <2>2. c + 1 <= (hi + Sub - 1) \div Sub  BY <1>1, <1>4, <2>1, DivAtLeast
  <2> QED BY <1>4, <2>2
<1> QED BY <1>4, <1>5, <1>6, <1>7

(* tile_index keeps the tile of a pixel between those of the bounds.       *)
LEMMA IndexBetween ==
  ASSUME NEW size \in Nat \ {0}, NEW n \in Nat \ {0}, NEW c \in 0 .. n * size - 1,
         NEW lo \in Int, NEW hi \in Int, lo \div Sub \in Int, hi \div Sub \in Int,
         lo \div Sub <= c, c <= hi \div Sub
  PROVE  /\ c \div size \in 0 .. n - 1
         /\ c \div size \in TileIndex(lo, size, n) .. TileIndex(hi, size, n)
         /\ TileIndex(lo, size, n) \in Int /\ TileIndex(hi, size, n) \in Int
<1> DEFINE a == lo \div Sub
           b == hi \div Sub
           ga == Greatest(a, 0)
           gb == Greatest(b, 0)
<1>0. n * size \in Int /\ c \in Int /\ 0 <= c /\ c < n * size  OBVIOUS
<1>1. a \in Int /\ b \in Int /\ a <= c /\ c <= b  OBVIOUS
<1> HIDE DEF a, b
<1>2. ga \in Int /\ gb \in Int /\ ga <= c /\ c <= gb
  BY <1>0, <1>1 DEF Greatest
<1> HIDE DEF ga, gb
<1>3. ga \div size <= c \div size /\ c \div size <= gb \div size
  BY <1>0, <1>2, DivMonotone
<1>4. ga \div size \in Int /\ gb \div size \in Int /\ c \div size \in Int
  BY <1>0, <1>2, DivFacts
<1>5. 0 <= c \div size
  BY <1>0, DivAtLeast
<1>6. c \div size <= n - 1
  <2>1. ~(size * n <= c)  BY <1>0
  <2>2. ~(n <= c \div size)  BY <1>0, <2>1, DivAtLeast
  <2> QED BY <1>4, <2>2
<1>7. /\ TileIndex(lo, size, n) = Least(ga \div size, n - 1)
      /\ TileIndex(hi, size, n) = Least(gb \div size, n - 1)
  BY DEF TileIndex, a, b, ga, gb
<1> DEFINE da == ga \div size
           db == gb \div size
           dc == c \div size
<1>8. /\ da \in Int /\ db \in Int /\ dc \in Int /\ da <= dc /\ dc <= db
      /\ 0 <= dc /\ dc <= n - 1
      /\ TileIndex(lo, size, n) = Least(da, n - 1)
      /\ TileIndex(hi, size, n) = Least(db, n - 1)
  BY <1>3, <1>4, <1>5, <1>6, <1>7
<1> HIDE DEF da, db, dc
<1>9. /\ dc \in 0 .. n - 1 /\ dc \in TileIndex(lo, size, n) .. TileIndex(hi, size, n)
      /\ TileIndex(lo, size, n) \in Int /\ TileIndex(hi, size, n) \in Int
  BY <1>8 DEF Least
<1> QED BY <1>9 DEF dc

LEMMA PixelType ==
  ASSUME NEW px \in Pixel
  PROVE  /\ px = <<px[1], px[2]>>
         /\ px[1] \in 0 .. TilesX * TileW - 1 /\ px[2] \in 0 .. TilesY * TileH - 1
         /\ px[1] \in Int /\ px[2] \in Int
         /\ Center(px) \in [x : Int, y : Int]
         /\ Center(px).x = px[1] * Sub + Half /\ Center(px).y = px[2] * Sub + Half
<1>1. TilesX * TileW \in Int /\ TilesY * TileH \in Int  BY TilesAssumption
<1>2. px[1] \in 0 .. TilesX * TileW - 1 /\ px[2] \in 0 .. TilesY * TileH - 1
      /\ px = <<px[1], px[2]>>
  BY DEF Pixel
<1>3. px[1] \in Int /\ px[2] \in Int  BY <1>1, <1>2
<1>4. Half \in Int /\ Sub \in Int  BY SubAssumption DEF Half
<1>5. px[1] * Sub + Half \in Int /\ px[2] * Sub + Half \in Int  BY <1>3, <1>4
<1> QED BY <1>2, <1>3, <1>5 DEF Center

(* Where the pixels of a kept triangle are: its bounding box, and so the   *)
(* pixels of raster_one's box, and the tiles it is binned in.              *)
LEMMA CoveredWhere ==
  ASSUME NEW v \in Triangle, ~Degenerate(v), NEW px \in Pixel, Inside(Wound(v), Center(px))
  PROVE  LET b == PixelBounds(Wound(v))
         IN  /\ b.x0 \in Int /\ b.x1 \in Int /\ b.y0 \in Int /\ b.y1 \in Int
             /\ b.x0 <= px[1] /\ px[1] < b.x1 /\ b.y0 <= px[2] /\ px[2] < b.y1
             /\ TileOf(px) \in TileSpan(v)
<1> DEFINE p == Center(px)
<1>1. Wound(v) \in Triangle /\ Area2(Wound(v)) \in Nat \ {0}  BY WoundPositive
<1>2. /\ p \in [x : Int, y : Int] /\ px[1] \in Int /\ px[2] \in Int
      /\ p.x = px[1] * Sub + Half /\ p.y = px[2] * Sub + Half
  BY PixelType
<1>3. /\ MinX(v) <= px[1] * Sub + Half /\ px[1] * Sub + Half <= MaxX(v)
      /\ MinY(v) <= px[2] * Sub + Half /\ px[2] * Sub + Half <= MaxY(v)
  BY <1>1, <1>2, InsideBounds, WoundBounds
<1>4. MinX(v) \in Int /\ MaxX(v) \in Int /\ MinY(v) \in Int /\ MaxY(v) \in Int
  BY WoundBounds
<1> HIDE DEF p
<1>5. /\ MinX(v) \div Sub \in Int /\ MinX(v) \div Sub <= px[1]
      /\ MaxX(v) \div Sub \in Int /\ px[1] <= MaxX(v) \div Sub
      /\ (MaxX(v) + Sub - 1) \div Sub \in Int /\ px[1] < (MaxX(v) + Sub - 1) \div Sub
  BY <1>2, <1>3, <1>4, CentreBetween
<1>6. /\ MinY(v) \div Sub \in Int /\ MinY(v) \div Sub <= px[2]
      /\ MaxY(v) \div Sub \in Int /\ px[2] <= MaxY(v) \div Sub
      /\ (MaxY(v) + Sub - 1) \div Sub \in Int /\ px[2] < (MaxY(v) + Sub - 1) \div Sub
  BY <1>2, <1>3, <1>4, CentreBetween
<1>7. PixelBounds(Wound(v)) =
        [x0 |-> MinX(v) \div Sub, x1 |-> (MaxX(v) + Sub - 1) \div Sub,
         y0 |-> MinY(v) \div Sub, y1 |-> (MaxY(v) + Sub - 1) \div Sub]
  BY WoundBounds DEF PixelBounds
<1>8. px[1] \div TileW \in TileIndex(MinX(v), TileW, TilesX) .. TileIndex(MaxX(v), TileW, TilesX)
  BY <1>4, <1>5, PixelType, IndexBetween, TilesAssumption
<1>9. px[2] \div TileH \in TileIndex(MinY(v), TileH, TilesY) .. TileIndex(MaxY(v), TileH, TilesY)
  BY <1>4, <1>6, PixelType, IndexBetween, TilesAssumption
<1>10. TileOf(px) \in TileSpan(v)
  BY <1>8, <1>9 DEF TileOf, TileSpan
<1> QED BY <1>5, <1>6, <1>7, <1>10

-----------------------------------------------------------------------------
(* Tiles and pixels *)

(* The number of a tile gives its row and its column back.                 *)
LEMMA TileNumber ==
  ASSUME NEW b \in Nat \ {0}, NEW y \in Int, NEW x \in 0 .. b - 1
  PROVE  (y * b + x) \div b = y /\ (y * b + x) % b = x
<1> DEFINE n == y * b + x
           d == n \div b
           m == n % b
<1>1. n \in Int /\ x \in Int /\ 0 <= x /\ x < b  OBVIOUS
<1>2. n \div b = y  BY <1>1, QuotientUnique
<1>3. d \in Int /\ m \in Int /\ n = b * d + m  BY <1>1
<1>4. d = y  BY <1>2
<1>5. b * y = y * b  OBVIOUS
<1> HIDE DEF d, m
<1>6. m = x  BY <1>1, <1>3, <1>4, <1>5
<1> QED BY <1>2, <1>6 DEF m

LEMMA TileOfPixel ==
  ASSUME NEW px \in Pixel
  PROVE  /\ TileOf(px) \in 0 .. Tiles - 1
         /\ tile = TileOf(px) =>
              /\ OriginX \in Nat /\ OriginX <= px[1] /\ px[1] < OriginX + TileW
              /\ OriginY \in Nat /\ OriginY <= px[2] /\ px[2] < OriginY + TileH
<1> DEFINE tx == px[1] \div TileW
           ty == px[2] \div TileH
<1>1. /\ px[1] \in Int /\ px[2] \in Int
      /\ px[1] \in 0 .. TilesX * TileW - 1 /\ px[2] \in 0 .. TilesY * TileH - 1
  BY PixelType
<1>2. /\ tx \in Int /\ TileW * tx <= px[1] /\ px[1] < TileW * tx + TileW
      /\ ty \in Int /\ TileH * ty <= px[2] /\ px[2] < TileH * ty + TileH
  BY <1>1, TilesAssumption, DivFacts
<1>3. tx \in 0 .. TilesX - 1 /\ ty \in 0 .. TilesY - 1
  <2>1. /\ TilesX * TileW \in Int /\ TilesX * TileW = TileW * TilesX
        /\ TilesY * TileH \in Int /\ TilesY * TileH = TileH * TilesY
    BY TilesAssumption
  <2>2. /\ TileW * 0 <= px[1] /\ ~(TileW * TilesX <= px[1])
        /\ TileH * 0 <= px[2] /\ ~(TileH * TilesY <= px[2])
    BY <1>1, <2>1, TilesAssumption
  <2>3. 0 <= tx /\ ~(TilesX <= tx)
    BY <1>1, <2>2, DivAtLeast, TilesAssumption
  <2>4. 0 <= ty /\ ~(TilesY <= ty)
    BY <1>1, <2>2, DivAtLeast, TilesAssumption
  <2> HIDE DEF tx, ty
  <2> QED BY <1>2, <2>3, <2>4, TilesAssumption
<1>4. TileOf(px) = ty * TilesX + tx  BY DEF TileOf
<1> HIDE DEF tx, ty
<1>5. TileOf(px) \in 0 .. Tiles - 1
  <2>1. ty * TilesX \in Nat /\ TilesX * TilesY \in Nat
    BY <1>3, TilesAssumption
  <2>2. (TilesY - 1 - ty) * TilesX >= 0  BY <1>3, TilesAssumption
  <2>3. (TilesY - 1 - ty) * TilesX = TilesX * TilesY - TilesX - ty * TilesX
    BY <1>3, TilesAssumption
  <2> QED BY <1>3, <1>4, <2>1, <2>2, <2>3, TilesAssumption DEF Tiles
<1>6. ASSUME tile = TileOf(px)
      PROVE  /\ OriginX \in Nat /\ OriginX <= px[1] /\ px[1] < OriginX + TileW
             /\ OriginY \in Nat /\ OriginY <= px[2] /\ px[2] < OriginY + TileH
  <2>1. tile % TilesX = tx /\ tile \div TilesX = ty
    BY <1>2, <1>3, <1>4, <1>6, TileNumber, TilesAssumption
  <2>2. OriginX = tx * TileW /\ OriginY = ty * TileH
    BY <2>1 DEF OriginX, OriginY
  <2>3. tx * TileW = TileW * tx /\ ty * TileH = TileH * ty /\ tx * TileW \in Nat /\ ty * TileH \in Nat
    BY <1>3, TilesAssumption
  <2> QED BY <1>2, <2>2, <2>3, TilesAssumption
<1> QED BY <1>5, <1>6

(* A pixel of raster_one's box is one of the tile.                         *)
LEMMA PixelOfTile ==
  ASSUME tile \in 0 .. Tiles - 1, NEW x \in Nat, NEW y \in Nat,
         OriginX <= x, x < OriginX + TileW, OriginY <= y, y < OriginY + TileH
  PROVE  <<x, y>> \in Pixel /\ TileOf(<<x, y>>) = tile
<1> DEFINE tx == tile % TilesX
           ty == tile \div TilesX
<1>1. Tiles \in Int /\ tile \in Int /\ 0 <= tile /\ tile < Tiles /\ Tiles = TilesX * TilesY
  BY TilesAssumption DEF Tiles
<1>2. tx \in Int /\ 0 <= tx /\ tx < TilesX /\ ty \in Int /\ tile = TilesX * ty + tx
  BY <1>1, TilesAssumption
<1>3. 0 <= ty /\ ty < TilesY
  <2>1. TilesX * 0 <= tile /\ ~(TilesX * TilesY <= tile)  BY <1>1, TilesAssumption
  <2>2. 0 <= ty /\ ~(TilesY <= ty)  BY <1>1, <2>1, DivAtLeast, TilesAssumption
  <2> HIDE DEF tx, ty
  <2> QED BY <1>2, <2>2, TilesAssumption
<1>4. OriginX = tx * TileW /\ OriginY = ty * TileH  BY DEF OriginX, OriginY
<1> HIDE DEF tx, ty
<1>5. /\ tx * TileW \in Int /\ ty * TileH \in Int
      /\ x \div TileW = tx /\ y \div TileH = ty
  <2>1. tx * TileW \in Int /\ ty * TileH \in Int  BY <1>2, TilesAssumption
  <2>2. x = tx * TileW + (x - tx * TileW) /\ y = ty * TileH + (y - ty * TileH)
    BY <2>1
  <2>3. /\ x - tx * TileW \in Int /\ 0 <= x - tx * TileW /\ x - tx * TileW < TileW
        /\ y - ty * TileH \in Int /\ 0 <= y - ty * TileH /\ y - ty * TileH < TileH
    BY <1>4, <2>1, TilesAssumption
  <2>4. x \div TileW = tx
    BY <1>2, <2>1, <2>2, <2>3, QuotientUnique, TilesAssumption
  <2>5. y \div TileH = ty
    BY <1>2, <2>1, <2>2, <2>3, QuotientUnique, TilesAssumption
  <2> QED BY <2>1, <2>4, <2>5
<1>6. x < TilesX * TileW /\ y < TilesY * TileH
  <2>1. (TilesX - 1 - tx) * TileW >= 0 /\ (TilesY - 1 - ty) * TileH >= 0
    BY <1>2, <1>3, TilesAssumption
  <2>2. /\ (TilesX - 1 - tx) * TileW = TilesX * TileW - TileW - tx * TileW
        /\ (TilesY - 1 - ty) * TileH = TilesY * TileH - TileH - ty * TileH
        /\ TilesX * TileW \in Int /\ TilesY * TileH \in Int
    BY <1>2, TilesAssumption
  <2> QED BY <1>4, <1>5, <2>1, <2>2, TilesAssumption
<1>7. <<x, y>> \in Pixel
  <2>1. TilesX * TileW \in Int /\ TilesY * TileH \in Int  BY TilesAssumption
  <2> QED BY <1>6, <2>1 DEF Pixel
<1>8. TileOf(<<x, y>>) = ty * TilesX + tx  BY <1>5 DEF TileOf
<1>9. TilesX * ty = ty * TilesX  BY <1>2, TilesAssumption
<1> QED BY <1>2, <1>7, <1>8, <1>9

LEMMA ClampiFacts ==
  ASSUME NEW c \in Int, NEW lo \in Int, NEW hi \in Int, lo <= hi
  PROVE  /\ Clampi(c, lo, hi) \in Int /\ lo <= Clampi(c, lo, hi) /\ Clampi(c, lo, hi) <= hi
  BY DEF Clampi, Least

LEMMA ClampiAround ==
  ASSUME NEW n \in Int, NEW lo \in Int, NEW hi \in Int, lo <= n, n < hi,
         NEW a \in Int, a <= n, NEW b \in Int, n < b
  PROVE  Clampi(a, lo, hi) <= n /\ n < Clampi(b, lo, hi)
  BY DEF Clampi, Least

LEMMA OriginType ==
  ASSUME tile \in 0 .. Tiles - 1
  PROVE  OriginX \in Nat /\ OriginY \in Nat
<1>1. tile \in Nat  BY TilesAssumption DEF Tiles
<1>2. tile % TilesX \in Nat /\ tile \div TilesX \in Nat  BY <1>1, TilesAssumption
<1> QED BY <1>2, TilesAssumption DEF OriginX, OriginY

(* The box stays in the tile. *)
LEMMA BoxInTile ==
  ASSUME tile \in 0 .. Tiles - 1, NEW v \in Triangle
  PROVE  /\ OriginX <= Box(v).x0 /\ Box(v).x1 <= OriginX + TileW
         /\ OriginY <= Box(v).y0 /\ Box(v).y1 <= OriginY + TileH
<1>1. OriginX \in Int /\ OriginY \in Int /\ OriginX + TileW \in Int /\ OriginY + TileH \in Int
      /\ OriginX <= OriginX + TileW /\ OriginY <= OriginY + TileH
  BY OriginType, TilesAssumption
<1>2. /\ PixelBounds(v).x0 \in Int /\ PixelBounds(v).x1 \in Int
      /\ PixelBounds(v).y0 \in Int /\ PixelBounds(v).y1 \in Int
  BY WoundBounds, SubAssumption DEF PixelBounds
<1> QED BY <1>1, <1>2, ClampiFacts DEF Box, ToTileX, ToTileY

(* Whatever a binned triangle covers in the tile is in the box.            *)
LEMMA BoxCovers ==
  ASSUME NEW px \in Pixel, TileOf(px) = tile, NEW v \in Triangle, ~Degenerate(v),
         Inside(Wound(v), Center(px))
  PROVE  LET b == Box(Wound(v))
         IN  /\ b.x0 <= px[1] /\ px[1] < b.x1 /\ b.y0 <= px[2] /\ px[2] < b.y1
             /\ tile \in TileSpan(v)
<1> DEFINE b == PixelBounds(Wound(v))
<1>1. /\ b.x0 \in Int /\ b.x1 \in Int /\ b.y0 \in Int /\ b.y1 \in Int
      /\ b.x0 <= px[1] /\ px[1] < b.x1 /\ b.y0 <= px[2] /\ px[2] < b.y1
      /\ TileOf(px) \in TileSpan(v)
  BY CoveredWhere
<1>2. /\ OriginX \in Int /\ OriginX + TileW \in Int /\ OriginX <= OriginX + TileW
      /\ OriginX <= px[1] /\ px[1] < OriginX + TileW
      /\ OriginY \in Int /\ OriginY + TileH \in Int /\ OriginY <= OriginY + TileH
      /\ OriginY <= px[2] /\ px[2] < OriginY + TileH
      /\ px[1] \in Int /\ px[2] \in Int
  BY TileOfPixel, PixelType, TilesAssumption
<1>3. Box(Wound(v)) = [x0 |-> Clampi(b.x0, OriginX, OriginX + TileW),
                       x1 |-> Clampi(b.x1, OriginX, OriginX + TileW),
                       y0 |-> Clampi(b.y0, OriginY, OriginY + TileH),
                       y1 |-> Clampi(b.y1, OriginY, OriginY + TileH)]
  BY DEF Box, ToTileX, ToTileY
<1> HIDE DEF b
<1>4. /\ Clampi(b.x0, OriginX, OriginX + TileW) <= px[1]
      /\ px[1] < Clampi(b.x1, OriginX, OriginX + TileW)
      /\ Clampi(b.y0, OriginY, OriginY + TileH) <= px[2]
      /\ px[2] < Clampi(b.y1, OriginY, OriginY + TileH)
  BY <1>1, <1>2, ClampiAround
<1> QED BY <1>1, <1>3, <1>4

-----------------------------------------------------------------------------
(* What has been drawn *)

LEMMA JobType ==
  ASSUME IInv
  PROVE  /\ Tiles \in Nat \ {0} /\ tile \in 0 .. Tiles /\ job \in Nat \ {0}
         /\ mesh \in Seq(Triangle) /\ Len(mesh) \in Nat /\ job \in 1 .. Len(mesh) + 1
<1>1. TilesX * TilesY >= TilesX  BY TilesAssumption, MulAtLeast
<1>2. Tiles \in Nat \ {0}  BY <1>1, TilesAssumption DEF Tiles
<1>3. mesh \in Seq(Triangle)  BY MeshesAssumption, EmptySeq DEF IInv, TypeOK
<1>4. tile \in 0 .. Tiles /\ job \in 1 .. Len(mesh) + 1  BY DEF IInv, TypeOK
<1> QED BY <1>2, <1>3, <1>4

LEMMA CoveringType ==
  ASSUME IInv, NEW px \in Pixel, NEW k \in Covering(px)
  PROVE  /\ k \in 1 .. Len(mesh) /\ k \in Nat \ {0} /\ mesh[k] \in Triangle
         /\ ~Degenerate(mesh[k]) /\ Inside(Wound(mesh[k]), Center(px))
         /\ TileOf(px) \in 0 .. Tiles - 1
<1>1. k \in DOMAIN mesh /\ ~Degenerate(mesh[k]) /\ Inside(Wound(mesh[k]), Center(px))
  BY DEF Covering
<1>2. k \in 1 .. Len(mesh)  BY <1>1, JobType
<1> QED BY <1>1, <1>2, MeshType, TileOfPixel DEF IInv

(* A step that draws nothing passes only what it need not draw.            *)
LEMMA ProgressKept ==
  ASSUME Progress, UNCHANGED <<mesh, frags>>,
         \A px \in Pixel : \A k \in Covering(px) : Past(px, k)' <=> Past(px, k)
  PROVE  Progress'
<1> SUFFICES ASSUME NEW px \in Pixel
             PROVE  (Drawn(px) = {k \in Covering(px) : Past(px, k)} /\ InOrder(px))'
  BY DEF Progress
<1>1. Drawn(px) = {k \in Covering(px) : Past(px, k)} /\ InOrder(px)  BY DEF Progress
<1>2. Drawn(px)' = Drawn(px)  BY DEF Drawn
<1>3. InOrder(px)' = InOrder(px)  BY DEF InOrder
<1>4. Covering(px)' = Covering(px)  BY DEF Covering
<1>5. {k \in Covering(px)' : Past(px, k)'} = {k \in Covering(px) : Past(px, k)}
  BY <1>4
<1> QED BY <1>1, <1>2, <1>3, <1>5

LEMMA SkipPlace ==
  ASSUME WInv, Skip PROVE Placed' /\ Progress'
<1> USE DEF WInv
<1>1. /\ pc = "tri" /\ tile < Tiles /\ job \in 1 .. Len(mesh) /\ job' = job + 1
      /\ ~InBin \/ Degenerate(mesh[job])
      /\ UNCHANGED <<mesh, tile, pc, locals, frags>>
  BY JobType DEF Skip
<1>2. Placed'  BY <1>1 DEF Placed
<1>3. ASSUME NEW px \in Pixel, NEW k \in Covering(px)
      PROVE  Past(px, k)' <=> Past(px, k)
  <2>1. k \in Nat /\ job \in Nat /\ TileOf(px)' = TileOf(px)
    BY CoveringType, JobType DEF TileOf
  <2>2. ~(TileOf(px) = tile /\ k = job)
    BY <1>1, CoveringType, BoxCovers DEF InBin
  <2> QED BY <1>1, <2>1, <2>2 DEF Past, Scanned
<1>4. Progress'  BY <1>1, <1>3, ProgressKept
<1> QED BY <1>2, <1>4

LEMMA TriSetupPlace ==
  ASSUME WInv, TriSetup PROVE Placed' /\ Progress'
<1> USE DEF WInv
<1>1. /\ pc = "tri" /\ tile < Tiles /\ job \in 1 .. Len(mesh)
      /\ InBin /\ ~Degenerate(mesh[job])
      /\ t' = Wound(mesh[job]) /\ box' = Box(t') /\ sy' = box'.y0 /\ pc' = "row"
      /\ UNCHANGED <<mesh, tile, job, sx, frags>>
  BY JobType DEF TriSetup
<1>2. mesh[job] \in Triangle /\ t' \in Triangle /\ tile \in 0 .. Tiles - 1
  BY <1>1, JobType, MeshType, WoundPositive DEF IInv
<1>3. box' \in [x0 : Nat, x1 : Nat, y0 : Nat, y1 : Nat]  BY <1>1, <1>2, BoxType
<1>4. Placed'
  <2>1. Box(t)' = Box(t')  BY <1>1 DEF Box, ToTileX, ToTileY, OriginX, OriginY
  <2>2. InBin'  BY <1>1 DEF InBin
  <2> QED BY <1>1, <1>3, <2>1, <2>2 DEF Placed
<1>5. ASSUME NEW px \in Pixel, NEW k \in Covering(px)
      PROVE  Past(px, k)' <=> Past(px, k)
  <2>1. TileOf(px)' = TileOf(px)  BY DEF TileOf
  <2>2. ~(TileOf(px) = tile /\ k = job /\ px[2] < sy')
    <3>1. ASSUME TileOf(px) = tile, k = job PROVE box'.y0 <= px[2]
      BY <1>1, <3>1, CoveringType, BoxCovers
    <3> QED BY <1>1, <1>3, <3>1, PixelType
  <2> QED BY <1>1, <2>1, <2>2 DEF Past, Scanned
<1>6. Progress'  BY <1>1, <1>5, ProgressKept
<1> QED BY <1>4, <1>6

(* In the loops: the box is that of the triangle, in the tile.             *)
LEMMA InLoops ==
  ASSUME WInv, pc \in {"row", "pixel"}
  PROVE  /\ tile \in 0 .. Tiles - 1 /\ job \in 1 .. Len(mesh)
         /\ sx \in Nat /\ sy \in Nat
         /\ box.x0 \in Nat /\ box.x1 \in Nat /\ box.y0 \in Nat /\ box.y1 \in Nat
         /\ OriginX \in Nat /\ OriginY \in Nat
         /\ OriginX <= box.x0 /\ box.x1 <= OriginX + TileW
         /\ OriginY <= box.y0 /\ box.y1 <= OriginY + TileH
         /\ \A px \in Pixel :
              TileOf(px) = tile /\ job \in Covering(px) =>
                /\ box.x0 <= px[1] /\ px[1] < box.x1 /\ box.y0 <= px[2] /\ px[2] < box.y1
                /\ Inside(t, Center(px))
<1> USE DEF WInv
<1>1. tile \in 0 .. Tiles - 1 /\ job \in 1 .. Len(mesh) /\ t \in Triangle
      /\ t = Wound(mesh[job]) /\ box = Box(t)
  BY JobType DEF IInv, Drawing, TypeOK, Placed
<1>2. /\ sx \in Nat /\ sy \in Nat
      /\ box.x0 \in Nat /\ box.x1 \in Nat /\ box.y0 \in Nat /\ box.y1 \in Nat
  BY DEF IInv, TypeOK
<1>3. \A px \in Pixel :
        TileOf(px) = tile /\ job \in Covering(px) =>
          /\ box.x0 <= px[1] /\ px[1] < box.x1 /\ box.y0 <= px[2] /\ px[2] < box.y1
          /\ Inside(t, Center(px))
  BY <1>1, CoveringType, BoxCovers
<1> QED BY <1>1, <1>2, <1>3, BoxInTile, OriginType

LEMMA BeginRowPlace ==
  ASSUME WInv, BeginRow PROVE Placed' /\ Progress'
<1> USE DEF WInv
<1>1. /\ pc = "row" /\ sy < box.y1 /\ sx' = box.x0 /\ pc' = "pixel"
      /\ UNCHANGED <<mesh, tile, job, t, box, sy, frags>>
  BY DEF BeginRow
<1>2. Placed'
  <2>1. InBin' = InBin /\ Box(t)' = Box(t)
    BY <1>1 DEF InBin, Box, ToTileX, ToTileY, OriginX, OriginY
  <2> QED BY <1>1, <2>1, InLoops DEF Placed
<1>3. ASSUME NEW px \in Pixel, NEW k \in Covering(px)
      PROVE  Past(px, k)' <=> Past(px, k)
  <2>1. TileOf(px)' = TileOf(px)  BY DEF TileOf
  <2>2. ~(TileOf(px) = tile /\ k = job /\ px[1] < sx')
    BY <1>1, InLoops, PixelType
  <2> QED BY <1>1, <2>1, <2>2 DEF Past, Scanned
<1>4. Progress'  BY <1>1, <1>3, ProgressKept
<1> QED BY <1>2, <1>4

LEMMA EndRowPlace ==
  ASSUME WInv, EndRow PROVE Placed' /\ Progress'
<1> USE DEF WInv
<1>1. /\ pc = "pixel" /\ sx >= box.x1 /\ sy' = sy + 1 /\ pc' = "row"
      /\ UNCHANGED <<mesh, tile, job, t, box, ip, sx, frags>>
  BY DEF EndRow
<1>2. Placed'
  <2>1. InBin' = InBin /\ Box(t)' = Box(t)
    BY <1>1 DEF InBin, Box, ToTileX, ToTileY, OriginX, OriginY
  <2> QED BY <1>1, <2>1, InLoops DEF Placed
<1>3. ASSUME NEW px \in Pixel, NEW k \in Covering(px)
      PROVE  Past(px, k)' <=> Past(px, k)
  <2>1. TileOf(px)' = TileOf(px) /\ px[1] \in Int /\ px[2] \in Int  BY PixelType DEF TileOf
  <2>2. ~(TileOf(px) = tile /\ k = job /\ px[1] >= sx)
    BY <1>1, <2>1, InLoops
  <2>3. sy \in Nat /\ sx \in Nat  BY <1>1, InLoops
  <2> QED BY <1>1, <2>1, <2>2, <2>3 DEF Past, Scanned
<1>4. Progress'  BY <1>1, <1>3, ProgressKept
<1> QED BY <1>2, <1>4

LEMMA EndTriPlace ==
  ASSUME WInv, EndTri PROVE Placed' /\ Progress'
<1> USE DEF WInv
<1>1. /\ pc = "row" /\ sy >= box.y1 /\ job' = job + 1 /\ pc' = "tri"
      /\ UNCHANGED <<mesh, tile, frags>>
  BY DEF EndTri
<1>2. Placed'  BY <1>1 DEF Placed
<1>3. ASSUME NEW px \in Pixel, NEW k \in Covering(px)
      PROVE  Past(px, k)' <=> Past(px, k)
  <2>1. TileOf(px)' = TileOf(px) /\ px[2] \in Int  BY PixelType DEF TileOf
  <2>2. TileOf(px) = tile /\ k = job => px[2] < sy
    BY <1>1, <2>1, InLoops
  <2>3. k \in Nat /\ job \in Nat  BY CoveringType, JobType
  <2> QED BY <1>1, <2>1, <2>2, <2>3 DEF Past, Scanned
<1>4. Progress'  BY <1>1, <1>3, ProgressKept
<1> QED BY <1>2, <1>4

LEMMA NextTilePlace ==
  ASSUME WInv, NextTile PROVE Placed' /\ Progress'
<1> USE DEF WInv
<1>1. /\ pc = "tri" /\ tile < Tiles /\ job > Len(mesh) /\ tile' = tile + 1 /\ job' = 1
      /\ UNCHANGED <<mesh, pc, locals, frags>>
  BY DEF NextTile
<1>2. Placed'  BY <1>1 DEF Placed
<1>3. ASSUME NEW px \in Pixel, NEW k \in Covering(px)
      PROVE  Past(px, k)' <=> Past(px, k)
  <2>1. TileOf(px)' = TileOf(px)  BY DEF TileOf
  <2>2. /\ k \in 1 .. Len(mesh) /\ job \in Nat /\ Len(mesh) \in Nat /\ tile \in Int
        /\ TileOf(px) \in Int
    BY CoveringType, JobType
  <2> QED BY <1>1, <2>1, <2>2 DEF Past, Scanned
<1>4. Progress'  BY <1>1, <1>3, ProgressKept
<1> QED BY <1>2, <1>4

LEMMA FramePlace ==
  ASSUME WInv, BeginFrame \/ EndFrame PROVE Placed' /\ Progress'
<1> USE DEF WInv
<1>1. CASE BeginFrame
  <2>1. /\ mesh = <<>> /\ tile' = 0 /\ job' = 1 /\ pc' = "tri" /\ UNCHANGED frags
    BY <1>1 DEF BeginFrame
  <2>2. \A px \in Pixel : DOMAIN frags[px] = {}
    BY <2>1 DEF IInv, FragmentsExact
  <2>3. ASSUME NEW px \in Pixel, NEW k \in Covering(px)' PROVE ~Past(px, k)'
    <3>1. k \in Nat \ {0} /\ TileOf(px)' \in Nat
      <4>1. mesh' \in Seq(Triangle)  BY <1>1, MeshesAssumption DEF BeginFrame
      <4>2. k \in DOMAIN mesh'  BY DEF Covering
      <4>3. TileOf(px)' = TileOf(px)  BY DEF TileOf
      <4> QED BY <4>1, <4>2, <4>3, TileOfPixel, JobType
    <3> QED BY <2>1, <3>1 DEF Past, Scanned
  <2>4. \A px \in Pixel : DOMAIN frags'[px] = {}  BY <2>1, <2>2
  <2>5. Progress'  BY <2>3, <2>4 DEF Progress, Drawn, InOrder
  <2> QED BY <2>1, <2>5 DEF Placed
<1>2. CASE EndFrame
  <2>1. mesh' = <<>> /\ frags' = NoFragments /\ pc' = "frame" /\ tile' = Tiles
    BY <1>2 DEF EndFrame
  <2>2. \A px \in Pixel : DOMAIN frags'[px] = {}  BY <2>1 DEF NoFragments
  <2>3. \A px \in Pixel : Covering(px)' = {}  BY <2>1 DEF Covering
  <2>4. Progress'  BY <2>2, <2>3 DEF Progress, Drawn, InOrder
  <2> QED BY <2>1, <2>4 DEF Placed
<1> QED BY <1>1, <1>2

LEMMA StepPlace ==
  ASSUME WInv, Step PROVE Placed' /\ Progress'
<1> USE DEF WInv
<1>1. /\ pc = "pixel" /\ sx < box.x1 /\ sx' = sx + 1
      /\ UNCHANGED <<mesh, tile, job, pc, t, box, sy>>
  BY DEF Step
<1>2. /\ sx \in Nat /\ sy \in Nat /\ box.x0 <= sx /\ sy < box.y1 /\ box.y0 <= sy
      /\ box.x0 \in Nat /\ box.x1 \in Nat /\ box.y0 \in Nat /\ box.y1 \in Nat
      /\ job \in 1 .. Len(mesh) /\ job \in Nat /\ Len(mesh) \in Nat
      /\ DOMAIN mesh = 1 .. Len(mesh)
  BY <1>1, InLoops, JobType DEF Placed
<1> PICK here : here = <<sx, sy>>  OBVIOUS
<1>3. here \in Pixel /\ TileOf(here) = tile /\ here[1] = sx /\ here[2] = sy
  <2>1. /\ tile \in 0 .. Tiles - 1 /\ OriginX \in Nat /\ OriginY \in Nat
        /\ OriginX <= box.x0 /\ box.x1 <= OriginX + TileW
        /\ OriginY <= box.y0 /\ box.y1 <= OriginY + TileH
    BY <1>1, InLoops
  <2>2. TileW \in Nat /\ TileH \in Nat  BY TilesAssumption
  <2> HIDE DEF WInv
  <2>3. OriginX <= sx /\ sx < OriginX + TileW  BY <1>1, <1>2, <2>1, <2>2
  <2>4. OriginY <= sy /\ sy < OriginY + TileH  BY <1>1, <1>2, <2>1, <2>2
  <2> QED BY <1>1, <1>2, <2>1, <2>3, <2>4, PixelOfTile
<1>4. \A px \in Pixel : px # here => px[1] # sx \/ px[2] # sy
  BY PixelType
<1>5. Placed'
  <2>1. InBin' = InBin /\ Box(t)' = Box(t)
    BY <1>1 DEF InBin, Box, ToTileX, ToTileY, OriginX, OriginY
  <2> QED BY <1>1, <1>2, <2>1 DEF Placed
<1>6. \A px \in Pixel : Covering(px)' = Covering(px) /\ TileOf(px)' = TileOf(px)
  BY <1>1 DEF Covering, TileOf
<1>7. ASSUME NEW px \in Pixel, NEW k \in Covering(px), ~(px = here /\ k = job)
      PROVE  Past(px, k)' <=> Past(px, k)
  <2>1. px[1] \in Int /\ px[2] \in Int  BY PixelType
  <2>2. CASE px = here
    BY <1>1, <1>2, <1>6, <1>7, <2>1, <2>2 DEF Past, Scanned
  <2>3. CASE px # here
    BY <1>1, <1>2, <1>4, <1>6, <2>1, <2>3 DEF Past, Scanned
  <2> QED BY <2>2, <2>3
<1>8. job \in Covering(here) <=> Inside(t, Center(here))
  BY <1>1, <1>2, <1>3 DEF Covering, IInv, Drawing
<1>9. CASE ~Inside(t, Center(here)) /\ UNCHANGED frags
  <2>1. \A px \in Pixel : \A k \in Covering(px) : Past(px, k)' <=> Past(px, k)
    BY <1>7, <1>8, <1>9
  <2> QED BY <1>1, <1>5, <1>9, <2>1, ProgressKept
<1>10. CASE /\ Inside(t, Center(here))
            /\ \E value : frags' = [frags EXCEPT ![here] =
                                      Append(@, [tri |-> job, value |-> value])]
  <2> PICK value : frags' = [frags EXCEPT ![here] = Append(@, [tri |-> job, value |-> value])]
    BY <1>10
  <2> DEFINE new == [tri |-> job, value |-> value]
             old == frags[here]
  <2>1. frags \in [Pixel -> Seq(Fragment)]  BY DEF IInv, TypeOK
  <2>2. /\ frags'[here] = Append(old, new)
        /\ \A px \in Pixel : px # here => frags'[px] = frags[px]
    BY <1>3, <2>1
  <2>3. new.tri = job  OBVIOUS
  <2>4. old \in Seq(Fragment) /\ Len(old) \in Nat /\ DOMAIN old = 1 .. Len(old)
    BY <1>3, <2>1
  <2> HIDE DEF new
  <2>5. /\ DOMAIN frags'[here] = 1 .. Len(old) + 1
        /\ frags'[here][Len(old) + 1] = new
        /\ \A i \in 1 .. Len(old) : frags'[here][i] = old[i]
    <3>1. old \in Seq(Fragment \cup {new}) /\ new \in Fragment \cup {new}
      BY <2>4, SeqMonotonic
    <3> HIDE DEF old
    <3>2. /\ Append(old, new) \in Seq(Fragment \cup {new})
          /\ Len(Append(old, new)) = Len(old) + 1
          /\ \A i \in 1 .. Len(old) : Append(old, new)[i] = old[i]
          /\ Append(old, new)[Len(old) + 1] = new
      BY <3>1, AppendProperties
    <3>3. DOMAIN Append(old, new) = 1 .. Len(old) + 1
      BY <3>2, LenProperties
    <3> QED BY <2>2, <3>2, <3>3
  <2>6. Drawn(here) = {k \in Covering(here) : Past(here, k)} /\ InOrder(here)
    BY <1>3 DEF Progress
  <2>7. \A i \in 1 .. Len(old) : old[i].tri \in Drawn(here)
    BY <2>4 DEF Drawn, old
  <2>8. \A k \in Covering(here) : Past(here, k) => k < job
    <3> TAKE k \in Covering(here)
    <3>1. k \in Nat  BY <1>3, CoveringType
    <3> QED BY <1>1, <1>2, <1>3, <3>1, JobType DEF Past, Scanned
  <2>9. \A i \in 1 .. Len(old) : old[i].tri < job
    BY <2>6, <2>7, <2>8
  <2>10. Drawn(here)' = Drawn(here) \cup {job}
    <3>1. Drawn(here)' = {frags'[here][i].tri : i \in 1 .. Len(old) + 1}
      BY <2>5 DEF Drawn
    <3>2. Drawn(here) = {old[i].tri : i \in 1 .. Len(old)}
      BY <2>4 DEF Drawn, old
    <3>3. \A k : k \in Drawn(here)' <=> k \in Drawn(here) \/ k = job
      <4> TAKE k
      <4>1. k \in Drawn(here)' <=> \E i \in 1 .. Len(old) + 1 : k = frags'[here][i].tri
        BY <3>1
      <4>2. k \in Drawn(here) <=> \E i \in 1 .. Len(old) : k = old[i].tri
        BY <3>2
      <4>3. 1 .. Len(old) + 1 = (1 .. Len(old)) \cup {Len(old) + 1}
        BY <2>4
      <4> QED BY <2>3, <2>5, <4>1, <4>2, <4>3
    <3> QED BY <3>3
  <2>11. \A k \in Covering(here)' : Past(here, k)' <=> Past(here, k) \/ k = job
    <3> TAKE k \in Covering(here)'
    <3>1. k \in Covering(here)  BY <1>3, <1>6
    <3>2. CASE k = job
      <4>1. Past(here, k)'
        BY <1>1, <1>2, <1>3, <1>6, <3>2 DEF Past, Scanned
      <4> QED BY <3>2, <4>1
    <3>3. CASE k # job
      BY <1>3, <1>7, <3>1, <3>3
    <3> QED BY <3>2, <3>3
  <2>12. Drawn(here)' = {k \in Covering(here)' : Past(here, k)'}
    <3>1. job \in Covering(here)'  BY <1>3, <1>6, <1>8, <1>10
    <3>2. Covering(here)' = Covering(here)  BY <1>3, <1>6
    <3> QED BY <2>6, <2>10, <2>11, <3>1, <3>2
  <2>13. InOrder(here)'
    <3> SUFFICES ASSUME NEW i \in DOMAIN frags'[here], NEW j \in DOMAIN frags'[here], i < j
                 PROVE  frags'[here][i].tri < frags'[here][j].tri
      BY DEF InOrder
    <3>1. /\ i \in 1 .. Len(old) /\ frags'[here][i] = old[i]
          /\ j \in 1 .. Len(old) + 1
      BY <2>4, <2>5
    <3>2. CASE j \in 1 .. Len(old)
      BY <2>4, <2>5, <2>6, <3>1, <3>2 DEF InOrder, old
    <3>3. CASE j = Len(old) + 1
      BY <2>3, <2>5, <2>9, <3>1, <3>3
    <3> QED BY <2>4, <3>1, <3>2, <3>3
  <2>14. ASSUME NEW px \in Pixel, px # here
         PROVE  (Drawn(px) = {k \in Covering(px) : Past(px, k)} /\ InOrder(px))'
    <3>1. Drawn(px) = {k \in Covering(px) : Past(px, k)} /\ InOrder(px)
      BY DEF Progress
    <3>2. Drawn(px)' = Drawn(px)  BY <2>2, <2>14 DEF Drawn
    <3>3. InOrder(px)' = InOrder(px)  BY <2>2, <2>14 DEF InOrder
    <3>4. Covering(px)' = Covering(px)  BY <1>6
    <3>5. \A k \in Covering(px) : Past(px, k)' <=> Past(px, k)
      BY <1>7, <2>14
    <3>6. {k \in Covering(px)' : Past(px, k)'} = {k \in Covering(px) : Past(px, k)}
      BY <3>4, <3>5
    <3> QED BY <3>1, <3>2, <3>3, <3>6
  <2>15. Progress'  BY <2>12, <2>13, <2>14 DEF Progress
  <2> QED BY <1>5, <2>15
<1> QED BY <1>9, <1>10 DEF Step

LEMMA WInvHolds == Spec => []WInv
<1>1. Init => WInv
  <2> SUFFICES ASSUME Init PROVE WInv
    OBVIOUS
  <2>1. IInv  BY InvInit
  <2>2. Placed  BY DEF Init, Placed
  <2>3. \A px \in Pixel : DOMAIN frags[px] = {} /\ Covering(px) = {}
    BY DEF Init, NoFragments, Covering
  <2>4. Progress  BY <2>3 DEF Progress, Drawn, InOrder
  <2> QED BY <2>1, <2>2, <2>4 DEF WInv
<1>2. WInv /\ [Next]_vars => WInv'
  <2> SUFFICES ASSUME WInv, [Next]_vars PROVE WInv'
    OBVIOUS
  <2>1. IInv'  BY InvStep DEF WInv
  <2>2. CASE UNCHANGED vars
    <3>1. Placed'
      <4>1. InBin' = InBin /\ Box(t)' = Box(t)
        BY <2>2 DEF vars, locals, InBin, Box, ToTileX, ToTileY, OriginX, OriginY
      <4>2. /\ UNCHANGED <<mesh, tile, job, pc, frags>>
            /\ t' = t /\ box' = box /\ sx' = sx /\ sy' = sy
        BY <2>2 DEF vars, locals
      <4> QED BY <4>1, <4>2 DEF WInv, Placed
    <3>2. Progress'
      <4>1. \A px \in Pixel : \A k \in Covering(px) : Past(px, k)' <=> Past(px, k)
        BY <2>2 DEF vars, locals, Past, Scanned, TileOf
      <4> QED BY <2>2, <4>1, ProgressKept DEF vars, WInv
    <3> QED BY <2>1, <3>1, <3>2 DEF WInv
  <2>3. CASE Next
    BY <2>1, <2>3, SkipPlace, TriSetupPlace, BeginRowPlace, StepPlace, EndRowPlace,
       EndTriPlace, NextTilePlace, FramePlace DEF Next, WInv
  <2> QED BY <2>2, <2>3
<1> QED BY <1>1, <1>2, PTL DEF Spec

(* Drawing by tiles is drawing the whole: when the frame is drawn, every   *)
(* pixel has been reached by exactly the triangles that cover it, in the   *)
(* order they were emitted, whatever tiles they straddle.                  *)
THEOREM TiledDrawsAll == Spec => []TiledIsWhole
<1>1. WInv => TiledIsWhole
  <2> SUFFICES ASSUME WInv, tile = Tiles, NEW px \in Pixel
               PROVE  Drawn(px) = Covering(px) /\ InOrder(px)
    BY DEF TiledIsWhole
  <2>1. TileOf(px) < tile
    <3>1. TileOf(px) \in 0 .. Tiles - 1 /\ Tiles \in Nat
      BY TileOfPixel, JobType DEF WInv
    <3> QED BY <3>1
  <2>2. \A k \in Covering(px) : Past(px, k)  BY <2>1 DEF Past
  <2> QED BY <2>2 DEF WInv, Progress
<1> QED BY <1>1, WInvHolds, PTL

-----------------------------------------------------------------------------
(* A mesh without overlaps *)

Point == [x : Int, y : Int]

(* A line, through two points, with one triangle on either side of it.     *)
Apart(v, w) ==
  \E a, b \in Point :
    /\ a # b
    /\ \A i \in 1 .. 3 : EdgeEval(a, b, v[i]) >= 0
    /\ \A i \in 1 .. 3 : EdgeEval(a, b, w[i]) <= 0

WithoutOverlap(m) ==
  /\ \A k \in DOMAIN m : ~Degenerate(m[k])
  /\ \A k, l \in DOMAIN m : k # l => Apart(m[k], m[l])

LEMMA SignOfProduct ==
  ASSUME NEW f \in Int, NEW g \in Int
  PROVE  /\ f > 0 /\ f * g <= 0 => g <= 0
         /\ f > 0 /\ f * g >= 0 => g >= 0
         /\ f > 0 /\ f * g > 0 => g > 0
         /\ f > 0 /\ f * g = 0 => g = 0
<1>1. ASSUME f > 0, g >= 1 PROVE f * g >= 1
  <2>1. f \in Nat /\ g \in Nat \ {0}  BY <1>1
  <2> QED BY <1>1, <2>1, TimesPositive
<1>2. ASSUME f > 0, g <= -1 PROVE f * g <= -1
  <2>1. f \in Nat /\ -g \in Nat \ {0}  BY <1>2
  <2>2. f * (-g) >= f  BY <2>1, TimesPositive
  <2>3. f * (-g) = -(f * g)  OBVIOUS
  <2> QED BY <1>2, <2>2, <2>3
<1>3. g = 0 => f * g = 0  OBVIOUS
<1>4. f * g \in Int /\ (g >= 1 \/ g <= -1 \/ g = 0)  OBVIOUS
<1> QED BY <1>1, <1>2, <1>3, <1>4

LEMMA ProductSign ==
  ASSUME NEW f \in Int, NEW g \in Int
  PROVE  /\ f >= 0 /\ g >= 0 => f * g >= 0
         /\ f >= 0 /\ g <= 0 => f * g <= 0
         /\ f <= 0 /\ g >= 0 => f * g <= 0
         /\ f > 0 /\ g > 0 => f * g > 0
         /\ f # 0 /\ g # 0 => f * g # 0
         /\ f * f >= 0
<1>1. ASSUME f >= 0, g >= 0 PROVE f * g >= 0  BY <1>1
<1>2. ASSUME f >= 0, g <= 0 PROVE f * g <= 0
  <2>1. f * (-g) >= 0 /\ f * (-g) = -(f * g) /\ f * g \in Int  BY <1>2
  <2> QED BY <2>1
<1>3. ASSUME f <= 0, g >= 0 PROVE f * g <= 0
  <2>1. g * (-f) >= 0 /\ g * (-f) = -(f * g) /\ f * g \in Int  BY <1>3
  <2> QED BY <2>1
<1>4. ASSUME f > 0, g > 0 PROVE f * g > 0
  <2>1. f \in Nat /\ g \in Nat \ {0}  BY <1>4
  <2> QED BY <1>4, <2>1, TimesPositive
<1>5. ASSUME f # 0, g # 0 PROVE f * g # 0
  <2>1. CASE f > 0  BY <1>5, <2>1, SignOfProduct
  <2>2. CASE f < 0
    <3>1. -f \in Int /\ -f > 0 /\ (-f) * g = -(f * g) /\ f * g \in Int  BY <2>2
    <3>2. (-f) * g = 0 => g = 0  BY <3>1, SignOfProduct
    <3> QED BY <1>5, <3>1, <3>2
  <2> QED BY <1>5, <2>1, <2>2
<1>6. f * f >= 0
  <2>1. CASE f >= 0  BY <2>1
  <2>2. CASE f < 0
    <3>1. (-f) * (-f) >= 0 /\ (-f) * (-f) = f * f  BY <2>2
    <3> QED BY <3>1
  <2> QED BY <2>1, <2>2
<1> QED BY <1>1, <1>2, <1>3, <1>4, <1>5, <1>6

LEMMA TwoSides ==
  ASSUME NEW f \in Int, NEW g \in Int, f * g <= 0
  PROVE  /\ f < 0 => g >= 0
         /\ f > 0 => g <= 0
         /\ \A h \in Int : f * h <= 0 /\ g * h <= 0 => f = 0 \/ g = 0 \/ h = 0
<1>1. ASSUME NEW i \in Int, NEW j \in Int, i * j <= 0, i > 0 PROVE j <= 0
  BY <1>1, SignOfProduct
<1>2. ASSUME NEW i \in Int, NEW j \in Int, i * j <= 0, i < 0 PROVE j >= 0
  <2>1. (-i) * (-j) = i * j /\ -i \in Int /\ -j \in Int /\ -i > 0  BY <1>2
  <2>2. -j <= 0  BY <1>2, <2>1, SignOfProduct
  <2> QED BY <2>2
<1>3. ASSUME NEW h \in Int, f * h <= 0, g * h <= 0, f # 0, g # 0, h # 0 PROVE FALSE
  <2>1. CASE f > 0
    <3>1. g <= 0 /\ h <= 0  BY <1>1, <1>3, <2>1
    <3>2. h >= 0  BY <1>2, <1>3, <3>1
    <3> QED BY <1>3, <3>1, <3>2
  <2>2. CASE f < 0
    <3>1. g >= 0 /\ h >= 0  BY <1>2, <1>3, <2>2
    <3>2. h <= 0  BY <1>1, <1>3, <3>1
    <3> QED BY <1>3, <3>1, <3>2
  <2> QED BY <1>3, <2>1, <2>2
<1> QED BY <1>1, <1>2, <1>3

(* Which side of a line a point is on, from another point.                 *)
LEMMA SideFrom ==
  ASSUME NEW ux \in Int, NEW uy \in Int, NEW wx \in Int, NEW wy \in Int,
         NEW ax \in Int, NEW ay \in Int, NEW px \in Int, NEW py \in Int
  PROVE  (wx - ux) * (ay - uy) - (wy - uy) * (ax - ux) =
           ((wx - ux) * (py - uy) - (wy - uy) * (px - ux))
           + ((wx - ux) * (ay - py) - (wy - uy) * (ax - px))
<1> DEFINE dx == wx - ux
           dy == wy - uy
<1>1. dx \in Int /\ dy \in Int  OBVIOUS
<1> HIDE DEF dx, dy
<1>2. dx * (ay - uy) - dy * (ax - ux) =
        (dx * (py - uy) - dy * (px - ux)) + (dx * (ay - py) - dy * (ax - px))
  BY <1>1
<1> QED BY <1>2 DEF dx, dy

Coords(a) == a.x \in Int /\ a.y \in Int

LEMMA EdgeFacts ==
  ASSUME NEW u, Coords(u), NEW w, Coords(w), NEW a, Coords(a)
  PROVE  /\ EdgeEval(u, w, a) \in Int
         /\ EdgeEval(w, u, a) = -EdgeEval(u, w, a)
         /\ EdgeEval(u, w, u) = 0 /\ EdgeEval(u, w, w) = 0
<1>1. /\ u.x \in Int /\ u.y \in Int /\ w.x \in Int /\ w.y \in Int
      /\ a.x \in Int /\ a.y \in Int
  BY DEF Coords
<1>2. \A c : EdgeEval(u, w, c) = (w.x - u.x) * (c.y - u.y) - (w.y - u.y) * (c.x - u.x)
  BY DEF EdgeEval
<1>3. EdgeEval(w, u, a) = (u.x - w.x) * (a.y - w.y) - (u.y - w.y) * (a.x - w.x)
  BY DEF EdgeEval
<1>4. EdgeEval(u, w, a) \in Int  BY <1>1, <1>2
<1>5. EdgeEval(w, u, a) = -EdgeEval(u, w, a)
  BY <1>1, <1>2, <1>3, EdgeReversed
<1>6. EdgeEval(u, w, u) = 0 /\ EdgeEval(u, w, w) = 0
  <2>1. /\ EdgeEval(u, w, u) = (w.x - u.x) * (u.y - u.y) - (w.y - u.y) * (u.x - u.x)
        /\ EdgeEval(u, w, w) = (w.x - u.x) * (w.y - u.y) - (w.y - u.y) * (w.x - u.x)
    BY <1>2
  <2>2. (w.x - u.x) * (w.y - u.y) = (w.y - u.y) * (w.x - u.x)
        /\ (w.x - u.x) * (w.y - u.y) \in Int
        /\ u.y - u.y = 0 /\ u.x - u.x = 0 /\ w.x - u.x \in Int /\ w.y - u.y \in Int
    BY <1>1
  <2> QED BY <2>1, <2>2
<1> QED BY <1>4, <1>5, <1>6

LEMMA Side ==
  ASSUME NEW u, Coords(u), NEW w, Coords(w), NEW a, Coords(a), NEW p, Coords(p)
  PROVE  EdgeEval(u, w, a) = EdgeEval(u, w, p)
           + ((w.x - u.x) * (a.y - p.y) - (w.y - u.y) * (a.x - p.x))
<1>1. /\ u.x \in Int /\ u.y \in Int /\ w.x \in Int /\ w.y \in Int
      /\ a.x \in Int /\ a.y \in Int /\ p.x \in Int /\ p.y \in Int
  BY DEF Coords
<1> QED BY <1>1, SideFrom DEF EdgeEval

(* A triangle's area does not depend on the corner it is taken from.       *)
LEMMA Turned ==
  ASSUME NEW a, Coords(a), NEW b, Coords(b), NEW c, Coords(c)
  PROVE  /\ EdgeEval(b, c, a) = EdgeEval(a, b, c)
         /\ EdgeEval(c, a, b) = EdgeEval(a, b, c)
<1>1. /\ a.x \in Int /\ a.y \in Int /\ b.x \in Int /\ b.y \in Int
      /\ c.x \in Int /\ c.y \in Int
  BY DEF Coords
<1>2. EdgeEval(b, c, a) = (b.x - a.x) * (c.y - a.y) - (c.x - a.x) * (b.y - a.y)
  BY <1>1, Shifted DEF EdgeEval
<1>3. EdgeEval(a, b, c) = (b.x - a.x) * (c.y - a.y) - (b.y - a.y) * (c.x - a.x)
  BY DEF EdgeEval
<1>4. EdgeEval(b, c, a) = EdgeEval(a, b, c)
  <2>1. (c.x - a.x) * (b.y - a.y) = (b.y - a.y) * (c.x - a.x)  BY <1>1
  <2> QED BY <1>2, <1>3, <2>1
<1>5. EdgeEval(c, a, b) = EdgeEval(a, b, c)
  <2>1. EdgeEval(a, c, b) = -EdgeEval(c, a, b) /\ EdgeEval(c, a, b) \in Int
    BY EdgeFacts
  <2>2. EdgeEval(a, c, b) = (c.x - a.x) * (b.y - a.y) - (c.y - a.y) * (b.x - a.x)
    BY DEF EdgeEval
  <2>3. /\ (c.x - a.x) * (b.y - a.y) = (b.y - a.y) * (c.x - a.x)
        /\ (b.x - a.x) * (c.y - a.y) = (c.y - a.y) * (b.x - a.x)
        /\ (b.y - a.y) * (c.x - a.x) \in Int /\ (b.x - a.x) * (c.y - a.y) \in Int
    BY <1>1
  <2> QED BY <1>3, <2>1, <2>2, <2>3
<1> QED BY <1>4, <1>5

-----------------------------------------------------------------------------
LEMMA Weighed ==
  ASSUME NEW e \in Int, NEW f \in Int, NEW dx \in Int, NEW dy \in Int,
         NEW x \in Int, NEW y \in Int
  PROVE  e * (f + (dx * y - dy * x)) = e * f + (dx * (e * y) - dy * (e * x))
<1>1. e * (f + (dx * y - dy * x)) = e * f + (e * (dx * y) - e * (dy * x))
  <2>1. \A g, h \in Int : e * (f + (g - h)) = e * f + (e * g - e * h)  OBVIOUS
  <2>2. dx * y \in Int /\ dy * x \in Int  OBVIOUS
  <2> QED BY <2>1, <2>2
<1>2. e * (dx * y) = dx * (e * y) /\ e * (dy * x) = dy * (e * x)  OBVIOUS
<1> QED BY <1>1, <1>2

LEMMA TimesThree ==
  ASSUME NEW d \in Int, NEW a \in Int, NEW b \in Int, NEW c \in Int
  PROVE  d * a + d * b + d * c = d * (a + b + c)
  OBVIOUS

(* Where a line leaves the corners of a triangle, it leaves what the       *)
(* triangle covers.                                                        *)
LEMMA InsideLine ==
  ASSUME NEW v \in Triangle, NEW p \in Point, NEW u \in Point, NEW w \in Point,
         Area2(v) > 0,
         EdgeEval(v[1], v[2], p) >= 0, EdgeEval(v[2], v[3], p) >= 0, EdgeEval(v[3], v[1], p) >= 0
  PROVE  /\ (\A i \in 1 .. 3 : EdgeEval(u, w, v[i]) <= 0) => EdgeEval(u, w, p) <= 0
         /\ /\ EdgeEval(v[1], v[2], p) > 0 /\ EdgeEval(v[2], v[3], p) > 0
            /\ EdgeEval(v[3], v[1], p) > 0
            /\ \A i \in 1 .. 3 : EdgeEval(u, w, v[i]) >= 0
            /\ \E i \in 1 .. 3 : EdgeEval(u, w, v[i]) # 0
            => EdgeEval(u, w, p) > 0
<1>1. /\ Coords(v[1]) /\ Coords(v[2]) /\ Coords(v[3]) /\ Coords(p) /\ Coords(u) /\ Coords(w)
      /\ \A i \in 1 .. 3 : v[i].x \in Int /\ v[i].y \in Int
      /\ p.x \in Int /\ p.y \in Int /\ u.x \in Int /\ u.y \in Int /\ w.x \in Int /\ w.y \in Int
  BY TriangleType DEF Coords, Point
<1> DEFINE X(i) == v[i].x - p.x
           Y(i) == v[i].y - p.y
           e1 == EdgeEval(v[2], v[3], p)
           e2 == EdgeEval(v[3], v[1], p)
           e3 == EdgeEval(v[1], v[2], p)
           f == EdgeEval(u, w, p)
           F(i) == EdgeEval(u, w, v[i])
           dx == w.x - u.x
           dy == w.y - u.y
<1>2. /\ \A i \in 1 .. 3 : X(i) \in Int /\ Y(i) \in Int
      /\ e1 = X(2) * Y(3) - X(3) * Y(2)
      /\ e2 = X(3) * Y(1) - X(1) * Y(3)
      /\ e3 = X(1) * Y(2) - X(2) * Y(1)
  BY <1>1, Shifted DEF EdgeEval
<1>3. Area2(v) = (X(2) - X(1)) * (Y(3) - Y(1)) - (Y(2) - Y(1)) * (X(3) - X(1))
  BY <1>1, AreaShifted DEF Area2, EdgeEval
<1>4. \A i \in 1 .. 3 : F(i) = f + (dx * Y(i) - dy * X(i)) /\ F(i) \in Int
  <2> TAKE i \in 1 .. 3
  <2>1. Coords(v[i])  BY <1>1 DEF Coords
  <2>2. F(i) = f + (dx * Y(i) - dy * X(i))  BY <1>1, <2>1, Side
  <2> QED BY <1>1, <2>1, <2>2, EdgeFacts
<1>5. f \in Int /\ dx \in Int /\ dy \in Int /\ e1 \in Int /\ e2 \in Int /\ e3 \in Int
  BY <1>1, EdgeFacts
<1> HIDE DEF X, Y, e1, e2, e3, f, F, dx, dy
<1>6. /\ e1 * X(1) + e2 * X(2) + e3 * X(3) = 0
      /\ e1 * Y(1) + e2 * Y(2) + e3 * Y(3) = 0
      /\ Area2(v) = e1 + e2 + e3
  BY <1>2, <1>3, Barycentric
<1>7. e1 * F(1) + e2 * F(2) + e3 * F(3) = (e1 + e2 + e3) * f
  <2>1. /\ X(1) \in Int /\ X(2) \in Int /\ X(3) \in Int
        /\ Y(1) \in Int /\ Y(2) \in Int /\ Y(3) \in Int
    BY <1>2
  <2>2. /\ e1 * F(1) = e1 * f + (dx * (e1 * Y(1)) - dy * (e1 * X(1)))
        /\ e2 * F(2) = e2 * f + (dx * (e2 * Y(2)) - dy * (e2 * X(2)))
        /\ e3 * F(3) = e3 * f + (dx * (e3 * Y(3)) - dy * (e3 * X(3)))
    BY <1>4, <1>5, <2>1, Weighed
  <2> DEFINE ax == e1 * X(1)
             bx == e2 * X(2)
             cx == e3 * X(3)
             ay == e1 * Y(1)
             by == e2 * Y(2)
             cy == e3 * Y(3)
  <2>3. /\ ax \in Int /\ bx \in Int /\ cx \in Int /\ ay \in Int /\ by \in Int /\ cy \in Int
        /\ ax + bx + cx = 0 /\ ay + by + cy = 0
    BY <1>5, <1>6, <2>1
  <2> HIDE DEF ax, bx, cx, ay, by, cy
  <2>4. dx * ay + dx * by + dx * cy = 0 /\ dy * ax + dy * bx + dy * cx = 0
    <3>1. dx * 0 = 0 /\ dy * 0 = 0  BY <1>5
    <3> QED BY <1>5, <2>3, <3>1, TimesThree
  <2>5. e1 * f + e2 * f + e3 * f = (e1 + e2 + e3) * f  BY <1>5
  <2>6. /\ e1 * f \in Int /\ e2 * f \in Int /\ e3 * f \in Int
        /\ dx * ay \in Int /\ dx * by \in Int /\ dx * cy \in Int
        /\ dy * ax \in Int /\ dy * bx \in Int /\ dy * cx \in Int
    BY <1>5, <2>3
  <2>7. e1 * F(1) + e2 * F(2) + e3 * F(3) = e1 * f + e2 * f + e3 * f
    <3>1. /\ e1 * F(1) = e1 * f + (dx * ay - dy * ax)
          /\ e2 * F(2) = e2 * f + (dx * by - dy * bx)
          /\ e3 * F(3) = e3 * f + (dx * cy - dy * cx)
      BY <2>2 DEF ax, bx, cx, ay, by, cy
    <3> QED BY <2>4, <2>6, <3>1
  <2> QED BY <2>5, <2>7
<1>8. e1 >= 0 /\ e2 >= 0 /\ e3 >= 0  BY DEF e1, e2, e3
<1>9. F(1) \in Int /\ F(2) \in Int /\ F(3) \in Int  BY <1>4
<1>10. /\ e1 * F(1) \in Int /\ e2 * F(2) \in Int /\ e3 * F(3) \in Int
       /\ e1 + e2 + e3 \in Int /\ e1 + e2 + e3 > 0
  BY <1>5, <1>6, <1>9
<1>11. ASSUME \A i \in 1 .. 3 : F(i) <= 0 PROVE f <= 0
  <2>1. e1 * F(1) <= 0 /\ e2 * F(2) <= 0 /\ e3 * F(3) <= 0
    BY <1>5, <1>8, <1>9, <1>11, ProductSign
  <2>2. (e1 + e2 + e3) * f <= 0  BY <1>7, <1>10, <2>1
  <2> QED BY <1>5, <1>10, <2>2, SignOfProduct
<1>12. ASSUME e1 > 0, e2 > 0, e3 > 0, \A i \in 1 .. 3 : F(i) >= 0, \E i \in 1 .. 3 : F(i) # 0
       PROVE  f > 0
  <2>1. e1 * F(1) >= 0 /\ e2 * F(2) >= 0 /\ e3 * F(3) >= 0
    BY <1>5, <1>8, <1>9, <1>12, ProductSign
  <2>2. F(1) > 0 \/ F(2) > 0 \/ F(3) > 0  BY <1>9, <1>12
  <2>3. e1 * F(1) > 0 \/ e2 * F(2) > 0 \/ e3 * F(3) > 0
    BY <1>5, <1>9, <1>12, <2>2, ProductSign
  <2>4. (e1 + e2 + e3) * f > 0  BY <1>7, <1>10, <2>1, <2>3
  <2> QED BY <1>5, <1>10, <2>4, SignOfProduct
<1> QED BY <1>11, <1>12 DEF e1, e2, e3, f, F

-----------------------------------------------------------------------------
LEMMA Collinear ==
  ASSUME NEW dx \in Int, NEW dy \in Int, dx # 0 \/ dy # 0,
         NEW x1 \in Int, NEW y1 \in Int, NEW x2 \in Int, NEW y2 \in Int,
         dx * y1 = dy * x1, dx * y2 = dy * x2
  PROVE  x1 * y2 = y1 * x2
<1>1. /\ dx * (x1 * y2 - y1 * x2) = x1 * (dx * y2) - (dx * y1) * x2
      /\ dy * (x1 * y2 - y1 * x2) = (dy * x1) * y2 - y1 * (dy * x2)
  OBVIOUS
<1>2. /\ x1 * (dx * y2) = (dy * x1) * x2
      /\ (dx * y1) * x2 = (dy * x1) * x2
      /\ y1 * (dy * x2) = (dx * y1) * y2
      /\ (dy * x1) * y2 = (dx * y1) * y2
      /\ (dy * x1) * x2 \in Int /\ (dx * y1) * y2 \in Int
  <2>1. x1 * (dx * y2) = x1 * (dy * x2) /\ x1 * (dy * x2) = (dy * x1) * x2  OBVIOUS
  <2>2. y1 * (dy * x2) = y1 * (dx * y2) /\ y1 * (dx * y2) = (dx * y1) * y2  OBVIOUS
  <2> QED BY <2>1, <2>2
<1>3. dx * (x1 * y2 - y1 * x2) = 0 /\ dy * (x1 * y2 - y1 * x2) = 0
  BY <1>1, <1>2
<1>4. x1 * y2 - y1 * x2 \in Int  OBVIOUS
<1>5. x1 * y2 - y1 * x2 = 0  BY <1>3, <1>4, ProductSign
<1>6. x1 * y2 \in Int /\ y1 * x2 \in Int  OBVIOUS
<1> QED BY <1>5, <1>6

(* A triangle with an area is not on a line.                               *)
LEMMA NotFlat ==
  ASSUME NEW v \in Triangle, Area2(v) # 0,
         NEW u, Coords(u), NEW w, Coords(w), u.x # w.x \/ u.y # w.y
  PROVE  \E i \in 1 .. 3 : EdgeEval(u, w, v[i]) # 0
<1> SUFFICES ASSUME \A i \in 1 .. 3 : EdgeEval(u, w, v[i]) = 0 PROVE FALSE
  OBVIOUS
<1>1. /\ Coords(v[1]) /\ Coords(v[2]) /\ Coords(v[3])
      /\ \A i \in 1 .. 3 : v[i].x \in Int /\ v[i].y \in Int
      /\ u.x \in Int /\ u.y \in Int /\ w.x \in Int /\ w.y \in Int
  BY TriangleType DEF Coords
<1> DEFINE dx == w.x - u.x
           dy == w.y - u.y
           x1 == v[2].x - v[1].x
           y1 == v[2].y - v[1].y
           x2 == v[3].x - v[1].x
           y2 == v[3].y - v[1].y
<1>2. /\ dx \in Int /\ dy \in Int /\ (dx # 0 \/ dy # 0)
      /\ x1 \in Int /\ y1 \in Int /\ x2 \in Int /\ y2 \in Int
  BY <1>1
<1>3. /\ EdgeEval(u, w, v[2]) = EdgeEval(u, w, v[1]) + (dx * y1 - dy * x1)
      /\ EdgeEval(u, w, v[3]) = EdgeEval(u, w, v[1]) + (dx * y2 - dy * x2)
  <2>1. ASSUME NEW i \in 2 .. 3
        PROVE  EdgeEval(u, w, v[i]) = EdgeEval(u, w, v[1])
                 + ((w.x - u.x) * (v[i].y - v[1].y) - (w.y - u.y) * (v[i].x - v[1].x))
    <3>1. v[i].x \in Int /\ v[i].y \in Int  BY <1>1
    <3> QED BY <1>1, <3>1, SideFrom DEF EdgeEval
  <2> QED BY <2>1
<1>4. Area2(v) = x1 * y2 - y1 * x2  BY DEF Area2, EdgeEval
<1> HIDE DEF dx, dy, x1, y1, x2, y2
<1>5. dx * y1 = dy * x1 /\ dx * y2 = dy * x2
  <2> DEFINE a1 == dx * y1
             b1 == dy * x1
             a2 == dx * y2
             b2 == dy * x2
  <2>1. a1 \in Int /\ b1 \in Int /\ a2 \in Int /\ b2 \in Int  BY <1>2
  <2>2. 0 = 0 + (a1 - b1) /\ 0 = 0 + (a2 - b2)  BY <1>3
  <2> HIDE DEF a1, b1, a2, b2
  <2>3. a1 = b1 /\ a2 = b2  BY <2>1, <2>2
  <2> QED BY <2>3 DEF a1, b1, a2, b2
<1>6. x1 * y2 = y1 * x2 /\ x1 * y2 \in Int  BY <1>2, <1>5, Collinear
<1> QED BY <1>4, <1>6

-----------------------------------------------------------------------------
LEMMA OnOneLine ==
  ASSUME NEW ax \in Int, NEW ay \in Int, NEW bx \in Int, NEW by \in Int,
         NEW dx \in Int, NEW dy \in Int, ax * by = ay * bx
  PROVE  (bx * bx + by * by) * (dx * ay - dy * ax) = (ax * bx + ay * by) * (dx * by - dy * bx)
<1>1. (bx * bx + by * by) * (dx * ay - dy * ax) - (ax * bx + ay * by) * (dx * by - dy * bx) =
        (ay * bx - ax * by) * (dx * bx + dy * by)
  OBVIOUS
<1>2. (ay * bx - ax * by) = 0  OBVIOUS
<1> DEFINE l == (bx * bx + by * by) * (dx * ay - dy * ax)
           r == (ax * bx + ay * by) * (dx * by - dy * bx)
           s == dx * bx + dy * by
<1>3. l \in Int /\ r \in Int /\ s \in Int  OBVIOUS
<1>4. l - r = 0 * s  BY <1>1, <1>2
<1> HIDE DEF l, r, s
<1>5. l = r  BY <1>3, <1>4
<1> QED BY <1>5 DEF l, r

(* A line with a point strictly between two others on it.                  *)
LEMMA Between ==
  ASSUME NEW u, Coords(u), NEW w, Coords(w), NEW a, Coords(a), NEW b, Coords(b),
         NEW p, Coords(p), StrictlyBetween(a, b, p)
  PROVE  /\ EdgeEval(u, w, a) <= 0 /\ EdgeEval(u, w, b) <= 0 => EdgeEval(u, w, p) <= 0
         /\ EdgeEval(u, w, a) >= 0 /\ EdgeEval(u, w, b) >= 0 /\ EdgeEval(u, w, p) <= 0
              => EdgeEval(u, w, a) = 0 /\ EdgeEval(u, w, b) = 0
<1> DEFINE ax == a.x - p.x
           ay == a.y - p.y
           bx == b.x - p.x
           by == b.y - p.y
           dx == w.x - u.x
           dy == w.y - u.y
           f == EdgeEval(u, w, p)
           ga == dx * ay - dy * ax
           gb == dx * by - dy * bx
           n == bx * bx + by * by
           m == ax * bx + ay * by
<1>1. /\ u.x \in Int /\ u.y \in Int /\ w.x \in Int /\ w.y \in Int
      /\ a.x \in Int /\ a.y \in Int /\ b.x \in Int /\ b.y \in Int
      /\ p.x \in Int /\ p.y \in Int
  BY DEF Coords
<1>2. /\ ax \in Int /\ ay \in Int /\ bx \in Int /\ by \in Int /\ dx \in Int /\ dy \in Int
  BY <1>1
<1>3. EdgeEval(u, w, a) = f + ga /\ EdgeEval(u, w, b) = f + gb /\ f \in Int
  <2>1. EdgeEval(u, w, a) = f + ga  BY <1>1, SideFrom DEF EdgeEval
  <2>2. EdgeEval(u, w, b) = f + gb  BY <1>1, SideFrom DEF EdgeEval
  <2> QED BY <2>1, <2>2, EdgeFacts
<1>4. ax * by - bx * ay = 0
  BY <1>1, Shifted DEF StrictlyBetween, EdgeEval
<1>5. m < 0
  <2>1. (p.x - a.x) * (p.x - b.x) + (p.y - a.y) * (p.y - b.y) < 0
    BY DEF StrictlyBetween
  <2>2. \A i, j, k \in Int : (k - i) * (k - j) = (i - k) * (j - k)
    <3> TAKE i, j, k \in Int
    <3>1. k - i = -(i - k) /\ k - j = -(j - k)  OBVIOUS
    <3>2. \A g, h \in Int : (-g) * (-h) = g * h  OBVIOUS
    <3> QED BY <3>1, <3>2
  <2> QED BY <1>1, <2>1, <2>2
<1> HIDE DEF ax, ay, bx, by, dx, dy, f
<1>6. ax * by = ay * bx
  <2>1. ax * by \in Int /\ bx * ay \in Int /\ bx * ay = ay * bx  BY <1>2
  <2> QED BY <1>4, <2>1
<1>7. n * ga = m * gb
  BY <1>2, <1>6, OnOneLine
<1>8. n > 0
  <2>1. bx * bx >= 0 /\ by * by >= 0 /\ bx * bx \in Int /\ by * by \in Int
    BY <1>2, ProductSign
  <2>2. bx # 0 \/ by # 0
    <3>1. ASSUME bx = 0, by = 0 PROVE FALSE
      BY <1>2, <1>5, <3>1
    <3> QED BY <3>1
  <2>3. bx * bx # 0 \/ by * by # 0  BY <1>2, <2>2, ProductSign
  <2> QED BY <2>1, <2>3
<1>9. n \in Int /\ m \in Int /\ ga \in Int /\ gb \in Int
  BY <1>2
<1> HIDE DEF n, m, ga, gb
<1>10. n * ga \in Int /\ m * gb \in Int  BY <1>9
<1>11. ~(ga < 0 /\ gb < 0)
  <2> SUFFICES ASSUME ga < 0, gb < 0 PROVE FALSE  OBVIOUS
  <2>1. n * (-ga) > 0 /\ n * (-ga) = -(n * ga)  BY <1>8, <1>9, ProductSign
  <2>2. (-m) * (-gb) > 0 /\ (-m) * (-gb) = m * gb  BY <1>5, <1>9, ProductSign
  <2> QED BY <1>7, <1>10, <2>1, <2>2
<1>12. ASSUME ga >= 0, gb >= 0 PROVE ga = 0 /\ gb = 0
  <2>1. n * ga >= 0 /\ m * gb <= 0  BY <1>5, <1>8, <1>9, <1>12, ProductSign
  <2>2. n * ga = 0 /\ m * gb = 0  BY <1>7, <1>10, <2>1
  <2> QED BY <1>5, <1>8, <1>9, <2>2, ProductSign
<1>13. ASSUME f + ga <= 0, f + gb <= 0 PROVE f <= 0
  BY <1>3, <1>9, <1>11, <1>13
<1>14. ASSUME f + ga >= 0, f + gb >= 0, f <= 0 PROVE f + ga = 0 /\ f + gb = 0
  BY <1>3, <1>9, <1>12, <1>14
<1>15. /\ EdgeEval(u, w, a) <= 0 /\ EdgeEval(u, w, b) <= 0 => f <= 0
       /\ EdgeEval(u, w, a) >= 0 /\ EdgeEval(u, w, b) >= 0 /\ f <= 0
            => EdgeEval(u, w, a) = 0 /\ EdgeEval(u, w, b) = 0
  BY <1>3, <1>13, <1>14
<1> QED BY <1>15 DEF f

LEMMA Exchange ==
  ASSUME NEW dx \in Int, NEW dy \in Int, NEW bx \in Int, NEW by \in Int,
         NEW x \in Int, NEW y \in Int, NEW z \in Int, NEW t1 \in Int,
         dx * by - dy * bx = 0
  PROVE  (dx * y - dy * x) * (bx * t1 - by * z) = (dx * t1 - dy * z) * (bx * y - by * x)
<1> DEFINE l == (dx * y - dy * x) * (bx * t1 - by * z)
           r == (dx * t1 - dy * z) * (bx * y - by * x)
           s == x * t1 - y * z
<1>1. l - r = (dx * by - dy * bx) * s
  OBVIOUS
<1>2. l \in Int /\ r \in Int /\ s \in Int  OBVIOUS
<1>3. l - r = 0 * s  BY <1>1
<1> HIDE DEF l, r, s
<1>4. l = r  BY <1>2, <1>3
<1> QED BY <1>4 DEF l, r

(* Two pairs of points on one line measure distances to it in proportion.  *)
LEMMA SameLine ==
  ASSUME NEW u, Coords(u), NEW w, Coords(w), NEW a, Coords(a), NEW b, Coords(b),
         EdgeEval(u, w, a) = 0, EdgeEval(u, w, b) = 0,
         NEW c, Coords(c), NEW d, Coords(d)
  PROVE  EdgeEval(u, w, c) * EdgeEval(a, b, d) = EdgeEval(u, w, d) * EdgeEval(a, b, c)
<1> DEFINE dx == w.x - u.x
           dy == w.y - u.y
           bx == b.x - a.x
           by == b.y - a.y
           x == c.x - a.x
           y == c.y - a.y
           z == d.x - a.x
           t1 == d.y - a.y
<1>1. /\ u.x \in Int /\ u.y \in Int /\ w.x \in Int /\ w.y \in Int
      /\ a.x \in Int /\ a.y \in Int /\ b.x \in Int /\ b.y \in Int
      /\ c.x \in Int /\ c.y \in Int /\ d.x \in Int /\ d.y \in Int
  BY DEF Coords
<1>2. EdgeEval(a, b, d) = bx * t1 - by * z /\ EdgeEval(a, b, c) = bx * y - by * x
  BY DEF EdgeEval
<1>3. EdgeEval(u, w, b) = EdgeEval(u, w, a) + (dx * by - dy * bx)
  BY <1>1, SideFrom DEF EdgeEval
<1>4. EdgeEval(u, w, c) = EdgeEval(u, w, a) + (dx * y - dy * x)
  BY <1>1, SideFrom DEF EdgeEval
<1>5. EdgeEval(u, w, d) = EdgeEval(u, w, a) + (dx * t1 - dy * z)
  BY <1>1, SideFrom DEF EdgeEval
<1>6. /\ dx \in Int /\ dy \in Int /\ bx \in Int /\ by \in Int
      /\ x \in Int /\ y \in Int /\ z \in Int /\ t1 \in Int
  BY <1>1
<1> HIDE DEF dx, dy, bx, by, x, y, z, t1
<1>7. /\ dx * by - dy * bx \in Int /\ dx * y - dy * x \in Int /\ dx * t1 - dy * z \in Int
  BY <1>6
<1>8. /\ dx * by - dy * bx = 0
      /\ EdgeEval(u, w, c) = dx * y - dy * x
      /\ EdgeEval(u, w, d) = dx * t1 - dy * z
  BY <1>3, <1>4, <1>5, <1>7
<1> QED BY <1>2, <1>6, <1>8, Exchange

LEMMA Corners ==
  ASSUME NEW v \in Triangle
  PROVE  \A i \in 1 .. 3 : Coords(v[i]) /\ v[i] \in Vertex
  BY TriangleType DEF Coords

LEMMA Distinct ==
  ASSUME NEW a, Coords(a), NEW b, Coords(b), NEW p, Coords(p), StrictlyBetween(a, b, p)
  PROVE  a.x # b.x \/ a.y # b.y
<1> SUFFICES ASSUME a.x = b.x, a.y = b.y PROVE FALSE  OBVIOUS
<1>1. p.x - a.x \in Int /\ p.y - a.y \in Int  BY DEF Coords
<1>2. (p.x - a.x) * (p.x - a.x) + (p.y - a.y) * (p.y - a.y) < 0
  BY DEF StrictlyBetween
<1>3. /\ (p.x - a.x) * (p.x - a.x) >= 0 /\ (p.y - a.y) * (p.y - a.y) >= 0
      /\ (p.x - a.x) * (p.x - a.x) \in Int /\ (p.y - a.y) * (p.y - a.y) \in Int
  BY <1>1, ProductSign
<1> QED BY <1>2, <1>3

(* A line between two triangles that goes past an edge of the first, not   *)
(* beyond a point in the middle of it, is the line of the edge; so the     *)
(* two are on different sides of the edge.                                 *)
LEMMA OtherSide ==
  ASSUME NEW v \in Triangle, Area2(v) # 0, NEW w \in Triangle,
         NEW i \in 1 .. 3, NEW j \in 1 .. 3,
         NEW p \in Point, StrictlyBetween(v[i], v[j], p),
         NEW r \in Point, NEW s \in Point, r # s,
         \A n \in 1 .. 3 : EdgeEval(r, s, v[n]) >= 0,
         \A n \in 1 .. 3 : EdgeEval(r, s, w[n]) <= 0,
         EdgeEval(r, s, p) <= 0
  PROVE  \A c, n \in 1 .. 3 :
           EdgeEval(v[i], v[j], v[c]) * EdgeEval(v[i], v[j], w[n]) <= 0
<1> DEFINE F(x) == EdgeEval(r, s, x)
           H(x) == EdgeEval(v[i], v[j], x)
<1>1. /\ Coords(p) /\ Coords(r) /\ Coords(s) /\ (r.x # s.x \/ r.y # s.y)
      /\ \A n \in 1 .. 3 : Coords(v[n]) /\ Coords(w[n])
  BY Corners DEF Coords, Point
<1>2. F(v[i]) = 0 /\ F(v[j]) = 0
  BY <1>1, Between
<1>3. \A n \in 1 .. 3 : F(v[n]) \in Int /\ H(v[n]) \in Int /\ F(w[n]) \in Int /\ H(w[n]) \in Int
  BY <1>1, EdgeFacts
<1>4. /\ \A c, n \in 1 .. 3 : F(v[c]) * H(w[n]) = F(w[n]) * H(v[c])
      /\ \A c, n \in 1 .. 3 : F(v[c]) * H(v[n]) = F(v[n]) * H(v[c])
  <2>1. ASSUME NEW c \in 1 .. 3, NEW n \in 1 .. 3
        PROVE  F(v[c]) * H(w[n]) = F(w[n]) * H(v[c])
    <3>1. Coords(v[c]) /\ Coords(w[n]) /\ Coords(v[i]) /\ Coords(v[j])  BY <1>1
    <3> QED BY <1>1, <1>2, <3>1, SameLine
  <2>2. ASSUME NEW c \in 1 .. 3, NEW n \in 1 .. 3
        PROVE  F(v[c]) * H(v[n]) = F(v[n]) * H(v[c])
    <3>1. Coords(v[c]) /\ Coords(v[n]) /\ Coords(v[i]) /\ Coords(v[j])  BY <1>1
    <3> QED BY <1>1, <1>2, <3>1, SameLine
  <2> QED BY <2>1, <2>2
<1> PICK top \in 1 .. 3 : F(v[top]) # 0
  BY <1>1, NotFlat
<1> TAKE c \in 1 .. 3, n \in 1 .. 3
<1>5. F(v[top]) > 0 /\ F(v[c]) >= 0 /\ F(w[n]) <= 0
  BY <1>3
<1> HIDE DEF F, H
<1>6. CASE F(v[c]) = 0
  <2>1. F(v[top]) * H(v[c]) = F(v[c]) * H(v[top])  BY <1>4
  <2>2. 0 * H(v[top]) = 0 /\ 0 * H(w[n]) = 0  BY <1>3
  <2>3. H(v[c]) = 0  BY <1>3, <1>5, <1>6, <2>1, <2>2, SignOfProduct
  <2> QED BY <2>2, <2>3 DEF H
<1>7. CASE F(v[c]) > 0
  <2> DEFINE f == F(v[c])
             g == F(w[n])
             h == H(v[c])
             k == H(w[n])
  <2>1. f \in Int /\ g \in Int /\ h \in Int /\ k \in Int /\ f > 0 /\ g <= 0
    BY <1>3, <1>5, <1>7
  <2>2. f * k = g * h  BY <1>4
  <2> HIDE DEF f, g, h, k
  <2>3. f * (h * k) = h * (f * k) /\ h * (g * h) = (h * h) * g  BY <2>1
  <2>4. h * h >= 0 /\ h * h \in Int  BY <2>1, ProductSign
  <2>5. (h * h) * g <= 0  BY <2>1, <2>4, ProductSign
  <2>6. f * (h * k) <= 0 /\ h * k \in Int  BY <2>1, <2>2, <2>3, <2>5
  <2>7. h * k <= 0  BY <2>1, <2>6, SignOfProduct
  <2> QED BY <2>7 DEF h, k, H
<1> QED BY <1>3, <1>5, <1>6, <1>7

(* Of a triangle, only the edge a point is in the middle of decides.       *)
LEMMA OnlyThisEdge ==
  ASSUME NEW a, Coords(a), NEW b, Coords(b), NEW c, Coords(c), NEW p, Coords(p),
         StrictlyBetween(a, b, p), EdgeEval(a, b, c) > 0
  PROVE  EdgeEval(b, c, p) > 0 /\ EdgeEval(c, a, p) > 0
<1>1. /\ EdgeEval(b, c, a) > 0 /\ EdgeEval(b, c, b) = 0
      /\ EdgeEval(c, a, b) > 0 /\ EdgeEval(c, a, a) = 0
      /\ EdgeEval(b, c, p) \in Int /\ EdgeEval(c, a, p) \in Int
      /\ EdgeEval(b, c, a) \in Int /\ EdgeEval(c, a, b) \in Int
  BY Turned, EdgeFacts
<1>2. ~(EdgeEval(b, c, p) <= 0)
  <2>1. EdgeEval(b, c, p) <= 0 => EdgeEval(b, c, a) = 0
    BY <1>1, Between
  <2> QED BY <1>1, <2>1
<1>3. ~(EdgeEval(c, a, p) <= 0)
  <2>1. EdgeEval(c, a, p) <= 0 => EdgeEval(c, a, b) = 0
    BY <1>1, Between
  <2> QED BY <1>1, <2>1
<1> QED BY <1>1, <1>2, <1>3

(* Which way round the edge runs in the triangle tri_setup leaves.         *)
LEMMA Owner ==
  ASSUME NEW v \in Triangle, NEW p \in Point,
         NEW i \in 1 .. 3, NEW j \in 1 .. 3, NEW c \in 1 .. 3,
         StrictlyBetween(v[i], v[j], p), EdgeEval(v[i], v[j], v[c]) > 0
  PROVE  Inside(Wound(v), p) <=> Inclusive(v[i], v[j], p)
<1>1. Coords(p) /\ \A n \in 1 .. 3 : Coords(v[n])
  BY Corners DEF Coords, Point
<1>2. /\ EdgeEval(v[j], v[c], p) > 0 /\ EdgeEval(v[c], v[i], p) > 0
  BY <1>1, OnlyThisEdge
<1>3. Inside(<<v[i], v[j], v[c]>>, p) <=> Inclusive(v[i], v[j], p)
  BY <1>2 DEF Inside, Inclusive
<1>4. i # j /\ i # c /\ j # c
  <2>1. /\ EdgeEval(v[i], v[j], v[i]) = 0 /\ EdgeEval(v[i], v[j], v[j]) = 0
    BY <1>1, EdgeFacts
  <2>2. EdgeEval(v[i], v[i], v[c]) = 0
    <3>1. EdgeEval(v[i], v[c], v[i]) = 0 /\ EdgeEval(v[i], v[i], v[c]) = EdgeEval(v[i], v[c], v[i])
      BY <1>1, EdgeFacts, Turned
    <3> QED BY <3>1
  <2> QED BY <2>1, <2>2
<1>5. /\ EdgeEval(v[j], v[c], v[i]) = EdgeEval(v[i], v[j], v[c])
      /\ EdgeEval(v[c], v[i], v[j]) = EdgeEval(v[i], v[j], v[c])
      /\ EdgeEval(v[j], v[i], v[c]) = -EdgeEval(v[i], v[j], v[c])
      /\ EdgeEval(v[c], v[j], v[i]) = -EdgeEval(v[j], v[c], v[i])
      /\ EdgeEval(v[i], v[c], v[j]) = -EdgeEval(v[c], v[i], v[j])
      /\ EdgeEval(v[i], v[j], v[c]) \in Int
  BY <1>1, EdgeFacts, Turned
<1>6. CASE <<i, j, c>> \in {<<1, 2, 3>>, <<2, 3, 1>>, <<3, 1, 2>>}
  <2>1. Area2(v) > 0  BY <1>5, <1>6 DEF Area2
  <2>2. Wound(v) = v  BY <1>5, <2>1, <1>6 DEF Wound, Area2
  <2>3. Inside(v, p) <=> Inside(<<v[i], v[j], v[c]>>, p)
    BY <1>6 DEF Inside
  <2> QED BY <1>3, <2>2, <2>3
<1>7. CASE <<i, j, c>> \in {<<2, 1, 3>>, <<1, 3, 2>>, <<3, 2, 1>>}
  <2>1. Area2(v) < 0  BY <1>5, <1>7 DEF Area2
  <2>2. Wound(v) = <<v[1], v[3], v[2]>>  BY <2>1 DEF Wound
  <2>3. Inside(<<v[1], v[3], v[2]>>, p) <=> Inside(<<v[i], v[j], v[c]>>, p)
    BY <1>7 DEF Inside
  <2> QED BY <1>3, <2>2, <2>3
<1>8. \/ <<i, j, c>> \in {<<1, 2, 3>>, <<2, 3, 1>>, <<3, 1, 2>>}
      \/ <<i, j, c>> \in {<<2, 1, 3>>, <<1, 3, 2>>, <<3, 2, 1>>}
  BY <1>4
<1> QED BY <1>6, <1>7, <1>8

-----------------------------------------------------------------------------
(* The closed triangle: where Inside is, whatever the fill rule says.      *)
LEMMA WoundInside ==
  ASSUME NEW v \in Triangle, ~Degenerate(v), NEW p \in Point, Inside(Wound(v), p),
         NEW u \in Point, NEW w \in Point,
         \A i \in 1 .. 3 : EdgeEval(u, w, v[i]) <= 0
  PROVE  EdgeEval(u, w, p) <= 0
<1> PICK t1 : t1 = Wound(v)  OBVIOUS
<1>1. t1 \in Triangle /\ Area2(t1) > 0  BY WoundPositive
<1>2. \A i, j \in 1 .. 3 : EdgeEval(t1[i], t1[j], p) \in Int
  BY <1>1, Corners, EdgeFacts DEF Coords, Point
<1>3. /\ EdgeEval(t1[1], t1[2], p) >= 0 /\ EdgeEval(t1[2], t1[3], p) >= 0
      /\ EdgeEval(t1[3], t1[1], p) >= 0
  BY <1>2 DEF Inside, Inclusive
<1>4. \A i \in 1 .. 3 : EdgeEval(u, w, t1[i]) <= 0
  BY DEF Wound
<1> QED BY <1>1, <1>3, <1>4, InsideLine

(* Strictly inside a triangle: it covers the point, and no line with the   *)
(* triangle on one side has the point on the other.                        *)
LEMMA InTheMiddle ==
  ASSUME NEW v \in Triangle, NEW p \in Point, StrictlyIn(v, p)
  PROVE  /\ Inside(Wound(v), p)
         /\ \A u, w \in Point :
              u # w /\ (\A i \in 1 .. 3 : EdgeEval(u, w, v[i]) >= 0) => EdgeEval(u, w, p) > 0
<1> DEFINE t1 == Wound(v)
<1>1. /\ \A i \in 1 .. 3 : Coords(v[i])
      /\ \A i \in 1 .. 3 : v[i].x \in Int /\ v[i].y \in Int
      /\ Coords(p) /\ p.x \in Int /\ p.y \in Int
  BY Corners, TriangleType DEF Coords, Point
<1>2. /\ EdgeEval(v[1], v[2], p) \in Int /\ EdgeEval(v[2], v[3], p) \in Int
      /\ EdgeEval(v[3], v[1], p) \in Int
      /\ EdgeEval(v[2], v[1], p) = -EdgeEval(v[1], v[2], p)
      /\ EdgeEval(v[3], v[2], p) = -EdgeEval(v[2], v[3], p)
      /\ EdgeEval(v[1], v[3], p) = -EdgeEval(v[3], v[1], p)
  BY <1>1, EdgeFacts
<1>3. Area2(v) = EdgeEval(v[1], v[2], p) + EdgeEval(v[2], v[3], p) + EdgeEval(v[3], v[1], p)
  <2> DEFINE x1 == v[1].x - p.x
             y1 == v[1].y - p.y
             x2 == v[2].x - p.x
             y2 == v[2].y - p.y
             x3 == v[3].x - p.x
             y3 == v[3].y - p.y
  <2>1. /\ EdgeEval(v[1], v[2], p) = x1 * y2 - x2 * y1
        /\ EdgeEval(v[2], v[3], p) = x2 * y3 - x3 * y2
        /\ EdgeEval(v[3], v[1], p) = x3 * y1 - x1 * y3
    BY <1>1, Shifted DEF EdgeEval
  <2>2. Area2(v) = (x2 - x1) * (y3 - y1) - (y2 - y1) * (x3 - x1)
    BY <1>1, AreaShifted DEF Area2, EdgeEval
  <2>3. /\ x1 \in Int /\ y1 \in Int /\ x2 \in Int /\ y2 \in Int /\ x3 \in Int /\ y3 \in Int
    BY <1>1
  <2> HIDE DEF x1, y1, x2, y2, x3, y3
  <2>4. (x2 - x1) * (y3 - y1) - (y2 - y1) * (x3 - x1) =
          (x2 * y3 - x3 * y2) + (x3 * y1 - x1 * y3) + (x1 * y2 - x2 * y1)
    BY <2>3, Barycentric
  <2> QED BY <1>2, <2>1, <2>2, <2>4
<1>4. \/ /\ EdgeEval(v[1], v[2], p) > 0 /\ EdgeEval(v[2], v[3], p) > 0
         /\ EdgeEval(v[3], v[1], p) > 0
      \/ /\ EdgeEval(v[1], v[2], p) < 0 /\ EdgeEval(v[2], v[3], p) < 0
         /\ EdgeEval(v[3], v[1], p) < 0
  BY DEF StrictlyIn
<1>5. /\ t1 \in Triangle /\ Area2(t1) > 0
      /\ EdgeEval(t1[1], t1[2], p) > 0 /\ EdgeEval(t1[2], t1[3], p) > 0
      /\ EdgeEval(t1[3], t1[1], p) > 0
  <2>1. CASE Area2(v) > 0
    <3>1. t1 = v  BY <1>2, <1>3, <2>1 DEF Wound
    <3>2. /\ EdgeEval(v[1], v[2], p) > 0 /\ EdgeEval(v[2], v[3], p) > 0
          /\ EdgeEval(v[3], v[1], p) > 0
      BY <1>2, <1>3, <1>4, <2>1
    <3> QED BY <2>1, <3>1, <3>2
  <2>2. CASE Area2(v) < 0
    <3>1. t1 = <<v[1], v[3], v[2]>>  BY <2>2 DEF Wound
    <3>2. /\ EdgeEval(v[1], v[2], p) < 0 /\ EdgeEval(v[2], v[3], p) < 0
          /\ EdgeEval(v[3], v[1], p) < 0
      BY <1>2, <1>3, <1>4, <2>2
    <3>3. Area2(<<v[1], v[3], v[2]>>) = -Area2(v) /\ Area2(v) \in Int
      <4>1. /\ EdgeEval(v[1], v[3], v[2]) = -EdgeEval(v[3], v[1], v[2])
            /\ EdgeEval(v[1], v[2], v[3]) \in Int
        BY <1>1, EdgeFacts
      <4>2. EdgeEval(v[3], v[1], v[2]) = EdgeEval(v[1], v[2], v[3])  BY <1>1, Turned
      <4> QED BY <4>1, <4>2 DEF Area2
    <3> HIDE DEF t1
    <3>4. t1[1] = v[1] /\ t1[2] = v[3] /\ t1[3] = v[2]  BY <3>1
    <3>5. t1 \in Triangle  BY WoundPositive DEF t1
    <3>6. Area2(t1) > 0  BY <2>2, <3>1, <3>3
    <3> QED BY <1>2, <3>2, <3>4, <3>5, <3>6
  <2> QED BY <1>2, <1>3, <1>4, <2>1, <2>2
<1>6. Inside(t1, p)  BY <1>5 DEF Inside, Inclusive
<1>7. ASSUME NEW u \in Point, NEW w \in Point, u # w,
             \A i \in 1 .. 3 : EdgeEval(u, w, v[i]) >= 0
      PROVE  EdgeEval(u, w, p) > 0
  <2>1. \A i \in 1 .. 3 : EdgeEval(u, w, t1[i]) >= 0  BY <1>7 DEF Wound
  <2>2. Coords(u) /\ Coords(w) /\ (u.x # w.x \/ u.y # w.y)
    BY <1>7 DEF Coords, Point
  <2> HIDE DEF t1
  <2>3. Area2(t1) # 0  BY <1>5
  <2>5. /\ EdgeEval(t1[1], t1[2], p) \in Int /\ EdgeEval(t1[2], t1[3], p) \in Int
        /\ EdgeEval(t1[3], t1[1], p) \in Int
    BY <1>1, <1>5, Corners, EdgeFacts
  <2>6. /\ EdgeEval(t1[1], t1[2], p) >= 0 /\ EdgeEval(t1[2], t1[3], p) >= 0
        /\ EdgeEval(t1[3], t1[1], p) >= 0
    BY <1>5, <2>5
  <2>4. \E i \in 1 .. 3 : EdgeEval(u, w, t1[i]) # 0
    BY <1>5, <2>2, <2>3, NotFlat
  <2> QED BY <1>5, <2>1, <2>4, <2>6, InsideLine
<1> QED BY <1>6, <1>7

-----------------------------------------------------------------------------
(* In a mesh without overlaps *)

Owners(m, p) == {k \in DOMAIN m : Inside(Wound(m[k]), p)}

LEMMA OneInTheMiddle ==
  ASSUME NEW m \in Seq(Triangle), WithoutOverlap(m), NEW p \in Point,
         NEW k \in DOMAIN m, StrictlyIn(m[k], p)
  PROVE  Owners(m, p) = {k}
<1>1. \A l \in DOMAIN m : m[l] \in Triangle /\ ~Degenerate(m[l])
  BY DEF WithoutOverlap
<1>2. k \in Owners(m, p)  BY <1>1, InTheMiddle DEF Owners
<1>3. ASSUME NEW l \in Owners(m, p), l # k PROVE FALSE
  <2>1. l \in DOMAIN m /\ Inside(Wound(m[l]), p)  BY DEF Owners
  <2> PICK u \in Point, w \in Point :
        /\ u # w
        /\ \A i \in 1 .. 3 : EdgeEval(u, w, m[k][i]) >= 0
        /\ \A i \in 1 .. 3 : EdgeEval(u, w, m[l][i]) <= 0
    BY <1>3, <2>1 DEF WithoutOverlap, Apart
  <2>2. EdgeEval(u, w, p) > 0  BY <1>1, InTheMiddle
  <2>3. EdgeEval(u, w, p) <= 0  BY <1>1, <2>1, WoundInside
  <2>4. EdgeEval(u, w, p) \in Int  BY EdgeFacts DEF Coords, Point
  <2> QED BY <2>2, <2>3, <2>4
<1> QED BY <1>2, <1>3

(* The middle of an edge is the middle of the edge read the other way.     *)
LEMMA EitherWayBetween ==
  ASSUME NEW a, Coords(a), NEW b, Coords(b), NEW p, Coords(p), StrictlyBetween(a, b, p)
  PROVE  StrictlyBetween(b, a, p)
<1>1. EdgeEval(b, a, p) = 0
  <2>1. EdgeEval(a, b, p) = 0 /\ EdgeEval(b, a, p) = -EdgeEval(a, b, p)
    BY EdgeFacts DEF StrictlyBetween
  <2>2. \A i \in Int : i = 0 => -i >= 0 /\ -i <= 0  OBVIOUS
  <2>3. EdgeEval(a, b, p) \in Int /\ EdgeEval(b, a, p) \in Int  BY EdgeFacts
  <2>4. EdgeEval(b, a, p) >= 0 /\ EdgeEval(b, a, p) <= 0  BY <2>1, <2>2, <2>3
  <2> QED BY <2>3, <2>4
<1>2. \A i, j \in Int : i * j = j * i  OBVIOUS
<1>3. /\ p.x \in Int /\ p.y \in Int /\ a.x \in Int /\ a.y \in Int
      /\ b.x \in Int /\ b.y \in Int
  BY DEF Coords
<1>4. /\ p.x - a.x \in Int /\ p.x - b.x \in Int
      /\ p.y - a.y \in Int /\ p.y - b.y \in Int
  BY <1>3
<1>5. /\ (p.x - a.x) * (p.x - b.x) = (p.x - b.x) * (p.x - a.x)
      /\ (p.y - a.y) * (p.y - b.y) = (p.y - b.y) * (p.y - a.y)
  BY <1>2, <1>4, Zenon
<1> QED BY <1>1, <1>5 DEF StrictlyBetween

HasEdge(v, a, b) == \E i, j \in 1 .. 3 : v[i] = a /\ v[j] = b

(* OtherSide and Owner of an edge given by its ends.                       *)
LEMMA AcrossTheEdge ==
  ASSUME NEW v \in Triangle, Area2(v) # 0, NEW w \in Triangle,
         NEW a, NEW b, HasEdge(v, a, b), NEW p \in Point, StrictlyBetween(a, b, p),
         NEW r \in Point, NEW s \in Point, r # s,
         \A n \in 1 .. 3 : EdgeEval(r, s, v[n]) >= 0,
         \A n \in 1 .. 3 : EdgeEval(r, s, w[n]) <= 0,
         EdgeEval(r, s, p) <= 0
  PROVE  \A c, n \in 1 .. 3 : EdgeEval(a, b, v[c]) * EdgeEval(a, b, w[n]) <= 0
<1> PICK i \in 1 .. 3, j \in 1 .. 3 : v[i] = a /\ v[j] = b  BY DEF HasEdge
<1>1. StrictlyBetween(v[i], v[j], p)  OBVIOUS
<1>2. \A c, n \in 1 .. 3 :
        EdgeEval(v[i], v[j], v[c]) * EdgeEval(v[i], v[j], w[n]) <= 0
  BY <1>1, OtherSide
<1> QED BY <1>2

LEMMA EdgeOwner ==
  ASSUME NEW v \in Triangle, NEW p \in Point, NEW a, NEW b, HasEdge(v, a, b),
         NEW c \in 1 .. 3, StrictlyBetween(a, b, p), EdgeEval(a, b, v[c]) > 0
  PROVE  Inside(Wound(v), p) <=> Inclusive(a, b, p)
<1> PICK i \in 1 .. 3, j \in 1 .. 3 : v[i] = a /\ v[j] = b  BY DEF HasEdge
<1>1. StrictlyBetween(v[i], v[j], p) /\ EdgeEval(v[i], v[j], v[c]) > 0  OBVIOUS
<1>2. Inside(Wound(v), p) <=> Inclusive(v[i], v[j], p)  BY <1>1, Owner
<1> QED BY <1>2

LEMMA OneOnAnEdge ==
  ASSUME NEW m \in Seq(Triangle), WithoutOverlap(m), NEW p \in Point,
         NEW k \in DOMAIN m, NEW l \in DOMAIN m, k # l,
         NEW a, NEW b, StrictlyBetween(a, b, p),
         HasEdge(m[k], a, b), HasEdge(m[l], a, b)
  PROVE  \E n \in DOMAIN m : Owners(m, p) = {n}
<1> DEFINE H(x) == EdgeEval(a, b, x)
<1>1. \A n \in DOMAIN m : m[n] \in Triangle /\ ~Degenerate(m[n]) /\ Area2(m[n]) # 0
  <2>1. \A n \in DOMAIN m : m[n] \in Triangle /\ ~Degenerate(m[n])  BY DEF WithoutOverlap
  <2>2. AreaEps \in Nat  BY SubAssumption DEF AreaEps
  <2>3. \A n \in DOMAIN m : Area2(m[n]) # 0  BY <2>1, <2>2 DEF Degenerate, Abs
  <2> QED BY <2>1, <2>3
<1>2. /\ Coords(p) /\ Coords(a) /\ Coords(b) /\ a \in Vertex /\ b \in Vertex
      /\ \A n \in DOMAIN m : \A i \in 1 .. 3 : Coords(m[n][i])
  BY <1>1, Corners DEF Coords, Point, HasEdge
<1>3. a.x # b.x \/ a.y # b.y  BY <1>2, Distinct
<1>4. \A n \in DOMAIN m : \A i \in 1 .. 3 : H(m[n][i]) \in Int
  BY <1>2, EdgeFacts
<1>5. \A n \in DOMAIN m : \E i \in 1 .. 3 : H(m[n][i]) # 0
  BY <1>1, <1>2, <1>3, NotFlat
<1>6. \A c, d \in 1 .. 3 : H(m[k][c]) * H(m[l][d]) <= 0
  <2> PICK u \in Point, w \in Point :
        /\ u # w
        /\ \A i \in 1 .. 3 : EdgeEval(u, w, m[k][i]) >= 0
        /\ \A i \in 1 .. 3 : EdgeEval(u, w, m[l][i]) <= 0
    BY DEF WithoutOverlap, Apart
  <2>1. Coords(u) /\ Coords(w)  BY DEF Coords, Point
  <2>2. EdgeEval(u, w, a) <= 0 /\ EdgeEval(u, w, b) <= 0  BY DEF HasEdge
  <2>3. EdgeEval(u, w, p) <= 0  BY <1>2, <2>1, <2>2, Between
  <2>4. m[k] \in Triangle /\ Area2(m[k]) # 0 /\ m[l] \in Triangle  BY <1>1
  <2> QED BY <2>3, <2>4, AcrossTheEdge
<1>7. ASSUME NEW n \in Owners(m, p), n # k, n # l PROVE FALSE
  <2>1. n \in DOMAIN m /\ Inside(Wound(m[n]), p)  BY DEF Owners
  <2>2. ASSUME NEW o \in {k, l}
        PROVE  \A c, d \in 1 .. 3 : H(m[o][c]) * H(m[n][d]) <= 0
    <3> PICK u \in Point, w \in Point :
          /\ u # w
          /\ \A i \in 1 .. 3 : EdgeEval(u, w, m[o][i]) >= 0
          /\ \A i \in 1 .. 3 : EdgeEval(u, w, m[n][i]) <= 0
      BY <1>7, <2>1 DEF WithoutOverlap, Apart
    <3>1. EdgeEval(u, w, p) <= 0  BY <1>1, <2>1, WoundInside
    <3>2. /\ m[o] \in Triangle /\ Area2(m[o]) # 0 /\ m[n] \in Triangle
          /\ HasEdge(m[o], a, b)
      BY <1>1, <2>1
    <3> QED BY <3>1, <3>2, AcrossTheEdge
  <2> PICK c \in 1 .. 3 : H(m[k][c]) # 0  BY <1>5
  <2> PICK d \in 1 .. 3 : H(m[l][d]) # 0  BY <1>5
  <2> PICK e \in 1 .. 3 : H(m[n][e]) # 0  BY <1>5, <2>1
  <2> HIDE DEF H
  <2>3. /\ H(m[k][c]) \in Int /\ H(m[l][d]) \in Int /\ H(m[n][e]) \in Int
        /\ H(m[k][c]) * H(m[l][d]) <= 0
        /\ H(m[k][c]) * H(m[n][e]) <= 0
        /\ H(m[l][d]) * H(m[n][e]) <= 0
    BY <1>4, <1>6, <2>1, <2>2
  <2> QED BY <2>3, TwoSides
<1>8. Inside(Wound(m[k]), p) <=> ~Inside(Wound(m[l]), p)
  <2> PICK c \in 1 .. 3 : H(m[k][c]) # 0  BY <1>5
  <2> PICK d \in 1 .. 3 : H(m[l][d]) # 0  BY <1>5
  <2>1. H(m[k][c]) \in Int /\ H(m[l][d]) \in Int /\ H(m[k][c]) * H(m[l][d]) <= 0
    BY <1>4, <1>6
  <2>2. StrictlyBetween(b, a, p)  BY <1>2, EitherWayBetween
  <2>3. /\ EdgeEval(b, a, m[k][c]) = -H(m[k][c])
        /\ EdgeEval(b, a, m[l][d]) = -H(m[l][d])
    <3>1. Coords(m[k][c]) /\ Coords(m[l][d])  BY <1>2
    <3> QED BY <1>2, <3>1, EdgeFacts
  <2>4. p \in [x : Int, y : Int]  BY DEF Point
  <2>5. Inclusive(a, b, p) <=> ~Inclusive(b, a, p)
    BY <1>2, <1>3, <2>4, OneSideOfAnEdge
  <2>9. HasEdge(m[k], b, a) /\ HasEdge(m[l], b, a)  BY DEF HasEdge
  <2>6. CASE H(m[k][c]) > 0
    <3>1. H(m[l][d]) < 0  BY <2>1, <2>6, SignOfProduct
    <3>2. EdgeEval(b, a, m[l][d]) > 0  BY <2>1, <2>3, <3>1
    <3>3. Inside(Wound(m[k]), p) <=> Inclusive(a, b, p)  BY <1>1, <2>6, EdgeOwner
    <3>4. Inside(Wound(m[l]), p) <=> Inclusive(b, a, p)  BY <1>1, <2>2, <2>9, <3>2, EdgeOwner
    <3> QED BY <2>5, <3>3, <3>4
  <2>7. CASE H(m[k][c]) < 0
    <3>1. H(m[l][d]) > 0
      <4> HIDE DEF H
      <4> QED BY <2>1, <2>7, TwoSides
    <3>2. EdgeEval(b, a, m[k][c]) > 0  BY <2>1, <2>3, <2>7
    <3>3. Inside(Wound(m[k]), p) <=> Inclusive(b, a, p)  BY <1>1, <2>2, <2>9, <3>2, EdgeOwner
    <3>4. Inside(Wound(m[l]), p) <=> Inclusive(a, b, p)  BY <1>1, <3>1, EdgeOwner
    <3> QED BY <2>5, <3>3, <3>4
  <2> QED BY <2>1, <2>6, <2>7
<1>9. CASE Inside(Wound(m[k]), p)
  <2>1. Owners(m, p) = {k}  BY <1>7, <1>8, <1>9 DEF Owners
  <2> QED BY <2>1
<1>10. CASE Inside(Wound(m[l]), p)
  <2>1. Owners(m, p) = {l}  BY <1>7, <1>8, <1>10 DEF Owners
  <2> QED BY <2>1
<1> QED BY <1>8, <1>9, <1>10

-----------------------------------------------------------------------------
(* What is drawn by one triangle is drawn once. *)
LEMMA DrawnOnce ==
  ASSUME NEW px \in Pixel, IInv, InOrder(px), NEW k, Drawn(px) = {k}
  PROVE  Len(frags[px]) = 1
<1>1. frags[px] \in Seq(Fragment)  BY DEF IInv, TypeOK
<1>2. Len(frags[px]) \in Nat /\ DOMAIN frags[px] = 1 .. Len(frags[px])  BY <1>1
<1>3. \A i \in DOMAIN frags[px] : frags[px][i].tri = k  BY DEF Drawn
<1>4. Len(frags[px]) # 0  BY <1>2 DEF Drawn
<1>5. ~(Len(frags[px]) >= 2)
  <2> SUFFICES ASSUME Len(frags[px]) >= 2 PROVE FALSE  OBVIOUS
  <2>1. 1 \in DOMAIN frags[px] /\ 2 \in DOMAIN frags[px]  BY <1>2
  <2>2. frags[px][1] \in Fragment  BY <1>1, <2>1
  <2>3. k \in Nat  BY <1>3, <2>1, <2>2 DEF Fragment
  <2>4. k < k  BY <1>3, <2>1 DEF InOrder
  <2> QED BY <2>3, <2>4
<1>6. \A n \in Nat : n # 0 /\ ~(n >= 2) => n = 1  OBVIOUS
<1> QED BY <1>2, <1>4, <1>5, <1>6

(* raster.h, "exactly one triangle: no double-cover, no gap": of a mesh    *)
(* without overlaps and slivers, drawn tile by tile in whatever order, a   *)
(* pixel whose centre is on an edge of two triangles or strictly inside    *)
(* one is drawn once.                                                      *)
THEOREM NoGapNoOverlap ==
  ASSUME \A m \in Meshes : WithoutOverlap(m)
  PROVE  Spec => []CoveredOnce
<1>1. WInv /\ TiledIsWhole => CoveredOnce
  <2> SUFFICES ASSUME WInv, TiledIsWhole PROVE CoveredOnce  OBVIOUS
  <2>1. IInv /\ mesh \in Seq(Triangle)  BY JobType DEF WInv
  <2>2. WithoutOverlap(mesh)
    <3>1. WithoutOverlap(<<>>)  BY DEF WithoutOverlap
    <3> QED BY <2>1, <3>1 DEF IInv, TypeOK
  <2>3. \A px \in Pixel : Covering(px) = Owners(mesh, Center(px)) /\ Center(px) \in Point
    BY <2>2, PixelType DEF Covering, Owners, WithoutOverlap, Point
  <2>4. ASSUME NEW px \in Pixel, tile = Tiles, NEW n, Owners(mesh, Center(px)) = {n}
        PROVE  Len(frags[px]) = 1
    <3>1. Drawn(px) = {n} /\ InOrder(px)  BY <2>3, <2>4 DEF TiledIsWhole
    <3> QED BY <2>1, <3>1, DrawnOnce
  <2>5. ASSUME tile = Tiles, NEW px \in Pixel, OnSharedEdge(Center(px))
        PROVE  Len(frags[px]) = 1
    <3> PICK o \in DOMAIN mesh, i \in 1 .. 3, j \in 1 .. 3 :
          Shared(mesh[o][i], mesh[o][j]) /\ StrictlyBetween(mesh[o][i], mesh[o][j], Center(px))
      BY <2>5 DEF OnSharedEdge
    <3> PICK a, b : a = mesh[o][i] /\ b = mesh[o][j]  OBVIOUS
    <3> PICK k \in DOMAIN mesh, l \in DOMAIN mesh :
          k # l /\ {a, b} \subseteq {mesh[k][n] : n \in 1 .. 3} \cap {mesh[l][n] : n \in 1 .. 3}
      BY DEF Shared
    <3>1. HasEdge(mesh[k], a, b) /\ HasEdge(mesh[l], a, b)  BY DEF HasEdge
    <3>2. \E n \in DOMAIN mesh : Owners(mesh, Center(px)) = {n}
      BY <2>1, <2>2, <2>3, <3>1, OneOnAnEdge
    <3> QED BY <2>4, <2>5, <3>2
  <2>6. ASSUME tile = Tiles, NEW px \in Pixel, NEW k \in DOMAIN mesh,
               StrictlyIn(mesh[k], Center(px))
        PROVE  Len(frags[px]) = 1
    <3>1. Owners(mesh, Center(px)) = {k}
      BY <2>1, <2>2, <2>3, <2>6, OneInTheMiddle
    <3> QED BY <2>4, <2>6, <3>1
  <2> QED BY <2>5, <2>6 DEF CoveredOnce, SharedEdgeOnce
<1> QED BY <1>1, WInvHolds, TiledDrawsAll, PTL

(* A quad of two triangles that tri_setup keeps, as the run has them, is   *)
(* such a mesh.                                                            *)
LEMMA QuadApart ==
  ASSUME NEW a \in Vertex, NEW b \in Vertex, NEW c \in Vertex, NEW d \in Vertex,
         ~Degenerate(<<a, b, c>>), ~Degenerate(<<b, a, d>>),
         \/ EdgeEval(a, b, c) > 0 /\ EdgeEval(a, b, d) < 0
         \/ EdgeEval(a, b, c) < 0 /\ EdgeEval(a, b, d) > 0
  PROVE  WithoutOverlap(<<<<a, b, c>>, <<b, a, d>>>>)
<1> DEFINE m == <<<<a, b, c>>, <<b, a, d>>>>
           r == [x |-> a.x, y |-> a.y]
           s == [x |-> b.x, y |-> b.y]
<1>1. DOMAIN m = 1 .. 2 /\ m[1] = <<a, b, c>> /\ m[2] = <<b, a, d>>  OBVIOUS
<1>2. /\ Coords(a) /\ Coords(b) /\ Coords(c) /\ Coords(d) /\ Coords(r) /\ Coords(s)
      /\ r \in Point /\ s \in Point
  BY DEF Coords, Vertex, Point
<1>3. \A q : EdgeEval(r, s, q) = EdgeEval(a, b, q) /\ EdgeEval(s, r, q) = EdgeEval(b, a, q)
  BY DEF EdgeEval
<1>4. /\ EdgeEval(a, b, a) = 0 /\ EdgeEval(a, b, b) = 0
      /\ EdgeEval(b, a, a) = 0 /\ EdgeEval(b, a, b) = 0
      /\ EdgeEval(b, a, c) = -EdgeEval(a, b, c) /\ EdgeEval(b, a, d) = -EdgeEval(a, b, d)
      /\ EdgeEval(a, b, c) \in Int /\ EdgeEval(a, b, d) \in Int
  BY <1>2, EdgeFacts
<1>5. r # s
  <2>1. ASSUME r = s PROVE FALSE
    <3>1. b.x - a.x = 0 /\ b.y - a.y = 0  BY <1>2, <2>1 DEF Coords
    <3>2. EdgeEval(a, b, c) = 0 * (c.y - a.y) - 0 * (c.x - a.x)  BY <3>1 DEF EdgeEval
    <3>3. EdgeEval(a, b, c) = 0  BY <1>2, <3>2 DEF Coords
    <3> QED BY <3>3
  <2> QED BY <2>1
<1> HIDE DEF m, r, s
<1>6. Apart(m[1], m[2]) /\ Apart(m[2], m[1])
  <2>1. CASE EdgeEval(a, b, c) > 0 /\ EdgeEval(a, b, d) < 0
    <3>1. /\ \A i \in 1 .. 3 : EdgeEval(r, s, m[1][i]) >= 0 /\ EdgeEval(s, r, m[1][i]) <= 0
          /\ \A i \in 1 .. 3 : EdgeEval(r, s, m[2][i]) <= 0 /\ EdgeEval(s, r, m[2][i]) >= 0
      BY <1>1, <1>3, <1>4, <2>1
    <3> QED BY <1>2, <1>5, <3>1 DEF Apart
  <2>2. CASE EdgeEval(a, b, c) < 0 /\ EdgeEval(a, b, d) > 0
    <3>1. /\ \A i \in 1 .. 3 : EdgeEval(r, s, m[1][i]) <= 0 /\ EdgeEval(s, r, m[1][i]) >= 0
          /\ \A i \in 1 .. 3 : EdgeEval(r, s, m[2][i]) >= 0 /\ EdgeEval(s, r, m[2][i]) <= 0
      BY <1>1, <1>3, <1>4, <2>2
    <3> QED BY <1>2, <1>5, <3>1 DEF Apart
  <2> QED BY <2>1, <2>2
<1> QED BY <1>1, <1>6 DEF WithoutOverlap, m
=============================================================================
