---------------------------- MODULE FrontEndProof ----------------------------
(***************************************************************************)
(* Proofs about FrontEnd, for any vertices, matrices, materials, textures  *)
(* and limits.  TypeOK holds for any number of streams to a frame; the     *)
(* rest for one, which is what the demo submits, and run front_end_twice   *)
(* shows that it needs that.  The last part is the refinement: with one    *)
(* stream to a frame FrontEnd implements ImmediateMode.                    *)
(***************************************************************************)
EXTENDS FrontEnd, SequenceTheorems, TLAPS

USE GeometryAssumption, LimitsAssumption

MtxType == [modelview : Seq(Matrix), projection : Matrix, mvp : Product, dirty : BOOLEAN]
CtxType == [vptr : Windows \cup {NoWindow}, vcount : Nat, vbase : Nat,
            material : Id, dirty : BOOLEAN]

-----------------------------------------------------------------------------
(* Data. *)
LEMMA TripleOfVertices ==
  ASSUME NEW p \in Triangle
  PROVE  /\ p \in Seq(TVtx) /\ Len(p) = 3
         /\ p[1] \in TVtx /\ p[2] \in TVtx /\ p[3] \in TVtx
         /\ p = <<p[1], p[2], p[3]>>
<1>1. /\ p = <<p[1], p[2], p[3]>>
      /\ p[1] \in TVtx /\ p[2] \in TVtx /\ p[3] \in TVtx
  BY DEF Triangle
<1>2. \A a, b, c \in TVtx : <<a, b, c>> \in Seq(TVtx) /\ Len(<<a, b, c>>) = 3
  OBVIOUS
<1> QED BY <1>1, <1>2

LEMMA CutType ==
  ASSUME NEW tv \in TVtx, NEW src \in Vertex \cup CutPoint
  PROVE  [tv EXCEPT !.src = src] \in TVtx
BY DEF TVtx

LEMMA FanType ==
  ASSUME NEW ring \in Rings, NEW tri \in Triangle, Len(ring) >= 3
  PROVE  Fan(ring, tri) \in Seq(Triangle)
<1> DEFINE cut(i) == [tri[1] EXCEPT !.src = ring[i]]
           n == Len(ring) - 2
<1>1. ring \in Seq(Vertex \cup CutPoint) /\ Len(ring) \in Nat  OBVIOUS
<1>2. \A i \in 1 .. Len(ring) : ring[i] \in Vertex \cup CutPoint
  BY <1>1
<1>3. tri[1] \in TVtx  BY TripleOfVertices
<1>4. ASSUME NEW i \in 1 .. Len(ring) PROVE cut(i) \in TVtx
  BY <1>2, <1>3, CutType
<1> HIDE DEF cut
<1>5. ASSUME NEW i \in 1 .. n PROVE <<cut(1), cut(i + 1), cut(i + 2)>> \in Triangle
  <2>1. 1 \in 1 .. Len(ring) /\ i + 1 \in 1 .. Len(ring) /\ i + 2 \in 1 .. Len(ring)
    BY <1>1
  <2> QED BY <1>4, <2>1 DEF Triangle
<1>6. n \in Nat  BY <1>1
<1>7. [i \in 1 .. n |-> <<cut(1), cut(i + 1), cut(i + 2)>>] \in [1 .. n -> Triangle]
  BY <1>5
<1> DEFINE pieces == [i \in 1 .. n |-> <<cut(1), cut(i + 1), cut(i + 2)>>]
<1>8. pieces \in [1 .. n -> Triangle]  BY <1>7
<1>9. Fan(ring, tri) = pieces  BY DEF Fan, cut
<1> HIDE DEF pieces, n
<1>10. pieces \in Seq(Triangle)  BY <1>6, <1>8, SeqDef
<1> QED BY <1>9, <1>10

LEMMA MvpType ==
  ASSUME TypeOK
  PROVE  Mvp \in Product /\ Refreshed \in MtxType /\ Last1(mtx.modelview) \in Matrix
         /\ Refreshed.modelview = mtx.modelview /\ Refreshed.projection = mtx.projection
<1>1. /\ mtx \in MtxType /\ Len(mtx.modelview) \in 1 .. StackDepth
  BY DEF TypeOK, MtxType
<1>2. mtx.modelview \in Seq(Matrix)  BY <1>1 DEF MtxType
<1>3. Last1(mtx.modelview) \in Matrix
  BY <1>1, <1>2, ElementOfSeq DEF Last1
<1>4. Mvp \in Product  BY <1>1, <1>3 DEF Mvp, MtxType, Product
<1> HIDE DEF Mvp
<1>5. Refreshed \in MtxType /\ Refreshed.modelview = mtx.modelview
      /\ Refreshed.projection = mtx.projection
  BY <1>1, <1>4 DEF Refreshed, MtxType
<1> QED BY <1>3, <1>4, <1>5

(* What a sequence begins with. *)
LEMMA Beginning ==
  ASSUME NEW s, NEW t, NEW n \in Nat, t = [j \in 1 .. n |-> t[j]],
         \A j \in 1 .. n : s[j] = t[j]
  PROVE  SubSeq(s, 1, n) = t
<1> DEFINE S == {t[j] : j \in 1 .. n}
<1>1. \A j \in 1 .. n : s[j] \in S  OBVIOUS
<1>2. t \in [1 .. n -> S]  OBVIOUS
<1> HIDE DEF S
<1>3. t \in Seq(S) /\ Len(t) = n
  <2>1. t \in Seq(S)  BY <1>2, SeqDef
  <2> QED BY <1>2, <2>1
<1>4. /\ SubSeq(s, 1, n) \in Seq(S) /\ Len(SubSeq(s, 1, n)) = n
      /\ \A i \in 1 .. n : SubSeq(s, 1, n)[i] = s[i]
  <2>1. \A i \in 1 .. n - 1 + 1 : SubSeq(s, 1, n)[i] = s[1 + i - 1]
    BY <1>1, SubSeqProperties
  <2>2. SubSeq(s, 1, n) \in Seq(S) /\ Len(SubSeq(s, 1, n)) = IF 1 <= n THEN n - 1 + 1 ELSE 0
    BY <1>1, SubSeqProperties
  <2> QED BY <2>1, <2>2
<1> QED BY <1>3, <1>4, SeqEqual

(* The vertices a drawable triple names were pooled. *)
LEMMA PooledType ==
  ASSUME TypeOK, phase = "walk", NEW ix \in Triples, \A k \in 1 .. 3 : ix[k] <= g.vcount
  PROVE  /\ Pooled(ix) \in Triangle
         /\ \A k \in 1 .. 3 : ix[k] \in Nat \ {0} /\ g.vbase + ix[k] \in 1 .. Len(tverts)
<1>1. g \in CtxType /\ tverts \in Seq(TVtx) /\ g.vbase + g.vcount <= Len(tverts)
  BY DEF TypeOK, CtxType
<1>2. g.vbase \in Nat /\ g.vcount \in Nat /\ Len(tverts) \in Nat  BY <1>1 DEF CtxType
<1>3. ix[1] \in Nat \ {0} /\ ix[2] \in Nat \ {0} /\ ix[3] \in Nat \ {0}
  OBVIOUS
<1>4. ASSUME NEW k \in 1 .. 3
      PROVE  /\ ix[k] \in Nat \ {0} /\ g.vbase + ix[k] \in 1 .. Len(tverts)
             /\ tverts[g.vbase + ix[k]] \in TVtx
  <2>1. ix[k] \in Nat \ {0}  BY <1>3
  <2>2. g.vbase + ix[k] \in 1 .. Len(tverts)  BY <1>1, <1>2, <2>1, SMTT(30)
  <2> QED BY <1>1, <2>1, <2>2, ElementOfSeq
<1>5. Pooled(ix) \in Triangle  BY <1>4 DEF Pooled, Triangle
<1> QED BY <1>4, <1>5

LEMMA CorrectedType == rstate \in RenderState => Corrected(rstate) \in RenderState
BY DEF Corrected, RenderState

-----------------------------------------------------------------------------
(* Types, for any number of streams to a frame. *)
LEMMA MtxInitType ==
  ASSUME NEW mvp \in Product
  PROVE  MtxInit(mvp) \in MtxType /\ Len(MtxInit(mvp).modelview) = 1
BY DEF MtxInit, MtxType

LEMMA ContextInit ==
  NoCtx \in CtxType /\ NoCtx.vbase + NoCtx.vcount = 0 /\ NoCtx.vptr = NoWindow
  /\ NoCtx.dirty
<1>1. 0 \in Id  BY DEF Id
<1> QED BY <1>1 DEF NoCtx, CtxType

LEMMA TypeInit == Init => TypeOK
<1> SUFFICES ASSUME Init PROVE TypeOK  OBVIOUS
<1>1. <<Identity, Identity>> \in Product  BY DEF Product
<1>2. mtx \in MtxType /\ Len(mtx.modelview) \in 1 .. StackDepth
  <2>1. mtx = MtxInit(<<Identity, Identity>>)  BY DEF Init
  <2>2. mtx \in MtxType /\ Len(mtx.modelview) = 1  BY <1>1, <2>1, MtxInitType
  <2> QED BY <2>2
<1>3. g \in CtxType /\ g.vbase + g.vcount = 0  BY ContextInit DEF Init
<1>4. /\ tverts = <<>> /\ fan = <<>> /\ rstate = Default /\ overflow = 0
      /\ rstate_count = 0 /\ vp = WholeScreen /\ clear_color = Black /\ phase = "begun"
      /\ rstate_table = [i \in Id |-> Default]
  BY DEF Init
<1>5. tverts \in Seq(TVtx) /\ Len(tverts) <= MaxTverts /\ fan \in Seq(Triangle)
  BY <1>4
<1> QED BY <1>2, <1>3, <1>4, <1>5 DEF TypeOK, MtxType, CtxType

(* A command that only sets the matrices. *)
LEMMA SetMtxType ==
  ASSUME TypeOK, NEW new \in MtxType, Len(new.modelview) \in 1 .. StackDepth, SetMtx(new)
  PROVE  TypeOK'
BY DEF SetMtx, Command, TypeOK, MtxType, materials

LEMMA MatrixCommandsType ==
  ASSUME TypeOK, \/ \E m \in Matrix : LoadMatrix(m) \/ PushMatrix(m) \/ SetProjection(m)
                 \/ PopMatrix
  PROVE  TypeOK'
<1>1. mtx \in MtxType /\ Len(mtx.modelview) \in 1 .. StackDepth
  BY DEF TypeOK, MtxType
<1> DEFINE mv == mtx.modelview
<1>2. mv \in Seq(Matrix)  BY <1>1 DEF MtxType
<1>3. ASSUME NEW new, SetMtx(new), new \in MtxType, Len(new.modelview) \in 1 .. StackDepth
      PROVE  TypeOK'
  BY <1>3, SetMtxType
<1>4. ASSUME NEW s \in Seq(Matrix), Len(s) \in 1 .. StackDepth,
             SetMtx([mtx EXCEPT !.modelview = s, !.dirty = TRUE])
      PROVE  TypeOK'
  <2> DEFINE new == [mtx EXCEPT !.modelview = s, !.dirty = TRUE]
  <2>1. new \in MtxType /\ new.modelview = s  BY <1>1, <1>4 DEF MtxType
  <2>2. SetMtx(new)  BY <1>4
  <2> HIDE DEF new
  <2> QED BY <1>3, <1>4, <2>1, <2>2
<1>5. ASSUME NEW m \in Matrix, LoadMatrix(m) PROVE TypeOK'
  <2> DEFINE s == [mv EXCEPT ![Len(mv)] = m]
  <2>1. s \in Seq(Matrix) /\ Len(s) = Len(mv)  BY <1>1, <1>2, ExceptSeq
  <2>2. [mtx EXCEPT !.modelview[Len(mtx.modelview)] = m, !.dirty = TRUE]
          = [mtx EXCEPT !.modelview = s, !.dirty = TRUE]
    BY <1>1 DEF MtxType
  <2>3. SetMtx([mtx EXCEPT !.modelview = s, !.dirty = TRUE])
    BY <1>5, <2>2 DEF LoadMatrix
  <2> HIDE DEF s
  <2> QED BY <1>1, <1>4, <2>1, <2>3
<1>6. ASSUME NEW m \in Matrix, PushMatrix(m) PROVE TypeOK'
  <2>1. CASE Len(mv) >= StackDepth
    <3>1. SetMtx(mtx)  BY <1>6, <2>1 DEF PushMatrix
    <3> QED BY <1>1, <1>3, <3>1
  <2>2. CASE ~(Len(mv) >= StackDepth)
    <3> DEFINE s == Append(mv, m)
    <3>1. s \in Seq(Matrix) /\ Len(s) \in 1 .. StackDepth  BY <1>1, <1>2, <2>2
    <3>2. SetMtx([mtx EXCEPT !.modelview = s, !.dirty = TRUE])
      BY <1>6, <2>2 DEF PushMatrix
    <3> HIDE DEF s
    <3> QED BY <1>4, <3>1, <3>2
  <2> QED BY <2>1, <2>2
<1>7. ASSUME NEW m \in Matrix, SetProjection(m) PROVE TypeOK'
  <2> DEFINE new == [mtx EXCEPT !.projection = m, !.dirty = TRUE]
  <2>1. new \in MtxType /\ new.modelview = mv  BY <1>1 DEF MtxType
  <2>2. SetMtx(new)  BY <1>7 DEF SetProjection
  <2> HIDE DEF new
  <2> QED BY <1>1, <1>3, <2>1, <2>2
<1>8. CASE PopMatrix
  <2>1. CASE Len(mv) <= 1
    <3>1. SetMtx(mtx)  BY <1>8, <2>1 DEF PopMatrix
    <3> QED BY <1>1, <1>3, <3>1
  <2>2. CASE ~(Len(mv) <= 1)
    <3> DEFINE s == SubSeq(mv, 1, Len(mv) - 1)
    <3>1. \A i \in 1 .. Len(mv) - 1 : mv[i] \in Matrix  BY <1>2
    <3>2. s \in Seq(Matrix) /\ Len(s) = Len(mv) - 1
      BY <1>1, <2>2, <3>1, SubSeqProperties
    <3>3. SetMtx([mtx EXCEPT !.modelview = s, !.dirty = TRUE])
      BY <1>8, <2>2 DEF PopMatrix
    <3>4. Len(mv) \in 1 .. StackDepth  BY <1>1
    <3> HIDE DEF s, mv
    <3>5. Len(s) \in 1 .. StackDepth  BY <2>2, <3>2, <3>4
    <3> QED BY <1>4, <3>2, <3>3, <3>5
  <2> QED BY <2>1, <2>2
<1> QED BY <1>5, <1>6, <1>7, <1>8

(* What a load transforms. *)
LoadedVerts(w, n) == [i \in 1 .. n |-> Transformed(w[i], Mvp, vp, rstate)]
Fits(w) == IF Len(w) > Room THEN Room ELSE Len(w)

LEMMA LoadedType ==
  ASSUME TypeOK, NEW w \in Windows, NEW n \in Nat, n <= Len(w)
  PROVE  LoadedVerts(w, n) \in Seq(TVtx) /\ Len(LoadedVerts(w, n)) = n
<1> DEFINE loaded == LoadedVerts(w, n)
<1>1. w \in Seq(Vertex) /\ Len(w) \in Nat  OBVIOUS
<1>2. Mvp \in Product /\ vp \in Viewport /\ rstate.tint \in Tint
  BY MvpType DEF TypeOK, RenderState
<1>3. \A i \in 1 .. n : w[i] \in Vertex  BY <1>1
<1>4. \A i \in 1 .. n : Transformed(w[i], Mvp, vp, rstate) \in TVtx
  BY <1>2, <1>3 DEF Transformed, TVtx
<1>5. loaded \in [1 .. n -> TVtx]  BY <1>4 DEF LoadedVerts
<1> HIDE DEF loaded
<1>6. loaded \in Seq(TVtx) /\ Len(loaded) = n
  <2>1. loaded \in Seq(TVtx)  BY <1>5, SeqDef
  <2> QED BY <1>5, <2>1
<1> QED BY <1>6 DEF loaded

LEMMA LoadType ==
  ASSUME TypeOK, NEW w \in Windows, LoadVerts(w)
  PROVE  TypeOK'
<1> DEFINE n == Fits(w)
           loaded == LoadedVerts(w, n)
<1>1. Len(tverts) \in Nat /\ Room \in Nat /\ tverts \in Seq(TVtx)
  BY DEF TypeOK, Room
<1>2. w \in Seq(Vertex) /\ Len(w) \in Nat  OBVIOUS
<1>3. n \in Nat /\ n <= Len(w) /\ n <= Room  BY <1>1, <1>2 DEF Fits
<1>9. /\ tverts' = tverts \o loaded /\ mtx' = Refreshed /\ phase' = phase
      /\ g' = [g EXCEPT !.vptr = w, !.vcount = n, !.vbase = Len(tverts)]
      /\ UNCHANGED <<vp, clear_color, rstate, materials, fan>>
  BY DEF LoadVerts, PoolVerts, Command, LoadedVerts, Fits
<1> HIDE DEF n
<1>10. loaded \in Seq(TVtx) /\ Len(loaded) = n
  BY <1>3, LoadedType
<1> HIDE DEF loaded
<1>11. tverts' \in Seq(TVtx) /\ Len(tverts') = Len(tverts) + n
  BY <1>1, <1>9, <1>10, ConcatProperties
<1>12. g' \in CtxType /\ g'.vbase + g'.vcount = Len(tverts) + n
  BY <1>1, <1>3, <1>9 DEF TypeOK, CtxType
<1>13. mtx' \in MtxType /\ Len(mtx'.modelview) \in 1 .. StackDepth
  BY <1>9, MvpType DEF TypeOK
<1>14. Len(tverts') <= MaxTverts  BY <1>1, <1>3, <1>11 DEF Room
<1>15. g'.vbase + g'.vcount <= Len(tverts')  BY <1>11, <1>12
<1>16. /\ phase' \in {"begun", "walk", "done"} /\ vp' \in Viewport /\ clear_color' \in Color
       /\ rstate' \in RenderState /\ rstate_table' \in [Id -> RenderState]
       /\ rstate_count' \in 0 .. MaxMaterials /\ overflow' \in Nat
       /\ fan' \in Seq(Triangle)
  BY <1>9 DEF TypeOK, materials
<1>17. /\ mtx' \in [modelview : Seq(Matrix), projection : Matrix, mvp : Product,
                    dirty : BOOLEAN]
       /\ g' \in [vptr : Windows \cup {NoWindow}, vcount : Nat, vbase : Nat,
                  material : Id, dirty : BOOLEAN]
  BY <1>12, <1>13 DEF MtxType, CtxType
<1>18. tverts' \in Seq(TVtx)  BY <1>11
<1>19. Len(mtx'.modelview) \in 1 .. StackDepth  BY <1>13
<1> QED BY <1>14, <1>15, <1>16, <1>17, <1>18, <1>19 DEF TypeOK

(* Interning keeps the table's type and picks one of its entries. *)
LEMMA InternType ==
  ASSUME TypeOK, Intern
  PROVE  /\ g' \in CtxType /\ g'.vptr = g.vptr /\ g'.vcount = g.vcount /\ g'.vbase = g.vbase
         /\ rstate_table' \in [Id -> RenderState] /\ rstate_count' \in 0 .. MaxMaterials
         /\ overflow' \in Nat
<1>1. /\ g \in CtxType /\ rstate_table \in [Id -> RenderState]
      /\ rstate_count \in 0 .. MaxMaterials /\ overflow \in Nat
      /\ Corrected(rstate) \in RenderState
  BY CorrectedType DEF TypeOK, CtxType
<1>2. ASSUME NEW id \in Id, Resolve(id)
      PROVE  /\ g' \in CtxType /\ g'.vptr = g.vptr /\ g'.vcount = g.vcount
             /\ g'.vbase = g.vbase
  BY <1>1, <1>2 DEF Resolve, CtxType
<1>3. CASE ~g.dirty /\ UNCHANGED <<g, materials>>
  BY <1>1, <1>3 DEF materials
<1>4. CASE UNCHANGED materials /\ \E id \in Known : Resolve(id)
  BY <1>1, <1>2, <1>4 DEF Known, materials
<1>5. CASE Full /\ Clamp
  <2>1. rstate_count - 1 \in Id  BY <1>1, <1>5 DEF Full, Id
  <2> QED BY <1>1, <1>2, <1>5, <2>1 DEF Clamp
<1>6. CASE ~Full /\ Resolve(rstate_count) /\ Store(rstate_count)
           /\ rstate_count' = rstate_count + 1 /\ UNCHANGED overflow
  <2>1. rstate_count \in Id /\ rstate_count + 1 \in 0 .. MaxMaterials
    BY <1>1, <1>6 DEF Full, Id
  <2> QED BY <1>1, <1>2, <1>6, <2>1 DEF Store
<1> QED BY <1>3, <1>4, <1>5, <1>6 DEF Intern

LEMMA DrawType ==
  ASSUME TypeOK, NEW ix \in Triples, DrawTri(ix)
  PROVE  TypeOK'
<1>1. phase = "walk" /\ phase' = phase /\ UNCHANGED <<view, rstate, tverts>>
  BY DEF DrawTri, Command
<1>2. CASE UNCHANGED <<g, materials, fan>>
  BY <1>1, <1>2 DEF TypeOK, view, materials
<1>3. ASSUME Intern, fan' \in Seq(Triangle) PROVE TypeOK'
  <2>1. g' \in CtxType /\ g'.vbase + g'.vcount = g.vbase + g.vcount
    BY <1>3, InternType
  <2> QED BY <1>1, <1>3, <2>1, InternType DEF TypeOK, view, CtxType
<1>4. CASE DrawInside(ix)  BY <1>3, <1>4 DEF DrawInside, TypeOK
<1>5. CASE DrawClipped(ix)
  <2>1. Pooled(ix) \in Triangle  BY <1>1, <1>5, PooledType DEF DrawClipped, Drawable
  <2>2. fan' \in Seq(Triangle)
    BY <1>5, <2>1, FanType DEF DrawClipped, TypeOK
  <2> QED BY <1>3, <1>5, <2>2 DEF DrawClipped
<1> QED BY <1>2, <1>4, <1>5 DEF DrawTri, Reject

(* Of a piece the pool has no room for, the vertices that find room stay.   *)
LEMMA CutShort ==
  ASSUME TypeOK, NEW piece \in Triangle, Room < 3
  PROVE  SubSeq(piece, 1, Room) \in Seq(TVtx) /\ Len(SubSeq(piece, 1, Room)) = Room
<1> DEFINE room == Room
<1>1. room \in 0 .. 2
  <2> DEFINE len == Len(tverts)
  <2>1. len \in Nat /\ len <= MaxTverts /\ room = MaxTverts - len /\ room < 3
    BY DEF TypeOK, Room
  <2> HIDE DEF len, room
  <2> QED BY <2>1
<1> HIDE DEF room
<1>2. piece \in Seq(TVtx) /\ Len(piece) = 3  BY TripleOfVertices
<1>3. ASSUME NEW i \in 1 .. room PROVE piece[i] \in TVtx
  <2>1. i \in 1 .. Len(piece)  BY <1>1, <1>2
  <2> QED BY <1>2, <2>1, ElementOfSeq
<1>4. SubSeq(piece, 1, room) \in Seq(TVtx) /\ Len(SubSeq(piece, 1, room)) = room
  BY <1>1, <1>3, SubSeqProperties
<1> QED BY <1>4 DEF room

LEMMA EmitType ==
  ASSUME TypeOK, EmitPiece
  PROVE  TypeOK'
<1> DEFINE piece == Head(fan)
<1>1. fan \in Seq(Triangle) /\ fan # <<>>  BY DEF EmitPiece, TypeOK
<1>2. piece \in Triangle /\ Tail(fan) \in Seq(Triangle)
  BY <1>1, HeadTailProperties
<1> HIDE DEF piece
<1>3. piece \in Seq(TVtx) /\ Len(piece) = 3  BY <1>2, TripleOfVertices
<1>4. tverts \in Seq(TVtx) /\ Len(tverts) <= MaxTverts /\ Len(tverts) \in Nat
      /\ Room \in Nat
  BY DEF TypeOK, Room
<1>5. ASSUME NEW more \in Seq(TVtx), Len(more) <= Room, tverts' = tverts \o more
      PROVE  tverts' \in Seq(TVtx) /\ Len(tverts') <= MaxTverts
             /\ Len(tverts') \in Nat /\ Len(tverts') >= Len(tverts)
  BY <1>4, <1>5, ConcatProperties DEF Room
<1>6. tverts' \in Seq(TVtx) /\ Len(tverts') <= MaxTverts
      /\ Len(tverts') \in Nat /\ Len(tverts') >= Len(tverts)
  <2>1. CASE UNCHANGED tverts  BY <1>4, <2>1
  <2>2. CASE Room >= 3 /\ PoolAndBin(piece)
    BY <1>3, <1>4, <1>5, <2>2 DEF PoolAndBin
  <2>3. CASE Room < 3 /\ RunOut(piece)
    <3>1. /\ SubSeq(piece, 1, Room) \in Seq(TVtx) /\ Len(SubSeq(piece, 1, Room)) <= Room
          /\ tverts' = tverts \o SubSeq(piece, 1, Room)
      BY <1>2, <1>4, <2>3, CutShort DEF RunOut
    <3> QED BY <1>5, <3>1
  <2> QED BY <2>1, <2>2, <2>3 DEF EmitPiece, piece
<1>7. /\ g' = g /\ fan' = Tail(fan)
      /\ UNCHANGED <<phase, view, rstate, materials>>
  BY DEF EmitPiece, PoolAndBin, RunOut
<1>8. g.vbase \in Nat /\ g.vcount \in Nat  BY DEF TypeOK
<1> QED BY <1>2, <1>4, <1>6, <1>7, <1>8 DEF TypeOK, view, materials

LEMMA TypeStep == TypeOK /\ [Next]_vars => TypeOK'
<1> SUFFICES ASSUME TypeOK, [Next]_vars PROVE TypeOK'  OBVIOUS
<1>1. CASE BeginFrame
  <2>1. mtx' \in MtxType /\ Len(mtx'.modelview) = 1
    BY <1>1, MtxInitType DEF BeginFrame, TypeOK
  <2> QED BY <1>1, <2>1 DEF BeginFrame, TypeOK, MtxType, materials
<1>2. CASE Submit
  BY <1>2, ContextInit DEF Submit, TypeOK, view, CtxType
<1>3. CASE EndWalk
  BY <1>3, ContextInit DEF EndWalk, TypeOK, view, materials, CtxType
<1>4. CASE Pack
  BY <1>4 DEF Pack, TypeOK, view, materials
<1>5. CASE (\E m \in Matrix : LoadMatrix(m) \/ PushMatrix(m) \/ SetProjection(m)) \/ PopMatrix
  BY <1>5, MatrixCommandsType
<1>6. ASSUME NEW new \in Viewport, SetViewport(new) PROVE TypeOK'
  BY <1>6 DEF SetViewport, Command, TypeOK, materials
<1>7. ASSUME NEW color \in Color, Clear(color) PROVE TypeOK'
  BY <1>7 DEF Clear, Command, TypeOK, materials
<1>8. ASSUME NEW new \in RenderState, SetRenderState(new) PROVE TypeOK'
  BY <1>8 DEF SetRenderState, Command, TypeOK, materials, view
<1>9. ASSUME NEW w \in Windows, LoadVerts(w) PROVE TypeOK'
  BY <1>9, LoadType
<1>10. CASE LoadVertsRelative
  <2>1. /\ g' = [g EXCEPT !.vptr = NoWindow, !.vcount = 0]
        /\ UNCHANGED <<phase, view, rstate, materials, tverts, fan>>
    BY <1>10 DEF LoadVertsRelative, Command
  <2>2. g' \in CtxType /\ (phase = "walk" => g'.vbase + g'.vcount <= Len(tverts))
    <3>1. g \in CtxType /\ Len(tverts) \in Nat /\ (phase = "walk" => g.vbase + g.vcount <= Len(tverts))
      BY DEF TypeOK, CtxType
    <3>2. g' \in CtxType /\ g'.vbase = g.vbase /\ g'.vcount = 0  BY <2>1, <3>1 DEF CtxType
    <3>3. g.vbase \in Nat /\ g.vcount \in Nat  BY <3>1 DEF CtxType
    <3> QED BY <3>1, <3>2, <3>3
  <2> QED BY <2>1, <2>2 DEF TypeOK, view, materials, CtxType
<1>11. ASSUME NEW ix \in Triples, BranchLessZ(ix[1]) PROVE TypeOK'
  <2>1. mtx' \in MtxType /\ Len(mtx'.modelview) \in 1 .. StackDepth
    BY <1>11, MvpType DEF BranchLessZ, TypeOK, MtxType
  <2> QED BY <1>11, <2>1 DEF BranchLessZ, Command, TypeOK, MtxType, materials
<1>12. ASSUME NEW ix \in Triples, DrawTri(ix) PROVE TypeOK'
  BY <1>12, DrawType
<1>13. CASE EmitPiece  BY <1>13, EmitType
<1>14. CASE UNCHANGED vars  BY <1>14 DEF vars, TypeOK, view, materials
<1> QED BY <1>1, <1>2, <1>3, <1>4, <1>5, <1>6, <1>7, <1>8, <1>9, <1>10, <1>11, <1>12,
           <1>13, <1>14 DEF Next

(* No table of the front end is indexed or grown past its limit, for any    *)
(* stream of commands and any number of streams to a frame.                *)
THEOREM TypeCorrect == Spec => []TypeOK
BY TypeInit, TypeStep, PTL DEF Spec

-----------------------------------------------------------------------------
(* One stream to a frame. *)
OneStream == MaxSubmits <= 1

(* A frame has had its stream unless it has just begun; what is in the bins *)
(* names the vertices and materials of that stream; and until the render    *)
(* state is set again the interned id is that of an entry of its table that *)
(* holds it, unless the table overflowed: the pieces of a clipped triangle  *)
(* go by it.                                                                *)
Submitted ==
  /\ submits \in Nat /\ (phase = "begun" <=> submits = 0)
  /\ phase = "begun" => jobs = <<>>
Interned ==
  /\ phase = "walk" /\ ~g.dirty =>
       /\ g.material < rstate_count
       /\ rstate_table[g.material] = Corrected(rstate) \/ overflow > 0
  /\ fan # <<>> => phase = "walk" /\ ~g.dirty
Buffered == jobs \in Seq(TriRef) /\ JobsPointIntoPool
IInv == TypeOK /\ Submitted /\ Interned /\ Buffered

(* What no step takes back but the one that begins a frame or a stream. *)
JobsGrow == Len(jobs) <= Len(jobs') /\ \A j \in 1 .. Len(jobs) : jobs'[j] = jobs[j]
PoolGrows == Len(tverts) <= Len(tverts')
             /\ \A i \in 1 .. Len(tverts) : tverts'[i] = tverts[i]
TableGrows == rstate_count <= rstate_count'
              /\ \A i \in Id : i < rstate_count => rstate_table'[i] = rstate_table[i]
Grows == PoolGrows /\ TableGrows
Adds == phase # "begun" /\ Grows /\ JobsGrow

PointsIntoPool(ref) ==
  /\ \A k \in 1 .. 3 : ref.v[k] < Len(tverts)
  /\ Span(Vertices(ref)) = ref.span
  /\ ref.material < rstate_count
Lead(ref) == [tri |-> Vertices(ref), state |-> rstate_table[ref.material]]

LEMMA StayPut == TypeOK /\ UNCHANGED <<tverts, materials>> => Grows
BY DEF TypeOK, Grows, PoolGrows, TableGrows, materials

(* A reference that points into the pool and the table does so when both    *)
(* have grown, and leads to what it led to.                                 *)
LEMMA KeepsLeading ==
  ASSUME TypeOK, Grows, NEW ref \in TriRef, PointsIntoPool(ref),
         rstate_count' \in 0 .. MaxMaterials, Len(tverts') \in Nat
  PROVE  /\ \A k \in 1 .. 3 : ref.v[k] < Len(tverts')
         /\ Vertices(ref)' = Vertices(ref)
         /\ ref.material < rstate_count'
         /\ rstate_table'[ref.material] = rstate_table[ref.material]
<1>1. Len(tverts) \in Nat /\ rstate_count \in 0 .. MaxMaterials  BY DEF TypeOK
<1>2. \A k \in 1 .. 3 : ref.v[k] \in Nat /\ ref.v[k] + 1 \in 1 .. Len(tverts)
  BY <1>1 DEF TriRef, PointsIntoPool
<1>3. ref.material \in Id /\ ref.material < rstate_count
  BY <1>1 DEF TriRef, PointsIntoPool, Id
<1>4. Vertices(ref)' = Vertices(ref)
  <2>1. ASSUME NEW k \in 1 .. 3 PROVE tverts'[ref.v[k] + 1] = tverts[ref.v[k] + 1]
    BY <1>2 DEF Grows, PoolGrows
  <2> QED BY <2>1 DEF Vertices
<1>5. \A k \in 1 .. 3 : ref.v[k] < Len(tverts')  BY <1>1, <1>2 DEF Grows, PoolGrows
<1>6. ref.material < rstate_count'  BY <1>1, <1>3 DEF Grows, TableGrows, Id
<1> QED BY <1>3, <1>4, <1>5, <1>6 DEF Grows, TableGrows

(* The bins take a triangle, or they are full and count it. *)
LEMMA Binned ==
  ASSUME jobs \in Seq(TriRef), NEW ref \in TriRef, B!BinTri(ref)
  PROVE  \/ jobs' = Append(jobs, ref) \/ UNCHANGED jobs
BY DEF B!BinTri, B!Buffer, B!Refuse

LEMMA StillPoints ==
  ASSUME TypeOK, TypeOK', Grows, NEW ref \in TriRef, PointsIntoPool(ref)
  PROVE  PointsIntoPool(ref)' /\ Lead(ref)' = Lead(ref)
<1>1. Len(tverts') \in Nat /\ rstate_count' \in 0 .. MaxMaterials  BY DEF TypeOK
<1> QED BY <1>1, KeepsLeading DEF PointsIntoPool, Lead

(* What is in the bins points into the pool, one by one. *)
LEMMA Referred ==
  ASSUME jobs \in Seq(TriRef)
  PROVE  (phase # "begun" => \A j \in DOMAIN jobs : PointsIntoPool(jobs[j]))
           <=> JobsPointIntoPool
BY DEF PointsIntoPool, JobsPointIntoPool

(* New in the bins or there before, a triangle points into the pool. *)
LEMMA BufferedStep ==
  ASSUME TypeOK, TypeOK', Buffered, Grows, phase # "begun",
         \/ UNCHANGED jobs
         \/ \E ref \in TriRef : jobs' = Append(jobs, ref) /\ PointsIntoPool(ref)'
  PROVE  Buffered' /\ JobsGrow
<1>1. jobs \in Seq(TriRef) /\ \A j \in DOMAIN jobs : PointsIntoPool(jobs[j])
  BY Referred DEF Buffered
<1>2. jobs' \in Seq(TriRef) /\ JobsGrow  BY <1>1 DEF JobsGrow
<1>3. ASSUME NEW j \in DOMAIN jobs'
      PROVE  /\ \A k \in 1 .. 3 : jobs'[j].v[k] < Len(tverts')
             /\ Span(Vertices(jobs[j])') = jobs'[j].span
             /\ jobs'[j].material < rstate_count'
  <2>1. PICK r \in TriRef : r = jobs'[j]  BY <1>2
  <2>2. PointsIntoPool(r)'
    <3>1. CASE j \in DOMAIN jobs
      <4>1. r = jobs[j]  BY <1>1, <2>1, <3>1
      <4>2. PointsIntoPool(r)  BY <1>1, <3>1, <4>1
      <4> QED BY <4>2, StillPoints
    <3>2. CASE j \notin DOMAIN jobs
      <4>1. PICK ref \in TriRef : jobs' = Append(jobs, ref) /\ PointsIntoPool(ref)'
        BY <3>2
      <4>2. r = ref  BY <1>1, <2>1, <3>2, <4>1
      <4> QED BY <4>1, <4>2
    <3> QED BY <3>1, <3>2
  <2>3. Vertices(jobs[j])' = Vertices(r)'  BY <2>1 DEF Vertices
  <2> QED BY <2>1, <2>2, <2>3 DEF PointsIntoPool
<1>4. JobsPointIntoPool'  BY <1>3 DEF JobsPointIntoPool
<1> QED BY <1>2, <1>4 DEF Buffered

(* Interning only adds to the table, and leaves the id of an entry that     *)
(* holds the state in force, unless the table overflowed.                   *)
LEMMA InternStep ==
  ASSUME TypeOK, Interned, phase = "walk", Intern, UNCHANGED rstate
  PROVE  /\ TableGrows /\ ~g'.dirty /\ g'.material < rstate_count'
         /\ rstate_table'[g'.material] = Corrected(rstate) \/ overflow' > 0
<1>1. /\ g \in CtxType /\ rstate_table \in [Id -> RenderState]
      /\ rstate_count \in 0 .. MaxMaterials /\ overflow \in Nat
  BY DEF TypeOK, CtxType
<1>2. ASSUME NEW id, Resolve(id) PROVE g'.material = id /\ ~g'.dirty
  BY <1>1, <1>2 DEF Resolve, CtxType
<1>3. CASE ~g.dirty /\ UNCHANGED <<g, materials>>
  BY <1>1, <1>3 DEF Interned, TableGrows, materials
<1>4. CASE UNCHANGED materials /\ \E id \in Known : Resolve(id)
  <2>1. PICK id \in Known : Resolve(id)  BY <1>4
  <2> QED BY <1>1, <1>2, <1>4, <2>1 DEF Known, TableGrows, materials
<1>5. CASE Full /\ Clamp
  <2>1. g'.material = rstate_count - 1 /\ ~g'.dirty  BY <1>2, <1>5 DEF Clamp
  <2>2. rstate_count' = rstate_count /\ rstate_table' = rstate_table
        /\ overflow' = overflow + 1
    BY <1>5 DEF Clamp
  <2>3. rstate_count - 1 < rstate_count /\ overflow' > 0  BY <1>1, <2>2
  <2>4. TableGrows  BY <1>1, <2>2 DEF TableGrows
  <2>5. g'.material < rstate_count'  BY <2>1, <2>2, <2>3
  <2> QED BY <2>1, <2>3, <2>4, <2>5
<1>6. CASE ~Full /\ Resolve(rstate_count) /\ Store(rstate_count)
           /\ rstate_count' = rstate_count + 1 /\ UNCHANGED overflow
  <2>1. rstate_count \in Id  BY <1>1, <1>6 DEF Full, Id
  <2>2. g'.material = rstate_count /\ ~g'.dirty  BY <1>2, <1>6
  <2>3. rstate_table'[rstate_count] = Corrected(rstate)
        /\ \A i \in Id : i < rstate_count => rstate_table'[i] = rstate_table[i]
    BY <1>1, <1>6, <2>1 DEF Store
  <2>4. rstate_count <= rstate_count' /\ rstate_count < rstate_count'
    BY <1>1, <1>6
  <2> QED BY <2>2, <2>3, <2>4 DEF TableGrows
<1> QED BY <1>3, <1>4, <1>5, <1>6 DEF Intern

(* A command leaves the bins, the pool's old part and the table alone. *)
LEMMA QuietStep ==
  ASSUME IInv, TypeOK', phase = "walk", Grows, UNCHANGED <<submits, phase, jobs>>
  PROVE  Submitted' /\ Buffered' /\ JobsGrow
<1>1. phase # "begun"  OBVIOUS
<1>2. Buffered' /\ JobsGrow  BY <1>1, BufferedStep DEF IInv
<1> QED BY <1>1, <1>2 DEF IInv, Submitted

(* What a triangle inside the guard band puts in the bins. *)
LEMMA DrawRef ==
  ASSUME TypeOK, Interned, phase = "walk", NEW ix \in Triples, Drawable(ix), Intern,
         Bin(g.vbase, Pooled(ix), ix), UNCHANGED <<rstate, tverts>>
  PROVE  \E r \in TriRef : /\ B!BinTri(r) /\ PointsIntoPool(r)'
                          /\ Vertices(r)' = Pooled(ix) /\ r.material = g'.material
<1> DEFINE ref == [v |-> [k \in 1 .. 3 |-> g.vbase + ix[k] - 1],
                   material |-> g'.material, span |-> Span(Pooled(ix))]
<1>1. \A k \in 1 .. 3 : ix[k] \in Nat \ {0} /\ g.vbase + ix[k] \in 1 .. Len(tverts)
  BY PooledType DEF Drawable
<1>2. g.vbase \in Nat /\ Len(tverts) \in Nat  BY DEF TypeOK
<1>3. g'.material \in Id /\ g'.material \in Nat
  BY InternType DEF CtxType, Id
<1>4. Span(Pooled(ix)) \in SUBSET Tile  BY DEF Span
<1>5. ASSUME NEW k \in 1 .. 3
      PROVE  /\ g.vbase + ix[k] - 1 \in Nat /\ g.vbase + ix[k] - 1 < Len(tverts)
             /\ (g.vbase + ix[k] - 1) + 1 = g.vbase + ix[k]
  BY <1>1, <1>2, SMTT(30)
<1>6. PICK n \in [1 .. 3 -> Nat] :
        /\ n = [k \in 1 .. 3 |-> g.vbase + ix[k] - 1]
        /\ \A k \in 1 .. 3 : n[k] < Len(tverts) /\ n[k] + 1 = g.vbase + ix[k]
  <2> DEFINE idx(k) == g.vbase + ix[k] - 1
             m == [k \in 1 .. 3 |-> idx(k)]
  <2>1. \A k \in 1 .. 3 : idx(k) \in Nat /\ idx(k) < Len(tverts)
                          /\ idx(k) + 1 = g.vbase + ix[k]
    BY <1>5
  <2> HIDE DEF idx
  <2>2. m \in [1 .. 3 -> Nat] /\ \A k \in 1 .. 3 : m[k] = idx(k)
    BY <2>1
  <2>3. m = [k \in 1 .. 3 |-> g.vbase + ix[k] - 1]  BY DEF idx
  <2> HIDE DEF m
  <2> QED BY <2>1, <2>2, <2>3
<1>7. PICK r \in TriRef : r = ref
  BY <1>3, <1>4, <1>6 DEF TriRef
<1>8. r.v = n /\ r.material = g'.material /\ r.span = Span(Pooled(ix))
  BY <1>6, <1>7
<1> HIDE DEF ref
<1>9. Vertices(r)' = Pooled(ix)
  <2>1. \A k \in 1 .. 3 : tverts'[r.v[k] + 1] = tverts[g.vbase + ix[k]]  BY <1>6, <1>8
  <2> QED BY <2>1 DEF Vertices, Pooled
<1>10. PointsIntoPool(r)'
  <2>1. g'.material < rstate_count'  BY InternStep
  <2>2. \A k \in 1 .. 3 : r.v[k] < Len(tverts')  BY <1>6, <1>8
  <2> QED BY <1>8, <1>9, <2>1, <2>2 DEF PointsIntoPool
<1>11. B!BinTri(r)  BY <1>7 DEF Bin, ref
<1> QED BY <1>8, <1>9, <1>10, <1>11

(* What one triple of DRAW_TRIS does to them. *)
LEMMA DrawStep ==
  ASSUME IInv, TypeOK', NEW ix \in Triples, DrawTri(ix)
  PROVE  Submitted' /\ Interned' /\ Buffered' /\ Grows /\ JobsGrow
<1>1. /\ phase = "walk" /\ fan = <<>> /\ TypeOK
      /\ UNCHANGED <<submits, phase, view, rstate, tverts>>
  BY DEF DrawTri, Command, IInv
<1>3. CASE UNCHANGED <<g, materials, fan>> /\ UNCHANGED jobs
  <2>1. Grows  BY <1>1, <1>3, StayPut
  <2> QED BY <1>1, <1>3, <2>1, QuietStep DEF IInv, Interned, materials
<1>4. ASSUME Drawable(ix), Intern,
             \/ UNCHANGED jobs
             \/ \E ref \in TriRef : jobs' = Append(jobs, ref) /\ PointsIntoPool(ref)'
      PROVE  Submitted' /\ Interned' /\ Buffered' /\ Grows /\ JobsGrow
  <2>1. /\ TableGrows /\ ~g'.dirty /\ g'.material < rstate_count'
        /\ rstate_table'[g'.material] = Corrected(rstate) \/ overflow' > 0
    BY <1>1, <1>4, InternStep DEF IInv
  <2>2. Grows  BY <1>1, <2>1, StayPut DEF Grows, PoolGrows, TypeOK
  <2>3. Interned'  BY <1>1, <2>1 DEF Interned, Corrected
  <2>4. Buffered' /\ JobsGrow  BY <1>1, <1>4, <2>2, BufferedStep DEF IInv
  <2>5. Submitted'  BY <1>1 DEF IInv, Submitted
  <2> QED BY <2>2, <2>3, <2>4, <2>5
<1>5. CASE g.vptr = NoWindow /\ UNCHANGED <<g, materials, fan, binning>>
  BY <1>3, <1>5 DEF binning
<1>6. CASE Reject(ix)
  BY <1>3, <1>6 DEF Reject, Drop
<1>7. CASE DrawClipped(ix)
  BY <1>4, <1>7 DEF DrawClipped, Drop, binning
<1>8. CASE DrawInside(ix)
  <2>1. Drawable(ix) /\ Intern  BY <1>8 DEF DrawInside
  <2>2. CASE Drop  BY <1>4, <2>1, <2>2 DEF Drop
  <2>3. CASE Bin(g.vbase, Pooled(ix), ix)
    <3>1. PICK r \in TriRef : B!BinTri(r) /\ PointsIntoPool(r)'
      BY <1>1, <2>1, <2>3, DrawRef DEF IInv
    <3>2. UNCHANGED jobs \/ jobs' = Append(jobs, r)  BY <3>1, Binned DEF IInv, Buffered
    <3> QED BY <1>4, <2>1, <3>1, <3>2
  <2> QED BY <1>8, <2>2, <2>3 DEF DrawInside
<1> QED BY <1>5, <1>6, <1>7, <1>8 DEF DrawTri

(* The pool grows at its end. *)
LEMMA Appended ==
  ASSUME tverts \in Seq(TVtx), NEW more \in Seq(TVtx), tverts' = tverts \o more
  PROVE  /\ tverts' \in Seq(TVtx) /\ Len(tverts') = Len(tverts) + Len(more) /\ PoolGrows
         /\ \A k \in 1 .. Len(more) : tverts'[Len(tverts) + k] = more[k]
<1>1. Len(tverts) \in Nat /\ Len(more) \in Nat  OBVIOUS
<1>2. /\ tverts' \in Seq(TVtx) /\ Len(tverts') = Len(tverts) + Len(more)
      /\ \A i \in 1 .. Len(tverts) + Len(more) :
           tverts'[i] = IF i <= Len(tverts) THEN tverts[i] ELSE more[i - Len(tverts)]
  BY ConcatProperties
<1>3. ASSUME NEW k \in 1 .. Len(more) PROVE tverts'[Len(tverts) + k] = more[k]
  <2>1. /\ Len(tverts) + k \in 1 .. Len(tverts) + Len(more)
        /\ ~(Len(tverts) + k <= Len(tverts)) /\ (Len(tverts) + k) - Len(tverts) = k
    BY <1>1
  <2> QED BY <1>2, <2>1
<1>4. PoolGrows
  <2>1. \A i \in 1 .. Len(tverts) : i \in 1 .. Len(tverts) + Len(more) /\ i <= Len(tverts)
    BY <1>1
  <2>2. Len(tverts) <= Len(tverts')  BY <1>1, <1>2
  <2> QED BY <1>2, <2>1, <2>2 DEF PoolGrows
<1> QED BY <1>2, <1>3, <1>4

(* A load leaves the interned material alone. *)
LEMMA LoadStep ==
  ASSUME TypeOK, NEW w \in Windows, LoadVerts(w)
  PROVE  /\ PoolGrows /\ g'.material = g.material /\ g'.dirty = g.dirty /\ Command
         /\ UNCHANGED <<rstate, materials, fan, binning>>
<1> DEFINE n == Fits(w)
           loaded == LoadedVerts(w, n)
<1>1. Len(tverts) \in Nat /\ Room \in Nat /\ tverts \in Seq(TVtx) /\ g \in CtxType
      /\ w \in Seq(Vertex)
  BY DEF TypeOK, Room, CtxType
<1>2. n \in Nat /\ n <= Len(w)  BY <1>1 DEF Fits
<1>3. /\ tverts' = tverts \o loaded /\ Command
      /\ g' = [g EXCEPT !.vptr = w, !.vcount = n, !.vbase = Len(tverts)]
      /\ UNCHANGED <<rstate, materials, fan, binning>>
  BY DEF LoadVerts, PoolVerts, LoadedVerts, Fits
<1> HIDE DEF n
<1>4. loaded \in Seq(TVtx)  BY <1>2, LoadedType
<1> HIDE DEF loaded
<1>5. PoolGrows  BY <1>1, <1>3, <1>4, Appended
<1>6. g'.material = g.material /\ g'.dirty = g.dirty  BY <1>1, <1>3 DEF CtxType
<1> QED BY <1>3, <1>5, <1>6

(* What a piece of a clipped triangle puts there, with its vertices. *)
LEMMA EmitRef ==
  ASSUME TypeOK, Interned, phase = "walk", ~g.dirty, NEW piece \in Triangle,
         PoolAndBin(piece), UNCHANGED materials
  PROVE  \E r \in TriRef : /\ B!BinTri(r) /\ PointsIntoPool(r)'
                          /\ Vertices(r)' = piece /\ r.material = g'.material
<1>1. tverts \in Seq(TVtx) /\ Len(tverts) \in Nat  BY DEF TypeOK
<1>2. piece \in Seq(TVtx) /\ Len(piece) = 3 /\ piece = <<piece[1], piece[2], piece[3]>>
  BY TripleOfVertices
<1>3. tverts' = tverts \o piece /\ g' = g  BY DEF PoolAndBin
<1>4. /\ Len(tverts') = Len(tverts) + 3
      /\ \A k \in 1 .. 3 : tverts'[Len(tverts) + k] = piece[k]
  BY <1>1, <1>2, <1>3, Appended
<1> DEFINE n == [k \in 1 .. 3 |-> Len(tverts) + <<1, 2, 3>>[k] - 1]
           ref == [v |-> n, material |-> g'.material, span |-> Span(piece)]
<1>5. \A k \in 1 .. 3 : <<1, 2, 3>>[k] = k  OBVIOUS
<1>6. \A k \in 1 .. 3 : Len(tverts) + k - 1 \in Nat /\ Len(tverts) + k - 1 < Len(tverts')
                        /\ (Len(tverts) + k - 1) + 1 = Len(tverts) + k
  BY <1>1, <1>4
<1>7. n \in [1 .. 3 -> Nat]
      /\ \A k \in 1 .. 3 : n[k] < Len(tverts') /\ n[k] + 1 = Len(tverts) + k
  BY <1>5, <1>6
<1> HIDE DEF n
<1>8. g'.material \in Id /\ g'.material \in Nat /\ Span(piece) \in SUBSET Tile
  BY <1>3 DEF TypeOK, Id, Span
<1>9. PICK r \in TriRef : r = ref  BY <1>7, <1>8 DEF TriRef
<1>10. r.v = n /\ r.material = g'.material /\ r.span = Span(piece)  BY <1>9
<1>11. B!BinTri(ref)  BY DEF PoolAndBin, Bin, n
<1> HIDE DEF ref
<1>12. Vertices(r)' = piece
  <2>1. \A k \in 1 .. 3 : tverts'[r.v[k] + 1] = piece[k]  BY <1>4, <1>7, <1>10
  <2> QED BY <1>2, <2>1 DEF Vertices
<1>13. PointsIntoPool(r)'
  <2>1. g'.material < rstate_count'  BY <1>3 DEF Interned, materials
  <2>2. \A k \in 1 .. 3 : r.v[k] < Len(tverts')  BY <1>7, <1>10
  <2> QED BY <1>10, <1>12, <2>1, <2>2 DEF PointsIntoPool
<1> QED BY <1>9, <1>10, <1>11, <1>12, <1>13

(* ... and one piece of a clipped triangle. *)
LEMMA EmitStep ==
  ASSUME IInv, TypeOK', EmitPiece
  PROVE  Submitted' /\ Interned' /\ Buffered' /\ Grows /\ JobsGrow
<1> DEFINE piece == Head(fan)
<1>1. /\ phase = "walk" /\ fan # <<>> /\ TypeOK /\ ~g.dirty
      /\ UNCHANGED <<submits, phase, view, rstate, materials, g>>
  BY DEF EmitPiece, IInv, Interned, PoolAndBin, RunOut
<1>2. tverts \in Seq(TVtx) /\ Len(tverts) \in Nat /\ piece \in Triangle
  BY <1>1, HeadTailProperties DEF TypeOK
<1>3. piece \in Seq(TVtx) /\ Len(piece) = 3 /\ piece = <<piece[1], piece[2], piece[3]>>
  BY <1>2, TripleOfVertices
<1>4. Submitted' /\ Interned'
  BY <1>1 DEF IInv, Submitted, Interned, Corrected, materials
<1>5. TableGrows  BY <1>1 DEF TypeOK, TableGrows, materials
<1>6. ASSUME Grows,
             \/ UNCHANGED jobs
             \/ \E ref \in TriRef : jobs' = Append(jobs, ref) /\ PointsIntoPool(ref)'
      PROVE  Submitted' /\ Interned' /\ Buffered' /\ Grows /\ JobsGrow
  BY <1>1, <1>4, <1>6, BufferedStep DEF IInv
<1> HIDE DEF piece
<1>7. CASE Drop /\ UNCHANGED tverts
  BY <1>1, <1>6, <1>7, StayPut DEF Drop
<1>8. CASE Room < 3 /\ RunOut(piece)
  <2> DEFINE more == SubSeq(piece, 1, Room)
  <2>1. tverts' = tverts \o more /\ UNCHANGED jobs  BY <1>8 DEF RunOut, Drop
  <2>2. more \in Seq(TVtx)  BY <1>1, <1>2, <1>8, CutShort
  <2> HIDE DEF more
  <2> QED BY <1>2, <1>5, <1>6, <2>1, <2>2, Appended DEF Grows
<1>9. CASE PoolAndBin(piece)
  <2>1. tverts' = tverts \o piece  BY <1>9 DEF PoolAndBin
  <2>2. /\ Len(tverts') = Len(tverts) + 3
        /\ PoolGrows
        /\ \A k \in 1 .. 3 : tverts'[Len(tverts) + k] = piece[k]
    BY <1>2, <1>3, <2>1, Appended
  <2>3. Grows  BY <1>5, <2>2 DEF Grows
  <2>4. PICK r \in TriRef : B!BinTri(r) /\ PointsIntoPool(r)'
    BY <1>1, <1>2, <1>9, EmitRef DEF IInv
  <2>5. UNCHANGED jobs \/ jobs' = Append(jobs, r)
    BY <2>4, Binned DEF IInv, Buffered
  <2> QED BY <1>6, <2>3, <2>4, <2>5
<1> QED BY <1>7, <1>8, <1>9 DEF EmitPiece, piece

LEMMA InitIInv == Init => IInv
<1> SUFFICES ASSUME Init PROVE IInv  OBVIOUS
<1>1. /\ TypeOK /\ jobs = <<>> /\ phase = "begun" /\ submits = 0 /\ fan = <<>>
  BY TypeInit DEF Init, B!Init
<1> QED BY <1>1 DEF IInv, Submitted, Interned, Buffered, JobsPointIntoPool

(* Every step but the two that make room for a new frame or stream grows    *)
(* the pool, the table and the bins.                                       *)
LEMMA Step ==
  ASSUME OneStream, IInv, [Next]_vars
  PROVE  IInv' /\ (BeginFrame \/ jobs = <<>> \/ Adds)
<1> USE DEF IInv
<1>1. TypeOK /\ TypeOK'  BY TypeStep
<1> SUFFICES /\ Submitted' /\ Interned' /\ Buffered'
             /\ (BeginFrame \/ jobs = <<>> \/ Adds)
  BY <1>1
<1>2. CASE BeginFrame
  <2>1. jobs' = <<>> /\ fan' = fan /\ phase' = "begun" /\ submits' = 0 /\ phase # "walk"
    BY <1>2 DEF BeginFrame, B!BeginFrame, B!OutInit
  <2> QED BY <1>2, <2>1 DEF Submitted, Interned, Buffered, JobsPointIntoPool
<1>3. CASE Submit
  <2>1. /\ submits = 0 /\ submits' = 1 /\ phase' = "walk" /\ g'.dirty /\ jobs' = jobs
        /\ fan' = fan
    BY <1>1, <1>3, ContextInit DEF Submit, Submitted, OneStream
  <2>2. jobs = <<>>  BY <2>1 DEF Submitted
  <2>3. phase = "begun" /\ fan' = <<>>  BY <2>1 DEF Submitted, Interned
  <2> QED BY <2>1, <2>2, <2>3 DEF Submitted, Interned, Buffered, JobsPointIntoPool
<1>4. ASSUME phase # "begun", phase' # "begun", UNCHANGED <<submits, jobs>>, Grows, Interned'
      PROVE  Submitted' /\ Interned' /\ Buffered' /\ Adds
  <2>1. Buffered' /\ JobsGrow  BY <1>1, <1>4, BufferedStep
  <2> QED BY <1>4, <2>1 DEF Submitted, Adds
<1>5. CASE EndWalk
  <2>1. /\ phase = "walk" /\ phase' = "done" /\ fan' = <<>>
        /\ UNCHANGED <<submits, jobs, tverts, materials>>
    BY <1>5 DEF EndWalk, B!StartFinalize
  <2> QED BY <1>1, <1>4, <2>1, StayPut DEF Interned
<1>6. CASE Pack
  <2>1. /\ phase = "done" /\ UNCHANGED <<phase, submits, jobs, tverts, materials, fan>>
    BY <1>6 DEF Pack, B!Segment, B!CutSegment, B!StartReplay, B!Replay, B!WriteRef,
                B!EndFinalize
  <2> QED BY <1>1, <1>4, <2>1, StayPut DEF Interned
<1>7. ASSUME phase = "walk", fan = <<>>, Grows, Interned', UNCHANGED <<submits, phase, jobs>>
      PROVE  Submitted' /\ Interned' /\ Buffered' /\ Adds
  BY <1>4, <1>7
<1>8. CASE \/ \E m \in Matrix : LoadMatrix(m) \/ PushMatrix(m) \/ SetProjection(m)
           \/ PopMatrix
           \/ \E new \in Viewport : SetViewport(new)
           \/ \E color \in Color : Clear(color)
           \/ \E ix \in Triples : BranchLessZ(ix[1])
  <2>1. Command /\ UNCHANGED <<rstate, materials, g, tverts, fan, binning>>
    BY <1>8 DEF LoadMatrix, PushMatrix, SetProjection, PopMatrix, SetMtx, SetViewport,
                Clear, BranchLessZ
  <2>2. phase = "walk" /\ fan = <<>> /\ UNCHANGED <<submits, phase, jobs>>
    BY <2>1 DEF Command, binning
  <2>3. Grows /\ Interned'
    BY <1>1, <2>1, <2>2, StayPut DEF Interned, Corrected, materials
  <2> QED BY <1>7, <2>2, <2>3
<1>9. ASSUME NEW new \in RenderState, SetRenderState(new)
      PROVE  Submitted' /\ Interned' /\ Buffered' /\ Adds
  <2>1. /\ phase = "walk" /\ fan = <<>> /\ g' = [g EXCEPT !.dirty = TRUE]
        /\ UNCHANGED <<submits, phase, jobs, tverts, materials, fan>>
    BY <1>9 DEF SetRenderState, Command, binning
  <2>2. g'.dirty  BY <1>1, <2>1 DEF TypeOK
  <2> QED BY <1>1, <1>7, <2>1, <2>2, StayPut DEF Interned
<1>10. ASSUME g'.material = g.material, g'.dirty = g.dirty, Command, PoolGrows,
              UNCHANGED <<rstate, materials, fan, binning>>
       PROVE  Submitted' /\ Interned' /\ Buffered' /\ Adds
  <2>1. phase = "walk" /\ fan = <<>> /\ UNCHANGED <<submits, phase, jobs>>
    BY <1>10 DEF Command, binning
  <2>2. Grows  BY <1>1, <1>10 DEF TypeOK, Grows, TableGrows, materials
  <2>3. Interned'  BY <1>10, <2>1 DEF Interned, Corrected, materials
  <2> QED BY <1>7, <2>1, <2>2, <2>3
<1>11. ASSUME NEW w \in Windows, LoadVerts(w)
       PROVE  Submitted' /\ Interned' /\ Buffered' /\ Adds
  <2>1. PoolGrows /\ g'.material = g.material /\ g'.dirty = g.dirty /\ Command
        /\ UNCHANGED <<rstate, materials, fan, binning>>
    BY <1>1, <1>11, LoadStep
  <2> QED BY <1>10, <2>1
<1>12. CASE LoadVertsRelative
  <2>1. PoolGrows /\ g'.material = g.material /\ g'.dirty = g.dirty /\ Command
        /\ UNCHANGED <<rstate, materials, fan, binning>>
    BY <1>1, <1>12, StayPut DEF LoadVertsRelative, TypeOK, PoolGrows
  <2> QED BY <1>10, <2>1
<1>13. ASSUME NEW ix \in Triples, DrawTri(ix)
       PROVE  Submitted' /\ Interned' /\ Buffered' /\ Adds
  BY <1>1, <1>13, DrawStep DEF DrawTri, Command, Adds
<1>14. CASE EmitPiece  BY <1>1, <1>14, EmitStep DEF EmitPiece, Adds
<1>15. CASE UNCHANGED vars
  <2>1. UNCHANGED <<phase, submits, jobs, tverts, materials, rstate, g, fan>>
    BY <1>15 DEF vars, binning
  <2>2. Submitted' /\ Interned' /\ Grows
    BY <1>1, <2>1, StayPut DEF Submitted, Interned, Corrected, materials
  <2>3. CASE phase = "begun"
    BY <2>1, <2>2, <2>3 DEF Submitted, Buffered, JobsPointIntoPool
  <2> QED BY <1>4, <2>1, <2>2, <2>3
<1> QED BY <1>2, <1>3, <1>4, <1>5, <1>6, <1>8, <1>9, <1>11, <1>12, <1>13, <1>14, <1>15
        DEF Next

THEOREM Inductive == OneStream => (Spec => []IInv)
<1> SUFFICES ASSUME OneStream PROVE Spec => []IInv  OBVIOUS
<1>1. Init => IInv  BY InitIInv
<1>2. IInv /\ [Next]_vars => IInv'  BY Step
<1> QED BY <1>1, <1>2, PTL DEF Spec

(* What the raster cores index with a job's fields is there, and covers the *)
(* tiles it was tallied for, for any stream of commands.                    *)
THEOREM JobsLead == OneStream => (Spec => []JobsPointIntoPool)
<1> SUFFICES ASSUME OneStream PROVE Spec => []JobsPointIntoPool  OBVIOUS
<1>1. IInv => JobsPointIntoPool  BY DEF IInv, Buffered
<1> QED BY <1>1, Inductive, PTL

(* A triangle in the bins keeps what it was drawn with until the next frame *)
(* begins.                                                                 *)
LEMMA KeptStep ==
  ASSUME OneStream, IInv, [Next]_vars, ~BeginFrame
  PROVE  SubSeq(Resolved', 1, Len(jobs)) = Resolved
<1>1. /\ IInv' /\ (jobs = <<>> \/ Adds)  BY Step
<1>2. TypeOK /\ TypeOK' /\ jobs \in Seq(TriRef) /\ jobs' \in Seq(TriRef)
  BY <1>1 DEF IInv, Buffered
<1>3. CASE jobs = <<>>
  <2>1. Len(jobs) = 0 /\ DOMAIN jobs = {}  BY <1>3
  <2>2. Resolved = <<>>  BY <2>1 DEF Resolved
  <2>3. SubSeq(Resolved', 1, 0) = <<>>  OBVIOUS
  <2> QED BY <2>1, <2>2, <2>3
<1>4. CASE Adds
  <2>1. \A j \in DOMAIN jobs : PointsIntoPool(jobs[j])
    BY <1>2, <1>4, Referred DEF IInv, Buffered, Adds
  <2>2. ASSUME NEW j \in 1 .. Len(jobs)
        PROVE  j \in DOMAIN jobs' /\ Resolved'[j] = Resolved[j]
    <3>1. PICK r \in TriRef : r = jobs[j]  BY <1>2
    <3>2. j \in DOMAIN jobs /\ j \in DOMAIN jobs' /\ jobs'[j] = r
      BY <1>2, <1>4, <3>1 DEF Adds, JobsGrow
    <3>3. Lead(r)' = Lead(r)  BY <1>2, <1>4, <2>1, <3>1, StillPoints DEF Adds, PointsIntoPool
    <3>4. Resolved[j] = Lead(r)  BY <3>1, <3>2 DEF Resolved, Lead
    <3>5. Resolved'[j] = Lead(r)'
      BY <3>2 DEF Resolved, Lead, Vertices
    <3> QED BY <3>2, <3>3, <3>4, <3>5
  <2> DEFINE n == Len(jobs)
             old == Resolved
             new == Resolved'
  <2>3. n \in Nat /\ DOMAIN jobs = 1 .. n  BY <1>2
  <2>4. old = [j \in 1 .. n |-> old[j]]  BY <2>3 DEF Resolved
  <2>5. \A j \in 1 .. n : new[j] = old[j]  BY <2>2
  <2> HIDE DEF n, old, new
  <2>6. SubSeq(new, 1, n) = old  BY <2>3, <2>4, <2>5, Beginning
  <2> QED BY <2>6 DEF n, old, new
<1> QED BY <1>1, <1>3, <1>4

THEOREM KeptShown == OneStream => (Spec => ShownIsKept)
<1> SUFFICES ASSUME OneStream PROVE Spec => ShownIsKept  OBVIOUS
<1>1. IInv /\ [Next]_vars => [BeginFrame \/ SubSeq(Resolved', 1, Len(jobs)) = Resolved]_vars
  BY KeptStep
<1> QED BY <1>1, Inductive, PTL DEF Spec, ShownIsKept

-----------------------------------------------------------------------------
(* FrontEnd implements ImmediateMode when a frame has one stream.  To the   *)
(* invariant this adds that the cached product is the one in force, and    *)
(* that no window outlives its walk.  The two specifications each have     *)
(* their own copy of Geometry; the first lemmas say the copies agree, and  *)
(* what the refinement mapping's window and shown look like after a step.  *)
Cached == ~mtx.dirty => mtx.mvp = <<mtx.projection, Last1(mtx.modelview)>>
Idle == phase # "walk" => g.vptr = NoWindow
RInv == IInv /\ Cached /\ Idle

(* What the refinement mapping substitutes. *)
Window == IF g.vptr = NoWindow THEN NoWindow
          ELSE SubSeq(tverts, g.vbase + 1, g.vbase + g.vcount)
Recoloured == overflow > 0
Used == Len(tverts)

-----------------------------------------------------------------------------
(* The copies agree. *)
LEMMA SameData ==
  /\ I!RenderState = RenderState
  /\ \A s : I!Last1(s) = Last1(s)
  /\ \A v, m, port, state : I!Transformed(v, m, port, state) = Transformed(v, m, port, state)
  /\ \A tv : I!Behind(tv) = Behind(tv) /\ I!Inside(tv) = Inside(tv)
  /\ \A state : I!Corrected(state) = Corrected(state)
BY DEF I!RenderState, RenderState, I!Last1, Last1, I!Transformed, Transformed,
       I!Behind, Behind, I!Inside, Inside, I!Corrected, Corrected

LEMMA SameFaces ==
  ASSUME NEW tri, NEW modelview, NEW cull
  PROVE  I!Culled(tri, modelview, cull) <=> Culled(tri, modelview, cull)
BY DEF I!Culled, Culled, I!Front, Front

LEMMA SameFan ==
  ASSUME NEW ring, NEW tri
  PROVE  I!Fan(ring, tri) = Fan(ring, tri)
BY DEF I!Fan, Fan

-----------------------------------------------------------------------------
(* The cache: mtx_mvp returns the product in force. *)
LEMMA MvpInForce ==
  ASSUME Cached PROVE Mvp = <<mtx.projection, Last1(mtx.modelview)>>
BY DEF Cached, Mvp

LEMMA RefreshedCached ==
  ASSUME TypeOK, Cached, mtx' = Refreshed
  PROVE  /\ Cached' /\ mtx'.modelview = mtx.modelview /\ mtx'.projection = mtx.projection
<1>1. /\ mtx \in MtxType /\ Mvp \in Product  BY MvpType DEF TypeOK, MtxType
<1>2. Mvp = <<mtx.projection, Last1(mtx.modelview)>>  BY MvpInForce
<1> HIDE DEF Mvp
<1>3. /\ mtx'.modelview = mtx.modelview /\ mtx'.projection = mtx.projection
      /\ mtx'.mvp = Mvp
  BY <1>1 DEF Refreshed, MtxType
<1> QED BY <1>2, <1>3 DEF Cached, Last1

LEMMA DirtyCached ==
  ASSUME TypeOK, NEW new, new.dirty = TRUE, mtx' = new
  PROVE  Cached'
BY DEF Cached

LEMMA MatrixCached ==
  ASSUME TypeOK, Cached, \/ \E m \in Matrix : LoadMatrix(m) \/ PushMatrix(m) \/ SetProjection(m)
                         \/ PopMatrix
  PROVE  Cached'
<1>1. mtx \in MtxType  BY DEF TypeOK, MtxType
<1>2. CASE mtx' = mtx  BY <1>2 DEF Cached
<1>3. ASSUME NEW m \in Matrix, LoadMatrix(m) PROVE Cached'
  <2>1. mtx'.dirty = TRUE  BY <1>1, <1>3 DEF LoadMatrix, SetMtx, MtxType
  <2> QED BY <2>1 DEF Cached
<1>4. ASSUME NEW m \in Matrix, PushMatrix(m) PROVE Cached'
  <2>1. mtx' = mtx \/ mtx'.dirty = TRUE
    BY <1>1, <1>4 DEF PushMatrix, SetMtx, MtxType
  <2> QED BY <1>2, <2>1 DEF Cached
<1>5. ASSUME NEW m \in Matrix, SetProjection(m) PROVE Cached'
  <2>1. mtx'.dirty = TRUE  BY <1>1, <1>5 DEF SetProjection, SetMtx, MtxType
  <2> QED BY <2>1 DEF Cached
<1>6. CASE PopMatrix
  <2>1. mtx' = mtx \/ mtx'.dirty = TRUE
    BY <1>1, <1>6 DEF PopMatrix, SetMtx, MtxType
  <2> QED BY <1>2, <2>1 DEF Cached
<1> QED BY <1>3, <1>4, <1>5, <1>6

LEMMA CachedStep ==
  ASSUME TypeOK, Cached, Idle, [Next]_vars
  PROVE  Cached' /\ Idle'
<1>1. g \in CtxType /\ mtx \in MtxType  BY DEF TypeOK, CtxType, MtxType
<1>2. ASSUME mtx' = mtx PROVE Cached'  BY <1>2 DEF Cached
<1>3. CASE BeginFrame
  <2>1. mtx'.dirty = TRUE /\ g' = g /\ phase # "walk"  BY <1>3 DEF BeginFrame, MtxInit
  <2> QED BY <2>1 DEF Cached, Idle
<1>4. CASE Submit
  BY <1>2, <1>4 DEF Submit, view, Idle
<1>5. CASE EndWalk
  BY <1>2, <1>5, ContextInit DEF EndWalk, view, Idle
<1>6. CASE Pack
  BY <1>2, <1>6 DEF Pack, view, Idle
<1>7. CASE (\E m \in Matrix : LoadMatrix(m) \/ PushMatrix(m) \/ SetProjection(m)) \/ PopMatrix
  <2>1. phase' = phase /\ g' = g
    BY <1>7 DEF LoadMatrix, PushMatrix, SetProjection, PopMatrix, SetMtx, Command
  <2> QED BY <1>7, <2>1, MatrixCached DEF Idle
<1>8. CASE \/ \E new \in Viewport : SetViewport(new)
           \/ \E color \in Color : Clear(color)
           \/ \E new \in RenderState : SetRenderState(new)
           \/ LoadVertsRelative
           \/ \E ix \in Triples : DrawTri(ix)
           \/ EmitPiece
  <2>1. phase = "walk" /\ phase' = "walk" /\ mtx' = mtx
    BY <1>8 DEF SetViewport, Clear, SetRenderState, LoadVertsRelative, DrawTri, EmitPiece,
                Command, view
  <2> QED BY <1>2, <2>1 DEF Idle
<1>9. CASE \/ \E w \in Windows : LoadVerts(w)
           \/ \E ix \in Triples : BranchLessZ(ix[1])
  <2>1. phase = "walk" /\ phase' = "walk" /\ (mtx' = mtx \/ mtx' = Refreshed)
    BY <1>9 DEF LoadVerts, PoolVerts, BranchLessZ, Command
  <2> QED BY <1>2, <2>1, RefreshedCached DEF Idle
<1>10. CASE UNCHANGED vars
  BY <1>2, <1>10 DEF vars, view, Idle
<1> QED BY <1>3, <1>4, <1>5, <1>6, <1>7, <1>8, <1>9, <1>10 DEF Next

-----------------------------------------------------------------------------
(* The window. *)
LEMMA Slice ==
  ASSUME NEW verts \in Seq(TVtx), NEW base \in Nat, NEW n \in Nat, base + n <= Len(verts)
  PROVE  /\ SubSeq(verts, base + 1, base + n) \in Seq(TVtx)
         /\ Len(SubSeq(verts, base + 1, base + n)) = n
         /\ \A k \in 1 .. n : SubSeq(verts, base + 1, base + n)[k] = verts[base + k]
<1> DEFINE a == base + 1
           b == base + n
<1>1. Len(verts) \in Nat  OBVIOUS
<1>2. /\ a \in Int /\ b \in Int /\ b - a + 1 = n
      /\ (IF a <= b THEN b - a + 1 ELSE 0) = n
      /\ \A k \in 1 .. n : a + k - 1 = base + k
  OBVIOUS
<1>3. ASSUME NEW i \in a .. b PROVE verts[i] \in TVtx
  <2>1. i \in 1 .. Len(verts)  BY <1>1
  <2> QED BY <2>1, ElementOfSeq
<1> HIDE DEF a, b
<1>4. /\ SubSeq(verts, a, b) \in Seq(TVtx)
      /\ Len(SubSeq(verts, a, b)) = IF a <= b THEN b - a + 1 ELSE 0
      /\ \A i \in 1 .. b - a + 1 : SubSeq(verts, a, b)[i] = verts[a + i - 1]
  BY <1>2, <1>3, SubSeqProperties
<1>5. /\ SubSeq(verts, a, b) \in Seq(TVtx) /\ Len(SubSeq(verts, a, b)) = n
      /\ \A k \in 1 .. n : SubSeq(verts, a, b)[k] = verts[base + k]
  BY <1>2, <1>4
<1> QED BY <1>5 DEF a, b

LEMMA WindowType ==
  ASSUME TypeOK, phase = "walk", g.vptr # NoWindow
  PROVE  /\ Window \in Seq(TVtx) /\ Len(Window) = g.vcount /\ Window # NoWindow
         /\ \A k \in 1 .. g.vcount : Window[k] = tverts[g.vbase + k]
<1>1. /\ g.vbase \in Nat /\ g.vcount \in Nat /\ tverts \in Seq(TVtx)
      /\ g.vbase + g.vcount <= Len(tverts)
  BY DEF TypeOK
<1>2. Window = SubSeq(tverts, g.vbase + 1, g.vbase + g.vcount)  BY DEF Window
<1> DEFINE base == g.vbase
           n == g.vcount
<1> HIDE DEF base, n
<1>3. base \in Nat /\ n \in Nat /\ base + n <= Len(tverts)  BY <1>1 DEF base, n
<1>4. /\ SubSeq(tverts, base + 1, base + n) \in Seq(TVtx)
      /\ Len(SubSeq(tverts, base + 1, base + n)) = n
      /\ \A k \in 1 .. n : SubSeq(tverts, base + 1, base + n)[k] = tverts[base + k]
  BY <1>1, <1>3, Slice
<1> QED BY <1>2, <1>4 DEF base, n

(* It stays while the pool grows behind it. *)
LEMMA WindowStays ==
  ASSUME TypeOK, TypeOK', PoolGrows, g'.vptr = g.vptr, g'.vcount = g.vcount,
         g'.vbase = g.vbase, phase = "walk", phase' = "walk"
  PROVE  Window' = Window
<1>1. CASE g.vptr = NoWindow  BY <1>1 DEF Window
<1>2. CASE g.vptr # NoWindow
  <2> DEFINE old == SubSeq(tverts, g.vbase + 1, g.vbase + g.vcount)
             new == SubSeq(tverts', g.vbase + 1, g.vbase + g.vcount)
  <2>1. /\ g.vbase \in Nat /\ g.vcount \in Nat /\ tverts \in Seq(TVtx)
        /\ g.vbase + g.vcount <= Len(tverts) /\ Len(tverts) \in Nat
        /\ tverts' \in Seq(TVtx) /\ g.vbase + g.vcount <= Len(tverts')
    BY DEF TypeOK
  <2> DEFINE base == g.vbase
             n == g.vcount
  <2> HIDE DEF base, n
  <2>6. base \in Nat /\ n \in Nat /\ base + n <= Len(tverts) /\ base + n <= Len(tverts')
    BY <2>1 DEF base, n
  <2>7. /\ SubSeq(tverts, base + 1, base + n) \in Seq(TVtx)
        /\ Len(SubSeq(tverts, base + 1, base + n)) = n
        /\ \A k \in 1 .. n : SubSeq(tverts, base + 1, base + n)[k] = tverts[base + k]
    BY <2>1, <2>6, Slice
  <2>8. /\ SubSeq(tverts', base + 1, base + n) \in Seq(TVtx)
        /\ Len(SubSeq(tverts', base + 1, base + n)) = n
        /\ \A k \in 1 .. n : SubSeq(tverts', base + 1, base + n)[k] = tverts'[base + k]
    BY <2>1, <2>6, Slice
  <2>2. /\ old \in Seq(TVtx) /\ Len(old) = g.vcount
        /\ \A k \in 1 .. g.vcount : old[k] = tverts[g.vbase + k]
    BY <2>7 DEF base, n
  <2>3. /\ new \in Seq(TVtx) /\ Len(new) = g.vcount
        /\ \A k \in 1 .. g.vcount : new[k] = tverts'[g.vbase + k]
    BY <2>8 DEF base, n
  <2>4. ASSUME NEW k \in 1 .. g.vcount PROVE tverts'[g.vbase + k] = tverts[g.vbase + k]
    <3>1. g.vbase + k \in 1 .. Len(tverts)  BY <2>1
    <3> QED BY <3>1 DEF PoolGrows
  <2>5. Window = old /\ Window' = new  BY <1>2 DEF Window
  <2> HIDE DEF old, new
  <2>9. old = new  BY <2>2, <2>3, <2>4, SeqEqual
  <2> QED BY <2>5, <2>9
<1> QED BY <1>1, <1>2

(* A load makes the window that immediate mode promises, cut short perhaps. *)
LEMMA WindowLoaded ==
  ASSUME TypeOK, Cached, NEW w \in Windows, LoadVerts(w)
  PROVE  \E n \in 0 .. Len(w) :
           /\ Used' = Used + n /\ Used' <= MaxTverts
           /\ n < Len(w) => Used' = MaxTverts
           /\ Window' = [i \in 1 .. n |->
                           Transformed(w[i], <<mtx.projection, Last1(mtx.modelview)>>,
                                       vp, rstate)]
<1> DEFINE n == Fits(w)
           loaded == LoadedVerts(w, n)
           first == Len(tverts)
           new == SubSeq(tverts', first + 1, first + n)
<1>1. first \in Nat /\ tverts \in Seq(TVtx) /\ g \in CtxType /\ w \in Seq(Vertex)
      /\ Room \in Nat /\ MaxTverts \in Nat
  BY LimitsAssumption DEF TypeOK, Room, CtxType
<1>2. /\ n \in Nat /\ n <= Len(w)
      /\ first + n <= MaxTverts /\ (n < Len(w) => first + n = MaxTverts)
  <2> DEFINE room == Room
             len == Len(w)
  <2>1. room \in Nat /\ len \in Nat /\ first + room = MaxTverts
    BY <1>1 DEF Room
  <2>2. n = IF len > room THEN room ELSE len  BY DEF Fits
  <2> HIDE DEF room, n, first
  <2>3. n \in Nat /\ n <= len /\ n <= room /\ (n < len => n = room)
    <3> HIDE DEF len
    <3> QED BY <2>1, <2>2
  <2> QED BY <1>1, <2>1, <2>3
<1>3. /\ tverts' = tverts \o loaded
      /\ g' = [g EXCEPT !.vptr = w, !.vcount = n, !.vbase = Len(tverts)]
  BY DEF LoadVerts, PoolVerts, LoadedVerts, Fits
<1>4. loaded = [i \in 1 .. n |-> Transformed(w[i], <<mtx.projection, Last1(mtx.modelview)>>,
                                            vp, rstate)]
  BY MvpInForce DEF LoadedVerts
<1> HIDE DEF n
<1>5. loaded \in Seq(TVtx) /\ Len(loaded) = n  BY <1>2, LoadedType
<1> HIDE DEF loaded
<1>6. /\ tverts' \in Seq(TVtx) /\ Len(tverts') = first + n
      /\ \A k \in 1 .. n : tverts'[first + k] = loaded[k]
  BY <1>1, <1>3, <1>5, Appended
<1>7. g'.vptr = w /\ g'.vcount = n /\ g'.vbase = first  BY <1>1, <1>3 DEF CtxType
<1>8. w # NoWindow  OBVIOUS
<1>9. Window' = new  BY <1>7, <1>8 DEF Window
<1>10. /\ new \in Seq(TVtx) /\ Len(new) = n
       /\ \A k \in 1 .. n : new[k] = tverts'[first + k]
  <2> HIDE DEF first
  <2>1. first + n <= Len(tverts')  BY <1>1, <1>2, <1>6
  <2> QED BY <1>1, <1>2, <1>6, <2>1, Slice
<1> HIDE DEF new, first
<1>11. new = loaded  BY <1>5, <1>6, <1>10, SeqEqual
<1>12. n \in 0 .. Len(w)  BY <1>1, <1>2
<1>13. Used = first /\ Used' = first + n  BY <1>6 DEF Used, first
<1> QED BY <1>2, <1>4, <1>9, <1>11, <1>12, <1>13

-----------------------------------------------------------------------------
(* What is shown. *)
Runs(s, n) == s = [j \in 1 .. n |-> s[j]]

LEMMA OneMore ==
  ASSUME NEW s, NEW t, NEW n \in Nat, Runs(t, n), Runs(s, n + 1),
         \A j \in 1 .. n : s[j] = t[j]
  PROVE  s = Append(t, s[n + 1])
<1> USE DEF Runs
<1> DEFINE S == {s[j] : j \in 1 .. n + 1}
<1>1. s \in [1 .. n + 1 -> S] /\ t \in [1 .. n -> S] /\ s[n + 1] \in S
  <2>1. n + 1 \in 1 .. n + 1 /\ \A j \in 1 .. n : j \in 1 .. n + 1  OBVIOUS
  <2>2. \A j \in 1 .. n + 1 : s[j] \in S  OBVIOUS
  <2>3. \A j \in 1 .. n : t[j] \in S  BY <2>1, <2>2
  <2> HIDE DEF S
  <2>4. s \in [1 .. n + 1 -> S]  BY <2>2
  <2>5. t \in [1 .. n -> S]  BY <2>3
  <2> QED BY <2>1, <2>2, <2>4, <2>5
<1> HIDE DEF S
<1>2. s \in Seq(S) /\ Len(s) = n + 1
  <2>1. n + 1 \in Nat  OBVIOUS
  <2>2. s \in Seq(S)  BY <1>1, <2>1, SeqDef
  <2> QED BY <1>1, <2>1, <2>2
<1>3. t \in Seq(S) /\ Len(t) = n
  <2>1. t \in Seq(S)  BY <1>1, SeqDef
  <2> QED BY <1>1, <2>1
<1>4. \A i \in 1 .. n + 1 : s[i] = Append(t, s[n + 1])[i]
  BY <1>1, <1>2, <1>3
<1> QED BY <1>1, <1>2, <1>3, <1>4, SeqEqual

LEMMA ShownType ==
  ASSUME jobs \in Seq(TriRef)
  PROVE  Resolved = [j \in 1 .. Len(jobs) |-> Resolved[j]] /\ Len(Resolved) = Len(jobs)
<1>1. DOMAIN jobs = 1 .. Len(jobs) /\ Len(jobs) \in Nat  OBVIOUS
<1>2. Resolved = [j \in 1 .. Len(jobs) |-> Resolved[j]]  BY <1>1 DEF Resolved
<1>3. Len(Resolved) = Len(jobs)
  <2> DEFINE n == Len(jobs)
             r == Resolved
  <2>1. n \in Nat /\ r = [j \in 1 .. n |-> r[j]]  BY <1>1, <1>2
  <2> HIDE DEF n, r
  <2>2. Len(r) = n  BY <2>1
  <2> QED BY <2>2 DEF n, r
<1> QED BY <1>2, <1>3

(* A step that adds no triangle shows what was shown, and one that does     *)
(* shows it besides, with what it leads to.                                 *)
LEMMA ShownStep ==
  ASSUME TypeOK, TypeOK', jobs \in Seq(TriRef), jobs' \in Seq(TriRef),
         \A j \in DOMAIN jobs : PointsIntoPool(jobs[j]), Grows
  PROVE  /\ jobs' = jobs => Resolved' = Resolved
         /\ \A ref \in TriRef :
              jobs' = Append(jobs, ref) => Resolved' = Append(Resolved, Lead(ref)')
<1> DEFINE n == Len(jobs)
           old == Resolved
           new == Resolved'
<1>1. n \in Nat /\ DOMAIN jobs = 1 .. n /\ DOMAIN jobs' = 1 .. Len(jobs')  OBVIOUS
<1>2. ASSUME NEW j \in 1 .. n, j \in DOMAIN jobs', jobs'[j] = jobs[j]
      PROVE  new[j] = old[j]
  <2>1. PICK r \in TriRef : r = jobs[j]  OBVIOUS
  <2>2. Lead(r)' = Lead(r)
    <3>1. PointsIntoPool(r)  BY <1>1, <2>1 DEF PointsIntoPool
    <3> QED BY <3>1, StillPoints
  <2>3. old[j] = Lead(r)  BY <1>1, <2>1 DEF Resolved, Lead, Vertices
  <2>4. new[j] = Lead(r)'  BY <1>2, <2>1 DEF Resolved, Lead, Vertices
  <2> QED BY <2>2, <2>3, <2>4
<1>3. old = [j \in 1 .. n |-> old[j]]  BY <1>1 DEF Resolved
<1>4. CASE jobs' = jobs
  <2>1. new = [j \in 1 .. n |-> new[j]]  BY <1>1, <1>4 DEF Resolved
  <2>2. \A j \in 1 .. n : new[j] = old[j]  BY <1>1, <1>2, <1>4
  <2> HIDE DEF n, old, new
  <2>3. new = old  BY <1>3, <2>1, <2>2
  <2> QED BY <1>4, <2>3 DEF new, old
<1>5. ASSUME NEW ref \in TriRef, jobs' = Append(jobs, ref)
      PROVE  Resolved' = Append(Resolved, Lead(ref)')
  <2>1. /\ DOMAIN jobs' = 1 .. n + 1 /\ jobs'[n + 1] = ref /\ n + 1 \in 1 .. n + 1
        /\ \A j \in 1 .. n : j \in DOMAIN jobs' /\ jobs'[j] = jobs[j]
    BY <1>5
  <2>2. new = [j \in 1 .. n + 1 |-> new[j]]  BY <2>1 DEF Resolved
  <2>3. \A j \in 1 .. n : new[j] = old[j]  BY <1>2, <2>1
  <2>4. new[n + 1] = Lead(ref)'  BY <2>1 DEF Resolved, Lead, Vertices
  <2> HIDE DEF n, old, new
  <2>5. n \in Nat /\ Runs(old, n) /\ Runs(new, n + 1)  BY <1>1, <1>3, <2>2 DEF Runs
  <2>6. new = Append(old, new[n + 1])  BY <2>3, <2>5, OneMore
  <2> QED BY <2>4, <2>6 DEF old, new
<1>6. jobs' = jobs => Resolved' = Resolved
  BY <1>4
<1> QED BY <1>5, <1>6

-----------------------------------------------------------------------------
(* What immediate mode does with a triangle, in the front end's terms. *)
LEMMA StaysRecoloured ==
  ASSUME Recoloured => Recoloured' PROVE (overflow > 0)' \in {overflow > 0, TRUE}
<1> DEFINE a == overflow > 0
           b == overflow' > 0
<1>1. a \in BOOLEAN /\ b \in BOOLEAN /\ (a => b)  BY DEF Recoloured
<1> HIDE DEF a, b
<1>2. b \in {a, TRUE}  BY <1>1
<1> QED BY <1>2 DEF a, b

LEMMA Rejects ==
  ASSUME Recoloured => Recoloured', dropped' = dropped + 1, Resolved' = Resolved
  PROVE  I!Reject
BY StaysRecoloured DEF I!Reject

LEMMA Shows ==
  ASSUME NEW tri, NEW s \in RenderState, ~FacesAway(tri),
         s = Corrected(rstate) \/ Recoloured',
         Recoloured => Recoloured', dropped' = dropped,
         Resolved' = Append(Resolved, [tri |-> tri, state |-> s])
  PROVE  I!Show(tri)
<1>1. ~I!FacesAway(tri)  BY SameFaces, SameData DEF I!FacesAway, FacesAway
<1>2. s \in I!RenderState /\ (s = I!Corrected(rstate) \/ (overflow > 0)')
  BY SameData DEF Recoloured
<1> QED BY <1>1, <1>2, StaysRecoloured DEF I!Show

LEMMA InternRecolours ==
  ASSUME TypeOK, Intern PROVE Recoloured => Recoloured'
BY DEF TypeOK, Intern, Clamp, Recoloured, materials

(* A triangle offered to the bins is shown, or they are full. *)
LEMMA Offered ==
  ASSUME TypeOK, TypeOK', Buffered, Buffered', phase # "begun", Grows,
         Recoloured => Recoloured', NEW tri, ~FacesAway(tri),
         NEW r \in TriRef, B!BinTri(r), PointsIntoPool(r)', Vertices(r)' = tri,
         r.material = g'.material,
         rstate_table'[g'.material] = Corrected(rstate) \/ Recoloured'
  PROVE  I!Show(tri) \/ (I!Reject /\ Len(Resolved) >= JobsCap)
<1>1. /\ jobs \in Seq(TriRef) /\ jobs' \in Seq(TriRef)
      /\ \A j \in DOMAIN jobs : PointsIntoPool(jobs[j])
  BY Referred DEF Buffered
<1>2. CASE B!Buffer(r)
  <2>1. jobs' = Append(jobs, r) /\ dropped' = dropped  BY <1>2 DEF B!Buffer, B!counters
  <2>2. Resolved' = Append(Resolved, Lead(r)')  BY <1>1, <2>1, ShownStep
  <2>3. Lead(r)' = [tri |-> tri, state |-> rstate_table'[g'.material]]  BY DEF Lead
  <2>4. rstate_table'[g'.material] \in RenderState  BY DEF TypeOK
  <2> QED BY <2>1, <2>2, <2>3, <2>4, Shows
<1>3. CASE B!Refuse
  <2>1. jobs' = jobs /\ dropped' = dropped + 1 /\ Len(jobs) >= JobsCap
    BY <1>3 DEF B!Refuse
  <2>2. Resolved' = Resolved /\ Len(Resolved) = Len(jobs)
    BY <1>1, <2>1, ShownStep, ShownType
  <2> QED BY <2>1, <2>2, Rejects
<1> QED BY <1>2, <1>3 DEF B!BinTri

(* The corners of a triple, and what is decided by them. *)
LEMMA SameTriple ==
  ASSUME TypeOK, phase = "walk", g.vptr # NoWindow, NEW ix \in Triples
  PROVE  /\ I!Drawable(ix) <=> Drawable(ix)
         /\ Drawable(ix) => /\ I!Corners(ix) = Pooled(ix)
                            /\ I!InGuardBand(ix) <=> InGuardBand(ix)
<1>1. /\ Len(Window) = g.vcount /\ g.vcount \in Nat
      /\ \A k \in 1 .. g.vcount : Window[k] = tverts[g.vbase + k]
  BY WindowType DEF TypeOK
<1>2. ix[1] \in Nat \ {0} /\ ix[2] \in Nat \ {0} /\ ix[3] \in Nat \ {0}  OBVIOUS
<1>3. I!Corners(ix) = <<Window[ix[1]], Window[ix[2]], Window[ix[3]]>>
  BY DEF I!Corners, Window
<1>4. I!Drawable(ix) <=> /\ \A k \in 1 .. 3 : ix[k] <= Len(Window)
                         /\ \A k \in 1 .. 3 : ~Behind(I!Corners(ix)[k])
  BY SameData DEF I!Drawable, Window
<1>5. I!InGuardBand(ix) <=> \A k \in 1 .. 3 : Inside(I!Corners(ix)[k])
  BY SameData DEF I!InGuardBand
<1> HIDE DEF Window
<1>6. CASE \A k \in 1 .. 3 : ix[k] <= g.vcount
  <2>1. ix[1] <= g.vcount /\ ix[2] <= g.vcount /\ ix[3] <= g.vcount  BY <1>6
  <2>2. I!Corners(ix) = Pooled(ix)  BY <1>1, <1>2, <1>3, <2>1 DEF Pooled
  <2> QED BY <1>1, <1>4, <1>5, <1>6, <2>2 DEF Drawable, InGuardBand
<1>7. CASE ~(\A k \in 1 .. 3 : ix[k] <= g.vcount)
  BY <1>1, <1>4, <1>7 DEF Drawable
<1> QED BY <1>6, <1>7

-----------------------------------------------------------------------------
(* Step by step. *)
LEMMA DrawImplements ==
  ASSUME RInv, RInv', NEW ix \in Triples, DrawTri(ix)
  PROVE  I!DrawTri(ix) \/ UNCHANGED I!vars
<1>1. TypeOK /\ TypeOK' /\ IInv /\ Buffered /\ Buffered' /\ Interned  BY DEF RInv, IInv
<1>2. phase = "walk" /\ phase' = "walk" /\ fan = <<>> /\ UNCHANGED <<view, rstate, tverts>>
  BY DEF DrawTri, Command
<1>3. Grows  BY <1>1, DrawStep
<1>4. jobs \in Seq(TriRef) /\ jobs' \in Seq(TriRef)
      /\ \A j \in DOMAIN jobs : PointsIntoPool(jobs[j])
  BY <1>1, <1>2, Referred DEF Buffered
<1>5. jobs' = jobs => Resolved' = Resolved  BY <1>1, <1>3, <1>4, ShownStep
<1>6. CASE g.vptr = NoWindow /\ UNCHANGED <<g, materials, fan, binning>>
  <2>1. UNCHANGED <<jobs, dropped, overflow>>  BY <1>6 DEF binning, materials, counters
  <2>2. Window' = Window  BY <1>6, <1>2 DEF Window
  <2> QED BY <1>2, <1>5, <1>6, <2>1, <2>2 DEF I!vars, I!view, Window, view
<1>7. ASSUME g.vptr # NoWindow, Reject(ix) \/ DrawInside(ix) \/ DrawClipped(ix)
      PROVE  I!DrawTri(ix)
  <2>1. /\ I!Drawable(ix) <=> Drawable(ix)
        /\ Drawable(ix) => /\ I!Corners(ix) = Pooled(ix)
                           /\ I!InGuardBand(ix) <=> InGuardBand(ix)
    BY <1>1, <1>2, <1>7, SameTriple
  <2>2. Window' = Window /\ Window # NoWindow
    <3>1. g'.vptr = g.vptr /\ g'.vcount = g.vcount /\ g'.vbase = g.vbase
      BY <1>1, <1>7, InternType DEF Reject, DrawInside, DrawClipped
    <3>2. PoolGrows  BY <1>3 DEF Grows
    <3>3. Window' = Window  BY <1>1, <1>2, <3>1, <3>2, WindowStays
    <3> QED BY <1>1, <1>2, <1>7, <3>3, WindowType
  <2>3. /\ I!Command
        /\ UNCHANGED <<I!view, clear_color, rstate, tverts>>
    BY <1>2 DEF I!Command, I!view, view
  <2>4. SUFFICES \/ ~I!Drawable(ix) /\ I!Reject /\ UNCHANGED fan
                 \/ /\ I!Drawable(ix) /\ I!InGuardBand(ix)
                    /\ \/ I!Show(I!Corners(ix))
                       \/ (I!FacesAway(I!Corners(ix)) \/ I!FrameFull) /\ I!Reject
                    /\ UNCHANGED fan
                 \/ /\ I!Drawable(ix) /\ ~I!InGuardBand(ix)
                    /\ \E ring \in Rings :
                         \/ Len(ring) < 3 /\ I!Reject /\ UNCHANGED fan
                         \/ /\ Len(ring) >= 3 /\ fan' = I!Fan(ring, I!Corners(ix))
                            /\ (overflow > 0)' \in {overflow > 0, TRUE}
                            /\ UNCHANGED <<Resolved, dropped>>
    BY <2>2, <2>3 DEF I!DrawTri, Window
  <2>5. CASE Reject(ix)
    <3>1. ~Drawable(ix) /\ dropped' = dropped + 1
          /\ UNCHANGED <<jobs, overflow, fan>>
      BY <2>5 DEF Reject, Drop, materials
    <3>2. I!Reject  BY <1>5, <3>1, Rejects DEF Recoloured
    <3> QED BY <2>1, <3>1, <3>2
  <2>6. ASSUME Drawable(ix), Intern
        PROVE  /\ Recoloured => Recoloured'
               /\ rstate_table'[g'.material] = Corrected(rstate) \/ Recoloured'
    BY <1>1, <1>2, <2>6, InternStep, InternRecolours DEF Recoloured
  <2>7. CASE DrawInside(ix)
    <3>1. Drawable(ix) /\ Intern /\ InGuardBand(ix) /\ UNCHANGED fan
      BY <2>7 DEF DrawInside
    <3>2. CASE FacesAway(Pooled(ix)) /\ Drop
      <4>1. dropped' = dropped + 1 /\ jobs' = jobs  BY <3>2 DEF Drop
      <4>2. I!Reject  BY <1>5, <2>6, <3>1, <4>1, Rejects
      <4>3. I!FacesAway(Pooled(ix))
        BY <3>2, SameFaces, SameData DEF I!FacesAway, FacesAway
      <4> QED BY <2>1, <3>1, <4>2, <4>3
    <3>3. CASE ~FacesAway(Pooled(ix)) /\ Bin(g.vbase, Pooled(ix), ix)
      <4>1. PICK r \in TriRef : /\ B!BinTri(r) /\ PointsIntoPool(r)'
                               /\ Vertices(r)' = Pooled(ix) /\ r.material = g'.material
        BY <1>1, <1>2, <3>1, <3>3, DrawRef
      <4>2. I!Show(Pooled(ix)) \/ (I!Reject /\ Len(Resolved) >= JobsCap)
        BY <1>1, <1>2, <1>3, <2>6, <3>1, <3>3, <4>1, Offered
      <4> QED BY <2>1, <3>1, <4>2 DEF I!FrameFull
    <3> QED BY <2>7, <3>2, <3>3 DEF DrawInside
  <2>8. CASE DrawClipped(ix)
    <3>1. Drawable(ix) /\ Intern /\ ~InGuardBand(ix)  BY <2>8 DEF DrawClipped
    <3>2. PICK ring \in Rings :
            \/ Len(ring) < 3 /\ Drop /\ UNCHANGED fan
            \/ Len(ring) >= 3 /\ fan' = Fan(ring, Pooled(ix)) /\ UNCHANGED binning
      BY <2>8 DEF DrawClipped
    <3>3. CASE Len(ring) < 3 /\ Drop /\ UNCHANGED fan
      <4>1. dropped' = dropped + 1 /\ jobs' = jobs  BY <3>3 DEF Drop
      <4>2. I!Reject  BY <1>5, <2>6, <3>1, <4>1, Rejects
      <4> QED BY <2>1, <3>1, <3>3, <4>2
    <3>4. CASE Len(ring) >= 3 /\ fan' = Fan(ring, Pooled(ix)) /\ UNCHANGED binning
      <4>1. UNCHANGED <<jobs, dropped>>  BY <3>4 DEF binning, counters
      <4>2. (overflow > 0)' \in {overflow > 0, TRUE}
        BY <2>6, <3>1, StaysRecoloured
      <4>3. fan' = I!Fan(ring, I!Corners(ix))  BY <2>1, <3>1, <3>4, SameFan
      <4> QED BY <1>5, <2>1, <3>1, <3>4, <4>1, <4>2, <4>3
    <3> QED BY <3>2, <3>3, <3>4
  <2> QED BY <1>7, <2>5, <2>7, <2>8
<1> QED BY <1>6, <1>7 DEF DrawTri

LEMMA EmitImplements ==
  ASSUME RInv, RInv', EmitPiece
  PROVE  I!ShowPiece
<1> DEFINE piece == Head(fan)
<1>1. TypeOK /\ TypeOK' /\ IInv /\ Buffered /\ Buffered' /\ Interned  BY DEF RInv, IInv
<1>2. /\ phase = "walk" /\ phase' = "walk" /\ fan # <<>> /\ fan' = Tail(fan) /\ ~g.dirty
      /\ UNCHANGED <<view, rstate, materials, g>>
  BY <1>1 DEF EmitPiece, Interned, PoolAndBin, RunOut
<1>3. Grows  BY <1>1, EmitStep
<1>4. /\ jobs \in Seq(TriRef) /\ jobs' \in Seq(TriRef)
      /\ \A j \in DOMAIN jobs : PointsIntoPool(jobs[j])
  BY <1>1, <1>2, Referred DEF Buffered
<1>5. piece \in Triangle  BY <1>1, <1>2, HeadTailProperties DEF TypeOK
<1>6. Window' = Window  BY <1>1, <1>2, <1>3, WindowStays DEF Grows
<1>7. Recoloured => Recoloured'  BY <1>2 DEF Recoloured, materials
<1>8. I!FacesAway(piece) <=> FacesAway(piece)
  BY SameFaces, SameData DEF I!FacesAway, FacesAway
<1>9. /\ tverts \in Seq(TVtx) /\ Used \in Nat /\ MaxTverts \in Nat
      /\ Room = MaxTverts - Used
  BY <1>1, LimitsAssumption DEF TypeOK, Used, Room
<1> HIDE DEF piece
<1>10. SUFFICES \/ FacesAway(piece) /\ I!Reject /\ Used' = Used
                \/ /\ ~FacesAway(piece) /\ Used + 3 <= MaxTverts /\ Used' = Used + 3
                   /\ I!Show(piece) \/ (I!FrameFull /\ I!Reject)
                \/ /\ ~FacesAway(piece) /\ Used + 3 > MaxTverts /\ Used' = MaxTverts
                   /\ I!Reject
  BY <1>2, <1>6, <1>8 DEF I!ShowPiece, I!view, view, Window, Used, piece
<1>11. ASSUME Drop PROVE I!Reject
  <2>1. jobs' = jobs /\ dropped' = dropped + 1  BY <1>11 DEF Drop
  <2> QED BY <1>1, <1>3, <1>4, <1>7, <2>1, ShownStep, Rejects
<1>12. CASE FacesAway(piece) /\ Drop /\ UNCHANGED <<g, tverts>>
  BY <1>11, <1>12 DEF Used
<1>13. CASE ~FacesAway(piece) /\ Room >= 3 /\ PoolAndBin(piece)
  <2>1. PICK r \in TriRef : /\ B!BinTri(r) /\ PointsIntoPool(r)'
                           /\ Vertices(r)' = piece /\ r.material = g'.material
    BY <1>1, <1>2, <1>5, <1>13, EmitRef
  <2>2. rstate_table'[g'.material] = Corrected(rstate) \/ Recoloured'
    BY <1>1, <1>2 DEF Interned, Recoloured, materials
  <2>3. I!Show(piece) \/ (I!Reject /\ Len(Resolved) >= JobsCap)
    BY <1>1, <1>2, <1>3, <1>7, <1>13, <2>1, <2>2, Offered
  <2>4. Used' = Used + 3
    <3>1. piece \in Seq(TVtx) /\ Len(piece) = 3  BY <1>5, TripleOfVertices
    <3>2. tverts' = tverts \o piece  BY <1>13 DEF PoolAndBin
    <3>3. Len(tverts \o piece) = Len(tverts) + Len(piece)
      BY <1>9, <3>1, ConcatProperties
    <3> QED BY <3>1, <3>2, <3>3 DEF Used
  <2>5. Used + 3 <= MaxTverts  BY <1>9, <1>13
  <2> QED BY <1>13, <2>3, <2>4, <2>5 DEF I!FrameFull
<1>14. CASE ~FacesAway(piece) /\ Room < 3 /\ RunOut(piece)
  <2> DEFINE rest == SubSeq(piece, 1, Room)
  <2>1. rest \in Seq(TVtx) /\ Len(rest) = Room
    BY <1>1, <1>5, <1>14, CutShort
  <2>2. tverts' = tverts \o rest /\ Drop  BY <1>14 DEF RunOut
  <2> HIDE DEF rest
  <2>3. Used' = Used + Room  BY <1>9, <2>1, <2>2, ConcatProperties DEF Used
  <2>4. Used + 3 > MaxTverts /\ Used' = MaxTverts  BY <1>9, <1>14, <2>3
  <2> QED BY <1>11, <1>14, <2>2, <2>4
<1> QED BY <1>12, <1>13, <1>14 DEF EmitPiece, piece

LEMMA InitImplements == Init => I!Init
<1> SUFFICES ASSUME Init PROVE I!Init  OBVIOUS
<1>1. /\ jobs = <<>> /\ dropped = 0  BY DEF Init, B!Init
<1>2. Resolved = <<>>
  <2>1. DOMAIN jobs = {}  BY <1>1
  <2> QED BY <2>1 DEF Resolved
<1>3. g.vptr = NoWindow  BY ContextInit DEF Init
<1>4. (overflow > 0) = FALSE  BY DEF Init
<1>5. mtx.modelview = <<Identity>> /\ mtx.projection = Identity
  BY DEF Init, MtxInit
<1>6. Len(tverts) = 0  BY DEF Init
<1> QED BY <1>1, <1>2, <1>3, <1>4, <1>5, <1>6 DEF I!Init, Init

(* A command that touches neither the window nor the bins. *)
LEMMA Untouched ==
  ASSUME RInv, RInv', phase # "begun", Grows, UNCHANGED jobs
  PROVE  Resolved' = Resolved
<1>1. /\ TypeOK /\ TypeOK' /\ jobs \in Seq(TriRef) /\ jobs' \in Seq(TriRef)
      /\ \A j \in DOMAIN jobs : PointsIntoPool(jobs[j])
  BY Referred DEF RInv, IInv, Buffered
<1> QED BY <1>1, ShownStep

LEMMA CommandImplements ==
  ASSUME RInv, RInv', Command, UNCHANGED <<materials, tverts, fan, binning>>
  PROVE  /\ I!Command
         /\ UNCHANGED <<fan, Resolved, dropped, tverts>> /\ (overflow > 0)' = (overflow > 0)
         /\ (g'.vptr = g.vptr /\ g'.vcount = g.vcount /\ g'.vbase = g.vbase) => Window' = Window
<1>1. TypeOK /\ phase = "walk" /\ fan = <<>> /\ phase' = phase
  BY DEF RInv, IInv, Command
<1>2. UNCHANGED <<jobs, dropped, overflow>>  BY DEF binning, counters, materials
<1>3. Grows  BY <1>1, StayPut
<1>4. Resolved' = Resolved  BY <1>1, <1>2, <1>3, Untouched
<1>5. I!Command  BY <1>1 DEF I!Command
<1>6. (g'.vptr = g.vptr /\ g'.vcount = g.vcount /\ g'.vbase = g.vbase) => Window' = Window
  BY DEF Window
<1>7. (overflow > 0)' = (overflow > 0)  BY <1>2
<1> QED BY <1>2, <1>4, <1>5, <1>6, <1>7

LEMMA MatrixImplements ==
  ASSUME RInv, RInv', \/ \E m \in Matrix : LoadMatrix(m) \/ PushMatrix(m) \/ SetProjection(m)
                     \/ PopMatrix
  PROVE  I!SetStack \/ I!SetProjection \/ UNCHANGED I!vars
<1>1. Command /\ UNCHANGED <<vp, clear_color, rstate, materials, g, tverts, fan, binning>>
  BY DEF LoadMatrix, PushMatrix, SetProjection, PopMatrix, SetMtx
<1>2. /\ I!Command /\ UNCHANGED <<fan, Resolved, dropped, tverts, Window>>
      /\ (overflow > 0)' = (overflow > 0)
  BY <1>1, CommandImplements
<1>3. mtx \in MtxType  BY DEF RInv, IInv, TypeOK, MtxType
<1>4. ASSUME mtx' = mtx PROVE UNCHANGED I!vars
  BY <1>1, <1>2, <1>4 DEF I!vars, I!view, Window, I!Command
<1>5. ASSUME mtx'.projection = mtx.projection,
             \/ \E m \in Matrix :
                  mtx'.modelview = [mtx.modelview EXCEPT ![Len(mtx.modelview)] = m]
             \/ \E m \in Matrix : /\ Len(mtx.modelview) < StackDepth
                                 /\ mtx'.modelview = Append(mtx.modelview, m)
             \/ /\ Len(mtx.modelview) > 1
                /\ mtx'.modelview = SubSeq(mtx.modelview, 1, Len(mtx.modelview) - 1)
      PROVE  I!SetStack
  BY <1>1, <1>2, <1>5 DEF I!SetStack, Window
<1>6. ASSUME NEW m \in Matrix, LoadMatrix(m) PROVE I!SetStack
  <2>1. /\ mtx'.projection = mtx.projection
        /\ mtx'.modelview = [mtx.modelview EXCEPT ![Len(mtx.modelview)] = m]
    BY <1>3, <1>6 DEF LoadMatrix, SetMtx, MtxType
  <2> QED BY <1>5, <2>1
<1>7. Len(mtx.modelview) \in Nat /\ StackDepth \in Nat  BY DEF RInv, IInv, TypeOK
<1>8. ASSUME NEW m \in Matrix, PushMatrix(m) PROVE I!SetStack \/ UNCHANGED I!vars
  <2>1. CASE Len(mtx.modelview) >= StackDepth
    BY <1>4, <1>8, <2>1 DEF PushMatrix, SetMtx
  <2>2. CASE Len(mtx.modelview) < StackDepth
    <3>1. /\ mtx'.projection = mtx.projection
          /\ mtx'.modelview = Append(mtx.modelview, m)
      <4>1. mtx' = [mtx EXCEPT !.modelview = Append(mtx.modelview, m), !.dirty = TRUE]
        <5>1. ~(Len(mtx.modelview) >= StackDepth)  BY <1>7, <2>2
        <5> QED BY <1>8, <5>1 DEF PushMatrix, SetMtx
      <4> QED BY <1>3, <4>1 DEF MtxType
    <3> QED BY <1>5, <2>2, <3>1
  <2> QED BY <1>7, <2>1, <2>2
<1>9. ASSUME NEW m \in Matrix, SetProjection(m) PROVE I!SetProjection
  <2>1. mtx'.modelview = mtx.modelview /\ mtx'.projection = m
    BY <1>3, <1>9 DEF SetProjection, SetMtx, MtxType
  <2> QED BY <1>1, <1>2, <2>1 DEF I!SetProjection, Window
<1>10. CASE PopMatrix
  <2>1. CASE Len(mtx.modelview) <= 1
    BY <1>4, <1>10, <2>1 DEF PopMatrix, SetMtx
  <2>2. CASE Len(mtx.modelview) > 1
    <3>1. /\ mtx'.projection = mtx.projection
          /\ mtx'.modelview = SubSeq(mtx.modelview, 1, Len(mtx.modelview) - 1)
      BY <1>3, <1>7, <1>10, <2>2 DEF PopMatrix, SetMtx, MtxType
    <3> QED BY <1>5, <2>2, <3>1
  <2> QED BY <1>7, <2>1, <2>2
<1> QED BY <1>6, <1>8, <1>9, <1>10

LEMMA StepImplements ==
  ASSUME OneStream, RInv, RInv', [Next]_vars
  PROVE  [I!Next]_I!vars
<1>1. TypeOK /\ TypeOK' /\ IInv /\ IInv' /\ Submitted /\ Interned /\ Idle
  BY DEF RInv, IInv
<1>2. CASE BeginFrame
  <2>1. jobs' = <<>> /\ dropped' = 0 /\ phase \in {"begun", "done"}
    BY <1>2 DEF BeginFrame, B!BeginFrame, B!OutInit
  <2>2. Resolved' = <<>>
    <3>1. DOMAIN jobs' = {}  BY <2>1
    <3> QED BY <3>1 DEF Resolved
  <2>3. Window' = Window /\ (overflow > 0)' = (overflow > 0)
    BY <1>1, <1>2, <2>1 DEF BeginFrame, Idle, Window, materials
  <2>4. mtx'.modelview = <<Identity>> /\ mtx'.projection = Identity
    BY <1>2 DEF BeginFrame, MtxInit
  <2>5. Len(tverts') = 0  BY <1>2 DEF BeginFrame
  <2>6. I!BeginFrame
    BY <1>2, <2>1, <2>2, <2>3, <2>4, <2>5 DEF BeginFrame, I!BeginFrame, Window
  <2> QED BY <2>6 DEF I!Next
<1>3. CASE Submit
  <2>1. submits = 0  BY <1>1, <1>3 DEF Submit, Submitted, OneStream
  <2>2. phase = "begun" /\ jobs = <<>> /\ jobs' = jobs /\ dropped' = dropped
    BY <1>1, <1>3, <2>1 DEF Submit, Submitted, counters
  <2>3. Resolved = <<>> /\ Resolved' = <<>>
    <3>1. DOMAIN jobs = {} /\ DOMAIN jobs' = {}  BY <2>2
    <3> QED BY <3>1 DEF Resolved
  <2>4. Window' = Window
    BY <1>1, <1>3, <2>2, ContextInit DEF Submit, Idle, Window
  <2>5. (overflow > 0)' = FALSE  BY <1>3 DEF Submit
  <2>6. I!Submit
    BY <1>3, <2>2, <2>3, <2>4, <2>5 DEF Submit, I!Submit, I!view, view, Window
  <2> QED BY <2>6 DEF I!Next
<1>4. CASE EndWalk
  <2>1. /\ phase = "walk" /\ fan = <<>> /\ jobs' = jobs /\ dropped' = dropped
        /\ phase' = "done" /\ UNCHANGED <<view, rstate, materials, tverts, fan>>
    BY <1>4 DEF EndWalk, B!StartFinalize, B!counters
  <2>2. Grows  BY <1>1, <2>1, StayPut
  <2>3. Resolved' = Resolved  BY <2>1, <2>2, Untouched
  <2>4. Window' = NoWindow  BY <1>4, ContextInit DEF EndWalk, Window
  <2>5. (overflow > 0)' = (overflow > 0)  BY <2>1 DEF materials
  <2>6. I!EndWalk
    BY <2>1, <2>3, <2>4, <2>5 DEF I!EndWalk, I!view, view, Window
  <2> QED BY <2>6 DEF I!Next
<1>5. CASE Pack
  <2>1. /\ phase = "done" /\ jobs' = jobs /\ (dropped' = dropped \/ dropped' = dropped + 1)
        /\ UNCHANGED <<phase, view, rstate, materials, g, tverts, fan>>
    BY <1>5 DEF Pack, B!Segment, B!CutSegment, B!StartReplay, B!Replay, B!WriteRef,
                B!EndFinalize, B!counters
  <2>2. Grows  BY <1>1, <2>1, StayPut
  <2>3. Resolved' = Resolved  BY <2>1, <2>2, Untouched
  <2>4. Window' = Window /\ (overflow > 0)' = (overflow > 0)
    BY <2>1 DEF Window, materials
  <2>5. I!PackShort \/ UNCHANGED I!vars
    BY <2>1, <2>3, <2>4 DEF I!PackShort, I!vars, I!view, view, Window
  <2> QED BY <2>5 DEF I!Next
<1>6. CASE (\E m \in Matrix : LoadMatrix(m) \/ PushMatrix(m) \/ SetProjection(m)) \/ PopMatrix
  BY <1>6, MatrixImplements DEF I!Next
<1>7. ASSUME NEW new \in Viewport, SetViewport(new) PROVE I!SetViewport
  <2>1. Command /\ UNCHANGED <<mtx, clear_color, rstate, materials, g, tverts, fan, binning>>
        /\ vp' = new
    BY <1>7 DEF SetViewport
  <2>2. /\ I!Command /\ UNCHANGED <<fan, Resolved, dropped, tverts, Window>>
        /\ (overflow > 0)' = (overflow > 0)
    BY <2>1, CommandImplements
  <2> QED BY <2>1, <2>2 DEF I!SetViewport, Window
<1>8. ASSUME NEW color \in Color, Clear(color) PROVE I!Clear
  <2>1. Command /\ UNCHANGED <<mtx, vp, rstate, materials, g, tverts, fan, binning>>
        /\ clear_color' = color
    BY <1>8 DEF Clear
  <2>2. /\ I!Command /\ UNCHANGED <<fan, Resolved, dropped, tverts, Window>>
        /\ (overflow > 0)' = (overflow > 0)
    BY <2>1, CommandImplements
  <2> QED BY <2>1, <2>2 DEF I!Clear, I!view, Window
<1>9. ASSUME NEW new \in RenderState, SetRenderState(new) PROVE I!SetState
  <2>1. Command /\ UNCHANGED <<view, materials, tverts, fan, binning>>
        /\ rstate' = new /\ g' = [g EXCEPT !.dirty = TRUE]
    BY <1>9 DEF SetRenderState
  <2>2. g'.vptr = g.vptr /\ g'.vcount = g.vcount /\ g'.vbase = g.vbase
    BY <1>1, <2>1 DEF TypeOK
  <2>3. /\ I!Command /\ UNCHANGED <<fan, Resolved, dropped, tverts, Window>>
        /\ (overflow > 0)' = (overflow > 0)
    BY <2>1, <2>2, CommandImplements
  <2>4. new \in I!RenderState  BY SameData
  <2> QED BY <2>1, <2>3, <2>4 DEF I!SetState, I!view, view, Window
<1>10. ASSUME NEW w \in Windows, LoadVerts(w) PROVE I!Load
  <2>1. /\ PoolGrows /\ Command /\ mtx' = Refreshed
        /\ UNCHANGED <<vp, clear_color, rstate, materials, fan, binning>>
    BY <1>1, <1>10, LoadStep DEF LoadVerts, PoolVerts
  <2>2. phase = "walk" /\ fan = <<>> /\ phase' = phase /\ I!Command
    BY <2>1 DEF Command, I!Command
  <2>3. jobs' = jobs /\ dropped' = dropped /\ (overflow > 0)' = (overflow > 0)
    BY <2>1 DEF binning, counters, materials
  <2>4. Grows  BY <1>1, <2>1 DEF Grows, TableGrows, TypeOK, materials
  <2>5. Resolved' = Resolved  BY <2>2, <2>3, <2>4, Untouched
  <2>6. mtx'.modelview = mtx.modelview /\ mtx'.projection = mtx.projection
    BY <1>1, <2>1, RefreshedCached DEF RInv
  <2>7. \E n \in 0 .. Len(w) :
          /\ Used' = Used + n /\ Used' <= MaxTverts
          /\ n < Len(w) => Used' = MaxTverts
          /\ Window' = [i \in 1 .. n |->
                          I!Transformed(w[i], <<mtx.projection, I!Last1(mtx.modelview)>>,
                                        vp, rstate)]
    <3>1. PICK n \in 0 .. Len(w) :
            /\ Used' = Used + n /\ Used' <= MaxTverts
            /\ n < Len(w) => Used' = MaxTverts
            /\ Window' = [i \in 1 .. n |->
                            Transformed(w[i], <<mtx.projection, Last1(mtx.modelview)>>,
                                        vp, rstate)]
      BY <1>1, <1>10, WindowLoaded DEF RInv
    <3> QED BY <3>1 DEF I!Transformed, Transformed, I!Last1, Last1
  <2> QED BY <2>1, <2>2, <2>3, <2>5, <2>6, <2>7 DEF I!Load, I!view, Window, Used
<1>11. CASE LoadVertsRelative
  <2>1. Command /\ UNCHANGED <<view, rstate, materials, tverts, fan, binning>>
        /\ g' = [g EXCEPT !.vptr = NoWindow, !.vcount = 0]
    BY <1>11 DEF LoadVertsRelative
  <2>2. /\ I!Command /\ UNCHANGED <<fan, Resolved, dropped, tverts>>
        /\ (overflow > 0)' = (overflow > 0)
    BY <2>1, CommandImplements
  <2>3. Window' = NoWindow  BY <1>1, <2>1 DEF TypeOK, Window
  <2>4. I!Load  BY <2>1, <2>2, <2>3 DEF I!Load, I!view, view, Window
  <2> QED BY <2>4 DEF I!Next
<1>12. ASSUME NEW ix \in Triples, BranchLessZ(ix[1]) PROVE UNCHANGED I!vars
  <2>1. Command /\ UNCHANGED <<vp, clear_color, rstate, materials, g, tverts, fan, binning>>
        /\ (mtx' = mtx \/ mtx' = Refreshed)
    BY <1>12 DEF BranchLessZ
  <2>2. /\ I!Command /\ UNCHANGED <<fan, Resolved, dropped, tverts, Window>>
        /\ (overflow > 0)' = (overflow > 0)
    BY <2>1, CommandImplements
  <2>3. mtx'.modelview = mtx.modelview /\ mtx'.projection = mtx.projection
    BY <1>1, <2>1, RefreshedCached DEF RInv
  <2> QED BY <2>1, <2>2, <2>3 DEF I!vars, I!view, I!Command, Window
<1>13. ASSUME NEW ix \in Triples, DrawTri(ix) PROVE I!DrawTri(ix) \/ UNCHANGED I!vars
  BY <1>13, DrawImplements
<1>14. CASE EmitPiece  BY <1>14, EmitImplements DEF I!Next
<1>15. CASE UNCHANGED vars
  <2>1. /\ UNCHANGED <<phase, view, rstate, materials, g, tverts, fan, jobs, dropped>>
    BY <1>15 DEF vars, binning, counters
  <2>2. Resolved' = Resolved  BY <2>1 DEF Resolved, Vertices, materials
  <2>3. Window' = Window /\ (overflow > 0)' = (overflow > 0)
    BY <2>1 DEF Window, materials
  <2> QED BY <2>1, <2>2, <2>3 DEF I!vars, I!view, view, Window
<1>16. (\E ix \in Triples : BranchLessZ(ix[1]) \/ DrawTri(ix)) => [I!Next]_I!vars
  BY <1>12, <1>13 DEF I!Next
<1>17. (\E w \in Windows : LoadVerts(w)) => [I!Next]_I!vars
  BY <1>10 DEF I!Next
<1>18. (\E new \in Viewport : SetViewport(new)) \/ (\E color \in Color : Clear(color))
         \/ (\E new \in RenderState : SetRenderState(new)) => [I!Next]_I!vars
  BY <1>7, <1>8, <1>9 DEF I!Next
<1> QED BY <1>2, <1>3, <1>4, <1>5, <1>6, <1>11, <1>14, <1>15, <1>16, <1>17, <1>18
        DEF Next

(* For any stream of commands, the front end with its pool, table, cache    *)
(* and bins does what immediate mode promises.                              *)
THEOREM Implements == OneStream => (Spec => ImplementsImmediate)
<1> SUFFICES ASSUME OneStream PROVE Spec => I!Spec  BY DEF ImplementsImmediate
<1>1. Init => RInv
  <2>1. Init => Cached /\ Idle
    BY ContextInit DEF Init, MtxInit, Cached, Idle
  <2> QED BY <2>1, InitIInv DEF RInv
<1>2. RInv /\ [Next]_vars => RInv'
  <2>1. RInv /\ [Next]_vars => Cached' /\ Idle'  BY CachedStep DEF RInv, IInv
  <2>2. RInv /\ [Next]_vars => IInv'  BY Step DEF RInv
  <2> QED BY <2>1, <2>2 DEF RInv
<1>3. RInv /\ RInv' /\ [Next]_vars => [I!Next]_I!vars  BY StepImplements
<1>4. Init => I!Init  BY InitImplements
<1> QED BY <1>1, <1>2, <1>3, <1>4, PTL DEF Spec, I!Spec
=============================================================================
