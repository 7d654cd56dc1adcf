-------------------------------- MODULE FrontEnd --------------------------------
(***************************************************************************)
(* The geometry front end: geom_run walks a command stream, and geom_visit *)
(* keeps the matrix stack and its cached product, the render state and its *)
(* interned table, and the window of vertices transformed at load time;    *)
(* draws resolve against all three and end in the bins (Binning).          *)
(*                                                                         *)
(* The walk visits any commands in any order: what CALL_LIST, RETURN and   *)
(* BRANCH_LESS_Z do to the order is cb_walk's, and an error of cb_walk     *)
(* ends the walk as END does.  One triple of DRAW_TRIS is a step, and one  *)
(* piece of a clipped triangle.  The counters tris_source and              *)
(* s_material_invalid and the flag clear_pending are left out: nothing     *)
(* below reads them.                                                       *)
(***************************************************************************)
EXTENDS Geometry

CONSTANTS
  StackDepth,    \* GEOM_MTX_STACK_DEPTH
  MaxTverts,     \* RDR_MAX_TVERTS
  JobsCap,       \* RDR_BIN_MAX_JOBS
  PoolCap,       \* RDR_BIN_POOL_REFS
  MaxMaterials,  \* RDR_MAX_MATERIALS
  Windows, Triples, Rings, Color, Black, NoWindow,  \* as in ImmediateMode
  Stale,         \* as in Binning
  MaxCommands,   \* bound: commands in all streams together
  MaxSubmits     \* bound: streams submitted to one frame

ASSUME LimitsAssumption ==
  /\ StackDepth \in Nat \ {0} /\ MaxMaterials \in Nat \ {0}
  /\ MaxTverts \in Nat /\ JobsCap \in Nat /\ PoolCap \in Nat
  /\ MaxCommands \in Nat /\ MaxSubmits \in Nat
  /\ Windows \subseteq Seq(Vertex)
  /\ NoWindow \notin Windows /\ NoWindow \notin Seq(TVtx)
  /\ Triples \subseteq (Nat \ {0}) \X (Nat \ {0}) \X (Nat \ {0})
  /\ Rings \subseteq Seq(Vertex \cup CutPoint)
  /\ Black \in Color

VARIABLES
  phase,        \* "begun", "walk" in geom_run, then "done"
  submits,      \* rdr_submit calls of this frame
  commands,     \* commands visited so far, for the bound
  mtx,          \* f->mtx
  vp,           \* f->vp
  clear_color,  \* f->clear_color
  rstate,       \* f->rstate
  rstate_table, rstate_count, overflow,  \* f->..., s_material_overflow
  g,            \* GeomCtx; vbase counts vertices pooled before the window
  tverts,       \* f->geom.tverts[0 .. tvert_count)
  fan,          \* pieces the loop of geom_draw_one has still to emit
  stage, jobs, count, cap, refs, short, pool, offset, at, total, dropped

(* The vertex indices and material id of a TriRef, and the tiles that the  *)
(* vertices it names cover (JobsPointIntoPool).                            *)
TriRef == [v : [1 .. 3 -> Nat], material : Nat, span : SUBSET Tile]
RefSpan(ref) == ref.span

B == INSTANCE Binning WITH Ref <- TriRef, SpanOf <- RefSpan,
                           MaxRefused <- MaxCommands

tiles == <<count, cap, refs, short>>
counters == <<total, dropped>>
binning == <<stage, jobs, tiles, pool, offset, at, counters>>
materials == <<rstate_table, rstate_count, overflow>>
view == <<mtx, vp, clear_color>>
vars == <<phase, submits, commands, view, rstate, materials, g, tverts, fan, binning>>

Id == 0 .. MaxMaterials - 1
NoCtx == [vptr |-> NoWindow, vcount |-> 0, vbase |-> 0, material |-> 0,
          dirty |-> TRUE]

MtxInit(mvp) == [modelview |-> <<Identity>>, projection |-> Identity,
                 mvp |-> mvp, dirty |-> TRUE]

(* What an entry of rstate_table holds before it is written is not read. *)
Init ==
  /\ B!Init
  /\ phase = "begun" /\ submits = 0 /\ commands = 0
  /\ mtx = MtxInit(<<Identity, Identity>>) /\ rstate = Default
  /\ vp = WholeScreen /\ clear_color = Black
  /\ rstate_table = [i \in Id |-> Default] /\ rstate_count = 0 /\ overflow = 0
  /\ g = NoCtx /\ tverts = <<>> /\ fan = <<>>

(* rdr_begin_frame *)
BeginFrame ==
  /\ phase \in {"begun", "done"} /\ B!BeginFrame
  /\ phase' = "begun" /\ submits' = 0
  /\ mtx' = MtxInit(mtx.mvp) /\ rstate' = Default /\ tverts' = <<>>
  /\ vp' = WholeScreen /\ clear_color' = Black
  /\ UNCHANGED <<commands, materials, g, fan>>

(* rdr_submit and geom_run up to the walk; the bins of a stream already     *)
(* submitted are added to.                                                  *)
Submit ==
  /\ phase = "begun" \/ stage = "packed"
  /\ submits < MaxSubmits /\ submits' = submits + 1
  /\ phase' = "walk" /\ stage' = "bin"
  /\ rstate_count' = 0 /\ overflow' = 0
  /\ g' = NoCtx
  /\ UNCHANGED <<commands, view, rstate, rstate_table, tverts, fan,
                 jobs, tiles, pool, offset, at, counters>>

(* cb_walk returns, well or not, and geom_run packs the bins. *)
EndWalk ==
  /\ phase = "walk" /\ fan = <<>> /\ B!StartFinalize
  /\ phase' = "done" /\ g' = NoCtx
  /\ UNCHANGED <<submits, commands, view, rstate, materials, tverts, fan>>

Pack ==
  /\ phase = "done"
  /\ B!Segment \/ B!StartReplay \/ B!Replay \/ B!EndFinalize
  /\ UNCHANGED <<phase, submits, commands, view, rstate, materials, g, tverts, fan>>

-----------------------------------------------------------------------------
(* geom_visit, but for DRAW_TRIS *)

Command ==
  /\ phase = "walk" /\ fan = <<>>
  /\ commands < MaxCommands /\ commands' = commands + 1
  /\ UNCHANGED <<phase, submits>>

SetMtx(new) ==
  /\ Command
  /\ mtx' = new
  /\ UNCHANGED <<vp, clear_color, rstate, materials, g, tverts, fan, binning>>

(* mtx_set; geom_visit ignores its error *)
LoadMatrix(m) ==
  SetMtx([mtx EXCEPT !.modelview[Len(mtx.modelview)] = m, !.dirty = TRUE])
PushMatrix(m) ==
  SetMtx(IF Len(mtx.modelview) >= StackDepth THEN mtx
         ELSE [mtx EXCEPT !.modelview = Append(@, m), !.dirty = TRUE])
SetProjection(m) == SetMtx([mtx EXCEPT !.projection = m, !.dirty = TRUE])

(* Slip: the product of the matrix popped stays cached. *)
PopMatrixStaysClean ==
  SetMtx(IF Len(mtx.modelview) <= 1 THEN mtx
         ELSE [mtx EXCEPT !.modelview = SubSeq(@, 1, Len(@) - 1)])

(* mtx_pop, likewise *)
PopMatrix ==
  SetMtx(IF Len(mtx.modelview) <= 1 THEN mtx
         ELSE [mtx EXCEPT !.modelview = SubSeq(@, 1, Len(@) - 1), !.dirty = TRUE])

(* mtx_mvp: the value it returns, and the stack it leaves *)
Mvp == IF mtx.dirty THEN <<mtx.projection, Last1(mtx.modelview)>> ELSE mtx.mvp
Refreshed == [mtx EXCEPT !.mvp = Mvp, !.dirty = FALSE]

SetViewport(new) ==
  /\ Command
  /\ vp' = new
  /\ UNCHANGED <<mtx, clear_color, rstate, materials, g, tverts, fan, binning>>

Clear(color) ==
  /\ Command
  /\ clear_color' = color
  /\ UNCHANGED <<mtx, vp, rstate, materials, g, tverts, fan, binning>>

(* CMD_SET_MATERIAL, and CMD_SET_PRIM_COLOR, _ENV_COLOR and _FOG *)
SetRenderState(new) ==
  /\ Command
  /\ rstate' = new /\ g' = [g EXCEPT !.dirty = TRUE]
  /\ UNCHANGED <<view, materials, tverts, fan, binning>>

(* CMD_LOAD_VERTS with base 0: the vertices that fit in the pool. *)
Room == MaxTverts - Len(tverts)

PoolVerts(w, n) ==
  /\ Command
  /\ tverts' = tverts \o [i \in 1 .. n |-> Transformed(w[i], Mvp, vp, rstate)]
  /\ g' = [g EXCEPT !.vptr = w, !.vcount = n, !.vbase = Len(tverts)]
  /\ mtx' = Refreshed
  /\ UNCHANGED <<vp, clear_color, rstate, materials, fan, binning>>

(* Slip: the pool's end is not looked for. *)
LoadVertsUnclamped(w) == PoolVerts(w, Len(w))

LoadVerts(w) == PoolVerts(w, IF Len(w) > Room THEN Room ELSE Len(w))

(* ... and with another base. *)
LoadVertsRelative ==
  /\ Command
  /\ g' = [g EXCEPT !.vptr = NoWindow, !.vcount = 0]
  /\ UNCHANGED <<view, rstate, materials, tverts, fan, binning>>

(* CMD_BRANCH_LESS_Z: the predicate is cb_walk's; the cache is refreshed. *)
BranchLessZ(vtx) ==
  /\ Command
  /\ mtx' = IF g.vptr = NoWindow \/ vtx > g.vcount THEN mtx ELSE Refreshed
  /\ UNCHANGED <<vp, clear_color, rstate, materials, g, tverts, fan, binning>>

-----------------------------------------------------------------------------
(* geom_material_intern, when the state has changed since the last draw *)

Known == {i \in Id : i < rstate_count /\ rstate_table[i] = Corrected(rstate)}
Full == rstate_count >= MaxMaterials

Resolve(id) == g' = [g EXCEPT !.material = id, !.dirty = FALSE]
Store(id) == rstate_table' = [rstate_table EXCEPT ![id] = Corrected(rstate)]

(* Slip: a full table gives its last entry up. *)
ClampAndStore ==
  /\ overflow' = overflow + 1 /\ Resolve(rstate_count - 1) /\ Store(rstate_count - 1)
  /\ UNCHANGED rstate_count

Clamp ==
  /\ overflow' = overflow + 1 /\ Resolve(rstate_count - 1)
  /\ UNCHANGED <<rstate_table, rstate_count>>

Intern ==
  \/ ~g.dirty /\ UNCHANGED <<g, materials>>
  \/ /\ g.dirty /\ Known # {}
     /\ \E id \in Known : Resolve(id)
     /\ UNCHANGED materials
  \/ g.dirty /\ Known = {} /\ Full /\ Clamp
  \/ /\ g.dirty /\ Known = {} /\ ~Full
     /\ Resolve(rstate_count) /\ Store(rstate_count)
     /\ rstate_count' = rstate_count + 1
     /\ UNCHANGED overflow

-----------------------------------------------------------------------------
(* CMD_DRAW_TRIS: geom_draw_one on one triple *)

Drop ==
  /\ dropped' = dropped + 1
  /\ UNCHANGED <<stage, jobs, tiles, pool, offset, at, total>>

Bin(first, tri, ix) ==
  B!BinTri([v |-> [k \in 1 .. 3 |-> first + ix[k] - 1],
            material |-> g'.material, span |-> Span(tri)])

Pooled(ix) == <<tverts[g.vbase + ix[1]], tverts[g.vbase + ix[2]],
                tverts[g.vbase + ix[3]]>>
Drawable(ix) == /\ \A k \in 1 .. 3 : ix[k] <= g.vcount
                /\ \A k \in 1 .. 3 : ~Behind(Pooled(ix)[k])
FacesAway(tri) == Culled(tri, Last1(mtx.modelview), rstate.cull)
InGuardBand(ix) == \A k \in 1 .. 3 : Inside(Pooled(ix)[k])

Reject(ix) ==
  /\ ~Drawable(ix)
  /\ Drop /\ UNCHANGED <<g, materials, fan>>

(* Culled, or binned by the indices of the vertices already pooled. *)
DrawInside(ix) ==
  /\ Drawable(ix) /\ Intern /\ InGuardBand(ix)
  /\ IF FacesAway(Pooled(ix)) THEN Drop ELSE Bin(g.vbase, Pooled(ix), ix)
  /\ UNCHANGED fan

DrawClipped(ix) ==
  /\ Drawable(ix) /\ Intern /\ ~InGuardBand(ix)
  /\ \E ring \in Rings :
       \/ Len(ring) < 3 /\ Drop /\ UNCHANGED fan
       \/ Len(ring) >= 3 /\ fan' = Fan(ring, Pooled(ix)) /\ UNCHANGED binning

DrawTri(ix) ==
  /\ Command
  /\ \/ g.vptr = NoWindow /\ UNCHANGED <<g, materials, fan, binning>>
     \/ g.vptr # NoWindow /\ (Reject(ix) \/ DrawInside(ix) \/ DrawClipped(ix))
  /\ UNCHANGED <<view, rstate, tverts>>

(* geom_emit_tri on the next piece: culled, binned, or out of room, with the *)
(* vertices that found room left behind.                                     *)
PoolAndBin(piece) ==
  /\ tverts' = tverts \o piece /\ UNCHANGED g
  /\ Bin(Len(tverts), piece, <<1, 2, 3>>)

(* Slip: the piece is binned whether its vertices found room or not. *)
EmitUnchecked(piece) ==
  /\ tverts' = tverts \o SubSeq(piece, 1, Room) /\ UNCHANGED g
  /\ Bin(Len(tverts), piece, <<1, 2, 3>>)

RunOut(piece) ==
  /\ tverts' = tverts \o SubSeq(piece, 1, Room)
  /\ Drop /\ UNCHANGED g

EmitPiece ==
  /\ phase = "walk" /\ fan # <<>>
  /\ \/ FacesAway(Head(fan)) /\ Drop /\ UNCHANGED <<g, tverts>>
     \/ ~FacesAway(Head(fan)) /\ Room >= 3 /\ PoolAndBin(Head(fan))
     \/ ~FacesAway(Head(fan)) /\ Room < 3 /\ RunOut(Head(fan))
  /\ fan' = Tail(fan)
  /\ UNCHANGED <<phase, submits, commands, view, rstate, materials>>

-----------------------------------------------------------------------------
Next ==
  \/ BeginFrame \/ Submit \/ EndWalk \/ Pack
  \/ \E m \in Matrix : LoadMatrix(m) \/ PushMatrix(m) \/ SetProjection(m)
  \/ PopMatrix
  \/ \E new \in Viewport : SetViewport(new)
  \/ \E color \in Color : Clear(color)
  \/ \E new \in RenderState : SetRenderState(new)
  \/ \E w \in Windows : LoadVerts(w)
  \/ LoadVertsRelative
  \/ \E ix \in Triples : BranchLessZ(ix[1]) \/ DrawTri(ix)
  \/ EmitPiece

Spec == Init /\ [][Next]_vars

-----------------------------------------------------------------------------
(* Properties *)

TypeOK ==
  /\ phase \in {"begun", "walk", "done"}
  /\ mtx \in [modelview : Seq(Matrix), projection : Matrix, mvp : Product,
              dirty : BOOLEAN]
  /\ Len(mtx.modelview) \in 1 .. StackDepth
  /\ vp \in Viewport /\ clear_color \in Color
  /\ rstate \in RenderState
  /\ rstate_table \in [Id -> RenderState] /\ rstate_count \in 0 .. MaxMaterials
  /\ overflow \in Nat
  /\ tverts \in Seq(TVtx) /\ Len(tverts) <= MaxTverts
  /\ g \in [vptr : Windows \cup {NoWindow}, vcount : Nat, vbase : Nat,
            material : Id, dirty : BOOLEAN]
  /\ phase = "walk" => g.vbase + g.vcount <= Len(tverts)
  /\ fan \in Seq(Triangle)

(* What the raster cores index with a job's fields is there: its vertices  *)
(* were pooled, cover the tiles its demand was tallied for, and its        *)
(* material is an entry of the table (geom_bin_finalize computes the tiles *)
(* again from the pool).                                                   *)
Vertices(ref) == <<tverts[ref.v[1] + 1], tverts[ref.v[2] + 1], tverts[ref.v[3] + 1]>>
JobsPointIntoPool ==
  phase # "begun" => \A j \in DOMAIN jobs :
    /\ \A k \in 1 .. 3 : jobs[j].v[k] < Len(tverts)
    /\ Span(Vertices(jobs[j])) = jobs[j].span
    /\ jobs[j].material < rstate_count

(* What the frame will show: each job with what its indices lead to. *)
Resolved ==
  [j \in DOMAIN jobs |-> [tri |-> Vertices(jobs[j]),
                          state |-> rstate_table[jobs[j].material]]]

(* A triangle in the bins keeps the vertices and the render state it was   *)
(* drawn with until the next frame begins, whatever is loaded, set or      *)
(* submitted after it: nothing it refers to is reused.                     *)
ShownIsKept ==
  [][BeginFrame \/ SubSeq(Resolved', 1, Len(jobs)) = Resolved]_vars

(* The front end with its pool, cache, table and bins does what immediate   *)
(* mode promises: a triangle is shown as its vertices were when loaded and  *)
(* the state when drawn, or counted in tris_dropped, and shares another's   *)
(* state only if s_material_overflow says so.  A window is cut short and a  *)
(* piece of a clipped triangle lost only where the vertices (RDR_MAX_TVERTS)*)
(* or the triangles of the frame are used up.                               *)
I == INSTANCE ImmediateMode WITH
       stack <- mtx.modelview, projection <- mtx.projection, viewport <- vp,
       background <- clear_color, state <- rstate, FrameCap <- JobsCap,
       VertexCap <- MaxTverts, used <- Len(tverts),
       window <- IF g.vptr = NoWindow THEN NoWindow
                 ELSE SubSeq(tverts, g.vbase + 1, g.vbase + g.vcount),
       pending <- fan, shown <- Resolved, rejected <- dropped,
       recoloured <- overflow > 0
ImplementsImmediate == I!Spec
=============================================================================
