----------------------------- MODULE ImmediateMode -----------------------------
(***************************************************************************)
(* What the geometry front end promises the code that records commands:    *)
(* each triangle drawn is shown with the product in force when its         *)
(* vertices were loaded and the render state in force when it is drawn, in *)
(* drawing order; or it is replaced by the pieces of its clipping; or it   *)
(* is rejected and counted, as it must be if it is behind the viewer or    *)
(* faces away: the face it shows is that of its vertices as they were      *)
(* loaded, seen with the modelview in force at the draw.  There are no     *)
(* pools, tables, caches or bins; of the room a frame has for vertices     *)
(* only the amount used is known, which is what says when a load may be    *)
(* cut short and a piece of a clipped triangle lost.                       *)
(***************************************************************************)
EXTENDS Geometry

CONSTANTS
  StackDepth,  \* GEOM_MTX_STACK_DEPTH
  Windows,     \* vertex arrays CMD_LOAD_VERTS can name
  Triples,     \* index triples of CMD_DRAW_TRIS, counted from 1
  Rings,       \* what clip_tri can return
  Color, Black,  \* of CMD_CLEAR, and of a frame without it
  FrameCap,    \* triangles of a frame that there is always room for
  VertexCap,   \* vertices of a frame: those loaded and those of pieces
  NoWindow

VARIABLES
  phase,       \* "begun", "walk", "done"
  stack,       \* modelview stack, top last
  projection,
  viewport,
  background,
  state,       \* render state
  window,      \* the loaded vertices, transformed, or NoWindow
  pending,     \* pieces of a clipped triangle still to show
  shown,       \* what the frame shows, in order
  rejected,    \* triangles counted as not shown in full
  recoloured,  \* a state had no room: some triangle may have another's
  used         \* vertices of the frame so far

view == <<stack, projection, viewport>>
vars == <<phase, view, background, state, window, pending, shown, rejected,
          recoloured, used>>

Init ==
  /\ phase = "begun"
  /\ stack = <<Identity>> /\ projection = Identity /\ viewport = WholeScreen
  /\ background = Black /\ state = Default
  /\ window = NoWindow /\ pending = <<>>
  /\ shown = <<>> /\ rejected = 0 /\ recoloured = FALSE /\ used = 0

BeginFrame ==
  /\ phase \in {"begun", "done"}
  /\ phase' = "begun"
  /\ stack' = <<Identity>> /\ projection' = Identity /\ viewport' = WholeScreen
  /\ background' = Black /\ state' = Default
  /\ shown' = <<>> /\ rejected' = 0 /\ used' = 0
  /\ UNCHANGED <<window, pending, recoloured>>

Submit ==
  /\ phase = "begun"
  /\ phase' = "walk"
  /\ recoloured' = FALSE
  /\ UNCHANGED <<view, background, state, window, pending, shown, rejected, used>>

EndWalk ==
  /\ phase = "walk" /\ pending = <<>>
  /\ phase' = "done" /\ window' = NoWindow
  /\ UNCHANGED <<view, background, state, pending, shown, rejected, recoloured, used>>

(* A triangle the bins had no room for is counted when they are packed. *)
PackShort ==
  /\ phase = "done"
  /\ rejected' = rejected + 1
  /\ UNCHANGED <<phase, view, background, state, window, pending, shown, recoloured,
                 used>>

-----------------------------------------------------------------------------
Command == phase = "walk" /\ pending = <<>> /\ UNCHANGED phase

SetStack ==
  /\ Command
  /\ \/ \E m \in Matrix : stack' = [stack EXCEPT ![Len(stack)] = m]
     \/ \E m \in Matrix : Len(stack) < StackDepth /\ stack' = Append(stack, m)
     \/ Len(stack) > 1 /\ stack' = SubSeq(stack, 1, Len(stack) - 1)
  /\ UNCHANGED <<projection, viewport, background, state, window, pending, shown,
                 rejected, recoloured, used>>

SetProjection ==
  /\ Command
  /\ projection' \in Matrix
  /\ UNCHANGED <<stack, viewport, background, state, window, pending, shown, rejected,
                 recoloured, used>>

SetViewport ==
  /\ Command
  /\ viewport' \in Viewport
  /\ UNCHANGED <<stack, projection, background, state, window, pending, shown, rejected,
                 recoloured, used>>

Clear ==
  /\ Command
  /\ background' \in Color
  /\ UNCHANGED <<view, state, window, pending, shown, rejected, recoloured, used>>

SetState ==
  /\ Command
  /\ state' \in RenderState
  /\ UNCHANGED <<view, background, window, pending, shown, rejected, recoloured, used>>

(* A window is cut short by the end of the room and by nothing else;       *)
(* drawing a vertex beyond it is a rejection.                              *)
Load ==
  /\ Command
  /\ \/ \E w \in Windows : \E n \in 0 .. Len(w) :
          /\ used' = used + n /\ used' <= VertexCap
          /\ n < Len(w) => used' = VertexCap
          /\ window' = [i \in 1 .. n |->
                          Transformed(w[i], <<projection, Last1(stack)>>, viewport, state)]
     \/ window' = NoWindow /\ UNCHANGED used
  /\ UNCHANGED <<view, background, state, pending, shown, rejected, recoloured>>

FacesAway(tri) == Culled(tri, Last1(stack), state.cull)

Show(tri) ==
  \E s \in RenderState :
    /\ ~FacesAway(tri)
    /\ s = Corrected(state) \/ recoloured'
    /\ shown' = Append(shown, [tri |-> tri, state |-> s])
    /\ recoloured' \in {recoloured, TRUE}
    /\ UNCHANGED rejected

Reject ==
  /\ rejected' = rejected + 1
  /\ recoloured' \in {recoloured, TRUE}
  /\ UNCHANGED shown

Corners(ix) == <<window[ix[1]], window[ix[2]], window[ix[3]]>>
Drawable(ix) == /\ \A k \in 1 .. 3 : ix[k] <= Len(window)
                /\ \A k \in 1 .. 3 : ~Behind(Corners(ix)[k])
InGuardBand(ix) == \A k \in 1 .. 3 : Inside(Corners(ix)[k])
FrameFull == Len(shown) >= FrameCap

DrawTri(ix) ==
  /\ Command /\ window # NoWindow
  /\ \/ ~Drawable(ix) /\ Reject /\ UNCHANGED pending
     \/ /\ Drawable(ix) /\ InGuardBand(ix)
        /\ \/ Show(Corners(ix))
           \/ (FacesAway(Corners(ix)) \/ FrameFull) /\ Reject
        /\ UNCHANGED pending
     \/ /\ Drawable(ix) /\ ~InGuardBand(ix)
        /\ \E ring \in Rings :
             \/ Len(ring) < 3 /\ Reject /\ UNCHANGED pending
             \/ /\ Len(ring) >= 3 /\ pending' = Fan(ring, Corners(ix))
                /\ recoloured' \in {recoloured, TRUE}
                /\ UNCHANGED <<shown, rejected>>
  /\ UNCHANGED <<view, background, state, window, used>>

(* A piece of a clipped triangle that is to be seen takes room for three   *)
(* vertices.  It is lost if there is no such room, which is then used up,  *)
(* or if the frame is full of triangles.                                   *)
ShowPiece ==
  /\ phase = "walk" /\ pending # <<>>
  /\ \/ FacesAway(Head(pending)) /\ Reject /\ UNCHANGED used
     \/ /\ ~FacesAway(Head(pending))
        /\ used + 3 <= VertexCap /\ used' = used + 3
        /\ Show(Head(pending)) \/ (FrameFull /\ Reject)
     \/ /\ ~FacesAway(Head(pending))
        /\ used + 3 > VertexCap /\ used' = VertexCap
        /\ Reject
  /\ pending' = Tail(pending)
  /\ UNCHANGED <<phase, view, background, state, window>>

Next == \/ BeginFrame \/ Submit \/ EndWalk \/ PackShort
        \/ SetStack \/ SetProjection \/ SetViewport \/ Clear \/ SetState \/ Load
        \/ \E ix \in Triples : DrawTri(ix)
        \/ ShowPiece

Spec == Init /\ [][Next]_vars
=============================================================================
