---------------------------- MODULE SerialRaster ----------------------------
(***************************************************************************)
(* The promise of the raster stage, as the single-threaded host build      *)
(* keeps it (dispatch_host.cc): the front end leaves a scene in the Frame, *)
(* rdr_end_frame clears the framebuffer, and one sweep draws every tile    *)
(* from its bin.  Nothing in between is visible.  How one tile is drawn is *)
(* a parameter: this module is about when the tiles are.                   *)
(***************************************************************************)
EXTENDS Integers

CONSTANTS
  NumTiles,        \* GEOM_NUM_TILES
  Scenes,          \* what the front end can leave in the Frame
  EmptyScene,      \* a Frame no front end has run on: zeroed storage
  DrawTile(_, _)   \* raster_tile: a bin and the tile's pixels, to its pixels

Tile == 0 .. NumTiles - 1

SerialImage(s) == [t \in Tile |-> DrawTile(s.bins[t], s.background[t])]

VARIABLES
  scene,  \* the contents of the Frame: bins, and clear colour plus 2D blits
  image,  \* the framebuffer
  phase

vars == <<scene, image, phase>>

Init == /\ scene = EmptyScene
        /\ image = EmptyScene.background
        /\ phase = "idle"

(* rdr_begin_frame and rdr_submit. *)
Build(s) == /\ phase = "idle"
            /\ scene' = s
            /\ phase' = "built"
            /\ UNCHANGED image

(* The clear and the 2D blits at the head of rdr_end_frame. *)
Clear == /\ phase = "built"
         /\ image' = scene.background
         /\ phase' = "cleared"
         /\ UNCHANGED scene

(* sched_rasterize. *)
Rasterize == /\ phase = "cleared"
             /\ image' = SerialImage(scene)
             /\ phase' = "idle"
             /\ UNCHANGED scene

Next == (\E s \in Scenes : Build(s)) \/ Clear \/ Rasterize

Spec == Init /\ [][Next]_vars
=============================================================================
