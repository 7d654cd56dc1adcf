--------------------------- MODULE MCTileDispatch ---------------------------
(***************************************************************************)
(* TileDispatch on three tiles of two pixels.  The scenes are chosen so    *)
(* that a scratch left over from another tile changes the picture: a near  *)
(* opaque triangle in one tile, a far one in the next, translucent ones    *)
(* over part of a tile, more of them than the gather holds in one tile.    *)
(***************************************************************************)
EXTENDS TileDispatch

CONSTANT Show  \* the names of the scenes the front end may build

Flat(cover, z, color, cv) ==
  [zmode |-> "OPAQUE", textured |-> FALSE, cover |-> cover, keep |-> {},
   z |-> z, key |-> z, color |-> color, alpha |-> 255, cov |-> cv]

Soft(cover, z, key, color, alpha) ==
  [zmode |-> "XLU", textured |-> TRUE, cover |-> cover, keep |-> cover,
   z |-> z, key |-> key, color |-> color, alpha |-> alpha, cov |-> 255]

Black == [p \in Px |-> 0]
Sky == [p \in Px |-> 12]

(* Near and edge-covered, far and interior, translucent over nothing. *)
Terrain ==
  [bins |-> [t \in Tile |->
     CASE t = 0 -> <<Flat(Px, 9, 20, 100), Soft({0}, 9, 9, 31, 200)>>
       [] t = 1 -> <<Flat({0}, 5, 7, 128), Flat({0, 1}, 2, 28, 255)>>
       [] OTHER -> <<Soft({1}, 3, 3, 16, 128)>>],
   background |-> [t \in Tile |-> Sky]]

(* Two translucent layers in the wrong bin order, over a far triangle. *)
Trees ==
  [bins |-> [t \in Tile |->
     CASE t = 0 -> <<>>
       [] t = 1 -> <<Soft(Px, 3, 3, 31, 200), Soft({0}, 6, 6, 4, 100)>>
       [] OTHER -> <<Soft(Px, 4, 4, 9, 150), Flat(Px, 1, 25, 60)>>],
   background |-> [t \in Tile |-> Black]]

(* Tiles 0 and 1 gather one and two translucent triangles too many. *)
Foliage ==
  [bins |-> [t \in Tile |->
     IF t < 2 THEN [i \in 1 .. XluCap + 1 + t |-> Soft({0}, i, i, 3 * i, 90)]
     ELSE <<>>],
   background |-> [t \in Tile |-> Black]]

(* One triangle: enough to run every control path of the dispatch. *)
Tiny ==
  [bins |-> [t \in Tile |-> IF t = 0 THEN <<Soft({0}, 1, 1, 8, 255)>> ELSE <<>>],
   background |-> [t \in Tile |-> Black]]

MCScenes == {CASE n = "terrain" -> Terrain [] n = "trees" -> Trees
               [] n = "foliage" -> Foliage [] n = "tiny" -> Tiny : n \in Show}
=============================================================================
