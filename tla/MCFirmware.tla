----------------------------- MODULE MCFirmware -----------------------------
(* Firmware with short tones, tiles and paths, and samples for the tests:  *)
(* the boundaries of each function and a few values between them.          *)
EXTENDS Firmware

MCCueDur == [select |-> 3, move |-> 2]
MCOpaque == (0 :> 1) @@ (1 :> 0)

MCGuard == [minx |-> -3, maxx |-> 4, miny |-> -3, maxy |-> 4]
MCClipPoint == [x : {-90, -7, 0, 2, 50}, y : {-20, 3, 70},
                w : {-3, 0, 1, 2, 3, 4, 7, 33, 64, 100, 300}, u : {5}]
MCViewport == [x |-> 1, y |-> 0, w |-> 5, h |-> 4]
MCCorner == [x : {-8, -3, 0, 2, 7}, y : {-5, -1, 3, 4, 9}, iw : {3}]
            \cup [x : {-6, 5}, y : {0, 6}, iw : {8}]
MCTexture == [w : 1 .. 5, h : {1, 3, 4}, wrap_s : WrapMode, wrap_t : WrapMode,
              format : {"i8", "ci4", "bad"}, filter : {"point", "three_point"},
              tlut : BOOLEAN]
MCCoord == {-9, -5, -4, -1, 0, 1, 2, 3, 4, 6, 11}
MCTap == {0, 1, 100, 255}
MCChannel == (5 :> {0, 1, 16, 28, 31}) @@ (6 :> {0, 50, 62, 63})
MCPosition == {-6, -4, -2, -1, 0, 1, 2, 3, 4, 6}
MCSky == [x : {-2, 1}, y : {-1, 2}, w : {1, 3, 5}, h : {1, 6}, src_w : {1, 4},
          src_h : {2, 5}, scroll : {0, 7}, elevation : {-3, 2}, horizon : {0, 3}]
=============================================================================
