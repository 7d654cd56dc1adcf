------------------------------ MODULE DemoLoop ------------------------------
(***************************************************************************)
(* The main loop of the demo (demo/main.cc) with the camera and the scroll *)
(* of demo_scene.cc, on the device: buttons, the watchdog that restarts a  *)
(* hung frame, the bounded exit to the boot loader.  What the stages of a  *)
(* frame draw is modelled elsewhere; here they take time, may hang, and    *)
(* read the camera.                                                        *)
(***************************************************************************)
EXTENDS Platform

CONSTANTS
  WatchdogMs,     \* the period main asks for
  DemoFrames,     \* DEMO_FRAMES: frames until the exit; 0 is for ever
  PathLen,        \* SCRIPTED_FRAME_COUNT
  ScrollDelta,    \* DEMO_SCROLL_DELTA
  ScrollPeriod,   \* DEMO_SCROLL_PERIOD
  EyeSteps        \* free-fly steps in the range of a coordinate

ASSUME PeriodAssumption == WatchdogMs \in Nat \ {0}
ASSUME FramesAssumption == DemoFrames \in Nat
ASSUME PathAssumption == PathLen \in Nat \ {0} /\ EyeSteps \in Nat \ {0}
ASSUME ScrollAssumption == ScrollDelta \in Nat /\ ScrollPeriod \in Nat \ {0}

Period == IF WatchdogMs < WatchdogMax THEN WatchdogMs ELSE WatchdogMax

VARIABLES
  cam,     \* s_cam: mode, scripted frame, eye in steps from its start
  scroll,  \* s_scroll.phase
  frame,   \* main's frame counter, as logged
  drawn,   \* what the frame under way shows: pose, its sky, scroll phase
  hung,    \* the stage under way never ends
  \* No code: the time since this pass of the loop began; whether A was
  \* pressed an odd number of times; the frames that were flown freely.
  since, odd, away

camera == <<cam, scroll, frame, drawn>>
ghosts == <<since, odd, away>>
demoVars == <<camera, hung, ghosts>>

-----------------------------------------------------------------------------
(* demo_scene.cc *)

Axis == 1 .. 3
Minus == <<"LEFT", "DOWN", "Y">>
Plus == <<"RIGHT", "UP", "X">>

CameraInit == [mode |-> "scripted", frame |-> 0, eye |-> [a \in Axis |-> 0]]

Nudged(eye, held) ==
  [a \in Axis |-> (eye[a] + (IF Plus[a] \in held THEN 1 ELSE 0)
                          - (IF Minus[a] \in held THEN 1 ELSE 0)) % EyeSteps]

Toggled(mode) == IF mode = "scripted" THEN "freefly" ELSE "scripted"

(* Slip: the scripted path goes on under free flight. *)
AdvanceAlways(c, held, pressed) ==
  LET mode == IF "A" \in pressed THEN Toggled(c.mode) ELSE c.mode
  IN  [mode |-> mode, frame |-> c.frame + 1,
       eye |-> IF mode = "freefly" THEN Nudged(c.eye, held) ELSE c.eye]

CameraAdvance(c, held, pressed) ==
  LET mode == IF "A" \in pressed THEN Toggled(c.mode) ELSE c.mode
  IN  IF mode = "freefly"
      THEN [c EXCEPT !.mode = mode, !.eye = Nudged(c.eye, held)]
      ELSE [c EXCEPT !.mode = mode, !.frame = c.frame + 1]

ScrollAdvance(phase) == (phase + ScrollDelta) % ScrollPeriod

(* Where demo_terrain_build and demo_fill_blits look from: an entry of the *)
(* committed tables, or the eye.                                           *)
Pose(c) == IF c.mode = "scripted" THEN <<"scripted", c.frame % PathLen>>
           ELSE <<"freefly", c.eye>>

-----------------------------------------------------------------------------
NothingDrawn == [pose |-> Pose(CameraInit), sky |-> Pose(CameraInit), phase |-> 0]

DemoInit ==
  /\ cam = CameraInit /\ scroll = 0 /\ frame = 0 /\ drawn = NothingDrawn
  /\ hung = FALSE /\ since = 0 /\ odd = FALSE /\ away = 0

(* Up to the loop. A button that is down at the reset is one no poll has   *)
(* seen.                                                                   *)
Boot ==
  /\ pc = "boot"
  /\ Arm(WatchdogMs)
  /\ pc' = "top"
  /\ UNCHANGED <<image, now, device, finger, demoVars>>

KickDog ==
  /\ pc = "top"
  /\ Kick /\ since' = 0
  /\ pc' = "poll"
  /\ UNCHANGED <<image, now, device, finger, camera, hung, odd, away>>

Poll ==
  /\ pc = "poll"
  /\ PollInput
  /\ odd' = (odd # fresh)
  /\ fresh' = FALSE /\ lifted' = FALSE /\ UNCHANGED pad
  /\ pc' = "build"
  /\ UNCHANGED <<image, now, watchdog, camera, hung, since, away>>

(* The stages of a frame in their order. *)
Follows == [begin |-> "blits", submit |-> "end", end |-> "present", present |-> "log"]

Build ==
  /\ pc = "build" /\ ~hung
  /\ drawn' = [drawn EXCEPT !.pose = Pose(cam), !.phase = scroll]
  /\ pc' = "begin"
  /\ UNCHANGED <<image, now, device, watchdog, finger, cam, scroll, frame, hung, ghosts>>

FillBlits ==
  /\ pc = "blits" /\ ~hung
  /\ drawn' = [drawn EXCEPT !.sky = Pose(cam)]
  /\ pc' = "submit"
  /\ UNCHANGED <<image, now, device, watchdog, finger, cam, scroll, frame, hung, ghosts>>

Stage ==
  /\ pc \in DOMAIN Follows /\ ~hung
  /\ pc' = Follows[pc]
  /\ UNCHANGED <<image, now, device, watchdog, finger, demoVars>>

Hang ==
  /\ pc \in {"build", "blits"} \cup DOMAIN Follows /\ ~hung
  /\ hung' = TRUE
  /\ UNCHANGED <<platformVars, camera, ghosts>>

Log ==
  /\ pc = "log"
  /\ pc' = "advance"
  /\ UNCHANGED <<image, now, device, watchdog, finger, demoVars>>

(* plat_poll_input of the device never asks for the end. *)
Advance ==
  /\ pc = "advance"
  /\ cam' = CameraAdvance(cam, in.held, in.pressed)
  /\ scroll' = ScrollAdvance(scroll)
  /\ frame' = frame + 1
  /\ away' = IF odd THEN away + 1 ELSE away
  /\ pc' = IF DemoFrames # 0 /\ frame' >= DemoFrames THEN "exit" ELSE "top"
  /\ UNCHANGED <<image, now, device, watchdog, finger, drawn, hung, since, odd>>

(* Slip: the final report runs on what the last frame left of the period. *)
ExitUnfed ==
  /\ pc = "exit"
  /\ since' = 0
  /\ pc' = "report"
  /\ UNCHANGED <<image, now, device, watchdog, finger, camera, hung, odd, away>>

ExitKick ==
  /\ pc = "exit"
  /\ Kick /\ since' = 0
  /\ pc' = "report"
  /\ UNCHANGED <<image, now, device, finger, camera, hung, odd, away>>

(* The report, and plat_reset_to_bootsel: the ROM takes over. *)
ResetToBootsel ==
  /\ pc = "report"
  /\ pc' = "bootsel"
  /\ armed' = 0 /\ dog' = 0
  /\ UNCHANGED <<image, now, device, finger, demoVars>>

(* A reset of the chip. The fingers stay where they are. *)
ChipReset ==
  /\ pc' = "boot"
  /\ PlatReset
  /\ cam' = CameraInit /\ scroll' = 0 /\ frame' = 0 /\ drawn' = NothingDrawn
  /\ hung' = FALSE /\ since' = 0 /\ odd' = FALSE /\ away' = 0
  /\ fresh' = ("A" \in pad) /\ lifted' = FALSE
  /\ UNCHANGED <<image, pad, now>>

(* The host flashes it again. *)
Flash == pc = "bootsel" /\ ChipReset

DemoFinger ==
  /\ pc = "poll"
  /\ \E b \in Button : Press(b) \/ Release(b)
  /\ UNCHANGED <<image, pc, now, device, watchdog, demoVars>>

(* A unit of time. The one that uses the period up resets the chip. since  *)
(* is only counted as far as the period.                                   *)
DemoTick ==
  \/ DogBites /\ ChipReset
  \/ /\ ~DogBites
     /\ dog' = IF armed # 0 THEN dog + 1 ELSE 0
     /\ since' = IF since < Period THEN since + 1 ELSE since
     /\ UNCHANGED <<image, pc, now, device, armed, finger, camera, hung, odd, away>>

DemoStep == \/ Boot \/ KickDog \/ Poll \/ Build \/ FillBlits \/ Stage
            \/ Log \/ Advance \/ ExitKick \/ ResetToBootsel

DemoNext == DemoStep \/ DemoTick \/ DemoFinger \/ Hang \/ Flash

-----------------------------------------------------------------------------
(* Properties *)

DemoPc == {"boot", "top", "poll", "build", "blits", "log", "advance", "exit", "report",
           "bootsel"} \cup DOMAIN Follows

PoseType == ({"scripted"} \X (0 .. PathLen - 1))
            \cup ({"freefly"} \X [Axis -> 0 .. EyeSteps - 1])

DemoTypeOK ==
  /\ cam \in [mode : {"scripted", "freefly"}, frame : Nat,
              eye : [Axis -> 0 .. EyeSteps - 1]]
  /\ scroll \in 0 .. ScrollPeriod - 1
  /\ frame \in Nat /\ away \in Nat
  /\ drawn \in [pose : PoseType, sky : PoseType, phase : 0 .. ScrollPeriod - 1]
  /\ hung \in BOOLEAN /\ odd \in BOOLEAN
  /\ since \in 0 .. Period

(* Each press of A that a poll sees toggles the camera once, however long   *)
(* the button stays down, over however many frames; nothing else does.  The *)
(* camera advances after the frame is presented (main.cc:163), so a press   *)
(* shows in the picture after the one its poll began, where main.cc:91 says *)
(* that it "applies this frame".                                            *)
ModeFollowsPresses ==
  image = "demo" =>
    /\ pc = "top" => (cam.mode = "freefly" <=> odd)
    /\ pc = "log" => (drawn.pose[1] = "freefly" <=> (odd # ("A" \in in.pressed)))

(* Terrain and sky of a picture are one pose, and the scroll is a function  *)
(* of the number it is logged under.  main.cc:139 says more: the number is  *)
(* the index of the scripted frame, by which pictures are compared with the *)
(* host's.  Free flight does not advance the path, but the number: it is    *)
(* the index for as long as the frames flown freely since the boot make     *)
(* whole rounds of the path, none among them, and for no longer.            *)
FrameKeysPicture ==
  image = "demo" /\ pc = "log" =>
    /\ drawn.sky = drawn.pose
    /\ drawn.phase = (frame * ScrollDelta) % ScrollPeriod
    /\ drawn.pose[1] = "scripted" =>
         (drawn.pose[2] = frame % PathLen <=> away % PathLen = 0)

(* main.cc:84: the watchdog resets no pass of the loop, and no report at   *)
(* the exit, that is over within the period.                               *)
OnlyLateResets ==
  [][pc \notin {"boot", "bootsel"} /\ pc' = "boot" => since + 1 >= Period]_<<pc, since>>

(* main.cc:81: a hung frame does not wedge the device; it is always back   *)
(* at the top of the loop, or in the boot loader.                          *)
NeverWedged == []<>(image = "demo" => pc \in {"top", "bootsel"})
=============================================================================
