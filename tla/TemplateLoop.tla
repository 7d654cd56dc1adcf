---------------------------- MODULE TemplateLoop ----------------------------
(***************************************************************************)
(* The main loop of the 2D template (main_pico.cc) with its application    *)
(* (app.cc): poll, tick, hand the cue to the beeper, present.  No watchdog *)
(* is armed.  The random start position is any one.                        *)
(***************************************************************************)
EXTENDS Platform

CONSTANTS
  MaxPos,     \* SCREEN_W - OBJ_SIZE, the last position of the object
  ObjStep,    \* OBJ_STEP
  CueDur      \* cue_dur: the duration of each cue's tone

ASSUME MaxPosAssumption == MaxPos \in Nat \ {0} /\ ObjStep \in Nat
ASSUME CueDurAssumption == CueDur \in [{"select", "move"} -> 1 .. ClockRange - 1]

VARIABLES
  app,      \* the App: state, object, pending cue
  due,      \* no code: the time the latest tone has left
  crossed   \* no code: the clock passed 0 during that tone, or will by its end

templateVars == <<app, due, crossed>>

AppInit == [state |-> "title", x |-> MaxPos \div 2, y |-> MaxPos \div 2, cue |-> "none"]

(* Slip: only the far edge stops the object. *)
ClampedAbove(v) == IF v > MaxPos THEN MaxPos ELSE v

Clamped(v) == IF v < 0 THEN 0 ELSE IF v > MaxPos THEN MaxPos ELSE v

(* One step either way; opposite buttons cancel. *)
Moved(v, held, minus, plus) ==
  Clamped(v - (IF minus \in held THEN ObjStep ELSE 0)
            + (IF plus \in held THEN ObjStep ELSE 0))

Directions == {"UP", "DOWN", "LEFT", "RIGHT"}

(* app_tick. A stands before moving, and on the title screen only A counts. *)
StartGame(a, x0, y0) == [state |-> "playing", x |-> x0, y |-> y0, cue |-> "select"]

Play(a, i) ==
  [a EXCEPT !.x = Moved(a.x, i.held, "LEFT", "RIGHT"),
            !.y = Moved(a.y, i.held, "UP", "DOWN"),
            !.cue = IF "A" \in i.pressed THEN "select"
                    ELSE IF i.held \cap Directions # {} THEN "move" ELSE a.cue]

TemplateInit ==
  /\ app = AppInit
  /\ due = 0 /\ crossed = FALSE

TemplatePoll ==
  /\ pc = "poll"
  /\ PollInput
  /\ fresh' = FALSE /\ lifted' = FALSE /\ UNCHANGED pad
  /\ pc' = "tick"
  /\ UNCHANGED <<image, now, watchdog, templateVars>>

AppTick ==
  /\ pc = "tick"
  /\ \/ /\ app.state = "title" /\ "A" \in in.pressed
        /\ \E x0, y0 \in 0 .. MaxPos - 1 : app' = StartGame(app, x0, y0)
     \/ /\ app.state = "title" /\ "A" \notin in.pressed
        /\ UNCHANGED app
     \/ /\ app.state = "playing"
        /\ app' = Play(app, in)
  /\ pc' = "cue"
  /\ UNCHANGED <<image, now, device, watchdog, finger, due, crossed>>

(* app_take_cue, and a tone for a cue. It takes the place of one that still *)
(* sounds.                                                                 *)
Cue ==
  /\ pc = "cue"
  /\ \/ /\ app.cue # "none"
        /\ PlatAudio(CueDur[app.cue])
        /\ due' = CueDur[app.cue]
        /\ crossed' = (now + CueDur[app.cue] >= ClockRange)
     \/ app.cue = "none" /\ UNCHANGED <<stop, sound, due, crossed>>
  /\ app' = [app EXCEPT !.cue = "none"]
  /\ pc' = "present"
  /\ UNCHANGED <<image, now, heldPrev, in, watchdog, finger>>

Presented ==
  /\ pc = "present"
  /\ pc' = "poll"
  /\ UNCHANGED <<image, now, device, watchdog, finger, templateVars>>

TemplateFinger ==
  /\ pc = "poll"
  /\ \E b \in Button : Press(b) \/ Release(b)
  /\ UNCHANGED <<image, pc, now, device, watchdog, templateVars>>

TemplateTick ==
  /\ now' = (now + 1) % ClockRange
  /\ due' = IF due > 0 THEN due - 1 ELSE 0
  /\ crossed' = (crossed \/ now' = 0)
  /\ UNCHANGED <<image, pc, device, watchdog, finger, app>>

TemplateStep == TemplatePoll \/ AppTick \/ Cue \/ Presented

TemplateNext == TemplateStep \/ TemplateTick \/ TemplateFinger

-----------------------------------------------------------------------------
(* Properties *)

TemplatePc == {"poll", "tick", "cue", "present"}

TemplateTypeOK ==
  /\ app \in [state : {"title", "playing"}, x : 0 .. MaxPos, y : 0 .. MaxPos,
              cue : {"none", "select", "move"}]
  /\ due \in 0 .. ClockRange - 1
  /\ crossed \in BOOLEAN

(* platform.h:47: a tone ends after its duration, at the first poll that    *)
(* finds it over, and not before; the latest cue decides.  This is so of   *)
(* tones whose end, and whose first late poll, the clock reaches without   *)
(* passing 0: past it the end compares as long gone or far ahead, and an   *)
(* end of exactly 0 reads as no tone, which never ends.                    *)
ToneEndsOnTime ==
  [][image = "template" /\ pc = "poll" /\ pc' = "tick" /\ ~crossed
     => (sound' <=> due > 0)]_<<image, pc, crossed, sound, due>>
=============================================================================
