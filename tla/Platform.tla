------------------------------ MODULE Platform ------------------------------
(***************************************************************************)
(* What a main loop of the firmware gets from platform_pico.cc and         *)
(* reset_stub_pico.cc: buttons with edge detection, a millisecond clock,   *)
(* a beeper that the loop has to silence, and the hardware watchdog.       *)
(*                                                                         *)
(* The pad moves when the loop is about to poll it: what fingers do at     *)
(* other times is not seen, except for the presses that were over by then, *)
(* and those are among the moves.                                          *)
(***************************************************************************)
EXTENDS Integers

CONSTANTS
  Button,       \* the buttons fingers are on: some of BtnName
  ClockRange,   \* 2^32, the values of the millisecond clock
  WatchdogMax   \* WATCHDOG_MAX_MS

BtnName == {"UP", "DOWN", "LEFT", "RIGHT", "A", "B", "X", "Y"}

ASSUME ButtonAssumption == Button \subseteq BtnName
ASSUME ClockAssumption == ClockRange \in Nat \ {0}
ASSUME WatchdogAssumption == WatchdogMax \in Nat \ {0}

VARIABLES
  image,     \* the firmware that is flashed
  pc,        \* the statement of main's loop that runs next
  pad,       \* buttons that are down
  heldPrev,  \* s_held_prev
  in,        \* the struct Input of the loop: held and pressed
  now,       \* the clock
  stop,      \* s_audio_stop_ms
  sound,     \* the PWM level is not 0
  armed,     \* watchdog period in force, 0 when it is off
  dog,       \* time since the watchdog was fed
  fresh,     \* no code: A was pressed, and is down, and no poll has seen it
  lifted     \* no code: A was let go since a poll that saw it down

device == <<heldPrev, in, stop, sound>>
watchdog == <<armed, dog>>
finger == <<pad, fresh, lifted>>
platformVars == <<image, pc, now, device, watchdog, finger>>

NoInput == [held |-> {}, pressed |-> {}]

(* RAM, the PWM and the watchdog as a reset leaves them. *)
PlatInit ==
  /\ heldPrev = {} /\ in = NoInput
  /\ stop = 0 /\ sound = FALSE
  /\ armed = 0 /\ dog = 0

PlatReset ==
  /\ heldPrev' = {} /\ in' = NoInput
  /\ stop' = 0 /\ sound' = FALSE
  /\ armed' = 0 /\ dog' = 0

(* fresh is what the user would say: I have just pressed A.  A press right  *)
(* after a release is not one when both fall between two polls: the second *)
(* poll finds the button as the first one left it.                         *)
Press(b) ==
  /\ b \notin pad
  /\ pad' = pad \cup {b}
  /\ fresh' = (fresh \/ (b = "A" /\ ~lifted))
  /\ UNCHANGED lifted

Release(b) ==
  /\ b \in pad
  /\ pad' = pad \ {b}
  /\ fresh' = (fresh /\ b # "A")
  /\ lifted' = (lifted \/ (b = "A" /\ ~fresh))

(* Slips in the code stand before the definition they are a slip of, here  *)
(* and in the modules below; none is part of Next.  A tone outlives its    *)
(* last millisecond.                                                       *)
SilenceAfterDue ==
  IF stop # 0 /\ now > stop
  THEN sound' = FALSE /\ stop' = 0
  ELSE UNCHANGED <<stop, sound>>

(* plat_poll_input: held and pressed buttons, and the end of a tone. *)
SilenceWhenDue ==
  IF stop # 0 /\ now >= stop
  THEN sound' = FALSE /\ stop' = 0
  ELSE UNCHANGED <<stop, sound>>

(* Slip: pressed is held. *)
PollLevel ==
  /\ in' = [held |-> pad, pressed |-> pad]
  /\ heldPrev' = pad
  /\ SilenceWhenDue

PollInput ==
  /\ in' = [held |-> pad, pressed |-> pad \ heldPrev]
  /\ heldPrev' = pad
  /\ SilenceWhenDue

(* plat_audio. The end of the tone is a sum of the clock's width. *)
PlatAudio(duration) ==
  IF duration = 0
  THEN sound' = FALSE /\ stop' = 0
  ELSE sound' = TRUE /\ stop' = (now + duration) % ClockRange

(* Slip: a period above the maximum is refused. *)
ArmRefuses(ms) ==
  /\ armed' = IF ms <= WatchdogMax THEN ms ELSE 0
  /\ dog' = 0

(* plat_watchdog_arm, plat_watchdog_kick *)
Arm(ms) ==
  /\ armed' = IF ms < WatchdogMax THEN ms ELSE WatchdogMax
  /\ dog' = 0

Kick == dog' = 0 /\ UNCHANGED armed

(* One more unit of time without a kick is one too many. *)
DogBites == armed # 0 /\ dog + 1 >= armed
=============================================================================
