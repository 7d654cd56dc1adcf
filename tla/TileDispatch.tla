---------------------------- MODULE TileDispatch ----------------------------
(***************************************************************************)
(* The dual-core raster stage of the firmware: dispatch_pico.cc and the    *)
(* tile drain both cores run (drain.h, raster_tile).  Core 0 launches core *)
(* 1 once, publishes the Frame and wakes core 1 through the inter-core     *)
(* FIFO; both claim tiles from a counter under a hardware spinlock; core 1 *)
(* answers DONE and parks; core 0 joins on the answer and returns.         *)
(*                                                                         *)
(* A core's program counter names the statement it is about to run.  Every *)
(* shared access is a step of its own; a stage of the drain is one step,   *)
(* since all it touches is the worker's scratch and its tile's pixels.     *)
(***************************************************************************)
EXTENDS TileRaster

CONSTANTS
  NumTiles,    \* GEOM_NUM_TILES
  Scenes,      \* what the front end can leave in the Frame
  FifoDepth,   \* entries a hardware inter-core FIFO holds
  MaxDropped   \* bound: no frame is started that could drop more in total

ASSUME NumTilesAssumption == NumTiles \in Nat \ {0}
ASSUME FifoDepthAssumption == FifoDepth \in Nat \ {0}

Tile == 0 .. NumTiles - 1
Core == {0, 1}
Free == -1

ASSUME ScenesAssumption ==
  \A s \in Scenes : /\ s.bins \in [Tile -> Seq(TriRef)]
                    /\ s.background \in [Tile -> [Px -> 0 .. 31]]

VARIABLES
  pc,        \* per core: the statement it runs next
  scene,     \* contents of the Frame: bins, clear colour plus 2D blits
  fb,        \* the framebuffer, tile by tile
  sFrame,    \* s_frame: "null" or the Frame
  nextTile,  \* s_next_tile
  lock,      \* holder of s_tile_lock, or Free
  launched,  \* s_core1_launched
  toCore1,   \* FIFO of tokens core 0 pushed
  toCore0,   \* FIFO of tokens core 1 pushed
  tile,      \* per core: local of dispatch_run
  arg,       \* core 1: the Frame pointer passed to dispatch_run
  zbuf, cov, \* per core: f->zbuf[worker], f->cov[worker]
  acc,       \* per core: g_xlu_c_acc, g_xlu_acc_alpha slices
  xlu,       \* per core: xlu_idx, on the core's stack
  dropped,   \* s_xlu_dropped, shared and not atomic
  dropLeft,  \* per core: increments of it this tile still has to do
  dropReg,   \* per core: the register of ++s_xlu_dropped
  drawn      \* history: how often each tile was drained since the reset

front   == <<scene>>
counter == <<nextTile, lock>>
comms   == <<sFrame, launched, toCore1, toCore0, arg>>
scratch == <<zbuf, cov, acc, xlu>>
drops   == <<dropped, dropLeft, dropReg>>
vars    == <<pc, front, fb, counter, comms, tile, scratch, drops, drawn>>

(* Static storage is zeroed at boot: empty bins on black. *)
EmptyScene == [bins       |-> [t \in Tile |-> <<>>],
               background |-> [t \in Tile |-> [p \in Px |-> 0]]]

Init ==
  /\ pc = [c \in Core |-> IF c = 0 THEN "app" ELSE "off"]
  /\ scene = EmptyScene
  /\ fb = EmptyScene.background
  /\ sFrame = "null" /\ launched = FALSE
  /\ toCore1 = <<>> /\ toCore0 = <<>> /\ arg = "null"
  /\ nextTile = 0 /\ lock = Free
  /\ tile = [c \in Core |-> 0]
  /\ zbuf = [c \in Core |-> ZCleared]
  /\ cov = [c \in Core |-> [p \in Px |-> 0]]
  /\ acc = [c \in Core |-> AccClear]
  /\ xlu = [c \in Core |-> <<>>]
  /\ dropped = 0
  /\ dropLeft = [c \in Core |-> 0] /\ dropReg = [c \in Core |-> 0]
  /\ drawn = [t \in Tile |-> 0]

Goto(c, from, to) == pc[c] = from /\ pc' = [pc EXCEPT ![c] = to]

-----------------------------------------------------------------------------
(* Slips in the code a run tells apart.  None of these is part of Next; each *)
(* stands for the action it is named after, and breaks the property named.   *)

(* A claim that accepts t == GEOM_NUM_TILES (TypeOK). *)
ReadCounterPastEnd(c) ==
  /\ pc[c] = "read"
  /\ tile' = [tile EXCEPT ![c] = nextTile]
  /\ pc' = [pc EXCEPT ![c] = IF nextTile <= NumTiles THEN "bump" ELSE "unlock"]
  /\ UNCHANGED <<front, fb, counter, comms, scratch, drops, drawn>>

(* Reading and bumping the counter without the spinlock (ClaimedOnce). *)
AcquireNothing(c) ==
  /\ Goto(c, "lock", "read")
  /\ UNCHANGED <<front, fb, counter, comms, tile, scratch, drops, drawn>>

(* No clear of the accumulator between two tiles (SerialOnJoin). *)
ClearAccumulatorNever(c) ==
  /\ pc[c] = "sweep2"
  /\ pc' = [pc EXCEPT ![c] = IF xlu[c] = <<>> THEN "resolve" ELSE "accumulate"]
  /\ UNCHANGED <<front, fb, counter, comms, tile, scratch, drops, drawn>>

(* Returning without the answer of core 1 (Core1Parked). *)
JoinNobody ==
  /\ Goto(0, "join", "app")
  /\ UNCHANGED <<front, fb, counter, comms, tile, scratch, drops, drawn>>

(* No depth clear at the start of a tile (ImplementsSerial). *)
ClearScratchCovOnly(c) ==
  /\ Goto(c, "clear", "opaque")
  /\ cov' = IF AaOn THEN [cov EXCEPT ![c] = CovCleared] ELSE cov
  /\ UNCHANGED <<front, fb, counter, comms, tile, zbuf, acc, xlu, drops, drawn>>

(* Breaking out of the drain with the lock still held (DispatchReturns). *)
ReleaseUnlessDone(c) ==
  /\ pc[c] = "unlock"
  /\ lock' = IF tile[c] < NumTiles THEN Free ELSE lock
  /\ pc' = [pc EXCEPT ![c] = IF tile[c] < NumTiles THEN "clear"
                             ELSE IF c = 0 THEN "join" ELSE "signal"]
  /\ UNCHANGED <<front, fb, nextTile, comms, tile, scratch, drops, drawn>>

-----------------------------------------------------------------------------
(* Core 0 outside the dispatch, and its call of sched_dispatch_tiles. *)

SceneDrops(s) == SumFunction([t \in Tile |-> XluDrops(s.bins[t])])

(* rdr_begin_frame and rdr_submit rewrite the Frame. *)
BuildFrame(s) ==
  /\ Goto(0, "app", "clearFb")
  /\ dropped + SceneDrops(s) <= MaxDropped
  /\ scene' = s
  /\ UNCHANGED <<fb, counter, comms, tile, scratch, drops, drawn>>

(* rdr_end_frame fills the framebuffer and draws the 2D blits. *)
ClearFb ==
  /\ Goto(0, "clearFb", "setup")
  /\ fb' = scene.background
  /\ UNCHANGED <<front, counter, comms, tile, scratch, drops, drawn>>

(* The one-time setup: initialise the spinlock, launch core 1. *)
LaunchCore1 ==
  /\ pc[0] = "setup" /\ ~launched
  /\ pc' = [pc EXCEPT ![0] = "publish", ![1] = "boot"]
  /\ launched' = TRUE
  /\ UNCHANGED <<front, fb, counter, sFrame, toCore1, toCore0, arg, tile,
                 scratch, drops, drawn>>

ReuseCore1 ==
  /\ Goto(0, "setup", "publish") /\ launched
  /\ UNCHANGED <<front, fb, counter, comms, tile, scratch, drops, drawn>>

PublishFrame ==
  /\ Goto(0, "publish", "reset")
  /\ sFrame' = "frame"
  /\ UNCHANGED <<front, fb, counter, launched, toCore1, toCore0, arg, tile,
                 scratch, drops, drawn>>

ResetCounter ==
  /\ Goto(0, "reset", "wake")
  /\ nextTile' = 0
  /\ drawn' = [t \in Tile |-> 0]
  /\ UNCHANGED <<front, fb, lock, comms, tile, scratch, drops>>

WakeCore1 ==
  /\ Goto(0, "wake", "lock")
  /\ Len(toCore1) < FifoDepth
  /\ toCore1' = Append(toCore1, "GO")
  /\ UNCHANGED <<front, fb, counter, sFrame, launched, toCore0, arg, tile,
                 scratch, drops, drawn>>

(* Pop until the token is DONE. *)
Join ==
  /\ pc[0] = "join" /\ toCore0 # <<>>
  /\ pc' = [pc EXCEPT ![0] = IF Head(toCore0) = "DONE" THEN "app" ELSE "join"]
  /\ toCore0' = Tail(toCore0)
  /\ UNCHANGED <<front, fb, counter, sFrame, launched, toCore1, arg, tile,
                 scratch, drops, drawn>>

-----------------------------------------------------------------------------
(* Core 1's park loop. *)

EnableSysTick ==
  /\ Goto(1, "boot", "park")
  /\ UNCHANGED <<front, fb, counter, comms, tile, scratch, drops, drawn>>

(* A token that is not GO is ignored. *)
PopWake ==
  /\ pc[1] = "park" /\ toCore1 # <<>>
  /\ toCore1' = Tail(toCore1)
  /\ IF Head(toCore1) = "GO"
       THEN pc' = [pc EXCEPT ![1] = "lock"] /\ arg' = sFrame
       ELSE UNCHANGED <<pc, arg>>
  /\ UNCHANGED <<front, fb, counter, sFrame, launched, toCore0, tile,
                 scratch, drops, drawn>>

SignalDone ==
  /\ Goto(1, "signal", "park")
  /\ Len(toCore0) < FifoDepth
  /\ toCore0' = Append(toCore0, "DONE")
  /\ UNCHANGED <<front, fb, counter, sFrame, launched, toCore1, arg, tile,
                 scratch, drops, drawn>>

-----------------------------------------------------------------------------
(* dispatch_claim_tile, on either core: read and bump the counter under the *)
(* spinlock.                                                                *)

Acquire(c) ==
  /\ Goto(c, "lock", "read")
  /\ lock = Free
  /\ lock' = c
  /\ UNCHANGED <<front, fb, nextTile, comms, tile, scratch, drops, drawn>>

ReadCounter(c) ==
  /\ pc[c] = "read"
  /\ tile' = [tile EXCEPT ![c] = nextTile]
  /\ pc' = [pc EXCEPT ![c] = IF nextTile < NumTiles THEN "bump" ELSE "unlock"]
  /\ UNCHANGED <<front, fb, counter, comms, scratch, drops, drawn>>

BumpCounter(c) ==
  /\ Goto(c, "bump", "unlock")
  /\ nextTile' = tile[c] + 1
  /\ UNCHANGED <<front, fb, lock, comms, tile, scratch, drops, drawn>>

(* Past the last tile dispatch_run ends: core 0 goes on to join, core 1 to *)
(* signal.                                                                 *)
Release(c) ==
  /\ pc[c] = "unlock"
  /\ lock' = Free
  /\ pc' = [pc EXCEPT ![c] = IF tile[c] < NumTiles THEN "clear"
                             ELSE IF c = 0 THEN "join" ELSE "signal"]
  /\ UNCHANGED <<front, fb, nextTile, comms, tile, scratch, drops, drawn>>

-----------------------------------------------------------------------------
(* sched_drain_tile on the claimed tile, with the core's own scratch. *)

Bin(c) == scene.bins[tile[c]]

ClearScratch(c) ==
  /\ Goto(c, "clear", "opaque")
  /\ zbuf' = [zbuf EXCEPT ![c] = ZCleared]
  /\ cov' = IF AaOn THEN [cov EXCEPT ![c] = CovCleared] ELSE cov
  /\ UNCHANGED <<front, fb, counter, comms, tile, acc, xlu, drops, drawn>>

SweepOpaque(c) ==
  LET s == OpaqueSweep(Bin(c), [fb |-> fb[tile[c]], z |-> zbuf[c],
                                cov |-> IF AaOn THEN cov[c] ELSE NoCov])
  IN  /\ pc[c] = "opaque"
      /\ fb' = [fb EXCEPT ![tile[c]] = s.fb]
      /\ zbuf' = [zbuf EXCEPT ![c] = s.z]
      /\ cov' = IF AaOn THEN [cov EXCEPT ![c] = s.cov] ELSE cov
      /\ xlu' = [xlu EXCEPT ![c] = XluGather(Bin(c))]
      /\ dropLeft' = [dropLeft EXCEPT ![c] = XluDrops(Bin(c))]
      /\ pc' = [pc EXCEPT ![c] = IF XluDrops(Bin(c)) > 0 THEN "load"
                                 ELSE "sweep2"]
      /\ UNCHANGED <<front, counter, comms, tile, acc, dropped, dropReg, drawn>>

(* ++s_xlu_dropped, once per triangle the gather had no room for: a load   *)
(* and a store with the other core free to run in between.                 *)
LoadDropped(c) ==
  /\ Goto(c, "load", "store")
  /\ dropReg' = [dropReg EXCEPT ![c] = dropped]
  /\ UNCHANGED <<front, fb, counter, comms, tile, scratch, dropped, dropLeft,
                 drawn>>

StoreDropped(c) ==
  /\ pc[c] = "store"
  /\ dropped' = dropReg[c] + 1
  /\ dropLeft' = [dropLeft EXCEPT ![c] = @ - 1]
  /\ pc' = [pc EXCEPT ![c] = IF dropLeft[c] > 1 THEN "load" ELSE "sweep2"]
  /\ UNCHANGED <<front, fb, counter, comms, tile, scratch, dropReg, drawn>>

(* A tile with no translucent triangle leaves the accumulator alone. *)
ClearAccumulator(c) ==
  /\ pc[c] = "sweep2"
  /\ IF xlu[c] = <<>>
       THEN pc' = [pc EXCEPT ![c] = "resolve"] /\ UNCHANGED acc
       ELSE /\ pc' = [pc EXCEPT ![c] = "accumulate"]
            /\ acc' = [acc EXCEPT ![c] = AccClear]
  /\ UNCHANGED <<front, fb, counter, comms, tile, zbuf, cov, xlu, drops, drawn>>

SweepXlu(c) ==
  /\ Goto(c, "accumulate", "composite")
  /\ acc' = [acc EXCEPT ![c] = XluSweep(Bin(c), xlu[c], zbuf[c], acc[c])]
  /\ UNCHANGED <<front, fb, counter, comms, tile, zbuf, cov, xlu, drops, drawn>>

Composite(c) ==
  /\ Goto(c, "composite", "resolve")
  /\ fb' = [fb EXCEPT ![tile[c]] = CompositeFb(fb[tile[c]], acc[c])]
  /\ cov' = IF AaOn THEN [cov EXCEPT ![c] = CompositeCov(cov[c], acc[c])]
            ELSE cov
  /\ UNCHANGED <<front, counter, comms, tile, zbuf, acc, xlu, drops, drawn>>

Resolve(c) ==
  /\ Goto(c, "resolve", "lock")
  /\ fb' = IF AaOn THEN [fb EXCEPT ![tile[c]] = AaResolve(fb[tile[c]], cov[c])]
           ELSE fb
  /\ drawn' = [drawn EXCEPT ![tile[c]] = @ + 1]
  /\ UNCHANGED <<front, counter, comms, tile, scratch, drops>>

-----------------------------------------------------------------------------
Drain(c) == \/ ClearScratch(c) \/ SweepOpaque(c)
            \/ LoadDropped(c) \/ StoreDropped(c)
            \/ ClearAccumulator(c) \/ SweepXlu(c) \/ Composite(c) \/ Resolve(c)

Run(c) == \/ Acquire(c) \/ ReadCounter(c) \/ BumpCounter(c) \/ Release(c)
          \/ Drain(c)

Render == \/ ClearFb \/ LaunchCore1 \/ ReuseCore1 \/ PublishFrame
          \/ ResetCounter \/ WakeCore1 \/ Join

Core0 == (\E s \in Scenes : BuildFrame(s)) \/ Render \/ Run(0)
Core1 == EnableSysTick \/ PopWake \/ SignalDone \/ Run(1)

Next == Core0 \/ Core1

(* Each core executes whatever instruction it can: rdr_end_frame runs to   *)
(* its return once called, and core 1 never leaves its loop.  Nothing makes *)
(* the application start another frame, and the spinlock is not fair: a     *)
(* core waiting for it is only owed progress once it stays free.            *)
Fairness == WF_vars(Render \/ Run(0)) /\ WF_vars(Core1)

Spec == Init /\ [][Next]_vars /\ Fairness

-----------------------------------------------------------------------------
(* Properties *)

Drawing == {"clear", "opaque", "load", "store", "sweep2", "accumulate",
            "composite", "resolve"}
Claiming == {"lock", "read", "bump", "unlock"}
Outside == {"app", "clearFb", "setup", "publish", "reset", "wake"}

OnlyCore1 == {"off", "boot", "park", "signal"}
Statements == Claiming \cup Drawing \cup Outside \cup OnlyCore1 \cup {"join"}

(* Every control variable has its type, and the framebuffer has a value    *)
(* for each tile: what is stored in pixels is the subject of SerialOnJoin. *)
(* A core past the claim has a real tile, one that counts a drop has one.  *)
TypeOK ==
  /\ pc \in [Core -> Statements]
  /\ pc[0] \notin OnlyCore1 /\ pc[1] \notin Outside \cup {"join"}
  /\ scene.bins \in [Tile -> Seq(TriRef)]
  /\ scene.background \in [Tile -> [Px -> 0 .. 31]]
  /\ fb = [t \in Tile |-> fb[t]]
  /\ sFrame \in {"null", "frame"} /\ arg \in {"null", "frame"}
  /\ launched \in BOOLEAN
  /\ toCore1 \in Seq({"GO"}) /\ toCore0 \in Seq({"DONE"})
  /\ nextTile \in 0 .. NumTiles /\ lock \in Core \cup {Free}
  /\ tile \in [Core -> 0 .. NumTiles]
  /\ zbuf = [c \in Core |-> zbuf[c]] /\ cov = [c \in Core |-> cov[c]]
  /\ acc = [c \in Core |-> acc[c]] /\ xlu = [c \in Core |-> xlu[c]]
  /\ dropped \in Nat
  /\ dropLeft \in [Core -> Nat] /\ dropReg \in [Core -> Nat]
  /\ drawn \in [Tile -> Nat]
  /\ \A c \in Core : pc[c] \in Drawing \cup {"bump"} => tile[c] < NumTiles
  /\ \A c \in Core : pc[c] \in {"load", "store"} => dropLeft[c] > 0

(* A tile a core has claimed and not yet finished. *)
Owns(c, t) == /\ tile[c] = t /\ t \in Tile
              /\ pc[c] \in Drawing \cup {"unlock"}

(* The spinlock-guarded counter hands every tile to exactly one core: no   *)
(* tile is being drawn by both, and no drained tile is claimed again       *)
(* before the counter is reset.                                            *)
ClaimedOnce ==
  /\ \A t \in Tile : ~(Owns(0, t) /\ Owns(1, t))
  /\ \A t \in Tile : \A c \in Core : Owns(c, t) => drawn[t] = 0
  /\ \A t \in Tile : drawn[t] <= 1

(* The contract of dispatch.h: when sched_dispatch_tiles has returned and  *)
(* nothing has touched the Frame since, the framebuffer is bit-identical   *)
(* to the serial sweep, whichever core drew each tile and in whatever      *)
(* order.                                                                  *)
SerialOnJoin ==
  pc[0] = "app" /\ launched =>
    \A t \in Tile : fb[t] = SerialTile(scene.bins[t], scene.background[t])

(* While core 0 is outside the dispatch (building the next frame, clearing *)
(* the framebuffer, presenting) core 1 is parked with both FIFOs empty, so *)
(* it reads nothing core 0 writes; and it never drains through a Frame     *)
(* pointer that was not yet published.                                     *)
Core1Parked ==
  /\ pc[0] \in Outside => /\ pc[1] \in {"off", "boot", "park"}
                          /\ toCore1 = <<>> /\ toCore0 = <<>>
                          /\ lock = Free
  /\ pc[1] \in Claiming \cup Drawing => arg = "frame"

(* What raster.h:163 says of raster_xlu_dropped: the count of dropped      *)
(* triangles never goes down.                                              *)
DroppedMonotonic == [][dropped' >= dropped]_dropped

(* A core blocked in the drain never waits for good: every call of         *)
(* sched_dispatch_tiles returns.                                           *)
DispatchReturns == pc[0] = "wake" ~> pc[0] = "app"

(* The dual-core stage implements the serial one: seen from outside the    *)
(* call, a frame is cleared and then drawn in one step.                    *)
Serial == INSTANCE SerialRaster WITH
  DrawTile <- SerialTile,
  image <- IF pc[0] \in Outside THEN fb ELSE scene.background,
  phase <- CASE pc[0] = "app" -> "idle"
             [] pc[0] = "clearFb" -> "built"
             [] OTHER -> "cleared"

ImplementsSerial == Serial!Spec

-----------------------------------------------------------------------------
(* The inductive invariant behind the properties above, in four parts. *)

InDispatch == pc[0] \notin Outside
Asleep == pc[1] \in {"off", "boot", "park"}

(* Where the GO and DONE tokens are says what each core is doing: core 1   *)
(* works, or is about to, or has answered, exactly while core 0 is inside. *)
Handshake ==
  /\ launched <=> pc[1] # "off"
  /\ pc[0] \in {"publish", "reset", "wake"} \/ InDispatch => launched
  /\ pc[0] \in {"reset", "wake"} \/ InDispatch => sFrame = "frame"
  /\ ~InDispatch => Asleep /\ toCore1 = <<>> /\ toCore0 = <<>>
  /\ InDispatch => \/ toCore1 = <<"GO">> /\ toCore0 = <<>> /\ Asleep
                   \/ toCore1 = <<>> /\ toCore0 = <<>> /\ ~Asleep
                   \/ /\ toCore1 = <<>> /\ toCore0 = <<"DONE">>
                      /\ Asleep /\ nextTile = NumTiles
  /\ pc[1] \in Claiming \cup Drawing => arg = "frame"
  /\ pc[1] = "signal" \/ pc[0] = "join" => nextTile = NumTiles

(* The lock is held exactly around the counter's read and increment, and a *)
(* claimed tile lies below the counter.                                    *)
Claims ==
  /\ \A c \in Core : lock = c <=> pc[c] \in {"read", "bump", "unlock"}
  /\ \A c \in Core : pc[c] = "bump" => /\ tile[c] = nextTile
                                       /\ nextTile < NumTiles
  /\ \A c \in Core : pc[c] = "unlock" => \/ tile[c] < nextTile
                                         \/ tile[c] = NumTiles /\ nextTile = NumTiles
  /\ \A c \in Core : pc[c] \in Drawing => tile[c] < nextTile
  /\ pc[0] = "wake" => nextTile = 0

Owned(t) == \E c \in Core : Owns(c, t)

(* A tile below the counter is being drawn by one core or was drawn once; a *)
(* tile above it is untouched.                                              *)
Ledger ==
  /\ \A t \in Tile : ~(Owns(0, t) /\ Owns(1, t))
  /\ pc[0] = "wake" \/ InDispatch =>
       \A t \in Tile : drawn[t] = IF t < nextTile /\ ~Owned(t) THEN 1 ELSE 0
  /\ \A t \in Tile : drawn[t] <= 1

(* What is in a core's scratch and its tile's pixels before each stage. *)
StageHolds(c) ==
  LET bg == scene.background[tile[c]]
      s  == AfterOpaque(Bin(c), bg)
      a  == AfterXlu(Bin(c), bg)
      g  == XluGather(Bin(c))
      pixels == fb[tile[c]]
  IN  /\ pc[c] \in {"unlock", "clear", "opaque"} => pixels = bg
      /\ pc[c] = "opaque" => zbuf[c] = ZCleared /\ (AaOn => cov[c] = CovCleared)
      /\ pc[c] \in {"load", "store", "sweep2", "accumulate", "composite"} =>
           /\ pixels = s.fb /\ zbuf[c] = s.z /\ (AaOn => cov[c] = s.cov)
           /\ xlu[c] = g
      /\ pc[c] = "accumulate" => g # <<>> /\ acc[c] = AccClear
      /\ pc[c] = "composite" => g # <<>> /\ acc[c] = a
      /\ pc[c] = "resolve" =>
           /\ pixels = IF g = <<>> THEN s.fb ELSE CompositeFb(s.fb, a)
           /\ AaOn => cov[c] = IF g = <<>> THEN s.cov ELSE CompositeCov(s.cov, a)

Picture ==
  /\ pc[0] \in {"setup", "publish", "reset", "wake"} => fb = scene.background
  /\ InDispatch => \A t \in Tile :
       /\ drawn[t] = 1 =>
            fb[t] = SerialTile(scene.bins[t], scene.background[t])
       /\ drawn[t] = 0 /\ ~Owned(t) => fb[t] = scene.background[t]
  /\ \A c \in Core : tile[c] \in Tile /\ pc[c] \in Drawing \cup {"unlock"} =>
       StageHolds(c)
  /\ SerialOnJoin

IInv == TypeOK /\ Handshake /\ Claims /\ Ledger /\ Picture
=============================================================================
