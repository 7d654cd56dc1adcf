------------------------------ MODULE Profiler ------------------------------
(***************************************************************************)
(* The frame profiler of the pico-prof build: the blocks of prof.h, opened *)
(* and closed on both cores around the stages of a frame, the SysTick      *)
(* timer of prof_pico.cc that fine blocks share per core, and core 0       *)
(* clearing and folding both cores' rows (prof.cc).  What runs inside a    *)
(* block is time; the tiles are claimed and the cores meet as in           *)
(* TileDispatch, whose steps are taken together here.  A unit of time is   *)
(* one of every timer: the rounding of readings to microseconds, and of    *)
(* ticks to nanoseconds, is left out.                                      *)
(***************************************************************************)
EXTENDS Integers, SequencesExt

CONSTANTS
  ProfTiles,    \* GEOM_NUM_TILES
  Opaque,       \* per tile, opaque triangles of its bin
  SpanTicks,    \* the 24-bit span of SysTick: it counts down from it to 0
  Warmup,       \* PROF_WARMUP
  ProfFrames,   \* DEMO_FRAMES
  MaxTicks      \* bound: units of time a frame takes

ASSUME ProfAssumption ==
  /\ ProfTiles \in Nat /\ Opaque \in [0 .. ProfTiles - 1 -> Nat]
  /\ SpanTicks \in Nat \ {0} /\ Warmup \in Nat /\ ProfFrames \in Nat \ {0}
  /\ MaxTicks \in Nat

ProfCore == {0, 1}
Fine == {"aa_resolve", "opaque_setup", "opaque_fill"}
Anchor == {"none", "root", "cmdgen", "geom", "clear_blit", "raster_dispatch", "present",
           "raster_tile", "sweep_opaque", "sweep_xlu"} \cup Fine

-----------------------------------------------------------------------------
(* The instrumented code, as the blocks it enters and leaves. *)

Enters(a) == [op |-> "enter", a |-> a]
Does(op) == [op |-> op, a |-> "none"]
Block(a, body) == <<Enters(a)>> \o body \o <<Does("leave")>>

(* raster_tile with n opaque triangles that are kept. *)
TileCode(n) ==
  Block("raster_tile",
        Block("sweep_opaque",
              FlattenSeq([i \in 1 .. n |-> Block("opaque_setup", <<>>)
                                           \o Block("opaque_fill", <<>>)]))
        \o Block("sweep_xlu", <<>>)
        \o Block("aa_resolve", <<>>))

(* Slip: the block of the dispatch ends before the join. *)
FrameJoinsLate ==
  Block("root",
        Block("cmdgen", <<>>) \o Block("geom", <<>>) \o Block("clear_blit", <<>>)
        \o Block("raster_dispatch", <<Does("wake"), Does("drain")>>)
        \o <<Does("join")>>
        \o Block("present", <<>>))

(* main's frame, with rdr_end_frame and sched_dispatch_tiles. *)
FrameCode ==
  Block("root",
        Block("cmdgen", <<>>) \o Block("geom", <<>>) \o Block("clear_blit", <<>>)
        \o Block("raster_dispatch", <<Does("wake"), Does("drain"), Does("join")>>)
        \o Block("present", <<>>))

(* Slip: DONE is sent from inside the block. *)
Core1Inside == Block("raster_dispatch", <<Does("drain"), Does("done")>>)

(* A pass of dispatch_core1_main. *)
Core1Code == Block("raster_dispatch", <<Does("drain")>>) \o <<Does("done")>>

-----------------------------------------------------------------------------
VARIABLES
  phase,      \* core 0: "begin", "frame", "end" or "over"
  todo,       \* per core: what it still runs of its code
  stack,      \* per core: the open blocks, innermost first
  row,        \* g_prof[core].a
  parent,     \* g_prof[core].parent
  acc,        \* g_acc[core].a
  accFrames,  \* g_acc_frames
  frameNo,    \* main's frame counter
  clock,      \* the coarse clock, since the frame began
  systick,    \* per core: time since SysTick was reloaded
  tileNo,     \* s_next_tile
  go, done,   \* the tokens in the FIFOs
  self        \* no code: per core and block, time with it innermost

rows == <<row, parent, acc, accFrames>>
cores == <<todo, stack, tileNo, go, done>>
profVars == <<phase, rows, frameNo, clock, systick, cores, self>>

NoTime == [a \in Anchor |-> 0]
Blank == [excl |-> 0, incl |-> 0, hits |-> 0, wrapped |-> FALSE]
BlankRow == [a \in Anchor |-> Blank]

ProfInit ==
  /\ phase = "begin"
  /\ todo = [c \in ProfCore |-> <<>>] /\ stack = [c \in ProfCore |-> <<>>]
  /\ row = [c \in ProfCore |-> BlankRow] /\ parent = [c \in ProfCore |-> "none"]
  /\ acc = [c \in ProfCore |-> BlankRow] /\ accFrames = 0
  /\ frameNo = 0 /\ clock = 0 /\ systick = [c \in ProfCore |-> 0]
  /\ tileNo = 0 /\ go = FALSE /\ done = FALSE
  /\ self = [c \in ProfCore |-> NoTime]

(* prof_frame_begin: core 0 clears the rows of both cores. *)
FrameBegin ==
  /\ phase = "begin"
  /\ row' = [c \in ProfCore |-> BlankRow] /\ parent' = [c \in ProfCore |-> "none"]
  /\ clock' = 0 /\ self' = [c \in ProfCore |-> NoTime]
  /\ todo' = [todo EXCEPT ![0] = FrameCode]
  /\ phase' = "frame"
  /\ UNCHANGED <<acc, accFrames, frameNo, systick, stack, tileNo, go, done>>

Next1(c, op) == phase = "frame" /\ todo[c] # <<>> /\ Head(todo[c]).op = op

(* The constructor of ProfileBlock. A fine one restarts the core's SysTick. *)
Enter(c) ==
  /\ Next1(c, "enter")
  /\ LET a == Head(todo[c]).a
     IN  /\ stack' = [stack EXCEPT ![c] =
                        <<[a |-> a, parent |-> parent[c], old |-> row[c][a].incl,
                           start |-> clock]>> \o @]
         /\ parent' = [parent EXCEPT ![c] = a]
         /\ systick' = IF a \in Fine THEN [systick EXCEPT ![c] = 0] ELSE systick
  /\ todo' = [todo EXCEPT ![c] = Tail(@)]
  /\ UNCHANGED <<phase, row, acc, accFrames, frameNo, clock, tileNo, go, done, self>>

(* SysTick reloads after 0 and sets COUNTFLAG there: a fine block reads the *)
(* time modulo the span, and the flag if it ran that long.                 *)
FineElapsed(t) == t % (SpanTicks + 1)
CountFlag(t) == t >= SpanTicks

Charge(r, b, elapsed, flag) ==
  LET out == [r EXCEPT ![b.parent].excl = @ - elapsed]
  IN  [out EXCEPT ![b.a] = [excl |-> @.excl + elapsed, incl |-> b.old + elapsed,
                            hits |-> @.hits + 1, wrapped |-> @.wrapped \/ flag]]

(* Its destructor. *)
Leave(c) ==
  /\ Next1(c, "leave")
  /\ LET b == Head(stack[c])
         fine == b.a \in Fine
         elapsed == IF fine THEN FineElapsed(systick[c]) ELSE clock - b.start
     IN  /\ row' = [row EXCEPT ![c] =
                      Charge(@, b, elapsed, fine /\ CountFlag(systick[c]))]
         /\ parent' = [parent EXCEPT ![c] = b.parent]
  /\ stack' = [stack EXCEPT ![c] = Tail(@)]
  /\ todo' = [todo EXCEPT ![c] = Tail(@)]
  /\ UNCHANGED <<phase, acc, accFrames, frameNo, clock, systick, tileNo, go, done, self>>

-----------------------------------------------------------------------------
(* The dispatch *)

Wake ==
  /\ Next1(0, "wake")
  /\ tileNo' = 0 /\ go' = TRUE
  /\ todo' = [todo EXCEPT ![0] = Tail(@)]
  /\ UNCHANGED <<phase, rows, frameNo, clock, systick, stack, done, self>>

Drain(c) ==
  /\ Next1(c, "drain")
  /\ \/ /\ tileNo < ProfTiles
        /\ tileNo' = tileNo + 1
        /\ todo' = [todo EXCEPT ![c] = TileCode(Opaque[tileNo]) \o @]
     \/ /\ tileNo = ProfTiles
        /\ todo' = [todo EXCEPT ![c] = Tail(@)]
        /\ UNCHANGED tileNo
  /\ UNCHANGED <<phase, rows, frameNo, clock, systick, stack, go, done, self>>

Join ==
  /\ Next1(0, "join") /\ done
  /\ done' = FALSE
  /\ todo' = [todo EXCEPT ![0] = Tail(@)]
  /\ UNCHANGED <<phase, rows, frameNo, clock, systick, stack, tileNo, go, self>>

(* Core 1 takes the token and signals whatever core 0 is doing. *)
Unpark ==
  /\ go /\ todo[1] = <<>>
  /\ go' = FALSE
  /\ todo' = [todo EXCEPT ![1] = Core1Code]
  /\ UNCHANGED <<phase, rows, frameNo, clock, systick, stack, tileNo, done, self>>

Done ==
  /\ todo[1] # <<>> /\ Head(todo[1]).op = "done"
  /\ done' = TRUE
  /\ todo' = [todo EXCEPT ![1] = Tail(@)]
  /\ UNCHANGED <<phase, rows, frameNo, clock, systick, stack, tileNo, go, self>>

-----------------------------------------------------------------------------
FrameOver ==
  /\ phase = "frame" /\ todo[0] = <<>>
  /\ phase' = "end"
  /\ UNCHANGED <<rows, frameNo, clock, systick, cores, self>>

Summed(x, y) == [excl |-> x.excl + y.excl, incl |-> x.incl + y.incl,
                 hits |-> x.hits + y.hits, wrapped |-> x.wrapped \/ y.wrapped]

(* prof_frame_end: core 0 folds both rows, but not those of the warm-up. *)
FrameEnd ==
  /\ phase = "end"
  /\ IF frameNo < Warmup THEN UNCHANGED <<acc, accFrames>>
     ELSE /\ acc' = [c \in ProfCore |-> [a \in Anchor |-> Summed(acc[c][a], row[c][a])]]
          /\ accFrames' = accFrames + 1
  /\ frameNo' = frameNo + 1
  /\ phase' = IF frameNo' >= ProfFrames THEN "over" ELSE "begin"
  /\ UNCHANGED <<row, parent, clock, systick, cores, self>>

(* A unit of time, on both cores. *)
ProfTick ==
  /\ phase = "frame" /\ clock < MaxTicks
  /\ clock' = clock + 1
  /\ systick' = [c \in ProfCore |-> systick[c] + 1]
  /\ self' = [c \in ProfCore |->
                IF stack[c] = <<>> THEN self[c]
                ELSE [self[c] EXCEPT ![Head(stack[c]).a] = @ + 1]]
  /\ UNCHANGED <<phase, rows, frameNo, cores>>

(* The report is out and the device in its boot loader; the host flashes   *)
(* it again.                                                               *)
Reflash ==
  /\ phase = "over"
  /\ phase' = "begin" /\ frameNo' = 0 /\ clock' = 0
  /\ row' = [c \in ProfCore |-> BlankRow] /\ parent' = [c \in ProfCore |-> "none"]
  /\ acc' = [c \in ProfCore |-> BlankRow] /\ accFrames' = 0
  /\ systick' = [c \in ProfCore |-> 0] /\ self' = [c \in ProfCore |-> NoTime]
  /\ tileNo' = 0
  /\ UNCHANGED <<todo, stack, go, done>>

ProfNext ==
  \/ FrameBegin \/ FrameOver \/ FrameEnd \/ ProfTick
  \/ Wake \/ Join \/ Unpark \/ Done
  \/ \E c \in ProfCore : Enter(c) \/ Leave(c) \/ Drain(c)
  \/ Reflash

-----------------------------------------------------------------------------
(* Properties *)

AnchorRow == [Anchor -> [excl : Int, incl : Nat, hits : Nat, wrapped : BOOLEAN]]

ProfTypeOK ==
  /\ phase \in {"begin", "frame", "end", "over"}
  /\ row \in [ProfCore -> AnchorRow] /\ acc \in [ProfCore -> AnchorRow]
  /\ parent \in [ProfCore -> Anchor]
  /\ accFrames \in 0 .. ProfFrames /\ frameNo \in 0 .. ProfFrames
  /\ clock \in 0 .. MaxTicks /\ systick \in [ProfCore -> Nat]
  /\ tileNo \in 0 .. ProfTiles /\ go \in BOOLEAN /\ done \in BOOLEAN
  /\ self \in [ProfCore -> [Anchor -> Nat]]

(* The block around a block; that of the dispatch is so on core 0 only. *)
Around ==
  [a \in Anchor |->
     IF a \in {"none", "root"} THEN "none"
     ELSE IF a = "raster_tile" THEN "raster_dispatch"
     ELSE IF a \in {"sweep_opaque", "sweep_xlu", "aa_resolve"} THEN "raster_tile"
     ELSE IF a \in {"opaque_setup", "opaque_fill"} THEN "sweep_opaque"
     ELSE "root"]

(* The time a core spent in a block and in those inside it. *)
TimeIn(c) ==
  LET t == self[c]
      opaque == t["sweep_opaque"] + t["opaque_setup"] + t["opaque_fill"]
      tile == t["raster_tile"] + opaque + t["sweep_xlu"] + t["aa_resolve"]
      dispatch == t["raster_dispatch"] + tile
  IN  [t EXCEPT !["sweep_opaque"] = opaque, !["raster_tile"] = tile,
                !["raster_dispatch"] = dispatch,
                !["root"] = @ + t["cmdgen"] + t["geom"] + t["clear_blit"] + dispatch
                              + t["present"]]

(* prof.h:172 and the merge model of prof.cc: at the end of a frame the row *)
(* of each core holds, for every block however often it ran, the time      *)
(* spent in it and the time spent in it and in no inner one.  A fine block *)
(* that outran its timer says so, and spoils no time but its own and what  *)
(* is left to the block right around it.  Core 1 leaves its last block     *)
(* before core 0 reads its row.                                            *)
TrueTimes ==
  phase = "end" =>
    \A c \in ProfCore : \A a \in Anchor \ (IF c = 0 THEN {"none"} ELSE {"none", "root"}) :
      /\ row[c][a].wrapped \/ row[c][a].incl = TimeIn(c)[a]
      /\ \/ \E b \in Anchor : (b = a \/ Around[b] = a) /\ row[c][b].wrapped
         \/ row[c][a].excl = self[c][a]

(* prof.cc:9-17: each tile is counted once, on one core; core 0's span of   *)
(* the dispatch contains the tiles of both, so that no share of it is over *)
(* 100 % and what is left of it is idle time and no less than none.  The   *)
(* report is of every frame but those of the warm-up.                      *)
DispatchHoldsTiles ==
  /\ phase = "end" =>
       /\ row[0]["raster_tile"].hits + row[1]["raster_tile"].hits = ProfTiles
       /\ \A c \in ProfCore :
            row[c]["raster_tile"].incl <= row[0]["raster_dispatch"].incl
       /\ row[0]["raster_dispatch"].excl >= 0
  /\ phase = "over" =>
       /\ accFrames = IF ProfFrames > Warmup THEN ProfFrames - Warmup ELSE 0
       /\ acc[0]["raster_tile"].hits + acc[1]["raster_tile"].hits = accFrames * ProfTiles
=============================================================================
