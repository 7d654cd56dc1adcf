# Verification of pico-renderer

pico-renderer is a software 3D renderer in the style of the N64: a command
buffer is walked on one core, its triangles are transformed and binned into
screen tiles, and the tiles are rasterized into a framebuffer that a panel
scans out. It runs on a desktop (single-threaded) and on a PicoSystem: an RP2040 with
two Cortex-M0+ cores, an inter-core FIFO, hardware spinlocks and a DMA-driven ST7789
panel.

This directory holds TLA+ modules for the parts of it that keep state and can
go wrong across steps, TLC configurations that check them on small instances,
and TLAPS proofs for every value of their constants. Paths below are relative to
the repository (`src/...` is the implementation, `docs/...` its documents).

To check: `tlc -config X.cfg M` for each row of [Runs](#runs), and `tlapm M.tla` for
the `*Proof` modules.

## 1. Inventory

A frame is: `rdr_begin_frame` → `rdr_submit` (geometry: commands → bins) →
`rdr_end_frame` (raster: bins → framebuffer) → `plat_present` (framebuffer →
panel). All state of a frame is one static `Frame` (`src/rdr/frame.h`).

| Component | State | Operations | Interacts with |
|---|---|---|---|
| **sched** `src/sched/dispatch_pico.cc`, `dispatch_host.cc`, `drain.h` | `s_frame`, `s_next_tile`, `s_tile_lock`, `s_core1_launched`, two hardware FIFOs, a program counter per core | `sched_dispatch_tiles`, `dispatch_core1_main`, `dispatch_run`, `dispatch_claim_tile`, `sched_drain_tile` | called by rdr on core 0; both cores call raster |
| **raster** `src/raster/` | per worker: depth, coverage, translucent accumulators; shared: `s_xlu_dropped` | `raster_tile`: clear, opaque sweep, translucent gather and sort, accumulate, composite, coverage resolve | reads bins, vertices and material table; uses aa, blend, shade, tex |
| **aa**, **blend** | none | `aa_resolve_tile`; premultiplied accumulate and resolve, `blend_pixel`, `fog_lerp` | called by raster |
| **geom: binning** `src/geom/geom.cc` 358–500 | `GeomOut`: job buffer, per-tile `count`, `cap`, `refs`, `dropped`, the shared pool | `geom_out_init`, `geom_bin_tri`, `geom_bin_finalize` | written by the front end, read by raster on both cores |
| **geom: front end** `src/geom/geom.cc` | `MtxStack` with a cached product, `GeomCtx`, `TVtx` pool, render state, interned material table | `geom_run`, `geom_visit` (one case per command), `geom_draw_one`, `geom_emit_tri`, `geom_material_intern`, `mtx_*` | called back by cmd's walker; uses clip, tex, fixed |
| **rdr** `src/rdr/rdr.cc` | the `Frame` | `rdr_begin_frame`, `rdr_submit`, `rdr_end_frame` | the facade the demo calls |
| **cmd** `src/cmd/` | `CmdBuf` (commands, count of dropped ones); a walk's cursor and return stack of 16 | `cb_reset`, `cb_push`, `cb_walk` | filled by the demo, calls back `geom_visit` |
| **clip** `src/clip/` | none | `clip_poly_rect`: four passes against the guard band | called by geom |
| **display scanout** `src/platform/scanrace.cc`, `platform_pico.cc` 240–360 | `s_committed_rows`, a `ScanRace`, the TE line, the DMA channel | `plat_present`, `plat_present_watermark`, `scanrace_*` | reads the framebuffer while a producer may still write it |
| **input and audio** `platform_pico.cc` 354–470 | previous buttons, `s_audio_stop_ms`, the PWM level | `plat_poll_input`, `plat_audio` | both main loops |
| **watchdog and reset** `reset_stub_pico.cc` | hardware watchdog | arm, kick, reset to bootloader | demo main loop |
| **prof** `src/prof/` | a row of counters per core, accumulated rows, a SysTick per core | `ProfileBlock` constructor and destructor, `prof_frame_begin`, `prof_frame_end` | zeroed and folded by core 0, written by both |
| **demo** `src/demo/main.cc`, `demo_scene.cc` | camera, scroll phase, frame number | build a frame, submit, present, advance | everything |
| **app**, **game** | menu state, object, random seed, pending cue | the 2D template with its own main loop; not linked with the demo | platform |
| **tex**, **fixed**, **shade**, **blit2d**, **gfx** | none | arithmetic and bounded copies | raster, geom, rdr, app |
| **arena** | a bump pointer | init, alloc, reset | initialised every frame, otherwise unused |
| **SDL host** `platform_sdl.cc`, `display_host.cc` | a window | window and event I/O | main loop |

### What is hard here, and what correct means

*Dual-core drain.* Two cores claim tiles from a shared counter, reuse one scratch
buffer each for every tile, and signal through tokens in a FIFO. Correct means:
no tile drawn twice or by both; the returned framebuffer is bit-identical to the
serial sweep whatever the interleaving (the contract of `dispatch.h`); core 1
reads nothing while core 0 writes the frame; the call returns.

*Binning.* Triangles are buffered, demand is tallied per tile, one shared pool is
cut into segments, and the buffered triangles are replayed. The same field is a
tally in one pass and a cursor in the next, the pool can run out in the middle of
a tile, and picture order is bin order. Correct means: every bin is a prefix of
emission order, segments are disjoint, whatever is lost is counted.

*Front end.* Vertices are resolved when loaded, render state when drawn, culling
at the draw, and materials through a cache that is invalidated lazily. Every table
has a limit. Correct means: what is shown is what immediate mode would show, or
a counter says otherwise, and jobs never point outside what was pooled.

*Command walk.* A frame's stream calls retained display lists, which call and
branch to others. The buffer drops commands when it is full, the END that stops
the walk included, and every caller ignores it. Correct means: the visitor sees
each called list in place of its call, nesting is bounded, the walk returns, and
a walk that runs off its stream does so only after a counted loss.

*Triangles.* A pixel centre on the edge of two triangles must belong to one of
them, whatever their winding; the interpolated values come from steppers that must
move at every pixel, through negative numerators, and restart in every tile; two
modules decide, each in its own way, which pixels belong to which tile. Correct
means: no centre of a mesh is drawn twice or left out, the values are those of the
division the steppers replace, and the tiles together draw the picture.

*Scanout.* `plat_present` chases a watermark another thread of control advances;
its value 0 has two meanings. Correct means: no row is streamed before it is
rendered, all of them are streamed, from this frame, and the call returns even
when the panel never signals.

*Main loops.* The demo feeds a watchdog at the top of each pass, polls buttons for
edges, draws from camera state that it advances afterwards, and leaves by the boot loader.
Correct means: no reset but of a pass that took the period, no hang that is not
reset; a press toggles once however long it is held, and shows in the next picture; a picture can be told from
the frame number it is logged under as far as it is a function of it (the scroll always is, the
scripted pose until the camera is flown). The template hands cues to a beeper with a wrapping deadline. Correct means: the
tone ends when its time is over.

*Profiler.* Nested blocks subtract their time from the block around them, on two
cores, with a timer that wraps for the fine ones, and core 0 zeroes and reads core 1's row.
Correct means: at the end of a frame every sum is the time spent, or is marked.

*Leaf functions.* Projection, clipping, texel addresses, blending and blits carry
numeric edges rather than orderings: rounding, saturation, negative operands of `/` and
`&`, bounds of buffers and screens.

`PROJECT.json` lists all of these under "hazards", each at its line.

## 2. Modules

| Module | Models | Composes |
|---|---|---|
| `Blend` | `blend.cc` on a channel of a packed colour | – |
| `TileRaster` | `raster_tile` as operators, one per stage, on a row of pixels and one colour channel | `Blend` |
| `SerialRaster` | the promise of `sched_dispatch_tiles`, and the host build: clear, then draw the frame | – |
| `TileDispatch` | `dispatch_pico.cc`, a step per shared access, the drain by stages | `TileRaster`; refines `SerialRaster` |
| `Binning` | `geom_out_init`, `geom_bin_tri`, `geom_bin_finalize` | – |
| `Geometry` | the data of the front end: products, vertices, culling, render state | – |
| `ImmediateMode` | the promise of the front end, without pools, tables, caches or bins | `Geometry` |
| `FrontEnd` | `geom_run`, `geom_visit` and everything they call | `Geometry`, `Binning`; refines `ImmediateMode` |
| `CmdWalk` | `cmd.cc`: recording into a `CmdBuf` and walking it | – |
| `TriRaster` | `tri_setup`, the pixel loops of `raster_one`, `interp.h`, and the tiles of `geom_tri_tile_span` | – |
| `Present` | `plat_present`, `plat_present_watermark`, `scanrace.cc`, and a producer | – |
| `Platform` | buttons, clock, beeper and watchdog of the device | – |
| `DemoLoop` | `demo/main.cc` with camera and scroll | `Platform` |
| `TemplateLoop` | `main_pico.cc` with `app.cc` | `Platform` |
| `Profiler` | `prof.h`, `prof.cc`, `prof_pico.cc` over a frame on two cores | – |
| `Powers`, `Fixed`, `Clip`, `Texture`, `Blit` | shifts and masks of words; the arithmetic of `fixed.cc` and the projection; `clip.cc`; `tex.cc`; `gfx/blit.cc` and `blit2d.cc` | `Fixed` and `Texture` use `Powers`, `Clip` and `Blit` use `Fixed` |
| `Kernels` | those leaf functions given inputs, and what they promise | `Clip`, `Texture`, `Blend`, `Blit` |
| `Firmware` | the four programs of the build | `DemoLoop`, `TemplateLoop`, `Profiler`, `Kernels` |
| `*Proof` | proofs about the module of that name (`FirmwareProof` with those about `Kernels`) | it, and the library's theorems |
| `MC*` | constants of the runs | |

### TileRaster, TileDispatch, SerialRaster

`pc[c]` names the statement core `c` runs next. Every access to shared memory (the
counter, the lock, the frame pointer, a FIFO, `s_xlu_dropped`) is a step of its
own. A stage of the drain (`ClearScratch`, `SweepOpaque`, `ClearAccumulator`,
`SweepXlu`, `Composite`, `Resolve`) is one step: all it writes is the worker's own
scratch and the pixels of its own tile, which is itself checked (`ClaimedOnce`).

| Code | Model |
|---|---|
| `rdr_begin_frame`, `rdr_submit` | `BuildFrame` picks the scene (bins and background) |
| fill and 2D blits of `rdr_end_frame` | `ClearFb` |
| launch once, publish, reset, push GO | `LaunchCore1`/`ReuseCore1`, `PublishFrame`, `ResetCounter`, `WakeCore1` |
| `dispatch_claim_tile` | `Acquire`, `ReadCounter`, `BumpCounter`, `Release` |
| the pop loop at the end | `Join`, which returns on DONE |
| `dispatch_core1_main` | `EnableSysTick`, `PopWake`, `SignalDone` |
| `++s_xlu_dropped` | `LoadDropped`, `StoreDropped` |

Triangles are reduced to what the stages tell apart: the pixels covered, one
depth, a sort key, a 5-bit colour, 8-bit alpha and coverage, the depth mode.
Triangle setup, the edge walk, interpolation, texturing and the combiner
only decide those values. Arithmetic on colour, alpha and coverage keeps the
code's widths, shifts and rounding.

*Memory order.* `s_frame`, `s_next_tile` and the frame contents are plain or
`volatile`; the model is sequentially consistent. The code's ground for it is
that the SDK's spinlock and FIFO primitives contain the barriers, and that every
access to what they protect is inside them. The one access outside any of them is
`++s_xlu_dropped`, and it is split in two.

`SerialRaster` keeps an `image` and a `phase`. Its `Rasterize` paints every tile in one
step. The refinement mapping hides the framebuffer while the dispatch is
under way, so that the step it maps to `Rasterize` is the `Join` that finds DONE.

### Binning

A triangle is the set of tiles of its bounding box, `SpanOf`. One action per
`geom_bin_tri` (with its two outcomes) and one per iteration of either pass of
`geom_bin_finalize`. `count[t]` is the demand before `Segment` and the write
cursor after it, as in the code; `refs[t]` is an offset instead of a pointer. The
pool keeps what earlier frames left in it.

### Geometry, FrontEnd, ImmediateMode

`FrontEnd` has one action per command: `LoadMatrix`, `PushMatrix`, `PopMatrix`,
`SetProjection`, `SetRenderState` (all the setters that mark the material dirty),
`SetViewport`, `Clear`, `LoadVerts`, `LoadVertsRelative`, `BranchLessZ`, `DrawTri`; `EmitPiece` is one
turn of the loop over a clipped triangle's fan. `Intern` is `geom_material_intern` and is
part of the draw. Bins are `Binning`'s variables and actions (`B!BinTri`,
`B!Segment`, ...), so the vertices and material ids in the job buffer go
through the real packing.

A product of matrices is the pair of its factors: the cache in `MtxStack.mvp` is
right when it is the pair on the stacks, and stale when it is not. `Screen` says
where a vertex lands under a product and a viewport, and whether it is behind the near
plane or inside the guard band. Culling compares what the code compares: the sign of the
area of the vertices *as they were loaded* with the sign of the modelview in force *at
the draw* (`Area2`, `DetSign`, `Culled`); a matrix of the run mirrors, so the two may
disagree. The commands come in any
order: that covers every `CALL_LIST`, `RETURN` and `BRANCH_LESS_Z`, and an error
of `cb_walk`, which ends the walk as `END` does.

`ImmediateMode` knows a stack, a render state, the loaded window and the list
of triangles shown. A triangle drawn is shown as its vertices were when loaded and
with the state when drawn, or replaced by the pieces of its clipping. It is
counted as rejected only if it is not drawable (a vertex is behind or outside the
loaded window), faces away, is clipped to nothing, or if the frame is full of triangles or of vertices.
It has no pool, but knows how many vertices the frame has `used` (which maps to `tvert_count`): a
window is cut short, and a piece of a clipped triangle lost, only where the room `VertexCap` ends,
and then all of it is used. Draws beyond a window cut short are rejected and counted. One more escape is
written into it because the code has it and counts it: a material table that is full (`recoloured`, which
maps to `s_material_overflow > 0`). The mapping looks vertices and materials up through
the jobs' indices, so a table entry reused too early shows as a change of
`shown`.

### CmdWalk

`buf` is the recorded stream. `Record` is the demo's `push`, which ignores what
`cb_push` returns; `Submit` pushes the END and enters `cb_walk`. One action per
case of its loop: `CallList`, `BranchLessZ`, `Leave` (RETURN and END are one case in the
code), `Visit`; each holds its early returns. A pointer to a command is a list and
a position in it. Retained lists are constants, assumed to end with END or RETURN, as
the caller's side of the contract. Fetching past what was recorded is `RunOff`: what
the program then does depends on what an earlier frame left in the buffer, so the
model ends the walk there with the result `lost`. The predicate of BRANCH_LESS_Z belongs to
the visitor and is a choice.

`Runs` defines replay without a stack, by recursion on the nesting depth: all the
sequences of visited commands a position may give, each with its result.
`ReplaysInPlace` compares every finished walk with it.

### TriRaster

The level below `TileRaster`: it draws a mesh tile by tile and records, per pixel,
the triangles that reached it and the value interpolated there. `Skip` and
`TriSetup` are the outcomes of `tri_setup` in a tile's bin; `BeginRow`, `Step`,
`EndRow` and `EndTri` are the two loops. `ip` is a `struct Interp` with its quotient and remainder
pairs as records. The code runs up to seven steppers side by side, each on one
attribute and all moved at the same places; the model has one. `raster_one_xlu` has the same
setup and loops. Depth and alpha tests come after the stepper and are
`TileRaster`'s.

Coordinates are in units of 1/`Sub` pixel (16 in the code). Integers are unbounded: the guard
band of `clip.h` (coordinates of -480 to 720 pixels, times 16) keeps
`edge_eval`, `area2` and twice a remainder below 2^31.

### Present

`Call` to `Return` is `plat_present`: the TE wait with its 100 ms deadline
(`WaitFall`, `WaitRise`, `Deadline`), the reading of the watermark (`ReadFirst`), the
chase loop (`Chase`), a DMA burst row by row (`StreamRow`, `DmaFinished`) and the reset. The `ScanRace` operators are those
of `scanrace.cc`. `plat_present_watermark` is a load and a store. No code in the repository
publishes watermarks yet; the producer follows what `display.h` asks of it: it
renders top to bottom and publishes each finished band. Only the reset follows the code: `plat_present`
resets the watermark at its end (`Return`), where `display.h` says at the start of the next call. A frame in mode
"complete" publishes nothing and is presented when it is rendered, which is what
`src/demo/main.cc` does.

### Platform, DemoLoop, TemplateLoop

`pc` names the statement of `main`'s loop that runs next. The stages of a demo frame are
those the modules above model; here they take time, may hang (`Hang`), and two of
them read the camera (`Build`, `FillBlits`). `Advance` is the end of a pass: camera, scroll,
frame number, and the decision to leave after `DEMO_FRAMES`. `ChipReset` is a reset by the
watchdog, or by the host that flashes a device waiting in its boot loader: RAM, PWM and watchdog start
afresh, fingers stay where they are. `DemoTick` is a unit of time, and bites when the
period is used up. `WatchdogMs` exceeds `WatchdogMax` in the run, so the clamp of
`plat_watchdog_arm` counts.

Fingers move (`Press`, `Release`) before a poll, any number of times; `fresh` and `lifted`
record what the user would say happened. `PlatAudio` adds on the clock's width, and the
value 0 of the sum means "no tone" to `SilenceWhenDue`, as in the code. The eye of
free flight is a vector of steps, each coordinate modulo a range; its float arithmetic is
left out.

### Profiler

The instrumented code is a sequence of blocks to enter and leave (`FrameCode`, `TileCode`,
`Core1Code`), which each core works off with `Enter` and `Leave`; these are the
constructor and the destructor of `ProfileBlock`, each with the row, the parent and the
timer it touches. Time passes between any two steps and is charged by the model to the
innermost block of each core (`self`), which is what the rows are compared with. A unit of time is one
of both timers: that a coarse block reads whole microseconds, and a fine one is converted from ticks, each
rounded down, is left out. The FIFO
handshake of the dispatch is one step each way: its interleavings are `TileDispatch`'s, and only where
the blocks stand relative to it matters here.

### Fixed, Clip, Texture, Blend, Blit, Kernels

These are functions, so a state of `Kernels` is an input with what is computed of it:
`given` is the function and its arguments, chosen as the host's unit tests do but over
whole sets of boundary values; loops that a property looks into (the four passes of the
clipper, the fragments over a pixel) take a step per turn. Words have `2 * Frac` bits,
conversions to them wrap; `Frac` is 6 in the run so that saturation and wrap are
near. Shifts and `&` are defined by recursion on the bits of a word (`Pow2`, `LowAnd`), so that
masks of negative coordinates are computed, and powers can be reasoned about.

### Firmware

The build makes programs that share the platform but not a process; `image` is the one
that was flashed, and each step is one of its program. It lets one run check main
loops, profiler and leaf functions, and states which variables belong to which.

## 3. Runs

| Run | Question | Bounds | Distinct states |
|---|---|---|---|
| `dispatch` (`TileDispatch.cfg`) | Does the dual-core stage draw the serial picture, hand each tile out once, leave core 1 parked, and return? | 3 tiles of 2 pixels, 3 scenes, translucent capacity 2, anti-aliasing on | 238,846 |
| `xlu_drop_race` (`XluDropRace.cfg`) | Is the count of dropped triangles monotonic, as `raster.h:163` says? **No.** | 2 tiles, 3 drops | violation |
| `present` (`Present.cfg`) | Is nothing streamed early, everything streamed, and does the call return? | 7 rows, bands of 2 | 1,010 |
| `present_early` (`PresentEarly.cfg`) | And if a banded frame is presented before its first band? **Rows that are not rendered are streamed.** | the same | violation |
| `binning` (`Binning.cfg`) | Are the bins ordered, disjoint, and the losses counted? | 3 tiles, 5 spans, 3 jobs, 5 pool slots, 1 refusal | 2,104,632 |
| `front_end` (`FrontEnd.cfg`) | Does the front end implement immediate mode? | 2 tiles, 6 commands, 9 vertices, 2 materials, 2 jobs, 3 pool slots, stack of 2, 3 culling modes | 3,904,861 |
| `front_end_twice` (`FrontEndTwice.cfg`) | And with two submits in one frame? **Triangles of the first change material.** | 5 commands, 2 submits | violation |
| `cmd_walk` (`CmdWalk.cfg`) | Is a walk the recursive replay of its stream, does it return, and is every loss counted? | buffer of 3, up to 3 commands before END, 4 lists, nesting 2 | 38,658 |
| `tri_raster` (`TriRaster.cfg`) | Do the tiles draw the mesh, once a centre, with the divided values? | 4 tiles of 2 by 2 pixels, 4 subpixels, quads over 7 points | 15,045 |
| `sliver_gap` (`SliverGap.cfg`) | And when one triangle of the quad is at most half a pixel? **A centre on the shared edge is drawn by neither.** | the same, 6 points | violation |
| `main_loop` (`Firmware.cfg`) | Do the demo, the template, the profiled demo and the leaf functions keep what is said of them in [section 1](#what-is-hard-here-and-what-correct-means)? | see below | 1,251,073: demo 41,004, template 203,192, profiler 764,649, leaf functions 242,114 |
| `clip_rounding` (`ClipRounding.cfg`) | Is a cut the nearest point, as `clip.cc:14` says? **Not where an edge enters the kept side.** | the same, leaf functions only | violation |

Why the bounds suffice for what is asked:

- *dispatch*: with 3 tiles one core draws two tiles in sequence while the other
  draws one, or one core draws all; both orders of every neighbouring pair occur,
  and the scratch of one tile is used for another. The scenes differ in what a stale scratch would show: near after far,
  translucent after opaque, edge coverage after full. `XluCap` is below the
  number of translucent triangles of a tile, so the gather overflows. Frames follow
  one another without a bound; `MaxDropped` only stops frames that would drop more.
- *binning*: 3 jobs over up to 3 tiles demand up to 9 slots of 5, so the cut
  falls inside the first, the second or the last tile, on a boundary or
  exactly at the end; a fourth triangle meets the full buffer; frames repeat.
- *front_end*: windows of three and four vertices: three short ones fill the pool of nine
  exactly, a longer one is cut short, and the pieces of a clipping meet its end; one matrix
  mirrors and one of two triples is wound the other way, so each culling mode keeps and drops
  faces of either kind; three render states meet a table of two; a matrix
  stack of two is over- and underflowed; three jobs meet a buffer of two.
  `MaxCommands` bounds all frames together.
- *cmd_walk*: the lists nest one level, branch at their end, call themselves
  and hold a null call, so a nesting limit of 2 is met exactly and exceeded; a third
  command fills the buffer and loses the END. No list branches backwards: such a walk
  lasts as long as the visitor says so, and `WalkReturns` would be about geometry.
- *present*: 7 rows are not a multiple of the band, so the last band is short
  and the burst sizes differ.
- *tri_raster*: the points lie on pixel centres, between them and off the screen on
  three sides, so that shared edges pass through centres horizontally, vertically and
  diagonally, triangles span one to four tiles, and both windings of every
  quad occur; attributes have both signs, and the steps of the numerator too.

- *main_loop, demo*: a watchdog of 4 units against a request for 5; 4 frames to the
  exit over a path of 3 poses, so that the scripted path wraps; a scroll step of 3 modulo 4 and
  an eye of 3 steps wrap too; three buttons, one of them the toggle.
- *main_loop, template*: a clock of 8 values against tones of 2 and 3, so that every phase of a wrap
  occurs, an end of exactly 0 included; the object has positions 0 to 2.
- *main_loop, profiler*: 2 tiles, one with an opaque triangle, claimed by either core; 2
  frames of which the first is warm-up; a fine timer that wraps after one unit in a frame of
  `MaxTicks` = 2 units.
- *main_loop, leaf functions*: the sets in `MCFirmware` lie on both sides of every
  comparison of the code; `MaxFragments` = 3 fragments over a pixel, with alphas around 0, the
  middle and the saturation at 255.

Deadlock is checked in every run: the application can always start another frame.

### Fairness

`TileDispatch` is weakly fair to each core: a core executes its next instruction if
it stays executable. Nothing is assumed about the spinlock: a core that spins is
owed progress only once the lock *stays* free, so `DispatchReturns` also shows that
the other core cannot keep it away for good (it runs out of tiles). No fairness for
starting frames. `Present` is weakly fair to `plat_present`, to the producer
(another core that has nothing to wait for), and to the passing of time
(`Deadline`), but not to the TE line: a dead panel is a behaviour of the model. `platform_pico.cc:306`
calls the wait for TE "the only unbounded loop in the present path"; bounded as it now is, the chase
(326–336) is the one that is left, and it ends only because the producer does. That is why
`PresentReturns` needs the fairness of the producer, and no bound in the code stands in for it.
`CmdWalk` is weakly fair to the steps of a walk: `cb_walk` is a plain loop. `Firmware` is
weakly fair to the demo's loop and to time, which pass whatever else happens; not to
fingers, to hanging, or to the host that flashes. `NeverWedged` rests on time alone where a stage
hangs: then only the watchdog moves the program.

### Findings

- `xlu_drop_race`: `++s_xlu_dropped` (`src/raster/raster.cc:1162`) runs on both cores
  without a lock; a stale store takes the other core's increments back, so the
  counter that `raster.h:163` calls MONOTONIC goes down. Telemetry only.
- `present_early`: `s_committed_rows == 0` is read as "a whole frame is
  committed" (`platform_pico.cc:322`), so presenting a banded frame before its first
  publication streams unrendered rows, against the comment at 315–316. A producer
  must publish before `plat_present` is called; run `present` shows that suffices.
- `front_end_twice`: the material table is reset per submit (`geom.cc:864`),
  the bins per frame. The design document speaks of submitting "command buffer(s)"
  and `frame.h` of a per-frame table. The demo submits one stream a frame.
- `sliver_gap`: `tri_setup` rejects triangles of at most half a pixel
  (`raster.cc:364`) also when the fill rule gives them a pixel centre, which then
  nobody draws; `raster.h:16` promises no gap on a shared edge. `tri_raster` shows that
  there is none between triangles that are kept.
- `clip_rounding`: `lerp_i` adds half of the denominator by the sign of the quotient instead
  of the dividend (`clip.cc:25`), so that for a negative denominator, which every edge that
  enters the kept side has, the half moves the cut away from the nearest value; `clip.cc:14` and 24
  promise rounding. `ClippedRing` shows what holds nonetheless: the ring is inside, closed,
  bounded, and its attributes between those of the triangle.

Four texts of the repository say other things than the code does, where the property of a passing run
states what the code does; each is listed as a finding with that property:

- `present`, `WatermarkTruthful`: `plat_present` resets the watermark at its end
  (`platform_pico.cc:349`); `display.h:26` says "Reset implicitly at the start of the next plat_present()".
  The documented order is the mutant `ReturnLeavingReset`: the watermark of a banded frame would
  outlive it into the rendering of the next, and `committed <= rendered` fails.
- `main_loop`, `FrameKeysPicture`: `main.cc:139` says that the logged `frame=` "is the 0-based
  scripted-frame index", by which pictures are matched with the host's. Free flight advances the
  number and not the path (`demo_scene.cc:622`), so after it the number is the index only if the frames
  flown freely since the boot make whole rounds of the path. That is what the property says.
- `main_loop`, `ModeFollowsPresses`: `main.cc:91` polls first "so the free-fly toggle/nudge applies
  this frame"; the camera looks at the poll after the frame is presented (`main.cc:163`), so a
  press shows in the next picture.
- `main_loop`, `ProjectionKeepsOrder`: `geom.cc:793` says "no valid vert ever has inv_w<0"; for
  a clip w of two raw units `1/w` is 2^31, one more than `fx_invw` holds, and wraps to a negative
  number (`fixed.cc:82`), so the vertex is taken for one behind the viewer. At w = 1 the
  quotient wraps to 0, which is no sentinel but out of order; order is stated for w > 2.

Two limits of the code are written into the properties rather than listed as findings,
because no text of the repository denies them:

- A 4-bit texture of odd width is addressed by the nibble of the coordinate in the byte of the
  linear index; `TexelAddressed` asks for whole bytes per row.
- A tone whose end falls on the clock's value 0 never ends, and one whose end is past the
  clock's wrap ends at once; `ToneEndsOnTime` excludes tones the wrap falls into.

## 4. Proofs

Everything below holds for all values of the constants that satisfy the named
assumptions; those are about types (a positive number of tiles, capacities in `Nat`,
scenes of the right shape), and TLC evaluates them on every run.

`TileDispatchProof` proves `TypeCorrect`, `Inductive`, `TilesClaimedOnce`,
`JoinedFrameIsSerial`, `ParkedOutsideDispatch` and `DualCoreImplementsSerial`, for any
number of tiles, any scenes and any tile drawing. None of the properties is
inductive alone. `IInv` adds, in the order in which they lean on one another:

1. `Handshake`: where the tokens are. Inside the dispatch there is exactly one
   of: a GO in flight, core 1 at work, a DONE in flight with the counter at the end.
2. `Claims`: the lock is held exactly around the read and the increment, and a
   core about to increment has read the current value.
3. `Ledger`: a tile below the counter is owned by one core or was drawn once; one at or
   above it is untouched. From `Claims`, since two cores cannot both be between
   read and increment.
4. `Picture`: what the scratch and the tile's pixels hold before each stage
   (`StageHolds`), and that drawn tiles hold the serial picture. From `Ledger`, since
   the other core never owns the same tile.

At the join core 1 has answered and the counter is at the end, so by `Ledger` every
tile was drawn and by `Picture` it is the serial one. The refinement follows: each
step but `BuildFrame`, `ClearFb` and `Join` stutters, and `Join` is `Rasterize`. What is
proved of the refinement is its safety part, which is all `SerialRaster!Spec` states.

`BinningProof` proves `TypeCorrect`, `Inductive`, `EmissionOrder`, `EveryLossCounted`,
`SegmentsNeverOverlap` and `TotalCountsComplete`, for any tiles, spans and capacities.
`IInv` is `TypeOK` and `Progress`: demand is tallied in pass 0 (`Tallied`), tiles
below `at` have their segments (`CutUpTo`), jobs below `at` are written
(`FilledUpTo`). `Rank(t, j)`, the number of jobs up to `j` that cover `t`, is the slot
job `j` gets in tile `t`; the lemmas on it (`RankStep`, `RankOrder`) rest on the library's
theorems on cardinality. The heart is `ReplayFills`: a write goes to the cursor of
each tile with room, cursors of different tiles are different slots (`CursorsApart`), and
slots already filled are below the cursor.

`CmdWalkProof` proves `TypeCorrect` (the return stack never outgrows its array, the
buffer never its capacity), `Inductive` and `LossesAreCounted`, for any complete
lists and any limits. The invariant `Sound` says that while nothing was dropped the
stream ends with a command that leaves it, and that the cursor and every return
address lie inside their lists: a step forward is only taken from a command that
does not leave, so never from the last one.

`WalkIsReplay` is `ReplaysInPlace`. Its reference `Runs` is recursive on a bound of the turns,
because lists may branch back; the history variable `turns` says which bound a walk has
used up. The invariant `Replaying` is about the rest of the walk: however the open lists may go on
in `m` more steps (`Reaches` for the current one, `good` for the callers below it), what comes of
it is a run of the stream of `turns + m` steps. Each turn of the loop takes one step off the rest
(`GoesOnVisited`, `GoesOnCalled`, `GoesOnReturned`), the last leaves nothing of it
(`StopsInPlace`). That `Runs` is the function its definition says is proved as well, by induction
over a set of numbers (`SetInduction`, `RunsExist`): the prover does not take it from the text.

`TriRasterProof` proves `TypeCorrect`, `StepperExact` and `TiledDrawsAll` for any tiles and
meshes and any resolution of at least two steps a pixel (with fewer a centre would not lie
strictly inside its pixel). The invariant `IInv` adds `Drawing` (which triangle is under way) and
`Stepping`: quotient and remainder taken together, `q * area2 + r`, are the
numerator one pixel to the left, and those of the row the numerator one row below. A step preserves
it because the numerator is affine in the pixel (`NumSteps`) and a carry keeps
`q * area2 + r` (`CarryExact`); that the readout is C's division then follows from the
uniqueness of quotients (`TruncatedQuotient`). `TiledDrawsAll` is `TiledIsWhole`: a centre inside
a triangle is between its vertices on either axis, because the three edge values weigh them
to the centre (`Barycentric`, `InsideBounds`); so its tile is in the span the binning uses
and its pixel in the clamped box (`CoveredWhere`, `BoxCovers`). The invariant `WInv` adds where
the loops stand (`Placed`) and that each pixel has, in order, the covering triangles the loops
have passed there and no others (`Progress`). `OneSideOfAnEdge` and `NoDoubleCover` prove the
half of the fill rule that holds for every pair of triangles. `NoGapNoOverlap` is `CoveredOnce`,
for meshes `WithoutOverlap`: no triangle of them is rejected, and any two keep to the two sides of
a line; run `sliver_gap` shows that the first is needed. `QuadApart` says that the two triangles of a
quad with opposite corners on either side of its diagonal are such a mesh.

`PresentProof` proves `TypeCorrect` for every way of presenting, and, assuming
`"early" \notin Modes`, `Inductive`, `PublishedIsRendered`, `NothingStreamedEarly` and
`EveryRowStreamed`, for any number of rows and any band. That assumption is what run
`present_early` shows to be needed. The published watermark is read with two meanings, so the
invariant first says which is in force (`Published`), then chains what is streamed behind
what is published behind what is rendered (`Behind`), then says what the panel has of this
frame (`Shown`).

`FrontEndProof` proves `TypeCorrect` for any number of streams to a frame, and, for one
(`OneStream`, which run `front_end_twice` shows to be needed), `Inductive`, `JobsLead` and
`KeptShown`. The invariant adds to the types:

1. `Submitted`: the bins are empty until the stream of the frame.
2. `Interned`: the interned id is below the table's count, and its entry holds the state in
   force or the table overflowed, until the state is set again. The pieces of a clipped triangle
   are binned without interning and rest on this.
3. `Buffered`: jobs point into pool and table.

All of it follows from one observation per action: within a frame pool, table and bins
only grow (`Grows`, `JobsGrow`), and what pointed into them leads to the same (`StillPoints`).

The rest of `FrontEndProof` builds on it to prove `Implements`, the refinement. It adds `Cached` (a
product that is not dirty is that of the matrices on the stack) and `Idle` (no window outlives
its walk). Two lemmas carry the mapping: the window is a slice of the pool that stays while the
pool grows behind it (`WindowStays`, `WindowLoaded`), and a job is a step `Show` of what its
indices lead to (`ShownStep`, `Offered`). The vertices used are the length of the pool; where a piece or
a window finds no room, what is left of it fills the pool to the last place (`CutShort`,
`WindowLoaded`). `Geometry` reaches the abstract and the
detailed module separately, so lemmas say that both copies of an operator agree. Where
vertices land, faces, textures, rings and all limits are arbitrary.

`FirmwareProof` proves `PressesToggleOnce`, `NumberIsIndexUntilFlown`, `NoEarlyReset` and
`TonesEndOnTime` for any buttons, paths, periods, clocks and durations. Its invariant has
a part per program: for the demo `Fingers` (what the next poll will see of the
buttons), `Mode` (the mode is the parity of the presses, up to the pass under way), `Keys` (camera
and scroll against the frame number: the camera lags it by the frames flown freely, so that by
`RoundsOnly` the two name one pose exactly after whole rounds) and `Fed` (the time since the kick is below the
armed period); for the template `ToneInv` (without a wrap, the end of the tone is the clock plus
what it has left). The programs share a variable for the program counter and no more, so each is
invariant under the steps of the others (`OthersKeep`). `FirmwareTypeCorrect` is `TypeOK` of all
four programs.

`ProfilerProof`, on which `FirmwareProof` builds, is about the profiled frame: `ProfilerTellsTrueTimes`
(`TrueTimes`) and `TilesWithinDispatch` (`DispatchHoldsTiles`), for any tiles, frames and span of the
fine timer. What a core has still to run is put together by `FlattenSeq`; the proofs read it as a path
through the places of the code (`Leads`), from where the core stands to its end, with the blocks open
there (`Nested`). For each block `Timely` then says what its row lacks of the times while it or one
inside it is open: the inclusive time since it was entered, and of the self time what it has run
since the block inside it began. `Meeting` says where both cores can be at once and that each claimed tile
is counted or about to be, so that core 1's row is complete when core 0 reads and zeroes it.

Of the leaf functions, `BlendDriftsByFragment` (`BlendBounded`) holds for channels of five and six
bits, any colours and alphas and any number of fragments. The invariant keeps 255 times the
accumulated channel within a step a fragment of its weight times a bound of the colours (`NotOver`,
`NotUnder`): a fragment is scaled with rounding, widened and cut off again, which may cost
one step in either direction, and for enough fragments does. `BlitsCutByScreen` (`BlitsAreCut`) is about
every screen, sprite, position and sky: each of the cuts of `blit.cc` is an interval of the screen,
the source of a pixel is inside the picture, and a gradient is a part of the way between its ends (`PartOfWay`).
`ClipStaysRing` (`ClippedRing`) holds for any corners and guard band, and with room for seven vertices
(`ClipMaxOut >= 7`; the code has 8). However a cut is rounded, it lies between the two ends it
replaces (`CutBetween`), so the corners of a ring that bound it keep bounding it, and a side
that was clipped stays clipped. That a ring gains at most one vertex a pass is the harder half: a ring gains
half as many vertices as its border crosses the side, and a later side sees the cuts of the earlier
ones. The invariant `RingOf` therefore says more than is needed of one side: no line parallel to an
axis, at whatever level, is crossed more than twice (`~Folded`). A triangle has that, and a pass keeps
it (`StaysUnfolded`): with its cuts put on the side of a vertex next to them, the new ring runs through
the old one in order (`Represented`), so that it turns no more often.
`TexelsAddressed` (`TexelAddressed`) holds for textures of any size a coordinate can address, any
coordinates and any taps. A mask of the low `k` bits takes the remainder by `Pow2[k]`
(`MasksLowAll`), and `dim & (dim - 1)` vanishes for powers of two only (`PowersOnlyAll`), so what
`tex_validate` lets pass is what the masks of `wrap_coord` need; a mirrored coordinate is told by
the bit above the size; and the three-point filter is a sum of its taps with weights that add
up to 32 (`BetweenTaps`). `OrderOnScreen` (`ProjectionKeepsOrder`) says first that of the points before the
eye the one at two units of the last place, and no other, gets a negative `1/w` (`SentinelIs`). It is then
about any two points beyond that: there `1/w` fits its word (`InverseIs`), which is why nearer
is greater, the fog grows with the distance (`FogGrows`), the product from halves is the product
(`ProductIs`), and scaling and rounding keep the order on an axis (`AxisGrows`) as long as the
factors fit. Here too a definition by recursion has first to be shown to exist (`Iteration`).

The inductive invariants are proved and not repeated as invariants of the runs: those check
what follows from them.

Every safety property of the passing runs is thus the conclusion of a theorem: 36 properties of
40. Only model-checked are `DispatchReturns`, `PresentReturns`, `WalkReturns` and `NeverWedged`:
liveness under fairness is out of the prover's reach.

Recursive data (what the sweeps compute from a bin, pixel by pixel) is a parameter of
the proofs: they are about which stage runs on which data, not about the arithmetic.

## 5. Not modelled

- `shade`: a function of one pixel without state or limits. Text and the font of `gfx`: a loop over
  `Blit`'s sprites. Matrices and vectors of `fixed`: sums of products that `Fixed` has. Analytic
  coverage, the combiner and the decoding of a texel to RGBA: `TileRaster` takes the values
  they produce as given.
- The placement of vertices in `FrontEnd`: where one lands under a product is a parameter, its
  arithmetic is `Fixed`'s. Overflow of the screen coordinate (`geom.cc:129`) depends on how far a scene
  goes from the eye, which is its author's matter.
- The vertex BRANCH_LESS_Z tests is transformed with the matrix in force at the branch
  (`geom.cc:844`), not the one of the load. `FrontEnd` has what that does to the cache; which of the
  two is meant no text says, so no property does.
- Culling goes by the modelview of the draw (`geom.cc:669`), whatever the vertices were loaded with.
  `ImmediateMode` has it so, as the code does; which of the two is meant no text says.
- `arena`: initialised every frame and used by nobody. The SDL host, `main_sdl.cc`: window and events;
  the loop is the template's.
- Scene content, camera tables, assets: some 41,600 of the repository's 51,000 implementation lines
  are generated data (terrain, panorama, camera path, fonts, sprites). A share of all
  lines is therefore no measure of what is modelled; of the rest the modules stand for
  nearly half, and for most of what is not 2D drawing or scene building.
- Weak memory: see [TileDispatch](#tileraster-tiledispatch-serialraster).
- Tests, tools and build scripts, but for the inputs and programs taken from them.

## 6. Plan

Done: `TileRaster` → `SerialRaster` → `TileDispatch` → its proofs → `Present` →
`Binning` → its proofs → `Geometry`, `ImmediateMode`, `FrontEnd` → `CmdWalk` → its proofs →
`TriRaster` → its proofs → viewport, clear and culling in `FrontEnd` → `Platform`, `DemoLoop`,
`TemplateLoop` → `Profiler` → `Powers`, `Fixed`, `Clip`, `Texture`, `Blend`, `Blit`, `Kernels` → `Firmware` →
`PresentProof`, `FirmwareProof`, `FrontEndProof` → `ProfilerProof`, the replay in `CmdWalkProof`, blending,
blits, clipping, texels and the projection in `FirmwareProof`, no gaps in `TriRasterProof`.

Left: `FrontEnd` with `CmdWalk`'s order of commands instead of any order, once a property depends
on it.
