------------------------------- MODULE Present -------------------------------
(***************************************************************************)
(* Scanout on the device: plat_present streams the framebuffer to the      *)
(* panel by DMA and chases the watermark of committed rows that a producer *)
(* publishes through plat_present_watermark (platform_pico.cc), with the   *)
(* chase arithmetic of scanrace.cc.                                        *)
(*                                                                         *)
(* The producer is a second thread of control: it renders the frame top to *)
(* bottom, one band of rows at a time, and publishes each finished band.   *)
(* No code in the repository does so yet; it is modelled from what         *)
(* display.h asks of it, except that the watermark is reset where the code *)
(* resets it, at the end of plat_present.  A frame that publishes nothing  *)
(* is presented when it is complete, which is what demo/main.cc does.      *)
(***************************************************************************)
EXTENDS Integers

CONSTANTS
  Rows,  \* SCREEN_H
  Band,  \* rows of one tile row
  Modes  \* how the application presents: a subset of Mode

Mode == {"complete",  \* rendered in full and never banded, then presented
         "banded",    \* presented once its first band is published
         "early"}     \* presented at any point of its rendering

ASSUME RowsAssumption == Rows \in Nat \ {0}
ASSUME BandAssumption == Band \in 1 .. Rows
ASSUME ModesAssumption == Modes \subseteq Mode

Row == 0 .. Rows - 1
Least(a, b) == IF a < b THEN a ELSE b

-----------------------------------------------------------------------------
(* scanrace.cc *)

ScanInit == [watermark |-> 0, sent |-> 0]

SetWatermark(r, v) ==
  LET clamped == Least(v, Rows)
  IN  IF clamped > r.watermark THEN [r EXCEPT !.watermark = clamped] ELSE r

Runway(r) == IF r.watermark <= r.sent THEN 0 ELSE r.watermark - r.sent

ScanDone(r) == r.sent >= Rows

(* Slips in the code stand before the definition they are a slip of, here  *)
(* and below; none is part of Next.  This one accounts for a row too many. *)
AdvanceOneMore(r, n) == [r EXCEPT !.sent = @ + n + 1]

AdvanceDma(r, n) == [r EXCEPT !.sent = @ + Least(n, Runway(r))]

-----------------------------------------------------------------------------
VARIABLES
  pc,         \* core 0: application, or the statement of plat_present
  mode,       \* how the frame under way is presented
  rendered,   \* rows of the frame that hold its final pixels
  producer,   \* statement of the producer
  reg,        \* s_committed_rows as the producer's comparison loaded it
  committed,  \* s_committed_rows
  race,       \* the ScanRace local of plat_present
  next,       \* the row the DMA reads next
  te, late,   \* the TE line; the 100 ms deadline has passed
  panel       \* per row: does the panel show this frame

scan == <<race, next, panel>>
line == <<te, late>>
prod == <<rendered, producer, reg>>
vars == <<pc, mode, prod, committed, scan, line>>

Init ==
  /\ pc = "app" /\ mode = "complete"
  /\ rendered = Rows /\ producer = "idle" /\ reg = 0
  /\ committed = 0
  /\ race = ScanInit /\ next = 0 /\ panel = [r \in Row |-> FALSE]
  /\ te = FALSE /\ late = FALSE

-----------------------------------------------------------------------------
(* The application and the producer. *)

(* A new frame: no row of the framebuffer holds it yet. *)
StartFrame(m) ==
  /\ pc = "app" /\ producer = "idle"
  /\ pc' = "frame" /\ mode' = m
  /\ rendered' = 0 /\ producer' = "render"
  /\ panel' = [r \in Row |-> FALSE]
  /\ UNCHANGED <<reg, committed, race, next, line>>

RenderBand ==
  /\ producer = "render"
  /\ rendered' = Least(rendered + Band, Rows)
  /\ producer' = IF mode # "complete" THEN "load"
                 ELSE IF rendered' = Rows THEN "idle" ELSE "render"
  /\ UNCHANGED <<pc, mode, reg, committed, scan, line>>

(* plat_present_watermark: a load and a store of s_committed_rows. *)
LoadCommitted ==
  /\ producer = "load"
  /\ reg' = committed
  /\ producer' = "store"
  /\ UNCHANGED <<pc, mode, rendered, committed, scan, line>>

(* Publishing the band that is about to be rendered. *)
StoreCommittedAhead ==
  /\ producer = "store"
  /\ committed' = Least(rendered + Band, Rows)
  /\ producer' = IF rendered = Rows THEN "idle" ELSE "render"
  /\ UNCHANGED <<pc, mode, rendered, reg, scan, line>>

StoreCommitted ==
  /\ producer = "store"
  /\ committed' = IF Least(rendered, Rows) > reg THEN Least(rendered, Rows)
                  ELSE committed
  /\ producer' = IF rendered = Rows THEN "idle" ELSE "render"
  /\ UNCHANGED <<pc, mode, rendered, reg, scan, line>>

-----------------------------------------------------------------------------
(* plat_present *)

Call ==
  /\ pc = "frame"
  /\ mode = "complete" => rendered = Rows /\ producer = "idle"
  /\ mode = "banded" => committed > 0
  /\ pc' = "fall" /\ late' = FALSE
  /\ UNCHANGED <<mode, prod, committed, scan, te>>

(* The panel drives TE, and time passes; both only matter while waited for. *)
Edge ==
  /\ pc \in {"fall", "rise"}
  /\ te' = ~te
  /\ UNCHANGED <<pc, mode, prod, committed, scan, late>>

Deadline ==
  /\ pc \in {"fall", "rise"} /\ ~late
  /\ late' = TRUE
  /\ UNCHANGED <<pc, mode, prod, committed, scan, te>>

WaitFall ==
  /\ pc = "fall" /\ (~te \/ late)
  /\ pc' = "rise"
  /\ UNCHANGED <<mode, prod, committed, scan, line>>

(* The wait for TE without its deadline. *)
WaitRiseForever ==
  /\ pc = "rise" /\ te
  /\ pc' = "first"
  /\ UNCHANGED <<mode, prod, committed, scan, line>>

WaitRise ==
  /\ pc = "rise" /\ (te \/ late)
  /\ pc' = "first"
  /\ UNCHANGED <<mode, prod, committed, scan, line>>

(* No watermark yet is read as: the whole frame is committed. *)
ReadFirst ==
  /\ pc = "first"
  /\ race' = IF committed = 0 THEN SetWatermark(ScanInit, Rows) ELSE ScanInit
  /\ next' = 0
  /\ pc' = "chase"
  /\ UNCHANGED <<mode, prod, committed, panel, line>>

(* One turn of the chase loop up to the DMA trigger; with no runway the    *)
(* loop turns again.                                                       *)
Chase ==
  /\ pc = "chase" /\ ~ScanDone(race)
  /\ race' = SetWatermark(race, committed)
  /\ pc' = IF Runway(race') = 0 THEN "chase" ELSE "dma"
  /\ next' = race.sent
  /\ UNCHANGED <<mode, prod, committed, panel, line>>

(* The DMA reads one row out of the framebuffer, as it is at that moment. *)
StreamRow ==
  /\ pc = "dma" /\ next < race.sent + Runway(race)
  /\ panel' = [panel EXCEPT ![next] = next < rendered]
  /\ next' = next + 1
  /\ UNCHANGED <<pc, mode, prod, committed, race, line>>

DmaFinished ==
  /\ pc = "dma" /\ next = race.sent + Runway(race)
  /\ race' = AdvanceDma(race, Runway(race))
  /\ pc' = "chase"
  /\ UNCHANGED <<mode, prod, committed, next, panel, line>>

(* What display.h:26 says: the reset is left to the start of the next      *)
(* plat_present, which a banded frame reaches with bands published.        *)
ReturnLeavingReset ==
  /\ pc = "chase" /\ ScanDone(race)
  /\ pc' = "app"
  /\ UNCHANGED <<mode, prod, committed, scan, line>>

Return ==
  /\ pc = "chase" /\ ScanDone(race)
  /\ committed' = 0
  /\ pc' = "app"
  /\ UNCHANGED <<mode, prod, scan, line>>

-----------------------------------------------------------------------------
Producer == RenderBand \/ LoadCommitted \/ StoreCommitted

PlatPresent == \/ WaitFall \/ WaitRise \/ ReadFirst \/ Chase
               \/ StreamRow \/ DmaFinished \/ Return

Next == \/ \E m \in Modes : StartFrame(m)
        \/ Call \/ Edge \/ Deadline
        \/ PlatPresent \/ Producer

(* plat_present and the producer run on different cores and neither waits  *)
(* without trying again; time passes.  The TE line may stay put forever,   *)
(* and nothing makes the application present another frame.                *)
Fairness == WF_vars(PlatPresent) /\ WF_vars(Producer) /\ WF_vars(Deadline)

Spec == Init /\ [][Next]_vars /\ Fairness

-----------------------------------------------------------------------------
(* Properties *)

InPresent == {"fall", "rise", "first", "chase", "dma"}

TypeOK ==
  /\ pc \in {"app", "frame"} \cup InPresent
  /\ mode \in Mode
  /\ rendered \in 0 .. Rows /\ reg \in 0 .. Rows /\ committed \in 0 .. Rows
  /\ producer \in {"idle", "render", "load", "store"}
  /\ race \in [watermark : 0 .. Rows, sent : 0 .. Rows]
  /\ next \in 0 .. Rows
  /\ te \in BOOLEAN /\ late \in BOOLEAN
  /\ panel \in [Row -> BOOLEAN]

(* platform_pico.cc:315: the DMA never streams a row the renderer has not  *)
(* committed.  Every row of a burst is final before the burst is started.  *)
NeverUncommitted == pc = "dma" => race.sent + Runway(race) <= rendered

(* platform_pico.cc:349: plat_present leaves no watermark behind when it    *)
(* returns, so what is published is at every moment true of the frame in    *)
(* the framebuffer, a publication delayed between its load and its store    *)
(* included.  display.h:26 puts the reset at the start of the next          *)
(* plat_present; the watermark of this frame would then outlive it into the *)
(* rendering of the next, whose own publications that reset would lose.     *)
WatermarkTruthful ==
  /\ committed <= rendered
  /\ pc = "app" => committed = 0

(* When the chase is over, each row was streamed, and streamed from this   *)
(* frame.                                                                  *)
WholeFrameShown == pc = "chase" /\ ScanDone(race) => panel = [r \in Row |-> TRUE]

(* A stalled TE line or a chase that caught up delays plat_present; it     *)
(* always returns.                                                         *)
PresentReturns == pc = "fall" ~> pc = "app"
=============================================================================
