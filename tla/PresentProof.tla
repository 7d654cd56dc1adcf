----------------------------- MODULE PresentProof -----------------------------
(***************************************************************************)
(* Proofs about Present, for any number of rows and any band.  TypeOK      *)
(* holds in every mode; the others hold when no frame is presented before  *)
(* its first band is published, and run present_early shows that they need *)
(* that.                                                                   *)
(*                                                                         *)
(* committed is read by plat_present with two meanings, so the invariant   *)
(* says which one is in force: a complete frame has published nothing and  *)
(* is rendered by the time of the call, a banded one has published         *)
(* something.  The chase is behind the watermark it copied, the copy       *)
(* behind what was published, and that behind what is rendered.            *)
(***************************************************************************)
EXTENDS Present, TLAPS

USE RowsAssumption, BandAssumption, ModesAssumption

Streaming == pc \in {"chase", "dma"}

(* Which reading of committed applies, and who may still change it. *)
Published ==
  /\ mode \in {"complete", "banded"}
  /\ committed <= rendered
  /\ committed = Rows => producer = "idle"
  /\ pc = "app" => committed = 0 /\ producer = "idle"
  /\ mode = "complete" =>
       /\ committed = 0 /\ producer \in {"idle", "render"}
       /\ pc \in InPresent => rendered = Rows /\ producer = "idle"
  /\ mode = "banded" /\ pc \in InPresent => committed > 0

(* The chase: sent <= watermark <= what the mode says is final. *)
Behind ==
  Streaming =>
    /\ race.sent <= race.watermark
    /\ race.watermark <= rendered
    /\ mode = "banded" => race.watermark <= committed

(* The rows streamed so far show this frame. *)
Shown ==
  /\ pc = "chase" => \A r \in Row : r < race.sent => panel[r]
  /\ pc = "dma" => /\ race.sent <= next /\ next <= race.watermark
                   /\ \A r \in Row : r < next => panel[r]

IInv == TypeOK /\ Published /\ Behind /\ Shown

-----------------------------------------------------------------------------
(* scanrace.cc: the watermark only rises, to at most what is published and *)
(* at most the number of rows.                                             *)
LEMMA WatermarkRises ==
  ASSUME NEW r \in [watermark : 0 .. Rows, sent : 0 .. Rows], NEW v \in 0 .. Rows
  PROVE  /\ SetWatermark(r, v) \in [watermark : 0 .. Rows, sent : 0 .. Rows]
         /\ SetWatermark(r, v).sent = r.sent
         /\ r.watermark <= SetWatermark(r, v).watermark
         /\ SetWatermark(r, v).watermark \in {r.watermark, v}
         /\ v <= SetWatermark(r, v).watermark
  BY DEF SetWatermark, Least

(* A burst of the whole runway ends at the watermark. *)
LEMMA BurstEndsAtWatermark ==
  ASSUME NEW r \in [watermark : 0 .. Rows, sent : 0 .. Rows]
  PROVE  /\ Runway(r) \in 0 .. Rows
         /\ r.sent + Runway(r) \in 0 .. Rows
         /\ AdvanceDma(r, Runway(r)) = [r EXCEPT !.sent = r.sent + Runway(r)]
         /\ r.sent <= r.watermark => r.sent + Runway(r) = r.watermark
         /\ Runway(r) # 0 => r.sent < r.watermark
  BY DEF Runway, AdvanceDma, Least

LEMMA TypeInit == Init => TypeOK
<1> SUFFICES ASSUME Init  PROVE TypeOK
  OBVIOUS
<1>1. panel \in [Row -> BOOLEAN] /\ race \in [watermark : 0 .. Rows, sent : 0 .. Rows]
  BY DEF Init, ScanInit
<1>2. 0 \in 0 .. Rows /\ Rows \in 0 .. Rows
  OBVIOUS
<1>3. te \in BOOLEAN /\ late \in BOOLEAN /\ pc = "app" /\ producer = "idle"
      /\ mode \in Mode
  BY DEF Init, Mode
<1>4. rendered = Rows /\ reg = 0 /\ committed = 0 /\ next = 0
  BY DEF Init
<1> QED BY <1>1, <1>2, <1>3, <1>4 DEF TypeOK

LEMMA TypeStep == TypeOK /\ [Next]_vars => TypeOK'
<1> SUFFICES ASSUME TypeOK, [Next]_vars  PROVE TypeOK'
  OBVIOUS
<1>0. /\ Runway(race) \in 0 .. Rows
      /\ race.sent + Runway(race) \in 0 .. Rows
      /\ AdvanceDma(race, Runway(race)) = [race EXCEPT !.sent = race.sent + Runway(race)]
  BY BurstEndsAtWatermark DEF TypeOK
<1>1. ASSUME NEW m \in Modes, StartFrame(m)  PROVE TypeOK'
  BY <1>1 DEF StartFrame, TypeOK, line, Mode, InPresent
<1>2. CASE Call \/ Edge \/ Deadline
  BY <1>2 DEF Call, Edge, Deadline, TypeOK, InPresent, prod, scan, line
<1>3. CASE RenderBand \/ LoadCommitted \/ StoreCommitted
  BY <1>3 DEF RenderBand, LoadCommitted, StoreCommitted, TypeOK, InPresent,
              scan, line, Least
<1>4. CASE WaitFall \/ WaitRise \/ Return
  BY <1>4 DEF WaitFall, WaitRise, Return, TypeOK, InPresent, prod, scan, line
<1>5. CASE ReadFirst
  <2>1. ScanInit \in [watermark : 0 .. Rows, sent : 0 .. Rows]
    BY DEF ScanInit
  <2>2. race' \in [watermark : 0 .. Rows, sent : 0 .. Rows]
    BY <1>5, <2>1, WatermarkRises DEF ReadFirst
  <2> QED BY <1>5, <2>2 DEF ReadFirst, TypeOK, InPresent, prod, line
<1>6. CASE Chase
  <2>1. race' \in [watermark : 0 .. Rows, sent : 0 .. Rows]
    BY <1>6, WatermarkRises DEF Chase, TypeOK
  <2> QED BY <1>6, <2>1 DEF Chase, TypeOK, InPresent, prod, line
<1>7. CASE StreamRow
  BY <1>0, <1>7 DEF StreamRow, TypeOK, InPresent, prod, line, Row
<1>8. CASE DmaFinished
  BY <1>0, <1>8 DEF DmaFinished, TypeOK, InPresent, prod, line
<1>9. CASE UNCHANGED vars
  BY <1>9 DEF vars, TypeOK, prod, scan, line, InPresent
<1> QED
  BY <1>1, <1>2, <1>3, <1>4, <1>5, <1>6, <1>7, <1>8, <1>9
     DEF Next, PlatPresent, Producer

(* Every variable of the scanout has its type: no watermark, burst or row  *)
(* counter passes the last row, whatever the producer does and whenever    *)
(* the frame is presented.                                                 *)
THEOREM TypeCorrect == Spec => []TypeOK
  BY TypeInit, TypeStep, PTL DEF Spec

(* None of the properties is kept by the steps alone; together with who    *)
(* publishes, how far the chase is and what it has shown, they are.        *)
THEOREM Inductive == ASSUME "early" \notin Modes PROVE Spec => []IInv
<1>1. Init => IInv
  <2> SUFFICES ASSUME Init  PROVE IInv
    OBVIOUS
  <2>1. TypeOK
    BY TypeInit
  <2> QED BY <2>1 DEF Init, IInv, Published, Behind, Shown, Streaming, InPresent
<1>2. IInv /\ [Next]_vars => IInv'
  <2> SUFFICES ASSUME IInv, [Next]_vars  PROVE IInv'
    OBVIOUS
  <2>0. TypeOK /\ TypeOK'
    BY TypeStep DEF IInv
  <2>1. ASSUME NEW m \in Modes, StartFrame(m)  PROVE IInv'
    BY <2>0, <2>1 DEF StartFrame, IInv, TypeOK, Published, Behind, Shown,
                      Streaming, InPresent, Mode, line
  <2>2. CASE Call
    BY <2>0, <2>2 DEF Call, IInv, TypeOK, Published, Behind, Shown, Streaming,
                      InPresent, prod, scan
  <2>3. CASE Edge \/ Deadline
    BY <2>0, <2>3 DEF Edge, Deadline, IInv, Published, Behind, Shown, Streaming,
                      InPresent, prod, scan
  <2>4. CASE RenderBand
    <3>1. rendered <= rendered' /\ rendered' \in 0 .. Rows
      BY <2>0, <2>4 DEF RenderBand, TypeOK, Least
    <3>2. pc # "app" /\ committed # Rows
      BY <2>4 DEF RenderBand, IInv, Published
    <3> QED BY <2>0, <2>4, <3>1, <3>2
            DEF RenderBand, IInv, TypeOK, Published, Behind, Shown, Streaming,
                InPresent, scan
  <2>5. CASE LoadCommitted
    BY <2>0, <2>5 DEF LoadCommitted, IInv, TypeOK, Published, Behind, Shown,
                      Streaming, InPresent, scan
  <2>6. CASE StoreCommitted
    <3>1. committed <= committed' /\ committed' <= rendered
      BY <2>0, <2>6 DEF StoreCommitted, IInv, TypeOK, Published, Least
    <3>2. committed' = Rows => producer' = "idle"
      BY <2>0, <2>6 DEF StoreCommitted, IInv, TypeOK, Published, Least
    <3> QED BY <2>0, <2>6, <3>1, <3>2
            DEF StoreCommitted, IInv, TypeOK, Published, Behind, Shown, Streaming,
                InPresent, scan
  <2>7. CASE WaitFall \/ WaitRise
    BY <2>0, <2>7 DEF WaitFall, WaitRise, IInv, Published, Behind, Shown, Streaming,
                      InPresent, prod, scan
  <2>8. CASE ReadFirst
    <3>0. ScanInit \in [watermark : 0 .. Rows, sent : 0 .. Rows]
          /\ ScanInit.sent = 0 /\ ScanInit.watermark = 0
      BY DEF ScanInit
    <3>1. race'.sent = 0 /\ race'.watermark \in 0 .. Rows
          /\ (committed # 0 => race'.watermark = 0)
      BY <2>0, <2>8, <3>0, WatermarkRises DEF ReadFirst
    <3>2. race'.watermark <= rendered
          /\ (mode = "banded" => race'.watermark <= committed)
      <4>1. rendered \in 0 .. Rows /\ committed \in 0 .. Rows /\ pc = "first"
        BY <2>8 DEF ReadFirst, IInv, TypeOK
      <4>2. CASE committed = 0
        BY <4>1, <4>2, <3>1 DEF IInv, Published, InPresent
      <4>3. CASE committed # 0
        BY <4>1, <4>3, <3>1
      <4> QED BY <4>2, <4>3
    <3>3. Published'
      BY <2>8 DEF ReadFirst, IInv, Published, InPresent, prod
    <3>4. Behind' /\ Shown'
      <4>1. pc' = "chase" /\ rendered' = rendered /\ mode' = mode
            /\ committed' = committed
        BY <2>8 DEF ReadFirst, prod
      <4>2. \A r \in Row : ~(r < 0)
        BY DEF Row
      <4> QED BY <3>1, <3>2, <4>1, <4>2 DEF Behind, Shown
    <3> QED BY <2>0, <3>3, <3>4 DEF IInv
  <2>9. CASE Chase
    <3>1. /\ race'.sent = race.sent /\ race.watermark <= race'.watermark
          /\ race'.watermark \in {race.watermark, committed}
      BY <2>0, <2>9, WatermarkRises DEF Chase, TypeOK
    <3>2. Behind'
      BY <2>0, <2>9, <3>1 DEF Chase, IInv, TypeOK, Published, Behind, Streaming, prod
    <3>3. Shown'
      BY <2>0, <2>9, <3>1, <3>2 DEF Chase, IInv, TypeOK, Behind, Shown, Streaming
    <3> QED BY <2>0, <2>9, <3>2, <3>3 DEF Chase, IInv, Published, InPresent, prod
  <2>10. CASE StreamRow
    <3>1. race.sent + Runway(race) = race.watermark
      BY <2>0, <2>10, BurstEndsAtWatermark
         DEF StreamRow, IInv, TypeOK, Behind, Streaming
    <3>2. next < race.watermark /\ next < rendered /\ next \in Row
      BY <2>0, <2>10, <3>1 DEF StreamRow, IInv, TypeOK, Behind, Streaming, Row
    <3>3. Shown'
      <4>1. /\ pc = "dma" /\ pc' = "dma" /\ race' = race /\ next' = next + 1
            /\ panel' = [panel EXCEPT ![next] = next < rendered]
        BY <2>10 DEF StreamRow
      <4>2. next \in Nat /\ race.sent \in Nat /\ race.watermark \in Nat
            /\ race.sent <= next /\ panel \in [Row -> BOOLEAN]
            /\ \A r \in Row : r < next => panel[r]
        BY <4>1 DEF IInv, TypeOK, Shown
      <4>3. \A r \in Row : r < next + 1 => r < next \/ r = next
        BY <4>2 DEF Row
      <4>4. \A r \in Row : r < next + 1 => panel'[r]
        BY <4>1, <4>2, <4>3, <3>2
      <4> QED BY <4>1, <4>2, <4>4, <3>2 DEF Shown
    <3> QED BY <2>0, <2>10, <3>3
            DEF StreamRow, IInv, Published, Behind, Streaming, InPresent, prod
  <2>11. CASE DmaFinished
    <3>1. race' = [race EXCEPT !.sent = race.watermark] /\ next = race.watermark
      BY <2>0, <2>11, BurstEndsAtWatermark
         DEF DmaFinished, IInv, TypeOK, Behind, Streaming
    <3> QED BY <2>0, <2>11, <3>1
            DEF DmaFinished, IInv, TypeOK, Published, Behind, Shown, Streaming,
                InPresent, prod
  <2>12. CASE Return
    <3>1. race.watermark = Rows /\ rendered = Rows
      BY <2>0, <2>12 DEF Return, IInv, TypeOK, Behind, Streaming, ScanDone
    <3>2. producer = "idle"
      BY <2>0, <2>12, <3>1
         DEF Return, IInv, TypeOK, Published, Behind, Streaming, InPresent
    <3> QED BY <2>0, <2>12, <3>2
            DEF Return, IInv, TypeOK, Published, Behind, Shown, Streaming,
                InPresent, prod, scan
  <2>13. CASE UNCHANGED vars
    BY <2>13 DEF vars, IInv, TypeOK, Published, Behind, Shown, Streaming, InPresent,
                 prod, scan, line, Row
  <2> QED
    BY <2>1, <2>2, <2>3, <2>4, <2>5, <2>6, <2>7, <2>8, <2>9, <2>10, <2>11, <2>12,
       <2>13 DEF Next, PlatPresent, Producer
<1> QED BY <1>1, <1>2, PTL DEF Spec

(* No watermark of an earlier frame survives into the next one, and a late *)
(* publication does no harm.                                               *)
THEOREM PublishedIsRendered ==
  ASSUME "early" \notin Modes PROVE Spec => []WatermarkTruthful
<1>1. IInv => WatermarkTruthful  BY DEF IInv, Published, WatermarkTruthful
<1> QED BY <1>1, Inductive, PTL

(* platform_pico.cc:315: no row is streamed before it is rendered. *)
THEOREM NothingStreamedEarly ==
  ASSUME "early" \notin Modes PROVE Spec => []NeverUncommitted
<1>1. IInv => NeverUncommitted
  <2> SUFFICES ASSUME IInv, pc = "dma"  PROVE race.sent + Runway(race) <= rendered
    BY DEF NeverUncommitted
  <2>1. race.sent + Runway(race) = race.watermark
    BY BurstEndsAtWatermark DEF IInv, TypeOK, Behind, Streaming
  <2> QED BY <2>1 DEF IInv, Behind, Streaming
<1> QED BY <1>1, Inductive, PTL

(* When the chase is over the panel shows this frame, row by row. *)
THEOREM EveryRowStreamed ==
  ASSUME "early" \notin Modes PROVE Spec => []WholeFrameShown
<1>1. IInv => WholeFrameShown
  <2> SUFFICES ASSUME IInv, pc = "chase", ScanDone(race)
               PROVE panel = [r \in Row |-> TRUE]
    BY DEF WholeFrameShown
  <2>1. \A r \in Row : panel[r]
    BY DEF IInv, TypeOK, Shown, ScanDone, Row
  <2> QED BY <2>1 DEF IInv, TypeOK
<1> QED BY <1>1, Inductive, PTL
=============================================================================
