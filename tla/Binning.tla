-------------------------------- MODULE Binning --------------------------------
(***************************************************************************)
(* The sort-middle of the renderer: geom_bin_tri buffers the triangles     *)
(* that survive the geometry pass and tallies what each tile will need;    *)
(* geom_bin_finalize cuts one shared pool into a segment per tile and      *)
(* replays the buffer into the segments, in emission order.                *)
(*                                                                         *)
(* One thread runs all of it.  An iteration of either finalize loop is a   *)
(* step, so that what holds half way can be stated.  The tile grid enters  *)
(* only through the set of tiles a triangle's bounding box covers, and a   *)
(* triangle only through that set: geom_tri_tile_span recomputes it from   *)
(* pooled vertices that nobody writes between the two passes.              *)
(***************************************************************************)
EXTENDS Integers, Sequences, FiniteSets

CONSTANTS
  NumTiles,   \* GEOM_NUM_TILES
  JobsCap,    \* RDR_BIN_MAX_JOBS
  PoolCap,    \* RDR_BIN_POOL_REFS
  Ref,        \* the TriRefs geom_bin_tri can be handed
  SpanOf(_),  \* the tiles a TriRef's bounding box covers
  Stale,      \* what a pool slot holds that no frame has written
  MaxRefused  \* bound: triangles a frame offers after the buffer is full

Tile == 0 .. NumTiles - 1
Slot == 0 .. PoolCap - 1

ASSUME NumTilesAssumption == NumTiles \in Nat \ {0}
ASSUME CapsAssumption == JobsCap \in Nat /\ PoolCap \in Nat
ASSUME SpanAssumption == \A r \in Ref : SpanOf(r) \in (SUBSET Tile) \ {{}}
ASSUME StaleAssumption == Stale \notin Ref

VARIABLES
  stage,    \* "bin", then "segment" and "replay" in finalize, then "packed"
  jobs,     \* jobs[0 .. jobs_count)
  count,    \* tiles[].count: demand, then write cursor
  cap,      \* tiles[].cap
  refs,     \* tiles[].refs, as an offset into the pool
  short,    \* tiles[].dropped
  pool,     \* the shared pool; a frame does not clear it
  offset,   \* local of pass 1, and pool_used after it
  at,       \* loop variable of either pass
  total,    \* tris_total
  dropped   \* tris_dropped

tiles    == <<count, cap, refs, short>>
counters == <<total, dropped>>
vars     == <<stage, jobs, tiles, pool, offset, at, counters>>

Zeros == [t \in Tile |-> 0]

(* geom_out_init *)
OutInit ==
  /\ jobs' = <<>>
  /\ count' = Zeros /\ cap' = Zeros /\ refs' = Zeros /\ short' = Zeros
  /\ offset' = 0
  /\ total' = 0 /\ dropped' = 0

Init ==
  /\ stage = "bin" /\ at = 0
  /\ jobs = <<>>
  /\ count = Zeros /\ cap = Zeros /\ refs = Zeros /\ short = Zeros
  /\ pool = [i \in Slot |-> Stale] /\ offset = 0
  /\ total = 0 /\ dropped = 0

-----------------------------------------------------------------------------
(* geom_bin_tri: the buffer takes the triangle, or is full and counts it. *)

Buffer(r) ==
  /\ Len(jobs) < JobsCap
  /\ jobs' = Append(jobs, r)
  /\ count' = [t \in Tile |-> IF t \in SpanOf(r) THEN count[t] + 1 ELSE count[t]]
  /\ UNCHANGED <<cap, refs, short, pool, offset, at, counters>>

Refuse ==
  /\ Len(jobs) >= JobsCap
  /\ dropped' = dropped + 1
  /\ UNCHANGED <<jobs, tiles, pool, offset, at, total>>

BinTri(r) == stage = "bin" /\ (Buffer(r) \/ Refuse) /\ UNCHANGED stage

-----------------------------------------------------------------------------
(* geom_bin_finalize *)

StartFinalize ==
  /\ stage = "bin"
  /\ stage' = "segment" /\ at' = 0 /\ offset' = 0
  /\ UNCHANGED <<jobs, tiles, pool, counters>>

(* One iteration of pass 1: the tile gets a segment of seg slots that begins *)
(* at start, and its tally becomes a write cursor.                           *)
CutSegment(seg, start, cursor) ==
  /\ stage = "segment" /\ at < NumTiles
  /\ refs' = [refs EXCEPT ![at] = start]
  /\ cap' = [cap EXCEPT ![at] = seg]
  /\ short' = [short EXCEPT ![at] = @ + (count[at] - seg)]
  /\ count' = [count EXCEPT ![at] = cursor]
  /\ offset' = offset + seg
  /\ at' = at + 1
  /\ UNCHANGED <<stage, jobs, pool, counters>>

Avail == PoolCap - offset
Granted == IF count[at] > Avail THEN Avail ELSE count[at]

(* Slips: a segment longer than the pool, a tally left in the cursor, a tile *)
(* given nothing unless all fits, and a segment begun after the advance.     *)
SegmentUnclamped == CutSegment(count[at], offset, 0)
SegmentKeepsTally == CutSegment(Granted, offset, count[at])
SegmentAllOrNothing ==
  CutSegment(IF count[at] > Avail THEN 0 ELSE count[at], offset, 0)
SegmentAfterAdvance == CutSegment(Granted, offset + Granted, 0)

Segment == CutSegment(Granted, offset, 0)

StartReplay ==
  /\ stage = "segment" /\ at = NumTiles
  /\ stage' = "replay" /\ at' = 1
  /\ UNCHANGED <<jobs, tiles, pool, offset, counters>>

(* One iteration of pass 2: write the buffered triangle at the cursor of    *)
(* every tile it covers that still has a slot.                              *)
Placed == {t \in SpanOf(jobs[at]) : count[t] < cap[t]}

WriteRef(accepted) ==
  /\ stage = "replay" /\ at <= Len(jobs)
  /\ pool' = [i \in Slot |-> IF \E t \in Placed : i = refs[t] + count[t]
                               THEN jobs[at] ELSE pool[i]]
  /\ count' = [t \in Tile |-> IF t \in Placed THEN count[t] + 1 ELSE count[t]]
  /\ IF accepted THEN total' = total + 1 /\ UNCHANGED dropped
                 ELSE dropped' = dropped + 1 /\ UNCHANGED total
  /\ at' = at + 1
  /\ UNCHANGED <<stage, jobs, cap, refs, short, offset>>

(* Slip: counting a triangle as accepted when one tile of several took it. *)
ReplayCountsAny == WriteRef(Placed # {})

Replay == WriteRef(Placed = SpanOf(jobs[at]))

EndFinalize ==
  /\ stage = "replay" /\ at > Len(jobs)
  /\ stage' = "packed"
  /\ UNCHANGED <<jobs, tiles, pool, offset, at, counters>>

Finalize == StartFinalize \/ Segment \/ StartReplay \/ Replay \/ EndFinalize

(* rdr_begin_frame, on a frame that was packed or never submitted to. *)
BeginFrame ==
  /\ stage \in {"bin", "packed"}
  /\ stage' = "bin" /\ at' = 0
  /\ OutInit
  /\ UNCHANGED pool

Next == \/ \E r \in Ref : dropped < MaxRefused /\ BinTri(r)
        \/ Finalize
        \/ BeginFrame

Spec == Init /\ [][Next]_vars

-----------------------------------------------------------------------------
(* Properties *)

TypeOK ==
  /\ stage \in {"bin", "segment", "replay", "packed"}
  /\ jobs \in Seq(Ref) /\ Len(jobs) <= JobsCap
  /\ count \in [Tile -> Nat] /\ cap \in [Tile -> 0 .. PoolCap]
  /\ refs \in [Tile -> 0 .. PoolCap] /\ short \in [Tile -> Nat]
  /\ pool \in [Slot -> Ref \cup {Stale}]
  /\ offset \in 0 .. PoolCap
  /\ at \in Nat /\ (stage = "replay" => at > 0)
  /\ total \in Nat /\ dropped \in Nat

(* The buffered triangles among the first n that cover tile t. *)
Touching(t, n) == {j \in 1 .. n : j \in DOMAIN jobs /\ t \in SpanOf(jobs[j])}
Rank(t, n) == Cardinality(Touching(t, n))
Demand(t) == Rank(t, Len(jobs))

(* What raster_tile is handed: each tile's list is the beginning of the    *)
(* emission order of the triangles that cover it, cut where the pool ended, *)
(* with no slot left over from another tile or an earlier frame.            *)
BinsInEmissionOrder ==
  stage = "packed" => \A t \in Tile :
    /\ count[t] = cap[t]
    /\ \A j \in Touching(t, Len(jobs)) :
         Rank(t, j) <= cap[t] => pool[refs[t] + Rank(t, j) - 1] = jobs[j]

(* A triangle goes missing from a tile only because the shared pool is     *)
(* used up, and each missing reference is counted at its tile.              *)
LossIsCounted ==
  stage = "packed" => \A t \in Tile :
    /\ cap[t] + short[t] = Demand(t)
    /\ short[t] > 0 => offset = PoolCap

(* The segments two tiles draw from never overlap and stay in the pool, so *)
(* the core rasterizing one never reads a reference meant for the other.    *)
SegmentsDisjoint ==
  stage \in {"replay", "packed"} => \A t \in Tile :
    /\ refs[t] + cap[t] <= offset /\ offset <= PoolCap
    /\ \A s \in Tile : s < t => refs[s] + cap[s] <= refs[t]

(* tris_total counts exactly the triangles that every tile they cover will *)
(* draw.                                                                   *)
Complete(j) == \A t \in SpanOf(jobs[j]) : Rank(t, j) <= cap[t]
TotalIsComplete ==
  stage = "packed" => total = Cardinality({j \in DOMAIN jobs : Complete(j)})

-----------------------------------------------------------------------------
(* The inductive invariant: what has been tallied, cut and filled so far. *)

Tallied(t) == count[t] = Demand(t) /\ short[t] = 0

CutUpTo(n) == \A t \in Tile : t < n =>
  /\ cap[t] + short[t] = Demand(t)
  /\ short[t] > 0 => offset = PoolCap
  /\ refs[t] + cap[t] <= offset
  /\ \A s \in Tile : s < t => refs[s] + cap[s] <= refs[t]

FilledUpTo(n) ==
  /\ \A t \in Tile :
       /\ count[t] = IF Rank(t, n) < cap[t] THEN Rank(t, n) ELSE cap[t]
       /\ \A j \in Touching(t, n) :
            Rank(t, j) <= cap[t] => pool[refs[t] + Rank(t, j) - 1] = jobs[j]
  /\ total = Cardinality({j \in 1 .. n : Complete(j)})

Progress ==
  /\ stage = "bin" => total = 0 /\ \A t \in Tile : Tallied(t)
  /\ stage = "segment" => /\ total = 0 /\ at <= NumTiles /\ CutUpTo(at)
                          /\ \A t \in Tile : IF t < at THEN count[t] = 0
                                               ELSE Tallied(t)
  /\ stage = "replay" => /\ at \in 1 .. Len(jobs) + 1
                         /\ CutUpTo(NumTiles) /\ FilledUpTo(at - 1)
  /\ stage = "packed" => CutUpTo(NumTiles) /\ FilledUpTo(Len(jobs))

IInv == TypeOK /\ Progress
=============================================================================
