----------------------------- MODULE BinningProof -----------------------------
(***************************************************************************)
(* Proofs about Binning, for any number of tiles, any capacities and any   *)
(* triangles.  The counting lemmas come first; the inductive invariant     *)
(* then says what each pass has done so far, and the properties are what   *)
(* it says once the bins are packed.                                       *)
(***************************************************************************)
EXTENDS Binning, FiniteSetTheorems, TLAPS

(* The triangles that cover a tile can be counted. *)
LEMMA RankType ==
  ASSUME NEW t, NEW n \in Nat
  PROVE  IsFiniteSet(Touching(t, n)) /\ Rank(t, n) \in Nat
<1>1. IsFiniteSet(1 .. n)  BY FS_Interval
<1>2. Touching(t, n) \subseteq 1 .. n  BY DEF Touching
<1> QED BY <1>1, <1>2, FS_Subset, FS_CardinalityType DEF Rank

(* No triangle comes before the first. *)
LEMMA RankZero == ASSUME NEW t PROVE Touching(t, 0) = {} /\ Rank(t, 0) = 0
<1>1. Touching(t, 0) = {}  BY DEF Touching
<1> QED BY <1>1, FS_EmptySet DEF Rank

(* One more triangle adds itself to the tiles it covers. *)
LEMMA RankStep ==
  ASSUME NEW t, NEW n \in Nat, n + 1 \in DOMAIN jobs
  PROVE  IF t \in SpanOf(jobs[n + 1])
           THEN /\ Touching(t, n + 1) = Touching(t, n) \cup {n + 1}
                /\ Rank(t, n + 1) = Rank(t, n) + 1
           ELSE /\ Touching(t, n + 1) = Touching(t, n)
                /\ Rank(t, n + 1) = Rank(t, n)
<1>1. CASE t \in SpanOf(jobs[n + 1])
  <2>1. Touching(t, n + 1) = Touching(t, n) \cup {n + 1}
    BY <1>1 DEF Touching
  <2>2. n + 1 \notin Touching(t, n)  BY DEF Touching
  <2>3. Rank(t, n + 1) = Rank(t, n) + 1
    BY <2>1, <2>2, RankType, FS_AddElement DEF Rank
  <2> QED BY <1>1, <2>1, <2>3
<1>2. CASE t \notin SpanOf(jobs[n + 1])
  <2>1. Touching(t, n + 1) = Touching(t, n)  BY <1>2 DEF Touching
  <2> QED BY <1>2, <2>1 DEF Rank
<1> QED BY <1>1, <1>2

(* Ranks grow along the emission order, and a triangle counts itself. *)
LEMMA RankOrder ==
  ASSUME NEW t, NEW n \in Nat, NEW j \in Touching(t, n)
  PROVE  j \in Nat /\ Rank(t, j) \in Nat /\ 1 <= Rank(t, j) /\ Rank(t, j) <= Rank(t, n)
<1>1. j \in 1 .. n /\ j \in Nat  BY DEF Touching
<1>2. Touching(t, j) \subseteq Touching(t, n)  BY <1>1 DEF Touching
<1>3. j \in Touching(t, j)  BY <1>1 DEF Touching
<1>4. Rank(t, j) <= Rank(t, n)  BY <1>1, <1>2, RankType, FS_Subset DEF Rank
<1>5. Rank(t, j) # 0  BY <1>1, <1>3, RankType, FS_EmptySet DEF Rank
<1>6. Rank(t, j) \in Nat  BY <1>1, RankType
<1> QED BY <1>1, <1>4, <1>5, <1>6

-----------------------------------------------------------------------------
(* Types *)

(* At boot the bins are empty. *)
LEMMA TypeInit == Init => TypeOK
BY NumTilesAssumption, CapsAssumption DEF Init, TypeOK, Zeros, Tile, Slot

(* Neither pass writes outside the pool or past the buffer. *)
LEMMA TypeStep == TypeOK /\ [Next]_vars => TypeOK'
<1> SUFFICES ASSUME TypeOK, [Next]_vars PROVE TypeOK'
  OBVIOUS
<1> USE NumTilesAssumption, CapsAssumption
<1>1. ASSUME NEW r \in Ref, BinTri(r) PROVE TypeOK'
  <2>1. CASE Buffer(r)
    <3>1. jobs' \in Seq(Ref) /\ Len(jobs') <= JobsCap
      BY <2>1 DEF Buffer, TypeOK
    <3>2. count' \in [Tile -> Nat]  BY <2>1 DEF Buffer, TypeOK
    <3> QED BY <1>1, <2>1, <3>1, <3>2 DEF BinTri, Buffer, TypeOK, counters
  <2>2. CASE Refuse
    BY <1>1, <2>2 DEF BinTri, Refuse, TypeOK, tiles
  <2> QED BY <1>1, <2>1, <2>2 DEF BinTri
<1>2. CASE StartFinalize
  BY <1>2 DEF StartFinalize, TypeOK, tiles, counters
<1>3. CASE Segment
  <2>1. at \in Tile /\ count[at] \in Nat /\ offset \in 0 .. PoolCap
    BY <1>3 DEF Segment, CutSegment, TypeOK, Tile
  <2>2. Granted \in 0 .. PoolCap /\ Granted <= count[at]
        /\ offset + Granted \in 0 .. PoolCap
    BY <2>1 DEF Granted, Avail
  <2>3. refs' \in [Tile -> 0 .. PoolCap] /\ cap' \in [Tile -> 0 .. PoolCap]
    BY <1>3, <2>1, <2>2 DEF Segment, CutSegment, TypeOK
  <2>4. short' \in [Tile -> Nat] /\ count' \in [Tile -> Nat]
    <3>1. short[at] + (count[at] - Granted) \in Nat
      BY <2>1, <2>2 DEF TypeOK
    <3> QED BY <1>3, <2>1, <3>1 DEF Segment, CutSegment, TypeOK
  <2> QED BY <1>3, <2>1, <2>2, <2>3, <2>4 DEF Segment, CutSegment, TypeOK, counters
<1>4. CASE StartReplay
  BY <1>4 DEF StartReplay, TypeOK, tiles, counters
<1>5. CASE Replay
  <2>1. at \in DOMAIN jobs /\ jobs[at] \in Ref  BY <1>5 DEF Replay, WriteRef, TypeOK
  <2>2. count' \in [Tile -> Nat]  BY <1>5 DEF Replay, WriteRef, TypeOK
  <2>3. total' \in Nat /\ dropped' \in Nat  BY <1>5 DEF Replay, WriteRef, TypeOK
  <2> QED BY <1>5, <2>1, <2>2, <2>3 DEF Replay, WriteRef, TypeOK
<1>6. CASE EndFinalize
  BY <1>6 DEF EndFinalize, TypeOK, tiles, counters
<1>7. CASE BeginFrame
  BY <1>7 DEF BeginFrame, OutInit, TypeOK, Zeros
<1>8. CASE UNCHANGED vars
  BY <1>8 DEF TypeOK, vars, tiles, counters
<1> QED
  BY <1>1, <1>2, <1>3, <1>4, <1>5, <1>6, <1>7, <1>8 DEF Next, Finalize

(* The bins of every frame are well typed: no write ever leaves the pool,  *)
(* the buffer or the tile array.                                           *)
THEOREM TypeCorrect == Spec => []TypeOK
BY TypeInit, TypeStep, PTL DEF Spec

-----------------------------------------------------------------------------
(* Progress of the passes *)

(* At boot nothing is tallied. *)
LEMMA ProgressInit == Init => Progress
<1> SUFFICES ASSUME Init PROVE Progress
  OBVIOUS
<1>1. Len(jobs) = 0  BY DEF Init
<1>2. \A t \in Tile : Tallied(t)  BY <1>1, RankZero DEF Init, Tallied, Demand, Zeros
<1> QED BY <1>1, <1>2 DEF Init, Progress

(* Buffering a triangle raises the demand of the tiles it covers by one. *)
LEMMA DemandGrows ==
  ASSUME TypeOK, NEW r \in Ref, jobs' = Append(jobs, r), NEW t
  PROVE  Demand(t)' = IF t \in SpanOf(r) THEN Demand(t) + 1 ELSE Demand(t)
<1> DEFINE m == Len(jobs)
<1>1. m \in Nat /\ Len(jobs') = m + 1 /\ DOMAIN jobs = 1 .. m /\ DOMAIN jobs' = 1 .. m + 1
  BY DEF TypeOK
<1>2. jobs'[m + 1] = r /\ \A j \in 1 .. m : jobs'[j] = jobs[j]
  BY DEF TypeOK
<1>3. Touching(t, Len(jobs))' = Touching(t, m) \cup (IF t \in SpanOf(r) THEN {m + 1} ELSE {})
  BY <1>1, <1>2 DEF Touching
<1>4. m + 1 \notin Touching(t, m)  BY <1>1 DEF Touching
<1>5. IsFiniteSet(Touching(t, m)) /\ Cardinality(Touching(t, m)) \in Nat
  BY <1>1, RankType DEF Rank
<1>6. Demand(t)' = Cardinality(Touching(t, Len(jobs))') /\ Demand(t) = Cardinality(Touching(t, m))
  BY DEF Demand, Rank
<1>7. CASE t \in SpanOf(r)
  BY <1>3, <1>4, <1>5, <1>6, <1>7, FS_AddElement
<1>8. CASE t \notin SpanOf(r)
  BY <1>3, <1>6, <1>8
<1> QED BY <1>7, <1>8

(* What is counted along the emission order does not change while the     *)
(* buffer does not.                                                       *)
LEMMA RanksFrozen ==
  ASSUME jobs' = jobs
  PROVE  /\ \A t, n : Touching(t, n)' = Touching(t, n) /\ Rank(t, n)' = Rank(t, n)
         /\ \A t : Demand(t)' = Demand(t)
BY DEF Touching, Rank, Demand

(* Pass 1 leaves the tiles it has been through cut, in order, end to end. *)
LEMMA SegmentCuts ==
  ASSUME TypeOK, Progress, Segment
  PROVE  Progress'
<1> USE NumTilesAssumption, CapsAssumption
<1>1. /\ at \in Tile /\ count[at] \in Nat /\ offset \in 0 .. PoolCap
      /\ CutUpTo(at) /\ total = 0 /\ jobs' = jobs /\ stage' = "segment"
      /\ Tallied(at)
  BY DEF Segment, CutSegment, TypeOK, Tile, Progress
<1>2. /\ Granted \in Nat /\ Granted <= count[at]
      /\ Granted < count[at] => offset + Granted = PoolCap
      /\ offset = PoolCap => Granted = 0
      /\ offset' = offset + Granted
  BY <1>1 DEF Granted, Avail, Segment, CutSegment
<1>3. ASSUME NEW t \in Tile, t # at
      PROVE  cap'[t] = cap[t] /\ refs'[t] = refs[t] /\ short'[t] = short[t] /\ count'[t] = count[t]
  BY <1>3 DEF Segment, CutSegment, TypeOK
<1>4. cap'[at] = Granted /\ refs'[at] = offset /\ short'[at] = short[at] + (count[at] - Granted)
      /\ count'[at] = 0
  BY <1>1 DEF Segment, CutSegment, TypeOK
<1>5. \A t \in Tile : Demand(t)' = Demand(t) /\ Demand(t) \in Nat
  BY <1>1, RanksFrozen, RankType DEF Demand, TypeOK
<1>8. at' = at + 1 /\ at + 1 <= NumTiles /\ total' = 0
  BY <1>1 DEF Segment, CutSegment, counters, Tile
<1>6. CutUpTo(at)'
  <2> SUFFICES ASSUME NEW t \in Tile, t < at + 1
               PROVE  /\ cap'[t] + short'[t] = Demand(t)'
                      /\ short'[t] > 0 => offset' = PoolCap
                      /\ refs'[t] + cap'[t] <= offset'
                      /\ \A s \in Tile : s < t => refs'[s] + cap'[s] <= refs'[t]
    BY <1>8 DEF CutUpTo
  <2>1. CASE t = at
    <3>1. count[at] = Demand(at) /\ short[at] = 0  BY <1>1 DEF Tallied
    <3>2. \A s \in Tile : s < at => refs'[s] + cap'[s] <= offset
      BY <1>1, <1>3 DEF CutUpTo, Tile
    <3> QED BY <2>1, <3>1, <3>2, <1>1, <1>2, <1>4, <1>5
  <2>2. CASE t < at
    <3>1. /\ cap[t] + short[t] = Demand(t)
          /\ short[t] > 0 => offset = PoolCap
          /\ refs[t] + cap[t] <= offset
          /\ \A s \in Tile : s < t => refs[s] + cap[s] <= refs[t]
      BY <1>1, <2>2 DEF CutUpTo
    <3>2. \A s \in Tile : s < t => refs'[s] + cap'[s] <= refs'[t]
      BY <3>1, <2>2, <1>1, <1>3 DEF Tile
    <3>3. cap[t] \in Nat /\ refs[t] \in Nat  BY DEF TypeOK
    <3>4. cap'[t] = cap[t] /\ refs'[t] = refs[t] /\ short'[t] = short[t]
      BY <2>2, <1>1, <1>3 DEF Tile
    <3>5. cap'[t] + short'[t] = Demand(t)'  BY <3>1, <3>4, <1>5
    <3>6. short'[t] > 0 => offset' = PoolCap  BY <3>1, <3>4, <1>1, <1>2
    <3>7. refs'[t] + cap'[t] <= offset'  BY <3>1, <3>3, <3>4, <1>1, <1>2
    <3> QED BY <3>2, <3>5, <3>6, <3>7
  <2> QED BY <2>1, <2>2, <1>1 DEF Tile
<1>7. ASSUME NEW t \in Tile
      PROVE  IF t < at + 1 THEN count'[t] = 0 ELSE count'[t] = Demand(t)' /\ short'[t] = 0
  <2>1. IF t < at THEN count[t] = 0 ELSE count[t] = Demand(t) /\ short[t] = 0
    BY <1>1 DEF Progress, Tallied, Segment, CutSegment
  <2> QED BY <2>1, <1>1, <1>3, <1>4, <1>5 DEF Tile
<1> QED BY <1>1, <1>6, <1>7, <1>8 DEF Progress, Tallied

(* The slot of a tile's cursor lies in that tile's segment, and no other's. *)
LEMMA CursorsApart ==
  ASSUME TypeOK, CutUpTo(NumTiles),
         NEW s \in Tile, NEW t \in Tile, s # t,
         NEW i \in Nat, i < cap[s], NEW k \in Nat, k < cap[t]
  PROVE  refs[s] + i # refs[t] + k /\ refs[t] + k \in Slot
<1> USE NumTilesAssumption, CapsAssumption
<1>1. /\ refs[s] \in Nat /\ refs[t] \in Nat /\ cap[s] \in Nat /\ cap[t] \in Nat
      /\ offset \in 0 .. PoolCap
  BY DEF TypeOK
<1>2. s < t \/ t < s  BY DEF Tile
<1>3. /\ s < t => refs[s] + cap[s] <= refs[t]
      /\ t < s => refs[t] + cap[t] <= refs[s]
      /\ refs[t] + cap[t] <= offset
  BY DEF CutUpTo, Tile
<1> QED BY <1>1, <1>2, <1>3 DEF Slot

(* Replaying one triangle keeps every bin the beginning of the emission    *)
(* order: it goes behind the ones before it and over nobody's slot.        *)
LEMMA ReplayFills ==
  ASSUME TypeOK, Progress, Replay
  PROVE  Progress'
<1> USE NumTilesAssumption, CapsAssumption
<1> DEFINE n == at - 1
           r == jobs[at]
<1>1. /\ n \in Nat /\ n + 1 = at /\ at \in DOMAIN jobs /\ at \in 1 .. Len(jobs)
      /\ r \in Ref /\ CutUpTo(NumTiles) /\ FilledUpTo(n)
      /\ stage' = "replay" /\ jobs' = jobs /\ at' = at + 1
  BY DEF Replay, WriteRef, TypeOK, Progress
<1>2. cap' = cap /\ refs' = refs /\ short' = short /\ offset' = offset
  BY DEF Replay, WriteRef
<1>3. CutUpTo(NumTiles)'
  BY <1>1, <1>2, RanksFrozen DEF CutUpTo
<1>4. \A t \in Tile : Rank(t, n) \in Nat /\ cap[t] \in Nat /\ refs[t] \in Nat
  BY <1>1, RankType DEF TypeOK
<1>5. ASSUME NEW t \in Tile
      PROVE  IF t \in SpanOf(r)
               THEN /\ Touching(t, at) = Touching(t, n) \cup {at}
                    /\ Rank(t, at) = Rank(t, n) + 1
               ELSE /\ Touching(t, at) = Touching(t, n)
                    /\ Rank(t, at) = Rank(t, n)
  <2>1. n + 1 \in DOMAIN jobs /\ jobs[n + 1] = r  BY <1>1
  <2> QED BY <2>1, <1>1, RankStep
<1>6. \A t \in Tile : count[t] = IF Rank(t, n) < cap[t] THEN Rank(t, n) ELSE cap[t]
  BY <1>1 DEF FilledUpTo
<1>7. \A t \in Tile : t \in Placed <=> t \in SpanOf(r) /\ Rank(t, n) < cap[t]
  BY <1>4, <1>6 DEF Placed
<1>8. Placed \subseteq Tile
  BY <1>1, SpanAssumption DEF Placed
<1>9. \A t \in Tile : count'[t] = IF Rank(t, at) < cap[t] THEN Rank(t, at) ELSE cap[t]
  <2> SUFFICES ASSUME NEW t \in Tile
               PROVE  count'[t] = IF Rank(t, at) < cap[t] THEN Rank(t, at) ELSE cap[t]
    OBVIOUS
  <2>1. count'[t] = IF t \in Placed THEN count[t] + 1 ELSE count[t]
    BY DEF Replay, WriteRef
  <2> QED BY <2>1, <1>4, <1>5, <1>6, <1>7
<1>10. ASSUME NEW t \in Tile, NEW j \in Touching(t, at), Rank(t, j) <= cap[t]
       PROVE  pool'[refs[t] + Rank(t, j) - 1] = jobs[j]
  <2> DEFINE i == refs[t] + Rank(t, j) - 1
  <2>1. Rank(t, j) \in Nat /\ 1 <= Rank(t, j)
    BY <1>1, RankOrder
  <2>2. i \in Slot
    <3>1. refs[t] + cap[t] <= offset /\ offset <= PoolCap
      BY <1>1 DEF CutUpTo, TypeOK, Tile
    <3> QED BY <3>1, <2>1, <1>4, <1>10, SMTT(30) DEF Slot, TypeOK
  <2>3. pool'[i] = IF \E s \in Placed : i = refs[s] + count[s] THEN r ELSE pool[i]
    BY <2>2 DEF Replay, WriteRef
  <2>4. CASE j = at
    <3>1. t \in SpanOf(r)  BY <2>4 DEF Touching
    <3>2. Rank(t, n) < cap[t] /\ Rank(t, j) = Rank(t, n) + 1
      BY <3>1, <2>4, <1>4, <1>5, <1>10
    <3>3. t \in Placed /\ i = refs[t] + count[t]
      BY <3>1, <3>2, <1>4, <1>6, <1>7
    <3> QED BY <3>3, <2>3, <2>4
  <2>5. CASE j # at
    <3>1. j \in Touching(t, n)  BY <2>5, <1>5
    <3>2. Rank(t, j) <= Rank(t, n)  BY <3>1, <1>1, RankOrder
    <3>3. pool[i] = jobs[j]  BY <3>1, <1>1, <1>10 DEF FilledUpTo
    <3>4. ASSUME NEW s \in Placed PROVE i # refs[s] + count[s]
      <4>1. s \in Tile /\ count[s] = Rank(s, n) /\ Rank(s, n) < cap[s] /\ Rank(s, n) \in Nat
        BY <1>4, <1>6, <1>7, <1>8
      <4>2. CASE s = t
        BY <4>1, <4>2, <3>2, <2>1, <1>4
      <4>3. CASE s # t
        <5>1. Rank(t, j) - 1 \in Nat /\ Rank(t, j) - 1 < cap[t]
          BY <2>1, <1>4, <1>10
        <5>2. refs[s] + Rank(s, n) # refs[t] + (Rank(t, j) - 1)
          BY <5>1, <4>1, <4>3, <1>1, CursorsApart
        <5> QED BY <5>2, <4>1, <2>1, <1>4
      <4> QED BY <4>2, <4>3
    <3> QED BY <3>3, <3>4, <2>3
  <2> QED BY <2>4, <2>5
<1>11. total' = Cardinality({j \in 1 .. at : Complete(j)})
  <2> DEFINE done(k) == {j \in 1 .. k : Complete(j)}
  <2>1. total = Cardinality(done(n))  BY <1>1 DEF FilledUpTo
  <2>2. IsFiniteSet(done(n)) /\ at \notin done(n)
    <3>1. IsFiniteSet(1 .. n)  BY <1>1, FS_Interval
    <3> QED BY <3>1, <1>1, FS_Subset
  <2>3. Complete(at) <=> Placed = SpanOf(r)
    <3>1. SpanOf(r) \subseteq Tile  BY <1>1, SpanAssumption
    <3>2. \A t \in SpanOf(r) : Rank(t, at) <= cap[t] <=> Rank(t, n) < cap[t]
      BY <3>1, <1>4, <1>5
    <3>3. Placed = {t \in SpanOf(r) : Rank(t, n) < cap[t]}
      BY <3>1, <1>7, <1>8 DEF Placed
    <3> QED BY <3>2, <3>3 DEF Complete
  <2>4. CASE Complete(at)
    <3>1. done(at) = done(n) \cup {at}  BY <2>4, <1>1
    <3>2. Cardinality(done(at)) = Cardinality(done(n)) + 1
      BY <3>1, <2>2, FS_AddElement
    <3> QED BY <3>2, <2>1, <2>3, <2>4 DEF Replay, WriteRef
  <2>5. CASE ~Complete(at)
    <3>1. done(at) = done(n)  BY <2>5, <1>1
    <3> QED BY <3>1, <2>1, <2>3, <2>5 DEF Replay, WriteRef
  <2> QED BY <2>4, <2>5
<1>12. PICK m \in Nat : m = at  BY <1>1
<1>13. FilledUpTo(m)'
  <2>1. \A j : Complete(j)' <=> Complete(j)
    BY <1>1, <1>2, RanksFrozen DEF Complete
  <2>2. \A t \in Tile : count'[t] = IF Rank(t, m)' < cap'[t] THEN Rank(t, m)' ELSE cap'[t]
    BY <1>1, <1>2, <1>9, <1>12, RanksFrozen
  <2>3. \A t \in Tile : \A j \in Touching(t, m)' :
          Rank(t, j)' <= cap'[t] => pool'[refs'[t] + Rank(t, j)' - 1] = jobs'[j]
    BY <1>1, <1>2, <1>10, <1>12, RanksFrozen
  <2>4. total' = Cardinality({j \in 1 .. m : Complete(j)'})
    BY <2>1, <1>11, <1>12
  <2> QED BY <2>2, <2>3, <2>4 DEF FilledUpTo
<1>14. FilledUpTo(at - 1)'
  <2>1. at' - 1 = m  BY <1>1, <1>12
  <2> QED BY <2>1, <1>13
<1>15. at' \in 1 .. Len(jobs') + 1  BY <1>1
<1> QED BY <1>1, <1>3, <1>14, <1>15 DEF Progress

(* What has been cut and filled stays so while the bins are left alone. *)
LEMMA PassesFrozen ==
  ASSUME jobs' = jobs, tiles' = tiles, pool' = pool, offset' = offset, total' = total,
         NEW n
  PROVE  (CutUpTo(n)' <=> CutUpTo(n)) /\ (FilledUpTo(n)' <=> FilledUpTo(n))
<1>1. cap' = cap /\ refs' = refs /\ short' = short /\ count' = count
  BY DEF tiles
<1>2. CutUpTo(n)' <=> CutUpTo(n)  BY <1>1, RanksFrozen DEF CutUpTo
<1>3. \A j : Complete(j)' <=> Complete(j)  BY <1>1, RanksFrozen DEF Complete
<1>4. {j \in 1 .. n : Complete(j)'} = {j \in 1 .. n : Complete(j)}  BY <1>3
<1>5. FilledUpTo(n)' <=> FilledUpTo(n)
  <2>1. \A t, k : Rank(t, k)' = Rank(t, k) /\ Touching(t, k)' = Touching(t, k)
    BY RanksFrozen
  <2>2. (\A t \in Tile : count'[t] = IF Rank(t, n)' < cap'[t] THEN Rank(t, n)' ELSE cap'[t])
        <=> (\A t \in Tile : count[t] = IF Rank(t, n) < cap[t] THEN Rank(t, n) ELSE cap[t])
    BY <1>1, <2>1
  <2>3. (\A t \in Tile : \A j \in Touching(t, n)' :
           Rank(t, j)' <= cap'[t] => pool'[refs'[t] + Rank(t, j)' - 1] = jobs'[j])
        <=> (\A t \in Tile : \A j \in Touching(t, n) :
               Rank(t, j) <= cap[t] => pool[refs[t] + Rank(t, j) - 1] = jobs[j])
    BY <1>1, <2>1
  <2>4. (total' = Cardinality({j \in 1 .. n : Complete(j)'}))
        <=> (total = Cardinality({j \in 1 .. n : Complete(j)}))
    BY <1>4
  <2> QED BY <2>2, <2>3, <2>4 DEF FilledUpTo
<1> QED BY <1>2, <1>5

(* The other steps tally a triangle, go from one pass to the next with     *)
(* nothing left to do in it, or start a frame.                             *)
LEMMA ProgressStep == IInv /\ [Next]_vars => Progress'
<1> SUFFICES ASSUME TypeOK, Progress, [Next]_vars PROVE Progress'
  BY DEF IInv
<1> USE NumTilesAssumption, CapsAssumption
<1>0. Len(jobs) \in Nat  BY DEF TypeOK
<1>1. ASSUME NEW r \in Ref, BinTri(r) PROVE Progress'
  <2>1. /\ stage = "bin" /\ stage' = "bin" /\ total = 0 /\ total' = 0
        /\ short' = short /\ \A t \in Tile : count[t] = Demand(t) /\ short[t] = 0
    BY <1>1 DEF BinTri, Buffer, Refuse, Progress, Tallied, counters, tiles
  <2>2. CASE Buffer(r)
    <3>1. jobs' = Append(jobs, r)  BY <2>2 DEF Buffer
    <3>2. \A t \in Tile : Demand(t)' = IF t \in SpanOf(r) THEN Demand(t) + 1 ELSE Demand(t)
      BY <3>1, DemandGrows
    <3>3. \A t \in Tile : count'[t] = IF t \in SpanOf(r) THEN count[t] + 1 ELSE count[t]
      BY <2>2 DEF Buffer
    <3> QED BY <2>1, <3>2, <3>3 DEF Progress, Tallied
  <2>3. CASE Refuse
    <3>1. jobs' = jobs /\ count' = count  BY <2>3 DEF Refuse, tiles
    <3> QED BY <2>1, <3>1, RanksFrozen DEF Progress, Tallied
  <2> QED BY <1>1, <2>2, <2>3 DEF BinTri
<1>2. CASE StartFinalize
  <2>1. /\ stage = "bin" /\ stage' = "segment" /\ at' = 0 /\ jobs' = jobs
        /\ count' = count /\ short' = short /\ total' = total
    BY <1>2 DEF StartFinalize, tiles, counters
  <2>2. \A t \in Tile : ~(t < at')  BY <2>1 DEF Tile
  <2>3. CutUpTo(at)'  BY <2>2 DEF CutUpTo
  <2>4. \A t \in Tile : Tallied(t)'  BY <2>1, RanksFrozen DEF Progress, Tallied
  <2> QED BY <2>1, <2>2, <2>3, <2>4 DEF Progress
<1>3. CASE Segment
  BY <1>3, SegmentCuts
<1>4. CASE StartReplay
  <2>1. /\ stage = "segment" /\ at = NumTiles /\ stage' = "replay" /\ at' = 1 /\ jobs' = jobs
        /\ count' = count /\ short' = short /\ cap' = cap /\ refs' = refs
        /\ offset' = offset /\ total' = total /\ total = 0 /\ CutUpTo(NumTiles)
        /\ \A t \in Tile : count[t] = 0 /\ cap[t] \in Nat
    BY <1>4 DEF StartReplay, tiles, counters, Progress, Tile, TypeOK
  <2>2. CutUpTo(NumTiles)'  BY <2>1, RanksFrozen DEF CutUpTo
  <2>3. \A t : Touching(t, 0)' = {} /\ Rank(t, 0)' = 0  BY <2>1, RankZero, RanksFrozen
  <2>4. {j \in 1 .. 0 : Complete(j)'} = {}  OBVIOUS
  <2>5. FilledUpTo(0)'  BY <2>1, <2>3, <2>4, FS_EmptySet DEF FilledUpTo
  <2>6. FilledUpTo(at - 1)'
    <3>1. at' - 1 = 0  BY <2>1
    <3> QED BY <3>1, <2>5
  <2> QED BY <2>1, <2>2, <2>6, <1>0 DEF Progress
<1>5. CASE Replay
  BY <1>5, ReplayFills
<1>6. CASE EndFinalize
  <2>1. /\ stage = "replay" /\ at > Len(jobs) /\ stage' = "packed" /\ jobs' = jobs
        /\ tiles' = tiles /\ pool' = pool /\ offset' = offset /\ total' = total
        /\ at \in 1 .. Len(jobs) + 1 /\ CutUpTo(NumTiles) /\ FilledUpTo(at - 1)
    BY <1>6 DEF EndFinalize, counters, Progress
  <2>2. PICK m \in Nat : m = Len(jobs) /\ m = at - 1  BY <2>1, <1>0
  <2>3. FilledUpTo(m)  BY <2>1, <2>2
  <2>4. CutUpTo(NumTiles)' /\ FilledUpTo(m)'  BY <2>1, <2>3, PassesFrozen
  <2>5. FilledUpTo(Len(jobs))'
    <3>1. Len(jobs') = m  BY <2>1, <2>2
    <3> QED BY <3>1, <2>4
  <2> QED BY <2>1, <2>4, <2>5 DEF Progress
<1>7. CASE BeginFrame
  <2>1. stage' = "bin" /\ jobs' = <<>> /\ count' = Zeros /\ short' = Zeros /\ total' = 0
    BY <1>7 DEF BeginFrame, OutInit
  <2>2. \A t : Demand(t)' = 0
    <3>1. \A t : Touching(t, Len(jobs))' = {}  BY <2>1 DEF Touching
    <3> QED BY <3>1, FS_EmptySet DEF Demand, Rank
  <2> QED BY <2>1, <2>2 DEF Progress, Tallied, Zeros
<1>8. CASE UNCHANGED vars
  <2>1. /\ jobs' = jobs /\ tiles' = tiles /\ pool' = pool /\ offset' = offset
        /\ total' = total /\ stage' = stage /\ at' = at
    BY <1>8 DEF vars, counters
  <2>2. \A t : Tallied(t)' <=> Tallied(t)  BY <2>1, RanksFrozen DEF Tallied, tiles
  <2>3. count' = count  BY <2>1 DEF tiles
  <2>4. PICK m, n, k : m = at /\ n = at - 1 /\ k = Len(jobs)  OBVIOUS
  <2>5. CutUpTo(at)' <=> CutUpTo(at)
    <3>1. CutUpTo(m)' <=> CutUpTo(m)  BY <2>1, PassesFrozen
    <3> QED BY <3>1, <2>1, <2>4
  <2>6. FilledUpTo(at - 1)' <=> FilledUpTo(at - 1)
    <3>1. FilledUpTo(n)' <=> FilledUpTo(n)  BY <2>1, PassesFrozen
    <3> QED BY <3>1, <2>1, <2>4
  <2>7. FilledUpTo(Len(jobs))' <=> FilledUpTo(Len(jobs))
    <3>1. FilledUpTo(k)' <=> FilledUpTo(k)  BY <2>1, PassesFrozen
    <3> QED BY <3>1, <2>1, <2>4
  <2>8. CutUpTo(NumTiles)' <=> CutUpTo(NumTiles)  BY <2>1, PassesFrozen
  <2> QED BY <2>1, <2>2, <2>3, <2>5, <2>6, <2>7, <2>8 DEF Progress
<1> QED
  BY <1>1, <1>2, <1>3, <1>4, <1>5, <1>6, <1>7, <1>8 DEF Next, Finalize

(* In every frame, pass 1 has cut the tiles it went through into segments  *)
(* end to end, and pass 2 has put into each the beginning of what covers it. *)
THEOREM Inductive == Spec => []IInv
<1>1. Init => IInv  BY TypeInit, ProgressInit DEF IInv
<1>2. IInv /\ [Next]_vars => IInv'
  BY TypeStep, ProgressStep DEF IInv
<1> QED BY <1>1, <1>2, PTL DEF Spec

-----------------------------------------------------------------------------
(* The properties *)

(* raster_tile is handed each tile's triangles in emission order, whatever *)
(* the capacities: the pool's end cuts the order short and never stirs it. *)
THEOREM EmissionOrder == Spec => []BinsInEmissionOrder
<1>1. IInv => BinsInEmissionOrder
  <2> SUFFICES ASSUME TypeOK, CutUpTo(NumTiles), FilledUpTo(Len(jobs)), NEW t \in Tile
               PROVE  /\ count[t] = cap[t]
                      /\ \A j \in Touching(t, Len(jobs)) :
                           Rank(t, j) <= cap[t] => pool[refs[t] + Rank(t, j) - 1] = jobs[j]
    BY DEF IInv, Progress, BinsInEmissionOrder
  <2>1. Len(jobs) \in Nat /\ cap[t] \in Nat /\ short[t] \in Nat  BY DEF TypeOK
  <2>2. cap[t] + short[t] = Rank(t, Len(jobs)) /\ Rank(t, Len(jobs)) \in Nat
    BY <2>1, RankType, NumTilesAssumption DEF CutUpTo, Demand, Tile
  <2>3. count[t] = cap[t]  BY <2>1, <2>2 DEF FilledUpTo
  <2> QED BY <2>3 DEF FilledUpTo
<1> QED BY <1>1, Inductive, PTL

(* A reference is missing from a bin only when the pool is used up, and is *)
(* counted at its tile.                                                    *)
THEOREM EveryLossCounted == Spec => []LossIsCounted
<1>1. IInv => LossIsCounted
  <2> SUFFICES ASSUME CutUpTo(NumTiles), NEW t \in Tile
               PROVE  /\ cap[t] + short[t] = Demand(t)
                      /\ short[t] > 0 => offset = PoolCap
    BY DEF IInv, Progress, LossIsCounted
  <2>1. t < NumTiles  BY NumTilesAssumption DEF Tile
  <2> QED BY <2>1 DEF CutUpTo
<1> QED BY <1>1, Inductive, PTL

(* No two tiles share a slot of the pool. *)
THEOREM SegmentsNeverOverlap == Spec => []SegmentsDisjoint
<1>1. IInv => SegmentsDisjoint
  <2> SUFFICES ASSUME TypeOK, CutUpTo(NumTiles), NEW t \in Tile
               PROVE  /\ refs[t] + cap[t] <= offset /\ offset <= PoolCap
                      /\ \A s \in Tile : s < t => refs[s] + cap[s] <= refs[t]
    BY DEF IInv, Progress, SegmentsDisjoint
  <2>1. t < NumTiles  BY NumTilesAssumption DEF Tile
  <2>2. offset <= PoolCap  BY CapsAssumption DEF TypeOK
  <2> QED BY <2>1, <2>2 DEF CutUpTo
<1> QED BY <1>1, Inductive, PTL

(* tris_total is the number of triangles drawn everywhere they reach. *)
THEOREM TotalCountsComplete == Spec => []TotalIsComplete
<1>1. IInv => TotalIsComplete
  <2> SUFFICES ASSUME TypeOK, FilledUpTo(Len(jobs))
               PROVE  total = Cardinality({j \in DOMAIN jobs : Complete(j)})
    BY DEF IInv, Progress, TotalIsComplete
  <2>1. DOMAIN jobs = 1 .. Len(jobs)  BY DEF TypeOK
  <2> QED BY <2>1 DEF FilledUpTo
<1> QED BY <1>1, Inductive, PTL
=============================================================================
