---------------------------- MODULE ProfilerProof ----------------------------
(***************************************************************************)
(* Proofs about the frame profiler, for any tiles, triangles, timer span   *)
(* and frames.  What a core still runs is a path through its places, from  *)
(* where it stands to the end of its code; the blocks open there are those *)
(* around the place.  The invariant says what the rows lack of the times   *)
(* while the blocks are open, and where the two cores can be at once.      *)
(***************************************************************************)
EXTENDS Profiler, NaturalsInduction, WellFoundedInduction, SequenceTheorems, TLAPS

Instr == [op : {"enter", "leave", "wake", "drain", "join", "done"}, a : Anchor]

TileBlock == {"raster_tile", "sweep_opaque", "sweep_xlu"} \cup Fine

(* Where a core can stand in its code: the innermost open block, and how   *)
(* far the dispatch is. Under "tile" a tile is claimed and not yet counted.*)
Place(c) ==
  IF c = 0
  THEN [at : {"none", "root", "cmdgen", "geom", "clear_blit"}, stage : {"before"}]
       \cup [at : {"raster_dispatch"}, stage : {"waking", "draining", "drained"}]
       \cup [at : TileBlock \cup {"raster_dispatch"}, stage : {"tile"}]
       \cup [at : {"raster_dispatch", "root", "present", "none"}, stage : {"joined"}]
  ELSE [at : {"none"}, stage : {"idle"}]
       \cup [at : {"none", "raster_dispatch"}, stage : {"draining", "drained"}]
       \cup [at : TileBlock \cup {"raster_dispatch"}, stage : {"tile"}]

First(c) == [at |-> "none", stage |-> IF c = 0 THEN "before" ELSE "draining"]
Final(c) == [at |-> "none", stage |-> IF c = 0 THEN "joined" ELSE "idle"]

Outer(c) == IF c = 0 THEN Around ELSE [Around EXCEPT !["raster_dispatch"] = "none"]

(* An instruction leads from a place to another. *)
Entering(c, p, o, q) ==
  /\ o.op = "enter" /\ o.a # "none"
  /\ p.at = Outer(c)[o.a] /\ q.at = o.a
  /\ IF c = 0 /\ o.a = "raster_dispatch"
     THEN p.stage = "before" /\ q.stage = "waking"
     ELSE q.stage = p.stage

Leaving(c, p, o, q) ==
  /\ o.op = "leave" /\ p.at # "none"
  /\ q.at = Outer(c)[p.at]
  /\ q.stage = IF p.at = "raster_tile" THEN "draining" ELSE p.stage

Passing(c, p, o, q) ==
  /\ q.at = p.at /\ p.at = IF o.op = "done" THEN "none" ELSE "raster_dispatch"
  /\ \/ o.op = "wake" /\ c = 0 /\ p.stage = "waking" /\ q.stage = "draining"
     \/ o.op = "drain" /\ p.stage = "draining" /\ q.stage = "drained"
     \/ o.op = "join" /\ c = 0 /\ p.stage = "drained" /\ q.stage = "joined"
     \/ o.op = "done" /\ c = 1 /\ p.stage = "drained" /\ q.stage = "idle"

Goes(c, p, o, q) == Entering(c, p, o, q) \/ Leaving(c, p, o, q) \/ Passing(c, p, o, q)

(* Code leads from a place to another, an instruction at a time. *)
Leads(c, code, p, q) ==
  \E at \in [1 .. Len(code) + 1 -> Place(c)] :
    /\ at[1] = p /\ at[Len(code) + 1] = q
    /\ \A i \in 1 .. Len(code) : Goes(c, at[i], code[i], at[i + 1])

-----------------------------------------------------------------------------
(* The blocks inside a block, itself included, and how deep it lies. *)
Inside ==
  LET opaque == {"sweep_opaque", "opaque_setup", "opaque_fill"}
      dispatch == TileBlock \cup {"raster_dispatch"}
  IN  [a \in Anchor |->
         IF a = "root" THEN Anchor \ {"none"}
         ELSE IF a = "raster_dispatch" THEN dispatch
         ELSE IF a = "raster_tile" THEN TileBlock
         ELSE IF a = "sweep_opaque" THEN opaque
         ELSE {a}]

Level ==
  [a \in Anchor |->
     IF a = "none" THEN 0 ELSE IF a = "root" THEN 1
     ELSE IF a = "raster_tile" THEN 3
     ELSE IF a \in {"sweep_opaque", "sweep_xlu", "aa_resolve"} THEN 4
     ELSE IF a \in {"opaque_setup", "opaque_fill"} THEN 5
     ELSE 2]

OpenBlock == [a : Anchor \ {"none"}, parent : Anchor, old : Nat, start : Nat]

(* The open blocks of a core at place p, if those around it began at st. *)
Nested(c, p, st) ==
  /\ parent[c] = p.at
  /\ stack[c] = <<>> <=> p.at = "none"
  /\ \A i \in 1 .. Len(stack[c]) :
       LET b == stack[c][i]
       IN  /\ b.a = IF i = 1 THEN p.at ELSE stack[c][i - 1].parent
           /\ b.parent = Outer(c)[b.a]
           /\ i = Len(stack[c]) <=> b.parent = "none"
           /\ Level[b.a] + i = Level[p.at] + 1
           /\ b.old = row[c][b.a].incl /\ b.start = st[b.a]

Timed(c) == Anchor \ (IF c = 0 THEN {"none"} ELSE {"none", "root"})

Spoiled(c, a) == \E b \in Anchor : (b = a \/ Around[b] = a) /\ row[c][b].wrapped

(* What its row says of a block, and what an open one has not yet told it. *)
Timely(c, p, st) ==
  /\ \A a \in Timed(c) :
       IF p.at \in Inside[a]
       THEN /\ st[a] <= clock
            /\ row[c][a].wrapped \/ TimeIn(c)[a] = row[c][a].incl + (clock - st[a])
            /\ p.at = a =>
                 Spoiled(c, a) \/ row[c][a].excl + (clock - st[a]) = self[c][a]
            /\ \A b \in Timed(c) : Outer(c)[b] = a /\ p.at \in Inside[b] =>
                 Spoiled(c, a) \/ row[c][a].excl + (st[b] - st[a]) = self[c][a]
       ELSE /\ row[c][a].wrapped \/ TimeIn(c)[a] = row[c][a].incl
            /\ Spoiled(c, a) \/ row[c][a].excl = self[c][a]
  /\ p.at \in Fine => systick[c] = clock - st[p.at]
  /\ \A a \in Anchor \ Fine : ~row[c][a].wrapped

-----------------------------------------------------------------------------
Parked == Final(1)
Claimed(p) == IF p.stage = "tile" THEN 1 ELSE 0
Hits(c) == row[c]["raster_tile"].hits

(* The cores meet: core 1 works between the token and DONE, which core 0   *)
(* waits for, and each claimed tile is counted or about to be.             *)
Meeting(p) ==
  /\ p[0].stage \in {"before", "waking"} =>
       ~go /\ ~done /\ p[1] = Parked /\ Hits(0) = 0 /\ Hits(1) = 0
  /\ p[0].stage \notin {"before", "waking"} =>
       Hits(0) + Hits(1) + Claimed(p[0]) + Claimed(p[1]) = tileNo
  /\ p[0].stage \in {"draining", "tile", "drained"} => (~go /\ ~done <=> p[1] # Parked)
  /\ p[0].stage = "joined" => ~go /\ ~done /\ p[1] = Parked
  /\ ~(go /\ done)
  /\ p[0].stage \in {"drained", "joined"} \/ p[1].stage = "drained" \/ done =>
       tileNo = ProfTiles

(* The tiles of core 1 all run within the dispatch of core 0. *)
Shared == TimeIn(1)["raster_tile"] <= TimeIn(0)["raster_dispatch"]

Under(p, st) ==
  /\ \A c \in ProfCore : /\ Leads(c, todo[c], p[c], Final(c))
                         /\ Nested(c, p[c], st[c]) /\ Timely(c, p[c], st[c])
  /\ Meeting(p) /\ Shared

Standing == {p \in [ProfCore -> Place(0) \cup Place(1)] : \A c \in ProfCore : p[c] \in Place(c)}
Starts == [ProfCore -> [Anchor -> Nat]]

Running ==
  phase \in {"frame", "end"} =>
    /\ \E p \in Standing, st \in Starts : Under(p, st)
    /\ phase = "end" => todo[0] = <<>>

Resting ==
  phase \in {"begin", "over"} =>
    /\ todo = [c \in ProfCore |-> <<>>] /\ stack = [c \in ProfCore |-> <<>>]
    /\ ~go /\ ~done

Totals ==
  /\ phase = "over" <=> frameNo = ProfFrames
  /\ accFrames = IF frameNo > Warmup THEN frameNo - Warmup ELSE 0
  /\ acc[0]["raster_tile"].hits + acc[1]["raster_tile"].hits = accFrames * ProfTiles

ProfInv ==
  /\ ProfTypeOK
  /\ todo \in [ProfCore -> Seq(Instr)] /\ stack \in [ProfCore -> Seq(OpenBlock)]
  /\ Running /\ Resting /\ Totals

-----------------------------------------------------------------------------
(* Paths: they are joined end to end, and taken an instruction at a time. *)
LEMMA LeadsNowhere ==
  ASSUME NEW c, NEW p \in Place(c)
  PROVE  Leads(c, <<>>, p, p)
<1> DEFINE at == [i \in 1 .. Len(<<>>) + 1 |-> p]
<1>1. /\ at \in [1 .. Len(<<>>) + 1 -> Place(c)] /\ Len(<<>>) = 0
      /\ at[1] = p /\ at[Len(<<>>) + 1] = p
  OBVIOUS
<1> HIDE DEF at
<1> QED BY <1>1 DEF Leads

LEMMA LeadsOn ==
  ASSUME NEW c, NEW T \in Seq(Instr), NEW U \in Seq(Instr),
         NEW p, NEW m, NEW q, Leads(c, T, p, m), Leads(c, U, m, q)
  PROVE  Leads(c, T \o U, p, q)
<1> DEFINE t == Len(T)
           u == Len(U)
<1>1. /\ t \in Nat /\ u \in Nat /\ Len(T \o U) = t + u
      /\ \A i \in 1 .. t : (T \o U)[i] = T[i]
      /\ \A i \in t + 1 .. t + u : (T \o U)[i] = U[i - t]
  BY ConcatProperties, LenProperties
<1>2. PICK A \in [1 .. t + 1 -> Place(c)] :
        A[1] = p /\ A[t + 1] = m /\ \A i \in 1 .. t : Goes(c, A[i], T[i], A[i + 1])
  BY DEF Leads
<1>3. PICK B \in [1 .. u + 1 -> Place(c)] :
        B[1] = m /\ B[u + 1] = q /\ \A i \in 1 .. u : Goes(c, B[i], U[i], B[i + 1])
  BY DEF Leads
<1> HIDE DEF t, u
<1> DEFINE at == [i \in 1 .. t + u + 1 |-> IF i <= t THEN A[i] ELSE B[i - t]]
<1>4. at \in [1 .. t + u + 1 -> Place(c)]
  BY <1>1
<1>5. at[1] = p
  <2>1. CASE t = 0  BY <1>1, <1>2, <1>3, <2>1
  <2>2. CASE t > 0  BY <1>1, <1>2, <2>2
  <2> QED BY <1>1, <2>1, <2>2
<1>6. at[t + u + 1] = q  BY <1>1, <1>3
<1>7. ASSUME NEW i \in 1 .. t + u
      PROVE  Goes(c, at[i], (T \o U)[i], at[i + 1])
  <2>1. CASE i < t
    <3>1. at[i] = A[i] /\ at[i + 1] = A[i + 1] /\ i \in 1 .. t  BY <1>1, <2>1
    <3> QED BY <1>1, <1>2, <3>1
  <2>2. CASE i = t
    <3>1. at[i] = A[i] /\ at[i + 1] = B[1] /\ i \in 1 .. t  BY <1>1, <2>2
    <3>2. at[i + 1] = A[i + 1]  BY <1>2, <1>3, <2>2, <3>1
    <3> QED BY <1>1, <1>2, <3>1, <3>2
  <2>3. CASE i > t
    <3> DEFINE j == i - t
    <3>1. j \in 1 .. u /\ i \in t + 1 .. t + u  BY <1>1, <2>3
    <3>2. at[i] = B[j] /\ at[i + 1] = B[j + 1]  BY <1>1, <2>3
    <3>3. (T \o U)[i] = U[j]  BY <1>1, <3>1
    <3> HIDE DEF j, at
    <3> QED BY <1>3, <3>1, <3>2, <3>3
  <2> QED BY <1>1, <2>1, <2>2, <2>3
<1> HIDE DEF at
<1> QED BY <1>1, <1>4, <1>5, <1>6, <1>7 DEF Leads

LEMMA LeadsOne ==
  ASSUME NEW c, NEW p \in Place(c), NEW q \in Place(c), NEW o, Goes(c, p, o, q)
  PROVE  Leads(c, <<o>>, p, q)
<1> DEFINE at == [i \in 1 .. 2 |-> IF i = 1 THEN p ELSE q]
<1>1. Len(<<o>>) = 1 /\ <<o>>[1] = o  OBVIOUS
<1>2. at \in [1 .. 2 -> Place(c)] /\ at[1] = p /\ at[2] = q  OBVIOUS
<1> HIDE DEF at
<1>3. \A i \in 1 .. 1 : Goes(c, at[i], <<o>>[i], at[i + 1])
  BY <1>1, <1>2
<1> QED BY <1>1, <1>2, <1>3 DEF Leads

LEMMA LeadsHead ==
  ASSUME NEW c, NEW T \in Seq(Instr), T # <<>>, NEW p, NEW q, Leads(c, T, p, q)
  PROVE  /\ p \in Place(c) /\ Tail(T) \in Seq(Instr) /\ Head(T) \in Instr
         /\ \E m \in Place(c) : Goes(c, p, Head(T), m) /\ Leads(c, Tail(T), m, q)
<1> DEFINE t == Len(T)
<1>1. /\ t \in Nat /\ t >= 1 /\ Len(Tail(T)) = t - 1 /\ Head(T) = T[1]
      /\ Tail(T) \in Seq(Instr) /\ Head(T) \in Instr
      /\ \A i \in 1 .. t - 1 : Tail(T)[i] = T[i + 1]
  BY HeadTailProperties, LenProperties, EmptySeq
<1>2. PICK A \in [1 .. t + 1 -> Place(c)] :
        A[1] = p /\ A[t + 1] = q /\ \A i \in 1 .. t : Goes(c, A[i], T[i], A[i + 1])
  BY DEF Leads
<1> HIDE DEF t
<1>3. A[1] \in Place(c) /\ A[2] \in Place(c) /\ Goes(c, p, T[1], A[2])
  BY <1>1, <1>2
<1> DEFINE at == [i \in 1 .. t |-> A[i + 1]]
<1>4. at \in [1 .. (t - 1) + 1 -> Place(c)] /\ at[1] = A[2] /\ at[(t - 1) + 1] = q
  BY <1>1, <1>2
<1>5. ASSUME NEW i \in 1 .. t - 1
      PROVE  Goes(c, at[i], Tail(T)[i], at[i + 1])
  <2>1. at[i] = A[i + 1] /\ at[i + 1] = A[(i + 1) + 1] /\ Tail(T)[i] = T[i + 1]
        /\ i + 1 \in 1 .. t
    BY <1>1
  <2> HIDE DEF at
  <2> QED BY <1>2, <2>1
<1> HIDE DEF at
<1>6. Leads(c, Tail(T), A[2], q)
  BY <1>1, <1>4, <1>5 DEF Leads
<1> QED BY <1>1, <1>2, <1>3, <1>6

LEMMA LeadsEnd ==
  ASSUME NEW c, NEW p, NEW q, Leads(c, <<>>, p, q)
  PROVE  p = q
BY DEF Leads

LEMMA LeadsBlock ==
  ASSUME NEW c, NEW a \in Anchor, NEW body \in Seq(Instr),
         NEW p \in Place(c), NEW q \in Place(c), NEW r \in Place(c), NEW s \in Place(c),
         Goes(c, p, Enters(a), q), Leads(c, body, q, r), Goes(c, r, Does("leave"), s)
  PROVE  Block(a, body) \in Seq(Instr) /\ Leads(c, Block(a, body), p, s)
<1>1. Enters(a) \in Instr /\ Does("leave") \in Instr
  BY DEF Enters, Does, Instr, Anchor
<1>2. <<Enters(a)>> \in Seq(Instr) /\ <<Does("leave")>> \in Seq(Instr)
  BY <1>1
<1>3. Leads(c, <<Enters(a)>>, p, q) /\ Leads(c, <<Does("leave")>>, r, s)
  BY LeadsOne
<1>4. <<Enters(a)>> \o body \in Seq(Instr)
  BY <1>2, ConcatProperties
<1>5. Leads(c, <<Enters(a)>> \o body, p, r)
  BY <1>2, <1>3, LeadsOn
<1>6. (<<Enters(a)>> \o body) \o <<Does("leave")>> \in Seq(Instr)
  BY <1>2, <1>4, ConcatProperties
<1>7. Leads(c, (<<Enters(a)>> \o body) \o <<Does("leave")>>, p, s)
  BY <1>2, <1>3, <1>4, <1>5, LeadsOn
<1> QED BY <1>6, <1>7 DEF Block

-----------------------------------------------------------------------------
(* Induction, for sets: a set of numbers has a least one, so that one with  *)
(* 0 and the successor of each of its members has them all.                *)
LEMMA LeastOf ==
  ASSUME NEW T \in SUBSET Nat, T # {}
  PROVE  \E n \in T : \A m \in T : n <= m
<1> DEFINE R == OpToRel(<, Nat)
<1>1. IsWellFoundedOn(R, Nat)  BY NatLessThanWellFounded
<1>2. \A m, n \in Nat : m < n => <<m, n>> \in R  BY DEF OpToRel
<1> HIDE DEF R
<1>3. PICK n \in T : \A m \in T : ~(<<m, n>> \in R)  BY <1>1, WFMin
<1>4. \A m \in T : n \in Nat /\ m \in Nat /\ ~(m < n)  BY <1>2, <1>3
<1>5. \A m \in T : n <= m  BY <1>4
<1> QED BY <1>5

LEMMA SetInduction ==
  ASSUME NEW T, 0 \in T, \A n \in Nat : n \in T => n + 1 \in T
  PROVE  Nat \subseteq T
<1>1. SUFFICES ASSUME Nat \ T # {} PROVE FALSE
  OBVIOUS
<1>2. PICK n \in Nat \ T : \A m \in Nat \ T : n <= m
  BY <1>1, LeastOf
<1>3. n # 0 /\ n - 1 \in Nat  BY <1>2
<1>4. n - 1 \in T  BY <1>2, <1>3
<1> QED BY <1>2, <1>3, <1>4

(* f[i] holds the first i of the sequences, one after the other. *)
Joins(f, seqs, n) ==
  \A i \in 1 .. n : f[i] = IF i = 1 THEN seqs[i] ELSE f[i - 1] \o seqs[i]

LEMMA JoinsOn ==
  ASSUME NEW S, NEW k \in Nat, NEW seqs, seqs[k + 1] \in Seq(S),
         NEW g \in [1 .. k -> Seq(S)], Joins(g, seqs, k)
  PROVE  \E f \in [1 .. k + 1 -> Seq(S)] : Joins(f, seqs, k + 1)
<1> DEFINE next == IF k = 0 THEN seqs[1] ELSE g[k] \o seqs[k + 1]
           f == [i \in 1 .. k + 1 |-> IF i <= k THEN g[i] ELSE next]
<1>1. next \in Seq(S)
  <2>1. CASE k = 0  BY <2>1
  <2>2. CASE k # 0
    <3>1. g[k] \in Seq(S)  BY <2>2
    <3> QED BY <2>2, <3>1, ConcatProperties
  <2> QED BY <2>1, <2>2
<1>2. f \in [1 .. k + 1 -> Seq(S)]  BY <1>1
<1>3. \A i \in 1 .. k : f[i] = g[i]  OBVIOUS
<1>4. f[k + 1] = next  OBVIOUS
<1> HIDE DEF f
<1>5. ASSUME NEW i \in 1 .. k + 1
      PROVE  f[i] = IF i = 1 THEN seqs[i] ELSE f[i - 1] \o seqs[i]
  <2>1. CASE i <= k
    <3>1. i \in 1 .. k /\ (i # 1 => i - 1 \in 1 .. k)  BY <2>1
    <3>2. g[i] = IF i = 1 THEN seqs[i] ELSE g[i - 1] \o seqs[i]  BY <3>1 DEF Joins
    <3> QED BY <1>3, <3>1, <3>2
  <2>2. CASE i = k + 1 /\ k = 0  BY <1>4, <2>2
  <2>3. CASE i = k + 1 /\ k # 0
    <3>1. k \in 1 .. k /\ i - 1 = k /\ i # 1  BY <2>3
    <3> QED BY <1>3, <1>4, <2>3, <3>1
  <2> QED BY <2>1, <2>2, <2>3
<1> QED BY <1>2, <1>5 DEF Joins

(* A sequence of sequences is flattened by appending them one by one. *)
LEMMA Flattened ==
  ASSUME NEW S, NEW n \in Nat \ {0}, NEW seqs \in [1 .. n -> Seq(S)]
  PROVE  \E f \in [1 .. n -> Seq(S)] : FlattenSeq(seqs) = f[n] /\ Joins(f, seqs, n)
<1> DEFINE Good == {k \in Nat : k <= n => \E f \in [1 .. k -> Seq(S)] : Joins(f, seqs, k)}
<1>1. 0 \in Good
  <2>1. \E f \in [1 .. 0 -> Seq(S)] : Joins(f, seqs, 0)
    <3>1. [i \in 1 .. 0 |-> <<>>] \in [1 .. 0 -> Seq(S)]  OBVIOUS
    <3>2. Joins([i \in 1 .. 0 |-> <<>>], seqs, 0)  BY DEF Joins
    <3> QED BY <3>1, <3>2
  <2> QED BY <2>1
<1>2. ASSUME NEW k \in Nat, k \in Good PROVE k + 1 \in Good
  <2> SUFFICES ASSUME k + 1 <= n
               PROVE  \E f \in [1 .. k + 1 -> Seq(S)] : Joins(f, seqs, k + 1)
    OBVIOUS
  <2>1. PICK g \in [1 .. k -> Seq(S)] : Joins(g, seqs, k)  BY <1>2
  <2>2. seqs[k + 1] \in Seq(S)  OBVIOUS
  <2> QED BY <2>1, <2>2, JoinsOn
<1> HIDE DEF Good
<1>3. n \in Good  BY <1>1, <1>2, SetInduction
<1>4. PICK f \in [1 .. n -> Seq(S)] : Joins(f, seqs, n)  BY <1>3 DEF Good
<1> DEFINE flatten[i \in 1 .. Len(seqs)] ==
             IF i = 1 THEN seqs[i] ELSE flatten[i - 1] \o seqs[i]
<1>5. Len(seqs) = n  OBVIOUS
<1>6. FlattenSeq(seqs) = flatten[n]  BY <1>5 DEF FlattenSeq
<1>7. flatten = [i \in 1 .. n |-> IF i = 1 THEN seqs[i] ELSE flatten[i - 1] \o seqs[i]]
  <2>1. f = [i \in 1 .. n |-> IF i = 1 THEN seqs[i] ELSE f[i - 1] \o seqs[i]]
    BY <1>4 DEF Joins
  <2> QED BY <1>5, <2>1
<1> HIDE DEF flatten
<1> DEFINE Same == {k \in Nat : k \in 1 .. n => flatten[k] = f[k]}
<1>8. 0 \in Same  OBVIOUS
<1>9. ASSUME NEW k \in Nat, k \in Same PROVE k + 1 \in Same
  <2> SUFFICES ASSUME k + 1 \in 1 .. n PROVE flatten[k + 1] = f[k + 1]
    OBVIOUS
  <2>1. f[k + 1] = IF k + 1 = 1 THEN seqs[k + 1] ELSE f[(k + 1) - 1] \o seqs[k + 1]
    BY <1>4 DEF Joins
  <2>2. flatten[k + 1] = IF k + 1 = 1 THEN seqs[k + 1]
                         ELSE flatten[(k + 1) - 1] \o seqs[k + 1]
    BY <1>7
  <2>3. CASE k = 0  BY <2>1, <2>2, <2>3
  <2>4. CASE k # 0
    <3>1. k \in 1 .. n /\ (k + 1) - 1 = k /\ k + 1 # 1  BY <2>4
    <3>2. flatten[k] = f[k]  BY <1>9, <3>1
    <3> QED BY <2>1, <2>2, <3>1, <3>2
  <2> QED BY <2>3, <2>4
<1> HIDE DEF Same
<1>10. n \in Same  BY <1>8, <1>9, SetInduction
<1>11. flatten[n] = f[n]  BY <1>10 DEF Same
<1> QED BY <1>4, <1>6, <1>11

(* A loop whose body leads back to where it began leads there however      *)
(* often it runs.                                                          *)
LEMMA LeadsRound ==
  ASSUME NEW c, NEW n \in Nat, NEW body \in Seq(Instr), NEW p \in Place(c),
         Leads(c, body, p, p)
  PROVE  /\ FlattenSeq([i \in 1 .. n |-> body]) \in Seq(Instr)
         /\ Leads(c, FlattenSeq([i \in 1 .. n |-> body]), p, p)
<1> DEFINE seqs == [i \in 1 .. n |-> body]
<1>1. CASE n = 0
  <2>1. seqs = <<>> /\ Len(seqs) = 0  BY <1>1
  <2>2. FlattenSeq(seqs) = <<>>  BY <2>1 DEF FlattenSeq
  <2> HIDE DEF seqs
  <2>3. FlattenSeq(seqs) \in Seq(Instr) /\ Leads(c, FlattenSeq(seqs), p, p)
    BY <2>2, LeadsNowhere
  <2> QED BY <2>3 DEF seqs
<1>2. CASE n # 0
  <2>1. n \in Nat \ {0} /\ seqs \in [1 .. n -> Seq(Instr)] /\ \A i \in 1 .. n : seqs[i] = body
    BY <1>2
  <2> HIDE DEF seqs
  <2>2. PICK f \in [1 .. n -> Seq(Instr)] : FlattenSeq(seqs) = f[n] /\ Joins(f, seqs, n)
    BY <2>1, Flattened
  <2> DEFINE Good == {k \in Nat : k \in 1 .. n => Leads(c, f[k], p, p)}
  <2>3. 0 \in Good  OBVIOUS
  <2>4. ASSUME NEW k \in Nat, k \in Good PROVE k + 1 \in Good
    <3> SUFFICES ASSUME k + 1 \in 1 .. n PROVE Leads(c, f[k + 1], p, p)
      OBVIOUS
    <3>1. CASE k = 0
      <4>1. f[k + 1] = body  BY <2>1, <2>2, <3>1 DEF Joins
      <4> QED BY <4>1
    <3>2. CASE k # 0
      <4>1. k \in 1 .. n /\ (k + 1) - 1 = k /\ k + 1 # 1  BY <3>2
      <4>2. f[k] \in Seq(Instr) /\ Leads(c, f[k], p, p)  BY <2>4, <4>1
      <4>3. f[k + 1] = f[(k + 1) - 1] \o seqs[k + 1]  BY <2>2, <4>1 DEF Joins
      <4> QED BY <2>1, <4>1, <4>2, <4>3, LeadsOn
    <3> QED BY <3>1, <3>2
  <2> HIDE DEF Good
  <2>5. n \in Good  BY <2>3, <2>4, SetInduction
  <2>6. FlattenSeq(seqs) \in Seq(Instr) /\ Leads(c, FlattenSeq(seqs), p, p)
    BY <2>1, <2>2, <2>5 DEF Good
  <2> QED BY <2>6 DEF seqs
<1> QED BY <1>1, <1>2

-----------------------------------------------------------------------------
(* The code of prof.h's users: where each piece of it begins and ends. *)
Spot(a, s) == [at |-> a, stage |-> s]

(* An empty block, or one around a body, brings a core back to its place. *)
LEMMA LeadsInner ==
  ASSUME NEW c \in ProfCore, NEW a \in Anchor \ {"none", "raster_dispatch", "raster_tile"},
         NEW s, Spot(Outer(c)[a], s) \in Place(c), Spot(a, s) \in Place(c),
         NEW body \in Seq(Instr), Leads(c, body, Spot(a, s), Spot(a, s))
  PROVE  /\ Block(a, body) \in Seq(Instr)
         /\ Leads(c, Block(a, body), Spot(Outer(c)[a], s), Spot(Outer(c)[a], s))
<1>1. Goes(c, Spot(Outer(c)[a], s), Enters(a), Spot(a, s))
  BY DEF Goes, Entering, Enters, Spot
<1>2. Goes(c, Spot(a, s), Does("leave"), Spot(Outer(c)[a], s))
  BY DEF Goes, Leaving, Does, Spot
<1> QED BY <1>1, <1>2, LeadsBlock

LEMMA LeadsEmptyInner ==
  ASSUME NEW c \in ProfCore, NEW a \in Anchor \ {"none", "raster_dispatch", "raster_tile"},
         NEW s, Spot(Outer(c)[a], s) \in Place(c), Spot(a, s) \in Place(c)
  PROVE  /\ Block(a, <<>>) \in Seq(Instr)
         /\ Leads(c, Block(a, <<>>), Spot(Outer(c)[a], s), Spot(Outer(c)[a], s))
<1>1. <<>> \in Seq(Instr)  OBVIOUS
<1>2. Leads(c, <<>>, Spot(a, s), Spot(a, s))  BY LeadsNowhere
<1> QED BY <1>1, <1>2, LeadsInner

LEMMA TileLeads ==
  ASSUME NEW c \in ProfCore, NEW n \in Nat
  PROVE  /\ TileCode(n) \in Seq(Instr)
         /\ Leads(c, TileCode(n), Spot("raster_dispatch", "tile"),
                  Spot("raster_dispatch", "draining"))
<1> DEFINE At(a) == Spot(a, "tile")
<1>1. \A a \in TileBlock \cup {"raster_dispatch"} : At(a) \in Place(c)
  BY DEF Place, Spot
<1>2. /\ Outer(c)["raster_tile"] = "raster_dispatch"
      /\ Outer(c)["sweep_opaque"] = "raster_tile" /\ Outer(c)["sweep_xlu"] = "raster_tile"
      /\ Outer(c)["aa_resolve"] = "raster_tile"
      /\ Outer(c)["opaque_setup"] = "sweep_opaque" /\ Outer(c)["opaque_fill"] = "sweep_opaque"
  BY DEF Outer, Around, Anchor, Fine
<1>3. TileBlock \subseteq Anchor \ {"none", "raster_dispatch"}
  BY DEF TileBlock, Anchor, Fine
<1>4. {"raster_tile", "sweep_opaque", "sweep_xlu", "aa_resolve", "opaque_setup", "opaque_fill"}
        = TileBlock
  BY DEF TileBlock, Fine
<1> DEFINE triangle == Block("opaque_setup", <<>>) \o Block("opaque_fill", <<>>)
           opaque == FlattenSeq([i \in 1 .. n |-> triangle])
           body == Block("sweep_opaque", opaque) \o Block("sweep_xlu", <<>>)
                   \o Block("aa_resolve", <<>>)
<1>5. /\ Block("opaque_setup", <<>>) \in Seq(Instr) /\ Block("opaque_fill", <<>>) \in Seq(Instr)
      /\ Leads(c, Block("opaque_setup", <<>>), At("sweep_opaque"), At("sweep_opaque"))
      /\ Leads(c, Block("opaque_fill", <<>>), At("sweep_opaque"), At("sweep_opaque"))
  BY <1>1, <1>2, <1>3, <1>4, LeadsEmptyInner
<1>6. triangle \in Seq(Instr) /\ Leads(c, triangle, At("sweep_opaque"), At("sweep_opaque"))
  BY <1>5, LeadsOn, ConcatProperties
<1> HIDE DEF triangle
<1>7. opaque \in Seq(Instr) /\ Leads(c, opaque, At("sweep_opaque"), At("sweep_opaque"))
  BY <1>1, <1>4, <1>6, LeadsRound
<1> HIDE DEF opaque
<1>8. /\ Block("sweep_opaque", opaque) \in Seq(Instr)
      /\ Leads(c, Block("sweep_opaque", opaque), At("raster_tile"), At("raster_tile"))
  BY <1>1, <1>2, <1>3, <1>4, <1>7, LeadsInner
<1>9. /\ Block("sweep_xlu", <<>>) \in Seq(Instr) /\ Block("aa_resolve", <<>>) \in Seq(Instr)
      /\ Leads(c, Block("sweep_xlu", <<>>), At("raster_tile"), At("raster_tile"))
      /\ Leads(c, Block("aa_resolve", <<>>), At("raster_tile"), At("raster_tile"))
  BY <1>1, <1>2, <1>3, <1>4, LeadsEmptyInner
<1>10. body \in Seq(Instr) /\ Leads(c, body, At("raster_tile"), At("raster_tile"))
  <2>1. /\ Block("sweep_opaque", opaque) \o Block("sweep_xlu", <<>>) \in Seq(Instr)
        /\ Leads(c, Block("sweep_opaque", opaque) \o Block("sweep_xlu", <<>>),
                 At("raster_tile"), At("raster_tile"))
    BY <1>8, <1>9, LeadsOn, ConcatProperties
  <2> QED BY <1>9, <2>1, LeadsOn, ConcatProperties
<1>11. TileCode(n) = Block("raster_tile", body)
  BY DEF TileCode, opaque, triangle
<1> HIDE DEF body
<1>12. Goes(c, At("raster_dispatch"), Enters("raster_tile"), At("raster_tile"))
  BY <1>2 DEF Goes, Entering, Enters, Spot
<1>13. Goes(c, At("raster_tile"), Does("leave"), Spot("raster_dispatch", "draining"))
  BY <1>2 DEF Goes, Leaving, Does, Spot
<1>14. Spot("raster_dispatch", "draining") \in Place(c)
  BY DEF Place, Spot, ProfCore
<1>15. "raster_tile" \in Anchor  BY DEF Anchor
<1> HIDE DEF At
<1> QED BY <1>1, <1>4, <1>10, <1>11, <1>12, <1>13, <1>14, <1>15, LeadsBlock DEF At

LEMMA Core1Leads == Core1Code \in Seq(Instr) /\ Leads(1, Core1Code, First(1), Final(1))
<1> DEFINE drain == <<Does("drain")>>
<1>1. First(1) = Spot("none", "draining") /\ Final(1) = Spot("none", "idle")
  BY DEF First, Final, Spot
<1>2. \A s \in {"draining", "drained"} :
        Spot("raster_dispatch", s) \in Place(1) /\ Spot("none", s) \in Place(1)
  BY DEF Place, Spot
<1>3. Final(1) \in Place(1)  BY DEF Place, Final
<1>4. Outer(1)["raster_dispatch"] = "none" /\ "raster_dispatch" \in Anchor
  BY DEF Outer, Around, Anchor
<1>5. Goes(1, Spot("none", "draining"), Enters("raster_dispatch"),
           Spot("raster_dispatch", "draining"))
  BY <1>4 DEF Goes, Entering, Enters, Spot
<1>6. Goes(1, Spot("raster_dispatch", "draining"), Does("drain"),
           Spot("raster_dispatch", "drained"))
  BY DEF Goes, Passing, Does, Spot
<1>7. Goes(1, Spot("raster_dispatch", "drained"), Does("leave"), Spot("none", "drained"))
  BY <1>4 DEF Goes, Leaving, Does, Spot
<1>8. Goes(1, Spot("none", "drained"), Does("done"), Final(1))
  BY <1>1 DEF Goes, Passing, Does, Spot
<1>9. drain \in Seq(Instr) /\ <<Does("done")>> \in Seq(Instr)
  BY DEF Does, Instr, Anchor
<1>10. Leads(1, drain, Spot("raster_dispatch", "draining"), Spot("raster_dispatch", "drained"))
  BY <1>2, <1>6, LeadsOne
<1>11. Leads(1, <<Does("done")>>, Spot("none", "drained"), Final(1))
  BY <1>2, <1>3, <1>8, LeadsOne
<1>12. Core1Code = Block("raster_dispatch", drain) \o <<Does("done")>>
  BY DEF Core1Code
<1> HIDE DEF drain
<1>13. /\ Block("raster_dispatch", drain) \in Seq(Instr)
       /\ Leads(1, Block("raster_dispatch", drain), Spot("none", "draining"),
                Spot("none", "drained"))
  BY <1>2, <1>4, <1>5, <1>7, <1>9, <1>10, LeadsBlock
<1> QED BY <1>1, <1>9, <1>11, <1>12, <1>13, LeadsOn, ConcatProperties

LEMMA FrameLeads == FrameCode \in Seq(Instr) /\ Leads(0, FrameCode, First(0), Final(0))
<1> DEFINE Before(a) == Spot(a, "before")
           Joined(a) == Spot(a, "joined")
           In(s) == Spot("raster_dispatch", s)
           meet == <<Does("wake"), Does("drain"), Does("join")>>
           geom == Block("cmdgen", <<>>) \o Block("geom", <<>>) \o Block("clear_blit", <<>>)
           body == geom \o Block("raster_dispatch", meet) \o Block("present", <<>>)
<1>1. /\ \A a \in {"none", "root", "cmdgen", "geom", "clear_blit"} : Before(a) \in Place(0)
      /\ \A a \in {"none", "root", "present", "raster_dispatch"} : Joined(a) \in Place(0)
      /\ \A s \in {"waking", "draining", "drained", "joined"} : In(s) \in Place(0)
  BY DEF Place, Spot
<1>2. /\ Outer(0)["root"] = "none" /\ Outer(0)["cmdgen"] = "root" /\ Outer(0)["geom"] = "root"
      /\ Outer(0)["clear_blit"] = "root" /\ Outer(0)["raster_dispatch"] = "root"
      /\ Outer(0)["present"] = "root"
  BY DEF Outer, Around, Anchor
<1>3. {"root", "cmdgen", "geom", "clear_blit", "raster_dispatch", "present"}
        \subseteq Anchor \ {"none", "raster_tile"}
  BY DEF Anchor
<1>4. 0 \in ProfCore  BY DEF ProfCore
<1>5. /\ Block("cmdgen", <<>>) \in Seq(Instr) /\ Block("geom", <<>>) \in Seq(Instr)
      /\ Block("clear_blit", <<>>) \in Seq(Instr) /\ Block("present", <<>>) \in Seq(Instr)
      /\ Leads(0, Block("cmdgen", <<>>), Before("root"), Before("root"))
      /\ Leads(0, Block("geom", <<>>), Before("root"), Before("root"))
      /\ Leads(0, Block("clear_blit", <<>>), Before("root"), Before("root"))
      /\ Leads(0, Block("present", <<>>), Joined("root"), Joined("root"))
  BY <1>1, <1>2, <1>3, <1>4, LeadsEmptyInner
<1>6. geom \in Seq(Instr) /\ Leads(0, geom, Before("root"), Before("root"))
  <2>1. /\ Block("cmdgen", <<>>) \o Block("geom", <<>>) \in Seq(Instr)
        /\ Leads(0, Block("cmdgen", <<>>) \o Block("geom", <<>>), Before("root"), Before("root"))
    BY <1>5, LeadsOn, ConcatProperties
  <2> QED BY <1>5, <2>1, LeadsOn, ConcatProperties
<1>7. meet \in Seq(Instr) /\ Leads(0, meet, In("waking"), In("joined"))
  <2>1. /\ Goes(0, In("waking"), Does("wake"), In("draining"))
        /\ Goes(0, In("draining"), Does("drain"), In("drained"))
        /\ Goes(0, In("drained"), Does("join"), In("joined"))
    BY DEF Goes, Passing, Does, Spot
  <2>2. /\ <<Does("wake")>> \in Seq(Instr) /\ <<Does("drain")>> \in Seq(Instr)
        /\ <<Does("join")>> \in Seq(Instr)
    BY DEF Does, Instr, Anchor
  <2>3. /\ Leads(0, <<Does("wake")>>, In("waking"), In("draining"))
        /\ Leads(0, <<Does("drain")>>, In("draining"), In("drained"))
        /\ Leads(0, <<Does("join")>>, In("drained"), In("joined"))
    BY <1>1, <2>1, LeadsOne
  <2>4. /\ <<Does("wake")>> \o <<Does("drain")>> \in Seq(Instr)
        /\ Leads(0, <<Does("wake")>> \o <<Does("drain")>>, In("waking"), In("drained"))
    BY <2>2, <2>3, LeadsOn, ConcatProperties
  <2>5. meet = (<<Does("wake")>> \o <<Does("drain")>>) \o <<Does("join")>>
    OBVIOUS
  <2> QED BY <2>2, <2>3, <2>4, <2>5, LeadsOn, ConcatProperties
<1>8. /\ Goes(0, Before("root"), Enters("raster_dispatch"), In("waking"))
      /\ Goes(0, In("joined"), Does("leave"), Joined("root"))
  BY <1>2 DEF Goes, Entering, Leaving, Enters, Does, Spot
<1> HIDE DEF meet, geom
<1>9. /\ Block("raster_dispatch", meet) \in Seq(Instr)
      /\ Leads(0, Block("raster_dispatch", meet), Before("root"), Joined("root"))
  BY <1>1, <1>3, <1>7, <1>8, LeadsBlock
<1>10. body \in Seq(Instr) /\ Leads(0, body, Before("root"), Joined("root"))
  <2>1. /\ geom \o Block("raster_dispatch", meet) \in Seq(Instr)
        /\ Leads(0, geom \o Block("raster_dispatch", meet), Before("root"), Joined("root"))
    BY <1>6, <1>9, LeadsOn, ConcatProperties
  <2> QED BY <1>5, <2>1, LeadsOn, ConcatProperties
<1>11. FrameCode = Block("root", body)
  BY DEF FrameCode, geom, meet
<1> HIDE DEF body
<1>12. First(0) = Before("none") /\ Final(0) = Joined("none")
  BY DEF First, Final, Spot
<1>13. /\ Goes(0, Before("none"), Enters("root"), Before("root"))
       /\ Goes(0, Joined("root"), Does("leave"), Joined("none"))
  BY <1>2 DEF Goes, Entering, Leaving, Enters, Does, Spot
<1> HIDE DEF Before, Joined
<1> QED BY <1>1, <1>3, <1>10, <1>11, <1>12, <1>13, LeadsBlock

-----------------------------------------------------------------------------
(* How the blocks lie in each other. *)
LEMMA NestingOf ==
  ASSUME NEW c \in ProfCore, NEW b \in Anchor \ {"none"}
  PROVE  /\ Outer(c)[b] \in Anchor
         /\ Outer(c)[b] # "none" => Level[b] = Level[Outer(c)[b]] + 1
         /\ Outer(c)[b] # "none" => Outer(c)[b] = Around[b]
         /\ \A a \in Timed(c) : b \in Inside[a] <=> a = b \/ Outer(c)[b] \in Inside[a]
         /\ Outer(c)[b] \notin Inside[b]
         /\ Outer(c)[b] \notin Timed(c) => Outer(c)[b] = "none" \/ c = 1
<1>1. Anchor \ {"none"} = {"root", "cmdgen", "geom", "clear_blit", "raster_dispatch", "present",
        "raster_tile", "sweep_opaque", "sweep_xlu", "aa_resolve", "opaque_setup", "opaque_fill"}
  BY DEF Anchor, Fine
<1>2. c = 0 \/ c = 1  BY DEF ProfCore
<1>3. Around = [a \in Anchor |->
     IF a \in {"none", "root"} THEN "none"
     ELSE IF a = "raster_tile" THEN "raster_dispatch"
     ELSE IF a \in {"sweep_opaque", "sweep_xlu", "aa_resolve"} THEN "raster_tile"
     ELSE IF a \in {"opaque_setup", "opaque_fill"} THEN "sweep_opaque"
     ELSE "root"]
  BY DEF Around
<1>4. CASE b = "root"
  BY <1>1, <1>2, <1>4 DEF Outer, Around, Level, Inside, Timed, TileBlock, Fine, Anchor
<1>5. CASE b \in {"cmdgen", "geom", "clear_blit", "present"}
  BY <1>1, <1>2, <1>5 DEF Outer, Around, Level, Inside, Timed, TileBlock, Fine, Anchor
<1>6. CASE b = "raster_dispatch"
  BY <1>1, <1>2, <1>6 DEF Outer, Around, Level, Inside, Timed, TileBlock, Fine, Anchor
<1>7. CASE b = "raster_tile"
  BY <1>1, <1>2, <1>7 DEF Outer, Around, Level, Inside, Timed, TileBlock, Fine, Anchor
<1>8. CASE b \in {"sweep_opaque", "sweep_xlu", "aa_resolve"}
  BY <1>1, <1>2, <1>8 DEF Outer, Around, Level, Inside, Timed, TileBlock, Fine, Anchor
<1>9. CASE b \in {"opaque_setup", "opaque_fill"}
  BY <1>1, <1>2, <1>9 DEF Outer, Around, Level, Inside, Timed, TileBlock, Fine, Anchor
<1> QED BY <1>1, <1>4, <1>5, <1>6, <1>7, <1>8, <1>9

(* A unit of time in a block is one in each block around it. *)
LEMMA TickedTimes ==
  ASSUME NEW c \in ProfCore, self \in [ProfCore -> [Anchor -> Nat]], NEW x \in Anchor,
         self'[c] = [self[c] EXCEPT ![x] = @ + 1], NEW a \in Anchor \ {"none"}, x # "none"
  PROVE  TimeIn(c)'[a] = IF x \in Inside[a] THEN TimeIn(c)[a] + 1 ELSE TimeIn(c)[a]
<1> DEFINE t == self[c]
           u == self'[c]
<1>1. /\ t \in [Anchor -> Nat] /\ u \in [Anchor -> Nat]
      /\ \A y \in Anchor : u[y] = IF y = x THEN t[y] + 1 ELSE t[y]
  OBVIOUS
<1>2. Anchor = {"none", "root", "cmdgen", "geom", "clear_blit", "raster_dispatch", "present",
        "raster_tile", "sweep_opaque", "sweep_xlu", "aa_resolve", "opaque_setup", "opaque_fill"}
  BY DEF Anchor, Fine
<1> DEFINE Opq(f) == f["sweep_opaque"] + f["opaque_setup"] + f["opaque_fill"]
           Til(f) == f["raster_tile"] + Opq(f) + f["sweep_xlu"] + f["aa_resolve"]
           Dis(f) == f["raster_dispatch"] + Til(f)
           Roo(f) == f["root"] + f["cmdgen"] + f["geom"] + f["clear_blit"] + Dis(f)
                     + f["present"]
<1>3. /\ TimeIn(c)[a] = IF a = "root" THEN Roo(t) ELSE IF a = "raster_dispatch" THEN Dis(t)
                        ELSE IF a = "raster_tile" THEN Til(t)
                        ELSE IF a = "sweep_opaque" THEN Opq(t) ELSE t[a]
      /\ TimeIn(c)'[a] = IF a = "root" THEN Roo(u) ELSE IF a = "raster_dispatch" THEN Dis(u)
                         ELSE IF a = "raster_tile" THEN Til(u)
                         ELSE IF a = "sweep_opaque" THEN Opq(u) ELSE u[a]
  BY <1>1, <1>2 DEF TimeIn
<1> HIDE DEF t, u
<1>4. CASE a = "root"  BY <1>1, <1>2, <1>3, <1>4 DEF Inside, TileBlock, Fine
<1>5. CASE a = "raster_dispatch"  BY <1>1, <1>2, <1>3, <1>5 DEF Inside, TileBlock, Fine
<1>6. CASE a = "raster_tile"  BY <1>1, <1>2, <1>3, <1>6 DEF Inside, TileBlock, Fine
<1>7. CASE a = "sweep_opaque"  BY <1>1, <1>2, <1>3, <1>7 DEF Inside, TileBlock, Fine
<1>8. CASE a \notin {"root", "raster_dispatch", "raster_tile", "sweep_opaque"}
  BY <1>1, <1>2, <1>3, <1>8 DEF Inside, TileBlock, Fine
<1> QED BY <1>4, <1>5, <1>6, <1>7, <1>8

LEMMA TimeInType ==
  ASSUME NEW c \in ProfCore, self \in [ProfCore -> [Anchor -> Nat]]
  PROVE  /\ \A a \in Anchor : TimeIn(c)[a] \in Nat
         /\ TimeIn(c)["raster_tile"] <= TimeIn(c)["raster_dispatch"]
<1>1. self[c] \in [Anchor -> Nat]  OBVIOUS
<1>2. Anchor = {"none", "root", "cmdgen", "geom", "clear_blit", "raster_dispatch", "present",
        "raster_tile", "sweep_opaque", "sweep_xlu", "aa_resolve", "opaque_setup", "opaque_fill"}
  BY DEF Anchor, Fine
<1> QED BY <1>1, <1>2 DEF TimeIn

-----------------------------------------------------------------------------
USE ProfAssumption

(* What leaves the blocks of a core alone keeps what is said of them. *)
LEMMA Untouched ==
  ASSUME NEW c \in ProfCore, NEW p, NEW q, NEW st, q.at = p.at,
         Nested(c, p, st), Timely(c, p, st),
         stack'[c] = stack[c], parent'[c] = parent[c], row'[c] = row[c],
         systick'[c] = systick[c], self'[c] = self[c], clock' = clock
  PROVE  Nested(c, q, st)' /\ Timely(c, q, st)'
<1>1. TimeIn(c)' = TimeIn(c)  BY DEF TimeIn
<1>2. \A a : Spoiled(c, a)' <=> Spoiled(c, a)  BY DEF Spoiled
<1>3. Nested(c, q, st)'  BY DEF Nested
<1>4. Timely(c, q, st)'  BY <1>1, <1>2 DEF Timely
<1> QED BY <1>3, <1>4

LEMMA ReplacedType ==
  ASSUME NEW p \in Standing, NEW c \in ProfCore, NEW m \in Place(c)
  PROVE  /\ [p EXCEPT ![c] = m] \in Standing
         /\ [p EXCEPT ![c] = m][c] = m
         /\ \A d \in ProfCore \ {c} : [p EXCEPT ![c] = m][d] = p[d]
<1>1. m \in Place(0) \cup Place(1)  BY DEF ProfCore
<1> QED BY <1>1 DEF Standing

(* The next instruction of a core leads it on. *)
LEMMA Stepping ==
  ASSUME ProfInv, phase = "frame", NEW c \in ProfCore, todo[c] # <<>>
  PROVE  /\ Head(todo[c]) \in Instr /\ Tail(todo[c]) \in Seq(Instr)
         /\ \E p \in Standing, st \in Starts, m \in Place(c) :
              /\ Under(p, st) /\ Goes(c, p[c], Head(todo[c]), m)
              /\ Leads(c, Tail(todo[c]), m, Final(c))
<1>1. PICK p \in Standing, st \in Starts : Under(p, st)
  BY DEF ProfInv, Running
<1>2. Leads(c, todo[c], p[c], Final(c)) /\ todo[c] \in Seq(Instr)
  BY <1>1 DEF Under, ProfInv
<1> QED BY <1>1, <1>2, LeadsHead

(* A step that touches no block. *)
LEMMA Meets ==
  ASSUME NEW p \in Standing, NEW st \in Starts, Under(p, st), NEW c \in ProfCore,
         NEW m \in Place(c), m.at = p[c].at, NEW U, Leads(c, U, m, Final(c)),
         todo \in [ProfCore -> Seq(Instr)], todo' = [todo EXCEPT ![c] = U],
         UNCHANGED <<rows, stack, clock, systick, self>>,
         Meeting([p EXCEPT ![c] = m])'
  PROVE  \E p2 \in Standing, st2 \in Starts : Under(p2, st2)'
<1> DEFINE q == [p EXCEPT ![c] = m]
<1>1. q \in Standing /\ q[c] = m /\ \A d \in ProfCore \ {c} : q[d] = p[d]
  BY ReplacedType
<1> HIDE DEF q
<1>2. ASSUME NEW d \in ProfCore
      PROVE  Leads(d, todo[d], q[d], Final(d))' /\ Nested(d, q[d], st[d])' /\ Timely(d, q[d], st[d])'
  <2>1. q[d].at = p[d].at  BY <1>1
  <2>2. Nested(d, p[d], st[d]) /\ Timely(d, p[d], st[d]) /\ Leads(d, todo[d], p[d], Final(d))
    BY DEF Under
  <2>3. Nested(d, q[d], st[d])' /\ Timely(d, q[d], st[d])'
    BY <2>1, <2>2, Untouched DEF rows
  <2>4. Leads(d, todo'[d], q[d], Final(d))
    <3>1. CASE d = c  BY <1>1, <3>1
    <3>2. CASE d # c  BY <1>1, <2>2, <3>2
    <3> QED BY <3>1, <3>2
  <2> QED BY <2>3, <2>4
<1>3. Shared'  BY DEF Under, Shared, TimeIn
<1>4. Meeting(q)'  BY DEF q
<1> QED BY <1>1, <1>2, <1>3, <1>4 DEF Under

LEMMA WakeKeepsProf == ASSUME ProfInv, Wake PROVE ProfInv'
<1> USE DEF Wake, Next1
<1>0. 0 \in ProfCore /\ todo[0] # <<>> /\ phase = "frame" /\ phase' = "frame"  BY DEF ProfCore
<1>1. PICK p \in Standing, st \in Starts, m \in Place(0) :
        /\ Under(p, st) /\ Goes(0, p[0], Head(todo[0]), m)
        /\ Leads(0, Tail(todo[0]), m, Final(0))
  BY <1>0, Stepping
<1>2. Tail(todo[0]) \in Seq(Instr) /\ todo \in [ProfCore -> Seq(Instr)]
  BY <1>0, Stepping DEF ProfInv
<1>3. m.at = p[0].at /\ p[0].stage = "waking" /\ m.stage = "draining"
  BY <1>1 DEF Goes, Entering, Leaving, Passing
<1>4. Meeting([p EXCEPT ![0] = m])'
  <2>1. ~done /\ p[1] = Parked /\ Hits(0) = 0 /\ Hits(1) = 0  BY <1>1, <1>3 DEF Under, Meeting
  <2>2. [p EXCEPT ![0] = m][0] = m /\ [p EXCEPT ![0] = m][1] = Parked
    BY <2>1 DEF Standing, ProfCore
  <2>3. Hits(0)' = 0 /\ Hits(1)' = 0  BY <2>1 DEF Hits, rows
  <2>4. go' = TRUE /\ done' = FALSE /\ tileNo' = 0
    BY <2>1 DEF ProfInv, ProfTypeOK
  <2>5. Parked.stage = "idle"  BY DEF Parked, Final
  <2> QED BY <1>3, <2>2, <2>3, <2>4, <2>5 DEF Meeting, Claimed
<1>5. \E p2 \in Standing, st2 \in Starts : Under(p2, st2)'
  BY <1>0, <1>1, <1>2, <1>3, <1>4, Meets
<1>6. Running' /\ Resting'  BY <1>0, <1>5 DEF Running, Resting
<1>7. todo' \in [ProfCore -> Seq(Instr)]  BY <1>2
<1>8. ProfTypeOK'  BY DEF ProfInv, ProfTypeOK, rows
<1>9. Totals'  BY DEF ProfInv, Totals, rows
<1> QED BY <1>6, <1>7, <1>8, <1>9 DEF ProfInv, rows

LEMMA JoinKeepsProf == ASSUME ProfInv, Join PROVE ProfInv'
<1> USE DEF Join, Next1
<1>0. 0 \in ProfCore /\ todo[0] # <<>> /\ phase = "frame" /\ phase' = "frame"  BY DEF ProfCore
<1>1. PICK p \in Standing, st \in Starts, m \in Place(0) :
        /\ Under(p, st) /\ Goes(0, p[0], Head(todo[0]), m)
        /\ Leads(0, Tail(todo[0]), m, Final(0))
  BY <1>0, Stepping
<1>2. Tail(todo[0]) \in Seq(Instr) /\ todo \in [ProfCore -> Seq(Instr)]
  BY <1>0, Stepping DEF ProfInv
<1>3. m.at = p[0].at /\ p[0].stage = "drained" /\ m.stage = "joined"
  BY <1>1 DEF Goes, Entering, Leaving, Passing
<1>4. Meeting([p EXCEPT ![0] = m])'
  <2>1. done /\ ~go /\ p[1] = Parked /\ tileNo = ProfTiles
        /\ Hits(0) + Hits(1) + Claimed(p[0]) + Claimed(p[1]) = tileNo
    BY <1>1, <1>3 DEF Under, Meeting
  <2>2. [p EXCEPT ![0] = m][0] = m /\ [p EXCEPT ![0] = m][1] = Parked
    BY <2>1 DEF Standing, ProfCore
  <2>3. Hits(0)' = Hits(0) /\ Hits(1)' = Hits(1)  BY DEF Hits, rows
  <2>4. Claimed(p[0]) = 0 /\ Claimed(m) = 0  BY <1>3 DEF Claimed
  <2>5. Parked.stage = "idle"  BY DEF Parked, Final
  <2> QED BY <1>3, <2>1, <2>2, <2>3, <2>4, <2>5 DEF Meeting
<1>5. \E p2 \in Standing, st2 \in Starts : Under(p2, st2)'
  BY <1>0, <1>1, <1>2, <1>3, <1>4, Meets
<1>6. Running' /\ Resting'  BY <1>0, <1>5 DEF Running, Resting
<1>7. todo' \in [ProfCore -> Seq(Instr)]  BY <1>2
<1>8. ProfTypeOK'  BY DEF ProfInv, ProfTypeOK, rows
<1>9. Totals'  BY DEF ProfInv, Totals, rows
<1> QED BY <1>6, <1>7, <1>8, <1>9 DEF ProfInv, rows

(* Core 1 is parked when, and only when, it has no code to run. *)
LEMMA ParkedIsIdle ==
  ASSUME NEW p \in Standing, NEW st, Under(p, st), todo[1] \in Seq(Instr)
  PROVE  todo[1] = <<>> <=> p[1] = Parked
<1>1. 1 \in ProfCore /\ Leads(1, todo[1], p[1], Final(1))  BY DEF Under, ProfCore
<1>2. todo[1] = <<>> => p[1] = Parked  BY <1>1, LeadsEnd DEF Parked
<1>3. ASSUME todo[1] # <<>>, p[1] = Parked PROVE FALSE
  <2>1. PICK m \in Place(1) : Goes(1, Parked, Head(todo[1]), m)
    BY <1>1, <1>3, LeadsHead
  <2>2. Parked.at = "none" /\ Parked.stage = "idle"  BY DEF Parked, Final
  <2>3. Entering(1, Parked, Head(todo[1]), m)
    BY <2>1, <2>2 DEF Goes, Leaving, Passing
  <2>4. m.at # "none" /\ m.stage = "idle"  BY <2>2, <2>3 DEF Entering
  <2> QED BY <2>4 DEF Place
<1> QED BY <1>2, <1>3

LEMMA UnparkKeepsProf == ASSUME ProfInv, Unpark PROVE ProfInv'
<1> USE DEF Unpark
<1>1. phase \in {"frame", "end"} /\ phase' = phase
  BY DEF ProfInv, Resting, ProfTypeOK
<1>2. PICK p \in Standing, st \in Starts : Under(p, st)
  BY <1>1 DEF ProfInv, Running
<1>3. 1 \in ProfCore /\ 0 \in ProfCore /\ todo \in [ProfCore -> Seq(Instr)]
  BY DEF ProfInv, ProfCore
<1>4. p[1] = Parked  BY <1>2, <1>3, ParkedIsIdle
<1> DEFINE m == First(1)
<1>5. m \in Place(1) /\ m.at = p[1].at /\ m.stage = "draining" /\ m # Parked /\ Parked.stage = "idle"
  BY <1>4 DEF First, Place, Parked, Final
<1>6. Meeting([p EXCEPT ![1] = m])'
  <2>1. [p EXCEPT ![1] = m][0] = p[0] /\ [p EXCEPT ![1] = m][1] = m
    BY DEF Standing, ProfCore
  <2>2. Hits(0)' = Hits(0) /\ Hits(1)' = Hits(1)  BY DEF Hits, rows
  <2>3. Claimed(p[1]) = Claimed(m)  BY <1>4, <1>5 DEF Claimed
  <2>4. p[0].stage \in {"draining", "tile", "drained"} /\ ~done
    <3>1. p[0] \in Place(0)  BY <1>3 DEF Standing
    <3>2. p[0].stage \in {"before", "waking", "draining", "tile", "drained", "joined"}
      BY <3>1 DEF Place
    <3> QED BY <1>2, <3>2 DEF Under, Meeting
  <2>5. Meeting(p)  BY <1>2 DEF Under
  <2>6. go' = FALSE /\ done' = done /\ tileNo' = tileNo  OBVIOUS
  <2> HIDE DEF Unpark, m
  <2> QED BY <1>4, <1>5, <2>1, <2>2, <2>3, <2>4, <2>5, <2>6 DEF Meeting
<1>7. \E p2 \in Standing, st2 \in Starts : Under(p2, st2)'
  BY <1>2, <1>3, <1>5, <1>6, Core1Leads, Meets
<1>8. Running' /\ Resting'
  <2>1. todo'[0] = todo[0]  BY <1>3
  <2> QED BY <1>1, <1>7, <2>1 DEF Running, Resting, ProfInv
<1>9. todo' \in [ProfCore -> Seq(Instr)]  BY <1>3, Core1Leads
<1>10. ProfTypeOK'  BY DEF ProfInv, ProfTypeOK, rows
<1>11. Totals'  BY DEF ProfInv, Totals, rows
<1> QED BY <1>8, <1>9, <1>10, <1>11 DEF ProfInv, rows

LEMMA DoneKeepsProf == ASSUME ProfInv, Done PROVE ProfInv'
<1> USE DEF Done
<1>0. /\ 1 \in ProfCore /\ 0 \in ProfCore /\ todo \in [ProfCore -> Seq(Instr)]
      /\ phase \in {"frame", "end"} /\ phase' = phase
  BY DEF ProfInv, Resting, ProfTypeOK, ProfCore
<1>1. PICK p \in Standing, st \in Starts : Under(p, st)
  BY <1>0 DEF ProfInv, Running
<1>2. Leads(1, todo[1], p[1], Final(1)) /\ todo[1] \in Seq(Instr)
  BY <1>0, <1>1 DEF Under
<1>3. Tail(todo[1]) \in Seq(Instr)  BY <1>2, LeadsHead
<1>4. PICK m \in Place(1) : Goes(1, p[1], Head(todo[1]), m) /\ Leads(1, Tail(todo[1]), m, Final(1))
  BY <1>2, LeadsHead
<1>5. m.at = p[1].at /\ p[1].stage = "drained" /\ m.stage = "idle" /\ m.at = "none"
  BY <1>4 DEF Goes, Entering, Leaving, Passing
<1>6. m = Parked /\ p[1] # Parked
  <2>1. Parked.stage = "idle"  BY DEF Parked, Final
  <2> QED BY <1>5, <2>1 DEF Place, Parked, Final
<1>7. Meeting([p EXCEPT ![1] = m])'
  <2>1. [p EXCEPT ![1] = m][0] = p[0] /\ [p EXCEPT ![1] = m][1] = m
    BY DEF Standing, ProfCore
  <2>2. Hits(0)' = Hits(0) /\ Hits(1)' = Hits(1)  BY DEF Hits, rows
  <2>3. Claimed(p[1]) = Claimed(m)  BY <1>5 DEF Claimed
  <2>4. p[0].stage \in {"draining", "tile", "drained"} /\ ~done /\ ~go /\ tileNo = ProfTiles
    <3>1. p[0] \in Place(0)  BY <1>0 DEF Standing
    <3>2. p[0].stage \in {"before", "waking", "draining", "tile", "drained", "joined"}
      BY <3>1 DEF Place
    <3> QED BY <1>1, <1>5, <1>6, <3>2 DEF Under, Meeting
  <2>5. Meeting(p)  BY <1>1 DEF Under
  <2>6. go' = go /\ done' = TRUE /\ tileNo' = tileNo  OBVIOUS
  <2> HIDE DEF Done
  <2> QED BY <1>5, <1>6, <2>1, <2>2, <2>3, <2>4, <2>5, <2>6 DEF Meeting
<1>8. \E p2 \in Standing, st2 \in Starts : Under(p2, st2)'
  BY <1>0, <1>1, <1>4, <1>5, <1>7, Meets
<1>9. Running' /\ Resting'
  <2>1. todo'[0] = todo[0]  BY <1>0
  <2> QED BY <1>0, <1>8, <2>1 DEF Running, Resting, ProfInv
<1>10. todo' \in [ProfCore -> Seq(Instr)]  BY <1>0, <1>3
<1>11. ProfTypeOK'  BY DEF ProfInv, ProfTypeOK, rows
<1>12. Totals'  BY DEF ProfInv, Totals, rows
<1> QED BY <1>9, <1>10, <1>11, <1>12 DEF ProfInv, rows

(* A core that claims a tile has its code to run first; the last claim      *)
(* finds none.                                                             *)
LEMMA DrainKeepsProf == ASSUME ProfInv, NEW c \in ProfCore, Drain(c) PROVE ProfInv'
<1> USE DEF Drain, Next1
<1>0. todo[c] # <<>> /\ phase = "frame" /\ phase' = "frame" /\ 0 \in ProfCore /\ 1 \in ProfCore
  BY DEF ProfCore
<1>1. PICK p \in Standing, st \in Starts, m \in Place(c) :
        /\ Under(p, st) /\ Goes(c, p[c], Head(todo[c]), m)
        /\ Leads(c, Tail(todo[c]), m, Final(c))
  BY <1>0, Stepping
<1>2. /\ Tail(todo[c]) \in Seq(Instr) /\ todo \in [ProfCore -> Seq(Instr)]
      /\ tileNo \in 0 .. ProfTiles
  BY <1>0, Stepping DEF ProfInv, ProfTypeOK
<1>3. /\ m.at = p[c].at /\ p[c].stage = "draining" /\ m.stage = "drained"
      /\ p[c].at = "raster_dispatch"
  BY <1>1 DEF Goes, Entering, Leaving, Passing
<1>4. /\ \A n \in Place(c) : [p EXCEPT ![c] = n][c] = n
      /\ \A n \in Place(c) : \A d \in ProfCore \ {c} : [p EXCEPT ![c] = n][d] = p[d]
  BY DEF Standing
<1>5. Hits(0)' = Hits(0) /\ Hits(1)' = Hits(1)  BY DEF Hits, rows
<1>6. Meeting(p)  BY <1>1 DEF Under
<1>7. Parked.stage = "idle"  BY DEF Parked, Final
<1>8. c = 1 => p[0].stage \notin {"before", "waking"}  BY <1>3, <1>6, <1>7 DEF Meeting
<1>9. CASE tileNo < ProfTiles /\ tileNo' = tileNo + 1
           /\ todo' = [todo EXCEPT ![c] = TileCode(Opaque[tileNo]) \o @]
  <2> DEFINE n == Spot("raster_dispatch", "tile")
             U == TileCode(Opaque[tileNo]) \o todo[c]
  <2>1. n \in Place(c) /\ n.at = p[c].at /\ n.stage = "tile" /\ Claimed(n) = 1 /\ Claimed(p[c]) = 0
    BY <1>3 DEF Place, Spot, Claimed
  <2>2. Opaque[tileNo] \in Nat  BY <1>2, <1>9
  <2>3. p[c] = Spot("raster_dispatch", "draining")
    <3>1. p[c] \in Place(c)  BY DEF Standing
    <3> QED BY <1>3, <3>1 DEF Place, Spot
  <2>4. Leads(c, todo[c], p[c], Final(c))  BY <1>1 DEF Under
  <2>5. U \in Seq(Instr) /\ Leads(c, U, n, Final(c))
    BY <1>2, <2>2, <2>3, <2>4, TileLeads, LeadsOn, ConcatProperties
  <2>6. Meeting([p EXCEPT ![c] = n])'
    <3> HIDE DEF n
    <3> DEFINE q == [p EXCEPT ![c] = n]
    <3>1. q[c] = n /\ \A d \in ProfCore \ {c} : q[d] = p[d]  BY <1>4, <2>1
    <3> HIDE DEF q
    <3>2. n # Parked /\ p[c] # Parked  BY <1>3, <1>7, <2>1
    <3>3. tileNo' = tileNo + 1 /\ go' = go /\ done' = done /\ tileNo # ProfTiles
          /\ tileNo \in Int
      BY <1>2, <1>9
    <3>4. Hits(0) \in Int /\ Hits(1) \in Int
      BY <1>0 DEF Hits, ProfInv, ProfTypeOK, AnchorRow, Anchor
    <3>5. CASE c = 0
      <4>1. q[0] = n /\ q[1] = p[1]  BY <1>0, <3>1, <3>5
      <4>2. Claimed(p[1]) \in Int  BY DEF Claimed
      <4>3. Hits(0)' + Hits(1)' + Claimed(q[0]) + Claimed(q[1]) = tileNo'
        <5>1. Hits(0) + Hits(1) + Claimed(p[0]) + Claimed(p[1]) = tileNo
          BY <1>3, <1>6, <1>8, <3>5 DEF Meeting
        <5>2. Claimed(q[0]) = 1 /\ Claimed(p[0]) = 0 /\ Claimed(q[1]) = Claimed(p[1])
          BY <2>1, <3>5, <4>1
        <5> QED BY <1>5, <3>3, <3>4, <4>2, <5>1, <5>2
      <4>4. (go' <=> go) /\ (done' <=> done)  BY <3>3
      <4>5. Meeting(q)'
        BY <1>3, <1>5, <1>6, <1>7, <1>8, <2>1, <3>2, <3>3, <3>5, <4>1, <4>3, <4>4 DEF Meeting
      <4> QED BY <4>5 DEF q
    <3>6. CASE c = 1
      <4>1. q[1] = n /\ q[0] = p[0]  BY <1>0, <3>1, <3>6
      <4>2. Claimed(p[0]) \in Int  BY DEF Claimed
      <4>3. Hits(0)' + Hits(1)' + Claimed(q[0]) + Claimed(q[1]) = tileNo'
        <5>1. Hits(0) + Hits(1) + Claimed(p[0]) + Claimed(p[1]) = tileNo
          BY <1>3, <1>6, <1>8, <3>6 DEF Meeting
        <5> QED BY <1>5, <2>1, <3>3, <3>4, <3>6, <4>1, <4>2, <5>1
      <4>4. (go' <=> go) /\ (done' <=> done)  BY <3>3
      <4>5. Meeting(q)'
        BY <1>3, <1>5, <1>6, <1>7, <1>8, <2>1, <3>2, <3>3, <3>6, <4>1, <4>3, <4>4 DEF Meeting
      <4> QED BY <4>5 DEF q
    <3> QED BY <3>5, <3>6 DEF ProfCore
  <2>7. todo' = [todo EXCEPT ![c] = U]  BY <1>9
  <2> HIDE DEF U, n
  <2>8. \E p2 \in Standing, st2 \in Starts : Under(p2, st2)'
    BY <1>1, <1>2, <2>1, <2>5, <2>6, <2>7, Meets
  <2>9. Running' /\ Resting'  BY <1>0, <2>8 DEF Running, Resting
  <2>10. todo' \in [ProfCore -> Seq(Instr)]  BY <1>2, <2>5, <2>7
  <2>11. ProfTypeOK'
    <3>1. tileNo' \in 0 .. ProfTiles  BY <1>2, <1>9
    <3> QED BY <3>1 DEF ProfInv, ProfTypeOK, rows
  <2>12. Totals'  BY DEF ProfInv, Totals, rows
  <2> QED BY <2>9, <2>10, <2>11, <2>12 DEF ProfInv, rows
<1>10. CASE tileNo = ProfTiles /\ todo' = [todo EXCEPT ![c] = Tail(@)] /\ tileNo' = tileNo
  <2>1. Claimed(m) = 0 /\ Claimed(p[c]) = 0 /\ m # Parked /\ p[c] # Parked
    BY <1>3, <1>7 DEF Claimed
  <2>2. Meeting([p EXCEPT ![c] = m])'
    <3> DEFINE q == [p EXCEPT ![c] = m]
    <3>1. q[c] = m /\ \A d \in ProfCore \ {c} : q[d] = p[d]  BY <1>4
    <3> HIDE DEF q
    <3>2. tileNo' = tileNo /\ go' = go /\ done' = done /\ tileNo = ProfTiles  BY <1>10
    <3>3. CASE c = 0
      <4>1. q[0] = m /\ q[1] = p[1]  BY <1>0, <3>1, <3>3
      <4>2. Meeting(q)'
        BY <1>3, <1>5, <1>6, <1>7, <2>1, <3>2, <3>3, <4>1 DEF Meeting
      <4> QED BY <4>2 DEF q
    <3>4. CASE c = 1
      <4>1. q[1] = m /\ q[0] = p[0]  BY <1>0, <3>1, <3>4
      <4>2. Meeting(q)'
        BY <1>3, <1>5, <1>6, <1>7, <1>8, <2>1, <3>2, <3>4, <4>1 DEF Meeting
      <4> QED BY <4>2 DEF q
    <3> QED BY <3>3, <3>4 DEF ProfCore
  <2>3. todo' = [todo EXCEPT ![c] = Tail(todo[c])]  BY <1>10
  <2>4. \E p2 \in Standing, st2 \in Starts : Under(p2, st2)'
    BY <1>1, <1>2, <1>3, <2>2, <2>3, Meets
  <2>5. Running' /\ Resting'  BY <1>0, <2>4 DEF Running, Resting
  <2>6. todo' \in [ProfCore -> Seq(Instr)]  BY <1>2, <2>3
  <2>7. ProfTypeOK'  BY <1>10 DEF ProfInv, ProfTypeOK, rows
  <2>8. Totals'  BY DEF ProfInv, Totals, rows
  <2> QED BY <2>5, <2>6, <2>7, <2>8 DEF ProfInv, rows
<1> QED BY <1>9, <1>10

-----------------------------------------------------------------------------
(* A block is opened: it is as old as the clock, and inside those that the *)
(* core was in.                                                            *)
LEMMA OpenedNests ==
  ASSUME NEW c \in ProfCore, NEW p \in Place(c), NEW m \in Place(c), NEW a \in Anchor \ {"none"},
         p.at = Outer(c)[a], m.at = a, NEW st \in [Anchor -> Nat], NEW b,
         b.a = a, b.parent = parent[c], b.old = row[c][a].incl, b.start = clock,
         b \in OpenBlock, stack[c] \in Seq(OpenBlock), clock \in Nat,
         Nested(c, p, st), stack'[c] = <<b>> \o stack[c], parent'[c] = a, row'[c] = row[c],
         NEW now, now = [st EXCEPT ![a] = clock]
  PROVE  Nested(c, m, now)'
<1> DEFINE s == stack[c]
           t == <<b>> \o s
<1>1. /\ Len(t) = Len(s) + 1 /\ Len(s) \in Nat /\ t[1] = b /\ t # <<>>
      /\ \A i \in 1 .. Len(s) : t[i + 1] = s[i]
  <2>1. <<b>> \in Seq(OpenBlock) /\ Len(<<b>>) = 1 /\ <<b>>[1] = b  OBVIOUS
  <2> QED BY <2>1, ConcatProperties, LenProperties
<1>2. /\ parent[c] = p.at
      /\ s = <<>> <=> p.at = "none"
      /\ \A i \in 1 .. Len(s) :
           /\ s[i].a = IF i = 1 THEN p.at ELSE s[i - 1].parent
           /\ s[i].parent = Outer(c)[s[i].a]
           /\ i = Len(s) <=> s[i].parent = "none"
           /\ Level[s[i].a] + i = Level[p.at] + 1
           /\ s[i].old = row[c][s[i].a].incl /\ s[i].start = st[s[i].a]
  BY DEF Nested
<1>3. s = <<>> <=> Len(s) = 0  BY EmptySeq
<1>4. p.at # "none" => Level[a] = Level[p.at] + 1  BY NestingOf
<1>5. p.at \in Anchor /\ \A x \in Anchor : Level[x] \in Nat  BY NestingOf DEF Level
<1>6. ASSUME NEW i \in 1 .. Len(s) PROVE s[i].a \in Anchor
  <2>1. s[i] \in OpenBlock  BY ElementOfSeq
  <2> QED BY <2>1 DEF OpenBlock
<1>9. stack'[c] = t  OBVIOUS
<1> HIDE DEF t, s
<1>7. ASSUME NEW i \in 1 .. Len(t)
      PROVE  /\ t[i].a = IF i = 1 THEN a ELSE t[i - 1].parent
             /\ t[i].parent = Outer(c)[t[i].a]
             /\ i = Len(t) <=> t[i].parent = "none"
             /\ Level[t[i].a] + i = Level[a] + 1
             /\ t[i].old = row[c][t[i].a].incl /\ t[i].start = now[t[i].a]
  <2>1. CASE i = 1
    <3>1. t[i] = b /\ (i = Len(t) <=> p.at = "none")  BY <1>1, <1>2, <1>3, <2>1
    <3>2. Level[a] \in Nat  BY <1>5
    <3> QED BY <1>2, <2>1, <3>1, <3>2
  <2>2. CASE i # 1
    <3>0. PICK j \in 1 .. Len(s) : i = j + 1
      <4>1. i - 1 \in 1 .. Len(s) /\ i = (i - 1) + 1  BY <1>1, <2>2
      <4> QED BY <4>1
    <3>1. t[i] = s[j] /\ (i = Len(t) <=> j = Len(s)) /\ p.at # "none" /\ i - 1 = j
      BY <1>1, <1>2, <1>3, <3>0
    <3>2. t[i].a = t[j].parent
      <4>1. CASE j = 1  BY <1>1, <1>2, <3>1, <4>1
      <4>2. CASE j # 1
        <5>1. PICK k \in 1 .. Len(s) : j = k + 1
          <6>1. j - 1 \in 1 .. Len(s) /\ j = (j - 1) + 1  BY <4>2
          <6> QED BY <6>1
        <5>2. t[j] = s[k] /\ j - 1 = k  BY <1>1, <5>1
        <5> QED BY <1>2, <3>1, <4>2, <5>1, <5>2, SMTT(30)
      <4> QED BY <4>1, <4>2
    <3> DEFINE x == s[j].a
    <3>3. /\ x \in Anchor /\ Level[x] + j = Level[p.at] + 1 /\ Level[a] = Level[p.at] + 1
          /\ Level[x] \in Nat /\ Level[a] \in Nat /\ Level[p.at] \in Int /\ j >= 1 /\ i = j + 1
      BY <1>2, <1>4, <1>5, <1>6, <3>0, <3>1
    <3>4. x # a /\ Level[x] + i = Level[a] + 1
      <4> DEFINE u == Level[x]
                 v == Level[a]
                 w == Level[p.at]
      <4>1. /\ u \in Nat /\ v \in Nat /\ w \in Int /\ j \in Nat /\ i \in Nat
            /\ u + j = w + 1 /\ v = w + 1 /\ j >= 1 /\ i = j + 1
        BY <1>1, <3>0, <3>3
      <4> HIDE DEF u, v, w
      <4>2. u < v /\ u + i = v + 1  BY <4>1
      <4> QED BY <4>1, <4>2 DEF u, v
    <3>5. now[x] = st[x]  BY <3>3, <3>4
    <3>6. /\ s[j].parent = Outer(c)[x] /\ (j = Len(s) <=> s[j].parent = "none")
          /\ s[j].old = row[c][x].incl /\ s[j].start = st[x]
      BY <1>2, <3>1
    <3> QED BY <2>2, <3>1, <3>2, <3>4, <3>5, <3>6
  <2> QED BY <2>1, <2>2
<1> QED
  <2>1. \A i \in 1 .. Len(stack'[c]) :
          LET x == stack'[c][i]
          IN  /\ x.a = IF i = 1 THEN m.at ELSE stack'[c][i - 1].parent
              /\ x.parent = Outer(c)[x.a]
              /\ i = Len(stack'[c]) <=> x.parent = "none"
              /\ Level[x.a] + i = Level[m.at] + 1
              /\ x.old = row'[c][x.a].incl /\ x.start = now[x.a]
    <3> TAKE i \in 1 .. Len(stack'[c])
    <3>1. i \in 1 .. Len(t)  BY <1>9
    <3>2. /\ t[i].a = IF i = 1 THEN a ELSE t[i - 1].parent
          /\ t[i].parent = Outer(c)[t[i].a]
          /\ i = Len(t) <=> t[i].parent = "none"
          /\ Level[t[i].a] + i = Level[a] + 1
          /\ t[i].old = row[c][t[i].a].incl /\ t[i].start = now[t[i].a]
      BY <1>7, <3>1
    <3> QED BY <1>9, <3>2
  <2>2. parent'[c] = m.at /\ (stack'[c] = <<>> <=> m.at = "none")
    BY <1>1, <1>9
  <2> QED BY <2>1, <2>2 DEF Nested

LEMMA OpenedTimely ==
  ASSUME NEW c \in ProfCore, NEW p \in Place(c), NEW m \in Place(c), NEW a \in Anchor \ {"none"},
         p.at = Outer(c)[a], m.at = a, NEW st \in [Anchor -> Nat], clock \in Nat,
         row[c] \in AnchorRow, self \in [ProfCore -> [Anchor -> Nat]],
         Timely(c, p, st), UNCHANGED <<row, clock, self>>,
         a \in Fine => systick'[c] = 0, NEW now, now = [st EXCEPT ![a] = clock]
  PROVE  Timely(c, m, now)'
<1>1. TimeIn(c)' = TimeIn(c) /\ \A x : Spoiled(c, x)' <=> Spoiled(c, x)
  BY DEF TimeIn, Spoiled
<1>2. now[a] = clock /\ \A x \in Anchor : x # a => now[x] = st[x]  OBVIOUS
<1>3. /\ \A x \in Timed(c) : a \in Inside[x] <=> x = a \/ p.at \in Inside[x]
      /\ p.at \notin Inside[a]
  BY NestingOf
<1>4. \A b \in Timed(c) : b \in Anchor \ {"none"} /\ (Outer(c)[b] = a => a \notin Inside[b])
  <2> TAKE b \in Timed(c)
  <2>1. b \in Anchor \ {"none"}  BY DEF Timed
  <2> QED BY <2>1, NestingOf
<1>5. \A x \in Anchor : /\ row[c][x].excl \in Int /\ row[c][x].incl \in Int /\ st[x] \in Int
                        /\ self[c][x] \in Int /\ TimeIn(c)[x] \in Int
  <2>1. \A x \in Anchor : TimeIn(c)[x] \in Nat  BY TimeInType
  <2> QED BY <2>1 DEF AnchorRow
<1>6. ASSUME NEW x \in Timed(c)
      PROVE  IF a \in Inside[x]
             THEN /\ now[x] <= clock
                  /\ row[c][x].wrapped \/ TimeIn(c)[x] = row[c][x].incl + (clock - now[x])
                  /\ a = x => Spoiled(c, x) \/ row[c][x].excl + (clock - now[x]) = self[c][x]
                  /\ \A b \in Timed(c) : Outer(c)[b] = x /\ a \in Inside[b] =>
                       Spoiled(c, x) \/ row[c][x].excl + (now[b] - now[x]) = self[c][x]
             ELSE /\ row[c][x].wrapped \/ TimeIn(c)[x] = row[c][x].incl
                  /\ Spoiled(c, x) \/ row[c][x].excl = self[c][x]
  <2>1. CASE x = a
    <3>1. /\ row[c][x].wrapped \/ TimeIn(c)[x] = row[c][x].incl
          /\ Spoiled(c, x) \/ row[c][x].excl = self[c][x]
      BY <1>3, <2>1 DEF Timely
    <3>2. a \in Inside[x]  BY <1>3, <2>1
    <3>3. clock - now[x] = 0 /\ x \in Anchor  BY <1>2, <2>1
    <3>4. now[x] <= clock  BY <1>2, <2>1
    <3> QED BY <1>4, <1>5, <2>1, <3>1, <3>2, <3>3, <3>4
  <2>2. CASE x # a /\ p.at \in Inside[x]
    <3>1. a \in Inside[x] /\ x \in Anchor /\ now[x] = st[x]  BY <1>2, <1>3, <2>2 DEF Timed
    <3>2. /\ st[x] <= clock
          /\ row[c][x].wrapped \/ TimeIn(c)[x] = row[c][x].incl + (clock - st[x])
          /\ p.at = x => Spoiled(c, x) \/ row[c][x].excl + (clock - st[x]) = self[c][x]
          /\ \A b \in Timed(c) : Outer(c)[b] = x /\ p.at \in Inside[b] =>
               Spoiled(c, x) \/ row[c][x].excl + (st[b] - st[x]) = self[c][x]
      BY <2>2 DEF Timely
    <3>3. ASSUME NEW b \in Timed(c), Outer(c)[b] = x, a \in Inside[b]
          PROVE  Spoiled(c, x) \/ row[c][x].excl + (now[b] - now[x]) = self[c][x]
      <4>1. CASE b = a  BY <1>2, <3>1, <3>2, <3>3, <4>1
      <4>2. CASE b # a  BY <1>2, <1>3, <1>4, <3>1, <3>2, <3>3, <4>2
      <4> QED BY <4>1, <4>2
    <3> QED BY <2>2, <3>1, <3>2, <3>3
  <2>3. CASE x # a /\ p.at \notin Inside[x]
    BY <1>3, <2>3 DEF Timely
  <2> QED BY <2>1, <2>2, <2>3
<1>7. a \in Fine => systick'[c] = clock - now[a]  BY <1>2
<1>8. \A x \in Anchor \ Fine : ~row[c][x].wrapped  BY DEF Timely
<1> QED
  <2>1. m.at = a /\ row' = row /\ clock' = clock /\ self' = self  OBVIOUS
  <2>2. \A x \in Timed(c) :
          IF m.at \in Inside[x]
          THEN /\ now[x] <= clock'
               /\ row'[c][x].wrapped \/ TimeIn(c)'[x] = row'[c][x].incl + (clock' - now[x])
               /\ m.at = x =>
                    Spoiled(c, x)' \/ row'[c][x].excl + (clock' - now[x]) = self'[c][x]
               /\ \A b \in Timed(c) : Outer(c)[b] = x /\ m.at \in Inside[b] =>
                    Spoiled(c, x)' \/ row'[c][x].excl + (now[b] - now[x]) = self'[c][x]
          ELSE /\ row'[c][x].wrapped \/ TimeIn(c)'[x] = row'[c][x].incl
               /\ Spoiled(c, x)' \/ row'[c][x].excl = self'[c][x]
    <3> TAKE x \in Timed(c)
    <3> QED BY <1>1, <1>6, <2>1
  <2>3. m.at \in Fine => systick'[c] = clock' - now[m.at]  BY <1>7, <2>1
  <2>4. \A x \in Anchor \ Fine : ~row'[c][x].wrapped  BY <1>8, <2>1
  <2> QED BY <2>2, <2>3, <2>4 DEF Timely

LEMMA EnterKeepsProf == ASSUME ProfInv, NEW c \in ProfCore, Enter(c) PROVE ProfInv'
<1> DEFINE a == Head(todo[c]).a
           b == [a |-> a, parent |-> parent[c], old |-> row[c][a].incl, start |-> clock]
<1> USE DEF Enter, Next1
<1>0. todo[c] # <<>> /\ phase = "frame" /\ phase' = "frame" /\ 0 \in ProfCore /\ 1 \in ProfCore
  BY DEF ProfCore
<1>1. PICK p \in Standing, st \in Starts, m \in Place(c) :
        /\ Under(p, st) /\ Goes(c, p[c], Head(todo[c]), m)
        /\ Leads(c, Tail(todo[c]), m, Final(c))
  BY <1>0, Stepping
<1>2. /\ Tail(todo[c]) \in Seq(Instr) /\ todo \in [ProfCore -> Seq(Instr)]
      /\ stack \in [ProfCore -> Seq(OpenBlock)] /\ a \in Anchor
      /\ clock \in Nat /\ row \in [ProfCore -> AnchorRow] /\ self \in [ProfCore -> [Anchor -> Nat]]
      /\ parent \in [ProfCore -> Anchor] /\ systick \in [ProfCore -> Nat]
  <2>1. Head(todo[c]) \in Instr /\ Tail(todo[c]) \in Seq(Instr)  BY <1>0, Stepping
  <2>2. a \in Anchor  BY <2>1 DEF Instr
  <2> HIDE DEF a, Enter, Next1
  <2> QED BY <2>1, <2>2 DEF ProfInv, ProfTypeOK
<1>3. /\ a # "none" /\ p[c].at = Outer(c)[a] /\ m.at = a
      /\ IF c = 0 /\ a = "raster_dispatch" THEN p[c].stage = "before" /\ m.stage = "waking"
         ELSE m.stage = p[c].stage
  BY <1>1 DEF Goes, Entering, Leaving, Passing
<1>4. b \in OpenBlock
  <2>1. row[c][a].incl \in Nat  BY <1>2 DEF AnchorRow
  <2> QED BY <1>2, <1>3, <2>1 DEF OpenBlock
<1>5. /\ stack' = [stack EXCEPT ![c] = <<b>> \o @] /\ parent' = [parent EXCEPT ![c] = a]
      /\ systick' = IF a \in Fine THEN [systick EXCEPT ![c] = 0] ELSE systick
      /\ todo' = [todo EXCEPT ![c] = Tail(@)]
      /\ UNCHANGED <<phase, row, acc, accFrames, frameNo, clock, tileNo, go, done, self>>
  OBVIOUS
<1>6. b.a = a /\ b.parent = parent[c] /\ b.old = row[c][a].incl /\ b.start = clock  OBVIOUS
<1> HIDE DEF a, b, Enter, Next1
<1>7. st[c] \in [Anchor -> Nat] /\ p[c] \in Place(c)  BY DEF Starts, Standing
<1>8. Nested(c, p[c], st[c]) /\ Timely(c, p[c], st[c])  BY <1>1 DEF Under
<1>9. PICK now \in [Anchor -> Nat] : now = [st[c] EXCEPT ![a] = clock]
  BY <1>2, <1>7
<1>10. Nested(c, m, now)'
  <2>1. /\ stack'[c] = <<b>> \o stack[c] /\ parent'[c] = a /\ row'[c] = row[c]
        /\ stack[c] \in Seq(OpenBlock)
    BY <1>2, <1>5
  <2> QED BY <1>2, <1>3, <1>4, <1>6, <1>7, <1>8, <1>9, <2>1, OpenedNests
<1>11. Timely(c, m, now)'
  <2>1. row[c] \in AnchorRow /\ (a \in Fine => systick'[c] = 0) /\ UNCHANGED <<row, clock, self>>
    BY <1>2, <1>5
  <2> QED BY <1>2, <1>3, <1>7, <1>8, <1>9, <2>1, OpenedTimely
<1>12. PICK q \in Standing : q = [p EXCEPT ![c] = m]  BY ReplacedType
<1>13. PICK ru \in Starts : ru = [st EXCEPT ![c] = now]
  BY <1>9 DEF Starts
<1>14. /\ q[c] = m /\ ru[c] = now
       /\ \A d \in ProfCore \ {c} : q[d] = p[d] /\ ru[d] = st[d]
  BY <1>12, <1>13 DEF Standing, Starts
<1>15. ASSUME NEW d \in ProfCore
       PROVE  Leads(d, todo'[d], q[d], Final(d)) /\ Nested(d, q[d], ru[d])' /\ Timely(d, q[d], ru[d])'
  <2>1. CASE d = c
    <3>1. todo'[c] = Tail(todo[c])  BY <1>2, <1>5
    <3> QED BY <1>1, <1>10, <1>11, <1>14, <2>1, <3>1
  <2>2. CASE d # c
    <3>1. /\ stack'[d] = stack[d] /\ parent'[d] = parent[d] /\ row'[d] = row[d]
          /\ systick'[d] = systick[d] /\ self'[d] = self[d] /\ clock' = clock
          /\ todo'[d] = todo[d]
      BY <1>2, <1>5, <2>2
    <3>2. Leads(d, todo[d], p[d], Final(d)) /\ Nested(d, p[d], st[d]) /\ Timely(d, p[d], st[d])
      BY <1>1 DEF Under
    <3>3. Nested(d, p[d], st[d])' /\ Timely(d, p[d], st[d])'
      BY <3>1, <3>2, Untouched
    <3> QED BY <1>14, <2>2, <3>1, <3>2, <3>3
  <2> QED BY <2>1, <2>2
<1>16. Meeting(q)'
  <2>1. Meeting(p)  BY <1>1 DEF Under
  <2>2. /\ Hits(0)' = Hits(0) /\ Hits(1)' = Hits(1) /\ tileNo' = tileNo
        /\ (go' <=> go) /\ (done' <=> done)
    BY <1>5 DEF Hits
  <2>3. /\ Claimed(m) = Claimed(p[c])
        /\ m.stage = p[c].stage \/ (c = 0 /\ p[c].stage = "before" /\ m.stage = "waking")
    <3>1. m.stage = p[c].stage \/ (c = 0 /\ p[c].stage = "before" /\ m.stage = "waking")
      BY <1>3
    <3> QED BY <3>1 DEF Claimed
  <2>4. CASE c = 0
    <3>1. q[0] = m /\ q[1] = p[1]  BY <1>0, <1>14, <2>4
    <3> QED BY <2>1, <2>2, <2>3, <2>4, <3>1 DEF Meeting
  <2>5. CASE c = 1
    <3>1. q[1] = m /\ q[0] = p[0] /\ m.stage = p[1].stage  BY <1>0, <1>14, <2>3, <2>5
    <3>2. m # Parked /\ p[1] # Parked
      <4>1. Parked.at = "none" /\ Parked.stage = "idle"  BY DEF Parked, Final
      <4>2. m.at # "none" /\ m.stage # "idle"
        BY <1>3, <2>5 DEF Place
      <4> QED BY <3>1, <4>1, <4>2
    <3> QED BY <2>1, <2>2, <2>3, <2>5, <3>1, <3>2 DEF Meeting
  <2> QED BY <2>4, <2>5 DEF ProfCore
<1>17. Shared'
  <2>1. Shared  BY <1>1 DEF Under
  <2> QED BY <1>5, <2>1 DEF Shared, TimeIn
<1>18. Running' /\ Resting'
  <2>1. Under(q, ru)'  BY <1>15, <1>16, <1>17 DEF Under
  <2> QED BY <1>0, <2>1 DEF Running, Resting
<1>19. todo' \in [ProfCore -> Seq(Instr)]  BY <1>2, <1>5
<1>20. stack' \in [ProfCore -> Seq(OpenBlock)]
  <2>1. <<b>> \o stack[c] \in Seq(OpenBlock)
    <3>1. <<b>> \in Seq(OpenBlock) /\ stack[c] \in Seq(OpenBlock)  BY <1>2, <1>4
    <3> QED BY <3>1, ConcatProperties
  <2> QED BY <1>2, <1>5, <2>1
<1>21. ProfTypeOK'
  <2>1. parent' \in [ProfCore -> Anchor] /\ systick' \in [ProfCore -> Nat]  BY <1>2, <1>5
  <2> QED BY <1>5, <2>1 DEF ProfInv, ProfTypeOK
<1>22. Totals'  BY <1>5 DEF ProfInv, Totals
<1> QED BY <1>18, <1>19, <1>20, <1>21, <1>22 DEF ProfInv

-----------------------------------------------------------------------------
(* A block is closed: what its row and that of the block around it gain. *)
LEMMA Charged ==
  ASSUME NEW from \in AnchorRow, NEW at \in Anchor, NEW up \in Anchor, at # up,
         NEW told \in Nat, NEW time \in Nat, NEW flag \in BOOLEAN,
         NEW block, block.a = at, block.parent = up, block.old = told,
         NEW to, to = Charge(from, block, time, flag)
  PROVE  /\ to \in AnchorRow
         /\ to[at].excl = from[at].excl + time /\ to[at].incl = told + time
         /\ to[at].hits = from[at].hits + 1
         /\ to[at].wrapped = (from[at].wrapped \/ flag)
         /\ to[up].excl = from[up].excl - time
         /\ \A x \in Anchor \ {at} : to[x].incl = from[x].incl /\ to[x].hits = from[x].hits
         /\ \A x \in Anchor \ {at} : to[x].wrapped = from[x].wrapped
         /\ \A x \in Anchor \ {at} : x # up => to[x].excl = from[x].excl
<1> DEFINE Row == [excl : Int, incl : Nat, hits : Nat, wrapped : BOOLEAN]
           out == [from EXCEPT ![up].excl = @ - time]
           new == [excl |-> out[at].excl + time, incl |-> told + time,
                   hits |-> out[at].hits + 1, wrapped |-> out[at].wrapped \/ flag]
<1>1. \A x \in Anchor : from[x] \in Row  BY DEF AnchorRow
<1>2. /\ out \in AnchorRow /\ out[up].excl = from[up].excl - time
      /\ \A x \in Anchor : /\ out[x].incl = from[x].incl /\ out[x].hits = from[x].hits
                           /\ out[x].wrapped = from[x].wrapped
                           /\ x # up => out[x].excl = from[x].excl
  <2>1. [from[up] EXCEPT !.excl = @ - time] \in Row
    <3>1. ASSUME NEW y \in Row PROVE [y EXCEPT !.excl = @ - time] \in Row
      <4>1. y.excl - time \in Int  OBVIOUS
      <4> QED BY <4>1
    <3> QED BY <1>1, <3>1
  <2> QED BY <1>1, <2>1 DEF AnchorRow
<1>3. to = [out EXCEPT ![at] = new]  BY DEF Charge
<1> HIDE DEF out
<1>4. new \in Row
  <2>1. out[at] \in Row  BY <1>2 DEF AnchorRow
  <2>2. (out[at].wrapped \/ flag) \in BOOLEAN  OBVIOUS
  <2> QED BY <2>1, <2>2
<1>5. to \in AnchorRow /\ to[at] = new /\ \A x \in Anchor \ {at} : to[x] = out[x]
  BY <1>2, <1>3, <1>4 DEF AnchorRow
<1>6. to[up].excl = from[up].excl - time  BY <1>2, <1>5
<1>7. /\ to[at].excl = from[at].excl + time /\ to[at].incl = told + time
      /\ to[at].hits = from[at].hits + 1
  BY <1>2, <1>5
<1>8. to[at].wrapped = (from[at].wrapped \/ flag)
  <2>1. new.wrapped = (out[at].wrapped \/ flag)  OBVIOUS
  <2>2. out[at].wrapped = from[at].wrapped  BY <1>2
  <2> HIDE DEF new
  <2> QED BY <1>5, <2>1, <2>2, Zenon
<1> HIDE DEF new
<1>9. /\ \A x \in Anchor \ {at} : to[x].incl = from[x].incl /\ to[x].hits = from[x].hits
      /\ \A x \in Anchor \ {at} : to[x].wrapped = from[x].wrapped
      /\ \A x \in Anchor \ {at} : x # up => to[x].excl = from[x].excl
  BY <1>2, <1>5
<1> QED BY <1>5, <1>6, <1>7, <1>8, <1>9

LEMMA ClosedNests ==
  ASSUME NEW c \in ProfCore, NEW p \in Place(c), NEW m \in Place(c), p.at \in Anchor \ {"none"},
         m.at = Outer(c)[p.at], NEW st \in [Anchor -> Nat], stack[c] \in Seq(OpenBlock),
         Nested(c, p, st), stack'[c] = Tail(stack[c]), parent'[c] = m.at,
         \A x \in Anchor \ {p.at} : row'[c][x].incl = row[c][x].incl
  PROVE  Nested(c, m, st)'
<1> DEFINE s == stack[c]
           t == Tail(s)
<1>1. /\ parent[c] = p.at
      /\ s = <<>> <=> p.at = "none"
      /\ \A i \in 1 .. Len(s) :
           /\ s[i].a = IF i = 1 THEN p.at ELSE s[i - 1].parent
           /\ s[i].parent = Outer(c)[s[i].a]
           /\ i = Len(s) <=> s[i].parent = "none"
           /\ Level[s[i].a] + i = Level[p.at] + 1
           /\ s[i].old = row[c][s[i].a].incl /\ s[i].start = st[s[i].a]
  BY DEF Nested
<1>2. /\ s # <<>> /\ Len(s) \in Nat \ {0} /\ Len(t) = Len(s) - 1
      /\ \A i \in 1 .. Len(t) : t[i] = s[i + 1]
      /\ t = <<>> <=> Len(t) = 0
  <2>1. s # <<>> /\ s \in Seq(OpenBlock)  BY <1>1
  <2>2. /\ Len(s) \in Nat \ {0} /\ t \in Seq(OpenBlock) /\ Len(t) = Len(s) - 1
        /\ \A i \in 1 .. Len(t) : t[i] = s[i + 1]
    BY <2>1, HeadTailProperties, EmptySeq
  <2>3. t = <<>> <=> Len(t) = 0  BY <2>2, EmptySeq
  <2> QED BY <2>1, <2>2, <2>3
<1>3. ASSUME NEW i \in 1 .. Len(s) PROVE s[i].a \in Anchor
  <2>1. s[i] \in OpenBlock  BY ElementOfSeq
  <2> QED BY <2>1 DEF OpenBlock
<1>4. stack'[c] = t  OBVIOUS
<1>5. m.at # "none" => Level[p.at] = Level[m.at] + 1  BY NestingOf
<1>6. m.at \in Anchor /\ \A x \in Anchor : Level[x] \in Nat
  <2>1. m.at \in Anchor  BY NestingOf
  <2> QED BY <2>1 DEF Level
<1> HIDE DEF s, t
<1>7. /\ s[1].a = p.at /\ s[1].parent = m.at
      /\ Len(s) = 1 <=> m.at = "none"
  BY <1>1, <1>2
<1>8. ASSUME NEW i \in 1 .. Len(t)
      PROVE  /\ t[i].a = IF i = 1 THEN m.at ELSE t[i - 1].parent
             /\ t[i].parent = Outer(c)[t[i].a]
             /\ i = Len(t) <=> t[i].parent = "none"
             /\ Level[t[i].a] + i = Level[m.at] + 1
             /\ t[i].old = row'[c][t[i].a].incl /\ t[i].start = st[t[i].a]
  <2> DEFINE j == i + 1
             x == s[j].a
  <2>1. j \in 1 .. Len(s) /\ t[i] = s[j] /\ j # 1 /\ j - 1 = i /\ i \in 1 .. Len(s)
        /\ (i = Len(t) <=> j = Len(s)) /\ i \in Nat /\ m.at # "none"
    BY <1>2, <1>7
  <2>2. /\ x = s[i].parent
        /\ s[j].parent = Outer(c)[x] /\ (j = Len(s) <=> s[j].parent = "none")
        /\ Level[x] + j = Level[p.at] + 1
        /\ s[j].old = row[c][x].incl /\ s[j].start = st[x]
        /\ x \in Anchor
    BY <1>1, <1>3, <2>1
  <2>3. x = IF i = 1 THEN m.at ELSE t[i - 1].parent
    <3>1. CASE i = 1  BY <1>7, <2>2, <3>1
    <3>2. CASE i # 1
      <4>1. PICK k \in 1 .. Len(t) : i = k + 1
        <5>1. i - 1 \in 1 .. Len(t) /\ i = (i - 1) + 1  BY <1>2, <3>2
        <5> QED BY <5>1
      <4>2. t[k] = s[i] /\ i - 1 = k  BY <1>2, <4>1
      <4> QED BY <2>2, <3>2, <4>2
    <3> QED BY <3>1, <3>2
  <2>4. Level[x] + i = Level[m.at] + 1 /\ x # p.at
    <3> DEFINE u == Level[x]
               v == Level[p.at]
               w == Level[m.at]
    <3>1. u \in Nat /\ v \in Nat /\ w \in Nat /\ u + j = v + 1 /\ v = w + 1 /\ j = i + 1
      BY <1>5, <1>6, <2>1, <2>2
    <3> HIDE DEF u, v, w
    <3>2. u + i = w + 1 /\ u < v  BY <2>1, <3>1
    <3> QED BY <3>1, <3>2 DEF u, v, w
  <2>5. row'[c][x].incl = row[c][x].incl  BY <2>2, <2>4
  <2> HIDE DEF x, j
  <2>6. t[i].a = x  BY <2>1 DEF x
  <2> QED BY <2>1, <2>2, <2>3, <2>4, <2>5, <2>6
<1>9. \A i \in 1 .. Len(stack'[c]) :
        LET x == stack'[c][i]
        IN  /\ x.a = IF i = 1 THEN m.at ELSE stack'[c][i - 1].parent
            /\ x.parent = Outer(c)[x.a]
            /\ i = Len(stack'[c]) <=> x.parent = "none"
            /\ Level[x.a] + i = Level[m.at] + 1
            /\ x.old = row'[c][x.a].incl /\ x.start = st[x.a]
  <2> TAKE i \in 1 .. Len(stack'[c])
  <2>1. i \in 1 .. Len(t)  BY <1>4
  <2> QED BY <1>4, <1>8, <2>1
<1>10. parent'[c] = m.at /\ (stack'[c] = <<>> <=> m.at = "none")
  <2>1. t = <<>> <=> m.at = "none"  BY <1>2, <1>7
  <2> QED BY <1>4, <2>1
<1> QED BY <1>9, <1>10 DEF Nested

LEMMA ClosedTimely ==
  ASSUME NEW c \in ProfCore, NEW p \in Place(c), NEW m \in Place(c), p.at \in Anchor \ {"none"},
         p.at \in Timed(c), m.at = Outer(c)[p.at], NEW st \in [Anchor -> Nat], clock \in Nat,
         row[c] \in AnchorRow, self \in [ProfCore -> [Anchor -> Nat]], Timely(c, p, st),
         NEW e \in Nat, NEW f \in BOOLEAN, f => p.at \in Fine,
         f \/ e = clock - st[p.at], UNCHANGED <<clock, self>>,
         row'[c][p.at].excl = row[c][p.at].excl + e,
         row'[c][p.at].incl = row[c][p.at].incl + e,
         row'[c][p.at].wrapped = (row[c][p.at].wrapped \/ f),
         row'[c][m.at].excl = row[c][m.at].excl - e,
         \A x \in Anchor \ {p.at} : row'[c][x].incl = row[c][x].incl,
         \A x \in Anchor \ {p.at} : row'[c][x].wrapped = row[c][x].wrapped,
         \A x \in Anchor \ {p.at} : x # m.at => row'[c][x].excl = row[c][x].excl
  PROVE  Timely(c, m, st)'
<1> DEFINE a == p.at
           w == m.at
           r == row[c]
           u == row'[c]
<1>1. /\ a \in Anchor \ {"none"} /\ w \in Anchor /\ a # w
      /\ \A x \in Timed(c) : a \in Inside[x] <=> x = a \/ w \in Inside[x]
      /\ w \notin Inside[a]
      /\ w # "none" => Around[a] = w
  <2>1. /\ w \in Anchor
        /\ \A x \in Timed(c) : a \in Inside[x] <=> x = a \/ w \in Inside[x]
        /\ w \notin Inside[a]
        /\ w # "none" => Around[a] = w
    BY NestingOf
  <2>2. a \in Inside[a]  BY <2>1
  <2> QED BY <2>1, <2>2
<1>2. \A x \in Timed(c) : x \in Anchor \ {"none"} /\ x \in Inside[x] /\ Outer(c)[x] \notin Inside[x]
  <2> TAKE x \in Timed(c)
  <2>1. x \in Anchor \ {"none"}  BY DEF Timed
  <2> QED BY <2>1, NestingOf
<1>3. w \notin Fine
  <2>1. c = 0 \/ c = 1  BY DEF ProfCore
  <2> QED BY <1>1, <2>1 DEF Outer, Around, Fine, Anchor
<1>4. \A x \in Anchor : /\ r[x].excl \in Int /\ r[x].incl \in Nat /\ st[x] \in Nat
                        /\ self[c][x] \in Int /\ TimeIn(c)[x] \in Int
  <2>1. \A x \in Anchor : TimeIn(c)[x] \in Nat  BY TimeInType
  <2>2. \A x \in Anchor : r[x].excl \in Int /\ r[x].incl \in Nat
    <3>1. r \in AnchorRow  OBVIOUS
    <3> HIDE DEF a, w, r, u
    <3> QED BY <3>1 DEF AnchorRow
  <2>3. \A x \in Anchor : st[x] \in Nat /\ self[c][x] \in Int  OBVIOUS
  <2> QED BY <2>1, <2>2, <2>3
<1>5. /\ u[a].excl = r[a].excl + e /\ u[a].incl = r[a].incl + e
      /\ u[a].wrapped = (r[a].wrapped \/ f)
      /\ u[w].excl = r[w].excl - e
      /\ \A x \in Anchor \ {a} :
           /\ u[x].incl = r[x].incl /\ u[x].wrapped = r[x].wrapped
           /\ x # w => u[x].excl = r[x].excl
  OBVIOUS
<1>6. TimeIn(c)' = TimeIn(c)  BY DEF TimeIn
<1>7. \A x \in Anchor : r[x].wrapped => u[x].wrapped
  <2> TAKE x \in Anchor
  <2>1. CASE x = a
    <3>1. u[a].wrapped = (r[a].wrapped \/ f)  BY <1>5
    <3> QED BY <2>1, <3>1, Zenon
  <2>2. CASE x # a  BY <1>5, <2>2
  <2> QED BY <2>1, <2>2
<1>8. f => u[a].wrapped
  <2>1. u[a].wrapped = (r[a].wrapped \/ f)  BY <1>5
  <2> QED BY <2>1, Zenon
<1>9. /\ \A x : Spoiled(c, x) => Spoiled(c, x)'
      /\ f => Spoiled(c, a)' /\ (w # "none" => Spoiled(c, w)')
  BY <1>1, <1>7, <1>8 DEF Spoiled
<1>10. \A x \in Timed(c) :
         IF a \in Inside[x]
         THEN /\ st[x] <= clock
              /\ r[x].wrapped \/ TimeIn(c)[x] = r[x].incl + (clock - st[x])
              /\ a = x => Spoiled(c, x) \/ r[x].excl + (clock - st[x]) = self[c][x]
              /\ \A y \in Timed(c) : Outer(c)[y] = x /\ a \in Inside[y] =>
                   Spoiled(c, x) \/ r[x].excl + (st[y] - st[x]) = self[c][x]
         ELSE /\ r[x].wrapped \/ TimeIn(c)[x] = r[x].incl
              /\ Spoiled(c, x) \/ r[x].excl = self[c][x]
  BY DEF Timely
<1>11. w = Outer(c)[a] /\ a \in Timed(c) /\ (f \/ e = clock - st[a])  OBVIOUS
<1>12. \A x \in Anchor \ Fine : ~r[x].wrapped  BY DEF Timely
<1>13. /\ clock' = clock /\ self' = self /\ (f => a \in Fine) /\ m.at = w /\ row'[c] = u
  OBVIOUS
<1> HIDE DEF a, w, r, u
<1>14. ASSUME NEW x \in Timed(c)
       PROVE  IF w \in Inside[x]
              THEN /\ st[x] <= clock
                   /\ u[x].wrapped \/ TimeIn(c)[x] = u[x].incl + (clock - st[x])
                   /\ w = x => Spoiled(c, x)' \/ u[x].excl + (clock - st[x]) = self[c][x]
                   /\ \A y \in Timed(c) : Outer(c)[y] = x /\ w \in Inside[y] =>
                        Spoiled(c, x)' \/ u[x].excl + (st[y] - st[x]) = self[c][x]
              ELSE /\ u[x].wrapped \/ TimeIn(c)[x] = u[x].incl
                   /\ Spoiled(c, x)' \/ u[x].excl = self[c][x]
  <2>0. x \in Anchor /\ x # "none"  BY <1>2
  <2>1. CASE x = a
    <3>1. w \notin Inside[x] /\ a \in Inside[x]  BY <1>1, <1>2, <2>1
    <3>2. CASE f  BY <1>8, <1>9, <2>1, <3>1, <3>2
    <3>3. CASE e = clock - st[a]
      <4>1. r[x].wrapped \/ TimeIn(c)[x] = u[x].incl
        BY <1>4, <1>5, <1>10, <2>0, <2>1, <3>1, <3>3
      <4>2. Spoiled(c, x) \/ u[x].excl = self[c][x]
        BY <1>4, <1>5, <1>10, <2>0, <2>1, <3>1, <3>3
      <4> QED BY <1>7, <1>9, <2>0, <3>1, <4>1, <4>2
    <3> QED BY <1>11, <3>2, <3>3
  <2>2. CASE x # a /\ a \in Inside[x]
    <3>1. w \in Inside[x] /\ u[x].incl = r[x].incl /\ st[x] <= clock
      BY <1>1, <1>5, <1>10, <2>0, <2>2
    <3>2. u[x].wrapped \/ TimeIn(c)[x] = u[x].incl + (clock - st[x])
      BY <1>7, <1>10, <2>0, <2>2, <3>1
    <3>3. w = x => Spoiled(c, x)' \/ u[x].excl + (clock - st[x]) = self[c][x]
      <4> SUFFICES ASSUME w = x PROVE Spoiled(c, x)' \/ u[x].excl + (clock - st[x]) = self[c][x]
        OBVIOUS
      <4>1. CASE f  BY <1>9, <2>0, <4>1
      <4>2. CASE e = clock - st[a]
        <5>1. Spoiled(c, x) \/ r[x].excl + (st[a] - st[x]) = self[c][x]
          BY <1>2, <1>10, <1>11, <2>2
        <5>2. u[x].excl = r[x].excl - e  BY <1>5
        <5> QED BY <1>1, <1>4, <1>9, <2>0, <4>2, <5>1, <5>2
      <4> QED BY <1>11, <4>1, <4>2
    <3>4. ASSUME NEW y \in Timed(c), Outer(c)[y] = x, w \in Inside[y]
          PROVE  Spoiled(c, x)' \/ u[x].excl + (st[y] - st[x]) = self[c][x]
      <4>1. x # w  BY <1>2, <3>4
      <4>2. a \in Inside[y]  BY <1>1, <3>4
      <4>3. Spoiled(c, x) \/ r[x].excl + (st[y] - st[x]) = self[c][x]
        BY <1>10, <2>2, <3>4, <4>2
      <4>4. u[x].excl = r[x].excl  BY <1>5, <2>0, <2>2, <4>1
      <4> QED BY <1>9, <4>3, <4>4
    <3> QED BY <3>1, <3>2, <3>3, <3>4
  <2>3. CASE a \notin Inside[x]
    <3>1. x # a /\ x # w /\ w \notin Inside[x]  BY <1>1, <1>2, <2>3
    <3>2. u[x].incl = r[x].incl /\ u[x].excl = r[x].excl  BY <1>5, <2>0, <3>1
    <3> QED BY <1>7, <1>9, <1>10, <2>0, <2>3, <3>1, <3>2
  <2> QED BY <2>1, <2>2, <2>3
<1>15. \A x \in Timed(c) :
         IF m.at \in Inside[x]
         THEN /\ st[x] <= clock'
              /\ row'[c][x].wrapped \/ TimeIn(c)'[x] = row'[c][x].incl + (clock' - st[x])
              /\ m.at = x =>
                   Spoiled(c, x)' \/ row'[c][x].excl + (clock' - st[x]) = self'[c][x]
              /\ \A y \in Timed(c) : Outer(c)[y] = x /\ m.at \in Inside[y] =>
                   Spoiled(c, x)' \/ row'[c][x].excl + (st[y] - st[x]) = self'[c][x]
         ELSE /\ row'[c][x].wrapped \/ TimeIn(c)'[x] = row'[c][x].incl
              /\ Spoiled(c, x)' \/ row'[c][x].excl = self'[c][x]
  <2> TAKE x \in Timed(c)
  <2> QED BY <1>6, <1>13, <1>14
<1>16. m.at \in Fine => systick'[c] = clock' - st[m.at]  BY <1>3, <1>13
<1>17. \A x \in Anchor \ Fine : ~row'[c][x].wrapped
  <2> TAKE x \in Anchor \ Fine
  <2>1. CASE x = a
    <3>1. ~f /\ ~r[a].wrapped /\ u[a].wrapped = (r[a].wrapped \/ f)
      BY <1>5, <1>12, <1>13, <2>1
    <3> QED BY <1>13, <2>1, <3>1, Zenon
  <2>2. CASE x # a  BY <1>5, <1>12, <1>13, <2>2
  <2> QED BY <2>1, <2>2
<1> QED BY <1>15, <1>16, <1>17 DEF Timely

-----------------------------------------------------------------------------
(* Remainders. *)
LEMMA MulAtLeast ==
  ASSUME NEW b \in Nat \ {0}, NEW k \in Int, k >= 1 PROVE b * k >= b
<1>1. b * k = b + b * (k - 1)  OBVIOUS
<1>2. b * (k - 1) >= 0  OBVIOUS
<1> QED BY <1>1, <1>2

LEMMA RemainderUnique ==
  ASSUME NEW b \in Nat \ {0}, NEW q \in Int, NEW r \in Int, 0 <= r, r < b,
         NEW n \in Int, n = q * b + r
  PROVE  n % b = r
<1> DEFINE d == n \div b
           m == n % b
<1>1. d \in Int /\ m \in Int /\ 0 <= m /\ m < b /\ n = b * d + m
  OBVIOUS
<1> HIDE DEF d, m
<1>2. b * (q - d) = m - r /\ b * (d - q) = r - m
  BY <1>1
<1>3. ~(q - d >= 1) /\ ~(d - q >= 1)
  BY <1>1, <1>2, MulAtLeast
<1>4. d = q  BY <1>1, <1>3
<1>5. m = r  BY <1>1, <1>4
<1> QED BY <1>5 DEF m

LEMMA RemainderInRange ==
  ASSUME NEW b \in Nat \ {0}, NEW n \in Int
  PROVE  n % b \in 0 .. b - 1
<1>1. n % b \in Int /\ 0 <= n % b /\ n % b < b  OBVIOUS
<1> QED BY <1>1

LEMMA LeaveKeepsProf == ASSUME ProfInv, NEW c \in ProfCore, Leave(c) PROVE ProfInv'
<1> DEFINE b == Head(stack[c])
           fine == b.a \in Fine
           e == IF fine THEN FineElapsed(systick[c]) ELSE clock - b.start
           f == fine /\ CountFlag(systick[c])
<1> USE DEF Leave, Next1
<1>0. todo[c] # <<>> /\ phase = "frame" /\ phase' = "frame" /\ 0 \in ProfCore /\ 1 \in ProfCore
  BY DEF ProfCore
<1>1. PICK p \in Standing, st \in Starts, m \in Place(c) :
        /\ Under(p, st) /\ Goes(c, p[c], Head(todo[c]), m)
        /\ Leads(c, Tail(todo[c]), m, Final(c))
  BY <1>0, Stepping
<1>2. Tail(todo[c]) \in Seq(Instr)  BY <1>0, Stepping
<1>3. /\ p[c].at # "none" /\ m.at = Outer(c)[p[c].at]
      /\ m.stage = IF p[c].at = "raster_tile" THEN "draining" ELSE p[c].stage
  BY <1>1 DEF Goes, Entering, Leaving, Passing
<1>4. /\ row' = [row EXCEPT ![c] = Charge(@, b, e, f)] /\ parent' = [parent EXCEPT ![c] = b.parent]
      /\ stack' = [stack EXCEPT ![c] = Tail(@)] /\ todo' = [todo EXCEPT ![c] = Tail(@)]
      /\ UNCHANGED <<phase, acc, accFrames, frameNo, clock, systick, tileNo, go, done, self>>
  OBVIOUS
<1> HIDE DEF Leave, Next1, b, e, f
<1>5. /\ todo \in [ProfCore -> Seq(Instr)] /\ stack \in [ProfCore -> Seq(OpenBlock)]
      /\ clock \in Nat /\ row \in [ProfCore -> AnchorRow] /\ self \in [ProfCore -> [Anchor -> Nat]]
      /\ parent \in [ProfCore -> Anchor] /\ systick \in [ProfCore -> Nat] /\ tileNo \in Nat
  BY DEF ProfInv, ProfTypeOK
<1>6. st[c] \in [Anchor -> Nat] /\ p[c] \in Place(c)  BY DEF Starts, Standing
<1>7. Nested(c, p[c], st[c]) /\ Timely(c, p[c], st[c])  BY <1>1 DEF Under
<1>8. p[c].at \in Anchor /\ p[c].at \in Timed(c)
  <2>1. c = 0 \/ c = 1  BY DEF ProfCore
  <2> QED BY <1>3, <1>6, <2>1 DEF Place, TileBlock, Fine, Anchor, Timed
<1>9. /\ b.a = p[c].at /\ b.parent = m.at /\ b.old = row[c][p[c].at].incl
      /\ b.start = st[c][p[c].at] /\ Tail(stack[c]) \in Seq(OpenBlock)
  <2>1. stack[c] # <<>> /\ stack[c] \in Seq(OpenBlock)  BY <1>3, <1>5, <1>7 DEF Nested
  <2>2. b = stack[c][1] /\ 1 \in 1 .. Len(stack[c]) /\ Tail(stack[c]) \in Seq(OpenBlock)
    BY <2>1, HeadTailProperties, EmptySeq DEF b
  <2> QED BY <1>3, <1>7, <2>2 DEF Nested
<1>10. p[c].at \in Inside[p[c].at] /\ m.at \in Anchor /\ m.at # p[c].at
  BY <1>3, <1>8, NestingOf
<1>11. st[c][p[c].at] <= clock  BY <1>7, <1>8, <1>10 DEF Timely
<1>12. e \in Nat /\ f \in BOOLEAN /\ (f => p[c].at \in Fine) /\ (f \/ e = clock - st[c][p[c].at])
  <2>1. f \in BOOLEAN /\ (f => p[c].at \in Fine)  BY <1>9 DEF f, CountFlag
  <2>2. CASE ~fine
    <3>1. e = clock - st[c][p[c].at]  BY <1>9, <2>2 DEF e
    <3> QED BY <1>5, <1>6, <1>8, <1>11, <2>1, <3>1
  <2>3. CASE fine
    <3> DEFINE t == systick[c]
    <3>1. t \in Nat /\ t = clock - st[c][p[c].at] /\ e = t % (SpanTicks + 1)
      BY <1>5, <1>7, <1>9, <2>3 DEF Timely, e, FineElapsed
    <3>2. e \in Nat
      <4>1. SpanTicks + 1 \in Nat \ {0} /\ t \in Int  BY <3>1
      <4>2. t % (SpanTicks + 1) \in 0 .. (SpanTicks + 1) - 1  BY <4>1, RemainderInRange
      <4> QED BY <3>1, <4>2
    <3>3. CASE t >= SpanTicks  BY <2>1, <2>3, <3>2, <3>3 DEF f, CountFlag
    <3>4. CASE ~(t >= SpanTicks)
      <4>1. SpanTicks + 1 \in Nat \ {0} /\ t \in Int /\ 0 <= t /\ t < SpanTicks + 1
            /\ t = 0 * (SpanTicks + 1) + t /\ 0 \in Int
        BY <3>1, <3>4
      <4>2. t % (SpanTicks + 1) = t  BY <4>1, RemainderUnique
      <4> QED BY <2>1, <3>1, <3>2, <4>2
    <3> QED BY <3>3, <3>4
  <2> QED BY <2>2, <2>3
<1>13. row'[c] = Charge(row[c], b, e, f) /\ stack'[c] = Tail(stack[c]) /\ parent'[c] = m.at
  BY <1>4, <1>5, <1>9
<1>14. /\ row'[c] \in AnchorRow
       /\ row'[c][p[c].at].hits = row[c][p[c].at].hits + 1
       /\ row'[c][p[c].at].excl = row[c][p[c].at].excl + e
       /\ row'[c][p[c].at].incl = row[c][p[c].at].incl + e
       /\ row'[c][p[c].at].wrapped = (row[c][p[c].at].wrapped \/ f)
       /\ row'[c][m.at].excl = row[c][m.at].excl - e
       /\ \A x \in Anchor \ {p[c].at} :
            row'[c][x].incl = row[c][x].incl /\ row'[c][x].hits = row[c][x].hits
       /\ \A x \in Anchor \ {p[c].at} : row'[c][x].wrapped = row[c][x].wrapped
       /\ \A x \in Anchor \ {p[c].at} : x # m.at => row'[c][x].excl = row[c][x].excl
  <2>1. row[c] \in AnchorRow /\ row[c][p[c].at].incl \in Nat  BY <1>5, <1>8 DEF AnchorRow
  <2>2. PICK u, r, i, t, g, a, w, n :
          /\ u = row'[c] /\ r = row[c] /\ i = b /\ t = e /\ g = f
          /\ a = p[c].at /\ w = m.at /\ n = row[c][p[c].at].incl
    OBVIOUS
  <2>3. /\ r \in AnchorRow /\ a \in Anchor /\ w \in Anchor /\ a # w /\ n \in Nat
        /\ t \in Nat /\ g \in BOOLEAN /\ i.a = a /\ i.parent = w /\ i.old = n
    BY <1>8, <1>9, <1>10, <1>12, <2>1, <2>2
  <2>4. u = Charge(r, i, t, g)  BY <1>13, <2>2 DEF Charge
  <2>5. /\ u \in AnchorRow
        /\ u[a].excl = r[a].excl + t /\ u[a].incl = n + t /\ u[a].hits = r[a].hits + 1
        /\ u[a].wrapped = (r[a].wrapped \/ g)
        /\ u[w].excl = r[w].excl - t
        /\ \A x \in Anchor \ {a} : u[x].incl = r[x].incl /\ u[x].hits = r[x].hits
        /\ \A x \in Anchor \ {a} : u[x].wrapped = r[x].wrapped
        /\ \A x \in Anchor \ {a} : x # w => u[x].excl = r[x].excl
    BY <2>3, <2>4, Charged, SMTT(60)
  <2>6. n = r[a].incl  BY <2>2
  <2> QED BY <2>2, <2>5, <2>6, Zenon
<1>15. Nested(c, m, st[c])'
  <2>1. stack[c] \in Seq(OpenBlock) /\ p[c].at \in Anchor \ {"none"}  BY <1>3, <1>5, <1>8
  <2> QED BY <1>3, <1>6, <1>7, <1>13, <1>14, <2>1, ClosedNests
<1>16. Timely(c, m, st[c])'
  <2>1. /\ row[c] \in AnchorRow /\ p[c].at \in Anchor \ {"none"} /\ UNCHANGED <<clock, self>>
    BY <1>3, <1>4, <1>5, <1>8
  <2> QED BY <1>3, <1>5, <1>6, <1>7, <1>8, <1>12, <1>14, <2>1, ClosedTimely
<1>17. PICK q \in Standing : q = [p EXCEPT ![c] = m]  BY ReplacedType
<1>18. q[c] = m /\ \A d \in ProfCore \ {c} : q[d] = p[d]
  BY <1>17 DEF Standing
<1>19. ASSUME NEW d \in ProfCore
       PROVE  Leads(d, todo'[d], q[d], Final(d)) /\ Nested(d, q[d], st[d])' /\ Timely(d, q[d], st[d])'
  <2>1. CASE d = c
    <3>1. todo'[c] = Tail(todo[c])  BY <1>4, <1>5
    <3> QED BY <1>1, <1>15, <1>16, <1>18, <2>1, <3>1
  <2>2. CASE d # c
    <3>1. /\ stack'[d] = stack[d] /\ parent'[d] = parent[d] /\ row'[d] = row[d]
          /\ systick'[d] = systick[d] /\ self'[d] = self[d] /\ clock' = clock
          /\ todo'[d] = todo[d]
      BY <1>4, <1>5, <2>2
    <3>2. Leads(d, todo[d], p[d], Final(d)) /\ Nested(d, p[d], st[d]) /\ Timely(d, p[d], st[d])
      BY <1>1 DEF Under
    <3>3. Nested(d, p[d], st[d])' /\ Timely(d, p[d], st[d])'
      BY <3>1, <3>2, Untouched
    <3> QED BY <1>18, <2>2, <3>1, <3>2, <3>3
  <2> QED BY <2>1, <2>2
<1>20. Meeting(q)'
  <2>1. Meeting(p)  BY <1>1 DEF Under
  <2>2. tileNo' = tileNo /\ (go' <=> go) /\ (done' <=> done)  BY <1>4
  <2>3. "raster_tile" \in Anchor /\ \A d \in ProfCore : Hits(d) \in Nat
    BY <1>5 DEF Hits, AnchorRow, Anchor
  <2>4. \A d \in ProfCore \ {c} : Hits(d)' = Hits(d)
    BY <1>4, <1>5 DEF Hits
  <2>5. Hits(c)' + Claimed(m) = Hits(c) + Claimed(p[c])
        /\ (p[c].at = "raster_tile" => p[c].stage = "tile")
    <3>1. CASE p[c].at = "raster_tile"
      <4>1. p[c].stage = "tile"
        <5>1. c = 0 \/ c = 1  BY DEF ProfCore
        <5> QED BY <1>6, <3>1, <5>1 DEF Place
      <4>2. Hits(c)' = Hits(c) + 1  BY <1>14, <3>1 DEF Hits
      <4>3. Claimed(p[c]) = 1 /\ Claimed(m) = 0  BY <1>3, <3>1, <4>1 DEF Claimed
      <4> QED BY <2>3, <4>1, <4>2, <4>3
    <3>2. CASE p[c].at # "raster_tile"
      <4>1. Hits(c)' = Hits(c)  BY <1>14, <2>3, <3>2 DEF Hits
      <4>2. Claimed(m) = Claimed(p[c])  BY <1>3, <3>2 DEF Claimed
      <4> QED BY <3>2, <4>1, <4>2
    <3> QED BY <3>1, <3>2
  <2>6. Claimed(p[0]) \in Int /\ Claimed(p[1]) \in Int /\ Claimed(m) \in Int  BY DEF Claimed
  <2>7. /\ q[0].stage \in {"before", "waking"} <=> p[0].stage \in {"before", "waking"}
        /\ q[0].stage \in {"draining", "tile", "drained"}
             <=> p[0].stage \in {"draining", "tile", "drained"}
        /\ q[0].stage = "joined" <=> p[0].stage = "joined"
        /\ q[0].stage = "drained" <=> p[0].stage = "drained"
        /\ q[1].stage = "drained" <=> p[1].stage = "drained"
    <3>1. CASE c = 0
      <4>1. q[0] = m /\ q[1] = p[1]  BY <1>0, <1>18, <3>1
      <4> QED BY <1>3, <2>5, <3>1, <4>1
    <3>2. CASE c = 1
      <4>1. q[1] = m /\ q[0] = p[0]  BY <1>0, <1>18, <3>2
      <4> QED BY <1>3, <2>5, <3>2, <4>1
    <3> QED BY <3>1, <3>2 DEF ProfCore
  <2>8. q[1] = Parked <=> p[1] = Parked
    <3>1. CASE c = 0  BY <1>0, <1>18, <3>1
    <3>2. CASE c = 1
      <4>1. Parked.at = "none" /\ Parked.stage = "idle"  BY DEF Parked, Final
      <4>2. p[1].stage # "idle"  BY <1>3, <1>6, <3>2 DEF Place
      <4>3. m.stage # "idle"  BY <1>3, <3>2, <4>2
      <4> QED BY <1>18, <3>2, <4>1, <4>2, <4>3
    <3> QED BY <3>1, <3>2 DEF ProfCore
  <2>9. Hits(0)' + Hits(1)' + Claimed(q[0]) + Claimed(q[1])
          = Hits(0) + Hits(1) + Claimed(p[0]) + Claimed(p[1])
    <3>1. CASE c = 0
      <4>1. q[0] = m /\ q[1] = p[1] /\ Hits(1)' = Hits(1)  BY <1>0, <1>18, <2>4, <3>1
      <4>2. Hits(0)' + Claimed(m) = Hits(0) + Claimed(p[0])  BY <2>5, <3>1
      <4>3. Hits(0)' \in Int  BY <1>14, <2>3, <3>1 DEF Hits, AnchorRow
      <4>4. Claimed(q[0]) = Claimed(m) /\ Claimed(q[1]) = Claimed(p[1])  BY <4>1
      <4>5. Hits(0) \in Int /\ Hits(1) \in Int /\ Hits(1)' = Hits(1)  BY <1>0, <2>3, <4>1
      <4> HIDE DEF Hits, Claimed
      <4> DEFINE h == Hits(0)'
                 k == Claimed(m)
                 g == Claimed(p[0])
                 o == Claimed(p[1])
      <4>6. /\ h \in Int /\ k \in Int /\ g \in Int /\ o \in Int /\ h + k = Hits(0) + g
            /\ Hits(0) \in Int /\ Hits(1) \in Int
        BY <2>6, <4>2, <4>3, <4>5
      <4> HIDE DEF h, k, g, o
      <4>7. h + Hits(1) + k + o = Hits(0) + Hits(1) + g + o  BY <4>6
      <4> QED BY <4>4, <4>5, <4>7 DEF h, k, g, o
    <3>2. CASE c = 1
      <4>1. q[1] = m /\ q[0] = p[0] /\ Hits(0)' = Hits(0)  BY <1>0, <1>18, <2>4, <3>2
      <4>2. Hits(1)' + Claimed(m) = Hits(1) + Claimed(p[1])  BY <2>5, <3>2
      <4>3. Hits(1)' \in Int  BY <1>14, <2>3, <3>2 DEF Hits, AnchorRow
      <4> QED BY <1>0, <2>3, <2>6, <4>1, <4>2, <4>3
    <3> QED BY <3>1, <3>2 DEF ProfCore
  <2>10. p[0].stage \in {"before", "waking"} => Hits(0)' = 0 /\ Hits(1)' = 0
    <3> SUFFICES ASSUME p[0].stage \in {"before", "waking"} PROVE Hits(0)' = 0 /\ Hits(1)' = 0
      OBVIOUS
    <3>1. p[1] = Parked /\ Hits(0) = 0 /\ Hits(1) = 0  BY <2>1 DEF Meeting
    <3>2. c = 0
      <4>1. c = 1 => p[1].at = "none"  BY <3>1 DEF Parked, Final
      <4> QED BY <1>3, <4>1 DEF ProfCore
    <3>3. p[c].at # "raster_tile"  BY <2>5, <3>2
    <3>4. Hits(c)' = Hits(c)  BY <1>14, <2>3, <3>3 DEF Hits
    <3> QED BY <1>0, <2>4, <3>1, <3>2, <3>4
  <2> QED BY <2>1, <2>2, <2>7, <2>8, <2>9, <2>10 DEF Meeting
<1>21. Shared'
  <2>1. Shared  BY <1>1 DEF Under
  <2> QED BY <1>4, <2>1 DEF Shared, TimeIn
<1>22. Running' /\ Resting'
  <2>1. Under(q, st)'  BY <1>19, <1>20, <1>21 DEF Under
  <2> QED BY <1>0, <2>1 DEF Running, Resting
<1>23. todo' \in [ProfCore -> Seq(Instr)]  BY <1>2, <1>4, <1>5
<1>24. stack' \in [ProfCore -> Seq(OpenBlock)]  BY <1>4, <1>5, <1>9
<1>25. ProfTypeOK'
  <2>1. parent' \in [ProfCore -> Anchor]  BY <1>4, <1>5, <1>9, <1>10
  <2>2. row' \in [ProfCore -> AnchorRow]  BY <1>4, <1>5, <1>13, <1>14
  <2> QED BY <1>4, <2>1, <2>2 DEF ProfInv, ProfTypeOK
<1>26. Totals'  BY <1>4 DEF ProfInv, Totals
<1> QED BY <1>22, <1>23, <1>24, <1>25, <1>26 DEF ProfInv

-----------------------------------------------------------------------------
(* A frame begins with no block open and no time spent. *)
LEMMA NoTimeIn ==
  ASSUME NEW c \in ProfCore, self'[c] = NoTime, NEW a \in Anchor
  PROVE  TimeIn(c)'[a] = 0
<1>1. /\ NoTime \in [Anchor -> Nat] /\ \A x \in Anchor : self'[c][x] = 0
      /\ self'[c] \in [Anchor -> Nat]
  BY DEF NoTime
<1>2. Anchor = {"none", "root", "cmdgen", "geom", "clear_blit", "raster_dispatch", "present",
        "raster_tile", "sweep_opaque", "sweep_xlu", "aa_resolve", "opaque_setup", "opaque_fill"}
  BY DEF Anchor, Fine
<1> QED BY <1>1, <1>2 DEF TimeIn

LEMMA FrameBeginKeepsProf == ASSUME ProfInv, FrameBegin PROVE ProfInv'
<1> DEFINE p == [c \in ProfCore |-> IF c = 0 THEN First(0) ELSE Parked]
           st == [c \in ProfCore |-> NoTime]
<1> USE DEF FrameBegin
<1>1. 0 \in ProfCore /\ 1 \in ProfCore /\ ProfCore = {0, 1}  BY DEF ProfCore
<1>2. /\ todo = [c \in ProfCore |-> <<>>] /\ stack = [c \in ProfCore |-> <<>>]
      /\ ~go /\ ~done /\ go' = go /\ done' = done
  BY DEF ProfInv, Resting
<1>3. /\ First(0) \in Place(0) /\ Parked \in Place(1)
      /\ First(0).at = "none" /\ First(0).stage = "before" /\ Parked.at = "none"
      /\ Parked.stage = "idle"
  BY DEF First, Parked, Final, Place
<1>4. p \in Standing /\ p[0] = First(0) /\ p[1] = Parked
  <2>1. \A c \in ProfCore : p[c] \in Place(c)  BY <1>1, <1>3
  <2> QED BY <1>1, <1>3, <2>1 DEF Standing
<1>5. st \in Starts /\ \A c \in ProfCore : st[c] = NoTime  BY DEF Starts, NoTime
<1> HIDE DEF p, st
<1>6. /\ todo'[0] = FrameCode /\ todo'[1] = <<>> /\ FrameCode \in Seq(Instr)
      /\ Leads(0, FrameCode, First(0), Final(0)) /\ Leads(1, <<>>, Parked, Final(1))
  <2>1. todo'[0] = FrameCode /\ todo'[1] = <<>>  BY <1>1, <1>2
  <2>2. Leads(1, <<>>, Parked, Final(1))  BY <1>3, LeadsNowhere DEF Parked
  <2> QED BY <2>1, <2>2, FrameLeads
<1>7. todo' \in [ProfCore -> Seq(Instr)]
  <2>1. todo \in [ProfCore -> Seq(Instr)]  BY DEF ProfInv
  <2> QED BY <1>1, <1>6, <2>1
<1>8. ASSUME NEW c \in ProfCore
      PROVE  Leads(c, todo'[c], p[c], Final(c)) /\ Nested(c, p[c], st[c])' /\ Timely(c, p[c], st[c])'
  <2>1. p[c].at = "none"  BY <1>1, <1>3, <1>4
  <2>2. Leads(c, todo'[c], p[c], Final(c))  BY <1>1, <1>4, <1>6
  <2>3. Nested(c, p[c], st[c])'
    <3>1. parent'[c] = "none" /\ stack'[c] = <<>> /\ Len(stack'[c]) = 0  BY <1>2
    <3> QED BY <2>1, <3>1 DEF Nested
  <2>4. Timely(c, p[c], st[c])'
    <3>1. /\ \A x \in Anchor : row'[c][x] = Blank /\ TimeIn(c)'[x] = 0 /\ self'[c][x] = 0
          /\ \A x \in Anchor : "none" \notin Inside[x] \/ x = "none"
          /\ "none" \notin Fine
      <4>1. \A x \in Anchor : row'[c][x] = Blank /\ self'[c][x] = 0
        BY DEF BlankRow, NoTime
      <4>2. \A x \in Anchor : TimeIn(c)'[x] = 0
        <5>1. self'[c] = NoTime  OBVIOUS
        <5> QED BY <5>1, NoTimeIn
      <4>3. \A x \in Anchor : "none" \notin Inside[x] \/ x = "none"
        BY DEF Inside, Anchor, TileBlock, Fine
      <4> QED BY <4>1, <4>2, <4>3 DEF Fine
    <3>2. Blank.incl = 0 /\ Blank.excl = 0 /\ ~Blank.wrapped  BY DEF Blank
    <3>3. \A x \in Timed(c) : x \in Anchor /\ x # "none"  BY DEF Timed
    <3> QED BY <2>1, <3>1, <3>2, <3>3 DEF Timely
  <2> QED BY <2>2, <2>3, <2>4
<1>9. Meeting(p)'
  <2>1. Hits(0)' = 0 /\ Hits(1)' = 0
    <3>1. "raster_tile" \in Anchor  BY DEF Anchor
    <3> QED BY <1>1, <3>1 DEF Hits, BlankRow, Blank
  <2> QED BY <1>2, <1>3, <1>4, <2>1 DEF Meeting
<1>10. Shared'
  <2>1. /\ "raster_tile" \in Anchor /\ "raster_dispatch" \in Anchor
        /\ self'[0] = NoTime /\ self'[1] = NoTime
    BY <1>1 DEF Anchor
  <2>2. TimeIn(0)'["raster_dispatch"] = 0 /\ TimeIn(1)'["raster_tile"] = 0
    BY <1>1, <2>1, NoTimeIn
  <2> QED BY <2>2 DEF Shared
<1>11. Running' /\ Resting'
  <2>1. Under(p, st)'  BY <1>8, <1>9, <1>10 DEF Under
  <2> QED BY <1>4, <1>5, <2>1 DEF Running, Resting
<1>12. stack' \in [ProfCore -> Seq(OpenBlock)]  BY DEF ProfInv
<1>13. ProfTypeOK'
  <2>1. BlankRow \in AnchorRow /\ NoTime \in [Anchor -> Nat] /\ "none" \in Anchor
    BY DEF BlankRow, Blank, AnchorRow, NoTime, Anchor
  <2> QED BY <2>1 DEF ProfInv, ProfTypeOK
<1>14. Totals'  BY DEF ProfInv, Totals
<1> QED BY <1>7, <1>11, <1>12, <1>13, <1>14 DEF ProfInv

LEMMA FrameOverKeepsProf == ASSUME ProfInv, FrameOver PROVE ProfInv'
<1> USE DEF FrameOver
<1>1. PICK p \in Standing, st \in Starts : Under(p, st)  BY DEF ProfInv, Running
<1>2. UNCHANGED <<row, parent, acc, accFrames, frameNo, clock, systick, todo, stack, tileNo,
                  go, done, self>>
  BY DEF rows, cores
<1>3. Under(p, st)'
  <2>1. ASSUME NEW c \in ProfCore
        PROVE  Leads(c, todo'[c], p[c], Final(c)) /\ Nested(c, p[c], st[c])' /\ Timely(c, p[c], st[c])'
    <3>1. Leads(c, todo[c], p[c], Final(c)) /\ Nested(c, p[c], st[c]) /\ Timely(c, p[c], st[c])
      BY <1>1 DEF Under
    <3> QED BY <1>2, <3>1, Untouched
  <2>2. Meeting(p)'  BY <1>1, <1>2 DEF Under, Meeting, Hits
  <2>3. Shared'  BY <1>1, <1>2 DEF Under, Shared, TimeIn
  <2> QED BY <2>1, <2>2, <2>3 DEF Under
<1>4. Running' /\ Resting'  BY <1>2, <1>3 DEF Running, Resting
<1>5. ProfTypeOK'  BY <1>2 DEF ProfInv, ProfTypeOK
<1>6. Totals'  BY <1>2 DEF ProfInv, Totals
<1> QED BY <1>2, <1>4, <1>5, <1>6 DEF ProfInv

(* Core 0 ends the frame after both cores are through: no block is open,   *)
(* and every tile is counted.                                              *)
LEMMA FrameEnded ==
  ASSUME ProfInv, phase = "end"
  PROVE  /\ todo = [c \in ProfCore |-> <<>>] /\ stack = [c \in ProfCore |-> <<>>]
         /\ ~go /\ ~done /\ Hits(0) + Hits(1) = ProfTiles /\ Shared
         /\ \E p \in Standing, st \in Starts : \A c \in ProfCore :
              p[c] = Final(c) /\ Timely(c, p[c], st[c])
<1>1. PICK p \in Standing, st \in Starts : Under(p, st)  BY DEF ProfInv, Running
<1>2. todo \in [ProfCore -> Seq(Instr)] /\ stack \in [ProfCore -> Seq(OpenBlock)]
      /\ todo[0] = <<>> /\ ProfCore = {0, 1}
  BY DEF ProfInv, Running, ProfCore
<1>3. p[0] = Final(0)
  <2>1. Leads(0, <<>>, p[0], Final(0))  BY <1>1, <1>2 DEF Under
  <2> QED BY <2>1, LeadsEnd
<1>4. Meeting(p) /\ Shared /\ \A c \in ProfCore : Nested(c, p[c], st[c]) /\ Timely(c, p[c], st[c])
  BY <1>1 DEF Under
<1>5. p[0].stage = "joined" /\ p[0].at = "none"  BY <1>3 DEF Final
<1>6. ~go /\ ~done /\ p[1] = Parked /\ tileNo = ProfTiles
  BY <1>4, <1>5 DEF Meeting
<1>7. todo[1] = <<>>  BY <1>1, <1>2, <1>6, ParkedIsIdle
<1>8. Parked.at = "none" /\ Parked.stage = "idle" /\ Parked = Final(1)  BY DEF Parked, Final
<1>9. \A c \in ProfCore : stack[c] = <<>>
  <2>1. \A c \in ProfCore : p[c].at = "none"  BY <1>2, <1>5, <1>6, <1>8
  <2> QED BY <1>4, <2>1 DEF Nested
<1>10. Hits(0) + Hits(1) = ProfTiles
  <2>1. Hits(0) + Hits(1) + Claimed(p[0]) + Claimed(p[1]) = tileNo
    BY <1>4, <1>5 DEF Meeting
  <2>2. Claimed(p[0]) = 0 /\ Claimed(p[1]) = 0  BY <1>5, <1>6, <1>8 DEF Claimed
  <2>3. Hits(0) \in Int /\ Hits(1) \in Int
    BY <1>2 DEF Hits, ProfInv, ProfTypeOK, AnchorRow, Anchor
  <2> QED BY <1>6, <2>1, <2>2, <2>3
<1>11. \A c \in ProfCore : p[c] = Final(c)  BY <1>2, <1>3, <1>6, <1>8
<1> QED BY <1>2, <1>4, <1>6, <1>7, <1>9, <1>10, <1>11

LEMMA FrameEndKeepsProf == ASSUME ProfInv, FrameEnd PROVE ProfInv'
<1> USE DEF FrameEnd
<1>1. /\ todo = [c \in ProfCore |-> <<>>] /\ stack = [c \in ProfCore |-> <<>>]
      /\ ~go /\ ~done /\ Hits(0) + Hits(1) = ProfTiles
  BY FrameEnded
<1>2. UNCHANGED <<row, parent, clock, systick, todo, stack, tileNo, go, done, self>>
  BY DEF cores
<1>3. phase' \in {"begin", "over"} /\ frameNo' = frameNo + 1
      /\ (phase' = "over" <=> frameNo' >= ProfFrames)
  OBVIOUS
<1>4. ProfTypeOK /\ Totals  BY DEF ProfInv
<1>5. frameNo \in Nat /\ frameNo < ProfFrames /\ ProfFrames \in Nat /\ Warmup \in Nat /\ ProfTiles \in Nat
  BY <1>4 DEF ProfTypeOK, Totals
<1>6. frameNo' \in 0 .. ProfFrames /\ (phase' = "over" <=> frameNo' = ProfFrames)
  BY <1>3, <1>5
<1>7. accFrames' = IF frameNo' > Warmup THEN frameNo' - Warmup ELSE 0
  <2>1. accFrames = IF frameNo > Warmup THEN frameNo - Warmup ELSE 0  BY <1>4 DEF Totals
  <2>2. CASE frameNo < Warmup  BY <1>3, <1>5, <2>1, <2>2
  <2>3. CASE ~(frameNo < Warmup)
    <3>1. accFrames' = accFrames + 1  BY <2>3
    <3> QED BY <1>3, <1>5, <2>1, <2>3, <3>1
  <2> QED BY <2>2, <2>3
<1>8. accFrames' \in 0 .. ProfFrames
  BY <1>5, <1>6, <1>7
<1>9. CASE frameNo < Warmup
  <2>1. acc' = acc /\ accFrames' = accFrames  BY <1>9
  <2>2. Running' /\ Resting'  BY <1>1, <1>2, <1>3 DEF Running, Resting
  <2>3. ProfTypeOK'  BY <1>2, <1>3, <1>4, <1>6, <2>1 DEF ProfTypeOK
  <2>4. Totals'  BY <1>4, <1>6, <1>7, <2>1 DEF Totals
  <2> QED BY <1>2, <2>2, <2>3, <2>4 DEF ProfInv
<1>10. CASE ~(frameNo < Warmup)
  <2>1. /\ acc' = [c \in ProfCore |-> [a \in Anchor |-> Summed(acc[c][a], row[c][a])]]
        /\ accFrames' = accFrames + 1
    BY <1>10
  <2>2. Running' /\ Resting'  BY <1>1, <1>2, <1>3 DEF Running, Resting
  <2>3. acc' \in [ProfCore -> AnchorRow]
    <3>1. ASSUME NEW c \in ProfCore, NEW a \in Anchor
          PROVE  Summed(acc[c][a], row[c][a])
                   \in [excl : Int, incl : Nat, hits : Nat, wrapped : BOOLEAN]
      <4> DEFINE x == acc[c][a]
                 y == row[c][a]
      <4>1. /\ x \in [excl : Int, incl : Nat, hits : Nat, wrapped : BOOLEAN]
            /\ y \in [excl : Int, incl : Nat, hits : Nat, wrapped : BOOLEAN]
        BY <1>4 DEF ProfTypeOK, AnchorRow
      <4> HIDE DEF x, y
      <4>2. /\ x.excl + y.excl \in Int /\ x.incl + y.incl \in Nat /\ x.hits + y.hits \in Nat
            /\ (x.wrapped \/ y.wrapped) \in BOOLEAN
        BY <4>1
      <4>3. Summed(x, y) \in [excl : Int, incl : Nat, hits : Nat, wrapped : BOOLEAN]
        BY <4>2 DEF Summed
      <4> QED BY <4>3 DEF x, y
    <3> QED BY <2>1, <3>1 DEF AnchorRow
  <2>4. ProfTypeOK'  BY <1>2, <1>3, <1>4, <1>6, <1>8, <2>3 DEF ProfTypeOK
  <2>5. acc'[0]["raster_tile"].hits + acc'[1]["raster_tile"].hits = accFrames' * ProfTiles
    <3> DEFINE x == acc[0]["raster_tile"].hits
               y == acc[1]["raster_tile"].hits
               h == Hits(0)
               i == Hits(1)
    <3>1. x \in Nat /\ y \in Nat /\ h \in Nat /\ i \in Nat /\ accFrames \in Nat
      BY <1>4 DEF ProfTypeOK, AnchorRow, Anchor, ProfCore, Hits
    <3>2. x + y = accFrames * ProfTiles /\ h + i = ProfTiles  BY <1>1, <1>4 DEF Totals
    <3>3. acc'[0]["raster_tile"].hits = x + h /\ acc'[1]["raster_tile"].hits = y + i
      BY <2>1 DEF Summed, Hits, ProfCore, Anchor
    <3> HIDE DEF x, y, h, i
    <3>4. (accFrames + 1) * ProfTiles = accFrames * ProfTiles + ProfTiles  BY <1>5, <3>1
    <3>5. (x + h) + (y + i) = accFrames * ProfTiles + ProfTiles
      <4> DEFINE z == accFrames * ProfTiles
      <4>1. z \in Int /\ x + y = z  BY <1>5, <3>1, <3>2
      <4> HIDE DEF z
      <4>2. (x + h) + (y + i) = z + ProfTiles  BY <1>5, <3>1, <3>2, <4>1
      <4> QED BY <4>2 DEF z
    <3> QED BY <2>1, <3>3, <3>4, <3>5
  <2>6. Totals'  BY <1>6, <1>7, <2>5 DEF Totals
  <2> QED BY <1>2, <2>2, <2>4, <2>6 DEF ProfInv
<1> QED BY <1>9, <1>10

LEMMA ReflashKeepsProf == ASSUME ProfInv, Reflash PROVE ProfInv'
<1> USE DEF Reflash
<1>1. Resting /\ ProfTypeOK  BY DEF ProfInv
<1>2. Running' /\ Resting'  BY <1>1 DEF Running, Resting
<1>3. BlankRow \in AnchorRow /\ NoTime \in [Anchor -> Nat] /\ "none" \in Anchor
  BY DEF BlankRow, Blank, AnchorRow, NoTime, Anchor
<1>4. ProfTypeOK'  BY <1>1, <1>3 DEF ProfTypeOK
<1>5. Totals'
  <2>1. acc'[0]["raster_tile"].hits = 0 /\ acc'[1]["raster_tile"].hits = 0
    BY DEF BlankRow, Blank, ProfCore, Anchor
  <2> QED BY <2>1 DEF Totals
<1> QED BY <1>2, <1>4, <1>5 DEF ProfInv

LEMMA ProfInitOK == ProfInit => ProfInv
<1> SUFFICES ASSUME ProfInit PROVE ProfInv  OBVIOUS
<1> USE DEF ProfInit
<1>1. BlankRow \in AnchorRow /\ NoTime \in [Anchor -> Nat] /\ "none" \in Anchor
  BY DEF BlankRow, Blank, AnchorRow, NoTime, Anchor
<1>2. ProfTypeOK
  <2>1. /\ row \in [ProfCore -> AnchorRow] /\ acc \in [ProfCore -> AnchorRow]
        /\ parent \in [ProfCore -> Anchor] /\ systick \in [ProfCore -> Nat]
        /\ self \in [ProfCore -> [Anchor -> Nat]]
    BY <1>1
  <2>2. /\ accFrames = 0 /\ frameNo = 0 /\ clock = 0 /\ tileNo = 0
        /\ phase = "begin"
    OBVIOUS
  <2>3. go \in BOOLEAN /\ done \in BOOLEAN  OBVIOUS
  <2> HIDE DEF ProfInit
  <2>4. 0 \in 0 .. ProfFrames /\ 0 \in 0 .. MaxTicks /\ 0 \in 0 .. ProfTiles  OBVIOUS
  <2> QED BY <2>1, <2>2, <2>3, <2>4 DEF ProfTypeOK
<1>3. Running /\ Resting  BY DEF Running, Resting
<1>4. acc[0]["raster_tile"].hits = 0 /\ acc[1]["raster_tile"].hits = 0
  BY DEF BlankRow, Blank, ProfCore, Anchor
<1>5. Totals  BY <1>4 DEF Totals
<1>6. todo \in [ProfCore -> Seq(Instr)] /\ stack \in [ProfCore -> Seq(OpenBlock)]
  OBVIOUS
<1> QED BY <1>2, <1>3, <1>5, <1>6 DEF ProfInv

-----------------------------------------------------------------------------
(* A unit of time is told by what is open, and owed to what is around it. *)
LEMMA TickedTimely ==
  ASSUME NEW c \in ProfCore, NEW p \in Place(c), NEW st \in [Anchor -> Nat],
         clock \in Nat, systick \in [ProfCore -> Nat], row[c] \in AnchorRow,
         self \in [ProfCore -> [Anchor -> Nat]], p.at \in Anchor, Timely(c, p, st),
         row'[c] = row[c], clock' = clock + 1, systick'[c] = systick[c] + 1,
         self'[c] = IF p.at = "none" THEN self[c] ELSE [self[c] EXCEPT ![p.at] = @ + 1]
  PROVE  /\ Timely(c, p, st)'
         /\ \A a \in Timed(c) :
              TimeIn(c)'[a] = IF p.at \in Inside[a] THEN TimeIn(c)[a] + 1 ELSE TimeIn(c)[a]
<1> DEFINE x == p.at
<1>1. \A a \in Timed(c) : a \in Anchor \ {"none"} /\ a \in Inside[a] /\ "none" \notin Inside[a]
  <2> TAKE a \in Timed(c)
  <2>1. a \in Anchor \ {"none"}  BY DEF Timed
  <2>2. "none" \notin Inside[a] /\ a \in Inside[a]  BY <2>1 DEF Inside, TileBlock, Fine, Anchor
  <2> QED BY <2>1, <2>2
<1>2. \A a \in Timed(c) :
        TimeIn(c)'[a] = IF x \in Inside[a] THEN TimeIn(c)[a] + 1 ELSE TimeIn(c)[a]
  <2>1. CASE x = "none"
    <3>1. self'[c] = self[c]  BY <2>1
    <3>2. TimeIn(c)' = TimeIn(c)  BY <3>1 DEF TimeIn
    <3> QED BY <1>1, <2>1, <3>2
  <2>2. CASE x # "none"
    <3>1. self'[c] = [self[c] EXCEPT ![x] = @ + 1]  BY <2>2
    <3> QED BY <1>1, <2>2, <3>1, TickedTimes
  <2> QED BY <2>1, <2>2
<1>3. \A a \in Timed(c) : self'[c][a] = IF a = x THEN self[c][a] + 1 ELSE self[c][a]
  <2>1. CASE x = "none"  BY <1>1, <2>1
  <2>2. CASE x # "none"
    <3>1. self[c] \in [Anchor -> Nat] /\ self'[c] = [self[c] EXCEPT ![x] = @ + 1]  BY <2>2
    <3> QED BY <1>1, <3>1
  <2> QED BY <2>1, <2>2
<1>4. \A a \in Anchor : /\ row[c][a].excl \in Int /\ row[c][a].incl \in Int /\ st[a] \in Int
                        /\ self[c][a] \in Int /\ TimeIn(c)[a] \in Int
  <2>1. \A a \in Anchor : TimeIn(c)[a] \in Nat  BY TimeInType
  <2>2. \A a \in Anchor : row[c][a].excl \in Int /\ row[c][a].incl \in Int  BY DEF AnchorRow
  <2> QED BY <2>1, <2>2
<1>5. \A a, b \in Timed(c) : Outer(c)[b] = a /\ x \in Inside[b] => a # x
  <2> TAKE a, b \in Timed(c)
  <2>1. Outer(c)[b] \notin Inside[b]  BY <1>1, NestingOf
  <2> QED BY <2>1
<1>6. \A a : Spoiled(c, a)' <=> Spoiled(c, a)  BY DEF Spoiled
<1>7. ASSUME NEW a \in Timed(c)
      PROVE  IF x \in Inside[a]
             THEN /\ st[a] <= clock'
                  /\ row[c][a].wrapped \/ TimeIn(c)'[a] = row[c][a].incl + (clock' - st[a])
                  /\ x = a => Spoiled(c, a) \/ row[c][a].excl + (clock' - st[a]) = self'[c][a]
                  /\ \A b \in Timed(c) : Outer(c)[b] = a /\ x \in Inside[b] =>
                       Spoiled(c, a) \/ row[c][a].excl + (st[b] - st[a]) = self'[c][a]
             ELSE /\ row[c][a].wrapped \/ TimeIn(c)'[a] = row[c][a].incl
                  /\ Spoiled(c, a) \/ row[c][a].excl = self'[c][a]
  <2>1. CASE x \in Inside[a]
    <3>1. /\ st[a] <= clock
          /\ row[c][a].wrapped \/ TimeIn(c)[a] = row[c][a].incl + (clock - st[a])
          /\ x = a => Spoiled(c, a) \/ row[c][a].excl + (clock - st[a]) = self[c][a]
          /\ \A b \in Timed(c) : Outer(c)[b] = a /\ x \in Inside[b] =>
               Spoiled(c, a) \/ row[c][a].excl + (st[b] - st[a]) = self[c][a]
      BY <2>1 DEF Timely
    <3>2. a \in Anchor /\ st[a] \in Int /\ row[c][a].incl \in Int /\ row[c][a].excl \in Int
          /\ TimeIn(c)[a] \in Int /\ self[c][a] \in Int
      BY <1>1, <1>4
    <3>3. st[a] <= clock'  BY <3>1, <3>2
    <3>4. row[c][a].wrapped \/ TimeIn(c)'[a] = row[c][a].incl + (clock' - st[a])
      <4>1. TimeIn(c)'[a] = TimeIn(c)[a] + 1  BY <1>2, <2>1
      <4> QED BY <3>1, <3>2, <4>1
    <3>5. x = a => Spoiled(c, a) \/ row[c][a].excl + (clock' - st[a]) = self'[c][a]
      <4> SUFFICES ASSUME x = a, ~Spoiled(c, a)
                   PROVE  row[c][a].excl + (clock' - st[a]) = self'[c][a]
        OBVIOUS
      <4>1. self'[c][a] = self[c][a] + 1  BY <1>3
      <4> QED BY <3>1, <3>2, <4>1
    <3>6. \A b \in Timed(c) : Outer(c)[b] = a /\ x \in Inside[b] =>
             Spoiled(c, a) \/ row[c][a].excl + (st[b] - st[a]) = self'[c][a]
      <4> TAKE b \in Timed(c)
      <4>1. Outer(c)[b] = a /\ x \in Inside[b] => self'[c][a] = self[c][a]  BY <1>3, <1>5
      <4> QED BY <3>1, <4>1
    <3> QED BY <2>1, <3>3, <3>4, <3>5, <3>6
  <2>2. CASE x \notin Inside[a]
    <3>1. a # x  BY <1>1, <2>2
    <3> QED BY <1>2, <1>3, <2>2, <3>1 DEF Timely
  <2> QED BY <2>1, <2>2
<1>8. x \in Fine => systick'[c] = clock' - st[x]
  <2> SUFFICES ASSUME x \in Fine PROVE systick'[c] = clock' - st[x]  OBVIOUS
  <2>1. systick[c] = clock - st[x] /\ st[x] \in Int /\ systick[c] \in Int
    BY <1>4 DEF Timely
  <2> QED BY <2>1
<1>9. \A a \in Anchor \ Fine : ~row'[c][a].wrapped  BY DEF Timely
<1>10. \A a \in Timed(c) :
         IF x \in Inside[a]
         THEN /\ st[a] <= clock'
              /\ row'[c][a].wrapped \/ TimeIn(c)'[a] = row'[c][a].incl + (clock' - st[a])
              /\ x = a => Spoiled(c, a)' \/ row'[c][a].excl + (clock' - st[a]) = self'[c][a]
              /\ \A b \in Timed(c) : Outer(c)[b] = a /\ x \in Inside[b] =>
                   Spoiled(c, a)' \/ row'[c][a].excl + (st[b] - st[a]) = self'[c][a]
         ELSE /\ row'[c][a].wrapped \/ TimeIn(c)'[a] = row'[c][a].incl
              /\ Spoiled(c, a)' \/ row'[c][a].excl = self'[c][a]
  <2> TAKE a \in Timed(c)
  <2>1. row'[c] = row[c]  OBVIOUS
  <2> QED BY <1>6, <1>7, <2>1
<1>11. Timely(c, p, st)'  BY <1>8, <1>9, <1>10 DEF Timely
<1> QED BY <1>2, <1>11

LEMMA ProfTickKeepsProf == ASSUME ProfInv, ProfTick PROVE ProfInv'
<1> USE DEF ProfTick
<1>1. PICK p \in Standing, st \in Starts : Under(p, st)  BY DEF ProfInv, Running
<1>2. /\ todo \in [ProfCore -> Seq(Instr)] /\ stack \in [ProfCore -> Seq(OpenBlock)]
      /\ clock \in 0 .. MaxTicks /\ MaxTicks \in Nat /\ row \in [ProfCore -> AnchorRow]
      /\ self \in [ProfCore -> [Anchor -> Nat]] /\ systick \in [ProfCore -> Nat]
      /\ phase' = phase /\ ProfCore = {0, 1} /\ 0 \in ProfCore /\ 1 \in ProfCore
  BY DEF ProfInv, ProfTypeOK, ProfCore
<1>3. UNCHANGED <<phase, row, parent, acc, accFrames, frameNo, todo, stack, tileNo, go, done>>
  BY DEF rows, cores
<1>4. /\ clock' = clock + 1 /\ systick' = [c \in ProfCore |-> systick[c] + 1]
      /\ clock' \in 0 .. MaxTicks
  BY <1>2
<1>5. ASSUME NEW c \in ProfCore
      PROVE  /\ p[c] \in Place(c) /\ st[c] \in [Anchor -> Nat] /\ p[c].at \in Anchor
             /\ Leads(c, todo[c], p[c], Final(c))
             /\ Nested(c, p[c], st[c]) /\ Timely(c, p[c], st[c])
             /\ self'[c] = IF p[c].at = "none" THEN self[c]
                           ELSE [self[c] EXCEPT ![p[c].at] = @ + 1]
  <2>1. p[c] \in Place(c) /\ st[c] \in [Anchor -> Nat]  BY DEF Standing, Starts
  <2>2. p[c].at \in Anchor
    <3>1. c = 0 \/ c = 1  BY <1>2
    <3> QED BY <2>1, <3>1 DEF Place, TileBlock, Fine, Anchor
  <2>3. Leads(c, todo[c], p[c], Final(c)) /\ Nested(c, p[c], st[c]) /\ Timely(c, p[c], st[c])
    BY <1>1 DEF Under
  <2>4. stack[c] = <<>> <=> p[c].at = "none"  BY <2>3 DEF Nested
  <2>5. stack[c] # <<>> => Head(stack[c]).a = p[c].at
    <3> SUFFICES ASSUME stack[c] # <<>> PROVE Head(stack[c]).a = p[c].at  OBVIOUS
    <3>1. Head(stack[c]) = stack[c][1] /\ 1 \in 1 .. Len(stack[c])
      BY <1>2, HeadTailProperties, EmptySeq
    <3> QED BY <2>3, <3>1 DEF Nested
  <2>6. self'[c] = IF stack[c] = <<>> THEN self[c]
                   ELSE [self[c] EXCEPT ![Head(stack[c]).a] = @ + 1]
    OBVIOUS
  <2> QED BY <2>1, <2>2, <2>3, <2>4, <2>5, <2>6
<1> HIDE DEF ProfTick
<1>6. ASSUME NEW c \in ProfCore
      PROVE  /\ Timely(c, p[c], st[c])'
             /\ \A a \in Timed(c) :
                  TimeIn(c)'[a] = IF p[c].at \in Inside[a] THEN TimeIn(c)[a] + 1
                                  ELSE TimeIn(c)[a]
  <2>1. /\ clock \in Nat /\ row[c] \in AnchorRow /\ row'[c] = row[c]
        /\ systick'[c] = systick[c] + 1
    BY <1>2, <1>3, <1>4
  <2> QED BY <1>2, <1>4, <1>5, <2>1, TickedTimely
<1>7. ASSUME NEW c \in ProfCore PROVE Nested(c, p[c], st[c])'
  <2>1. Nested(c, p[c], st[c]) /\ stack' = stack /\ parent' = parent /\ row' = row
    BY <1>3, <1>5
  <2> QED BY <2>1 DEF Nested
<1>8. Meeting(p)'  BY <1>1, <1>3 DEF Under, Meeting, Hits
<1>9. Shared'
  <2> DEFINE t == TimeIn(1)["raster_tile"]
             d == TimeIn(0)["raster_dispatch"]
  <2>1. "raster_tile" \in Timed(1) /\ "raster_dispatch" \in Timed(0)
        /\ "raster_tile" \in Anchor /\ "raster_dispatch" \in Anchor
    BY DEF Timed, Anchor
  <2>2. t \in Nat /\ d \in Nat /\ t <= d
    BY <1>1, <1>2, <2>1, TimeInType DEF Under, Shared
  <2>3. TimeIn(0)'["raster_dispatch"] = IF p[0].at \in Inside["raster_dispatch"] THEN d + 1 ELSE d
    BY <1>2, <1>6, <2>1
  <2>4. TimeIn(1)'["raster_tile"] = IF p[1].at \in Inside["raster_tile"] THEN t + 1 ELSE t
    BY <1>2, <1>6, <2>1
  <2>5. p[1].at \in Inside["raster_tile"] => p[0].at \in Inside["raster_dispatch"]
    <3> SUFFICES ASSUME p[1].at \in Inside["raster_tile"] PROVE p[0].at \in Inside["raster_dispatch"]
      OBVIOUS
    <3>1. p[1] # Parked  BY <2>1 DEF Inside, Parked, Final, TileBlock, Fine
    <3>2. p[0].stage \notin {"before", "waking", "joined"}
      BY <1>1, <3>1 DEF Under, Meeting
    <3>3. p[0] \in Place(0)  BY <1>2, <1>5
    <3> QED BY <2>1, <3>2, <3>3 DEF Place, Inside, TileBlock, Fine
  <2> HIDE DEF t, d
  <2> QED BY <2>2, <2>3, <2>4, <2>5 DEF Shared
<1>10. Running' /\ Resting'
  <2>1. Under(p, st)'  BY <1>3, <1>5, <1>6, <1>7, <1>8, <1>9 DEF Under
  <2>2. phase' = "frame"  BY <1>2 DEF ProfTick
  <2> QED BY <2>1, <2>2 DEF Running, Resting
<1>11. ProfTypeOK'
  <2>1. systick' \in [ProfCore -> Nat]  BY <1>2, <1>4
  <2>2. self' \in [ProfCore -> [Anchor -> Nat]]
    <3>1. ASSUME NEW c \in ProfCore PROVE self'[c] \in [Anchor -> Nat]
      <4>1. self[c] \in [Anchor -> Nat]  BY <1>2
      <4>2. ASSUME NEW t \in [Anchor -> Nat], NEW x \in Anchor
            PROVE  [t EXCEPT ![x] = @ + 1] \in [Anchor -> Nat]
        <5>1. t[x] + 1 \in Nat  OBVIOUS
        <5> QED BY <5>1
      <4>3. PICK t, x : t = self[c] /\ x = p[c].at  OBVIOUS
      <4>4. self'[c] = IF x = "none" THEN t ELSE [t EXCEPT ![x] = @ + 1]
        BY <1>5, <4>3
      <4>5. x \in Anchor /\ t \in [Anchor -> Nat]  BY <1>5, <4>1, <4>3
      <4>6. [t EXCEPT ![x] = @ + 1] \in [Anchor -> Nat]  BY <4>2, <4>5
      <4> QED BY <4>4, <4>5, <4>6
    <3>2. self' = [c \in ProfCore |-> IF stack[c] = <<>> THEN self[c]
                     ELSE [self[c] EXCEPT ![Head(stack[c]).a] = @ + 1]]
      BY DEF ProfTick
    <3> QED BY <3>1, <3>2
  <2> QED BY <1>3, <1>4, <2>1, <2>2 DEF ProfInv, ProfTypeOK
<1>12. Totals'  BY <1>3 DEF ProfInv, Totals
<1> QED BY <1>2, <1>3, <1>10, <1>11, <1>12 DEF ProfInv

(* The invariant is one. *)
LEMMA ProfInductive == ProfInv /\ [ProfNext]_profVars => ProfInv'
<1> SUFFICES ASSUME ProfInv, [ProfNext]_profVars PROVE ProfInv'  OBVIOUS
<1>1. CASE FrameBegin  BY <1>1, FrameBeginKeepsProf
<1>2. CASE FrameOver  BY <1>2, FrameOverKeepsProf
<1>3. CASE FrameEnd  BY <1>3, FrameEndKeepsProf
<1>4. CASE ProfTick  BY <1>4, ProfTickKeepsProf
<1>5. CASE Wake  BY <1>5, WakeKeepsProf
<1>6. CASE Join  BY <1>6, JoinKeepsProf
<1>7. CASE Unpark  BY <1>7, UnparkKeepsProf
<1>8. CASE Done  BY <1>8, DoneKeepsProf
<1>9. ASSUME NEW c \in ProfCore, Enter(c) PROVE ProfInv'  BY <1>9, EnterKeepsProf
<1>10. ASSUME NEW c \in ProfCore, Leave(c) PROVE ProfInv'  BY <1>10, LeaveKeepsProf
<1>11. ASSUME NEW c \in ProfCore, Drain(c) PROVE ProfInv'  BY <1>11, DrainKeepsProf
<1>12. CASE Reflash  BY <1>12, ReflashKeepsProf
<1>13. CASE UNCHANGED profVars
  <2>1. UNCHANGED <<phase, row, parent, acc, accFrames, frameNo, clock, systick, todo, stack,
                    tileNo, go, done, self>>
    BY <1>13 DEF profVars, rows, cores
  <2>2. Running'
    <3> SUFFICES ASSUME phase' \in {"frame", "end"}
                 PROVE  /\ \E p \in Standing, st \in Starts : Under(p, st)'
                        /\ phase' = "end" => todo'[0] = <<>>
      BY DEF Running
    <3>1. PICK p \in Standing, st \in Starts : Under(p, st)
      BY <2>1 DEF ProfInv, Running
    <3>2. ASSUME NEW c \in ProfCore
          PROVE  Leads(c, todo'[c], p[c], Final(c)) /\ Nested(c, p[c], st[c])' /\ Timely(c, p[c], st[c])'
      <4>1. Leads(c, todo[c], p[c], Final(c)) /\ Nested(c, p[c], st[c]) /\ Timely(c, p[c], st[c])
        BY <3>1 DEF Under
      <4> QED BY <2>1, <4>1, Untouched
    <3>3. Meeting(p)'  BY <2>1, <3>1 DEF Under, Meeting, Hits
    <3>4. Shared'  BY <2>1, <3>1 DEF Under, Shared, TimeIn
    <3>5. Under(p, st)'  BY <3>2, <3>3, <3>4 DEF Under
    <3>6. phase' = "end" => todo'[0] = <<>>  BY <2>1 DEF ProfInv, Running
    <3> QED BY <3>5, <3>6
  <2>3. Resting'  BY <2>1 DEF ProfInv, Resting
  <2>4. ProfTypeOK' /\ Totals'  BY <2>1 DEF ProfInv, ProfTypeOK, Totals
  <2> QED BY <2>1, <2>2, <2>3, <2>4 DEF ProfInv
<1> QED BY <1>1, <1>2, <1>3, <1>4, <1>5, <1>6, <1>7, <1>8, <1>9, <1>10, <1>11, <1>12, <1>13
        DEF ProfNext

-----------------------------------------------------------------------------
(* What the invariant says once a frame is over. *)
LEMMA TimesAreTrue == ProfInv => TrueTimes
<1> SUFFICES ASSUME ProfInv, phase = "end", NEW c \in ProfCore, NEW a \in Timed(c)
             PROVE  /\ row[c][a].wrapped \/ row[c][a].incl = TimeIn(c)[a]
                    /\ \/ \E b \in Anchor : (b = a \/ Around[b] = a) /\ row[c][b].wrapped
                       \/ row[c][a].excl = self[c][a]
  BY DEF TrueTimes, Timed
<1>1. PICK p \in Standing, st \in Starts :
        \A d \in ProfCore : p[d] = Final(d) /\ Timely(d, p[d], st[d])
  BY FrameEnded
<1>2. p[c].at = "none" /\ Timely(c, p[c], st[c])
  <2>1. p[c] = Final(c) /\ Timely(c, p[c], st[c])  BY <1>1 DEF Timed
  <2>2. Final(c).at = "none"  BY DEF Final
  <2> QED BY <2>1, <2>2
<1>3. "none" \notin Inside[a]
  <2>1. a \in Anchor \ {"none"}  BY DEF Timed
  <2> QED BY <2>1 DEF Inside, TileBlock, Fine, Anchor
<1> QED BY <1>2, <1>3 DEF Timely, Spoiled

LEMMA TilesAreInDispatch == ProfInv => DispatchHoldsTiles
<1> SUFFICES ASSUME ProfInv PROVE DispatchHoldsTiles  OBVIOUS
<1>1. ASSUME phase = "over"
      PROVE  /\ accFrames = IF ProfFrames > Warmup THEN ProfFrames - Warmup ELSE 0
             /\ acc[0]["raster_tile"].hits + acc[1]["raster_tile"].hits = accFrames * ProfTiles
  BY <1>1 DEF ProfInv, Totals
<1>2. ASSUME phase = "end"
      PROVE  /\ row[0]["raster_tile"].hits + row[1]["raster_tile"].hits = ProfTiles
             /\ \A c \in ProfCore :
                  row[c]["raster_tile"].incl <= row[0]["raster_dispatch"].incl
             /\ row[0]["raster_dispatch"].excl >= 0
  <2>1. Hits(0) + Hits(1) = ProfTiles /\ Shared  BY <1>2, FrameEnded
  <2>2. PICK p \in Standing, st \in Starts :
          \A d \in ProfCore : p[d] = Final(d) /\ Timely(d, p[d], st[d])
    BY <1>2, FrameEnded
  <2>3. ASSUME NEW c \in ProfCore, NEW a \in Anchor \ Fine PROVE ~row[c][a].wrapped
    BY <2>2 DEF Timely
  <2>4. ASSUME NEW c \in ProfCore, NEW a \in Timed(c), a \notin Fine
        PROVE  row[c][a].incl = TimeIn(c)[a]
    <3>1. row[c][a].wrapped \/ row[c][a].incl = TimeIn(c)[a]
      BY <1>2, TimesAreTrue DEF TrueTimes, Timed
    <3> QED BY <2>3, <2>4, <3>1 DEF Timed
  <2>5. /\ 0 \in ProfCore /\ 1 \in ProfCore /\ ProfCore = {0, 1}
        /\ "raster_tile" \in Timed(0) /\ "raster_tile" \in Timed(1)
        /\ "raster_dispatch" \in Timed(0)
        /\ "raster_tile" \notin Fine /\ "raster_dispatch" \notin Fine
        /\ "raster_dispatch" \in Anchor
    BY DEF ProfCore, Timed, Anchor, Fine
  <2>6. /\ row[0]["raster_dispatch"].incl = TimeIn(0)["raster_dispatch"]
        /\ row[0]["raster_tile"].incl = TimeIn(0)["raster_tile"]
        /\ row[1]["raster_tile"].incl = TimeIn(1)["raster_tile"]
    BY <2>4, <2>5
  <2>7. self \in [ProfCore -> [Anchor -> Nat]]  BY DEF ProfInv, ProfTypeOK
  <2>8. TimeIn(0)["raster_tile"] <= TimeIn(0)["raster_dispatch"]  BY <2>5, <2>7, TimeInType
  <2>9. row[0]["raster_dispatch"].excl = self[0]["raster_dispatch"]
    <3>1. \/ \E b \in Anchor : (b = "raster_dispatch" \/ Around[b] = "raster_dispatch")
                                /\ row[0][b].wrapped
          \/ row[0]["raster_dispatch"].excl = self[0]["raster_dispatch"]
      BY <1>2, <2>5, TimesAreTrue DEF TrueTimes, Timed
    <3>2. \A b \in Anchor : b = "raster_dispatch" \/ Around[b] = "raster_dispatch" => b \notin Fine
      BY DEF Around, Fine, Anchor
    <3> QED BY <2>3, <2>5, <3>1, <3>2
  <2>10. self[0]["raster_dispatch"] \in Nat  BY <2>5, <2>7
  <2>11. \A c \in ProfCore : row[c]["raster_tile"].incl <= row[0]["raster_dispatch"].incl
    BY <2>1, <2>5, <2>6, <2>8 DEF Shared
  <2> QED BY <2>1, <2>9, <2>10, <2>11 DEF Hits
<1> QED BY <1>1, <1>2 DEF DispatchHoldsTiles
=============================================================================
