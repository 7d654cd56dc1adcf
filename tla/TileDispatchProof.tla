-------------------------- MODULE TileDispatchProof --------------------------
(***************************************************************************)
(* TLAPS proofs about TileDispatch, for every number of tiles, tile width, *)
(* set of scenes and cap: the control state is well typed, IInv is         *)
(* inductive, the safety properties follow, and every step implements the  *)
(* serial raster stage or stutters.                                        *)
(***************************************************************************)
EXTENDS TileDispatch, FiniteSetTheorems, TLAPS

(* The number of triangles a gather drops is a natural number. *)
LEMMA XluDropsType == ASSUME NEW bin \in Seq(TriRef)
                      PROVE  XluDrops(bin) \in Nat
<1>1. IsFiniteSet(DOMAIN bin)
  <2>1. DOMAIN bin = 1 .. Len(bin) /\ Len(bin) \in Nat
    OBVIOUS
  <2> QED BY <2>1, FS_Interval
<1>2. IsFiniteSet(XluIndices(bin))
  BY <1>1, FS_Subset DEF XluIndices
<1>3. Cardinality(XluIndices(bin)) \in Nat
  BY <1>2, FS_CardinalityType
<1> QED BY <1>3, XluCapAssumption DEF XluDrops

(* The actions of Next, with the ones both cores run stated once. *)
LEMMA NextCases ==
  Next => \/ \E s \in Scenes : BuildFrame(s)
          \/ Render \/ EnableSysTick \/ PopWake \/ SignalDone
          \/ \E c \in Core : Run(c)
BY DEF Next, Core0, Core1, Core

(* At boot every control variable has its type. *)
LEMMA TypeInit == Init => TypeOK
<1> SUFFICES ASSUME Init PROVE TypeOK
  OBVIOUS
<1> USE DEF Init, EmptyScene, Core, Statements, Outside, OnlyCore1, Drawing
<1>1. 0 \in Px /\ 0 \in 0 .. 31 /\ 0 \in 0 .. NumTiles
  BY TileWAssumption, NumTilesAssumption DEF Px
<1>2. pc[0] = "app" /\ pc[1] = "off" /\ pc \in [Core -> Statements]
  OBVIOUS
<1>3. scene.bins \in [Tile -> Seq(TriRef)]
  OBVIOUS
<1>4. scene.background \in [Tile -> [Px -> 0 .. 31]]
  BY <1>1
<1>5. fb = [t \in Tile |-> fb[t]]
  OBVIOUS
<1>6. /\ zbuf = [c \in Core |-> zbuf[c]] /\ cov = [c \in Core |-> cov[c]]
      /\ acc = [c \in Core |-> acc[c]] /\ xlu = [c \in Core |-> xlu[c]]
  OBVIOUS
<1>7. /\ nextTile \in 0 .. NumTiles /\ lock \in Core \cup {Free}
      /\ tile \in [Core -> 0 .. NumTiles] /\ dropped \in Nat
      /\ dropLeft \in [Core -> Nat] /\ dropReg \in [Core -> Nat]
      /\ drawn \in [Tile -> Nat]
  BY <1>1
<1>8. toCore1 \in Seq({"GO"}) /\ toCore0 \in Seq({"DONE"})
  OBVIOUS
<1> QED BY <1>2, <1>3, <1>4, <1>5, <1>6, <1>7, <1>8 DEF TypeOK

(* A core that draws has claimed a tile of the screen. *)
LEMMA DrawsATile == ASSUME TypeOK, NEW c \in Core, pc[c] \in Drawing
                    PROVE  tile[c] \in Tile
BY NumTilesAssumption DEF TypeOK, Tile, Core

(* No statement of either core spoils a type: a claim past the last tile  *)
(* never reaches the drain, a counted drop is never one too many.         *)
LEMMA TypeStep == TypeOK /\ [Next]_vars => TypeOK'
<1> SUFFICES ASSUME TypeOK, [Next]_vars PROVE TypeOK'
  OBVIOUS
<1> USE DEF TypeOK, Goto, Statements, OnlyCore1, Outside, Claiming, Drawing, Core,
            front, counter, comms, scratch, drops
<1>1. ASSUME NEW s \in Scenes, BuildFrame(s) PROVE TypeOK'
  <2>1. s.bins \in [Tile -> Seq(TriRef)] /\ s.background \in [Tile -> [Px -> 0 .. 31]]
    BY ScenesAssumption
  <2> QED BY <1>1, <2>1 DEF BuildFrame
<1>2. CASE Render
  <2>1. CASE ClearFb
    BY <2>1 DEF ClearFb
  <2>2. CASE LaunchCore1
    BY <2>2 DEF LaunchCore1
  <2>3. CASE ReuseCore1
    BY <2>3 DEF ReuseCore1
  <2>4. CASE PublishFrame
    BY <2>4 DEF PublishFrame
  <2>5. CASE ResetCounter
    BY <2>5, NumTilesAssumption DEF ResetCounter
  <2>6. CASE WakeCore1
    BY <2>6 DEF WakeCore1
  <2>7. CASE Join
    BY <2>7 DEF Join
  <2> QED BY <1>2, <2>1, <2>2, <2>3, <2>4, <2>5, <2>6, <2>7 DEF Render
<1>3. CASE EnableSysTick
  BY <1>3 DEF EnableSysTick
<1>4. CASE PopWake
  <2>1. /\ pc' \in [Core -> Statements]
        /\ pc'[0] \notin OnlyCore1 /\ pc'[1] \notin Outside \cup {"join"}
        /\ \A d \in Core : pc'[d] \in Drawing \cup {"bump"} => tile'[d] < NumTiles
        /\ \A d \in Core : pc'[d] \in {"load", "store"} => dropLeft'[d] > 0
    BY <1>4 DEF PopWake
  <2>2. toCore1' \in Seq({"GO"}) /\ arg' \in {"null", "frame"}
    BY <1>4 DEF PopWake
  <2> QED BY <1>4, <2>1, <2>2 DEF PopWake
<1>5. CASE SignalDone
  BY <1>5 DEF SignalDone
<1>6. ASSUME NEW c \in Core, Run(c) PROVE TypeOK'
  <2>1. CASE Acquire(c)
    BY <2>1 DEF Acquire
  <2>2. CASE ReadCounter(c)
    BY <2>2 DEF ReadCounter
  <2>3. CASE BumpCounter(c)
    <3>1. nextTile' \in 0 .. NumTiles
      BY <2>3, NumTilesAssumption DEF BumpCounter
    <3>2. /\ pc' \in [Core -> Statements]
          /\ pc'[0] \notin OnlyCore1 /\ pc'[1] \notin Outside \cup {"join"}
          /\ \A d \in Core : pc'[d] \in Drawing \cup {"bump"} => tile'[d] < NumTiles
          /\ \A d \in Core : pc'[d] \in {"load", "store"} => dropLeft'[d] > 0
      BY <2>3 DEF BumpCounter
    <3> QED BY <2>3, <3>1, <3>2 DEF BumpCounter
  <2>4. CASE Release(c)
    BY <2>4 DEF Release
  <2>5. CASE ClearScratch(c)
    BY <2>5 DEF ClearScratch
  <2>6. CASE SweepOpaque(c)
    <3>1. tile[c] \in Tile
      BY <2>6, DrawsATile DEF SweepOpaque
    <3>2. XluDrops(Bin(c)) \in Nat
      BY <3>1, XluDropsType DEF Bin
    <3> QED BY <2>6, <3>2 DEF SweepOpaque
  <2>7. CASE LoadDropped(c)
    BY <2>7 DEF LoadDropped
  <2>8. CASE StoreDropped(c)
    BY <2>8, SMTT(30) DEF StoreDropped
  <2>9. CASE ClearAccumulator(c)
    <3>1. /\ pc' \in [Core -> Statements]
          /\ pc'[0] \notin OnlyCore1 /\ pc'[1] \notin Outside \cup {"join"}
          /\ \A d \in Core : pc'[d] \in Drawing \cup {"bump"} => tile'[d] < NumTiles
          /\ \A d \in Core : pc'[d] \in {"load", "store"} => dropLeft'[d] > 0
      BY <2>9 DEF ClearAccumulator
    <3>2. acc' = [d \in Core |-> acc'[d]]
      BY <2>9 DEF ClearAccumulator
    <3> QED BY <2>9, <3>1, <3>2 DEF ClearAccumulator
  <2>10. CASE SweepXlu(c)
    BY <2>10 DEF SweepXlu
  <2>11. CASE Composite(c)
    BY <2>11 DEF Composite
  <2>12. CASE Resolve(c)
    <3>1. tile[c] \in Tile
      BY <2>12, DrawsATile DEF Resolve
    <3>2. /\ pc' \in [Core -> Statements]
          /\ pc'[0] \notin OnlyCore1 /\ pc'[1] \notin Outside \cup {"join"}
          /\ \A d \in Core : pc'[d] \in Drawing \cup {"bump"} => tile'[d] < NumTiles
          /\ \A d \in Core : pc'[d] \in {"load", "store"} => dropLeft'[d] > 0
      BY <2>12 DEF Resolve
    <3>3. fb' = [t \in Tile |-> fb'[t]]
      BY <2>12, <3>1 DEF Resolve
    <3>4. drawn' \in [Tile -> Nat]
      BY <2>12, <3>1 DEF Resolve
    <3> QED BY <2>12, <3>2, <3>3, <3>4 DEF Resolve
  <2> QED BY <1>6, <2>1, <2>2, <2>3, <2>4, <2>5, <2>6, <2>7, <2>8, <2>9, <2>10,
             <2>11, <2>12 DEF Run, Drain
<1>7. CASE UNCHANGED vars
  BY <1>7 DEF vars
<1> QED BY <1>1, <1>2, <1>3, <1>4, <1>5, <1>6, <1>7, NextCases

(* The control state of both cores stays well typed in every behaviour:    *)
(* a core that draws has a real tile, one that counts a drop has one to    *)
(* count, and core 0 never runs core 1's statements nor the reverse.       *)
THEOREM TypeCorrect == Spec => []TypeOK
<1> QED BY TypeInit, TypeStep, PTL DEF Spec

-----------------------------------------------------------------------------
(* The inter-core handshake. *)

(* At boot core 1 is off and both FIFOs are empty. *)
LEMMA HandshakeInit == Init => Handshake
BY DEF Init, Handshake, InDispatch, Asleep, Outside, Claiming, Drawing, Core

(* What pushing to and popping from a FIFO of at most one token gives. *)
LEMMA OneToken ==
  /\ Append(<<>>, "GO") = <<"GO">> /\ Append(<<>>, "DONE") = <<"DONE">>
  /\ Tail(<<"GO">>) = <<>> /\ Tail(<<"DONE">>) = <<>>
  /\ Head(<<"GO">>) = "GO" /\ Head(<<"DONE">>) = "DONE"
  /\ <<"GO">> # <<>> /\ <<"DONE">> # <<>>
OBVIOUS

(* One GO and one DONE per dispatch: each step of either core keeps the  *)
(* tokens in line with where the cores are.                              *)
LEMMA HandshakeStep ==
  TypeOK /\ Handshake /\ Claims /\ [Next]_vars => Handshake'
<1> SUFFICES ASSUME TypeOK, Handshake, Claims, [Next]_vars PROVE Handshake'
  OBVIOUS
<1>0. /\ pc \in [Core -> Statements] /\ nextTile \in 0 .. NumTiles
      /\ pc[0] \notin OnlyCore1 /\ pc[1] \notin Outside \cup {"join"}
      /\ tile \in [Core -> 0 .. NumTiles]
  BY DEF TypeOK
<1> USE <1>0, NumTilesAssumption
        DEF Handshake, InDispatch, Asleep, Goto, Statements, OnlyCore1, Outside, Claiming,
            Drawing, Core, front, counter, comms, scratch, drops
<1>1. ASSUME NEW s \in Scenes, BuildFrame(s) PROVE Handshake'
  BY <1>1 DEF BuildFrame
<1>2. CASE Render
  <2>1. CASE ClearFb
    BY <2>1 DEF ClearFb
  <2>2. CASE LaunchCore1
    BY <2>2 DEF LaunchCore1
  <2>3. CASE ReuseCore1
    BY <2>3 DEF ReuseCore1
  <2>4. CASE PublishFrame
    BY <2>4 DEF PublishFrame
  <2>5. CASE ResetCounter
    BY <2>5 DEF ResetCounter
  <2>6. CASE WakeCore1
    BY <2>6, OneToken DEF WakeCore1
  <2>7. CASE Join
    BY <2>7, OneToken DEF Join
  <2> QED BY <1>2, <2>1, <2>2, <2>3, <2>4, <2>5, <2>6, <2>7 DEF Render
<1>3. CASE EnableSysTick
  BY <1>3 DEF EnableSysTick
<1>4. CASE PopWake
  BY <1>4, OneToken DEF PopWake
<1>5. CASE SignalDone
  BY <1>5, OneToken DEF SignalDone
<1>6. ASSUME NEW c \in Core, Run(c) PROVE Handshake'
  <2>1. CASE Acquire(c)
    BY <2>1 DEF Acquire
  <2>2. CASE ReadCounter(c)
    BY <2>2 DEF ReadCounter
  <2>3. CASE BumpCounter(c)
    BY <2>3 DEF BumpCounter, Claims
  <2>4. CASE Release(c)
    BY <2>4 DEF Release, Claims
  <2>5. CASE Drain(c)
    <3>1. /\ pc[c] \in Drawing /\ pc' \in [Core -> Statements]
          /\ pc'[c] \in Drawing \cup {"lock"}
          /\ \A d \in Core : d # c => pc'[d] = pc[d]
          /\ UNCHANGED <<sFrame, launched, toCore1, toCore0, arg, nextTile>>
      BY <2>5 DEF Drain, ClearScratch, SweepOpaque, LoadDropped, StoreDropped,
                  ClearAccumulator, SweepXlu, Composite, Resolve
    <3> QED BY <3>1
  <2> QED BY <1>6, <2>1, <2>2, <2>3, <2>4, <2>5 DEF Run
<1>7. CASE UNCHANGED vars
  BY <1>7 DEF vars
<1> QED BY <1>1, <1>2, <1>3, <1>4, <1>5, <1>6, <1>7, NextCases

-----------------------------------------------------------------------------
(* The spinlock and the tile counter. *)

(* At boot the spinlock is free. *)
LEMMA ClaimsInit == Init => Claims
BY DEF Init, Claims, Drawing, Core, Free

(* No step of a core disturbs the counter while the other holds the lock. *)
LEMMA ClaimsStep ==
  TypeOK /\ Handshake /\ Claims /\ [Next]_vars => Claims'
<1> SUFFICES ASSUME TypeOK, Handshake, Claims, [Next]_vars PROVE Claims'
  OBVIOUS
<1>0. /\ pc \in [Core -> Statements] /\ nextTile \in 0 .. NumTiles
      /\ pc[0] \notin OnlyCore1 /\ pc[1] \notin Outside \cup {"join"}
      /\ tile \in [Core -> 0 .. NumTiles] /\ lock \in Core \cup {Free}
  BY DEF TypeOK
<1>01. pc[0] \in Outside => pc[1] \in {"off", "boot", "park"}
  BY DEF Handshake, InDispatch, Asleep
<1> USE <1>0, <1>01, NumTilesAssumption
        DEF Claims, Goto, Statements, OnlyCore1, Outside, Claiming, Drawing, Core, Free,
            front, counter, comms, scratch, drops
<1>1. ASSUME NEW s \in Scenes, BuildFrame(s) PROVE Claims'
  BY <1>1 DEF BuildFrame
<1>2. CASE Render
  <2>1. CASE ClearFb
    BY <2>1 DEF ClearFb
  <2>2. CASE LaunchCore1
    BY <2>2 DEF LaunchCore1
  <2>3. CASE ReuseCore1
    BY <2>3 DEF ReuseCore1
  <2>4. CASE PublishFrame
    BY <2>4 DEF PublishFrame
  <2>5. CASE ResetCounter
    BY <2>5 DEF ResetCounter
  <2>6. CASE WakeCore1
    BY <2>6 DEF WakeCore1
  <2>7. CASE Join
    BY <2>7 DEF Join
  <2> QED BY <1>2, <2>1, <2>2, <2>3, <2>4, <2>5, <2>6, <2>7 DEF Render
<1>3. CASE EnableSysTick
  BY <1>3 DEF EnableSysTick
<1>4. CASE PopWake
  BY <1>4 DEF PopWake
<1>5. CASE SignalDone
  BY <1>5 DEF SignalDone
<1>6. ASSUME NEW c \in Core, Run(c) PROVE Claims'
  <2>1. CASE Acquire(c)
    BY <2>1 DEF Acquire
  <2>2. CASE ReadCounter(c)
    BY <2>2 DEF ReadCounter
  <2>3. CASE BumpCounter(c)
    BY <2>3 DEF BumpCounter
  <2>4. CASE Release(c)
    BY <2>4 DEF Release
  <2>5. CASE Drain(c)
    <3>1. /\ pc[c] \in Drawing /\ pc' \in [Core -> Statements]
          /\ pc'[c] \in Drawing \cup {"lock"}
          /\ \A d \in Core : d # c => pc'[d] = pc[d]
          /\ UNCHANGED <<lock, tile, nextTile>>
      BY <2>5 DEF Drain, ClearScratch, SweepOpaque, LoadDropped, StoreDropped,
                  ClearAccumulator, SweepXlu, Composite, Resolve
    <3> QED BY <3>1
  <2> QED BY <1>6, <2>1, <2>2, <2>3, <2>4, <2>5 DEF Run
<1>7. CASE UNCHANGED vars
  BY <1>7 DEF vars
<1> QED BY <1>1, <1>2, <1>3, <1>4, <1>5, <1>6, <1>7, NextCases

-----------------------------------------------------------------------------
(* Which tiles are drawn, being drawn, and still untouched. *)

(* At boot no tile is drawn or owned. *)
LEMMA LedgerInit == Init => Ledger
BY DEF Init, Ledger, Owns, InDispatch, Outside, Drawing, Core

(* A claim takes the tile at the counter, which is untouched; a resolve   *)
(* ends the ownership of a tile and records it as drawn.                  *)
LEMMA LedgerStep ==
  TypeOK /\ Handshake /\ Claims /\ Ledger /\ [Next]_vars => Ledger'
<1> SUFFICES ASSUME TypeOK, Handshake, Claims, Ledger, [Next]_vars PROVE Ledger'
  OBVIOUS
<1>0. /\ pc \in [Core -> Statements] /\ nextTile \in 0 .. NumTiles
      /\ pc[0] \notin OnlyCore1 /\ pc[1] \notin Outside \cup {"join"}
      /\ tile \in [Core -> 0 .. NumTiles] /\ drawn \in [Tile -> Nat]
  BY DEF TypeOK
<1>01. /\ pc[0] \in Outside => pc[1] \in {"off", "boot", "park"}
       /\ ~Asleep => InDispatch
       /\ \A c \in Core : pc[c] \in Claiming \cup Drawing => InDispatch
  BY <1>0 DEF Handshake, InDispatch, Asleep, Core, Claiming, Drawing, Outside, OnlyCore1
<1> USE <1>0, <1>01, NumTilesAssumption
        DEF Ledger, Owns, Owned, InDispatch, Goto, Statements, OnlyCore1, Outside, Claiming,
            Drawing, Core, front, counter, comms, scratch, drops
<1>1. ASSUME NEW s \in Scenes, BuildFrame(s) PROVE Ledger'
  BY <1>1 DEF BuildFrame
<1>2. CASE Render
  <2>1. CASE ClearFb
    BY <2>1 DEF ClearFb
  <2>2. CASE LaunchCore1
    BY <2>2 DEF LaunchCore1
  <2>3. CASE ReuseCore1
    BY <2>3 DEF ReuseCore1
  <2>4. CASE PublishFrame
    BY <2>4 DEF PublishFrame
  <2>5. CASE ResetCounter
    BY <2>5 DEF ResetCounter, Tile
  <2>6. CASE WakeCore1
    BY <2>6 DEF WakeCore1
  <2>7. CASE Join
    BY <2>7, SMTT(30) DEF Join
  <2> QED BY <1>2, <2>1, <2>2, <2>3, <2>4, <2>5, <2>6, <2>7 DEF Render
<1>3. CASE EnableSysTick
  BY <1>3 DEF EnableSysTick
<1>4. CASE PopWake
  BY <1>4 DEF PopWake
<1>5. CASE SignalDone
  BY <1>5 DEF SignalDone
<1>6. ASSUME NEW c \in Core, Run(c) PROVE Ledger'
  <2>1. CASE Acquire(c)
    BY <2>1 DEF Acquire
  <2>2. CASE ReadCounter(c)
    <3>1. /\ pc[c] = "read" /\ pc' \in [Core -> Statements]
          /\ pc'[c] \in {"bump", "unlock"}
          /\ pc'[c] = "unlock" => tile'[c] = NumTiles
          /\ \A d \in Core : d # c => pc'[d] = pc[d] /\ tile'[d] = tile[d]
          /\ UNCHANGED <<nextTile, drawn>>
      BY <2>2 DEF ReadCounter
    <3>2. \A t \in Tile : t # NumTiles
      BY DEF Tile
    <3>3. \A t \in Tile : \A d \in Core : Owns(d, t)' <=> Owns(d, t)
      BY <3>1, <3>2
    <3>4. \A t \in Tile : Owned(t)' <=> Owned(t)
      <4> HIDE DEF Owns
      <4> QED BY <3>3
    <3>5. InDispatch /\ InDispatch'
      BY <3>1
    <3> HIDE DEF Owned, Owns
    <3> QED BY <3>1, <3>3, <3>4, <3>5
  <2>3. CASE BumpCounter(c)
    <3>1. /\ tile[c] = nextTile /\ nextTile' = nextTile + 1 /\ nextTile < NumTiles
          /\ pc[c] = "bump" /\ pc' = [pc EXCEPT ![c] = "unlock"]
          /\ UNCHANGED <<tile, drawn>>
      BY <2>3 DEF BumpCounter, Claims
    <3>2. \A d \in Core : d # c => pc[d] # "unlock" /\ (pc[d] \in Drawing => tile[d] < nextTile)
      BY <3>1 DEF Claims
    <3>3. \A t \in Tile : Owned(t)' <=> Owned(t) \/ t = nextTile
      BY <3>1 DEF Tile
    <3>4. \A t \in Tile : t \in Nat /\ (t < nextTile + 1 <=> t < nextTile \/ t = nextTile)
      BY DEF Tile
    <3>5. \A t \in Tile : drawn[t] = IF t < nextTile /\ ~Owned(t) THEN 1 ELSE 0
      BY <3>1
    <3>6. \A t \in Tile : drawn'[t] = IF t < nextTile' /\ ~Owned(t)' THEN 1 ELSE 0
      <4> HIDE DEF Owned
      <4> QED BY <3>1, <3>3, <3>4, <3>5
    <3>7. \A t \in Tile : ~(Owns(0, t)' /\ Owns(1, t)')
      BY <3>1, <3>2
    <3> QED BY <3>1, <3>6, <3>7
  <2>4. CASE Release(c)
    BY <2>4, SMTT(30) DEF Release, Claims, Tile
  <2>5. CASE Resolve(c)
    <3>1. tile[c] \in Tile /\ tile[c] < nextTile /\ Owns(c, tile[c]) /\ drawn[tile[c]] = 0
      BY <2>5, DrawsATile DEF Resolve, Claims
    <3> QED BY <2>5, <3>1 DEF Resolve
  <2>6. CASE Drain(c) /\ ~Resolve(c)
    <3>1. /\ pc[c] \in Drawing /\ pc' \in [Core -> Statements]
          /\ pc'[c] \in Drawing
          /\ \A d \in Core : d # c => pc'[d] = pc[d]
          /\ UNCHANGED <<tile, nextTile, drawn>>
      BY <2>6 DEF Drain, ClearScratch, SweepOpaque, LoadDropped, StoreDropped,
                  ClearAccumulator, SweepXlu, Composite
    <3> QED BY <3>1
  <2> QED BY <1>6, <2>1, <2>2, <2>3, <2>4, <2>5, <2>6 DEF Run
<1>7. CASE UNCHANGED vars
  BY <1>7 DEF vars
<1> QED BY <1>1, <1>2, <1>3, <1>4, <1>5, <1>6, <1>7, NextCases

-----------------------------------------------------------------------------
(* What the stages leave in the scratch and in the framebuffer. *)

(* At boot no core is in a stage and no frame was joined. *)
LEMMA PictureInit == Init => Picture
BY DEF Init, Picture, SerialOnJoin, InDispatch, Outside, Drawing, Core

(* A stage of one core's drain leaves the other core's stage as it was: the *)
(* scratch is per core and the two tiles differ.                            *)
LEMMA StageUndisturbed ==
  ASSUME NEW c \in Core, StageHolds(c), UNCHANGED scene,
         tile'[c] = tile[c], pc'[c] = pc[c], fb'[tile[c]] = fb[tile[c]],
         zbuf'[c] = zbuf[c], cov'[c] = cov[c], acc'[c] = acc[c], xlu'[c] = xlu[c]
  PROVE  StageHolds(c)'
BY DEF StageHolds, Bin

(* Each stage hands the next one what the serial sweep would. *)
LEMMA StageAdvances ==
  ASSUME TypeOK, NEW c \in Core, StageHolds(c), tile[c] \in Tile, Drain(c),
         ~Resolve(c)
  PROVE  /\ StageHolds(c)' /\ pc[c] \in Drawing /\ pc'[c] \in Drawing
         /\ UNCHANGED <<scene, tile, drawn, nextTile, launched>>
         /\ \A d \in Core \ {c} :
              /\ pc'[d] = pc[d] /\ zbuf'[d] = zbuf[d] /\ cov'[d] = cov[d]
              /\ acc'[d] = acc[d] /\ xlu'[d] = xlu[d]
         /\ \A t \in Tile \ {tile[c]} : fb'[t] = fb[t]
         /\ pc' \in [Core -> Statements]
<1>0. /\ pc \in [Core -> Statements] /\ fb = [t \in Tile |-> fb[t]]
      /\ zbuf = [d \in Core |-> zbuf[d]] /\ cov = [d \in Core |-> cov[d]]
      /\ acc = [d \in Core |-> acc[d]] /\ xlu = [d \in Core |-> xlu[d]]
  BY DEF TypeOK
<1> USE <1>0 DEF StageHolds, Goto, Drawing, Statements, front, counter, comms, scratch,
                 drops, Bin
<1>1. CASE ClearScratch(c)
  BY <1>1 DEF ClearScratch
<1>2. CASE SweepOpaque(c)
  BY <1>2 DEF SweepOpaque, AfterOpaque
<1>3. CASE LoadDropped(c)
  BY <1>3 DEF LoadDropped
<1>4. CASE StoreDropped(c)
  BY <1>4 DEF StoreDropped
<1>5. CASE ClearAccumulator(c)
  BY <1>5 DEF ClearAccumulator
<1>6. CASE SweepXlu(c)
  BY <1>6 DEF SweepXlu, AfterXlu
<1>7. CASE Composite(c)
  BY <1>7 DEF Composite
<1> QED BY <1>1, <1>2, <1>3, <1>4, <1>5, <1>6, <1>7 DEF Drain

(* The last stage leaves the tile as the serial sweep draws it. *)
LEMMA ResolveFinishes ==
  ASSUME TypeOK, NEW c \in Core, StageHolds(c), tile[c] \in Tile, Resolve(c)
  PROVE  /\ fb'[tile[c]] = SerialTile(scene.bins[tile[c]], scene.background[tile[c]])
         /\ \A t \in Tile \ {tile[c]} : fb'[t] = fb[t]
BY DEF Resolve, StageHolds, SerialTile, AfterOpaque, AfterXlu, TypeOK, Goto, Bin

(* Each stage leaves what the next one expects, and the last join leaves  *)
(* every tile as the serial sweep draws it.                               *)
LEMMA PictureStep ==
  IInv /\ [Next]_vars => Picture'
<1> SUFFICES ASSUME IInv, [Next]_vars PROVE Picture'
  OBVIOUS
<1>0. TypeOK /\ Handshake /\ Claims /\ Ledger /\ Picture
  BY DEF IInv
<1>01. /\ pc \in [Core -> Statements] /\ nextTile \in 0 .. NumTiles
       /\ pc[0] \notin OnlyCore1 /\ pc[1] \notin Outside \cup {"join"}
       /\ tile \in [Core -> 0 .. NumTiles]
       /\ fb = [t \in Tile |-> fb[t]] /\ 0 \in Core /\ 1 \in Core
  BY <1>0 DEF TypeOK, Core
<1>02. /\ pc[0] \in Outside => pc[1] \in {"off", "boot", "park"}
       /\ \A c \in Core : pc[c] \in Claiming \cup Drawing => InDispatch
  BY <1>0, <1>01 DEF Handshake, InDispatch, Asleep, Core, Claiming, Drawing, Outside, OnlyCore1
<1> USE <1>01, <1>02, NumTilesAssumption
        DEF Goto, Statements, OnlyCore1, Outside, Claiming, Drawing, Core, front, counter,
            comms, scratch, drops
(* A step that moves no core into or out of a tile and leaves pixels,      *)
(* scratch, claims and the scene alone keeps the picture.                  *)
<1>1. ASSUME UNCHANGED <<scene, fb, zbuf, cov, acc, xlu, tile, drawn>>,
             \A c \in Core : pc'[c] \in Drawing \cup {"unlock"} \/ pc[c] \in Drawing \cup {"unlock"}
                             => pc'[c] = pc[c],
             pc'[0] \in {"setup", "publish", "reset", "wake"} =>
               pc[0] \in {"setup", "publish", "reset", "wake"},
             pc'[0] \notin Outside => pc[0] \notin Outside,
             pc'[0] = "app" /\ launched' => pc[0] = "app" /\ launched
      PROVE  Picture'
  <2>1. \A c \in Core : StageHolds(c) /\ pc'[c] = pc[c] => StageHolds(c)'
    BY <1>1, StageUndisturbed
  <2>2. \A c \in Core : \A t \in Tile : Owns(c, t)' <=> Owns(c, t)
    BY <1>1 DEF Owns
  <2>3. \A t \in Tile : Owned(t)' <=> Owned(t)
    BY <2>2 DEF Owned
  <2> QED BY <1>0, <1>1, <2>1, <2>3 DEF Picture, SerialOnJoin, InDispatch
<1>2. ASSUME NEW s \in Scenes, BuildFrame(s) PROVE Picture'
  BY <1>0, <1>2 DEF BuildFrame, Picture, SerialOnJoin, InDispatch
<1>3. CASE Render
  <2>1. CASE ClearFb
    BY <1>0, <2>1 DEF ClearFb, Picture, SerialOnJoin, InDispatch
  <2>2. CASE LaunchCore1
    BY <1>1, <2>2 DEF LaunchCore1
  <2>3. CASE ReuseCore1
    BY <1>1, <2>3 DEF ReuseCore1
  <2>4. CASE PublishFrame
    BY <1>1, <2>4 DEF PublishFrame
  <2>5. CASE ResetCounter
    BY <1>0, <2>5 DEF ResetCounter, Picture, SerialOnJoin, InDispatch
  <2>6. CASE WakeCore1
    <3>1. fb = scene.background /\ \A t \in Tile : drawn[t] = 0
      BY <1>0, <2>6 DEF WakeCore1, Picture, Ledger, Claims, Tile
    <3> QED BY <2>6, <3>1 DEF WakeCore1, Picture, SerialOnJoin, InDispatch
  <2>7. CASE Join
    <3>1. pc[0] = "join" /\ nextTile = NumTiles /\ toCore0 # <<>> /\ Asleep
      BY <1>0, <2>7 DEF Join, Handshake, InDispatch
    <3>2. \A t \in Tile : ~Owned(t) /\ t < nextTile
      BY <3>1 DEF Owned, Owns, Asleep, Tile
    <3>3. \A t \in Tile : fb[t] = SerialTile(scene.bins[t], scene.background[t])
      BY <1>0, <3>1, <3>2 DEF Ledger, Picture, InDispatch
    <3>4. pc'[0] \in {"app", "join"} /\ pc'[1] = pc[1]
          /\ UNCHANGED <<scene, fb, drawn>> /\ pc[1] \in {"off", "boot", "park"}
      BY <2>7, <3>1 DEF Join, Asleep
    <3> QED BY <1>0, <2>7, <3>1, <3>3, <3>4 DEF Join, Picture, SerialOnJoin, InDispatch, Owned, Owns, Ledger
  <2> QED BY <1>3, <2>1, <2>2, <2>3, <2>4, <2>5, <2>6, <2>7 DEF Render
<1>4. CASE EnableSysTick
  BY <1>1, <1>4 DEF EnableSysTick
<1>5. CASE PopWake
  BY <1>1, <1>5 DEF PopWake
<1>6. CASE SignalDone
  BY <1>1, <1>6 DEF SignalDone
<1>7. ASSUME NEW c \in Core, Run(c) PROVE Picture'
  <2>1. CASE Acquire(c)
    BY <1>1, <2>1 DEF Acquire
  <2>2. CASE ReadCounter(c)
    <3>1. /\ pc[c] = "read" /\ pc'[c] \in {"bump", "unlock"}
          /\ pc'[c] = "unlock" => tile'[c] \notin Tile
          /\ \A d \in Core \ {c} : pc'[d] = pc[d] /\ tile'[d] = tile[d]
          /\ UNCHANGED <<scene, fb, zbuf, cov, acc, xlu, drawn, launched>>
      BY <2>2 DEF ReadCounter, Tile
    <3>2. \A t \in Tile : Owned(t)' <=> Owned(t)
      BY <3>1 DEF Owned, Owns
    <3>3. \A d \in Core \ {c} : StageHolds(d) => StageHolds(d)'
      BY <3>1, StageUndisturbed
    <3>4. InDispatch /\ pc'[0] \notin Outside
      BY <3>1 DEF InDispatch
    <3> QED BY <1>0, <3>1, <3>2, <3>3, <3>4 DEF Picture, SerialOnJoin, InDispatch
  <2>3. CASE BumpCounter(c)
    <3>1. /\ pc[c] = "bump" /\ pc'[c] = "unlock"
          /\ \A d \in Core \ {c} : pc'[d] = pc[d]
          /\ UNCHANGED <<scene, fb, zbuf, cov, acc, xlu, drawn, launched, tile>>
      BY <2>3 DEF BumpCounter
    <3>2. /\ tile[c] = nextTile /\ tile[c] \in Tile
          /\ \A d \in Core \ {c} : pc[d] # "unlock" /\ (pc[d] \in Drawing => tile[d] < nextTile)
      BY <1>0, <3>1 DEF Claims, Tile
    <3>3. ~Owned(tile[c]) /\ InDispatch /\ pc'[0] \notin Outside
      BY <3>1, <3>2 DEF Owned, Owns, InDispatch
    <3>4. drawn[tile[c]] = 0
      BY <1>0, <3>2, <3>3 DEF Ledger
    <3>5. fb[tile[c]] = scene.background[tile[c]]
      BY <1>0, <3>2, <3>3, <3>4 DEF Picture
    <3>6. StageHolds(c)'
      BY <3>1, <3>5 DEF StageHolds
    <3>7. \A d \in Core \ {c} : StageHolds(d) => StageHolds(d)'
      BY <3>1, StageUndisturbed
    <3>8. \A t \in Tile : Owned(t) => Owned(t)'
      BY <3>1 DEF Owned, Owns
    <3> QED BY <1>0, <3>1, <3>3, <3>6, <3>7, <3>8 DEF Picture, SerialOnJoin, InDispatch
  <2>4. CASE Release(c)
    <3>1. /\ pc[c] = "unlock"
          /\ \/ tile[c] \in Tile /\ pc'[c] = "clear"
             \/ tile[c] \notin Tile /\ pc'[c] \in {"join", "signal"}
          /\ \A d \in Core \ {c} : pc'[d] = pc[d]
          /\ UNCHANGED <<scene, fb, zbuf, cov, acc, xlu, drawn, launched, tile>>
      BY <2>4 DEF Release, Tile
    <3>2. InDispatch /\ pc'[0] \notin Outside
      BY <3>1 DEF InDispatch
    <3>3. StageHolds(c) /\ tile[c] \in Tile => StageHolds(c)'
      BY <3>1 DEF StageHolds
    <3>4. \A d \in Core \ {c} : StageHolds(d) => StageHolds(d)'
      BY <3>1, StageUndisturbed
    <3>5. \A t \in Tile : Owned(t)' <=> Owned(t)
      BY <3>1 DEF Owned, Owns
    <3> QED BY <1>0, <3>1, <3>2, <3>3, <3>4, <3>5 DEF Picture, SerialOnJoin, InDispatch
  <2>5. CASE Drain(c)
    <3>1. pc[c] \in Drawing
      BY <2>5 DEF Drain, ClearScratch, SweepOpaque, LoadDropped, StoreDropped,
                  ClearAccumulator, SweepXlu, Composite, Resolve
    <3>2. tile[c] \in Tile /\ Owns(c, tile[c])
      BY <1>0, <3>1, DrawsATile DEF Owns
    <3>3. StageHolds(c) /\ InDispatch
      BY <1>0, <3>1, <3>2 DEF Picture
    <3>4. drawn[tile[c]] = 0
      BY <1>0, <3>2, <3>3 DEF Ledger, Owned
    <3>5. \A d \in Core \ {c} : tile[d] \in Tile /\ pc[d] \in Drawing \cup {"unlock"}
                               => StageHolds(d) /\ tile[d] # tile[c]
      BY <1>0, <3>2 DEF Picture, Ledger, Owns
    <3>6. CASE ~Resolve(c)
      <4>1. /\ StageHolds(c)' /\ pc'[c] \in Drawing
            /\ UNCHANGED <<scene, tile, drawn, launched>>
            /\ \A d \in Core \ {c} :
                 /\ pc'[d] = pc[d] /\ zbuf'[d] = zbuf[d] /\ cov'[d] = cov[d]
                 /\ acc'[d] = acc[d] /\ xlu'[d] = xlu[d]
            /\ \A t \in Tile \ {tile[c]} : fb'[t] = fb[t]
        BY <1>0, <2>5, <3>2, <3>3, <3>6, StageAdvances
      <4>2. \A d \in Core \ {c} : tile[d] \in Tile /\ pc[d] \in Drawing \cup {"unlock"}
                                 => StageHolds(d)'
        BY <3>5, <4>1, StageUndisturbed
      <4>3. \A t \in Tile : Owned(t)' <=> Owned(t)
        BY <3>1, <4>1 DEF Owned, Owns
      <4>4. pc'[0] \notin Outside
        BY <3>3, <4>1 DEF InDispatch
      <4>5. \A t \in Tile : drawn[t] = 1 \/ ~Owned(t) => t # tile[c]
        BY <3>2, <3>4 DEF Owned
      <4> QED BY <1>0, <3>3, <4>1, <4>2, <4>3, <4>4, <4>5 DEF Picture, SerialOnJoin, InDispatch
    <3>7. CASE Resolve(c)
      <4>1. /\ fb'[tile[c]] = SerialTile(scene.bins[tile[c]], scene.background[tile[c]])
            /\ \A t \in Tile \ {tile[c]} : fb'[t] = fb[t]
        BY <1>0, <3>2, <3>3, <3>7, ResolveFinishes
      <4>2. /\ pc'[c] = "lock" /\ \A d \in Core \ {c} : pc'[d] = pc[d]
            /\ UNCHANGED <<scene, tile, launched, zbuf, cov, acc, xlu>>
        BY <3>7 DEF Resolve
      <4>3. drawn'[tile[c]] = 1 /\ \A t \in Tile \ {tile[c]} : drawn'[t] = drawn[t]
        BY <1>0, <3>2, <3>4, <3>7 DEF Resolve, TypeOK
      <4>4. \A d \in Core \ {c} : tile[d] \in Tile /\ pc[d] \in Drawing \cup {"unlock"}
                                 => StageHolds(d)'
        BY <3>5, <4>1, <4>2, StageUndisturbed
      <4>5. \A t \in Tile \ {tile[c]} : Owned(t)' <=> Owned(t)
        BY <4>2 DEF Owned, Owns
      <4>6. pc'[0] \notin Outside
        BY <3>3, <4>2 DEF InDispatch
      <4>7. \A t \in Tile :
              /\ drawn'[t] = 1 => fb'[t] = SerialTile(scene.bins[t], scene.background[t])
              /\ drawn'[t] = 0 /\ ~Owned(t)' => fb'[t] = scene.background[t]
        BY <1>0, <3>3, <4>1, <4>3, <4>5 DEF Picture
      <4> QED BY <4>2, <4>4, <4>6, <4>7 DEF Picture, SerialOnJoin, InDispatch
    <3> QED BY <3>6, <3>7
  <2> QED BY <1>7, <2>1, <2>2, <2>3, <2>4, <2>5 DEF Run
<1>8. CASE UNCHANGED vars
  BY <1>1, <1>8 DEF vars
<1> QED BY <1>2, <1>3, <1>4, <1>5, <1>6, <1>7, <1>8, NextCases

-----------------------------------------------------------------------------
(* The theorems. *)

(* IInv is inductive, so its four parts hold in every reachable state: the *)
(* tokens tell where core 1 is, the lock frames the counter, every tile is *)
(* untouched, owned by one core or drawn once, and every stage sees in the *)
(* scratch and in the framebuffer what the serial sweep would have left.   *)
THEOREM Inductive == Spec => []IInv
<1>1. Init => IInv
  BY TypeInit, HandshakeInit, ClaimsInit, LedgerInit, PictureInit DEF IInv
<1>2. IInv /\ [Next]_vars => IInv'
  BY TypeStep, HandshakeStep, ClaimsStep, LedgerStep, PictureStep DEF IInv
<1> QED BY <1>1, <1>2, PTL DEF Spec

(* What IInv says of a tile and of a joined frame. *)
LEMMA ClaimsFollow == IInv => ClaimedOnce
<1> SUFFICES ASSUME IInv PROVE ClaimedOnce
  OBVIOUS
<1>1. Ledger /\ TypeOK /\ Handshake
  BY DEF IInv
<1>2. ASSUME NEW t \in Tile, NEW c \in Core, Owns(c, t) PROVE drawn[t] = 0
  <2>1. InDispatch
    BY <1>1, <1>2 DEF Owns, Handshake, InDispatch, Asleep, TypeOK, Core, Drawing, Outside,
                      OnlyCore1
  <2> QED BY <1>1, <1>2, <2>1 DEF Ledger, Owned
<1> QED BY <1>1, <1>2 DEF ClaimedOnce, Ledger

(* The handshake says core 1 sleeps while core 0 is outside the call. *)
LEMMA ParkedFollows == IInv => Core1Parked
<1> SUFFICES ASSUME IInv PROVE Core1Parked
  OBVIOUS
<1>1. Handshake /\ Claims /\ TypeOK
  BY DEF IInv
<1>2. pc[0] \in Outside => lock = Free
  <2> SUFFICES ASSUME pc[0] \in Outside PROVE lock = Free
    OBVIOUS
  <2>1. pc[1] \in {"off", "boot", "park"}
    BY <1>1 DEF Handshake, InDispatch, Asleep
  <2>2. lock # 0 /\ lock # 1
    BY <1>1, <2>1 DEF Claims, Core, Outside
  <2> QED BY <1>1, <2>2 DEF TypeOK, Core
<1> QED BY <1>1, <1>2 DEF Core1Parked, Handshake, InDispatch, Asleep

(* No tile is ever drawn by both cores, or drawn twice between two resets  *)
(* of the counter, for any number of tiles.                                *)
THEOREM TilesClaimedOnce == Spec => []ClaimedOnce
BY Inductive, ClaimsFollow, PTL

(* dispatch.h's contract, for every scene, number of tiles and claim order: *)
(* the joined framebuffer is bit-identical to the serial sweep's.           *)
THEOREM JoinedFrameIsSerial == Spec => []SerialOnJoin
<1>1. IInv => SerialOnJoin
  BY DEF IInv, Picture
<1> QED BY <1>1, Inductive, PTL

(* Core 0 rewrites the Frame and the framebuffer only while core 1 sleeps  *)
(* with nothing in flight.                                                 *)
THEOREM ParkedOutsideDispatch == Spec => []Core1Parked
BY Inductive, ParkedFollows, PTL

-----------------------------------------------------------------------------
(* The refinement. *)

(* The two specifications start alike. *)
LEMMA SerialInit == Init => Serial!Init
<1> SUFFICES ASSUME Init PROVE Serial!Init
  OBVIOUS
<1>1. pc[0] = "app" /\ fb = EmptyScene.background /\ scene = EmptyScene
  BY DEF Init, Core
<1>2. pc[0] \in Outside
  BY <1>1 DEF Outside
<1> QED BY <1>1, <1>2 DEF Serial!Init

(* Every step is a build, a clear, the sweep (the join), or invisible. *)
LEMMA SerialStep ==
  IInv /\ [Next]_vars => [Serial!Next]_(Serial!vars)
<1> SUFFICES ASSUME IInv, [Next]_vars PROVE [Serial!Next]_(Serial!vars)
  OBVIOUS
<1>0. TypeOK /\ Handshake /\ Claims /\ Ledger /\ Picture
  BY DEF IInv
<1>01. /\ pc \in [Core -> Statements] /\ fb = [t \in Tile |-> fb[t]]
       /\ 0 \in Core /\ 1 \in Core
       /\ \A c \in Core : pc[c] \in Claiming \cup Drawing => InDispatch
  BY <1>0 DEF TypeOK, Handshake, InDispatch, Asleep, Core, Claiming, Drawing, Outside,
              OnlyCore1
<1> USE <1>01
        DEF Goto, Statements, OnlyCore1, Outside, Claiming, Drawing, Core, front, counter,
            comms, scratch, drops
(* A step that leaves the scene, core 0's place and the framebuffer, or    *)
(* moves core 0 within the dispatch, is a stuttering step.                 *)
<1>1. ASSUME UNCHANGED scene,
             \/ pc[0] \notin Outside /\ pc'[0] \notin Outside
             \/ pc'[0] = pc[0] /\ UNCHANGED fb
      PROVE  UNCHANGED Serial!vars
  BY <1>1 DEF Serial!vars
<1>2. ASSUME NEW s \in Scenes, BuildFrame(s) PROVE Serial!Next
  BY <1>2 DEF BuildFrame, Serial!Next, Serial!Build
<1>3. CASE Render
  <2>1. CASE ClearFb
    BY <2>1 DEF ClearFb, Serial!Next, Serial!Clear
  <2>2. CASE LaunchCore1
    BY <2>2 DEF LaunchCore1, Serial!vars
  <2>3. CASE ReuseCore1
    BY <2>3 DEF ReuseCore1, Serial!vars
  <2>4. CASE PublishFrame
    BY <2>4 DEF PublishFrame, Serial!vars
  <2>5. CASE ResetCounter
    BY <2>5 DEF ResetCounter, Serial!vars
  <2>6. CASE WakeCore1
    <3>1. fb = scene.background
      BY <1>0, <2>6 DEF WakeCore1, Picture
    <3> QED BY <2>6, <3>1 DEF WakeCore1, Serial!vars
  <2>7. CASE Join /\ pc'[0] = "app"
    <3>1. IInv' /\ launched /\ launched'
      BY <1>0, <2>7, TypeStep, HandshakeStep, ClaimsStep, LedgerStep, PictureStep
      DEF IInv, Join, Handshake, InDispatch
    <3>2. \A t \in Tile : fb'[t] = SerialTile(scene.bins[t], scene.background[t])
      BY <2>7, <3>1 DEF Join, IInv, Picture, SerialOnJoin
    <3>3. fb' = Serial!SerialImage(scene)
      BY <2>7, <3>2 DEF Join, Serial!SerialImage, Serial!Tile, Tile
    <3> QED BY <2>7, <3>3 DEF Join, Serial!Next, Serial!Rasterize
  <2>8. CASE Join /\ pc'[0] # "app"
    BY <1>1, <2>8 DEF Join
  <2> QED BY <1>3, <2>1, <2>2, <2>3, <2>4, <2>5, <2>6, <2>7, <2>8 DEF Render
<1>4. CASE EnableSysTick \/ PopWake \/ SignalDone
  BY <1>1, <1>4 DEF EnableSysTick, PopWake, SignalDone
<1>5. ASSUME NEW c \in Core, Run(c) PROVE UNCHANGED Serial!vars
  <2>1. /\ pc[c] \in Claiming \cup Drawing
        /\ pc'[c] \in Claiming \cup Drawing \cup {"join", "signal"}
        /\ c = 1 => pc'[0] = pc[0]
        /\ c = 0 => pc'[0] \in Claiming \cup Drawing \cup {"join"}
        /\ UNCHANGED scene
    BY <1>5 DEF Run, Drain, Acquire, ReadCounter, BumpCounter, Release, ClearScratch,
                SweepOpaque, LoadDropped, StoreDropped, ClearAccumulator, SweepXlu,
                Composite, Resolve
  <2>2. pc[0] \notin Outside /\ pc'[0] \notin Outside
    BY <2>1 DEF InDispatch
  <2> QED BY <1>1, <2>1, <2>2
<1>6. CASE UNCHANGED vars
  BY <1>1, <1>6 DEF vars
<1> QED BY <1>2, <1>3, <1>4, <1>5, <1>6, NextCases

(* The dual-core raster stage implements the single-threaded one: to core  *)
(* 0's caller every dispatch is one atomic serial sweep.                   *)
THEOREM DualCoreImplementsSerial == Spec => ImplementsSerial
BY SerialInit, SerialStep, Inductive, PTL DEF ImplementsSerial, Serial!Spec, Spec
=============================================================================
