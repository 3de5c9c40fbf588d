----------------------------- MODULE StreamK_proofs -----------------------------
(***************************************************************************)
(* Proofs about the Stream-K kernel, for every number of cores, of vector  *)
(* cores to a cube core, and of tiles and chunks that the host allows.     *)
(***************************************************************************)
EXTENDS StreamK, StreamKSchedule_proofs, FiniteSetTheorems

CubeSteps == {"start", "tile", "flags", "done"}
CubeStates == [at : Nat, pc : CubeSteps]

(* What the steps of cube core i do to the cube cores.                     *)
MovesTo(i, at, pc) ==
  /\ cube' \in [Cores(shape) -> CubeStates]
  /\ cube'[i].at = at /\ cube'[i].pc = pc
  /\ \A j \in Cores(shape) \ {i} : cube'[j] = cube[j]

(* The shape of a launch is one the facts of the schedule are about.       *)
LEMMA LaunchShape ==
  ASSUME shape \in Shapes
  PROVE  /\ shape \in ShapeRecords /\ HostAllows(shape)
         /\ shape.cores \in Nat \ {0} /\ TileNum(shape) \in Nat
         /\ DpTiles(shape) \in Nat /\ Tail(shape) * shape.sk \in Nat
         /\ TileNum(shape) = DpTiles(shape) + (Tail(shape) * shape.sk)
         /\ Ratio \in Nat \ {0}
BY ShapesAssumption, HostFacts, RatioAssumption

(* Every vector core belongs to a cube core.                               *)
LEMMA OwnCube ==
  ASSUME shape \in Shapes, NEW v \in Vectors(shape)
  PROVE  v \div Ratio \in Cores(shape)
<1>1. v \in Nat /\ v < shape.cores * Ratio /\ shape.cores \in Nat \ {0} /\ Ratio \in Nat \ {0}
  BY LaunchShape DEF Vectors
<1>2. v \div Ratio < shape.cores
  <2>1. shape.cores \in Nat
    BY <1>1
  <2> QED BY <2>1, <1>1, DivBelow
<1>3. v \div Ratio \in Nat
  BY <1>1, DivMod
<1> QED BY <1>1, <1>2, <1>3 DEF Cores

(* Every cube core has a vector core.                                      *)
LEMMA OwnVector ==
  ASSUME shape \in Shapes, NEW i \in Cores(shape)
  PROVE  i * Ratio \in Vectors(shape) /\ (i * Ratio) \div Ratio = i
<1>1. i \in Nat /\ i < shape.cores /\ shape.cores \in Nat \ {0} /\ Ratio \in Nat \ {0}
  BY LaunchShape DEF Cores
<1> DEFINE v == i * Ratio
<1>2. v \in Nat /\ v = (Ratio * i) + 0 /\ 0 \in 0 .. Ratio - 1
  BY <1>1
<1>3. v + Ratio <= shape.cores * Ratio
  BY <1>1, MulBelow
<1>4. v \in Vectors(shape)
  <2> HIDE DEF v
  <2> QED BY <1>1, <1>2, <1>3 DEF Vectors
<1>5. v \div Ratio = i
  <2> HIDE DEF v
  <2> QED BY <1>1, <1>2, DivModUnique
<1> QED BY <1>4, <1>5

(* A tile number of core i, and its place in the loop of that core.        *)
LEMMA TileOfCore ==
  ASSUME shape \in Shapes, NEW t \in 0 .. TileNum(shape) - 1
  PROVE  /\ t % shape.cores \in Cores(shape)
         /\ t \in TilesOf(shape, t % shape.cores)
         /\ TileAt(shape, t) \in 0 .. TileNum(shape) - 1
         /\ TileAt(shape, t) \in Nat
         /\ TileAt(shape, t) % shape.cores = t % shape.cores
         /\ TileAt(shape, TileAt(shape, t)) = t
<1>1. /\ shape \in ShapeRecords /\ HostAllows(shape)
      /\ shape.cores \in Nat \ {0} /\ TileNum(shape) \in Nat /\ t \in Nat
  BY LaunchShape
<1>2. (t % shape.cores) \in 0 .. shape.cores - 1
  BY <1>1, DivMod
<1>3. /\ TileAt(shape, t) \in 0 .. TileNum(shape) - 1
      /\ TileAt(shape, t) % shape.cores = t % shape.cores
      /\ TileAt(shape, TileAt(shape, t)) = t
  BY <1>1, PreloadExchanges
<1> QED BY <1>1, <1>2, <1>3 DEF Cores, TilesOf

(* The steps of a cube core move nobody else.                              *)
LEMMA GotoMoves ==
  ASSUME TypeOK, NEW i \in Cores(shape), NEW pc \in CubeSteps, CubeGoto(i, pc)
  PROVE  MovesTo(i, cube[i].at, pc)
BY DEF TypeOK, CubeGoto, MovesTo, CubeStates, CubeSteps

LEMMA OnwardMoves ==
  ASSUME TypeOK, NEW i \in Cores(shape), cube' = [cube EXCEPT ![i] = Onward(i)]
  PROVE  MovesTo(i, cube[i].at + shape.cores,
                 IF cube[i].at + shape.cores < TileNum(shape) THEN "tile" ELSE "done")
<1>1. shape.cores \in Nat
  BY LaunchShape DEF TypeOK
<1>2. Onward(i) \in CubeStates
  BY <1>1 DEF TypeOK, Onward, CubeStates, CubeSteps
<1> QED BY <1>2 DEF TypeOK, Onward, MovesTo, CubeStates, CubeSteps

(* A core that is before its first tile has computed none.                 *)
LEMMA NothingAtStart ==
  ASSUME TypeOK, CubesInLoop, NEW i \in Cores(shape), cube[i].pc = "start",
         NEW t \in TilesOf(shape, i)
  PROVE  /\ ~Computed(t)
         /\ ~(TileAt(shape, t) < cube[i].at)
<1>1. shape \in Shapes /\ shape.cores \in Nat \ {0} /\ i \in Nat
  BY LaunchShape DEF TypeOK, Cores
<1>2. t \in 0 .. TileNum(shape) - 1 /\ t % shape.cores = i
  BY DEF TilesOf
<1>3. TileAt(shape, t) \in Nat /\ TileAt(shape, t) % shape.cores = i
  BY <1>1, <1>2, TileOfCore
<1>4. cube[i].at = i
  BY DEF CubesInLoop
<1>5. TileAt(shape, t) >= i
  <2> DEFINE a == TileAt(shape, t)
  <2>1. a = (shape.cores * (a \div shape.cores)) + (a % shape.cores) /\ a \div shape.cores \in Nat
    BY <1>1, <1>3, DivMod
  <2>2. a \in Nat /\ a % shape.cores = i
    BY <1>3
  <2> HIDE DEF a
  <2>3. shape.cores * (a \div shape.cores) \in Nat
    BY <2>1, <1>1
  <2>4. a >= i
    BY <2>1, <2>2, <2>3, <1>1
  <2> QED BY <2>4 DEF a
<1> QED BY <1>1, <1>2, <1>3, <1>4, <1>5 DEF Computed

-------------------------------------------------------------------------------
(* The loop of a cube core.                                                *)

(* Where a core may go without leaving its loop.                           *)
LEMMA LoopKept ==
  ASSUME TypeOK, CubesInLoop, shape' = shape, NEW i \in Cores(shape),
         NEW at \in Nat, NEW pc \in CubeSteps, MovesTo(i, at, pc),
         at % shape.cores = i, pc # "start",
         pc \in {"tile", "flags"} => at < TileNum(shape),
         pc = "flags" => IsLast(shape, TileAt(shape, at)),
         pc = "done" => at >= TileNum(shape)
  PROVE  CubesInLoop'
<1> SUFFICES ASSUME NEW j \in Cores(shape)
             PROVE  /\ cube'[j].at % shape.cores = j
                    /\ cube'[j].pc = "start" => cube'[j].at = j
                    /\ cube'[j].pc \in {"tile", "flags"} => cube'[j].at < TileNum(shape)
                    /\ cube'[j].pc = "flags" => IsLast(shape, TileAt(shape, cube'[j].at))
                    /\ cube'[j].pc = "done" => cube'[j].at >= TileNum(shape)
  BY Zenon DEF CubesInLoop, MyTile
<1>1. CASE j = i
  BY <1>1 DEF MovesTo
<1>2. CASE j # i
  <2>1. cube'[j] = cube[j]
    BY <1>2 DEF MovesTo
  <2> QED BY <2>1 DEF CubesInLoop, MyTile
<1> QED BY <1>1, <1>2

(* The number a core in its loop is at, and the tile it computes there.    *)
LEMMA InLoop ==
  ASSUME TypeOK, CubesInLoop, NEW i \in Cores(shape), cube[i].pc \in {"tile", "flags"}
  PROVE  /\ shape \in Shapes /\ shape.cores \in Nat \ {0} /\ i \in Nat /\ i < BlockNum(shape)
         /\ cube[i].at \in 0 .. TileNum(shape) - 1 /\ cube[i].at % shape.cores = i
         /\ MyTile(i) \in 0 .. TileNum(shape) - 1
         /\ MyTile(i) \in TilesOf(shape, i)
         /\ MyTile(i) % shape.cores = i
         /\ TileAt(shape, MyTile(i)) = cube[i].at
<1>1. /\ shape \in Shapes /\ shape.cores \in Nat \ {0} /\ TileNum(shape) \in Nat
      /\ i \in Nat /\ i < shape.cores
  BY LaunchShape DEF TypeOK, Cores
<1>2. cube[i].at \in 0 .. TileNum(shape) - 1 /\ cube[i].at % shape.cores = i
  BY <1>1 DEF TypeOK, CubesInLoop
<1>3. /\ MyTile(i) \in 0 .. TileNum(shape) - 1
      /\ MyTile(i) % shape.cores = i
      /\ TileAt(shape, MyTile(i)) = cube[i].at
  BY <1>1, <1>2, TileOfCore DEF MyTile
<1>4. MyTile(i) \in TilesOf(shape, i)
  BY <1>3 DEF TilesOf
<1>5. i < TileNum(shape)
  <2> DEFINE a == cube[i].at
  <2>1. a \in Nat /\ a < TileNum(shape)
    BY <1>1, <1>2
  <2>2. /\ a = (shape.cores * (a \div shape.cores)) + (a % shape.cores)
        /\ a \div shape.cores \in Nat /\ a % shape.cores = i
    BY <2>1, <1>1, <1>2, DivMod
  <2> HIDE DEF a
  <2>3. shape.cores * (a \div shape.cores) \in Nat
    BY <2>2, <1>1
  <2> QED BY <2>1, <2>2, <2>3, <1>1
<1>6. i < BlockNum(shape)
  BY <1>1, <1>5 DEF BlockNum, Least
<1> QED BY <1>1, <1>2, <1>3, <1>4, <1>6

(* What a core computed before it moved on to its next number: all that it *)
(* had, and the tile at the number it comes from.                          *)
LEMMA NextNumber ==
  ASSUME TypeOK, CubesInLoop, NEW i \in Cores(shape), cube[i].pc \in {"tile", "flags"},
         NEW t \in TilesOf(shape, i)
  PROVE  /\ TileAt(shape, t) < cube[i].at + shape.cores
              <=> TileAt(shape, t) < cube[i].at \/ t = MyTile(i)
         /\ TileAt(shape, t) = cube[i].at <=> t = MyTile(i)
<1> DEFINE a == TileAt(shape, t)  b == cube[i].at  n == shape.cores
<1>1. /\ shape \in Shapes /\ n \in Nat \ {0} /\ b \in Nat /\ b % n = i
      /\ TileAt(shape, MyTile(i)) = b /\ MyTile(i) = TileAt(shape, b)
  <2>1. TileNum(shape) \in Nat
    BY LaunchShape DEF TypeOK
  <2> QED BY <2>1, InLoop DEF MyTile
<1>2. a \in Nat /\ a % n = i /\ TileAt(shape, a) = t
  BY <1>1, TileOfCore DEF TilesOf
<1>3. a = b <=> t = MyTile(i)
  BY <1>1, <1>2
<1> HIDE DEF a, b, n
<1>4. b < a => b + n <= a
  BY <1>1, <1>2, SameCore
<1>5. a < b + n <=> a < b \/ a = b
  BY <1>1, <1>2, <1>4
<1> QED BY <1>3, <1>5 DEF a, b, n

(* A cube core that is done with a tile has computed it, and told no one.  *)
LEMMA CubeTileComputes ==
  ASSUME TypeOK, CubesInLoop, NEW i \in Cores(shape), CubeTile(i)
  PROVE  /\ CubesInLoop'
         /\ cube' \in [Cores(shape) -> CubeStates]
         /\ \A t \in 0 .. TileNum(shape) - 1 : Computed(t)' <=> Computed(t) \/ t = MyTile(i)
         /\ \A j \in Cores(shape) : Told(j)' <=> Told(j)
<1> DEFINE n == shape.cores  at == cube[i].at  tile == MyTile(i)
<1>1. cube[i].pc = "tile" /\ shape' = shape
  BY DEF CubeTile
<1>2. /\ shape \in Shapes /\ n \in Nat \ {0} /\ i \in Nat /\ i < BlockNum(shape)
      /\ at \in 0 .. TileNum(shape) - 1 /\ at % n = i
      /\ tile \in 0 .. TileNum(shape) - 1 /\ tile % n = i /\ TileAt(shape, tile) = at
      /\ tile \in TilesOf(shape, i) /\ TileNum(shape) \in Nat
  BY <1>1, InLoop, LaunchShape
<1>3. CASE IsLast(shape, tile)
  <2>1. MovesTo(i, at, "flags")
    BY <1>3, GotoMoves DEF CubeTile, CubeSteps
  <2>2. CubesInLoop'
    <3>1. "flags" \in CubeSteps /\ "flags" # "start" /\ at \in Nat /\ at < TileNum(shape)
      BY <1>2 DEF CubeSteps
    <3> QED BY <3>1, <2>1, <1>1, <1>2, <1>3, LoopKept DEF MyTile
  <2>3. ASSUME NEW t \in 0 .. TileNum(shape) - 1
        PROVE  Computed(t)' <=> Computed(t) \/ t = tile
    <3>1. CASE t % n = i
      <4>1. t \in TilesOf(shape, i)
        BY <3>1 DEF TilesOf
      <4>2. Computed(t) <=> TileAt(shape, t) < at
        BY <3>1, <1>1 DEF Computed
      <4>3. Computed(t)' <=> TileAt(shape, t) < at \/ TileAt(shape, t) = at
        BY <3>1, <1>1, <2>1 DEF Computed, MovesTo
      <4> QED BY <4>1, <4>2, <4>3, <1>1, NextNumber
    <3>2. CASE t % n # i
      <4>1. t % n \in Cores(shape) \ {i}
        BY <3>2, <1>2, TileOfCore
      <4>2. cube'[t % n] = cube[t % n]
        BY <4>1, <2>1 DEF MovesTo
      <4> QED BY <4>2, <3>2, <1>1, <1>2 DEF Computed
    <3> QED BY <3>1, <3>2
  <2>4. ASSUME NEW j \in Cores(shape) PROVE Told(j)' <=> Told(j)
    <3>1. CASE j = i
      BY <3>1, <1>1, <1>2, <2>1 DEF Told, MovesTo
    <3>2. CASE j # i
      <4>1. cube'[j] = cube[j]
        BY <3>2, <2>1 DEF MovesTo
      <4> QED BY <4>1, <1>1 DEF Told
    <3> QED BY <3>1, <3>2
  <2> QED BY <2>1, <2>2, <2>3, <2>4 DEF MovesTo
<1>4. CASE ~IsLast(shape, tile)
  <2> DEFINE next == at + n  pc == IF next < TileNum(shape) THEN "tile" ELSE "done"
  <2>1. MovesTo(i, next, pc)
    BY <1>4, OnwardMoves DEF CubeTile
  <2>2. CubesInLoop'
    <3>1. next \in Nat /\ next % n = i
      <4>1. at \in Nat /\ n \in Nat \ {0}
        BY <1>2
      <4> HIDE DEF at, n
      <4>2. (at + n) % n = at % n
        BY <4>1, NextOfCore
      <4> QED BY <4>1, <4>2, <1>2
    <3>2. pc \in CubeSteps /\ pc # "start" /\ pc # "flags"
      BY DEF CubeSteps
    <3>3. (pc = "tile" => next < TileNum(shape)) /\ (pc = "done" => next >= TileNum(shape))
      BY <3>1, <1>2
    <3> HIDE DEF next, pc
    <3> QED BY <3>1, <3>2, <3>3, <2>1, <1>1, LoopKept
  <2>3. ASSUME NEW t \in 0 .. TileNum(shape) - 1
        PROVE  Computed(t)' <=> Computed(t) \/ t = tile
    <3>1. CASE t % n = i
      <4>1. t \in TilesOf(shape, i)
        BY <3>1 DEF TilesOf
      <4>2. Computed(t) <=> TileAt(shape, t) < at
        BY <3>1, <1>1 DEF Computed
      <4>3. Computed(t)' <=> TileAt(shape, t) < next
        BY <3>1, <1>1, <2>1 DEF Computed, MovesTo
      <4> QED BY <4>1, <4>2, <4>3, <1>1, NextNumber
    <3>2. CASE t % n # i
      <4>1. t % n \in Cores(shape) \ {i}
        BY <3>2, <1>2, TileOfCore
      <4>2. cube'[t % n] = cube[t % n]
        BY <4>1, <2>1 DEF MovesTo
      <4> QED BY <4>2, <3>2, <1>1, <1>2 DEF Computed
    <3> QED BY <3>1, <3>2
  <2>4. ASSUME NEW j \in Cores(shape) PROVE Told(j)' <=> Told(j)
    <3>1. CASE j = i
      <4>1. Told(i) <=> \E t \in TilesOf(shape, i) : IsLast(shape, t) /\ TileAt(shape, t) < at
        BY <1>2 DEF Told, BlockNum, Least
      <4>2. Told(i)' <=> \E t \in TilesOf(shape, i) : IsLast(shape, t) /\ TileAt(shape, t) < next
        BY <1>1, <1>2, <2>1 DEF Told, MovesTo, BlockNum, Least
      <4>3. ASSUME NEW t \in TilesOf(shape, i)
            PROVE  TileAt(shape, t) < next <=> TileAt(shape, t) < at \/ t = tile
        BY <1>1, NextNumber
      <4> HIDE DEF next, at
      <4> QED BY <4>1, <4>2, <4>3, <3>1, <1>4
    <3>2. CASE j # i
      <4>1. cube'[j] = cube[j]
        BY <3>2, <2>1 DEF MovesTo
      <4> QED BY <4>1, <1>1 DEF Told
    <3> QED BY <3>1, <3>2
  <2> QED BY <2>1, <2>2, <2>3, <2>4 DEF MovesTo
<1> QED BY <1>3, <1>4

(* A core without a tile tells its vector cores as it starts; one with a   *)
(* tile only enters its loop.                                              *)
LEMMA CubeStartTells ==
  ASSUME TypeOK, CubesInLoop, NEW i \in Cores(shape), CubeStart(i)
  PROVE  /\ CubesInLoop'
         /\ cube' \in [Cores(shape) -> CubeStates]
         /\ \A t \in 0 .. TileNum(shape) - 1 : Computed(t)' <=> Computed(t)
         /\ \A j \in Cores(shape) : Told(j)' <=> Told(j) \/ (j = i /\ i >= BlockNum(shape))
         /\ ~Told(i)
<1> DEFINE n == shape.cores  pc == IF i >= BlockNum(shape) THEN "done" ELSE "tile"
<1>1. cube[i].pc = "start" /\ shape' = shape
  BY DEF CubeStart
<1>2. /\ shape \in Shapes /\ n \in Nat \ {0} /\ TileNum(shape) \in Nat
      /\ i \in Nat /\ i < n /\ cube[i].at = i
  BY <1>1, LaunchShape DEF TypeOK, CubesInLoop, Cores
<1>3. MovesTo(i, i, pc)
  BY <1>2, GotoMoves DEF CubeStart, CubeSteps
<1>4. i >= BlockNum(shape) <=> i >= TileNum(shape)
  BY <1>2 DEF BlockNum, Least
<1>5. CubesInLoop'
  <2>1. i % n = i
    <3>1. i = (n * 0) + i /\ i \in 0 .. n - 1
      BY <1>2
    <3> QED BY <3>1, <1>2, DivModUnique
  <2>2. /\ pc \in CubeSteps /\ pc # "start" /\ pc # "flags"
        /\ pc = "tile" => i < TileNum(shape)
        /\ pc = "done" => i >= TileNum(shape)
    BY <1>4, <1>2 DEF CubeSteps
  <2> HIDE DEF pc
  <2> QED BY <2>1, <2>2, <1>1, <1>2, <1>3, LoopKept
<1>6. ASSUME NEW t \in 0 .. TileNum(shape) - 1
      PROVE  Computed(t)' <=> Computed(t)
  <2>1. CASE t % n = i
    <3>1. t \in TilesOf(shape, i)
      BY <2>1 DEF TilesOf
    <3>2. ~Computed(t) /\ ~(TileAt(shape, t) < i)
      BY <3>1, <1>1, <1>2, NothingAtStart
    <3>3. Computed(t)' <=> TileAt(shape, t) < i
      BY <2>1, <1>1, <1>3 DEF Computed, MovesTo
    <3> QED BY <3>2, <3>3
  <2>2. CASE t % n # i
    <3>1. t % n \in Cores(shape) \ {i}
      BY <2>2, <1>2, TileOfCore
    <3>2. cube'[t % n] = cube[t % n]
      BY <3>1, <1>3 DEF MovesTo
    <3> QED BY <3>2, <1>1 DEF Computed
  <2> QED BY <2>1, <2>2
<1>7. ASSUME NEW t \in TilesOf(shape, i) PROVE ~(TileAt(shape, t) < i)
  BY <1>1, <1>2, NothingAtStart
<1>8. ~Told(i)
  BY <1>1, <1>2, <1>7 DEF Told
<1>9. ASSUME NEW j \in Cores(shape)
      PROVE  Told(j)' <=> Told(j) \/ (j = i /\ i >= BlockNum(shape))
  <2>1. CASE j = i
    <3>1. CASE i >= BlockNum(shape)
      BY <2>1, <3>1, <1>1, <1>3 DEF Told, MovesTo
    <3>2. CASE ~(i >= BlockNum(shape))
      BY <2>1, <3>2, <1>1, <1>3, <1>7, <1>8 DEF Told, MovesTo
    <3> QED BY <3>1, <3>2
  <2>2. CASE j # i
    <3>1. cube'[j] = cube[j]
      BY <2>2, <1>3 DEF MovesTo
    <3> QED BY <3>1, <2>2, <1>1 DEF Told
  <2> QED BY <2>1, <2>2
<1> QED BY <1>3, <1>5, <1>6, <1>8, <1>9 DEF MovesTo

(* The flags behind its last tile are the only ones of a core with tiles.  *)
LEMMA CubeFlagsTells ==
  ASSUME TypeOK, CubesInLoop, NEW i \in Cores(shape), CubeFlags(i)
  PROVE  /\ CubesInLoop'
         /\ cube' \in [Cores(shape) -> CubeStates]
         /\ \A t \in 0 .. TileNum(shape) - 1 : Computed(t)' <=> Computed(t)
         /\ \A j \in Cores(shape) : Told(j)' <=> Told(j) \/ j = i
         /\ ~Told(i)
<1> DEFINE n == shape.cores  at == cube[i].at  tile == MyTile(i)
           next == at + n  pc == IF next < TileNum(shape) THEN "tile" ELSE "done"
<1>1. cube[i].pc = "flags" /\ shape' = shape
  BY DEF CubeFlags
<1>2. /\ shape \in Shapes /\ n \in Nat \ {0} /\ i \in Nat /\ i < BlockNum(shape)
      /\ at \in 0 .. TileNum(shape) - 1 /\ at % n = i
      /\ tile \in 0 .. TileNum(shape) - 1 /\ tile % n = i /\ TileAt(shape, tile) = at
      /\ tile \in TilesOf(shape, i) /\ TileNum(shape) \in Nat
  BY <1>1, InLoop, LaunchShape
<1>3. IsLast(shape, tile)
  BY <1>1 DEF CubesInLoop
<1>4. MovesTo(i, next, pc)
  BY OnwardMoves DEF CubeFlags
<1>5. CubesInLoop'
  <2>1. next \in Nat /\ next % n = i
    <3>1. at \in Nat /\ n \in Nat \ {0}
      BY <1>2
    <3> HIDE DEF at, n
    <3>2. (at + n) % n = at % n
      BY <3>1, NextOfCore
    <3> QED BY <3>1, <3>2, <1>2
  <2>2. pc \in CubeSteps /\ pc # "start" /\ pc # "flags"
    BY DEF CubeSteps
  <2>3. (pc = "tile" => next < TileNum(shape)) /\ (pc = "done" => next >= TileNum(shape))
    BY <2>1, <1>2
  <2> HIDE DEF next, pc
  <2> QED BY <2>1, <2>2, <2>3, <1>1, <1>4, LoopKept
<1>6. ASSUME NEW t \in TilesOf(shape, i)
      PROVE  /\ TileAt(shape, t) < next <=> TileAt(shape, t) < at \/ t = tile
             /\ TileAt(shape, t) = at <=> t = tile
  BY <1>1, NextNumber
<1>7. ASSUME NEW t \in 0 .. TileNum(shape) - 1
      PROVE  Computed(t)' <=> Computed(t)
  <2>1. CASE t % n = i
    <3>1. t \in TilesOf(shape, i)
      BY <2>1 DEF TilesOf
    <3>2. Computed(t) <=> TileAt(shape, t) < at \/ TileAt(shape, t) = at
      BY <2>1, <1>1 DEF Computed
    <3>3. Computed(t)' <=> TileAt(shape, t) < next
      BY <2>1, <1>1, <1>4 DEF Computed, MovesTo
    <3> QED BY <3>1, <3>2, <3>3, <1>6
  <2>2. CASE t % n # i
    <3>1. t % n \in Cores(shape) \ {i}
      BY <2>2, <1>2, TileOfCore
    <3>2. cube'[t % n] = cube[t % n]
      BY <3>1, <1>4 DEF MovesTo
    <3> QED BY <3>2, <1>1 DEF Computed
  <2> QED BY <2>1, <2>2
<1>8. Told(i) <=> \E t \in TilesOf(shape, i) : IsLast(shape, t) /\ TileAt(shape, t) < at
  BY <1>2 DEF Told, BlockNum, Least
<1>9. ~Told(i)
  <2>1. ASSUME NEW t \in TilesOf(shape, i), IsLast(shape, t), TileAt(shape, t) < at
        PROVE  FALSE
    <3>1. t \in 0 .. TileNum(shape) - 1 /\ t % n = i
      BY DEF TilesOf
    <3>2. t = tile
      BY <2>1, <3>1, <1>2, <1>3, LaunchShape, LastIsUnique
    <3> QED BY <2>1, <3>2, <1>2
  <2> QED BY <2>1, <1>8
<1>10. Told(i)'
  <2>1. TileAt(shape, tile) < next
    BY <1>2, <1>6
  <2>2. Told(i)' <=> \E t \in TilesOf(shape, i) : IsLast(shape, t) /\ TileAt(shape, t) < next
    BY <1>1, <1>2, <1>4 DEF Told, MovesTo, BlockNum, Least
  <2> QED BY <2>1, <2>2, <1>2, <1>3
<1>11. ASSUME NEW j \in Cores(shape), j # i PROVE Told(j)' <=> Told(j)
  <2>1. cube'[j] = cube[j]
    BY <1>11, <1>4 DEF MovesTo
  <2> QED BY <2>1, <1>1 DEF Told
<1> QED BY <1>4, <1>5, <1>7, <1>9, <1>10, <1>11 DEF MovesTo

-------------------------------------------------------------------------------
(* What a vector core adds up.                                             *)

(* When all chunks of the last round are in the workspace, the slots of a  *)
(* split tile hold every term of its product once.                         *)
LEMMA SumOfSlots ==
  ASSUME shape \in Shapes, WorkspaceTells, NEW v \in Vectors(shape), HasEpilogue(shape, v),
         \A w \in 0 .. (Tail(shape) * shape.sk) - 1 : Computed(DpTiles(shape) + w)
  PROVE  Sum(EpilogueSlots(shape, v)) = Product(EpilogueBlock(v))
<1> DEFINE sk == shape.sk  e == EpilogueTile(shape, v)  pos == EpiloguePosition(shape, v)
           W == EpilogueSlots(shape, v)  slot(k) == (e * sk) + k
<1>1. shape \in ShapeRecords /\ HostAllows(shape) /\ sk \in Nat \ {0} /\ Tail(shape) \in Nat
  BY LaunchShape, HostFacts
<1>2. e \in 0 .. Tail(shape) - 1 /\ e * sk \in Nat
  BY <1>1, EpilogueFacts
<1>3. ASSUME NEW k \in 0 .. sk - 1
      PROVE  workspace[slot(k)] = Once(ChunkTerms(pos, k))
  <2>1. /\ slot(k) \in 0 .. (Tail(shape) * sk) - 1
        /\ TilePosition(shape, DpTiles(shape) + slot(k)) = pos
        /\ KIdx(shape, DpTiles(shape) + slot(k)) = k
    BY <1>1, <1>2, ChunkOfTile DEF EpiloguePosition
  <2> HIDE DEF slot, pos
  <2>2. slot(k) \in Cores(shape) /\ slot(k) < Tail(shape) * shape.sk
    <3>1. Tail(shape) * shape.sk \in Nat
      BY <1>1, HostFacts
    <3> QED BY <2>1, <3>1, <1>1, ChunkOfCore
  <2>3. Computed(DpTiles(shape) + slot(k))
    BY <2>1
  <2> QED BY <2>1, <2>2, <2>3 DEF WorkspaceTells
<1>4. W = {slot(k) : k \in 0 .. sk - 1}
  BY DEF EpilogueSlots
<1> HIDE DEF W, pos
<1>5. ASSUME NEW k \in 0 .. sk - 1 PROVE DOMAIN workspace[slot(k)] = ChunkTerms(pos, k)
  BY <1>3 DEF Once
<1>6. \A k, j \in 0 .. sk - 1 : slot(k) = slot(j) => k = j
  <2> HIDE DEF e
  <2> QED BY <1>1, <1>2
<1>7. UNION {DOMAIN workspace[w] : w \in W} = Terms(pos)
  <2>1. ASSUME NEW x \in Terms(pos) PROVE \E k \in 0 .. sk - 1 : x \in ChunkTerms(pos, k)
    <3>1. PICK j \in Bias .. sk - 1 : x = <<pos, j>>
      BY DEF Terms
    <3>2. CASE j = Bias
      <4>1. 0 \in 0 .. sk - 1 /\ x \in ChunkTerms(pos, 0)
        BY <3>1, <3>2, <1>1 DEF ChunkTerms
      <4> QED BY <4>1
    <3>3. CASE j # Bias
      <4>1. j \in 0 .. sk - 1 /\ x \in ChunkTerms(pos, j)
        BY <3>1, <3>3, <1>1 DEF ChunkTerms, Bias
      <4> QED BY <4>1
    <3> QED BY <3>2, <3>3
  <2>2. ASSUME NEW k \in 0 .. sk - 1 PROVE ChunkTerms(pos, k) \subseteq Terms(pos)
    BY <1>1 DEF ChunkTerms, Terms, Bias
  <2> HIDE DEF slot
  <2> QED BY <2>1, <2>2, <1>4, <1>5
<1>8. ASSUME NEW x \in Terms(pos)
      PROVE  Cardinality({w \in W : x \in DOMAIN workspace[w]}) = 1
  <2>1. PICK j \in Bias .. sk - 1 : x = <<pos, j>>
    BY DEF Terms
  <2> DEFINE mine == IF j = Bias THEN 0 ELSE j
  <2>2. mine \in 0 .. sk - 1
    BY <1>1 DEF Bias
  <2>3. ASSUME NEW k \in 0 .. sk - 1 PROVE x \in ChunkTerms(pos, k) <=> k = mine
    BY <2>1, <1>1 DEF ChunkTerms, Bias
  <2> HIDE DEF mine, slot
  <2>4. {w \in W : x \in DOMAIN workspace[w]} = {slot(mine)}
    BY <2>2, <2>3, <1>4, <1>5, <1>6
  <2> QED BY <2>4, FS_Singleton
<1>9. Sum(W) = [x \in Terms(pos) |-> 1]
  BY <1>7, <1>8 DEF Sum
<1> QED BY <1>9 DEF Product, Once, EpilogueBlock, W, pos

(* No vector core is past the barrier before every chunk is in its slot.   *)
LEMMA BarrierPassed ==
  ASSUME shape \in Shapes, FlagsTell, flag \in [Vectors(shape) -> 0 .. 1],
         \A u \in Vectors(shape) : vector[u].pc # "wait",
         NEW w \in 0 .. (Tail(shape) * shape.sk) - 1
  PROVE  Computed(DpTiles(shape) + w)
<1> DEFINE t == DpTiles(shape) + w
<1>1. shape \in ShapeRecords /\ HostAllows(shape)
  BY LaunchShape
<1>2. /\ w \in Cores(shape) /\ w < BlockNum(shape) /\ t \in 0 .. TileNum(shape) - 1
      /\ t % shape.cores = w /\ IsLast(shape, t)
  BY <1>1, ChunkOfCore
<1> HIDE DEF t
<1>3. Told(w)
  <2> DEFINE u == w * Ratio
  <2>1. u \in Vectors(shape) /\ u \div Ratio = w
    BY <1>2, OwnVector
  <2> HIDE DEF u
  <2>2. flag[u] + 1 = IF Told(w) THEN 1 ELSE 0
    BY <2>1 DEF FlagsTell
  <2>3. flag[u] \in 0 .. 1
    BY <2>1
  <2> QED BY <2>2, <2>3
<1>4. PICK last \in TilesOf(shape, w) :
         IsLast(shape, last) /\ TileAt(shape, last) < cube[w].at
  <2>1. ~(w >= BlockNum(shape))
    BY <1>2, <1>1, HostFacts DEF BlockNum, Least, Cores
  <2> QED BY <2>1, <1>3 DEF Told
<1>5. last = t
  BY <1>1, <1>2, <1>4, LastIsUnique DEF TilesOf
<1> QED BY <1>2, <1>4, <1>5 DEF Computed, t

-------------------------------------------------------------------------------
(* The invariant.                                                          *)

(* Steps of vector cores leave what cube cores did as it is.               *)
LEMMA CubesStay ==
  ASSUME UNCHANGED <<shape, cube>>
  PROVE  /\ CubesInLoop' <=> CubesInLoop
         /\ \A t : Computed(t)' <=> Computed(t)
         /\ \A j : Told(j)' <=> Told(j)
BY DEF CubesInLoop, MyTile, Computed, Told

(* The workspace changes with the chunks that are computed only.           *)
LEMMA WorkspaceKept ==
  ASSUME WorkspaceTells, shape \in Shapes, UNCHANGED <<shape, workspace>>,
         \A t \in 0 .. TileNum(shape) - 1 :
            t >= DpTiles(shape) => (Computed(t)' <=> Computed(t))
  PROVE  WorkspaceTells'
<1>1. ASSUME NEW w \in Cores(shape), w < Tail(shape) * shape.sk
      PROVE  Computed(DpTiles(shape) + w)' <=> Computed(DpTiles(shape) + w)
  <2>1. /\ shape \in ShapeRecords /\ HostAllows(shape) /\ w \in Nat /\ DpTiles(shape) \in Nat
        /\ Tail(shape) * shape.sk \in Nat
    BY LaunchShape, HostFacts DEF Cores
  <2>2. w \in 0 .. (Tail(shape) * shape.sk) - 1
    BY <2>1, <1>1
  <2>3. DpTiles(shape) + w \in 0 .. TileNum(shape) - 1
    BY <2>1, <2>2, ChunkOfCore
  <2>4. DpTiles(shape) + w >= DpTiles(shape)
    BY <2>1
  <2> QED BY <2>3, <2>4
<1> SUFFICES ASSUME NEW w \in Cores(shape)
             PROVE  workspace[w] =
                      IF w < Tail(shape) * shape.sk /\ Computed(DpTiles(shape) + w)'
                        THEN Once(ChunkTerms(TilePosition(shape, DpTiles(shape) + w),
                                             KIdx(shape, DpTiles(shape) + w)))
                        ELSE Zero
  BY Zenon DEF WorkspaceTells
<1> QED BY <1>1 DEF WorkspaceTells

(* The output changes with the whole tiles and the sums that are done.     *)
LEMMA OutputKept ==
  ASSUME OutputTells, UNCHANGED <<shape, c>>,
         \A t \in 0 .. DpTiles(shape) - 1 : Computed(t)' <=> Computed(t),
         \A v \in Vectors(shape) :
            HasEpilogue(shape, v) => (vector'[v].pc = "done" <=> vector[v].pc = "done")
  PROVE  OutputTells'
<1>1. ASSUME NEW b \in Blocks PROVE Written(b)' <=> Written(b)
  BY DEF Written, EpilogueBlock
<1>2. Blocks' = Blocks /\ \A b \in Blocks : Product(b)' = Product(b)
  BY DEF Blocks, Product, Terms
<1> SUFFICES ASSUME NEW b \in Blocks
             PROVE  c[b] = IF Written(b)' THEN Product(b) ELSE Zero
  BY <1>2, Zenon DEF OutputTells, Zero
<1> QED BY <1>1 DEF OutputTells

(* The flags of a core arrive with all of its vector cores.                *)
LEMMA FlagsArrive ==
  ASSUME FlagsTell, shape \in Shapes, flag \in [Vectors(shape) -> 0 .. 1],
         NEW i \in Cores(shape), SetFlags(i), ~Told(i), UNCHANGED <<shape, vector>>,
         \A j \in Cores(shape) : Told(j)' <=> Told(j) \/ j = i
  PROVE  FlagsTell' /\ flag' \in [Vectors(shape) -> 0 .. 1]
<1> SUFFICES ASSUME NEW v \in Vectors(shape)
             PROVE  /\ flag'[v] + (IF vector[v].pc = "wait" THEN 0 ELSE 1)
                          = IF Told(v \div Ratio)' THEN 1 ELSE 0
                    /\ flag'[v] \in 0 .. 1
  BY DEF FlagsTell, SetFlags
<1>1. v \div Ratio \in Cores(shape)
  BY OwnCube
<1>2. flag[v] \in 0 .. 1
  OBVIOUS
<1>3. flag[v] + (IF vector[v].pc = "wait" THEN 0 ELSE 1) = IF Told(v \div Ratio) THEN 1 ELSE 0
  BY DEF FlagsTell
<1>4. flag'[v] = flag[v] + (IF v \div Ratio = i THEN 1 ELSE 0)
  BY DEF SetFlags
<1>5. CASE v \div Ratio = i
  BY <1>1, <1>2, <1>3, <1>4, <1>5
<1>6. CASE v \div Ratio # i
  BY <1>1, <1>2, <1>3, <1>4, <1>6
<1> QED BY <1>5, <1>6

(* Nothing the vector cores do: their part of the invariant stays.         *)
LEMMA FlagsKept ==
  ASSUME FlagsTell, shape \in Shapes, UNCHANGED <<shape, flag, vector>>,
         \A j \in Cores(shape) : Told(j)' <=> Told(j)
  PROVE  FlagsTell'
<1> SUFFICES ASSUME NEW v \in Vectors(shape)
             PROVE  flag[v] + (IF vector[v].pc = "wait" THEN 0 ELSE 1)
                          = IF Told(v \div Ratio)' THEN 1 ELSE 0
  BY Zenon DEF FlagsTell
<1>1. v \div Ratio \in Cores(shape)
  BY OwnCube
<1> QED BY <1>1 DEF FlagsTell

LEMMA VectorsKept ==
  ASSUME VectorsInStep, UNCHANGED <<shape, vector>>
  PROVE  VectorsInStep'
BY DEF VectorsInStep, EpilogueBlock, Product, Terms

LEMMA InitInv == Init => IInv
<1> SUFFICES ASSUME Init PROVE IInv
  OBVIOUS
<1> USE DEF Init
<1>1. shape \in Shapes /\ shape.cores \in Nat \ {0} /\ TileNum(shape) \in Nat
      /\ shape \in ShapeRecords /\ HostAllows(shape)
  BY LaunchShape
<1>2. TypeOK
  BY <1>1 DEF TypeOK, Cores
<1>3. CubesInLoop
  <2> SUFFICES ASSUME NEW i \in Cores(shape) PROVE i % shape.cores = i
    BY DEF CubesInLoop
  <2>1. /\ i \in Nat /\ 0 \in Nat /\ i \in 0 .. shape.cores - 1
        /\ i = (shape.cores * 0) + i
    BY <1>1 DEF Cores
  <2> QED BY <2>1, <1>1, DivModUnique
<1>4. ASSUME NEW t \in 0 .. TileNum(shape) - 1 PROVE ~Computed(t)
  <2>1. t % shape.cores \in Cores(shape) /\ t \in TilesOf(shape, t % shape.cores)
    BY <1>1, TileOfCore
  <2> QED BY <2>1, <1>2, <1>3, NothingAtStart
<1>5. ASSUME NEW i \in Cores(shape) PROVE ~Told(i)
  <2>1. ASSUME NEW t \in TilesOf(shape, i) PROVE ~(TileAt(shape, t) < i)
    BY <2>1, <1>2, <1>3, NothingAtStart
  <2> QED BY <2>1 DEF Told
<1>6. WorkspaceTells
  <2> SUFFICES ASSUME NEW w \in Cores(shape), w < Tail(shape) * shape.sk
               PROVE  ~Computed(DpTiles(shape) + w)
    BY DEF WorkspaceTells
  <2>1. Tail(shape) * shape.sk \in Nat /\ w \in Nat
    BY <1>1, LaunchShape DEF Cores
  <2>2. w \in 0 .. (Tail(shape) * shape.sk) - 1
    BY <2>1
  <2> QED BY <2>2, <1>1, <1>4, ChunkOfCore
<1>7. FlagsTell
  BY <1>1, <1>5, OwnCube DEF FlagsTell
<1>8. VectorsInStep
  BY DEF VectorsInStep
<1>9. OutputTells
  <2> SUFFICES ASSUME NEW b \in Blocks PROVE ~Written(b)
    BY DEF OutputTells
  <2>1. ASSUME NEW t \in 0 .. DpTiles(shape) - 1 PROVE ~Computed(t)
    <3>1. t \in 0 .. TileNum(shape) - 1
      BY <1>1, HostFacts
    <3> QED BY <3>1, <1>4
  <2> QED BY <2>1 DEF Written
<1> QED BY <1>2, <1>3, <1>6, <1>7, <1>8, <1>9 DEF IInv

(* The types of what the steps change.                                     *)
LEMMA TypeKept ==
  ASSUME TypeOK, shape' = shape, cube' \in [Cores(shape) -> CubeStates],
         DOMAIN vector' = Vectors(shape),
         \A v \in Vectors(shape) : vector'[v].pc \in {"wait", "sync", "load", "store", "done"},
         flag' \in [Vectors(shape) -> 0 .. 1],
         DOMAIN workspace' = Cores(shape), DOMAIN c' = Blocks
  PROVE  TypeOK'
<1>1. Blocks' = Blocks
  BY DEF Blocks
<1> QED BY <1>1 DEF TypeOK, CubeStates, CubeSteps

LEMMA CubeStartInv ==
  ASSUME IInv, NEW i \in Cores(shape), CubeStart(i)
  PROVE  IInv'
<1>1. TypeOK /\ CubesInLoop /\ WorkspaceTells /\ FlagsTell /\ VectorsInStep /\ OutputTells
  BY DEF IInv
<1>2. /\ shape \in Shapes /\ flag \in [Vectors(shape) -> 0 .. 1]
      /\ shape \in ShapeRecords /\ HostAllows(shape)
  BY <1>1, LaunchShape DEF TypeOK
<1>3. UNCHANGED <<shape, vector, workspace, c>>
  BY DEF CubeStart
<1>4. /\ CubesInLoop'
      /\ cube' \in [Cores(shape) -> CubeStates]
      /\ \A t \in 0 .. TileNum(shape) - 1 : Computed(t)' <=> Computed(t)
      /\ \A j \in Cores(shape) : Told(j)' <=> Told(j) \/ (j = i /\ i >= BlockNum(shape))
      /\ ~Told(i)
  BY <1>1, CubeStartTells
<1>5. FlagsTell' /\ flag' \in [Vectors(shape) -> 0 .. 1]
  <2>1. CASE i >= BlockNum(shape)
    BY <2>1, <1>1, <1>2, <1>3, <1>4, FlagsArrive DEF CubeStart
  <2>2. CASE ~(i >= BlockNum(shape))
    <3>1. flag' = flag
      BY <2>2 DEF CubeStart
    <3> QED BY <3>1, <2>2, <1>1, <1>2, <1>3, <1>4, FlagsKept
  <2> QED BY <2>1, <2>2
<1>6. TypeOK'
  BY <1>1, <1>3, <1>4, <1>5, TypeKept DEF TypeOK
<1>7. WorkspaceTells' /\ VectorsInStep'
  BY <1>1, <1>2, <1>3, <1>4, WorkspaceKept, VectorsKept
<1>8. OutputTells'
  <2>1. \A t \in 0 .. DpTiles(shape) - 1 : t \in 0 .. TileNum(shape) - 1
    BY <1>2, HostFacts
  <2> QED BY <2>1, <1>1, <1>3, <1>4, OutputKept
<1> QED BY <1>4, <1>5, <1>6, <1>7, <1>8 DEF IInv

LEMMA CubeFlagsInv ==
  ASSUME IInv, NEW i \in Cores(shape), CubeFlags(i)
  PROVE  IInv'
<1>1. TypeOK /\ CubesInLoop /\ WorkspaceTells /\ FlagsTell /\ VectorsInStep /\ OutputTells
  BY DEF IInv
<1>2. /\ shape \in Shapes /\ flag \in [Vectors(shape) -> 0 .. 1]
      /\ shape \in ShapeRecords /\ HostAllows(shape)
  BY <1>1, LaunchShape DEF TypeOK
<1>3. UNCHANGED <<shape, vector, workspace, c>> /\ SetFlags(i)
  BY DEF CubeFlags
<1>4. /\ CubesInLoop'
      /\ cube' \in [Cores(shape) -> CubeStates]
      /\ \A t \in 0 .. TileNum(shape) - 1 : Computed(t)' <=> Computed(t)
      /\ \A j \in Cores(shape) : Told(j)' <=> Told(j) \/ j = i
      /\ ~Told(i)
  BY <1>1, CubeFlagsTells
<1>5. FlagsTell' /\ flag' \in [Vectors(shape) -> 0 .. 1]
  BY <1>1, <1>2, <1>3, <1>4, FlagsArrive
<1>6. TypeOK'
  BY <1>1, <1>3, <1>4, <1>5, TypeKept DEF TypeOK
<1>7. WorkspaceTells' /\ VectorsInStep'
  BY <1>1, <1>2, <1>3, <1>4, WorkspaceKept, VectorsKept
<1>8. OutputTells'
  <2>1. \A t \in 0 .. DpTiles(shape) - 1 : t \in 0 .. TileNum(shape) - 1
    BY <1>2, HostFacts
  <2> QED BY <2>1, <1>1, <1>3, <1>4, OutputKept
<1> QED BY <1>4, <1>5, <1>6, <1>7, <1>8 DEF IInv

(* A chunk goes to the slot of its core, a whole tile to the output.       *)
LEMMA CubeTileInv ==
  ASSUME IInv, NEW i \in Cores(shape), CubeTile(i)
  PROVE  IInv'
<1>1. TypeOK /\ CubesInLoop /\ WorkspaceTells /\ FlagsTell /\ VectorsInStep /\ OutputTells
  BY DEF IInv
<1>2. /\ shape \in Shapes /\ flag \in [Vectors(shape) -> 0 .. 1]
      /\ shape \in ShapeRecords /\ HostAllows(shape)
  BY <1>1, LaunchShape DEF TypeOK
<1>3. UNCHANGED <<shape, vector, flag>>
  BY DEF CubeTile
<1>4. PICK t \in 0 .. TileNum(shape) - 1 : t = MyTile(i) /\ t % shape.cores = i
  BY <1>1, InLoop DEF CubeTile
<1>5. t \in Nat /\ DpTiles(shape) \in Nat
  BY <1>2, LaunchShape
<1>6. /\ CubesInLoop'
      /\ cube' \in [Cores(shape) -> CubeStates]
      /\ \A u \in 0 .. TileNum(shape) - 1 : Computed(u)' <=> Computed(u) \/ u = t
      /\ \A j \in Cores(shape) : Told(j)' <=> Told(j)
  BY <1>1, <1>4, CubeTileComputes
<1> DEFINE pos == TilePosition(shape, t)
<1>7. FlagsTell' /\ VectorsInStep'
  BY <1>1, <1>2, <1>3, <1>6, FlagsKept, VectorsKept
<1>8. CASE IsSk(shape, t)
  <2>1. t >= DpTiles(shape) /\ i = t - DpTiles(shape) /\ Slot(shape, t) = i
    BY <1>2, <1>4, <1>5, <1>8, Numbering, SlotIsCore
  <2>2. /\ workspace' = [workspace EXCEPT ![i] = Once(ChunkTerms(pos, KIdx(shape, t)))]
        /\ c' = c
    BY <1>4, <1>8, <2>1 DEF CubeTile
  <2>3. TypeOK'
    BY <1>1, <1>3, <1>6, <2>2, TypeKept DEF TypeOK
  <2>4. WorkspaceTells'
    <3> SUFFICES ASSUME NEW w \in Cores(shape)
                 PROVE  workspace'[w] =
                          IF w < Tail(shape) * shape.sk /\ Computed(DpTiles(shape) + w)'
                            THEN Once(ChunkTerms(TilePosition(shape, DpTiles(shape) + w),
                                                 KIdx(shape, DpTiles(shape) + w)))
                            ELSE Zero
      BY <1>3, Zenon DEF WorkspaceTells
    <3>1. w \in Nat /\ Tail(shape) * shape.sk \in Nat
      BY <1>2, HostFacts DEF Cores
    <3>2. w < Tail(shape) * shape.sk => DpTiles(shape) + w \in 0 .. TileNum(shape) - 1
      <4>1. w < Tail(shape) * shape.sk => w \in 0 .. (Tail(shape) * shape.sk) - 1
        BY <3>1
      <4> QED BY <4>1, <1>2, ChunkOfCore
    <3>3. CASE w = i
      <4>1. DpTiles(shape) + w = t /\ w < Tail(shape) * shape.sk
        BY <3>1, <3>3, <2>1, <1>5, <1>2, LaunchShape
      <4>2. Computed(DpTiles(shape) + w)'
        BY <4>1, <1>3, <1>6
      <4>3. workspace'[w] = Once(ChunkTerms(pos, KIdx(shape, t)))
        BY <3>3, <2>2, <1>1 DEF TypeOK
      <4> QED BY <4>1, <4>2, <4>3
    <3>4. CASE w # i
      <4>1. DpTiles(shape) + w # t
        BY <3>1, <3>4, <2>1, <1>5
      <4>2. workspace'[w] = workspace[w]
        BY <3>4, <2>2, <1>1 DEF TypeOK
      <4>3. w < Tail(shape) * shape.sk =>
              (Computed(DpTiles(shape) + w)' <=> Computed(DpTiles(shape) + w))
        BY <3>2, <4>1, <1>3, <1>6
      <4> QED BY <4>2, <4>3, <1>1 DEF WorkspaceTells
    <3> QED BY <3>3, <3>4
  <2>5. OutputTells'
    <3>1. ASSUME NEW u \in 0 .. DpTiles(shape) - 1 PROVE Computed(u)' <=> Computed(u)
      <4>1. u \in 0 .. TileNum(shape) - 1 /\ u # t
        BY <2>1, <1>2, <1>5, HostFacts
      <4> QED BY <4>1, <1>6
    <3> QED BY <3>1, <2>2, <1>1, <1>3, OutputKept
  <2> QED BY <2>3, <2>4, <2>5, <1>6, <1>7 DEF IInv
<1>9. CASE ~IsSk(shape, t)
  <2>1. t \in 0 .. DpTiles(shape) - 1
    BY <1>2, <1>5, <1>9, Numbering
  <2>2. /\ c' = [b \in Blocks |-> IF b[1] = pos THEN Product(b) ELSE c[b]]
        /\ workspace' = workspace
    BY <1>4, <1>9 DEF CubeTile
  <2>3. TypeOK'
    BY <1>1, <1>3, <1>6, <2>2, TypeKept DEF TypeOK
  <2>4. WorkspaceTells'
    <3>1. ASSUME NEW u \in 0 .. TileNum(shape) - 1, u >= DpTiles(shape)
          PROVE  Computed(u)' <=> Computed(u)
      BY <3>1, <2>1, <1>6, <1>5
    <3> QED BY <3>1, <2>2, <1>1, <1>2, <1>3, WorkspaceKept
  <2>5. OutputTells'
    <3>1. Blocks' = Blocks /\ \A b \in Blocks : Product(b)' = Product(b)
      BY <1>3 DEF Blocks, Product, Terms
    <3> SUFFICES ASSUME NEW b \in Blocks
                 PROVE  c'[b] = IF Written(b)' THEN Product(b) ELSE Zero
      BY <3>1, Zenon DEF OutputTells, Zero
    <3>2. \A u \in 0 .. DpTiles(shape) - 1 : u \in 0 .. TileNum(shape) - 1
      BY <1>2, HostFacts
    <3>3. CASE b[1] = pos
      <4>1. Computed(t)' /\ TilePosition(shape, t) = b[1]
        BY <3>3, <1>6
      <4>2. Written(b)'
        BY <4>1, <2>1, <1>3 DEF Written
      <4> QED BY <4>2, <3>3, <2>2
    <3>4. CASE b[1] # pos
      <4>1. ASSUME NEW u \in 0 .. DpTiles(shape) - 1, TilePosition(shape, u) = b[1]
            PROVE  Computed(u)' <=> Computed(u)
        BY <4>1, <3>2, <3>4, <1>6
      <4>2. Written(b)' <=> Written(b)
        BY <4>1, <1>3 DEF Written, EpilogueBlock
      <4> QED BY <4>2, <3>4, <2>2, <1>1 DEF OutputTells
    <3> QED BY <3>3, <3>4
  <2> QED BY <2>3, <2>4, <2>5, <1>6, <1>7 DEF IInv
<1> QED BY <1>8, <1>9

(* What the steps of vector core v do to the vector cores.                 *)
LEMMA VectorMoves ==
  ASSUME TypeOK, NEW v \in Vectors(shape), NEW pc, VectorGoto(v, pc)
  PROVE  /\ DOMAIN vector' = Vectors(shape)
         /\ vector'[v] = [vector[v] EXCEPT !.pc = pc]
         /\ \A u \in Vectors(shape) \ {v} : vector'[u] = vector[u]
BY DEF TypeOK, VectorGoto

LEMMA VectorWaitInv ==
  ASSUME IInv, NEW v \in Vectors(shape), VectorWait(v)
  PROVE  IInv'
<1>1. TypeOK /\ CubesInLoop /\ WorkspaceTells /\ FlagsTell /\ VectorsInStep /\ OutputTells
  BY DEF IInv
<1>2. shape \in Shapes /\ flag[v] \in 0 .. 1 /\ flag[v] > 0
  BY <1>1 DEF TypeOK, VectorWait
<1>3. /\ UNCHANGED <<shape, cube, workspace, c>> /\ vector[v].pc = "wait"
      /\ flag' = [flag EXCEPT ![v] = flag[v] - 1]
  BY DEF VectorWait
<1>4. /\ CubesInLoop' /\ \A t : Computed(t)' <=> Computed(t)
      /\ \A j : Told(j)' <=> Told(j)
  BY <1>1, <1>3, CubesStay
<1>5. /\ DOMAIN vector' = Vectors(shape) /\ vector'[v].pc = "sync"
      /\ \A u \in Vectors(shape) \ {v} : vector'[u] = vector[u]
  <2>1. VectorGoto(v, "sync")
    BY DEF VectorWait
  <2> QED BY <2>1, <1>1, VectorMoves DEF TypeOK, VectorGoto
<1>6. TypeOK'
  BY <1>1, <1>2, <1>3, <1>5 DEF TypeOK, Blocks
<1>7. WorkspaceTells' /\ OutputTells'
  BY <1>1, <1>2, <1>3, <1>4, <1>5, WorkspaceKept, OutputKept
<1>8. FlagsTell'
  <2> SUFFICES ASSUME NEW u \in Vectors(shape)
               PROVE  flag'[u] + (IF vector'[u].pc = "wait" THEN 0 ELSE 1)
                        = IF Told(u \div Ratio)' THEN 1 ELSE 0
    BY <1>3, Zenon DEF FlagsTell
  <2>1. flag[u] + (IF vector[u].pc = "wait" THEN 0 ELSE 1) = IF Told(u \div Ratio) THEN 1 ELSE 0
    BY <1>1 DEF FlagsTell
  <2>2. CASE u = v
    <3>1. flag[v] + 0 = IF Told(v \div Ratio) THEN 1 ELSE 0
      BY <2>1, <2>2, <1>3
    <3>2. flag'[v] + 1 = flag[v]
      BY <1>1, <1>2, <1>3 DEF TypeOK
    <3> QED BY <2>2, <3>1, <3>2, <1>2, <1>4, <1>5
  <2>3. CASE u # v
    BY <2>1, <2>3, <1>1, <1>3, <1>4, <1>5 DEF TypeOK
  <2> QED BY <2>2, <2>3
<1>9. VectorsInStep'
  <2>1. \A u \in Vectors(shape) : vector[u].pc \notin {"load", "store", "done"}
    BY <1>1, <1>3 DEF VectorsInStep
  <2>2. \A u \in Vectors(shape) : vector'[u].pc \notin {"load", "store", "done"}
    BY <2>1, <1>5
  <2> QED BY <2>2, <1>3 DEF VectorsInStep
<1> QED BY <1>4, <1>6, <1>7, <1>8, <1>9 DEF IInv

(* The flags of a core count again when it passes the barrier.             *)
LEMMA FlagsTaken ==
  ASSUME FlagsTell, UNCHANGED <<shape, flag>>, \A j : Told(j)' <=> Told(j),
         \A u \in Vectors(shape) : vector'[u].pc = "wait" <=> vector[u].pc = "wait"
  PROVE  FlagsTell'
<1> SUFFICES ASSUME NEW u \in Vectors(shape)
             PROVE  flag[u] + (IF vector'[u].pc = "wait" THEN 0 ELSE 1)
                      = IF Told(u \div Ratio)' THEN 1 ELSE 0
  BY Zenon DEF FlagsTell
<1> QED BY DEF FlagsTell

LEMMA VectorSyncInv ==
  ASSUME IInv, NEW v \in Vectors(shape), VectorSync(v)
  PROVE  IInv'
<1> DEFINE pc == IF HasEpilogue(shape, v) THEN "load" ELSE "done"
<1>1. TypeOK /\ CubesInLoop /\ WorkspaceTells /\ FlagsTell /\ VectorsInStep /\ OutputTells
  BY DEF IInv
<1>2. /\ UNCHANGED <<shape, cube, flag, workspace, c>> /\ vector[v].pc = "sync"
      /\ \A u \in Vectors(shape) : vector[u].pc # "wait"
      /\ shape \in Shapes
  BY <1>1 DEF VectorSync, TypeOK
<1>3. /\ CubesInLoop' /\ \A t : Computed(t)' <=> Computed(t)
      /\ \A j : Told(j)' <=> Told(j)
  BY <1>1, <1>2, CubesStay
<1>4. /\ DOMAIN vector' = Vectors(shape) /\ vector'[v].pc = pc
      /\ \A u \in Vectors(shape) \ {v} : vector'[u] = vector[u]
  <2>1. VectorGoto(v, pc)
    BY DEF VectorSync
  <2> HIDE DEF pc
  <2> QED BY <2>1, <1>1, VectorMoves DEF TypeOK, VectorGoto
<1>5. TypeOK'
  BY <1>1, <1>2, <1>4 DEF TypeOK, Blocks
<1>6. WorkspaceTells'
  BY <1>1, <1>2, <1>3, WorkspaceKept
<1>7. OutputTells'
  BY <1>1, <1>2, <1>3, <1>4, OutputKept
<1>8. FlagsTell'
  BY <1>1, <1>2, <1>3, <1>4, FlagsTaken
<1>9. VectorsInStep'
  <2> SUFFICES ASSUME NEW u \in Vectors(shape)
               PROVE  /\ \A w \in Vectors(shape) : vector'[w].pc # "wait"
                      /\ vector'[u].pc \in {"load", "store"} => HasEpilogue(shape, u)
                      /\ vector'[u].pc = "store" => vector'[u].ub = Product(EpilogueBlock(u))'
    BY <1>2, Zenon DEF VectorsInStep
  <2>1. Product(EpilogueBlock(u))' = Product(EpilogueBlock(u))
    BY <1>2 DEF Product, Terms, EpilogueBlock
  <2> QED BY <2>1, <1>1, <1>2, <1>4 DEF VectorsInStep
<1> QED BY <1>3, <1>5, <1>6, <1>7, <1>8, <1>9 DEF IInv

(* What is loaded is the complete product.                                 *)
LEMMA VectorLoadInv ==
  ASSUME IInv, NEW v \in Vectors(shape), VectorLoad(v)
  PROVE  IInv'
<1> DEFINE ub == Sum(EpilogueSlots(shape, v))
<1>1. TypeOK /\ CubesInLoop /\ WorkspaceTells /\ FlagsTell /\ VectorsInStep /\ OutputTells
  BY DEF IInv
<1>2. /\ UNCHANGED <<shape, cube, flag, workspace, c>> /\ vector[v].pc = "load"
      /\ shape \in Shapes /\ flag \in [Vectors(shape) -> 0 .. 1]
  BY <1>1 DEF VectorLoad, TypeOK
<1>3. /\ CubesInLoop' /\ \A t : Computed(t)' <=> Computed(t)
      /\ \A j : Told(j)' <=> Told(j)
  BY <1>1, <1>2, CubesStay
<1>4. /\ DOMAIN vector' = Vectors(shape) /\ vector'[v] = [pc |-> "store", ub |-> ub]
      /\ \A u \in Vectors(shape) \ {v} : vector'[u] = vector[u]
  <2> HIDE DEF ub
  <2> QED BY <1>1 DEF TypeOK, VectorLoad, ub
<1>5. HasEpilogue(shape, v) /\ \A u \in Vectors(shape) : vector[u].pc # "wait"
  BY <1>1, <1>2 DEF VectorsInStep
<1>6. ub = Product(EpilogueBlock(v))
  <2>1. \A w \in 0 .. (Tail(shape) * shape.sk) - 1 : Computed(DpTiles(shape) + w)
    BY <1>1, <1>2, <1>5, BarrierPassed
  <2> QED BY <2>1, <1>1, <1>2, <1>5, SumOfSlots
<1> HIDE DEF ub
<1>7. TypeOK'
  BY <1>1, <1>2, <1>4 DEF TypeOK, Blocks
<1>8. WorkspaceTells'
  BY <1>1, <1>2, <1>3, WorkspaceKept
<1>9. OutputTells'
  BY <1>1, <1>2, <1>3, <1>4, OutputKept
<1>10. FlagsTell'
  BY <1>1, <1>2, <1>3, <1>4, FlagsTaken
<1>11. VectorsInStep'
  <2> SUFFICES ASSUME NEW u \in Vectors(shape)
               PROVE  /\ \A w \in Vectors(shape) : vector'[w].pc # "wait"
                      /\ vector'[u].pc \in {"load", "store"} => HasEpilogue(shape, u)
                      /\ vector'[u].pc = "store" => vector'[u].ub = Product(EpilogueBlock(u))'
    BY <1>2, Zenon DEF VectorsInStep
  <2>1. Product(EpilogueBlock(u))' = Product(EpilogueBlock(u))
    BY <1>2 DEF Product, Terms, EpilogueBlock
  <2>2. CASE u = v
    BY <2>1, <2>2, <1>4, <1>5, <1>6
  <2>3. CASE u # v
    BY <2>1, <2>3, <1>1, <1>4, <1>5 DEF VectorsInStep
  <2> QED BY <2>2, <2>3, <1>4, <1>5
<1> QED BY <1>3, <1>7, <1>8, <1>9, <1>10, <1>11 DEF IInv

(* What is stored goes to the block of this vector core.                   *)
LEMMA VectorStoreInv ==
  ASSUME IInv, NEW v \in Vectors(shape), VectorStore(v)
  PROVE  IInv'
<1> DEFINE mine == <<EpiloguePosition(shape, v), EpiloguePart(shape, v)>>
<1>1. TypeOK /\ CubesInLoop /\ WorkspaceTells /\ FlagsTell /\ VectorsInStep /\ OutputTells
  BY DEF IInv
<1>2. /\ UNCHANGED <<shape, cube, flag, workspace>> /\ vector[v].pc = "store"
      /\ c' = [c EXCEPT ![mine] = vector[v].ub]
      /\ shape \in Shapes /\ DOMAIN c = Blocks
  BY <1>1 DEF VectorStore, TypeOK
<1>3. /\ CubesInLoop' /\ \A t : Computed(t)' <=> Computed(t)
      /\ \A j : Told(j)' <=> Told(j)
  BY <1>1, <1>2, CubesStay
<1>4. /\ DOMAIN vector' = Vectors(shape) /\ vector'[v].pc = "done"
      /\ \A u \in Vectors(shape) \ {v} : vector'[u] = vector[u]
  <2>1. VectorGoto(v, "done")
    BY DEF VectorStore
  <2> QED BY <2>1, <1>1, VectorMoves DEF TypeOK, VectorGoto
<1>5. /\ HasEpilogue(shape, v) /\ \A u \in Vectors(shape) : vector[u].pc # "wait"
      /\ mine = EpilogueBlock(v) /\ vector[v].ub = Product(mine)
  BY <1>1, <1>2 DEF VectorsInStep, EpilogueBlock
<1>6. TypeOK'
  BY <1>1, <1>2, <1>4 DEF TypeOK, Blocks
<1>7. WorkspaceTells'
  BY <1>1, <1>2, <1>3, WorkspaceKept
<1>8. FlagsTell'
  BY <1>1, <1>2, <1>3, <1>4, <1>5, FlagsTaken
<1>9. VectorsInStep'
  <2> SUFFICES ASSUME NEW u \in Vectors(shape)
               PROVE  /\ \A w \in Vectors(shape) : vector'[w].pc # "wait"
                      /\ vector'[u].pc \in {"load", "store"} => HasEpilogue(shape, u)
                      /\ vector'[u].pc = "store" => vector'[u].ub = Product(EpilogueBlock(u))'
    BY <1>2, Zenon DEF VectorsInStep
  <2>1. Product(EpilogueBlock(u))' = Product(EpilogueBlock(u))
    BY <1>2 DEF Product, Terms, EpilogueBlock
  <2> QED BY <2>1, <1>1, <1>4, <1>5 DEF VectorsInStep
<1>10. OutputTells'
  <2>1. Blocks' = Blocks /\ \A b \in Blocks : Product(b)' = Product(b)
    BY <1>2 DEF Blocks, Product, Terms
  <2> SUFFICES ASSUME NEW b \in Blocks
               PROVE  c'[b] = IF Written(b)' THEN Product(b) ELSE Zero
    BY <2>1, Zenon DEF OutputTells, Zero
  <2>2. CASE b = mine
    <3>1. Written(b)'
      BY <2>2, <1>2, <1>4, <1>5 DEF Written, EpilogueBlock
    <3> HIDE DEF mine
    <3>2. c'[b] = Product(b)
      BY <2>2, <1>2, <1>5
    <3> QED BY <3>1, <3>2
  <2>3. CASE b # mine
    <3>1. Written(b)' <=> Written(b)
      <4>1. (\E t \in 0 .. DpTiles(shape) - 1 : Computed(t) /\ TilePosition(shape, t) = b[1])'
              <=> \E t \in 0 .. DpTiles(shape) - 1 : Computed(t) /\ TilePosition(shape, t) = b[1]
        BY <1>2, <1>3
      <4>2. ASSUME NEW u \in Vectors(shape), EpilogueBlock(u) = b
            PROVE  vector'[u] = vector[u]
        <5>1. u # v
          BY <4>2, <2>3, <1>5
        <5> QED BY <5>1, <1>4
      <4>3. (\E u \in Vectors(shape) :
               HasEpilogue(shape, u) /\ EpilogueBlock(u) = b /\ vector[u].pc = "done")'
              <=> \E u \in Vectors(shape) :
                    HasEpilogue(shape, u) /\ EpilogueBlock(u) = b /\ vector[u].pc = "done"
        BY <4>2, <1>2 DEF EpilogueBlock
      <4> QED BY <4>1, <4>3 DEF Written
    <3> HIDE DEF mine
    <3>2. c'[b] = c[b]
      BY <2>3, <1>2
    <3> QED BY <3>1, <3>2, <1>1 DEF OutputTells
  <2> QED BY <2>2, <2>3
<1> QED BY <1>3, <1>6, <1>7, <1>8, <1>9, <1>10 DEF IInv

LEMMA StepInv == IInv /\ [Next]_vars => IInv'
<1> SUFFICES ASSUME IInv, [Next]_vars PROVE IInv'
  OBVIOUS
<1>1. ASSUME NEW i \in Cores(shape), CubeStep(i) PROVE IInv'
  BY <1>1, CubeStartInv, CubeTileInv, CubeFlagsInv DEF CubeStep
<1>2. ASSUME NEW v \in Vectors(shape), VectorStep(v) PROVE IInv'
  BY <1>2, VectorWaitInv, VectorSyncInv, VectorLoadInv, VectorStoreInv DEF VectorStep
<1>3. CASE UNCHANGED vars
  <2>1. UNCHANGED <<shape, cube, vector, flag, workspace, c>>
    BY <1>3 DEF vars
  <2>2. TypeOK' <=> TypeOK
    BY <2>1 DEF TypeOK, Blocks
  <2>3. /\ CubesInLoop' <=> CubesInLoop
        /\ \A t : Computed(t)' <=> Computed(t)
        /\ \A j : Told(j)' <=> Told(j)
    BY <2>1, CubesStay
  <2>4. /\ TypeOK /\ CubesInLoop /\ WorkspaceTells /\ FlagsTell /\ VectorsInStep /\ OutputTells
        /\ shape \in Shapes
    BY DEF IInv, TypeOK
  <2>5. WorkspaceTells' /\ FlagsTell' /\ VectorsInStep'
    BY <2>1, <2>3, <2>4, WorkspaceKept, FlagsKept, VectorsKept
  <2>6. OutputTells'
    BY <2>1, <2>3, <2>4, OutputKept
  <2> QED BY <2>2, <2>3, <2>4, <2>5, <2>6 DEF IInv
<1> QED BY <1>1, <1>2, <1>3 DEF Next

(* At every moment of a launch, what lies in the workspace, in the flags   *)
(* and in the output is determined by how far the cores have come.         *)
THEOREM Invariance == Spec => []IInv
<1>1. Init => IInv
  BY InitInv
<1>2. IInv /\ [Next]_vars => IInv'
  BY StepInv
<1> QED BY <1>1, <1>2, PTL DEF Spec

(* Flags never exceed one, and cores are where the code can be.            *)
THEOREM TypeCorrect == Spec => []TypeOK
<1>1. IInv => TypeOK
  BY DEF IInv
<1> QED BY <1>1, Invariance, PTL

(* No flag is left over when the launch ends.                              *)
THEOREM NoFlagLeft == Spec => []FlagsBalanced
<1>1. IInv => FlagsBalanced
  <2> SUFFICES ASSUME IInv, Finished, NEW v \in Vectors(shape) PROVE flag[v] = 0
    BY DEF FlagsBalanced
  <2>1. flag[v] \in 0 .. 1
    BY DEF IInv, TypeOK
  <2>2. flag[v] + 1 = IF Told(v \div Ratio) THEN 1 ELSE 0
    BY DEF IInv, FlagsTell, Finished
  <2> QED BY <2>1, <2>2
<1> QED BY <1>1, Invariance, PTL

(* A core that is about to compute a tile has not computed it before.      *)
LEMMA NotYetComputed ==
  ASSUME IInv, NEW i \in Cores(shape), CubeTile(i)
  PROVE  ~Computed(MyTile(i))
<1>1. TypeOK /\ CubesInLoop /\ cube[i].pc = "tile"
  BY DEF IInv, CubeTile
<1>2. MyTile(i) % shape.cores = i /\ TileAt(shape, MyTile(i)) = cube[i].at /\ cube[i].at \in Nat
  BY <1>1, InLoop DEF TypeOK
<1> QED BY <1>1, <1>2 DEF Computed

(* A chunk in the workspace is never overwritten in the same launch.       *)
THEOREM SlotsOnce == Spec => SlotsWrittenOnce
<1> DEFINE A == \A w \in DOMAIN workspace : workspace[w] # Zero => workspace'[w] = workspace[w]
<1>1. IInv /\ [Next]_vars => [A]_workspace
  <2> SUFFICES ASSUME IInv, [Next]_vars, workspace' # workspace PROVE A
    OBVIOUS
  <2>1. PICK i \in Cores(shape) : CubeTile(i)
    BY DEF Next, CubeStep, VectorStep, CubeStart, CubeFlags, VectorWait, VectorSync, VectorLoad,
           VectorStore, vars
  <2>2. /\ TypeOK /\ CubesInLoop /\ WorkspaceTells /\ shape \in Shapes
        /\ shape \in ShapeRecords /\ HostAllows(shape)
    BY LaunchShape DEF IInv, TypeOK
  <2>3. PICK t \in 0 .. TileNum(shape) - 1 : t = MyTile(i)
    BY <2>1, <2>2, InLoop DEF CubeTile
  <2>4. IsSk(shape, t)
    BY <2>1, <2>3 DEF CubeTile
  <2>5. t >= DpTiles(shape) /\ Slot(shape, t) = t - DpTiles(shape) /\ Slot(shape, t) = t % shape.cores
    BY <2>2, <2>4, Numbering, SlotIsCore
  <2>6. Slot(shape, t) \in Cores(shape) /\ DpTiles(shape) + Slot(shape, t) = t
    BY <2>2, <2>5, TileOfCore, LaunchShape
  <2>7. ~Computed(t)
    BY <2>1, <2>3, NotYetComputed
  <2>8. workspace[Slot(shape, t)] = Zero
    BY <2>2, <2>6, <2>7 DEF WorkspaceTells
  <2>9. workspace' = [workspace EXCEPT ![Slot(shape, t)] =
                        Once(ChunkTerms(TilePosition(shape, t), KIdx(shape, t)))]
    BY <2>1, <2>3, <2>4 DEF CubeTile
  <2> QED BY <2>8, <2>9
<1> QED BY <1>1, Invariance, PTL DEF Spec, SlotsWrittenOnce

(* Every part of the output is written once, whole: the cores of a launch, *)
(* however many, in whatever order, do no more and no less than a matmul.  *)
THEOREM Refinement == Spec => ImplementsMatmul
<1>1. Init => Matmul!Init
  BY DEF Init, Matmul!Init
<1>2. IInv /\ [Next]_vars => [Matmul!Next]_(Matmul!vars)
  <2> SUFFICES ASSUME IInv, [Next]_vars
               PROVE  Matmul!Next \/ UNCHANGED Matmul!vars
    OBVIOUS
  <2>1. /\ DOMAIN c = Blocks
        /\ \A b \in Blocks : c[b] = Zero \/ c[b] = Product(b)
    BY DEF IInv, TypeOK, OutputTells
  <2>2. shape' = shape
    BY DEF Next, CubeStep, VectorStep, CubeStart, CubeTile, CubeFlags, VectorWait, VectorSync,
           VectorLoad, VectorStore, vars
  <2>3. UNCHANGED [b \in Blocks |-> Product(b)]
    BY <2>2 DEF Blocks, Product, Terms
  <2>4. ASSUME DOMAIN c' = DOMAIN c,
               \A b \in Blocks : c'[b] = c[b] \/ c'[b] = Product(b)
        PROVE  Matmul!Next
    BY <2>1, <2>3, <2>4 DEF Matmul!Next
  <2>5. CASE c' = c
    BY <2>3, <2>5 DEF Matmul!vars
  <2>6. CASE \E i \in Cores(shape) : CubeTile(i)
    <3>1. PICK i \in Cores(shape) : CubeTile(i)
      BY <2>6
    <3> DEFINE pos == TilePosition(shape, MyTile(i))
    <3>2. CASE c' = [b \in Blocks |-> IF b[1] = pos THEN Product(b) ELSE c[b]]
      BY <3>2, <2>1, <2>4
    <3>3. CASE c' = c
      BY <3>3, <2>5
    <3> QED BY <3>1, <3>2, <3>3 DEF CubeTile
  <2>7. CASE \E v \in Vectors(shape) : VectorStore(v)
    <3>1. PICK v \in Vectors(shape) : VectorStore(v)
      BY <2>7
    <3>2. vector[v].ub = Product(EpilogueBlock(v))
      BY <3>1 DEF IInv, VectorsInStep, VectorStore
    <3>3. c' = [c EXCEPT ![EpilogueBlock(v)] = Product(EpilogueBlock(v))]
      BY <3>1, <3>2 DEF VectorStore, EpilogueBlock
    <3> QED BY <3>3, <2>1, <2>4
  <2> QED BY <2>5, <2>6, <2>7 DEF Next, CubeStep, VectorStep, CubeStart, CubeFlags, VectorWait,
                                  VectorSync, VectorLoad, vars
<1> QED BY <1>1, <1>2, Invariance, PTL DEF Spec, ImplementsMatmul, Matmul!Spec

(* When every core has returned, every part of the output has been         *)
(* written, so that it holds the whole product: what Termination says of   *)
(* the end of a launch, without saying that it comes.                      *)
THEOREM Complete == Spec => []OutputComplete
<1>1. IInv => OutputComplete
  <2> SUFFICES ASSUME IInv, Finished, NEW b \in Blocks PROVE c[b] = Product(b)
    BY DEF OutputComplete
  <2>1. /\ TypeOK /\ CubesInLoop /\ OutputTells /\ shape \in Shapes
        /\ shape \in ShapeRecords /\ HostAllows(shape)
    BY LaunchShape DEF IInv, TypeOK
  <2>2. PICK pos \in Positions(shape), part \in Parts(shape) : b = <<pos, part>>
    BY DEF Blocks
  <2>3. PICK j \in 0 .. (shape.m * shape.n) - 1 : Position(shape, j) = pos
    BY <2>1, WalkOnto
  <2>4. DpTiles(shape) \in Nat /\ shape.m * shape.n = DpTiles(shape) + Tail(shape)
        /\ Tail(shape) \in Nat /\ j \in Nat
    BY <2>1, HostFacts DEF MnTiles
  <2>5. CASE j < DpTiles(shape)
    <3>1. j \in 0 .. DpTiles(shape) - 1 /\ j \in 0 .. TileNum(shape) - 1
      BY <2>1, <2>4, <2>5, LaunchShape
    <3>2. ~IsSk(shape, j)
      BY <2>1, <2>4, <2>5, <3>1, Numbering
    <3>3. TilePosition(shape, j) = pos
      BY <2>3, <3>2 DEF TilePosition, MnIdx
    <3>4. Computed(j)
      <4>1. /\ j % shape.cores \in Cores(shape)
            /\ TileAt(shape, j) \in 0 .. TileNum(shape) - 1
        BY <2>1, <3>1, TileOfCore
      <4>2. cube[j % shape.cores].at >= TileNum(shape)
        BY <4>1, <2>1 DEF Finished, CubesInLoop
      <4>3. cube[j % shape.cores].at \in Nat /\ TileNum(shape) \in Nat
        BY <4>1, <2>1, LaunchShape DEF TypeOK
      <4> QED BY <4>1, <4>2, <4>3 DEF Computed
    <3>5. Written(b)
      BY <2>2, <3>1, <3>3, <3>4 DEF Written
    <3> QED BY <2>1, <3>5 DEF OutputTells
  <2>6. CASE ~(j < DpTiles(shape))
    <3> DEFINE e == j - DpTiles(shape)
    <3>1. e \in 0 .. Tail(shape) - 1 /\ e + DpTiles(shape) = j
      BY <2>4, <2>6
    <3> HIDE DEF e
    <3>2. PICK v \in Vectors(shape) : /\ HasEpilogue(shape, v)
                                      /\ EpiloguePosition(shape, v) = Position(shape, e + DpTiles(shape))
                                      /\ EpiloguePart(shape, v) = part
      BY <2>1, <3>1, EpilogueOnto
    <3>3. EpilogueBlock(v) = b /\ vector[v].pc = "done"
      BY <2>2, <2>3, <3>1, <3>2 DEF EpilogueBlock, Finished
    <3>4. Written(b)
      BY <3>2, <3>3 DEF Written
    <3> QED BY <2>1, <3>4 DEF OutputTells
  <2> QED BY <2>5, <2>6
<1> QED BY <1>1, Invariance, PTL
===============================================================================
