--------------------------- MODULE MCSchedules_proofs ---------------------------
(***************************************************************************)
(* What holds of the schedules of MCSchedules whatever the sizes: of the   *)
(* Stream-K schedule for every shape the host allows (by the theorems of   *)
(* StreamKSchedule_proofs); of the blocks of k and the slices of split k;  *)
(* of the groups, the halves and the batch offsets of a per-tile matmul;   *)
(* of the base blocks and the last round of an ASWT launch. How the        *)
(* schedules share the output out is left to MCSchedulesCover_proofs.      *)
(***************************************************************************)
EXTENDS MCSchedules, FiniteSetTheorems, WellFoundedInduction, TLAPS

SKP == INSTANCE StreamKSchedule_proofs

-------------------------------------------------------------------------------
(* The schedules state the same in this module and where they are proved.  *)

LEMMA SameShapes ==
  ASSUME NEW s
  PROVE  /\ STREAMK!ShapeRecords = SKP!ShapeRecords
         /\ STREAMK!HostAllows(s) = SKP!HostAllows(s)
BY DEF STREAMK!ShapeRecords, SKP!ShapeRecords, STREAMK!HostAllows, SKP!HostAllows,
       STREAMK!SkOnly, SKP!SkOnly, STREAMK!DpAndSk, SKP!DpAndSk

LEMMA SamePreload ==
  ASSUME NEW s
  PROVE  STREAMK!PreloadPermutes(s) = SKP!PreloadPermutes(s)
BY DEF SKP!PreloadPermutes, STREAMK!PreloadPermutes, SKP!Cores, STREAMK!Cores,
  SKP!TilesOf, STREAMK!TilesOf, SKP!TileAt, STREAMK!TileAt,
  SKP!IsLast, STREAMK!IsLast, SKP!IsSk, STREAMK!IsSk, SKP!HasChunk, STREAMK!HasChunk,
  SKP!Rounds, STREAMK!Rounds, SKP!TileNum, STREAMK!TileNum, SKP!Tail, STREAMK!Tail,
  SKP!DpTiles, STREAMK!DpTiles, SKP!MnTiles, STREAMK!MnTiles, SKP!CeilDiv, STREAMK!CeilDiv,
  SKP!Cardinality, STREAMK!Cardinality

LEMMA SameChunks ==
  ASSUME NEW s
  PROVE  STREAMK!CoversEveryChunkOnce(s) = SKP!CoversEveryChunkOnce(s)
BY DEF SKP!CoversEveryChunkOnce, STREAMK!CoversEveryChunkOnce,
  SKP!TilePosition, STREAMK!TilePosition, SKP!MnIdx, STREAMK!MnIdx, SKP!KIdx, STREAMK!KIdx,
  SKP!Position, STREAMK!Position, SKP!Positions, STREAMK!Positions,
  SKP!Least, STREAMK!Least, SKP!WINDOW_LEN, STREAMK!WINDOW_LEN,
  SKP!IsSk, STREAMK!IsSk, SKP!TileNum, STREAMK!TileNum, SKP!Tail, STREAMK!Tail,
  SKP!DpTiles, STREAMK!DpTiles, SKP!MnTiles, STREAMK!MnTiles, SKP!CeilDiv, STREAMK!CeilDiv,
  SKP!Cardinality, STREAMK!Cardinality

LEMMA SameSlots ==
  ASSUME NEW s
  PROVE  STREAMK!SlotsAgree(s) = SKP!SlotsAgree(s)
BY DEF SKP!SlotsAgree, STREAMK!SlotsAgree, SKP!Cores, STREAMK!Cores, SKP!Vectors, STREAMK!Vectors,
  SKP!Slot, STREAMK!Slot, SKP!HasEpilogue, STREAMK!HasEpilogue,
  SKP!EpilogueSlots, STREAMK!EpilogueSlots, SKP!EpilogueTile, STREAMK!EpilogueTile,
  SKP!EpiloguePosition, STREAMK!EpiloguePosition,
  SKP!TilePosition, STREAMK!TilePosition, SKP!MnIdx, STREAMK!MnIdx, SKP!KIdx, STREAMK!KIdx,
  SKP!Position, STREAMK!Position, SKP!Least, STREAMK!Least, SKP!WINDOW_LEN, STREAMK!WINDOW_LEN,
  SKP!IsSk, STREAMK!IsSk, SKP!TileNum, STREAMK!TileNum, SKP!Tail, STREAMK!Tail,
  SKP!DpTiles, STREAMK!DpTiles, SKP!MnTiles, STREAMK!MnTiles, SKP!CeilDiv, STREAMK!CeilDiv

(* The parts of a split tile are those of the instance with proofs.        *)
LEMMA SameRows ==
  ASSUME NEW s, NEW rows, NEW columns
  PROVE  STREAMK!PartsShareRows(s, rows, columns) = SKP!PartsShareRows(s, rows, columns)
BY DEF SKP!PartsShareRows, STREAMK!PartsShareRows, SKP!Parts, STREAMK!Parts,
  SKP!RowsOfPart, STREAMK!RowsOfPart, SKP!Burst, STREAMK!Burst,
  SKP!UB2GM_SRCGAP_UNIT, STREAMK!UB2GM_SRCGAP_UNIT, SKP!CeilDiv, STREAMK!CeilDiv,
  SKP!Cardinality, STREAMK!Cardinality

(* Both stream-k schedules walk over the same tiles.                       *)
LEMMA SameVisits ==
  ASSUME NEW s, SKP!VisitsEveryTileOnce(s)
  PROVE  STREAMK!VisitsEveryTileOnce(s)
<1> DEFINE here == {STREAMK!Position(s, j) : j \in 0 .. s.m * s.n - 1}
           there == {SKP!Position(s, j) : j \in 0 .. s.m * s.n - 1}
<1>1. \A j : STREAMK!Position(s, j) = SKP!Position(s, j)
  BY DEF SKP!Position, STREAMK!Position, SKP!Least, STREAMK!Least, SKP!WINDOW_LEN, STREAMK!WINDOW_LEN
<1>2. STREAMK!Positions(s) = SKP!Positions(s)
  BY DEF SKP!Positions, STREAMK!Positions
<1>3. here = there
  BY <1>1
<1>4. /\ there = SKP!Positions(s)
      /\ \A i, j \in 0 .. s.m * s.n - 1 : SKP!Position(s, i) = SKP!Position(s, j) => i = j
  BY Zenon DEF SKP!VisitsEveryTileOnce
<1>5. here = STREAMK!Positions(s)
  <2> HIDE DEF here, there
  <2> QED BY <1>2, <1>3, <1>4
<1>6. \A i, j \in 0 .. s.m * s.n - 1 : STREAMK!Position(s, i) = STREAMK!Position(s, j) => i = j
  BY <1>1, <1>4, Zenon
<1> QED BY <1>5, <1>6, Zenon DEF STREAMK!VisitsEveryTileOnce

LEMMA SameCardinality ==
  ASSUME NEW S
  PROVE  SPLITK!Cardinality(S) = Cardinality(S)
BY DEF SPLITK!Cardinality, Cardinality

-------------------------------------------------------------------------------
(* Split k.                                                                *)

(* The first pre cores take round blocks each, the others one less, and    *)
(* nobody goes without.                                                    *)
LEMMA Handing ==
  ASSUME NEW kCnt \in Nat, NEW cores \in Nat \ {0}, kCnt >= cores
  PROVE  \E pre \in 1 .. cores, round \in Nat \ {0} :
           /\ kCnt = (pre * round) + ((cores - pre) * (round - 1))
           /\ pre < cores => round - 1 # 0
           /\ \A i : SPLITK!BlocksOfK(kCnt, cores, i)
                = LET first  == IF i < pre THEN i * round ELSE (i * (round - 1)) + pre
                      length == IF i < pre THEN round ELSE round - 1
                  IN  first .. first + length - 1
<1> DEFINE q == kCnt \div cores  r == kCnt % cores
           round == SPLITK!CeilDiv(kCnt, cores)
           pre == IF r = 0 THEN cores ELSE r
<1>1. q \in Nat /\ r \in 0 .. cores - 1 /\ kCnt = (cores * q) + r
  BY SKP!DivMod
<1>2. \A i : SPLITK!BlocksOfK(kCnt, cores, i)
                = LET first  == IF i < pre THEN i * round ELSE (i * (round - 1)) + pre
                      length == IF i < pre THEN round ELSE round - 1
                  IN  first .. first + length - 1
  BY DEF SPLITK!BlocksOfK
<1>3. round = ((kCnt + cores) - 1) \div cores
  BY DEF SPLITK!CeilDiv
<1> HIDE DEF q, r, round
<1>4. q # 0
  <2>1. SUFFICES ASSUME q = 0 PROVE FALSE
    OBVIOUS
  <2>2. cores * q = 0
    BY <2>1
  <2> QED BY <2>2, <1>1
<1>5. CASE r = 0
  <2>1. (kCnt + cores) - 1 = (cores * q) + (cores - 1)
    BY <1>1, <1>5
  <2>2. (kCnt + cores) - 1 \in Nat /\ cores - 1 \in 0 .. cores - 1
    OBVIOUS
  <2>3. round = q
    BY <2>1, <2>2, <1>1, <1>3, SKP!DivModUnique
  <2>4. (cores - pre) * (round - 1) = 0 /\ pre * round = cores * q
    BY <2>3, <1>1, <1>5
  <2>5. cores * q \in Nat
    BY <1>1
  <2>6. kCnt = (pre * round) + ((cores - pre) * (round - 1))
    BY <2>4, <2>5, <1>1, <1>5
  <2>7. pre \in 1 .. cores /\ ~(pre < cores) /\ round \in Nat \ {0}
    BY <2>3, <1>1, <1>4, <1>5
  <2> HIDE DEF pre
  <2> QED BY <2>6, <2>7, <1>2
<1>6. CASE r # 0
  <2>1. cores * (q + 1) = (cores * q) + (cores * 1)
    BY <1>1, SKP!Distribute
  <2>2. cores * q \in Nat /\ cores * 1 = cores
    BY <1>1
  <2>3. (kCnt + cores) - 1 = (cores * (q + 1)) + (r - 1)
    BY <2>1, <2>2, <1>1
  <2>4. (kCnt + cores) - 1 \in Nat /\ r - 1 \in 0 .. cores - 1 /\ q + 1 \in Nat
    BY <1>1, <1>6
  <2>5. round = q + 1
    <3> DEFINE a == (kCnt + cores) - 1  x == r - 1  y == q + 1
    <3>1. a \in Nat /\ x \in 0 .. cores - 1 /\ y \in Nat /\ a = (cores * y) + x
      BY <2>3, <2>4
    <3>2. round = a \div cores
      BY <1>3
    <3> HIDE DEF a, x, y
    <3>3. round = y
      BY <3>1, <3>2, SKP!DivModUnique
    <3> QED BY <3>3 DEF y
  <2>6. r * (q + 1) + ((cores - r) * q) = (cores * q) + r
    <3>1. r \in Nat /\ cores - r \in Nat /\ cores = r + (cores - r)
      BY <1>1
    <3>2. r * (q + 1) = (r * q) + r
      BY <1>1
    <3>3. q * (r + (cores - r)) = (q * r) + (q * (cores - r))
      BY <3>1, <1>1, SKP!Distribute
    <3>4. /\ q * cores = cores * q /\ q * r = r * q /\ q * (cores - r) = (cores - r) * q
          /\ r * q \in Nat /\ (cores - r) * q \in Nat /\ cores * q \in Nat
      BY <3>1, <1>1
    <3> QED BY <3>1, <3>2, <3>3, <3>4
  <2>7. pre = r /\ round - 1 = q
    BY <2>5, <1>1, <1>6
  <2>8. kCnt = (pre * round) + ((cores - pre) * (round - 1))
    BY <2>5, <2>6, <2>7, <1>1
  <2>9. pre \in 1 .. cores /\ (round - 1) # 0 /\ round \in Nat \ {0}
    BY <2>5, <2>7, <1>1, <1>4, <1>6
  <2> HIDE DEF pre
  <2> QED BY <2>8, <2>9, <1>2
<1> QED BY <1>5, <1>6

(* The cores share the blocks of k out, however many there are.            *)
LEMMA KSharedOut ==
  ASSUME NEW kCnt \in Nat, NEW cores \in Nat \ {0}, kCnt >= cores
  PROVE  SPLITK!SharesKOut(kCnt, cores)
<1>1. PICK pre \in 1 .. cores, round \in Nat \ {0} :
           /\ kCnt = (pre * round) + ((cores - pre) * (round - 1))
           /\ pre < cores => round - 1 # 0
           /\ \A i : SPLITK!BlocksOfK(kCnt, cores, i)
                = LET first  == IF i < pre THEN i * round ELSE (i * (round - 1)) + pre
                      length == IF i < pre THEN round ELSE round - 1
                  IN  first .. first + length - 1
  BY Handing
<1> DEFINE less == round - 1  full == pre * round
           blocks(i) == SPLITK!BlocksOfK(kCnt, cores, i)
<1>2. pre \in Nat /\ less \in Nat /\ round = less + 1 /\ full \in Nat
  OBVIOUS
<1>3. full = (pre * less) + pre /\ pre * less \in Nat
  <2>1. pre * (less + 1) = (pre * less) + (pre * 1)
    BY <1>2, SKP!Distribute
  <2>2. pre * less \in Nat /\ pre * 1 = pre
    BY <1>2
  <2> HIDE DEF less
  <2> QED BY <2>1, <2>2, <1>2
<1>4. kCnt = full + ((cores - pre) * less)
  BY <1>1
<1>5. ASSUME NEW i \in 0 .. cores - 1, i < pre
      PROVE  blocks(i) = (i * round) .. ((i * round) + round) - 1
  BY <1>1, <1>5
<1>6. ASSUME NEW i \in 0 .. cores - 1, ~(i < pre)
      PROVE  blocks(i) = ((i * less) + pre) .. (((i * less) + pre) + less) - 1
  BY <1>1, <1>6
<1> HIDE DEF blocks
<1>7. ASSUME NEW i \in 0 .. cores - 1 PROVE blocks(i) # {}
  <2>1. CASE i < pre
    <3>1. i * round \in Nat
      OBVIOUS
    <3>2. i * round \in (i * round) .. ((i * round) + round) - 1
      BY <3>1
    <3> QED BY <2>1, <3>2, <1>5
  <2>2. CASE ~(i < pre)
    <3>1. (i * less) + pre \in Nat /\ less # 0
      BY <2>2, <1>1, <1>2
    <3> DEFINE first == (i * less) + pre
    <3>2. first \in first .. (first + less) - 1
      <4> HIDE DEF first, less
      <4>1. first \in Nat
        BY <3>1 DEF first
      <4> QED BY <3>1, <4>1, <1>2
    <3> QED BY <2>2, <3>2, <1>6
  <2> QED BY <2>1, <2>2
<1>8. ASSUME NEW k \in 0 .. kCnt - 1, NEW i \in 0 .. cores - 1, k \in blocks(i)
      PROVE  /\ i < pre <=> k < full
             /\ i = IF k < full THEN k \div round ELSE (k - pre) \div less
  <2>0. k \in Nat /\ i \in Nat
    OBVIOUS
  <2>1. CASE i < pre
    <3>1. k \in (i * round) .. ((i * round) + round) - 1 /\ i * round \in Nat
      BY <2>1, <1>5, <1>8
    <3>2. (i * round) + round <= pre * round
      BY <2>1, <1>2, SKP!MulBelow
    <3>3. k < full
      <4> DEFINE a == i * round
      <4>1. a \in Nat /\ k \in a .. (a + round) - 1 /\ a + round <= full
        BY <3>1, <3>2
      <4> HIDE DEF a, full
      <4> QED BY <4>1, <1>2, <2>0
    <3>4. k - (i * round) \in 0 .. round - 1 /\ k = (round * i) + (k - (i * round))
      <4> DEFINE a == i * round
      <4>1. a \in Nat /\ k \in a .. (a + round) - 1 /\ round * i = a
        BY <3>1
      <4>2. k - a \in 0 .. round - 1 /\ k = a + (k - a)
        <5> HIDE DEF a
        <5> QED BY <4>1, <2>0
      <4> QED BY <4>1, <4>2
    <3>5. k \div round = i
      BY <3>4, <2>0, SKP!DivModUnique
    <3> QED BY <2>1, <3>3, <3>5
  <2>2. CASE ~(i < pre)
    <3> DEFINE a == i * less
    <3>1. a \in Nat /\ k \in (a + pre) .. ((a + pre) + less) - 1 /\ less * i = a
      BY <2>2, <1>2, <1>6, <1>8
    <3>2. less * pre <= less * i /\ less * pre = pre * less
      BY <2>2, <1>2, SKP!MulMonotone
    <3>3. ~(k < full)
      <4> HIDE DEF a, full, less
      <4> QED BY <3>1, <3>2, <1>2, <1>3, <2>0
    <3>4. /\ k - pre \in Nat /\ (k - pre) - a \in 0 .. less - 1
          /\ k - pre = (less * i) + ((k - pre) - a) /\ less \in Nat \ {0}
      <4> HIDE DEF a, less
      <4> QED BY <3>1, <1>2, <2>0
    <3>5. (k - pre) \div less = i
      <4> DEFINE y == k - pre  x == y - a
      <4>1. y \in Nat /\ x \in 0 .. less - 1 /\ y = (less * i) + x /\ less \in Nat \ {0}
        BY <3>4
      <4> HIDE DEF y, x, less
      <4>2. y \div less = i
        BY <4>1, <2>0, SKP!DivModUnique
      <4> QED BY <4>2 DEF y
    <3> QED BY <2>2, <3>3, <3>5
  <2> QED BY <2>1, <2>2
<1>9. ASSUME NEW k \in 0 .. kCnt - 1 PROVE \E i \in 0 .. cores - 1 : k \in blocks(i)
  <2>1. k \in Nat
    OBVIOUS
  <2>2. CASE k < full
    <3> DEFINE i == k \div round  x == k % round  a == i * round
    <3>1. i \in Nat /\ x \in 0 .. round - 1 /\ k = (round * i) + x
      BY <2>1, SKP!DivMod
    <3>2. i < pre
      BY <2>1, <2>2, <1>2, SKP!DivBelow
    <3> HIDE DEF i, x
    <3>3. i \in 0 .. cores - 1
      BY <3>1, <3>2
    <3>4. a \in Nat /\ round * i = a
      BY <3>1
    <3>5. k \in a .. (a + round) - 1
      <4> HIDE DEF a
      <4> QED BY <3>1, <3>4
    <3> QED BY <3>2, <3>3, <3>5, <1>5
  <2>3. CASE ~(k < full)
    <3> DEFINE y == k - pre  i == y \div less  x == y % less  a == i * less
               rest == (cores - pre) * less
    <3>1. y \in Nat
      <4> HIDE DEF full
      <4> QED BY <2>1, <2>3, <1>2, <1>3
    <3>2. less # 0 /\ cores - pre \in Nat
      <4>1. SUFFICES ASSUME less = 0 PROVE FALSE
        BY <1>2
      <4>2. rest = 0
        BY <4>1
      <4> HIDE DEF full, rest
      <4> QED BY <4>2, <2>3, <1>4, <2>1, <1>2 DEF rest
    <3>3. i \in Nat /\ x \in 0 .. less - 1 /\ y = (less * i) + x
      <4>1. y \in Nat /\ less \in Nat \ {0}
        BY <3>1, <3>2, <1>2
      <4> HIDE DEF y, less
      <4> QED BY <4>1, SKP!DivMod
    <3>4. y < cores * less
      <4>1. less * (pre + (cores - pre)) = (less * pre) + (less * (cores - pre))
        BY <1>2, <3>2, SKP!Distribute
      <4>2. /\ less * pre = pre * less /\ less * (cores - pre) = rest
            /\ less * (pre + (cores - pre)) = cores * less
            /\ rest \in Nat /\ cores * less \in Nat
        BY <1>2, <3>2
      <4> HIDE DEF less, full, rest
      <4> QED BY <4>1, <4>2, <1>2, <1>3, <1>4, <2>1 DEF rest
    <3>5. i < cores
      <4>1. y \in Nat /\ less \in Nat \ {0}
        BY <3>1, <3>2, <1>2
      <4> HIDE DEF y, less
      <4> QED BY <4>1, <3>4, SKP!DivBelow
    <3>6. ~(i < pre)
      <4>1. SUFFICES ASSUME i < pre PROVE FALSE
        OBVIOUS
      <4>2. (i * less) + less <= pre * less
        <5>1. less \in Nat \ {0} /\ i \in Nat
          BY <3>2, <3>3, <1>2
        <5> HIDE DEF i, less
        <5> QED BY <5>1, <4>1, <1>2, SKP!MulBelow
      <4>3. less * i = i * less /\ i * less \in Nat
        BY <3>3, <1>2
      <4>4. y >= pre * less
        <5> HIDE DEF full, less
        <5> QED BY <2>1, <2>3, <1>2, <1>3
      <4> HIDE DEF i, x, less, y
      <4> QED BY <4>2, <4>3, <4>4, <3>3, <3>1, <1>2, <1>3
    <3>7. a \in Nat /\ less * i = a
      BY <3>3, <1>2
    <3>8. k \in (a + pre) .. ((a + pre) + less) - 1
      <4>1. k = y + pre
        BY <1>2, <2>1
      <4> HIDE DEF a, i, x, y, less
      <4> QED BY <4>1, <3>3, <3>7, <1>2
    <3>9. i \in 0 .. cores - 1
      BY <3>3, <3>5
    <3> HIDE DEF i
    <3> QED BY <3>6, <3>8, <3>9, <1>6
  <2> QED BY <2>2, <2>3
<1>10. ASSUME NEW k \in 0 .. kCnt - 1
       PROVE  SPLITK!Cardinality({i \in 0 .. cores - 1 : k \in blocks(i)}) = 1
  <2>1. PICK i \in 0 .. cores - 1 : k \in blocks(i)
    BY <1>9
  <2>2. {j \in 0 .. cores - 1 : k \in blocks(j)} = {i}
    BY <2>1, <1>8
  <2> QED BY <2>2, SameCardinality, FS_Singleton
<1> QED BY <1>7, <1>10 DEF SPLITK!SharesKOut, blocks

-------------------------------------------------------------------------------
(* Batches.                                                                *)

(* Of an axis of length 1 the offset does not move, however long that of   *)
(* the output is; of another one it moves as far as the output's.          *)
LEMMA StepOfAxis ==
  ASSUME NEW a \in Nat \ {0}, NEW c \in Nat \ {0}, a \in {1, c},
         NEW x \in 0 .. c - 1, NEW size \in Nat
  PROVE  x * (size * (a \div c)) = (IF a = 1 THEN 0 ELSE x) * size
<1>1. CASE a = c
  <2>1. c = (c * 1) + 0 /\ c \in Nat /\ 1 \in Nat /\ 0 \in 0 .. c - 1
    OBVIOUS
  <2>2. c \div c = 1
    BY <2>1, SKP!DivModUnique
  <2>3. size * (a \div c) = size /\ x \in Nat
    BY <1>1, <2>2
  <2>4. a = 1 => x = 0
    BY <1>1
  <2> QED BY <2>3, <2>4
<1>2. CASE a # c
  <2>1. a = 1 /\ a \in 0 .. c - 1 /\ c * 0 = 0
    BY <1>2
  <2>2. a \in Nat /\ 0 \in Nat /\ a = (c * 0) + a
    BY <2>1
  <2>3. a \div c = 0
    BY <2>1, <2>2, SKP!DivModUnique
  <2> QED BY <2>1, <2>3
<1> QED BY <1>1, <1>2

(* The offset of a batch of the output is, of an input, that of the batch  *)
(* that the rules of broadcasting name, whatever the lengths of the axes.  *)
LEMMA OffsetsBroadcast ==
  ASSUME NEW b \in BatchAxes
  PROVE  PERTILE!BroadcastAgrees(b.a, b.c)
<1> DEFINE a == b.a  c == b.c
<1>1. /\ a[1] \in Nat \ {0} /\ a[2] \in Nat \ {0} /\ a[3] \in Nat \ {0} /\ a[4] \in Nat \ {0}
      /\ c[1] \in Nat \ {0} /\ c[2] \in Nat \ {0} /\ c[3] \in Nat \ {0} /\ c[4] \in Nat \ {0}
      /\ a[1] \in {1, c[1]} /\ a[2] \in {1, c[2]} /\ a[3] \in {1, c[3]} /\ a[4] \in {1, c[4]}
  <2>1. /\ a \in Axes \X Axes \X Axes \X Axes /\ c \in Axes \X Axes \X Axes \X Axes
        /\ \A i \in 1 .. 4 : a[i] \in {1, c[i]}
    BY DEF BatchAxes
  <2> HIDE DEF a, c
  <2>2. /\ a[1] \in Axes /\ a[2] \in Axes /\ a[3] \in Axes /\ a[4] \in Axes
        /\ c[1] \in Axes /\ c[2] \in Axes /\ c[3] \in Axes /\ c[4] \in Axes
    BY <2>1
  <2>3. 1 \in 1 .. 4 /\ 2 \in 1 .. 4 /\ 3 \in 1 .. 4 /\ 4 \in 1 .. 4
    OBVIOUS
  <2>4. a[1] \in {1, c[1]} /\ a[2] \in {1, c[2]} /\ a[3] \in {1, c[3]} /\ a[4] \in {1, c[4]}
    BY <2>1, <2>3
  <2>5. Axes \subseteq Nat \ {0}
    BY SizesAssumption
  <2> QED BY <2>2, <2>4, <2>5
<1> HIDE DEF a, c
<1>2. ASSUME NEW index \in (0 .. c[1] - 1) \X (0 .. c[2] - 1) \X (0 .. c[3] - 1) \X (0 .. c[4] - 1)
      PROVE  PERTILE!BatchOffset(a, c, index) = PERTILE!Broadcast(a, index)
  <2> DEFINE at(i) == IF a[i] = 1 THEN 0 ELSE index[i]
  <2>1. /\ index[1] \in 0 .. c[1] - 1 /\ index[2] \in 0 .. c[2] - 1
        /\ index[3] \in 0 .. c[3] - 1 /\ index[4] \in 0 .. c[4] - 1
    OBVIOUS
  <2>2. ASSUME NEW i \in 1 .. 4, NEW size \in Nat
        PROVE  index[i] * (size * (a[i] \div c[i])) = at(i) * size
    <3> DEFINE aa == a[i]  cc == c[i]  x == index[i]
    <3>1. /\ aa \in Nat \ {0} /\ cc \in Nat \ {0} /\ aa \in {1, cc}
          /\ x \in 0 .. cc - 1
      <4>1. i = 1 \/ i = 2 \/ i = 3 \/ i = 4
        OBVIOUS
      <4> QED BY <4>1, <1>1, <2>1
    <3> HIDE DEF aa, cc, x
    <3>2. x * (size * (aa \div cc)) = (IF aa = 1 THEN 0 ELSE x) * size
      BY <3>1, StepOfAxis
    <3> QED BY <3>2 DEF aa, cc, x
  <2>3. PERTILE!BatchOffset(a, c, index)
          = (index[1] * ((a[2] * a[3] * a[4]) * (a[1] \div c[1])))
              + (index[2] * ((a[3] * a[4]) * (a[2] \div c[2])))
              + (index[3] * (a[4] * (a[3] \div c[3])))
              + (index[4] * (1 * (a[4] \div c[4])))
    BY DEF PERTILE!BatchOffset, PERTILE!Size, PERTILE!Multi
  <2>4. /\ index[1] * ((a[2] * a[3] * a[4]) * (a[1] \div c[1])) = at(1) * (a[2] * a[3] * a[4])
        /\ index[2] * ((a[3] * a[4]) * (a[2] \div c[2])) = at(2) * (a[3] * a[4])
        /\ index[3] * (a[4] * (a[3] \div c[3])) = at(3) * a[4]
        /\ index[4] * (1 * (a[4] \div c[4])) = at(4) * 1
    <3> DEFINE three == a[2] * a[3] * a[4]  two == a[3] * a[4]
    <3>1. three \in Nat /\ two \in Nat /\ a[4] \in Nat /\ 1 \in Nat
      BY <1>1
    <3> HIDE DEF three, two
    <3>2. index[1] * (three * (a[1] \div c[1])) = at(1) * three
      BY <2>2, <3>1
    <3>3. index[2] * (two * (a[2] \div c[2])) = at(2) * two
      BY <2>2, <3>1
    <3>4. index[3] * (a[4] * (a[3] \div c[3])) = at(3) * a[4]
      BY <2>2, <3>1
    <3>5. index[4] * (1 * (a[4] \div c[4])) = at(4) * 1
      BY <2>2, <3>1
    <3> QED BY <3>2, <3>3, <3>4, <3>5 DEF three, two
  <2>5. PERTILE!Broadcast(a, index) = (((((at(1) * a[2]) + at(2)) * a[3]) + at(3)) * a[4]) + at(4)
    BY DEF PERTILE!Broadcast
  <2>6. at(1) \in Nat /\ at(2) \in Nat /\ at(3) \in Nat /\ at(4) \in Nat
    BY <2>1, <1>1
  <2>7. \A w, x, y, z, p, q, r \in Nat :
          (w * (p * q * r)) + (x * (q * r)) + (y * r) + (z * 1)
            = (((((w * p) + x) * q) + y) * r) + z
    OBVIOUS
  <2>8. a[2] \in Nat /\ a[3] \in Nat /\ a[4] \in Nat
    BY <1>1
  <2> HIDE DEF at
  <2> QED BY <2>3, <2>4, <2>5, <2>6, <2>7, <2>8
<1>3. PERTILE!BroadcastAgrees(a, c)
  BY <1>2 DEF PERTILE!BroadcastAgrees
<1> QED BY <1>3 DEF a, c

-------------------------------------------------------------------------------
(* Recursion.                                                              *)

(* Every set of natural numbers has a least one.                           *)
LEMMA LeastNumber ==
  ASSUME NEW T \in SUBSET Nat, T # {}
  PROVE  \E x \in T : \A y \in T : x <= y
<1> DEFINE R == OpToRel(<, Nat)
<1>1. \A x, y \in Nat : <<x, y>> \in R <=> x < y
  BY DEF OpToRel
<1>2. IsWellFoundedOn(R, Nat)
  BY NatLessThanWellFounded, Zenon
<1> HIDE DEF R
<1>3. PICK x \in T : \A y \in T : ~(<<y, x>> \in R)
  BY <1>2, WFMin
<1>4. ASSUME NEW y \in T PROVE x <= y
  <2>1. x \in Nat /\ y \in Nat
    OBVIOUS
  <2>2. ~(y < x)
    BY <1>1, <1>3, <2>1
  <2> QED BY <2>1, <2>2
<1> QED BY <1>4

(* What Grow of the per-tile schedule recurs over: a split of the two axes *)
(* and the last valid one of each.                                         *)
Splits(cores) == (1 .. cores) \X (1 .. cores) \X (1 .. cores) \X (1 .. cores)
OnlyValid(splits) == \A s \in splits : PERTILE!Valid(s)

NextSplit(c, tail, cores, pres, secs) ==
  LET pre == c[1] + 1
      sec == IF pre * (c[2] + 1) * tail <= cores THEN c[2] + 1 ELSE c[2]
  IN  <<pre, sec, IF pre \in pres THEN pre ELSE c[3],
        IF sec > c[2] /\ sec \in secs THEN sec ELSE c[4]>>

GrowStep(g, c, tail, cores, pres, secs) ==
  IF (c[1] + 1) * c[2] * tail > cores THEN <<c[3], c[4]>>
                                      ELSE g[NextSplit(c, tail, cores, pres, secs)]

IsGrow(g, tail, cores, pres, secs) ==
  g = [c \in Splits(cores) |-> GrowStep(g, c, tail, cores, pres, secs)]

LEMMA GrowUnfolds ==
  ASSUME NEW tail, NEW cores, NEW pres, NEW secs
  PROVE  PERTILE!Grow(tail, cores, pres, secs)
           = (CHOOSE g : IsGrow(g, tail, cores, pres, secs))[<<1, 1, 1, 1>>]
BY DEF PERTILE!Grow, IsGrow, GrowStep, NextSplit, Splits

(* A split that is followed by another one leaves cores for it, and the    *)
(* next one remembers valid splits only.                                   *)
LEMMA NextIsSplit ==
  ASSUME NEW tail \in Nat \ {0}, NEW cores \in Nat \ {0}, NEW pres, NEW secs,
         OnlyValid(pres), OnlyValid(secs), NEW c \in Splits(cores),
         ~((c[1] + 1) * c[2] * tail > cores)
  PROVE  LET d == NextSplit(c, tail, cores, pres, secs)
         IN  /\ d \in Splits(cores) /\ d[1] = c[1] + 1
             /\ PERTILE!Valid(c[3]) => PERTILE!Valid(d[3])
             /\ PERTILE!Valid(c[4]) => PERTILE!Valid(d[4])
<1> DEFINE pre == c[1] + 1
           sec == IF pre * (c[2] + 1) * tail <= cores THEN c[2] + 1 ELSE c[2]
           d == NextSplit(c, tail, cores, pres, secs)
<1>1. c[1] \in 1 .. cores /\ c[2] \in 1 .. cores /\ c[3] \in 1 .. cores /\ c[4] \in 1 .. cores
  BY DEF Splits
<1>2. \A x, y, z \in Nat \ {0} : x * y * z \in Nat /\ x <= x * y * z /\ y <= x * y * z
  <2>1. ASSUME NEW x \in Nat \ {0}, NEW y \in Nat \ {0} PROVE x * y \in Nat \ {0} /\ x <= x * y /\ y <= x * y
    OBVIOUS
  <2> QED BY <2>1
<1>3. pre \in 1 .. cores
  <2>1. pre \in Nat \ {0} /\ c[2] \in Nat \ {0}
    BY <1>1
  <2>2. pre <= pre * c[2] * tail /\ pre * c[2] * tail \in Nat
    BY <2>1, <1>2
  <2> QED BY <2>1, <2>2
<1>4. sec \in 1 .. cores
  <2>1. CASE pre * (c[2] + 1) * tail <= cores
    <3>1. pre \in Nat \ {0} /\ c[2] + 1 \in Nat \ {0}
      BY <1>1
    <3>2. c[2] + 1 <= pre * (c[2] + 1) * tail /\ pre * (c[2] + 1) * tail \in Nat
      BY <3>1, <1>2
    <3> QED BY <2>1, <3>1, <3>2
  <2>2. CASE ~(pre * (c[2] + 1) * tail <= cores)
    BY <2>2, <1>1
  <2> QED BY <2>1, <2>2
<1>5. d = <<pre, sec, IF pre \in pres THEN pre ELSE c[3],
            IF sec > c[2] /\ sec \in secs THEN sec ELSE c[4]>>
  BY DEF NextSplit
<1> HIDE DEF pre, sec, d
<1>6. d \in Splits(cores)
  BY <1>1, <1>3, <1>4, <1>5 DEF Splits
<1>7. /\ d[1] = pre /\ d[3] = (IF pre \in pres THEN pre ELSE c[3])
      /\ d[4] = (IF sec > c[2] /\ sec \in secs THEN sec ELSE c[4])
  BY <1>5
<1> QED BY <1>6, <1>7 DEF pre, d, OnlyValid

(* The recursion ends, since the first split grows up to the cores.        *)
LEMMA GrowExists ==
  ASSUME NEW tail \in Nat \ {0}, NEW cores \in Nat \ {0}, NEW pres, NEW secs,
         OnlyValid(pres), OnlyValid(secs)
  PROVE  \E g : IsGrow(g, tail, cores, pres, secs)
<1> DEFINE UpTo(g, n) == \A c \in Splits(cores) : c[1] > cores - n => g[c] = GrowStep(g, c, tail, cores, pres, secs)
           Bad == {n \in Nat : ~ \E g : UpTo(g, n)}
<1>0. \A c \in Splits(cores) : c[1] \in 1 .. cores
  BY DEF Splits
<1>1. Bad = {}
  <2>1. SUFFICES ASSUME Bad # {} PROVE FALSE
    OBVIOUS
  <2>2. PICK n \in Bad : \A k \in Bad : n <= k
    BY <2>1, LeastNumber
  <2>3. n # 0
    <3>1. UpTo(0, 0)
      BY <1>0
    <3> HIDE DEF UpTo
    <3> QED BY <3>1
  <2>4. n - 1 \in Nat /\ n - 1 \notin Bad
    <3>1. n \in Nat
      OBVIOUS
    <3> HIDE DEF Bad
    <3> QED BY <3>1, <2>2, <2>3
  <2>5. PICK g : UpTo(g, n - 1)
    <3> HIDE DEF UpTo
    <3> QED BY <2>4
  <2> DEFINE h == [c \in Splits(cores) |-> IF c[1] > cores - (n - 1) THEN g[c] ELSE GrowStep(g, c, tail, cores, pres, secs)]
  <2>6. ASSUME NEW c \in Splits(cores), c[1] > cores - n
        PROVE  h[c] = GrowStep(h, c, tail, cores, pres, secs)
    <3>1. h[c] = GrowStep(g, c, tail, cores, pres, secs)
      BY <2>5
    <3>2. GrowStep(h, c, tail, cores, pres, secs) = GrowStep(g, c, tail, cores, pres, secs)
      <4>1. CASE (c[1] + 1) * c[2] * tail > cores
        BY <4>1 DEF GrowStep
      <4>2. CASE ~((c[1] + 1) * c[2] * tail > cores)
        <5> DEFINE d == NextSplit(c, tail, cores, pres, secs)
        <5>1. d \in Splits(cores) /\ d[1] = c[1] + 1
          BY <4>2, NextIsSplit
        <5> HIDE DEF d
        <5>2. d[1] > cores - (n - 1)
          <6>1. c[1] \in Nat /\ n \in Nat
            BY <1>0
          <6> QED BY <5>1, <6>1, <2>6
        <5>3. h[d] = g[d]
          BY <5>1, <5>2
        <5> HIDE DEF h
        <5> QED BY <4>2, <5>3 DEF GrowStep, d
      <4> QED BY <4>1, <4>2
    <3> QED BY <3>1, <3>2
  <2>7. UpTo(h, n)
    <3> HIDE DEF h
    <3> QED BY <2>6
  <2> HIDE DEF h, UpTo
  <2> QED BY <2>7
<1>2. PICK g : UpTo(g, cores)
  <2> HIDE DEF UpTo
  <2> QED BY <1>1
<1> DEFINE f == [c \in Splits(cores) |-> g[c]]
<1>3. ASSUME NEW c \in Splits(cores) PROVE f[c] = GrowStep(f, c, tail, cores, pres, secs)
  <2>1. g[c] = GrowStep(g, c, tail, cores, pres, secs)
    <3>1. c[1] > cores - cores
      BY <1>0
    <3> QED BY <3>1, <1>2
  <2>2. GrowStep(f, c, tail, cores, pres, secs) = GrowStep(g, c, tail, cores, pres, secs)
    <3>1. CASE (c[1] + 1) * c[2] * tail > cores
      BY <3>1 DEF GrowStep
    <3>2. CASE ~((c[1] + 1) * c[2] * tail > cores)
      <4> DEFINE d == NextSplit(c, tail, cores, pres, secs)
      <4>1. d \in Splits(cores)
        BY <3>2, NextIsSplit
      <4> HIDE DEF d
      <4>2. f[d] = g[d]
        BY <4>1
      <4> HIDE DEF f
      <4> QED BY <3>2, <4>2 DEF GrowStep, d
    <3> QED BY <3>1, <3>2
  <2> QED BY <2>1, <2>2
<1>4. f = [c \in Splits(cores) |-> GrowStep(f, c, tail, cores, pres, secs)]
  <2>1. f = [c \in Splits(cores) |-> f[c]]
    OBVIOUS
  <2> HIDE DEF f
  <2> QED BY <2>1, <1>3
<1> QED BY <1>4 DEF IsGrow

(* The tail split that the host settles on divides a group of the scales.  *)
LEMMA GrowIsValid ==
  ASSUME NEW tail \in Nat \ {0}, NEW cores \in Nat \ {0}, NEW pres, NEW secs,
         OnlyValid(pres), OnlyValid(secs)
  PROVE  LET split == PERTILE!Grow(tail, cores, pres, secs)
         IN  /\ split[1] \in 1 .. cores /\ PERTILE!Valid(split[1])
             /\ split[2] \in 1 .. cores /\ PERTILE!Valid(split[2])
<1> DEFINE g == CHOOSE g : IsGrow(g, tail, cores, pres, secs)
           Good(x) == /\ x[1] \in 1 .. cores /\ PERTILE!Valid(x[1])
                      /\ x[2] \in 1 .. cores /\ PERTILE!Valid(x[2])
           Bad == {n \in Nat : \E c \in Splits(cores) :
                                 /\ cores - c[1] = n
                                 /\ PERTILE!Valid(c[3]) /\ PERTILE!Valid(c[4])
                                 /\ ~Good(g[c])}
<1>1. IsGrow(g, tail, cores, pres, secs)
  BY GrowExists
<1> HIDE DEF g
<1>2. \A c \in Splits(cores) : g[c] = GrowStep(g, c, tail, cores, pres, secs)
  BY <1>1 DEF IsGrow
<1>3. Bad = {}
  <2>1. SUFFICES ASSUME Bad # {} PROVE FALSE
    OBVIOUS
  <2>2. PICK n \in Bad : \A k \in Bad : n <= k
    BY <2>1, LeastNumber
  <2>3. PICK c \in Splits(cores) : /\ cores - c[1] = n
                                   /\ PERTILE!Valid(c[3]) /\ PERTILE!Valid(c[4])
                                   /\ ~Good(g[c])
    OBVIOUS
  <2>4. CASE (c[1] + 1) * c[2] * tail > cores
    <3>1. g[c] = <<c[3], c[4]>>
      BY <2>4, <1>2 DEF GrowStep
    <3>2. c[3] \in 1 .. cores /\ c[4] \in 1 .. cores
      BY DEF Splits
    <3>3. Good(g[c])
      BY <2>3, <3>1, <3>2
    <3> QED BY <2>3, <3>3
  <2>5. CASE ~((c[1] + 1) * c[2] * tail > cores)
    <3> DEFINE d == NextSplit(c, tail, cores, pres, secs)
    <3>1. /\ d \in Splits(cores) /\ d[1] = c[1] + 1
          /\ PERTILE!Valid(d[3]) /\ PERTILE!Valid(d[4])
      BY <2>3, <2>5, NextIsSplit
    <3>2. g[c] = g[d]
      BY <2>5, <1>2 DEF GrowStep
    <3> HIDE DEF d, Good
    <3>3. cores - d[1] \in Nat /\ cores - d[1] < n
      <4>1. d[1] \in 1 .. cores /\ c[1] \in 1 .. cores
        BY <3>1 DEF Splits
      <4> QED BY <4>1, <3>1, <2>3
    <3>4. cores - d[1] \in Bad
      BY <3>1, <3>2, <3>3, <2>3
    <3>5. n \in Nat
      OBVIOUS
    <3> DEFINE left == cores - d[1]
    <3> HIDE DEF Bad, left
    <3>6. n <= left
      BY <3>4, <2>2 DEF left
    <3>7. left \in Nat /\ left < n
      BY <3>3 DEF left
    <3> QED BY <3>5, <3>6, <3>7
  <2> QED BY <2>4, <2>5
<1>4. PERTILE!Valid(1)
  BY DEF PERTILE!Valid, PERTILE!PER_BLOCK_SIZE
<1>5. <<1, 1, 1, 1>> \in Splits(cores)
  BY DEF Splits
<1>6. Good(g[<<1, 1, 1, 1>>])
  <2>1. cores - 1 \in Nat
    OBVIOUS
  <2> DEFINE c == <<1, 1, 1, 1>>
  <2>2. c[1] = 1 /\ c[3] = 1 /\ c[4] = 1
    OBVIOUS
  <2> HIDE DEF c, Good
  <2>3. c \in Splits(cores)
    BY <1>5 DEF c
  <2>4. Good(g[c])
    BY <2>1, <2>2, <2>3, <1>3, <1>4
  <2> QED BY <2>4 DEF c
<1> QED BY <1>6, GrowUnfolds DEF g

-------------------------------------------------------------------------------
(* The per-tile kernel.                                                    *)

(* The tail splits that count are powers of two.                           *)
LEMMA DivisorsOfGroup ==
  ASSUME NEW c \in Nat \ {0}, PERTILE!Valid(c)
  PROVE  c \in {1, 2, 4, 8, 16, 32, 64, 128}
<1> DEFINE h == 128 \div c
<1>1. 128 % c = 0
  BY DEF PERTILE!Valid, PERTILE!PER_BLOCK_SIZE
<1>2. h \in Nat /\ 128 = c * h
  BY <1>1
<1> HIDE DEF h
<1>3. CASE c <= 11
  <2>1. c \in {1, 2, 3, 4, 5, 6, 7, 8, 9, 10, 11}
    BY <1>3
  <2> QED BY <1>1, <2>1
<1>4. CASE h <= 11
  <2>1. h \in {0, 1, 2, 3, 4, 5, 6, 7, 8, 9, 10, 11}
    BY <1>2, <1>4
  <2>2. 128 = h * c
    BY <1>2
  <2> QED BY <2>1, <2>2
<1>5. c <= 11 \/ h <= 11
  <2>1. SUFFICES ASSUME c >= 12, h >= 12 PROVE FALSE
    BY <1>2
  <2>2. c * h >= 12 * 12
    BY <2>1, <1>2
  <2> QED BY <2>2, <1>2
<1> QED BY <1>3, <1>4, <1>5

(* An extent that is whole groups long or lies within one.                 *)
Grouped(o, l) ==
  /\ l \in Nat \ {0} /\ o \in Nat
  /\ (o = 0 /\ l = 256) \/ (\E g \in {0, 128} : g <= o /\ o + l <= g + 128)

(* What is left of an extent of length L lies within it.                   *)
CutInside(cut, L) ==
  /\ cut.offset \in Nat /\ cut.length \in 0 .. L
  /\ cut.length # 0 => Grouped(cut.offset, cut.length)

(* A cut of an extent by a valid split.                                    *)
LEMMA CutFacts ==
  ASSUME NEW L \in (1 .. 128) \cup {256}, NEW c \in Nat \ {0}, PERTILE!Valid(c),
         NEW number \in Nat, NEW aligned \in BOOLEAN
  PROVE  CutInside(PERTILE!Cut(L, c, number, aligned), L)
<1> DEFINE part == IF aligned THEN PERTILE!Align(PERTILE!CeilDiv(L, c), 128) ELSE PERTILE!CeilDiv(L, c)
           offset == number * part
           length == IF offset >= L THEN 0 ELSE PERTILE!Least(part, L - offset)
<1>1. PERTILE!Cut(L, c, number, aligned) = [offset |-> offset, length |-> length]
  BY DEF PERTILE!Cut, PERTILE!INNER_AXIS_MIN_SPLIT_VAL
<1>2. c \in {1, 2, 4, 8, 16, 32, 64, 128}
  BY DivisorsOfGroup
<1>3. part \in Nat \ {0}
  BY <1>2 DEF PERTILE!Align, PERTILE!CeilDiv
<1>4. L = 256 => part \in {2, 4, 8, 16, 32, 64, 128, 256}
  BY <1>2 DEF PERTILE!Align, PERTILE!CeilDiv
<1> HIDE DEF part
<1>5. offset \in Nat
  BY <1>3
<1>6. L = 256 /\ offset < 256 => (part = 256 /\ offset = 0) \/ offset + part <= 128 \/ (offset >= 128 /\ offset + part <= 256)
  BY <1>4
<1> HIDE DEF offset
<1>7. length \in 0 .. L /\ (length # 0 => offset < L /\ length <= part /\ length <= L - offset)
  BY <1>3, <1>5 DEF PERTILE!Least
<1>8. ASSUME length # 0 PROVE Grouped(offset, length)
  <2> HIDE DEF length
  <2>1. CASE L # 256
    <3>1. 0 <= offset /\ offset + length <= 0 + 128 /\ length \in Nat \ {0}
      BY <2>1, <1>5, <1>7, <1>8
    <3> QED BY <3>1, <1>5 DEF Grouped
  <2>2. CASE L = 256 /\ length = 256
    BY <2>2, <1>5, <1>7, <1>8 DEF Grouped
  <2>3. CASE L = 256 /\ length # 256
    <3>1. \/ 0 <= offset /\ offset + length <= 0 + 128
          \/ 128 <= offset /\ offset + length <= 128 + 128
          \/ part = 256 /\ offset = 0
      BY <2>3, <1>3, <1>5, <1>6, <1>7, <1>8
    <3>2. part = 256 /\ offset = 0 => length = 256
      BY <2>3, <1>8 DEF length, PERTILE!Least
    <3>3. length \in Nat \ {0}
      BY <1>7, <1>8
    <3> QED BY <3>1, <3>2, <3>3, <2>3, <1>5 DEF Grouped
  <2> QED BY <2>1, <2>2, <2>3
<1> HIDE DEF length
<1> QED BY <1>1, <1>5, <1>7, <1>8 DEF CutInside

(* The blocks of the host: at most one side is two groups long, and then   *)
(* the last one of that side is one or two groups long.                    *)
LEMMA BlockFacts ==
  ASSUME NEW p \in PertileProblems
  PROVE  LET base == PERTILE!Base(p)
             w == PERTILE!Window(p, base)
         IN  /\ base.m \in {128, 256} /\ base.n \in {128, 256} /\ w.base = base
             /\ base.m = 128 \/ base.n = 128
             /\ w.m \in Nat \ {0} /\ w.n \in Nat \ {0}
             /\ w.last.m \in (1 .. 128) \cup {256} /\ w.last.m <= base.m
             /\ w.last.n \in (1 .. 128) \cup {256} /\ w.last.n <= base.n
<1> DEFINE base == PERTILE!Base(p)  w == PERTILE!Window(p, base)  m == p.m  n == p.n
<1>1. m \in Nat \ {0} /\ n \in Nat \ {0}
  BY SizesAssumption DEF PertileProblems
<1>2. /\ base.m \in {128, 256} /\ base.n \in {128, 256}
      /\ base.m = 128 \/ base.n = 128
      /\ base.m = 256 => m % 128 = 0
      /\ base.n = 256 => n % 128 = 0
  <2>1. base = IF m <= 128 \/ m % 128 # 0
                 THEN [m |-> 128, n |-> IF n % 128 = 0 THEN 256 ELSE 128]
                 ELSE [m |-> 256, n |-> 128]
    BY DEF PERTILE!Base, PERTILE!PER_BLOCK_SIZE, PERTILE!PER_BLOCK_BASE_SIZE_256
  <2> HIDE DEF base, m, n
  <2> QED BY <2>1
<1>3. /\ w.base = base /\ w.m = PERTILE!CeilDiv(m, base.m) /\ w.n = PERTILE!CeilDiv(n, base.n)
      /\ w.last.m = PERTILE!LastLength(m, base.m) /\ w.last.n = PERTILE!LastLength(n, base.n)
  BY DEF PERTILE!Window
<1> HIDE DEF base, w, m, n
<1>4. ASSUME NEW size \in Nat \ {0}, NEW b \in {128, 256}, b = 256 => size % 128 = 0
      PROVE  /\ PERTILE!CeilDiv(size, b) \in Nat \ {0}
             /\ PERTILE!LastLength(size, b) \in (1 .. 128) \cup {256}
             /\ PERTILE!LastLength(size, b) <= b
  <2>1. CASE b = 128
    BY <2>1 DEF PERTILE!CeilDiv, PERTILE!LastLength
  <2>2. CASE b = 256
    BY <2>2, <1>4 DEF PERTILE!CeilDiv, PERTILE!LastLength
  <2> QED BY <2>1, <2>2
<1>5. w.m \in Nat \ {0} /\ w.last.m \in (1 .. 128) \cup {256} /\ w.last.m <= base.m
  BY <1>1, <1>2, <1>3, <1>4
<1>6. w.n \in Nat \ {0} /\ w.last.n \in (1 .. 128) \cup {256} /\ w.last.n <= base.n
  BY <1>1, <1>2, <1>3, <1>4
<1> QED BY <1>2, <1>3, <1>5, <1>6 DEF base, w

(* Where the batches end, one after the other.                             *)
IsEnds(g, d) ==
  g = [b \in 0 .. d.batch |->
         IF b = 0 THEN d.blockNum - 1
         ELSE (PERTILE!Total(d.w) + ((g[b - 1] + 1) % d.blockNum) - 1) % d.blockNum]

EndStep(g, b, d) ==
  IF b = 0 THEN d.blockNum - 1
  ELSE (PERTILE!Total(d.w) + ((g[b - 1] + 1) % d.blockNum) - 1) % d.blockNum

LEMMA EndsExist ==
  ASSUME NEW d, d.batch \in Nat
  PROVE  IsEnds(PERTILE!Ends(d), d)
<1> DEFINE batches == 0 .. d.batch
           UpTo(g, n) == \A b \in batches : b < n => g[b] = EndStep(g, b, d)
           Bad == {n \in Nat : ~ \E g : UpTo(g, n)}
<1>1. Bad = {}
  <2>1. SUFFICES ASSUME Bad # {} PROVE FALSE
    OBVIOUS
  <2>2. PICK n \in Bad : \A k \in Bad : n <= k
    BY <2>1, LeastNumber
  <2>3. n \in Nat
    OBVIOUS
  <2>4. n # 0
    <3>1. UpTo(0, 0)
      OBVIOUS
    <3> HIDE DEF UpTo
    <3> QED BY <3>1
  <2>5. n - 1 \in Nat /\ n - 1 \notin Bad
    <3> HIDE DEF Bad
    <3> QED BY <2>2, <2>3, <2>4
  <2>6. PICK g : UpTo(g, n - 1)
    <3> HIDE DEF UpTo
    <3> QED BY <2>5
  <2> DEFINE h == [b \in batches |-> IF b < n - 1 THEN g[b] ELSE EndStep(g, b, d)]
  <2>7. ASSUME NEW b \in batches, b < n PROVE h[b] = EndStep(h, b, d)
    <3>1. b \in Nat
      OBVIOUS
    <3>2. h[b] = EndStep(g, b, d)
      BY <2>6
    <3>3. b # 0 => h[b - 1] = g[b - 1]
      <4>1. b # 0 => b - 1 \in batches /\ b - 1 < n - 1
        BY <3>1, <2>3, <2>7
      <4> QED BY <4>1
    <3> HIDE DEF h
    <3> QED BY <3>2, <3>3 DEF EndStep
  <2>8. UpTo(h, n)
    <3> HIDE DEF h
    <3> QED BY <2>7
  <2> HIDE DEF h, UpTo
  <2> QED BY <2>8
<1>2. PICK g : UpTo(g, d.batch + 1)
  <2> HIDE DEF UpTo
  <2> QED BY <1>1
<1> DEFINE f == [b \in batches |-> g[b]]
<1>3. ASSUME NEW b \in batches PROVE f[b] = EndStep(f, b, d)
  <2>1. f[b] = EndStep(g, b, d)
    BY <1>2
  <2>2. b # 0 => f[b - 1] = g[b - 1]
    <3>1. b # 0 => b - 1 \in batches
      OBVIOUS
    <3> QED BY <3>1
  <2> HIDE DEF f
  <2> QED BY <2>1, <2>2 DEF EndStep
<1>4. f = [b \in batches |-> EndStep(f, b, d)]
  <2>1. f = [b \in batches |-> f[b]]
    OBVIOUS
  <2> HIDE DEF f
  <2> QED BY <2>1, <1>3
<1>5. \E e : IsEnds(e, d)
  <2>1. IsEnds(f, d)
    <3> HIDE DEF f
    <3> QED BY <1>4 DEF IsEnds, EndStep
  <2> QED BY <2>1
<1>6. PERTILE!Ends(d) = CHOOSE e : IsEnds(e, d)
  BY DEF PERTILE!Ends, IsEnds
<1> QED BY <1>5, <1>6

LEMMA EndsAreBlocks ==
  ASSUME NEW d, d.batch \in Nat, d.blockNum \in Nat \ {0}, PERTILE!Total(d.w) \in Nat,
         NEW b \in 0 .. d.batch
  PROVE  PERTILE!Ends(d)[b] \in 0 .. d.blockNum - 1
<1> DEFINE ends == PERTILE!Ends(d)
           Bad == {n \in 0 .. d.batch : ends[n] \notin 0 .. d.blockNum - 1}
<1>1. \A n \in 0 .. d.batch : ends[n] = EndStep(ends, n, d)
  <2>1. IsEnds(ends, d)
    BY EndsExist
  <2> HIDE DEF ends
  <2> QED BY <2>1 DEF IsEnds, EndStep
<1> HIDE DEF ends
<1>2. Bad = {}
  <2>1. SUFFICES ASSUME Bad # {} PROVE FALSE
    OBVIOUS
  <2>2. PICK n \in Bad : \A k \in Bad : n <= k
    <3>1. Bad \in SUBSET Nat
      OBVIOUS
    <3> HIDE DEF Bad
    <3> QED BY <2>1, <3>1, LeastNumber
  <2>3. n \in 0 .. d.batch /\ ends[n] \notin 0 .. d.blockNum - 1
    OBVIOUS
  <2>4. CASE n = 0
    BY <2>3, <2>4, <1>1 DEF EndStep
  <2>5. CASE n # 0
    <3>1. n - 1 \in 0 .. d.batch /\ ~(n <= n - 1)
      BY <2>3, <2>5
    <3>2. ends[n - 1] \in 0 .. d.blockNum - 1
      BY <3>1, <2>2
    <3>3. ends[n] = (PERTILE!Total(d.w) + ((ends[n - 1] + 1) % d.blockNum) - 1) % d.blockNum
      BY <2>3, <2>5, <1>1 DEF EndStep
    <3> DEFINE x == PERTILE!Total(d.w) + ((ends[n - 1] + 1) % d.blockNum) - 1
    <3>4. x \in Int
      BY <3>2
    <3> HIDE DEF x
    <3>5. (x % d.blockNum) \in 0 .. d.blockNum - 1
      BY <3>4
    <3> QED BY <3>3, <3>5, <2>3 DEF x
  <2> QED BY <2>4, <2>5
<1> QED BY <1>2 DEF ends

(* What the host hands to the kernel.                                      *)
LEMMA TilingFacts ==
  ASSUME NEW p \in PertileProblems
  PROVE  LET d == PERTILE!Tiling(p)
         IN  /\ d.w = PERTILE!Window(p, PERTILE!Base(p))
             /\ d.batch \in Nat /\ d.transA \in BOOLEAN /\ d.transB \in BOOLEAN
             /\ PERTILE!Total(d.w) \in Nat /\ d.blockNum \in Nat \ {0}
             /\ d.tails.m \in Nat \ {0} /\ PERTILE!Valid(d.tails.m)
             /\ d.tails.n \in Nat \ {0} /\ PERTILE!Valid(d.tails.n)
<1> DEFINE w == PERTILE!Window(p, PERTILE!Base(p))  tail == PERTILE!TailWin(p, w)
           grown == PERTILE!Grown(p, w)  tails == PERTILE!Tails(p, w)  d == PERTILE!Tiling(p)
<1>1. p.cores \in Nat \ {0} /\ p.batch \in Nat /\ p.transA \in BOOLEAN /\ p.transB \in BOOLEAN
  BY SizesAssumption DEF PertileProblems
<1>2. w.m \in Nat \ {0} /\ w.n \in Nat \ {0}
  BY BlockFacts
<1>3. d.w = w /\ d.batch = p.batch /\ d.transA = p.transA /\ d.transB = p.transB
      /\ d.tails = tails /\ d.blockNum = PERTILE!BlockNum(p, w, tails)
  BY DEF PERTILE!Tiling, PERTILE!TilingOf, PERTILE!TilingData
<1> HIDE DEF w, d
<1>4. PERTILE!Total(w) \in Nat
  BY <1>2 DEF PERTILE!Total
<1>5. tail \in Nat
  BY <1>1, <1>4 DEF PERTILE!TailWin
<1> HIDE DEF tail
<1>6. tail # 0 => /\ grown[1] \in Nat \ {0} /\ PERTILE!Valid(grown[1])
                  /\ grown[2] \in Nat \ {0} /\ PERTILE!Valid(grown[2])
  <2> DEFINE lines == PERTILE!LineSplits(p)  columns == PERTILE!ColumnSplits(p, w)
  <2>1. OnlyValid(lines) /\ OnlyValid(columns)
    BY DEF OnlyValid, PERTILE!LineSplits, PERTILE!ColumnSplits
  <2>2. grown = IF PERTILE!LinesFirst(w) THEN PERTILE!Grow(tail, p.cores, lines, columns)
                                         ELSE PERTILE!Grow(tail, p.cores, columns, lines)
    BY DEF PERTILE!Grown, tail
  <2> HIDE DEF grown, lines, columns
  <2> QED BY <1>1, <1>5, <2>1, <2>2, GrowIsValid
<1> HIDE DEF grown
<1>7. PERTILE!Valid(1)
  BY DEF PERTILE!Valid, PERTILE!PER_BLOCK_SIZE
<1>8. /\ tails.m \in Nat \ {0} /\ PERTILE!Valid(tails.m)
      /\ tails.n \in Nat \ {0} /\ PERTILE!Valid(tails.n)
  <2>1. tails = IF tail = 0 THEN [m |-> 1, n |-> 1]
                ELSE IF PERTILE!LinesFirst(w) THEN [m |-> grown[1], n |-> grown[2]]
                                              ELSE [m |-> grown[2], n |-> grown[1]]
    BY DEF PERTILE!Tails, PERTILE!TailsBy, tail, grown
  <2> HIDE DEF tails
  <2> QED BY <2>1, <1>6, <1>7
<1> HIDE DEF tails
<1>9. PERTILE!BlockNum(p, w, tails) \in Nat \ {0}
  <2>1. PERTILE!BlockNum(p, w, tails)
          = IF PERTILE!Total(w) > p.cores \/ tail = 0 THEN p.cores ELSE tail * tails.m * tails.n
    BY DEF PERTILE!BlockNum, tail
  <2>2. tail # 0 => tail * tails.m * tails.n \in Nat \ {0}
    BY <1>5, <1>8
  <2> QED BY <2>1, <2>2, <1>1
<1> QED BY <1>1, <1>3, <1>4, <1>8, <1>9 DEF w, d

(* The scheduler of a block.                                               *)
LEMMA SchedulerFacts ==
  ASSUME NEW p \in PertileProblems, NEW b \in 1 .. PERTILE!Tiling(p).batch,
         NEW block \in 0 .. PERTILE!Tiling(p).blockNum - 1
  PROVE  LET s == PERTILE!Scheduler(PERTILE!Tiling(p), b, block)
         IN  /\ s.start \in Int /\ s.rounds \in Int /\ s.tail \in Nat \ {0}
             /\ s.mTail \in Nat \ {0} /\ PERTILE!Valid(s.mTail)
             /\ s.nTail \in Nat \ {0} /\ PERTILE!Valid(s.nTail)
<1> DEFINE d == PERTILE!Tiling(p)  ends == PERTILE!Ends(d)  bounds == PERTILE!Bounds(d, b, ends)
           tails == d.tails.m * d.tails.n
           inTail == /\ b = d.batch /\ (bounds.end + 1) * tails <= d.blockNum
                     /\ block <= tails * (bounds.end + 1) - 1
           s == PERTILE!Scheduler(d, b, block)
<1>1. /\ d.batch \in Nat /\ PERTILE!Total(d.w) \in Nat /\ d.blockNum \in Nat \ {0}
      /\ d.tails.m \in Nat \ {0} /\ PERTILE!Valid(d.tails.m)
      /\ d.tails.n \in Nat \ {0} /\ PERTILE!Valid(d.tails.n)
  BY TilingFacts
<1>2. b \in 1 .. d.batch /\ block \in 0 .. d.blockNum - 1
  OBVIOUS
<1>3. s = [start |-> bounds.start, tail |-> IF inTail THEN tails ELSE 1,
           mTail |-> IF inTail THEN d.tails.m ELSE 1, nTail |-> IF inTail THEN d.tails.n ELSE 1,
           rounds |-> PERTILE!Rounds(d, bounds, block) + (IF inTail /\ block > bounds.end THEN 1 ELSE 0)]
  BY DEF PERTILE!Scheduler, PERTILE!SchedulerIn
<1> HIDE DEF d, s
<1>4. b - 1 \in 0 .. d.batch /\ b \in 0 .. d.batch
  BY <1>1, <1>2
<1>5. ends[b - 1] \in 0 .. d.blockNum - 1 /\ ends[b] \in 0 .. d.blockNum - 1
  BY <1>1, <1>4, EndsAreBlocks
<1> HIDE DEF ends
<1>6. bounds.start \in Int /\ bounds.end \in Int
  BY <1>1, <1>5 DEF PERTILE!Bounds
<1> HIDE DEF bounds
<1>7. PERTILE!Rounds(d, bounds, block) \in Int
  BY <1>1, <1>6 DEF PERTILE!Rounds, PERTILE!CeilDiv
<1>8. tails \in Nat \ {0}
  BY <1>1
<1>9. PERTILE!Valid(1)
  BY DEF PERTILE!Valid, PERTILE!PER_BLOCK_SIZE
<1> HIDE DEF tails, inTail
<1>10. s.start \in Int /\ s.rounds \in Int /\ s.tail \in Nat \ {0}
  BY <1>3, <1>6, <1>7, <1>8
<1>11. s.mTail \in {d.tails.m, 1} /\ s.nTail \in {d.tails.n, 1}
  BY <1>3
<1> QED BY <1>1, <1>9, <1>10, <1>11 DEF s, d

(* Tiles are numbered by whole numbers.                                    *)
LEMMA PositionIsWhole ==
  ASSUME NEW w, w.m \in Nat \ {0}, w.n \in Nat \ {0}, NEW j \in Int
  PROVE  PERTILE!Position(w, j)[1] \in Int /\ PERTILE!Position(w, j)[2] \in Int
<1> DEFINE m == w.m  n == w.n
           window  == PERTILE!Least(PERTILE!WINDOW_LEN, m)
           bands   == (m \div window) - 1
           last    == m - (bands * window)
           band    == PERTILE!Least(j \div (n * window), bands)
           inLast  == j - ((bands * window) * n)
           row     == IF band < bands THEN j % window ELSE inLast % last
           column  == IF band < bands THEN (j \div window) % n ELSE (inLast \div last) % n
<1>1. PERTILE!Position(w, j) = << (band * window) + row, IF band % 2 # 0 THEN (n - 1) - column ELSE column >>
  BY DEF PERTILE!Position
<1>2. m \in Nat \ {0} /\ n \in Nat \ {0}
  OBVIOUS
<1> HIDE DEF m, n
<1>3. window \in Nat \ {0}
  BY <1>2 DEF PERTILE!Least, PERTILE!WINDOW_LEN
<1> HIDE DEF window
<1>4. bands \in Int
  BY <1>2, <1>3
<1>5. last \in Nat \ {0}
  <2> DEFINE q == m \div window  r == m % window
  <2>1. q \in Nat /\ r \in 0 .. window - 1 /\ m = (window * q) + r
    BY <1>2, <1>3
  <2>2. bands = q - 1
    OBVIOUS
  <2> HIDE DEF q, r, bands
  <2>3. bands * window = (window * q) - window
    BY <2>1, <2>2, <1>3
  <2> QED BY <2>1, <2>3, <1>2, <1>3
<1> HIDE DEF bands, last
<1>6. n * window \in Nat \ {0} /\ bands * window \in Int
  BY <1>2, <1>3, <1>4
<1>7. band \in Int /\ inLast \in Int
  BY <1>2, <1>4, <1>6 DEF PERTILE!Least
<1> HIDE DEF band, inLast
<1>8. row \in Int /\ column \in Int
  BY <1>2, <1>3, <1>5, <1>7
<1> HIDE DEF row, column
<1>9. (band * window) + row \in Int /\ (IF band % 2 # 0 THEN (n - 1) - column ELSE column) \in Int
  BY <1>2, <1>3, <1>7, <1>8
<1> QED BY <1>1, <1>9

(* Every part that a block computes lies in its group of lines or is one   *)
(* of two whole groups, and so of columns, but never both of two.          *)
PartIsGrouped(part) ==
  /\ \E k \in Int, o \in Nat : part[2] = (128 * k) + o /\ Grouped(o, part[3])
  /\ \E k \in Int, o \in Nat : part[4] = (128 * k) + o /\ Grouped(o, part[5])
  /\ part[3] # 256 \/ part[5] # 256

LEMMA PartFacts ==
  ASSUME NEW p \in PertileProblems, NEW part \in PERTILE!Range(PERTILE!Parts(p))
  PROVE  PartIsGrouped(part)
<1> DEFINE d == PERTILE!Tiling(p)
<1>1. PICK b, block, r :
         /\ b \in 1 .. d.batch
         /\ block \in 0 .. d.blockNum - 1
         /\ r \in 0 .. PERTILE!Scheduler(d, b, block).rounds - 1
         /\ part = PERTILE!Part(d, b, PERTILE!Scheduler(d, b, block), block, r)
         /\ ~PERTILE!IsEmpty(part)
  <2> DEFINE taken == UNION {PERTILE!Taken(d, b, block, PERTILE!Scheduler(d, b, block)) :
                               b \in 1 .. d.batch, block \in 0 .. d.blockNum - 1}
             at(x) == PERTILE!Part(d, x[1], PERTILE!Scheduler(d, x[1], x[2]), x[2], x[3])
  <2>1. PERTILE!Parts(p) = [x \in taken |-> at(x)]
    BY DEF PERTILE!Parts, PERTILE!PartsOf
  <2> HIDE DEF taken, at
  <2>2. PICK x \in taken : part = at(x)
    BY <2>1 DEF PERTILE!Range
  <2> HIDE DEF d
  <2>3. PICK b \in 1 .. d.batch, block \in 0 .. d.blockNum - 1 :
           x \in PERTILE!Taken(d, b, block, PERTILE!Scheduler(d, b, block))
    BY <2>2 DEF taken
  <2> DEFINE s == PERTILE!Scheduler(d, b, block)
  <2>4. PICK r \in 0 .. s.rounds - 1 :
           x = <<b, block, r>> /\ \A q \in 0 .. r : ~PERTILE!IsEmpty(PERTILE!Part(d, b, s, block, q))
    BY <2>3 DEF PERTILE!Taken
  <2> HIDE DEF s
  <2>5. part = PERTILE!Part(d, b, s, block, r)
    BY <2>2, <2>4 DEF at, s
  <2>6. r \in 0 .. r
    OBVIOUS
  <2>7. ~PERTILE!IsEmpty(part)
    BY <2>4, <2>5, <2>6
  <2> QED BY <2>3, <2>4, <2>5, <2>7 DEF s
<1> DEFINE s == PERTILE!Scheduler(d, b, block)  w == d.w
           t == PERTILE!Position(w, PERTILE!Index(d, s, block, r))
           number == block % s.tail
           lines == IF t[1] # w.m - 1 THEN w.base.m ELSE w.last.m
           columns == IF t[2] # w.n - 1 THEN w.base.n ELSE w.last.n
           whole == ~PERTILE!IsSplit(s, r)
           mCut == IF whole THEN [offset |-> 0, length |-> lines]
                   ELSE PERTILE!Cut(lines, s.mTail, number % s.mTail, d.transA)
           nCut == IF whole THEN [offset |-> 0, length |-> columns]
                   ELSE PERTILE!Cut(columns, s.nTail, number \div s.mTail, ~d.transB)
<1>2. part = <<b - 1, (t[1] * w.base.m) + mCut.offset, mCut.length,
                      (t[2] * w.base.n) + nCut.offset, nCut.length>>
  BY <1>1 DEF PERTILE!Part, PERTILE!Shape
<1>3. /\ w = PERTILE!Window(p, PERTILE!Base(p)) /\ d.blockNum \in Nat \ {0}
      /\ d.transA \in BOOLEAN /\ d.transB \in BOOLEAN
  BY TilingFacts
<1>4. /\ s.start \in Int /\ s.rounds \in Int /\ s.tail \in Nat \ {0}
      /\ s.mTail \in Nat \ {0} /\ PERTILE!Valid(s.mTail)
      /\ s.nTail \in Nat \ {0} /\ PERTILE!Valid(s.nTail)
  BY <1>1, SchedulerFacts
<1>5. /\ w.base.m \in {128, 256} /\ w.base.n \in {128, 256}
      /\ w.base.m = 128 \/ w.base.n = 128
      /\ w.m \in Nat \ {0} /\ w.n \in Nat \ {0}
      /\ w.last.m \in (1 .. 128) \cup {256} /\ w.last.m <= w.base.m
      /\ w.last.n \in (1 .. 128) \cup {256} /\ w.last.n <= w.base.n
  <2> HIDE DEF d
  <2> QED BY <1>3, BlockFacts
<1>6. block \in Nat /\ r \in Int
  <2> HIDE DEF d
  <2>1. PERTILE!Scheduler(d, b, block).rounds \in Int
    BY <1>4 DEF d
  <2> QED BY <1>1, <1>3, <2>1
<1> HIDE DEF d, s
<1>7. PERTILE!Index(d, s, block, r) \in Int
  BY <1>3, <1>4, <1>6 DEF PERTILE!Index
<1>8. t[1] \in Int /\ t[2] \in Int
  BY <1>5, <1>7, PositionIsWhole
<1> HIDE DEF t
<1>9. /\ lines \in (1 .. 128) \cup {256} /\ lines <= w.base.m
      /\ columns \in (1 .. 128) \cup {256} /\ columns <= w.base.n
  BY <1>5
<1> HIDE DEF w, lines, columns
<1>10. number \in Nat
  BY <1>4, <1>6
<1> HIDE DEF number
<1>11. number % s.mTail \in Nat /\ number \div s.mTail \in Nat
  BY <1>4, <1>10
<1>12. ASSUME NEW l \in (1 .. 128) \cup {256} PROVE Grouped(0, l)
  <2>1. CASE l = 256
    BY <2>1 DEF Grouped
  <2>2. CASE l \in 1 .. 128
    <3>1. 0 <= 0 /\ 0 + l <= 0 + 128
      BY <2>2
    <3> QED BY <2>2, <3>1 DEF Grouped
  <2> QED BY <2>1, <2>2
<1>13. /\ mCut.offset \in Nat /\ mCut.length \in 0 .. lines
       /\ mCut.length # 0 => Grouped(mCut.offset, mCut.length)
  <2>1. CASE whole
    <3>1. mCut.offset = 0 /\ mCut.length = lines
      BY <2>1
    <3> HIDE DEF mCut
    <3> QED BY <3>1, <1>9, <1>12
  <2>2. CASE ~whole
    <3>1. mCut = PERTILE!Cut(lines, s.mTail, number % s.mTail, d.transA)
      BY <2>2
    <3> DEFINE c == s.mTail  q == number % s.mTail  trans == d.transA
    <3>2. c \in Nat \ {0} /\ PERTILE!Valid(c) /\ q \in Nat /\ trans \in BOOLEAN
      BY <1>3, <1>4, <1>11
    <3> HIDE DEF mCut, c, q, trans
    <3>3. mCut = PERTILE!Cut(lines, c, q, trans)
      BY <3>1 DEF c, q, trans
    <3>4. CutInside(PERTILE!Cut(lines, c, q, trans), lines)
      BY <3>2, <1>9, CutFacts
    <3> QED BY <3>3, <3>4 DEF CutInside
  <2> QED BY <2>1, <2>2
<1>14. /\ nCut.offset \in Nat /\ nCut.length \in 0 .. columns
       /\ nCut.length # 0 => Grouped(nCut.offset, nCut.length)
  <2>1. CASE whole
    <3>1. nCut.offset = 0 /\ nCut.length = columns
      BY <2>1
    <3> HIDE DEF nCut
    <3> QED BY <3>1, <1>9, <1>12
  <2>2. CASE ~whole
    <3>1. nCut = PERTILE!Cut(columns, s.nTail, number \div s.mTail, ~d.transB)
      BY <2>2
    <3> DEFINE c == s.nTail  q == number \div s.mTail  plain == ~d.transB
    <3>2. c \in Nat \ {0} /\ PERTILE!Valid(c) /\ q \in Nat /\ plain \in BOOLEAN
      BY <1>4, <1>11
    <3> HIDE DEF nCut, c, q, plain
    <3>3. nCut = PERTILE!Cut(columns, c, q, plain)
      BY <3>1 DEF c, q, plain
    <3>4. CutInside(PERTILE!Cut(columns, c, q, plain), columns)
      BY <3>2, <1>9, CutFacts
    <3> QED BY <3>3, <3>4 DEF CutInside
  <2> QED BY <2>1, <2>2
<1> HIDE DEF mCut, nCut, whole
<1>15. mCut.length # 0 /\ nCut.length # 0
  BY <1>1, <1>2 DEF PERTILE!IsEmpty
<1>16. /\ part[2] = (t[1] * w.base.m) + mCut.offset /\ part[3] = mCut.length
       /\ part[4] = (t[2] * w.base.n) + nCut.offset /\ part[5] = nCut.length
  BY <1>2
<1>17. \E k \in Int, o \in Nat : part[2] = (128 * k) + o /\ Grouped(o, part[3])
  <2> DEFINE at == t[1] * w.base.m  o == mCut.offset
  <2>1. PICK k \in Int : at = 128 * k
    <3> DEFINE tile == t[1]  base == w.base.m
    <3>1. tile \in Int /\ base \in {128, 256} /\ at = tile * base
      BY <1>5, <1>8
    <3> HIDE DEF tile, base, at
    <3>2. CASE base = 128
      <4>1. at = 128 * tile
        BY <3>1, <3>2
      <4> QED BY <3>1, <4>1
    <3>3. CASE base = 256
      <4>1. at = 128 * (2 * tile) /\ 2 * tile \in Int
        BY <3>1, <3>3
      <4> QED BY <4>1
    <3> QED BY <3>1, <3>2, <3>3
  <2>2. part[2] = at + o /\ o \in Nat /\ Grouped(o, part[3])
    BY <1>13, <1>15, <1>16
  <2> HIDE DEF at, o
  <2> QED BY <2>1, <2>2
<1>18. \E k \in Int, o \in Nat : part[4] = (128 * k) + o /\ Grouped(o, part[5])
  <2> DEFINE at == t[2] * w.base.n  o == nCut.offset
  <2>1. PICK k \in Int : at = 128 * k
    <3> DEFINE tile == t[2]  base == w.base.n
    <3>1. tile \in Int /\ base \in {128, 256} /\ at = tile * base
      BY <1>5, <1>8
    <3> HIDE DEF tile, base, at
    <3>2. CASE base = 128
      <4>1. at = 128 * tile
        BY <3>1, <3>2
      <4> QED BY <3>1, <4>1
    <3>3. CASE base = 256
      <4>1. at = 128 * (2 * tile) /\ 2 * tile \in Int
        BY <3>1, <3>3
      <4> QED BY <4>1
    <3> QED BY <3>1, <3>2, <3>3
  <2>2. part[4] = at + o /\ o \in Nat /\ Grouped(o, part[5])
    BY <1>14, <1>15, <1>16
  <2> HIDE DEF at, o
  <2> QED BY <2>1, <2>2
<1>19. part[3] # 256 \/ part[5] # 256
  BY <1>5, <1>9, <1>13, <1>14, <1>16
<1> QED BY <1>17, <1>18, <1>19 DEF PartIsGrouped

(* Where a piece may lie in a part that is l long: in its only group or in *)
(* one of its two.                                                         *)
Fits(l, first, length) ==
  /\ first \in Nat /\ length \in Nat
  /\ length > 0 => \/ l # 256 /\ first < 128 /\ first + length <= l
                   \/ l = 256 /\ (first % 128) + length <= 128

(* Such a piece belongs to the group that its scale is taken from.         *)
LEMMA GroupOfPiece ==
  ASSUME NEW part, NEW k \in Int, NEW o, NEW l, part = (128 * k) + o, Grouped(o, l),
         NEW first, NEW length, Fits(l, first, length)
  PROVE  PERTILE!OneGroup(part, first, length)
<1>1. ASSUME length > 0, NEW i \in {first, first + length - 1}
      PROVE  (part \div 128) + (first \div 128) = (part + i) \div 128
  <2>1. first \in Nat /\ length \in Nat /\ i \in Nat /\ o \in Nat /\ l \in Nat
    BY <1>1 DEF Fits, Grouped
  <2>2. CASE l # 256
    <3>1. first < 128 /\ first + length <= l
      BY <1>1, <2>2 DEF Fits
    <3>2. first \div 128 = 0
      BY <2>1, <3>1
    <3>3. PICK g \in {0, 128} : g <= o /\ o + l <= g + 128
      BY <2>2 DEF Grouped
    <3>4. o + i < g + 128
      BY <1>1, <2>1, <3>1, <3>3
    <3> QED BY <2>1, <3>2, <3>3, <3>4
  <2>3. CASE l = 256
    <3>1. o = 0
      BY <2>1, <2>3 DEF Grouped
    <3>2. (first % 128) + length <= 128
      BY <1>1, <2>3 DEF Fits
    <3>3. i \div 128 = first \div 128
      BY <1>1, <2>1, <3>2
    <3> QED BY <2>1, <3>1, <3>3
  <2> QED BY <2>2, <2>3
<1> QED BY <1>1 DEF PERTILE!OneGroup, PERTILE!PER_BLOCK_SIZE

(* What a part may measure.                                                *)
Measures(m, n) ==
  /\ m \in (1 .. 128) \cup {256} /\ n \in (1 .. 128) \cup {256}
  /\ m # 256 \/ n # 256

(* The vector cores take their lines and columns of a part by groups.      *)
LEMMA PiecesFit ==
  ASSUME NEW m, NEW n, Measures(m, n), NEW sub \in {0, 1}, NEW nd \in {0, 1}, nd < PERTILE!VEC!NdNum(m, n)
  PROVE  /\ Fits(m, PERTILE!VEC!OffsetM(m, n, sub), PERTILE!VEC!ValidM(m, n, sub))
         /\ Fits(n, PERTILE!VEC!OffsetN(m, n, sub, nd), PERTILE!VEC!ValidN(m, n, sub, nd))
<1> USE DEF Measures, Fits, PERTILE!VEC!OffsetM, PERTILE!VEC!ValidM, PERTILE!VEC!OffsetN, PERTILE!VEC!ValidN,
      PERTILE!VEC!SingleM, PERTILE!VEC!SingleN, PERTILE!VEC!SplitN, PERTILE!VEC!NdNum,
      PERTILE!VEC!Align, PERTILE!VEC!CeilDiv, PERTILE!VEC!Least, PERTILE!VEC!PER_BLOCK_SIZE,
      PERTILE!VEC!UB_TWO_BANK_ELEMS_B32, PERTILE!VEC!UB_SUB_BANK_ELEMS_B32,
      PERTILE!VEC!UB_SUB_BANK_NUM, PERTILE!VEC!ONE_BLK_SIZE, PERTILE!VEC!BLOCK_CUBE, PERTILE!VEC!TaskRation
<1>1. CASE n = 256
  BY <1>1
<1>2. CASE n \in 1 .. 128 /\ m = 1
  BY <1>2
<1>3. CASE n \in 1 .. 64 /\ m # 1
  BY <1>3
<1>4. CASE n \in 65 .. 128 /\ m # 1
  BY <1>4
<1>5. n = 256 \/ n \in 1 .. 64 \/ n \in 65 .. 128
  OBVIOUS
<1>6. n \in 1 .. 64 \/ n \in 65 .. 128 => n \in 1 .. 128
  OBVIOUS
<1> HIDE DEF Fits, PERTILE!VEC!OffsetM, PERTILE!VEC!ValidM, PERTILE!VEC!OffsetN, PERTILE!VEC!ValidN
<1> QED BY <1>1, <1>2, <1>3, <1>4, <1>5, <1>6

(* A vector core never scales two groups with one number, whatever the     *)
(* problem and the number of cores.                                        *)
LEMMA ScalesAgree ==
  ASSUME NEW p \in PertileProblems
  PROVE  PERTILE!OneScaleEach(PERTILE!Parts(p))
<1> SUFFICES ASSUME NEW part \in PERTILE!Range(PERTILE!Parts(p)), NEW sub \in {0, 1}, NEW nd \in {0, 1},
                    nd < PERTILE!VEC!NdNum(part[3], part[5])
             PROVE  /\ PERTILE!OneGroup(part[2], PERTILE!VEC!OffsetM(part[3], part[5], sub),
                                        PERTILE!VEC!ValidM(part[3], part[5], sub))
                    /\ PERTILE!OneGroup(part[4], PERTILE!VEC!OffsetN(part[3], part[5], sub, nd),
                                        PERTILE!VEC!ValidN(part[3], part[5], sub, nd))
  BY DEF PERTILE!OneScaleEach
<1>1. PartIsGrouped(part)
  BY PartFacts
<1>2. Measures(part[3], part[5])
  BY <1>1 DEF PartIsGrouped, Grouped, Measures
<1>3. /\ Fits(part[3], PERTILE!VEC!OffsetM(part[3], part[5], sub), PERTILE!VEC!ValidM(part[3], part[5], sub))
      /\ Fits(part[5], PERTILE!VEC!OffsetN(part[3], part[5], sub, nd), PERTILE!VEC!ValidN(part[3], part[5], sub, nd))
  BY <1>2, PiecesFit
<1>4. PERTILE!OneGroup(part[2], PERTILE!VEC!OffsetM(part[3], part[5], sub),
                       PERTILE!VEC!ValidM(part[3], part[5], sub))
  BY <1>1, <1>3, GroupOfPiece DEF PartIsGrouped
<1>5. PERTILE!OneGroup(part[4], PERTILE!VEC!OffsetN(part[3], part[5], sub, nd),
                       PERTILE!VEC!ValidN(part[3], part[5], sub, nd))
  BY <1>1, <1>3, GroupOfPiece DEF PartIsGrouped
<1> QED BY <1>4, <1>5

(* The cube core splits a part as the vector cores do, into halves that    *)
(* fit their buffers.                                                      *)
LEMMA HalvesAgree ==
  ASSUME NEW m, NEW n, Measures(m, n)
  PROVE  PERTILE!FixpipeAgrees(m, n) /\ PERTILE!HalvesFit(m, n)
<1> USE DEF Measures, PERTILE!FixpipeAgrees, PERTILE!HalvesFit, PERTILE!VEC!FixpipeM, PERTILE!VEC!FixpipeN,
      PERTILE!VEC!SingleM, PERTILE!VEC!SingleN, PERTILE!VEC!SplitN, PERTILE!VEC!NdNum,
      PERTILE!VEC!Align, PERTILE!VEC!CeilDiv, PERTILE!VEC!Least, PERTILE!VEC!PER_BLOCK_SIZE, PERTILE!PER_BLOCK_SIZE,
      PERTILE!VEC!UB_TWO_BANK_ELEMS_B32, PERTILE!VEC!UB_SUB_BANK_ELEMS_B32,
      PERTILE!VEC!UB_SUB_BANK_NUM, PERTILE!VEC!ONE_BLK_SIZE, PERTILE!VEC!BLOCK_CUBE, PERTILE!VEC!TaskRation
<1>1. CASE n = 256
  BY <1>1
<1>2. CASE n \in 1 .. 128 /\ m = 1
  BY <1>2
<1>3. CASE n \in 1 .. 64 /\ m # 1
  BY <1>3
<1>4. CASE n \in 65 .. 128 /\ m # 1
  BY <1>4
<1>5. n = 256 \/ n \in 1 .. 64 \/ n \in 65 .. 128
  OBVIOUS
<1>6. n \in 1 .. 64 \/ n \in 65 .. 128 => n \in 1 .. 128
  OBVIOUS
<1> HIDE DEF PERTILE!FixpipeAgrees, PERTILE!HalvesFit
<1> QED BY <1>1, <1>2, <1>3, <1>4, <1>5, <1>6

(* The halves of every part of a problem.                                  *)
LEMMA ShapesAgree ==
  ASSUME NEW p \in PertileProblems, NEW t \in PERTILE!Shapes(PERTILE!Parts(p))
  PROVE  PERTILE!FixpipeAgrees(t[1], t[2]) /\ PERTILE!HalvesFit(t[1], t[2])
<1>1. PICK part \in PERTILE!Range(PERTILE!Parts(p)) : t = <<part[3], part[5]>>
  BY DEF PERTILE!Shapes
<1>2. PartIsGrouped(part)
  BY PartFacts
<1>3. Measures(part[3], part[5])
  BY <1>2 DEF PartIsGrouped, Grouped, Measures
<1>4. PERTILE!FixpipeAgrees(part[3], part[5]) /\ PERTILE!HalvesFit(part[3], part[5])
  BY <1>3, HalvesAgree
<1> QED BY <1>1, <1>4

-------------------------------------------------------------------------------
(* The slices of split k.                                                  *)

(* A quotient that is rounded up covers, and no more than necessary.       *)
LEMMA RoundedUp ==
  ASSUME NEW a \in Nat \ {0}, NEW b \in Nat \ {0}
  PROVE  /\ SPLITK!CeilDiv(a, b) \in Nat \ {0}
         /\ a <= SPLITK!CeilDiv(a, b) * b
         /\ (SPLITK!CeilDiv(a, b) - 1) * b < a
<1> DEFINE x == a + (b - 1)  q == x \div b  r == x % b
<1>1. SPLITK!CeilDiv(a, b) = q
  BY DEF SPLITK!CeilDiv
<1>2. x \in Nat /\ x = a + (b - 1)
  OBVIOUS
<1> HIDE DEF x
<1>3. q \in Nat /\ r \in 0 .. b - 1 /\ x = (b * q) + r
  BY <1>2
<1> HIDE DEF q, r
<1>4. q # 0
  BY <1>2, <1>3
<1>5. q * b = b * q /\ (q - 1) * b = (b * q) - b
  BY <1>3
<1> QED BY <1>1, <1>2, <1>3, <1>4, <1>5

(* Aligning takes the least multiple that is long enough.                  *)
LEMMA Aligned ==
  ASSUME NEW a \in Nat \ {0}, NEW b \in Nat \ {0}
  PROVE  /\ SPLITK!Align(a, b) \in Nat \ {0} /\ a <= SPLITK!Align(a, b)
         /\ \E k \in Nat : SPLITK!Align(a, b) = k * b
         /\ \A k \in Nat : a <= k * b => SPLITK!Align(a, b) <= k * b
<1> DEFINE q == SPLITK!CeilDiv(a, b)
<1>1. SPLITK!Align(a, b) = q * b
  BY DEF SPLITK!Align
<1>2. q \in Nat \ {0} /\ a <= q * b /\ (q - 1) * b < a
  BY RoundedUp
<1> HIDE DEF q
<1>3. q * b \in Nat \ {0}
  BY <1>2
<1>4. ASSUME NEW k \in Nat, a <= k * b PROVE q * b <= k * b
  <2>1. q <= k
    <3>1. SUFFICES ASSUME k <= q - 1 PROVE FALSE
      BY <1>2
    <3>2. k * b <= (q - 1) * b
      BY <3>1, <1>2
    <3>3. k * b \in Nat /\ (q - 1) * b \in Nat
      BY <1>2
    <3> QED BY <3>2, <3>3, <1>2, <1>4
  <2> QED BY <2>1, <1>2
<1> QED BY <1>1, <1>2, <1>3, <1>4

(* The i-th of the lengths that an axis is cut into.                       *)
LEMMA ExtentFits ==
  ASSUME NEW size \in Nat \ {0}, NEW single \in Nat \ {0}, NEW i \in Nat,
         i < SPLITK!CeilDiv(size, single), NEW length,
         length = IF i = SPLITK!CeilDiv(size, single) - 1
                    THEN size - ((SPLITK!CeilDiv(size, single) - 1) * single) ELSE single
  PROVE  length \in Nat \ {0} /\ length <= size /\ length <= single
<1> DEFINE q == SPLITK!CeilDiv(size, single)
<1>1. q \in Nat \ {0} /\ size <= q * single /\ (q - 1) * single < size
  BY RoundedUp
<1> HIDE DEF q
<1>2. i < q /\ length = IF i = q - 1 THEN size - ((q - 1) * single) ELSE single
  BY DEF q
<1>3. (q - 1) * single = (q * single) - single /\ (q - 1) * single \in Nat /\ q * single \in Nat
  BY <1>1
<1>4. CASE i = q - 1
  BY <1>1, <1>2, <1>3, <1>4
<1>5. CASE i # q - 1
  <2>1. q - 1 >= 1
    BY <1>1, <1>2, <1>5
  <2>2. single <= (q - 1) * single
    BY <1>1, <2>1
  <2> QED BY <1>1, <1>2, <1>3, <1>5, <2>2
<1> QED BY <1>4, <1>5

(* What the host settles on: the lengths of a tile; where the vector cores *)
(* go by lines, whole rows of 256 bytes.                                   *)
LEMMA SplitKFacts ==
  ASSUME NEW p \in SplitKProblems
  PROVE  LET s == SPLITK!Tiling(p)
         IN  /\ s.m \in Nat \ {0} /\ s.n \in Nat \ {0}
             /\ s.singleM \in Nat \ {0} /\ s.singleN \in Nat \ {0}
             /\ s.nz \in BOOLEAN /\ s.order \in {"NK", "MK"} /\ s.cores \in Nat \ {0}
             /\ SPLITK!ByRows(s) => Row256 <= s.singleN /\ \E k \in Nat : s.singleN = k * Row256
<1> DEFINE s == SPLITK!Tiling(p)
<1>1. /\ p.m \in Nat \ {0} /\ p.n \in Nat \ {0} /\ p.l2 \in Nat \ {0} /\ p.cores \in Nat \ {0}
      /\ p.order \in {"NK", "MK"}
      /\ Block33 \in Nat \ {0} /\ Block \in Nat \ {0} /\ Row256 \in Nat \ {0} /\ Align16 \in Nat \ {0}
      /\ Block33 % Row256 = 0 /\ Block % Row256 = 0
  BY SizesAssumption DEF SplitKProblems
<1>2. ASSUME NEW length \in Nat \ {0}, NEW l2 \in Nat \ {0}
      PROVE  /\ SPLITK!L2Cut(length, l2) \in Nat \ {0}
             /\ \/ SPLITK!L2Cut(length, l2) = length
                \/ \E k \in Nat : SPLITK!L2Cut(length, l2) = k * Block
  <2>1. CASE length <= l2
    BY <2>1 DEF SPLITK!L2Cut
  <2>2. CASE ~(length <= l2)
    <3> DEFINE room == SPLITK!Align(l2, Block)  parts == SPLITK!CeilDiv(length, room)
               even == SPLITK!CeilDiv(length, parts)
    <3>1. room \in Nat \ {0}
      BY <1>1, Aligned
    <3> HIDE DEF room
    <3>2. parts \in Nat \ {0}
      BY <3>1, RoundedUp
    <3> HIDE DEF parts
    <3>3. even \in Nat \ {0}
      BY <3>2, RoundedUp
    <3> HIDE DEF even
    <3>4. SPLITK!L2Cut(length, l2) = SPLITK!Align(even, Block)
      BY <2>2 DEF SPLITK!L2Cut, even, parts, room
    <3> QED BY <3>3, <3>4, <1>1, Aligned
  <2> QED BY <2>1, <2>2
<1>3. /\ s.m = p.m /\ s.n = p.n /\ s.cores = p.cores /\ s.order = p.order /\ s.nz = SPLITK!UnalignOut(p)
      /\ s.singleM = IF p.order = "NK" THEN SPLITK!L2Cut(p.m, p.l2)
                     ELSE IF p.adaptive THEN SPLITK!Least(Block33, SPLITK!Align(p.m, Align16)) ELSE Block33
      /\ s.singleN = IF p.order = "NK" THEN Block33 ELSE SPLITK!L2Cut(p.n, p.l2)
  BY DEF SPLITK!Tiling
<1> HIDE DEF s
<1>4. s.singleM \in Nat \ {0}
  <2>1. SPLITK!L2Cut(p.m, p.l2) \in Nat \ {0} /\ SPLITK!Align(p.m, Align16) \in Nat \ {0}
    BY <1>1, <1>2, Aligned
  <2> QED BY <2>1, <1>1, <1>3 DEF SPLITK!Least
<1>5. s.singleN \in Nat \ {0}
  <2>1. SPLITK!L2Cut(p.n, p.l2) \in Nat \ {0}
    BY <1>1, <1>2
  <2> QED BY <2>1, <1>1, <1>3
<1>6. SPLITK!UnalignOut(p) \in BOOLEAN
  BY DEF SPLITK!UnalignOut
<1>7. ASSUME SPLITK!ByRows(s) PROVE \E k \in Nat : s.singleN = k * Row256
  <2>1. CASE s.order = "NK"
    <3>1. s.singleN = Block33
      BY <2>1, <1>3
    <3>2. Block33 = (Block33 \div Row256) * Row256 /\ Block33 \div Row256 \in Nat
      BY <1>1
    <3> QED BY <3>1, <3>2
  <2>2. CASE s.order = "MK"
    <3>1. s.n # s.singleN
      BY <1>7, <2>2 DEF SPLITK!ByRows, SPLITK!IsL2Split
    <3>2. s.singleN = SPLITK!L2Cut(p.n, p.l2)
      BY <2>2, <1>3
    <3>3. \/ SPLITK!L2Cut(p.n, p.l2) = p.n
          \/ \E k \in Nat : SPLITK!L2Cut(p.n, p.l2) = k * Block
      BY <1>1, <1>2
    <3>4. PICK k \in Nat : s.singleN = k * Block
      BY <3>1, <3>2, <3>3, <1>3
    <3> DEFINE h == Block \div Row256
    <3>5. Block = h * Row256 /\ h \in Nat
      BY <1>1
    <3> HIDE DEF h
    <3>6. k * Block = (k * h) * Row256 /\ k * h \in Nat
      BY <3>5, <1>1
    <3> QED BY <3>4, <3>6
  <2> QED BY <2>1, <2>2, <1>1, <1>3
<1>8. ASSUME NEW k \in Nat, s.singleN = k * Row256 PROVE Row256 <= s.singleN
  <2>1. k # 0
    BY <1>1, <1>5, <1>8
  <2>2. Row256 <= k * Row256
    BY <2>1, <1>1
  <2> QED BY <2>2, <1>8
<1> QED BY <1>1, <1>3, <1>4, <1>5, <1>6, <1>7, <1>8 DEF s

(* The host leaves room for what the kernel takes a tile to be.            *)
LEMMA SizesAgree ==
  ASSUME NEW p \in SplitKProblems
  PROVE  SPLITK!SingleSize(SPLITK!Tiling(p)) = SPLITK!HostSingleSize(SPLITK!Tiling(p))
<1> DEFINE s == SPLITK!Tiling(p)
<1>1. /\ s.m \in Nat \ {0} /\ s.n \in Nat \ {0}
      /\ s.singleM \in Nat \ {0} /\ s.singleN \in Nat \ {0}
      /\ s.nz \in BOOLEAN /\ s.order \in {"NK", "MK"}
  BY SplitKFacts
<1> HIDE DEF s
<1>2. SPLITK!SingleSize(s) = SPLITK!HostSingleSize(s)
  BY <1>1 DEF SPLITK!SingleSize, SPLITK!HostSingleSize, SPLITK!IsL2Split
<1> QED BY <1>2 DEF s

(* The last element of a tile that lies in columns of blocks as high as C. *)
LEMMA NzFits ==
  ASSUME NEW m \in Nat \ {0}, NEW n \in Nat \ {0}, NEW rows \in Nat \ {0}, NEW cols \in Nat \ {0},
         rows <= m, cols <= n, NEW sideM \in Nat, NEW sideN \in Nat,
         SPLITK!Align(m, Align16) <= sideM, SPLITK!Align(n, Align16) <= sideN
  PROVE  (((((cols - 1) \div Align16) * Align16) * m) + ((rows - 1) * Align16)) + ((cols - 1) % Align16)
           < sideM * sideN
<1> DEFINE c == Align16  a == (cols - 1) \div c  b == (cols - 1) % c  r == rows - 1
<1>1. c \in Nat \ {0}
  BY SizesAssumption
<1>2. /\ SPLITK!Align(m, c) \in Nat \ {0} /\ m <= SPLITK!Align(m, c)
      /\ SPLITK!Align(n, c) \in Nat \ {0} /\ n <= SPLITK!Align(n, c)
      /\ \E k \in Nat : SPLITK!Align(n, c) = k * c
  BY <1>1, Aligned
<1> HIDE DEF c
<1>3. a \in Nat /\ b \in 0 .. c - 1 /\ cols - 1 = (c * a) + b
  BY <1>1
<1>4. r \in Nat /\ r + 1 <= m
  OBVIOUS
<1> HIDE DEF a, b, r
<1>5. PICK k \in Nat : SPLITK!Align(n, c) = k * c
  BY <1>2
<1>6. m <= sideM /\ k * c <= sideN /\ n <= k * c
  BY <1>2, <1>5 DEF c
<1>7. a + 1 <= k
  <2>1. SUFFICES ASSUME k <= a PROVE FALSE
    BY <1>3
  <2>2. k * c <= a * c /\ k * c \in Nat /\ a * c \in Nat /\ a * c = c * a
    BY <2>1, <1>1, <1>3
  <2>3. cols <= n /\ cols > c * a
    BY <1>3, <2>2
  <2> QED BY <2>2, <2>3, <1>6
<1> DEFINE x == (a * c) * m  y == r * c
<1>8. y + c <= m * c
  <2>1. (r + 1) * c = y + c /\ (r + 1) * c <= m * c
    BY <1>1, <1>4
  <2> QED BY <2>1
<1>9. x + (m * c) <= (k * c) * m
  <2> DEFINE z == a * c
  <2>1. z \in Nat /\ z + c = (a + 1) * c /\ (a + 1) * c <= k * c /\ k * c \in Nat
    BY <1>1, <1>3, <1>7
  <2> HIDE DEF z
  <2>2. (z + c) * m = (z * m) + (m * c) /\ (z + c) * m <= (k * c) * m
    BY <2>1, <1>1
  <2> QED BY <2>2 DEF z
<1>10. (k * c) * m <= sideM * sideN
  <2> DEFINE z == k * c
  <2>1. z \in Nat /\ z <= sideN
    BY <1>1, <1>6
  <2> HIDE DEF z
  <2>2. z * m <= sideN * m /\ sideN * m <= sideN * sideM /\ sideN * sideM = sideM * sideN
    BY <2>1, <1>6
  <2>3. z * m \in Nat /\ sideN * m \in Nat /\ sideM * sideN \in Nat
    BY <2>1
  <2> QED BY <2>2, <2>3 DEF z
<1>11. x \in Nat /\ y \in Nat /\ m * c \in Nat /\ (k * c) * m \in Nat /\ sideM * sideN \in Nat
  BY <1>1, <1>3, <1>4
<1> HIDE DEF x, y
<1>12. (x + y) + b < sideM * sideN
  <2> DEFINE u == m * c  v == (k * c) * m  w == sideM * sideN
  <2>1. y + c <= u /\ x + u <= v /\ v <= w /\ u \in Nat /\ v \in Nat /\ w \in Nat
    BY <1>8, <1>9, <1>10, <1>11
  <2> HIDE DEF u, v, w
  <2>2. (x + y) + b < w
    BY <2>1, <1>1, <1>3, <1>11
  <2> QED BY <2>2 DEF w
<1> QED BY <1>12 DEF x, y, a, b, r, c

(* The last element of a tile that lies line by line.                      *)
LEMMA LinesFit ==
  ASSUME NEW rows \in Nat \ {0}, NEW cols \in Nat \ {0}, NEW stride \in Nat, cols <= stride,
         NEW high \in Nat, NEW wide \in Nat, rows <= high, stride <= wide
  PROVE  ((rows - 1) * stride) + (cols - 1) < high * wide
<1>1. (rows - 1) * stride = (rows * stride) - stride /\ (rows - 1) * stride \in Nat /\ rows * stride \in Nat
  OBVIOUS
<1>2. rows * stride <= high * stride /\ high * stride <= high * wide
  OBVIOUS
<1>3. high * stride \in Nat /\ high * wide \in Nat
  OBVIOUS
<1> QED BY <1>1, <1>2, <1>3

(* A tile of the output that is numbered by the loops.                     *)
LEMMA TilePositions ==
  ASSUME NEW mCnt \in Nat \ {0}, NEW nCnt \in Nat \ {0}, NEW t \in 0 .. (mCnt * nCnt) - 1
  PROVE  /\ t \div nCnt \in 0 .. mCnt - 1 /\ (t % nCnt) \in 0 .. nCnt - 1
         /\ t \div mCnt \in 0 .. nCnt - 1 /\ (t % mCnt) \in 0 .. mCnt - 1
<1>1. mCnt * nCnt = nCnt * mCnt /\ mCnt * nCnt \in Nat
  OBVIOUS
<1>2. ASSUME NEW a \in Nat \ {0}, NEW b \in Nat \ {0}, t < a * b, a * b \in Nat
      PROVE  t \div a \in 0 .. b - 1 /\ (t % a) \in 0 .. a - 1
  <2> DEFINE q == t \div a  r == t % a
  <2>1. q \in Nat /\ r \in 0 .. a - 1 /\ t = (a * q) + r
    BY <1>1
  <2> HIDE DEF q, r
  <2>2. q <= b - 1
    <3>1. SUFFICES ASSUME b <= q PROVE FALSE
      BY <2>1
    <3>2. a * b <= a * q /\ a * q \in Nat
      BY <3>1, <2>1
    <3> QED BY <3>2, <2>1, <1>2, <1>1
  <2> QED BY <2>1, <2>2 DEF q, r
<1>3. t < mCnt * nCnt /\ t < nCnt * mCnt /\ nCnt * mCnt \in Nat
  <2> DEFINE all == mCnt * nCnt
  <2>1. all \in Nat /\ t \in 0 .. all - 1 /\ nCnt * mCnt = all
    BY <1>1
  <2> HIDE DEF all
  <2>2. t < all
    BY <2>1
  <2> QED BY <2>1, <2>2 DEF all
<1>4. t \div nCnt \in 0 .. mCnt - 1 /\ (t % nCnt) \in 0 .. nCnt - 1
  BY <1>1, <1>2, <1>3
<1>5. t \div mCnt \in 0 .. nCnt - 1 /\ (t % mCnt) \in 0 .. mCnt - 1
  BY <1>1, <1>2, <1>3
<1> QED BY <1>4, <1>5

(* What a tile measures, and how far apart its lines lie.                  *)
LEMMA TileFacts ==
  ASSUME NEW p \in SplitKProblems, NEW t \in SPLITK!Numbers(SPLITK!Tiling(p))
  PROVE  LET s == SPLITK!Tiling(p)
             tile == SPLITK!Tile(s, t)
         IN  /\ tile.rows \in Nat \ {0} /\ tile.rows <= s.m /\ tile.rows <= s.singleM
             /\ tile.cols \in Nat \ {0} /\ tile.cols <= s.n /\ tile.cols <= s.singleN
             /\ tile.stride \in Nat /\ tile.cols <= tile.stride
             /\ tile.stride <= IF SPLITK!ByRows(s) THEN s.singleN ELSE s.n
<1> DEFINE s == SPLITK!Tiling(p)  tile == SPLITK!Tile(s, t)  mCnt == SPLITK!MCnt(s)  nCnt == SPLITK!NCnt(s)
           i == SPLITK!MIndex(s, t)  j == SPLITK!NIndex(s, t)
<1>1. /\ s.m \in Nat \ {0} /\ s.n \in Nat \ {0}
      /\ s.singleM \in Nat \ {0} /\ s.singleN \in Nat \ {0}
      /\ s.order \in {"NK", "MK"}
      /\ SPLITK!ByRows(s) => Row256 <= s.singleN /\ \E k \in Nat : s.singleN = k * Row256
  BY SplitKFacts
<1>2. t \in 0 .. (SPLITK!MCnt(s) * SPLITK!NCnt(s)) - 1
  BY DEF SPLITK!Numbers
<1> HIDE DEF s
<1>3. mCnt = SPLITK!CeilDiv(s.m, s.singleM) /\ nCnt = SPLITK!CeilDiv(s.n, s.singleN)
  BY DEF SPLITK!MCnt, SPLITK!NCnt
<1>4. mCnt \in Nat \ {0} /\ nCnt \in Nat \ {0}
  BY <1>1, <1>3, RoundedUp
<1>5. i \in 0 .. mCnt - 1 /\ j \in 0 .. nCnt - 1
  <2>1. /\ i = IF s.order = "NK" THEN t \div nCnt ELSE t % mCnt
        /\ j = IF s.order = "NK" THEN t % nCnt ELSE t \div mCnt
    BY DEF SPLITK!MIndex, SPLITK!NIndex
  <2>2. t \in 0 .. (mCnt * nCnt) - 1
    BY <1>2
  <2> HIDE DEF mCnt, nCnt, i, j
  <2>3. /\ t \div nCnt \in 0 .. mCnt - 1 /\ (t % nCnt) \in 0 .. nCnt - 1
        /\ t \div mCnt \in 0 .. nCnt - 1 /\ (t % mCnt) \in 0 .. mCnt - 1
    BY <1>4, <2>2, TilePositions
  <2> QED BY <2>1, <2>3
<1>6. /\ tile.rows = IF i = mCnt - 1 THEN s.m - ((mCnt - 1) * s.singleM) ELSE s.singleM
      /\ tile.cols = IF j = nCnt - 1 THEN s.n - ((nCnt - 1) * s.singleN) ELSE s.singleN
      /\ tile.stride = IF ~SPLITK!ByRows(s) THEN s.n
                       ELSE IF j = nCnt - 1 THEN SPLITK!AlignTo256B(tile.cols) ELSE s.singleN
  BY DEF SPLITK!Tile
<1> HIDE DEF tile, i, j, mCnt, nCnt
<1>7. tile.rows \in Nat \ {0} /\ tile.rows <= s.m /\ tile.rows <= s.singleM
  <2>1. i \in Nat /\ i < mCnt
    BY <1>4, <1>5
  <2> QED BY <1>1, <1>3, <1>6, <2>1, ExtentFits
<1>8. tile.cols \in Nat \ {0} /\ tile.cols <= s.n /\ tile.cols <= s.singleN
  <2>1. j \in Nat /\ j < nCnt
    BY <1>4, <1>5
  <2> QED BY <1>1, <1>3, <1>6, <2>1, ExtentFits
<1>9. CASE ~SPLITK!ByRows(s)
  BY <1>1, <1>6, <1>7, <1>8, <1>9 DEF s, tile
<1>10. CASE SPLITK!ByRows(s)
  <2>1. Row256 \in Nat \ {0}
    BY SizesAssumption
  <2>2. PICK k \in Nat : s.singleN = k * Row256
    BY <1>1, <1>10
  <2>3. SPLITK!Align(tile.cols, Row256) \in Nat \ {0} /\ tile.cols <= SPLITK!Align(tile.cols, Row256)
        /\ SPLITK!Align(tile.cols, Row256) <= s.singleN
    BY <1>8, <2>1, <2>2, Aligned
  <2>4. SPLITK!AlignTo256B(tile.cols) \in Nat /\ tile.cols <= SPLITK!AlignTo256B(tile.cols)
        /\ SPLITK!AlignTo256B(tile.cols) <= s.singleN
    BY <1>1, <1>8, <1>10, <2>1, <2>3 DEF SPLITK!AlignTo256B
  <2>5. tile.stride \in Nat /\ tile.cols <= tile.stride /\ tile.stride <= s.singleN
    BY <1>1, <1>6, <1>8, <1>10, <2>4
  <2> QED BY <1>7, <1>8, <1>10, <2>5 DEF s, tile
<1> QED BY <1>9, <1>10

(* The cube cores keep a tile within its half of a slice, whatever the     *)
(* problem and the number of cores.                                        *)
LEMMA TilesFit ==
  ASSUME NEW p \in SplitKProblems
  PROVE  SPLITK!TilesFitSlices(SPLITK!Tiling(p))
<1> DEFINE s == SPLITK!Tiling(p)  half == SPLITK!SingleSize(s)
<1>1. /\ s.m \in Nat \ {0} /\ s.n \in Nat \ {0}
      /\ s.singleM \in Nat \ {0} /\ s.singleN \in Nat \ {0}
      /\ s.nz \in BOOLEAN /\ s.order \in {"NK", "MK"}
  BY SplitKFacts
<1>2. half = SPLITK!HostSingleSize(s)
  BY SizesAgree
<1>3. Align16 \in Nat \ {0}
  BY SizesAssumption
<1>4. half \in Nat
  <2>1. SPLITK!Align(s.m, Align16) \in Nat /\ SPLITK!Align(s.n, Align16) \in Nat
    BY <1>1, <1>3, Aligned
  <2> HIDE DEF s
  <2> DEFINE x == SPLITK!Larger(SPLITK!Align(s.m, Align16), s.singleM)
             y == SPLITK!Larger(SPLITK!Align(s.n, Align16), s.singleN)
  <2>2. x \in Nat /\ y \in Nat
    BY <1>1, <2>1 DEF SPLITK!Larger
  <2>3. half = IF s.nz THEN x * y ELSE s.singleN * s.singleM
    BY <1>2 DEF SPLITK!HostSingleSize
  <2> HIDE DEF half, x, y
  <2>4. x * y \in Nat /\ s.singleN * s.singleM \in Nat
    BY <1>1, <2>2
  <2> QED BY <2>3, <2>4
<1>5. ASSUME NEW t \in SPLITK!Numbers(s)
      PROVE  SPLITK!Source(s, SPLITK!Tile(s, t), SPLITK!Tile(s, t).rows - 1, SPLITK!Tile(s, t).cols - 1) < half
  <2> DEFINE tile == SPLITK!Tile(s, t)
  <2>1. /\ tile.rows \in Nat \ {0} /\ tile.rows <= s.m /\ tile.rows <= s.singleM
        /\ tile.cols \in Nat \ {0} /\ tile.cols <= s.n /\ tile.cols <= s.singleN
        /\ tile.stride \in Nat /\ tile.cols <= tile.stride
        /\ tile.stride <= IF SPLITK!ByRows(s) THEN s.singleN ELSE s.n
    BY TileFacts
  <2> HIDE DEF s, tile
  <2>2. CASE s.nz
    <3> DEFINE x == SPLITK!Larger(SPLITK!Align(s.m, Align16), s.singleM)
               y == SPLITK!Larger(SPLITK!Align(s.n, Align16), s.singleN)
    <3>1. SPLITK!Align(s.m, Align16) \in Nat /\ SPLITK!Align(s.n, Align16) \in Nat
      BY <1>1, <1>3, Aligned
    <3>2. /\ x \in Nat /\ SPLITK!Align(s.m, Align16) <= x
          /\ y \in Nat /\ SPLITK!Align(s.n, Align16) <= y
      BY <1>1, <3>1 DEF SPLITK!Larger
    <3>3. half = x * y
      BY <2>2 DEF SPLITK!SingleSize
    <3>4. SPLITK!Source(s, tile, tile.rows - 1, tile.cols - 1)
            = (((((tile.cols - 1) \div Align16) * Align16) * s.m) + ((tile.rows - 1) * Align16))
              + ((tile.cols - 1) % Align16)
      BY <2>2 DEF SPLITK!Source
    <3> HIDE DEF x, y, half
    <3>5. (((((tile.cols - 1) \div Align16) * Align16) * s.m) + ((tile.rows - 1) * Align16))
              + ((tile.cols - 1) % Align16) < x * y
      BY <1>1, <2>1, <3>2, NzFits
    <3> QED BY <3>3, <3>4, <3>5 DEF tile
  <2>3. CASE ~s.nz
    <3> DEFINE high == IF SPLITK!IsL2Split(s) \/ s.order = "MK" THEN s.singleM ELSE s.m
               wide == IF SPLITK!ByRows(s) THEN s.singleN ELSE s.n
    <3>1. half = high * wide
      <4>1. half = IF SPLITK!IsL2Split(s) THEN s.singleM * s.singleN
                   ELSE IF s.order = "NK" THEN s.singleN * s.m ELSE s.singleM * s.n
        BY <2>3 DEF SPLITK!SingleSize
      <4>2. s.singleN * s.m = s.m * s.singleN
        BY <1>1
      <4>3. SPLITK!ByRows(s) = (SPLITK!IsL2Split(s) \/ s.order = "NK")
        BY DEF SPLITK!ByRows
      <4> HIDE DEF half
      <4> QED BY <4>1, <4>2, <4>3, <1>1
    <3>2. high \in Nat /\ wide \in Nat /\ tile.rows <= high /\ tile.stride <= wide
      BY <1>1, <2>1
    <3>3. SPLITK!Source(s, tile, tile.rows - 1, tile.cols - 1)
            = ((tile.rows - 1) * tile.stride) + (tile.cols - 1)
      BY <2>3 DEF SPLITK!Source
    <3> HIDE DEF high, wide, half
    <3>4. ((tile.rows - 1) * tile.stride) + (tile.cols - 1) < high * wide
      BY <2>1, <3>2, LinesFit
    <3> QED BY <3>1, <3>3, <3>4 DEF tile
  <2> QED BY <2>2, <2>3
<1> HIDE DEF s
<1>6. half <= SPLITK!HostSingleSize(s)
  <2> HIDE DEF half
  <2> QED BY <1>2, <1>4
<1>7. SPLITK!TilesFitSlices(s)
  BY <1>5, <1>6 DEF SPLITK!TilesFitSlices
<1> QED BY <1>7 DEF s

-------------------------------------------------------------------------------
(* The base blocks and the last round of the sliding window.               *)

(* A loop that is written as a recursive function: it takes the step g     *)
(* until it is in Stop.                                                    *)
ComesDown(S, Stop, g, mu) ==
  /\ \A c \in S : mu[c] \in Nat
  /\ \A c \in S \ Stop : g[c] \in S /\ mu[g[c]] < mu[c]
IsLoop(f, S, Stop, g) == f = [c \in S |-> IF c \in Stop THEN c ELSE f[g[c]]]

(* A loop, a step g at a time, that comes down in measure mu to where it   *)
(* stops: its recursive definition has a solution.                         *)
LEMMA LoopEnds ==
  ASSUME NEW S, NEW Stop, NEW g, NEW mu, ComesDown(S, Stop, g, mu)
  PROVE  \E f : IsLoop(f, S, Stop, g)
<1> USE DEF ComesDown
<1> DEFINE Step(f, c) == IF c \in Stop THEN c ELSE f[g[c]]
           UpTo(f, n) == \A c \in S : mu[c] < n => f[c] = Step(f, c)
           Bad == {n \in Nat : ~ \E f : UpTo(f, n)}
<1>1. Bad = {}
  <2>1. SUFFICES ASSUME Bad # {} PROVE FALSE
    OBVIOUS
  <2>2. PICK n \in Bad : \A k \in Bad : n <= k
    <3>1. Bad \in SUBSET Nat
      OBVIOUS
    <3> HIDE DEF Bad
    <3> QED BY <2>1, <3>1, LeastNumber
  <2>3. n \in Nat
    OBVIOUS
  <2>4. n # 0
    <3>1. UpTo(0, 0)
      OBVIOUS
    <3> HIDE DEF UpTo
    <3> QED BY <3>1
  <2>5. n - 1 \in Nat /\ n - 1 \notin Bad
    <3> HIDE DEF Bad
    <3> QED BY <2>2, <2>3, <2>4
  <2>6. PICK f : UpTo(f, n - 1)
    <3> HIDE DEF UpTo
    <3> QED BY <2>5
  <2> DEFINE h == [c \in S |-> IF mu[c] < n - 1 THEN f[c] ELSE Step(f, c)]
  <2>7. ASSUME NEW c \in S, mu[c] < n PROVE h[c] = Step(h, c)
    <3>1. h[c] = Step(f, c)
      BY <2>6
    <3>2. c \notin Stop => h[g[c]] = f[g[c]]
      <4>1. c \notin Stop => g[c] \in S /\ mu[g[c]] < n - 1
        BY <2>3, <2>7
      <4> QED BY <4>1
    <3> HIDE DEF h
    <3> QED BY <3>1, <3>2
  <2>8. UpTo(h, n)
    <3> HIDE DEF h, Step
    <3> QED BY <2>7
  <2> HIDE DEF h, UpTo
  <2> QED BY <2>8
<1> DEFINE Height == {n \in Nat : \E c \in S : mu[c] = n}
           val(c) == (CHOOSE f : UpTo(f, mu[c] + 1))[c]
           F == [c \in S |-> val(c)]
<1>2. \A n \in Nat : \E f : UpTo(f, n)
  BY <1>1
<1>3. ASSUME NEW c \in S, NEW f, NEW n \in Nat, UpTo(f, n), mu[c] < n
      PROVE  f[c] = val(c)
  <2> DEFINE Differ == {k \in Nat : \E d \in S, i \in Nat : \E e :
                           mu[d] = k /\ k < i /\ UpTo(e, i) /\ e[d] # val(d)}
  <2>4. ASSUME NEW d \in S, NEW e, NEW i \in Nat, mu[d] < i, UpTo(e, i), mu[d] \notin Differ
        PROVE  e[d] = val(d)
    <3>1. mu[d] \in Nat
      OBVIOUS
    <3> HIDE DEF UpTo, val
    <3> QED BY <2>4, <3>1
  <2>1. Differ = {}
    <3>1. SUFFICES ASSUME Differ # {} PROVE FALSE
      OBVIOUS
    <3>2. PICK k \in Differ : \A j \in Differ : k <= j
      <4>1. Differ \in SUBSET Nat
        OBVIOUS
      <4> HIDE DEF Differ
      <4> QED BY <3>1, <4>1, LeastNumber
    <3>3. PICK d, i, e : d \in S /\ i \in Nat /\ mu[d] = k /\ k < i /\ UpTo(e, i) /\ e[d] # val(d)
      <4> HIDE DEF UpTo, val
      <4> QED OBVIOUS
    <3> DEFINE w == CHOOSE x : UpTo(x, mu[d] + 1)
    <3>4. UpTo(w, mu[d] + 1) /\ mu[d] + 1 \in Nat
      <4> HIDE DEF UpTo, val, Differ
      <4>1. mu[d] \in Nat
        BY <3>3
      <4> QED BY <1>2, <4>1
    <3> HIDE DEF w
    <3>5. val(d) = w[d]
      BY DEF w
    <3>6. k \in Nat
      OBVIOUS
    <3>7. e[d] = Step(e, d) /\ w[d] = Step(w, d)
      BY <3>3, <3>4, <3>6
    <3>8. d \notin Stop
      BY <3>3, <3>5, <3>7
    <3>9. e[g[d]] = val(g[d]) /\ w[g[d]] = val(g[d])
      <4>1. g[d] \in S /\ mu[g[d]] < k /\ mu[g[d]] \in Nat
        BY <3>3, <3>8
      <4>2. ~(k <= mu[g[d]])
        BY <4>1, <3>6
      <4>3. mu[g[d]] \notin Differ
        <5> HIDE DEF Differ
        <5> QED BY <3>2, <4>2
      <4>4. mu[g[d]] < i /\ mu[g[d]] < mu[d] + 1
        BY <3>3, <3>6, <4>1
      <4> HIDE DEF UpTo, val, Differ
      <4> QED BY <4>1, <4>3, <4>4, <3>3, <3>4, <2>4
    <3> HIDE DEF val
    <3> QED BY <3>3, <3>5, <3>7, <3>8, <3>9
  <2>2. mu[c] \in Nat
    OBVIOUS
  <2>3. mu[c] \notin Differ
    <3> HIDE DEF Differ
    <3> QED BY <2>1
  <2> HIDE DEF UpTo, val, Differ
  <2> QED BY <2>2, <2>3, <2>4, <1>3
<1>4. ASSUME NEW c \in S PROVE F[c] = Step(F, c)
  <2> DEFINE w == CHOOSE x : UpTo(x, mu[c] + 1)
  <2>1. UpTo(w, mu[c] + 1) /\ mu[c] + 1 \in Nat /\ mu[c] < mu[c] + 1
    <3> HIDE DEF UpTo
    <3> QED BY <1>2
  <2> HIDE DEF w
  <2>2. F[c] = w[c]
    BY DEF w
  <2>3. w[c] = Step(w, c)
    BY <2>1
  <2>4. c \notin Stop => g[c] \in S /\ mu[g[c]] < mu[c] + 1
    BY <2>1
  <2>5. c \notin Stop => w[g[c]] = val(g[c])
    <3> HIDE DEF UpTo, val
    <3> QED BY <1>3, <2>1, <2>4
  <2>6. c \notin Stop => F[g[c]] = val(g[c])
    <3> HIDE DEF val
    <3> QED BY <2>4
  <2> HIDE DEF F, val
  <2> QED BY <2>2, <2>3, <2>5, <2>6
<1>5. F = [c \in S |-> Step(F, c)]
  <2>1. F = [c \in S |-> F[c]]
    OBVIOUS
  <2> HIDE DEF F
  <2> QED BY <2>1, <1>4
<1> HIDE DEF F
<1> QED BY <1>5 DEF IsLoop

(* What such a loop keeps holds of where it stops.                         *)
LEMMA LoopKeeps ==
  ASSUME NEW S, NEW Stop, NEW g, NEW mu, ComesDown(S, Stop, g, mu),
         NEW f, IsLoop(f, S, Stop, g),
         NEW Keeps \in SUBSET S, \A c \in Keeps \ Stop : g[c] \in Keeps, NEW x \in Keeps
  PROVE  f[x] \in Keeps /\ f[x] \in Stop
<1> USE DEF ComesDown
<1> DEFINE Bad == {n \in Nat : \E c \in Keeps : mu[c] = n /\ ~(f[c] \in Keeps /\ f[c] \in Stop)}
<1>1. Bad = {}
  <2>1. SUFFICES ASSUME Bad # {} PROVE FALSE
    OBVIOUS
  <2>2. PICK n \in Bad : \A k \in Bad : n <= k
    <3>1. Bad \in SUBSET Nat
      OBVIOUS
    <3> HIDE DEF Bad
    <3> QED BY <2>1, <3>1, LeastNumber
  <2>3. PICK c \in Keeps : mu[c] = n /\ ~(f[c] \in Keeps /\ f[c] \in Stop)
    BY <2>2
  <2>4. n \in Nat /\ c \in S
    OBVIOUS
  <2>5. f[c] = IF c \in Stop THEN c ELSE f[g[c]]
    <3> HIDE DEF Bad
    <3> QED BY <2>4 DEF IsLoop
  <2>6. c \notin Stop
    BY <2>3, <2>5
  <2>7. g[c] \in Keeps /\ mu[g[c]] \in Nat /\ mu[g[c]] < n /\ f[c] = f[g[c]]
    BY <2>3, <2>4, <2>5, <2>6
  <2>8. mu[g[c]] \in Bad
    BY <2>3, <2>7
  <2> HIDE DEF Bad
  <2> QED BY <2>2, <2>4, <2>7, <2>8
<1>2. ASSUME NEW c \in Keeps PROVE f[c] \in Keeps /\ f[c] \in Stop
  <2>1. mu[c] \in Nat
    OBVIOUS
  <2>2. mu[c] \notin Bad
    <3> HIDE DEF Bad
    <3> QED BY <1>1
  <2> QED BY <2>1, <2>2
<1> QED BY <1>2

(* A quotient that is rounded up is the least one that covers.             *)
LEMMA LeastCover ==
  ASSUME NEW a \in Nat \ {0}, NEW b \in Nat \ {0}
  PROVE  /\ ASWT!CeilDiv(a, b) \in Nat \ {0}
         /\ a <= ASWT!CeilDiv(a, b) * b
         /\ (ASWT!CeilDiv(a, b) - 1) * b < a
         /\ \A k \in Nat : a <= k * b => ASWT!CeilDiv(a, b) <= k
<1> DEFINE q == ASWT!CeilDiv(a, b)
<1>1. q \in Nat \ {0} /\ a <= q * b /\ (q - 1) * b < a
  BY RoundedUp DEF SPLITK!CeilDiv, ASWT!CeilDiv
<1> HIDE DEF q
<1>2. ASSUME NEW k \in Nat, a <= k * b PROVE q <= k
  <2>1. SUFFICES ASSUME k <= q - 1 PROVE FALSE
    BY <1>1
  <2>2. k * b <= (q - 1) * b
    BY <2>1, <1>1
  <2>3. k * b \in Nat /\ (q - 1) * b \in Nat
    BY <1>1
  <2> QED BY <2>2, <2>3, <1>1, <1>2
<1> QED BY <1>1, <1>2 DEF q

(* Lengths are rounded up to whole fractals of 16 lines.                   *)
LEMMA WholeFractals ==
  ASSUME NEW a \in Nat \ {0}
  PROVE  /\ ASWT!Align(a, 16) \in Nat \ {0} /\ ASWT!Align(a, 16) % 16 = 0
         /\ a <= ASWT!Align(a, 16)
         /\ \A b \in Nat : b % 16 = 0 /\ a <= b => ASWT!Align(a, 16) <= b
<1> DEFINE q == ASWT!CeilDiv(a, 16)
<1>1. q \in Nat \ {0} /\ a <= q * 16 /\ \A k \in Nat : a <= k * 16 => q <= k
  BY LeastCover
<1>2. ASWT!Align(a, 16) = q * 16
  BY DEF ASWT!Align
<1> HIDE DEF q
<1>3. (q * 16) % 16 = 0
  BY <1>1
<1>4. ASSUME NEW b \in Nat, b % 16 = 0, a <= b PROVE q * 16 <= b
  <2>1. (b \div 16) \in Nat /\ b = (b \div 16) * 16
    BY <1>4
  <2>2. q <= b \div 16
    BY <1>1, <1>4, <2>1
  <2> QED BY <1>1, <2>1, <2>2
<1> QED BY <1>1, <1>2, <1>3, <1>4

(* A shrunk block is the least one of whole fractals of which `count'      *)
(* cover the axis.                                                         *)
LEMMA ShrunkFacts ==
  ASSUME NEW size \in Nat \ {0}, NEW count \in Nat \ {0}
  PROVE  /\ ASWT!Shrunk(size, count) \in Nat \ {0} /\ ASWT!Shrunk(size, count) % 16 = 0
         /\ size <= count * ASWT!Shrunk(size, count)
         /\ \A b \in Nat \ {0} : b % 16 = 0 /\ size <= count * b => ASWT!Shrunk(size, count) <= b
<1> DEFINE q == ASWT!CeilDiv(size, count)  s == ASWT!Align(q, 16)
<1>1. ASWT!Shrunk(size, count) = s
  BY DEF ASWT!Shrunk, ASWT!BASIC_BLOCK_SIZE_16
<1>2. q \in Nat \ {0} /\ size <= q * count /\ \A k \in Nat : size <= k * count => q <= k
  BY LeastCover
<1> HIDE DEF q
<1>3. /\ s \in Nat \ {0} /\ s % 16 = 0 /\ q <= s
      /\ \A b \in Nat : b % 16 = 0 /\ q <= b => s <= b
  BY <1>2, WholeFractals
<1> HIDE DEF s
<1>4. size <= count * s
  <2>1. q * count <= s * count
    BY <1>2, <1>3
  <2>2. q * count \in Nat /\ s * count = count * s /\ count * s \in Nat
    BY <1>2, <1>3
  <2> QED BY <1>2, <2>1, <2>2
<1>5. ASSUME NEW b \in Nat \ {0}, b % 16 = 0, size <= count * b PROVE s <= b
  <2>1. count * b = b * count
    OBVIOUS
  <2> QED BY <1>2, <1>3, <1>5, <2>1
<1> QED BY <1>1, <1>3, <1>4, <1>5

(* Twice as many blocks are shorter ones.                                  *)
LEMMA Halving ==
  ASSUME NEW size \in Nat \ {0}, NEW count \in Nat \ {0}, NEW b \in Nat,
         b % 16 = 0, b >= 32, size <= count * b
  PROVE  ASWT!Shrunk(size, 2 * count) < b
<1> DEFINE h == 16 * (((b \div 16) + 1) \div 2)
<1>1. h \in Nat \ {0} /\ h % 16 = 0 /\ h < b /\ b <= 2 * h
  <2> DEFINE k == b \div 16  j == (k + 1) \div 2
  <2>1. k \in Nat /\ b = 16 * k /\ k >= 2
    OBVIOUS
  <2> HIDE DEF k
  <2>2. j \in Nat /\ j < k /\ k <= 2 * j
    BY <2>1
  <2> HIDE DEF j
  <2>3. h = 16 * j
    BY DEF j, k
  <2>4. (16 * j) % 16 = 0
    BY <2>2
  <2> HIDE DEF h
  <2> QED BY <2>1, <2>2, <2>3, <2>4
<1> HIDE DEF h
<1>2. size <= (2 * count) * h
  <2>1. count * b <= count * (2 * h)
    BY <1>1
  <2>2. count * (2 * h) = (2 * count) * h /\ count * b \in Nat /\ (2 * count) * h \in Nat
    BY <1>1
  <2> QED BY <2>1, <2>2
<1>3. 2 * count \in Nat \ {0}
  OBVIOUS
<1>4. ASWT!Shrunk(size, 2 * count) <= h /\ ASWT!Shrunk(size, 2 * count) \in Nat
  BY <1>1, <1>2, <1>3, ShrunkFacts
<1> QED BY <1>1, <1>4

(* Counts of cores and the blocks that cover the output with them.         *)
Sized(p) == p.m \in Nat \ {0} /\ p.n \in Nat \ {0}
Covering(p, cores) ==
  {c \in ASWT!Cuts :
     /\ c.baseM % 16 = 0 /\ p.m <= c.mCore * c.baseM
     /\ c.baseN % 16 = 0 /\ p.n <= c.nCore * c.baseN
     /\ c.mCore * c.nCore <= cores}

(* Shrinking one side keeps the cores, however many blocks the other takes.*)
LEMMA RecountFits ==
  ASSUME NEW size \in Nat \ {0}, NEW count \in Nat \ {0}
  PROVE  /\ ASWT!CeilDiv(size, ASWT!Shrunk(size, count)) \in Nat \ {0}
         /\ ASWT!CeilDiv(size, ASWT!Shrunk(size, count)) <= count
         /\ size <= ASWT!CeilDiv(size, ASWT!Shrunk(size, count)) * ASWT!Shrunk(size, count)
<1> DEFINE s == ASWT!Shrunk(size, count)
<1>1. s \in Nat \ {0} /\ size <= count * s
  BY ShrunkFacts
<1> HIDE DEF s
<1>2. QED
  <2>1. /\ ASWT!CeilDiv(size, s) \in Nat \ {0} /\ ASWT!CeilDiv(size, s) <= count
        /\ size <= ASWT!CeilDiv(size, s) * s
    BY <1>1, LeastCover
  <2> QED BY <2>1 DEF s

(* How cores are shared out between the two sides.                         *)
LEMMA CoresShared ==
  ASSUME NEW cores \in Nat, NEW count \in Nat \ {0}, 2 * count <= cores
  PROVE  /\ cores \div (2 * count) \in Nat \ {0} /\ 2 * count \in Nat \ {0}
         /\ (cores \div (2 * count)) * (2 * count) <= cores
<1> DEFINE d == 2 * count  q == cores \div d  r == cores % d
<1>1. d \in Nat \ {0} /\ d <= cores
  OBVIOUS
<1> HIDE DEF d
<1>2. q \in Nat /\ r \in 0 .. d - 1 /\ cores = (d * q) + r
  BY <1>1
<1> HIDE DEF q, r
<1>3. q # 0
  BY <1>1, <1>2
<1>4. q * d = d * q
  BY <1>1, <1>2
<1>5. q * d <= cores
  BY <1>1, <1>2, <1>4
<1> QED BY <1>1, <1>2, <1>3, <1>5 DEF q, d

(* Either step of the loops keeps to the cores.                            *)
LEMMA StepCovers ==
  ASSUME NEW p, Sized(p), NEW cores \in Nat,
         NEW i \in Nat \ {0}, NEW j \in Nat \ {0}, i * j <= cores, NEW c \in ASWT!Cuts
  PROVE  ASWT!Counted(p, [c EXCEPT !.baseM = ASWT!Shrunk(p.m, i), !.baseN = ASWT!Shrunk(p.n, j)])
           \in Covering(p, cores)
<1> DEFINE a == ASWT!Shrunk(p.m, i)  b == ASWT!Shrunk(p.n, j)
           x == ASWT!CeilDiv(p.m, a)  y == ASWT!CeilDiv(p.n, b)
<1>1. /\ a \in Nat \ {0} /\ a % 16 = 0 /\ b \in Nat \ {0} /\ b % 16 = 0
      /\ x \in Nat \ {0} /\ x <= i /\ p.m <= x * a
      /\ y \in Nat \ {0} /\ y <= j /\ p.n <= y * b
  BY ShrunkFacts, RecountFits DEF Sized
<1> DEFINE e == [c EXCEPT !.baseM = a, !.baseN = b]
           w == ASWT!Counted(p, e)
<1> HIDE DEF a, b
<1>2. /\ e \in ASWT!Cuts /\ e.baseM = a /\ e.baseN = b
  BY <1>1 DEF ASWT!Cuts
<1> HIDE DEF e
<1>3. w = [e EXCEPT !.mCore = x, !.nCore = y]
  BY <1>2 DEF ASWT!Counted
<1> HIDE DEF x, y, w
<1>4. w \in ASWT!Cuts /\ w.baseM = a /\ w.baseN = b /\ w.mCore = x /\ w.nCore = y
  BY <1>1, <1>2, <1>3 DEF ASWT!Cuts
<1>5. x * y <= cores
  <2>1. x * y <= i * j
    <3>1. x * y <= i * y
      BY <1>1
    <3>2. i * y <= i * j
      BY <1>1
    <3>3. x * y \in Nat /\ i * y \in Nat /\ i * j \in Nat
      BY <1>1
    <3> QED BY <3>1, <3>2, <3>3
  <2>2. x * y \in Nat /\ i * j \in Nat
    BY <1>1
  <2> QED BY <2>1, <2>2
<1>6. w \in Covering(p, cores)
  BY <1>1, <1>4, <1>5 DEF Covering
<1> QED BY <1>6 DEF w, e, a, b

(* The loop that narrows blocks twice as long as they are high: where it   *)
(* stops, its step, and how much is left of it.                            *)
NarrowStop(cores) ==
  {c \in ASWT!Cuts : ~(c.baseN >= 2 * c.baseM /\ c.nCore < cores \div 2)}
NarrowNext(p, cores) == [c \in ASWT!Cuts |-> ASWT!NarrowOnce(p, c, cores)]
IsNarrow(f, p, cores) ==
  f = [c \in ASWT!Cuts |->
         IF c.baseN >= 2 * c.baseM /\ c.nCore < cores \div 2
           THEN f[ASWT!NarrowOnce(p, c, cores)] ELSE c]
InFractals(c, count, size) == c.baseM % 16 = 0 /\ c.baseN % 16 = 0 /\ size <= count
NarrowLeft(p, cores) ==
  [c \in ASWT!Cuts |->
     IF InFractals(c, c.nCore * c.baseN, p.n) THEN c.baseN
     ELSE 1 + ASWT!Shrunk(p.n, 2 * c.nCore)]

LEMMA NarrowSteps ==
  ASSUME NEW p, Sized(p), NEW cores \in Nat, NEW c \in ASWT!Cuts \ NarrowStop(cores)
  PROVE  /\ ASWT!NarrowOnce(p, c, cores) \in Covering(p, cores)
         /\ ASWT!NarrowOnce(p, c, cores).baseN = ASWT!Shrunk(p.n, 2 * c.nCore)
<1>1. /\ c.baseN >= 2 * c.baseM /\ c.nCore < cores \div 2
      /\ c.nCore \in Nat \ {0} /\ c.mCore \in Nat \ {0}
      /\ c.baseM \in Nat \ {0} /\ c.baseN \in Nat \ {0}
  BY DEF NarrowStop, ASWT!Cuts
<1>2. 2 * c.nCore <= cores
  BY <1>1
<1> DEFINE j == 2 * c.nCore  i == cores \div j
<1>3. i \in Nat \ {0} /\ j \in Nat \ {0} /\ i * j <= cores
  BY <1>1, <1>2, CoresShared
<1> DEFINE e == [c EXCEPT !.baseM = ASWT!Shrunk(p.m, i), !.baseN = ASWT!Shrunk(p.n, j)]
<1>4. ASWT!NarrowOnce(p, c, cores) = ASWT!Counted(p, e)
  BY DEF ASWT!NarrowOnce
<1> HIDE DEF i, j
<1>5. ASWT!Counted(p, e) \in Covering(p, cores)
  BY <1>3, StepCovers
<1>6. ASWT!Counted(p, e).baseN = ASWT!Shrunk(p.n, j)
  BY DEF ASWT!Counted, ASWT!Cuts
<1> QED BY <1>4, <1>5, <1>6 DEF j

LEMMA NarrowLess ==
  ASSUME NEW p, Sized(p), NEW cores \in Nat
  PROVE  /\ \A c \in ASWT!Cuts : NarrowLeft(p, cores)[c] \in Nat
         /\ \A c \in ASWT!Cuts \ NarrowStop(cores) :
              /\ NarrowNext(p, cores)[c] \in ASWT!Cuts
              /\ NarrowLeft(p, cores)[NarrowNext(p, cores)[c]] < NarrowLeft(p, cores)[c]
<1>1. ASSUME NEW c \in ASWT!Cuts PROVE NarrowLeft(p, cores)[c] \in Nat
  <2>1. c.nCore \in Nat \ {0} /\ c.baseN \in Nat
    BY DEF ASWT!Cuts
  <2>2. 2 * c.nCore \in Nat \ {0}
    BY <2>1
  <2>3. ASWT!Shrunk(p.n, 2 * c.nCore) \in Nat
    BY <2>2, ShrunkFacts DEF Sized
  <2> QED BY <2>1, <2>3 DEF NarrowLeft
<1>2. ASSUME NEW c \in ASWT!Cuts \ NarrowStop(cores)
      PROVE  /\ NarrowNext(p, cores)[c] \in ASWT!Cuts
             /\ NarrowLeft(p, cores)[NarrowNext(p, cores)[c]] < NarrowLeft(p, cores)[c]
  <2> DEFINE d == ASWT!NarrowOnce(p, c, cores)  s == ASWT!Shrunk(p.n, 2 * c.nCore)
  <2>1. d \in Covering(p, cores) /\ d.baseN = s
    BY NarrowSteps
  <2>2. NarrowNext(p, cores)[c] = d
    BY DEF NarrowNext
  <2> HIDE DEF d
  <2>3. d \in ASWT!Cuts /\ InFractals(d, d.nCore * d.baseN, p.n)
    BY <2>1 DEF Covering, InFractals
  <2>4. NarrowLeft(p, cores)[d] = s
    BY <2>1, <2>3 DEF NarrowLeft
  <2>5. NarrowLeft(p, cores)[c] = IF InFractals(c, c.nCore * c.baseN, p.n) THEN c.baseN ELSE 1 + s
    BY DEF NarrowLeft
  <2>6. c.nCore \in Nat \ {0} /\ c.baseN \in Nat /\ c.baseM \in Nat \ {0} /\ c.baseN >= 2 * c.baseM
    BY DEF ASWT!Cuts, NarrowStop
  <2>7. s \in Nat
    <3>1. 2 * c.nCore \in Nat \ {0}
      BY <2>6
    <3> QED BY <3>1, ShrunkFacts DEF Sized
  <2>8. InFractals(c, c.nCore * c.baseN, p.n) => s < c.baseN
    <3> SUFFICES ASSUME InFractals(c, c.nCore * c.baseN, p.n) PROVE s < c.baseN
      OBVIOUS
    <3>1. c.baseN >= 32 /\ c.baseN % 16 = 0 /\ p.n <= c.nCore * c.baseN
      BY <2>6 DEF InFractals
    <3> QED BY <2>6, <3>1, Halving DEF Sized
  <2> HIDE DEF s
  <2> QED BY <2>2, <2>3, <2>4, <2>5, <2>7, <2>8
<1> QED BY <1>1, <1>2

(* The loop ends with blocks that cover the output within the cores.       *)
LEMMA NarrowCovers ==
  ASSUME NEW p, Sized(p), NEW cores \in Nat, NEW c \in Covering(p, cores)
  PROVE  ASWT!Narrow(p, cores)[c] \in Covering(p, cores)
<1> DEFINE S == ASWT!Cuts  Stop == NarrowStop(cores)
           g == NarrowNext(p, cores)  mu == NarrowLeft(p, cores)
<1>1. ComesDown(S, Stop, g, mu)
  BY NarrowLess DEF ComesDown
<1>2. \A f : IsNarrow(f, p, cores) <=> IsLoop(f, S, Stop, g)
  <2>1. ASSUME NEW f
        PROVE  [d \in ASWT!Cuts |->
                  IF d.baseN >= 2 * d.baseM /\ d.nCore < cores \div 2
                    THEN f[ASWT!NarrowOnce(p, d, cores)] ELSE d]
               = [d \in S |-> IF d \in Stop THEN d ELSE f[g[d]]]
    <3>1. ASSUME NEW d \in ASWT!Cuts
          PROVE  (IF d.baseN >= 2 * d.baseM /\ d.nCore < cores \div 2
                    THEN f[ASWT!NarrowOnce(p, d, cores)] ELSE d)
                 = IF d \in Stop THEN d ELSE f[g[d]]
      <4>1. g[d] = ASWT!NarrowOnce(p, d, cores)
        BY DEF NarrowNext
      <4>2. d \in Stop <=> ~(d.baseN >= 2 * d.baseM /\ d.nCore < cores \div 2)
        BY DEF NarrowStop
      <4> HIDE DEF g, Stop
      <4> QED BY <4>1, <4>2
    <3> HIDE DEF g, Stop
    <3> QED BY <3>1
  <2> HIDE DEF g, Stop
  <2> QED BY <2>1 DEF IsNarrow, IsLoop
<1>3. ASWT!Narrow(p, cores) = CHOOSE f : IsNarrow(f, p, cores)
  BY DEF ASWT!Narrow, IsNarrow
<1> DEFINE f == ASWT!Narrow(p, cores)
<1>4. \E h : IsNarrow(h, p, cores)
  <2> HIDE DEF S, Stop, g, mu
  <2>1. \E h : IsLoop(h, S, Stop, g)
    BY <1>1, LoopEnds
  <2> QED BY <1>2, <2>1
<1>5. IsLoop(f, S, Stop, g)
  BY <1>2, <1>3, <1>4
<1> HIDE DEF f
<1>6. Covering(p, cores) \in SUBSET S
  BY DEF Covering
<1>7. \A d \in Covering(p, cores) \ Stop : g[d] \in Covering(p, cores)
  <2>1. ASSUME NEW d \in Covering(p, cores) \ Stop PROVE g[d] \in Covering(p, cores)
    <3>1. d \in ASWT!Cuts \ NarrowStop(cores)
      BY <1>6
    <3>2. g[d] = ASWT!NarrowOnce(p, d, cores)
      BY <3>1 DEF NarrowNext
    <3> QED BY <3>1, <3>2, NarrowSteps
  <2> QED BY <2>1
<1> DEFINE Keeps == Covering(p, cores)
<1>8. Keeps \in SUBSET S /\ \A d \in Keeps \ Stop : g[d] \in Keeps
  BY <1>6, <1>7
<1>9. c \in Keeps
  OBVIOUS
<1> HIDE DEF S, Stop, g, mu, Keeps
<1>10. f[c] \in Keeps
  BY <1>1, <1>5, <1>8, <1>9, LoopKeeps
<1> QED BY <1>10 DEF f, Keeps

(* The loop that lowers blocks twice as high as they are long.             *)
LowerStop(cores) ==
  {c \in ASWT!Cuts : ~(c.baseM >= 2 * c.baseN /\ c.mCore < cores \div 2)}
LowerNext(p, cores) == [c \in ASWT!Cuts |-> ASWT!LowerOnce(p, c, cores)]
IsLower(f, p, cores) ==
  f = [c \in ASWT!Cuts |->
         IF c.baseM >= 2 * c.baseN /\ c.mCore < cores \div 2
           THEN f[ASWT!LowerOnce(p, c, cores)] ELSE c]
LowerLeft(p, cores) ==
  [c \in ASWT!Cuts |->
     IF InFractals(c, c.mCore * c.baseM, p.m) THEN c.baseM
     ELSE 1 + ASWT!Shrunk(p.m, 2 * c.mCore)]

LEMMA LowerSteps ==
  ASSUME NEW p, Sized(p), NEW cores \in Nat, NEW c \in ASWT!Cuts \ LowerStop(cores)
  PROVE  /\ ASWT!LowerOnce(p, c, cores) \in Covering(p, cores)
         /\ ASWT!LowerOnce(p, c, cores).baseM = ASWT!Shrunk(p.m, 2 * c.mCore)
<1>1. /\ c.baseM >= 2 * c.baseN /\ c.mCore < cores \div 2
      /\ c.mCore \in Nat \ {0} /\ c.nCore \in Nat \ {0}
      /\ c.baseN \in Nat \ {0} /\ c.baseM \in Nat \ {0}
  BY DEF LowerStop, ASWT!Cuts
<1>2. 2 * c.mCore <= cores
  BY <1>1
<1> DEFINE i == 2 * c.mCore  j == cores \div i
<1>3. i \in Nat \ {0} /\ j \in Nat \ {0} /\ j * i <= cores
  BY <1>1, <1>2, CoresShared
<1> DEFINE e == [c EXCEPT !.baseM = ASWT!Shrunk(p.m, i), !.baseN = ASWT!Shrunk(p.n, j)]
<1>4. ASWT!LowerOnce(p, c, cores) = ASWT!Counted(p, e)
  BY DEF ASWT!LowerOnce
<1> HIDE DEF i, j
<1>5. j * i = i * j
  BY <1>3
<1>6. ASWT!Counted(p, e) \in Covering(p, cores)
  BY <1>3, <1>5, StepCovers
<1>7. ASWT!Counted(p, e).baseM = ASWT!Shrunk(p.m, i)
  BY DEF ASWT!Counted, ASWT!Cuts
<1> QED BY <1>4, <1>6, <1>7 DEF i

LEMMA LowerLess ==
  ASSUME NEW p, Sized(p), NEW cores \in Nat
  PROVE  /\ \A c \in ASWT!Cuts : LowerLeft(p, cores)[c] \in Nat
         /\ \A c \in ASWT!Cuts \ LowerStop(cores) :
              /\ LowerNext(p, cores)[c] \in ASWT!Cuts
              /\ LowerLeft(p, cores)[LowerNext(p, cores)[c]] < LowerLeft(p, cores)[c]
<1>1. ASSUME NEW c \in ASWT!Cuts PROVE LowerLeft(p, cores)[c] \in Nat
  <2>1. c.mCore \in Nat \ {0} /\ c.baseM \in Nat
    BY DEF ASWT!Cuts
  <2>2. 2 * c.mCore \in Nat \ {0}
    BY <2>1
  <2>3. ASWT!Shrunk(p.m, 2 * c.mCore) \in Nat
    BY <2>2, ShrunkFacts DEF Sized
  <2> QED BY <2>1, <2>3 DEF LowerLeft
<1>2. ASSUME NEW c \in ASWT!Cuts \ LowerStop(cores)
      PROVE  /\ LowerNext(p, cores)[c] \in ASWT!Cuts
             /\ LowerLeft(p, cores)[LowerNext(p, cores)[c]] < LowerLeft(p, cores)[c]
  <2> DEFINE d == ASWT!LowerOnce(p, c, cores)  s == ASWT!Shrunk(p.m, 2 * c.mCore)
  <2>1. d \in Covering(p, cores) /\ d.baseM = s
    BY LowerSteps
  <2>2. LowerNext(p, cores)[c] = d
    BY DEF LowerNext
  <2> HIDE DEF d
  <2>3. d \in ASWT!Cuts /\ InFractals(d, d.mCore * d.baseM, p.m)
    BY <2>1 DEF Covering, InFractals
  <2>4. LowerLeft(p, cores)[d] = s
    BY <2>1, <2>3 DEF LowerLeft
  <2>5. LowerLeft(p, cores)[c] = IF InFractals(c, c.mCore * c.baseM, p.m) THEN c.baseM ELSE 1 + s
    BY DEF LowerLeft
  <2>6. c.mCore \in Nat \ {0} /\ c.baseM \in Nat /\ c.baseN \in Nat \ {0} /\ c.baseM >= 2 * c.baseN
    BY DEF ASWT!Cuts, LowerStop
  <2>7. s \in Nat
    <3>1. 2 * c.mCore \in Nat \ {0}
      BY <2>6
    <3> QED BY <3>1, ShrunkFacts DEF Sized
  <2>8. InFractals(c, c.mCore * c.baseM, p.m) => s < c.baseM
    <3> SUFFICES ASSUME InFractals(c, c.mCore * c.baseM, p.m) PROVE s < c.baseM
      OBVIOUS
    <3>1. c.baseM >= 32 /\ c.baseM % 16 = 0 /\ p.m <= c.mCore * c.baseM
      BY <2>6 DEF InFractals
    <3> QED BY <2>6, <3>1, Halving DEF Sized
  <2> HIDE DEF s
  <2> QED BY <2>2, <2>3, <2>4, <2>5, <2>7, <2>8
<1> QED BY <1>1, <1>2

(* It too ends with blocks that cover the output within the cores.         *)
LEMMA LowerCovers ==
  ASSUME NEW p, Sized(p), NEW cores \in Nat, NEW c \in Covering(p, cores)
  PROVE  ASWT!Lower(p, cores)[c] \in Covering(p, cores)
<1> DEFINE S == ASWT!Cuts  Stop == LowerStop(cores)
           g == LowerNext(p, cores)  mu == LowerLeft(p, cores)
<1>1. ComesDown(S, Stop, g, mu)
  BY LowerLess DEF ComesDown
<1>2. \A f : IsLower(f, p, cores) <=> IsLoop(f, S, Stop, g)
  <2>1. ASSUME NEW f
        PROVE  [d \in ASWT!Cuts |->
                  IF d.baseM >= 2 * d.baseN /\ d.mCore < cores \div 2
                    THEN f[ASWT!LowerOnce(p, d, cores)] ELSE d]
               = [d \in S |-> IF d \in Stop THEN d ELSE f[g[d]]]
    <3>1. ASSUME NEW d \in ASWT!Cuts
          PROVE  (IF d.baseM >= 2 * d.baseN /\ d.mCore < cores \div 2
                    THEN f[ASWT!LowerOnce(p, d, cores)] ELSE d)
                 = IF d \in Stop THEN d ELSE f[g[d]]
      <4>1. g[d] = ASWT!LowerOnce(p, d, cores)
        BY DEF LowerNext
      <4>2. d \in Stop <=> ~(d.baseM >= 2 * d.baseN /\ d.mCore < cores \div 2)
        BY DEF LowerStop
      <4> HIDE DEF g, Stop
      <4> QED BY <4>1, <4>2
    <3> HIDE DEF g, Stop
    <3> QED BY <3>1
  <2> HIDE DEF g, Stop
  <2> QED BY <2>1 DEF IsLower, IsLoop
<1>3. ASWT!Lower(p, cores) = CHOOSE f : IsLower(f, p, cores)
  BY DEF ASWT!Lower, IsLower
<1> DEFINE f == ASWT!Lower(p, cores)
<1>4. \E h : IsLower(h, p, cores)
  <2> HIDE DEF S, Stop, g, mu
  <2>1. \E h : IsLoop(h, S, Stop, g)
    BY <1>1, LoopEnds
  <2> QED BY <1>2, <2>1
<1>5. IsLoop(f, S, Stop, g)
  BY <1>2, <1>3, <1>4
<1> HIDE DEF f
<1>6. Covering(p, cores) \in SUBSET S
  BY DEF Covering
<1>7. \A d \in Covering(p, cores) \ Stop : g[d] \in Covering(p, cores)
  <2>1. ASSUME NEW d \in Covering(p, cores) \ Stop PROVE g[d] \in Covering(p, cores)
    <3>1. d \in ASWT!Cuts \ LowerStop(cores)
      BY <1>6
    <3>2. g[d] = ASWT!LowerOnce(p, d, cores)
      BY <3>1 DEF LowerNext
    <3> QED BY <3>1, <3>2, LowerSteps
  <2> QED BY <2>1
<1> DEFINE Keeps == Covering(p, cores)
<1>8. Keeps \in SUBSET S /\ \A d \in Keeps \ Stop : g[d] \in Keeps
  BY <1>6, <1>7
<1>9. c \in Keeps
  OBVIOUS
<1> HIDE DEF S, Stop, g, mu, Keeps
<1>10. f[c] \in Keeps
  BY <1>1, <1>5, <1>8, <1>9, LoopKeeps
<1> QED BY <1>10 DEF f, Keeps

(* The first cut, which the loops go on from.                              *)
LEMMA FirstCovers ==
  ASSUME NEW p, Sized(p), p.baseM \in Nat \ {0}, p.baseN \in Nat \ {0}, NEW cores \in Nat,
         ASWT!MCnt(p) * ASWT!NCnt(p) < cores
  PROVE  ASWT!FirstCut(p, cores) \in Covering(p, cores)
<1> DEFINE M == ASWT!MCnt(p)  N == ASWT!NCnt(p)
           a == ASWT!Shrunk(p.m, M)  b == ASWT!Shrunk(p.n, N)
           x == ASWT!CeilDiv(p.m, a)  y == ASWT!CeilDiv(p.n, b)
           i == cores \div y  j == cores \div x
<1>1. M \in Nat \ {0} /\ N \in Nat \ {0}
  BY LeastCover DEF ASWT!MCnt, ASWT!NCnt, Sized
<1>2. M * N < cores
  OBVIOUS
<1>3. ASWT!FirstCut(p, cores) =
        IF M <= N THEN [mCore |-> x, nCore |-> j, baseM |-> a, baseN |-> ASWT!Shrunk(p.n, j)]
        ELSE [mCore |-> i, nCore |-> y, baseM |-> ASWT!Shrunk(p.m, i), baseN |-> b]
  <2> HIDE DEF a, b, M, N
  <2> QED BY DEF ASWT!FirstCut, a, b, M, N
<1> HIDE DEF M, N
<1>4. /\ a \in Nat \ {0} /\ a % 16 = 0 /\ x \in Nat \ {0} /\ x <= M /\ p.m <= x * a
      /\ b \in Nat \ {0} /\ b % 16 = 0 /\ y \in Nat \ {0} /\ y <= N /\ p.n <= y * b
  BY <1>1, ShrunkFacts, RecountFits DEF Sized
<1> HIDE DEF a, b, x, y
<1>5. M <= M * N /\ N <= M * N /\ M * N \in Nat
  BY <1>1
<1>6. x <= cores /\ y <= cores
  BY <1>1, <1>2, <1>4, <1>5
<1>7. ASSUME NEW d \in Nat \ {0}, d <= cores
      PROVE  cores \div d \in Nat \ {0} /\ (cores \div d) * d <= cores /\ d * (cores \div d) <= cores
  <2> DEFINE q == cores \div d  r == cores % d
  <2>1. q \in Nat /\ r \in 0 .. d - 1 /\ cores = (d * q) + r
    BY <1>7
  <2> HIDE DEF q, r
  <2>2. q # 0
    BY <1>7, <2>1
  <2>3. q * d = d * q /\ d * q \in Nat
    BY <2>1
  <2>4. d * q <= cores
    BY <2>1, <2>3
  <2> QED BY <2>1, <2>2, <2>3, <2>4 DEF q
<1>8. /\ j \in Nat \ {0} /\ x * j <= cores
      /\ i \in Nat \ {0} /\ i * y <= cores
  BY <1>4, <1>6, <1>7
<1> HIDE DEF i, j
<1>9. CASE M <= N
  <2> DEFINE s == ASWT!Shrunk(p.n, j)
             c == [mCore |-> x, nCore |-> j, baseM |-> a, baseN |-> s]
  <2>1. s \in Nat \ {0} /\ s % 16 = 0 /\ p.n <= j * s
    BY <1>8, ShrunkFacts DEF Sized
  <2> HIDE DEF s
  <2>2. c \in Covering(p, cores)
    BY <1>4, <1>8, <2>1 DEF Covering, ASWT!Cuts
  <2> QED BY <1>3, <1>9, <2>2 DEF s
<1>10. CASE ~(M <= N)
  <2> DEFINE s == ASWT!Shrunk(p.m, i)
             c == [mCore |-> i, nCore |-> y, baseM |-> s, baseN |-> b]
  <2>1. s \in Nat \ {0} /\ s % 16 = 0 /\ p.m <= i * s
    BY <1>8, ShrunkFacts DEF Sized
  <2> HIDE DEF s
  <2>2. c \in Covering(p, cores)
    BY <1>4, <1>8, <2>1 DEF Covering, ASWT!Cuts
  <2> QED BY <1>3, <1>10, <2>2 DEF s
<1> QED BY <1>9, <1>10

(* A problem once the host has settled on a base block.                    *)
Settled(p) ==
  /\ p.batch \in Nat \ {0} /\ p.m \in Nat \ {0} /\ p.n \in Nat \ {0} /\ p.cores \in Nat \ {0}
  /\ p.baseM \in Nat \ {0} /\ p.baseM % 16 = 0
  /\ p.baseN \in Nat \ {0} /\ p.baseN % 16 = 0
  /\ p.way \in {"none", "A", "B"}
  /\ p.batch > 1 => p.way = "none"

LEMMA ProblemFacts ==
  ASSUME NEW p \in AswtProblems
  PROVE  Settled(p)
<1>1. /\ p.batch \in AswtBatches /\ p.m \in AswtSizes /\ p.n \in AswtSizes /\ p.cores \in AswtCores
      /\ p.baseM \in AswtBases /\ p.baseN \in AswtBases /\ p.way \in {"none", "A", "B"}
      /\ p.batch > 1 => p.way = "none"
  BY DEF AswtProblems
<1>2. /\ AswtBatches \subseteq Nat \ {0} /\ AswtSizes \subseteq Nat \ {0} /\ AswtCores \subseteq Nat \ {0}
      /\ AswtBases \subseteq Nat \ {0} /\ \A base \in AswtBases : base % 16 = 0
  BY SizesAssumption
<1> QED BY <1>1, <1>2 DEF Settled

(* With less blocks than cores, the two loops one after the other.         *)
LEMMA CutCovers ==
  ASSUME NEW p, Settled(p), ASWT!MCnt(p) * ASWT!NCnt(p) < p.cores
  PROVE  ASWT!CalcBasicBlock(p, p.cores) \in Covering(p, p.cores)
<1> DEFINE c == ASWT!FirstCut(p, p.cores)  d == ASWT!Narrow(p, p.cores)[c]
<1>1. Sized(p) /\ p.cores \in Nat
  BY DEF Settled, Sized
<1>2. c \in Covering(p, p.cores)
  BY <1>1, FirstCovers DEF Settled
<1> HIDE DEF c
<1>3. d \in Covering(p, p.cores)
  BY <1>1, <1>2, NarrowCovers
<1> HIDE DEF d
<1>4. ASWT!Lower(p, p.cores)[d] \in Covering(p, p.cores)
  BY <1>1, <1>3, LowerCovers
<1> QED BY <1>4 DEF ASWT!CalcBasicBlock, c, d

(* Blocks that cover the output are no more than the cores.                *)
LEMMA CountsFit ==
  ASSUME NEW p, Sized(p), NEW cores \in Nat, NEW c \in Covering(p, cores)
  PROVE  ASWT!CeilDiv(p.m, c.baseM) * ASWT!CeilDiv(p.n, c.baseN) <= cores
<1> DEFINE x == ASWT!CeilDiv(p.m, c.baseM)  y == ASWT!CeilDiv(p.n, c.baseN)
<1>1. /\ c.mCore \in Nat \ {0} /\ c.nCore \in Nat \ {0} /\ c.baseM \in Nat \ {0} /\ c.baseN \in Nat \ {0}
      /\ p.m <= c.mCore * c.baseM /\ p.n <= c.nCore * c.baseN /\ c.mCore * c.nCore <= cores
  BY DEF Covering, ASWT!Cuts
<1>2. x \in Nat /\ y \in Nat /\ x <= c.mCore /\ y <= c.nCore
  BY <1>1, LeastCover DEF Sized
<1> HIDE DEF x, y
<1>3. x * y <= c.mCore * y /\ c.mCore * y <= c.mCore * c.nCore
  BY <1>1, <1>2
<1>4. x * y \in Nat /\ c.mCore * y \in Nat /\ c.mCore * c.nCore \in Nat
  BY <1>1, <1>2
<1>5. x * y <= cores
  BY <1>1, <1>3, <1>4
<1> QED BY <1>5 DEF x, y

LEMMA Formulated ==
  ASSUME NEW p \in AswtProblems
  PROVE  /\ Settled(ASWT!FormulateBasicBlock(p))
         /\ ASWT!ShrunkFits(p, ASWT!FormulateBasicBlock(p))
<1>1. Settled(p) /\ Sized(p)
  BY ProblemFacts DEF Settled, Sized
<1> DEFINE few == ASWT!MCnt(p) * ASWT!NCnt(p) < p.cores
           cut == ASWT!CalcBasicBlock(p, p.cores)
           whole == [baseM |-> ASWT!Least(ASWT!Align(p.m, 16), p.baseM),
                     baseN |-> ASWT!Least(ASWT!Align(p.n, 16), p.baseN)]
           c == IF few THEN cut ELSE whole
           f == ASWT!FormulateBasicBlock(p)
<1>2. f = [p EXCEPT !.baseM = c.baseM, !.baseN = c.baseN]
  BY DEF ASWT!FormulateBasicBlock, ASWT!BASIC_BLOCK_SIZE_16
<1>3. few => cut \in Covering(p, p.cores)
  BY <1>1, CutCovers
<1>4. /\ c.baseM \in Nat \ {0} /\ c.baseM % 16 = 0
      /\ c.baseN \in Nat \ {0} /\ c.baseN % 16 = 0
  <2>1. CASE few
    <3> HIDE DEF cut, few
    <3>1. cut \in Covering(p, p.cores)
      BY <2>1, <1>3
    <3> QED BY <2>1, <3>1 DEF Covering, ASWT!Cuts
  <2>2. CASE ~few
    <3> DEFINE a == ASWT!Align(p.m, 16)  b == ASWT!Align(p.n, 16)
    <3>1. a \in Nat \ {0} /\ a % 16 = 0 /\ b \in Nat \ {0} /\ b % 16 = 0
      BY <1>1, WholeFractals DEF Settled
    <3>2. /\ p.baseM \in Nat \ {0} /\ p.baseM % 16 = 0
          /\ p.baseN \in Nat \ {0} /\ p.baseN % 16 = 0
      BY <1>1 DEF Settled
    <3> HIDE DEF a, b, few, cut
    <3>3. c.baseM \in {a, p.baseM} /\ c.baseN \in {b, p.baseN}
      BY <2>2 DEF ASWT!Least, a, b
    <3> HIDE DEF c
    <3> QED BY <3>1, <3>2, <3>3
  <2> QED BY <2>1, <2>2
<1>5. /\ f.batch = p.batch /\ f.m = p.m /\ f.n = p.n /\ f.cores = p.cores /\ f.way = p.way
      /\ f.baseM = c.baseM /\ f.baseN = c.baseN
  <2> HIDE DEF c
  <2> QED BY <1>2 DEF AswtProblems
<1>6. few => ASWT!MCnt(f) * ASWT!NCnt(f) <= p.cores
  <2> SUFFICES ASSUME few PROVE ASWT!MCnt(f) * ASWT!NCnt(f) <= p.cores
    OBVIOUS
  <2>1. cut \in Covering(p, p.cores) /\ p.cores \in Nat
    BY <1>1, <1>3 DEF Settled
  <2>2. f.baseM = cut.baseM /\ f.baseN = cut.baseN
    <3> HIDE DEF few, cut, f
    <3> QED BY <1>5
  <2> HIDE DEF few, cut, f, c
  <2>3. ASWT!CeilDiv(p.m, cut.baseM) * ASWT!CeilDiv(p.n, cut.baseN) <= p.cores
    BY <1>1, <2>1, CountsFit
  <2> QED BY <1>5, <2>2, <2>3 DEF ASWT!MCnt, ASWT!NCnt
<1> HIDE DEF c, f
<1>7. Settled(f)
  BY <1>1, <1>4, <1>5 DEF Settled
<1>8. ASWT!ShrunkFits(p, f)
  BY <1>4, <1>5, <1>6 DEF ASWT!ShrunkFits, ASWT!BASIC_BLOCK_SIZE_16
<1> QED BY <1>7, <1>8 DEF f

(* Blocks of an axis that fit into L1.                                     *)
BlocksFitL1(axis) ==
  /\ axis.l1 \in Nat \ {0} /\ axis.last \in 1 .. axis.l1
  /\ \A i \in 0 .. axis.count - 1 : ASWT!Length(axis, i) \in 1 .. axis.l1

(* What the host may even out: a short last block, with less than all      *)
(* others.                                                                 *)
Evenable(more, size, base) ==
  /\ more \in Nat
  /\ more # 0 => size % base > 0 /\ more < ASWT!CeilDiv(size, base)

(* No block of an axis is longer than the buffers are laid out for, or     *)
(* empty: `more' blocks in front of the last one are evened out with it    *)
(* only where the last one is short.                                       *)
LEMMA AxisFits ==
  ASSUME NEW size \in Nat \ {0}, NEW l1 \in Nat \ {0}, NEW base \in Nat \ {0}, NEW more,
         base % 16 = 0, Evenable(more, size, base), more # 0 => l1 = base
  PROVE  /\ ASWT!Axis(size, l1, ASWT!Evened(size, base, more)).count = ASWT!CeilDiv(size, l1)
         /\ BlocksFitL1(ASWT!Axis(size, l1, ASWT!Evened(size, base, more)))
<1> USE DEF Evenable
<1> DEFINE axis == ASWT!Axis(size, l1, ASWT!Evened(size, base, more))
           count == ASWT!CeilDiv(size, l1)
           edge == ASWT!Evened(size, base, more)
           norm == count - edge.count
           before == norm * l1
           rest == size - before
           main == IF edge.count = 1 THEN rest ELSE edge.main
           behind == (edge.count - 1) * main
           last == rest - behind
<1>1. /\ axis.count = count /\ axis.l1 = l1 /\ axis.norm = norm
      /\ axis.main = main /\ axis.last = last
  BY DEF ASWT!Axis
<1> HIDE DEF axis
<1>2. count \in Nat \ {0} /\ size <= count * l1 /\ (count - 1) * l1 < size
  BY LeastCover
<1>3. edge.count = more + 1 /\ (more = 0 => edge.main = 0)
  BY DEF ASWT!Evened
<1>4. ASSUME main \in 1 .. l1, last \in 1 .. l1
      PROVE  BlocksFitL1(axis)
  <2>1. l1 \in 1 .. l1
    OBVIOUS
  <2> HIDE DEF main, last, norm, count
  <2> QED BY <1>1, <1>4, <2>1 DEF ASWT!Length, BlocksFitL1
<1>5. CASE more = 0
  <2>1. edge.count = 1
    BY <1>3, <1>5
  <2> HIDE DEF edge, count
  <2>2. before = (count - 1) * l1
    BY <2>1
  <2>3. (count - 1) * l1 = (count * l1) - l1 /\ count * l1 \in Nat
    BY <1>2
  <2> HIDE DEF before, norm
  <2>4. rest \in 1 .. l1
    BY <1>2, <2>2, <2>3
  <2>5. main = rest
    BY <2>1
  <2> HIDE DEF rest, main
  <2>6. behind = 0
    BY <2>1, <2>4, <2>5
  <2> HIDE DEF behind
  <2>7. last \in 1 .. l1
    BY <2>4, <2>6
  <2>8. axis.count = ASWT!CeilDiv(size, l1)
    BY <1>1 DEF count
  <2>9. main \in 1 .. l1
    BY <2>4, <2>5
  <2> HIDE DEF last
  <2> QED BY <1>4, <2>7, <2>8, <2>9 DEF axis
<1>6. CASE more # 0
  <2> DEFINE r == size % base  sum == (more * base) + r
             q == ASWT!CeilDiv(sum, more + 1)
  <2>1. l1 = base /\ base % 16 = 0 /\ r \in 1 .. base - 1 /\ more < count
    BY <1>6
  <2>2. size = (count * base) - base + r
    <3> DEFINE d == size \div base
    <3>1. d \in Nat /\ size = (base * d) + r
      OBVIOUS
    <3> HIDE DEF d, count, r
    <3>2. d = count - 1
      <4>1. count <= d + 1
        <5>1. size <= (d + 1) * base
          <6>1. (d + 1) * base = (base * d) + base
            BY <3>1
          <6> QED BY <2>1, <3>1, <6>1
        <5>2. d + 1 \in Nat
          BY <3>1
        <5>3. \A k \in Nat : size <= k * base => ASWT!CeilDiv(size, base) <= k
          BY LeastCover
        <5>4. ASWT!CeilDiv(size, base) <= d + 1
          BY <5>1, <5>2, <5>3
        <5> QED BY <2>1, <5>4 DEF count
      <4>2. d <= count - 1
        <5>1. SUFFICES ASSUME count <= d PROVE FALSE
          BY <1>2, <3>1
        <5>2. count * base <= d * base
          BY <5>1, <1>2, <3>1
        <5>3. d * base = base * d /\ d * base \in Nat /\ count * base \in Nat
          BY <1>2, <3>1
        <5> QED BY <1>2, <2>1, <3>1, <5>2, <5>3
      <4> QED BY <1>2, <3>1, <4>1, <4>2
    <3>3. base * (count - 1) = (count * base) - base
      BY <1>2
    <3> QED BY <3>1, <3>2, <3>3
  <2>3. /\ sum \in Nat \ {0} /\ more + 1 \in Nat \ {0}
        /\ sum <= (more + 1) * base
    <3>1. (more + 1) * base = (more * base) + base /\ more * base \in Nat
      OBVIOUS
    <3> HIDE DEF r
    <3> QED BY <2>1, <3>1
  <2>4. edge.main = ASWT!Align(q, 16) /\ edge.count = more + 1
    <3> HIDE DEF q
    <3> QED BY <1>6 DEF ASWT!Evened, ASWT!BASIC_BLOCK_SIZE_16, q
  <2> HIDE DEF sum
  <2>5. q \in Nat \ {0} /\ sum <= q * (more + 1) /\ q <= base
    <3>1. sum <= base * (more + 1)
      <4>1. (more + 1) * base = base * (more + 1)
        OBVIOUS
      <4> QED BY <2>3, <4>1
    <3> QED BY <2>3, <3>1, LeastCover
  <2> HIDE DEF q, edge
  <2>6. main = edge.main
    BY <1>6, <2>4
  <2>7. main \in Nat \ {0} /\ q <= main /\ main <= base
    BY <2>1, <2>4, <2>5, <2>6, WholeFractals
  <2> HIDE DEF main, count, r
  <2>8. rest = sum
    <3>1. norm = count - (more + 1)
      BY <2>4
    <3>2. before = (count * base) - (more * base) - base
      <4>1. before = (count - (more + 1)) * base
        BY <2>1, <3>1
      <4> QED BY <4>1, <1>2
    <3>3. count * base \in Nat /\ more * base \in Nat
      BY <1>2
    <3> HIDE DEF before, norm
    <3> QED BY <2>1, <2>2, <3>2, <3>3 DEF sum
  <2> HIDE DEF rest
  <2>9. behind = more * main
    BY <2>4, <2>7
  <2> HIDE DEF behind
  <2>10. last \in 1 .. base
    <3>1. more * main <= more * base
      BY <2>7
    <3>2. more * main \in Nat /\ more * base \in Nat /\ sum = (more * base) + r
      BY <2>7 DEF sum
    <3>3. sum <= (more * main) + main
      <4>1. q * (more + 1) <= main * (more + 1)
        BY <2>5, <2>7
      <4>2. main * (more + 1) = (more * main) + main /\ q * (more + 1) \in Nat
        BY <2>5, <2>7
      <4> QED BY <2>3, <2>5, <2>7, <3>2, <4>1, <4>2
    <3>4. last = sum - (more * main)
      BY <2>8, <2>9
    <3> HIDE DEF last
    <3> QED BY <2>1, <2>3, <2>7, <3>1, <3>2, <3>3, <3>4
  <2>11. main \in 1 .. l1 /\ last \in 1 .. l1
    <3> HIDE DEF last
    <3> QED BY <2>1, <2>7, <2>10
  <2>12. axis.count = ASWT!CeilDiv(size, l1)
    BY <1>1 DEF count
  <2> HIDE DEF last
  <2> QED BY <1>4, <2>11, <2>12 DEF axis
<1> QED BY <1>5, <1>6

LEMMA MoreFacts ==
  ASSUME NEW size \in Nat \ {0}, NEW base \in Nat \ {0}, NEW more \in ASWT!More(size, base),
         size % base > 0
  PROVE  Evenable(more, size, base)
<1> DEFINE count == ASWT!CeilDiv(size, base)  gap == (base - (size % base)) \div 16
<1>1. count \in Nat \ {0}
  BY LeastCover
<1>2. gap \in Int
  <2>1. base - (size % base) \in Int
    OBVIOUS
  <2> QED BY <2>1
<1>3. more \in {0} \cup 1 .. ASWT!Least(gap, count) - 1
  BY DEF ASWT!More, ASWT!BASIC_BLOCK_SIZE_16
<1> HIDE DEF gap, count
<1>4. ASWT!Least(gap, count) \in Int /\ ASWT!Least(gap, count) <= count
  BY <1>1, <1>2 DEF ASWT!Least
<1>5. more \in Nat /\ (more # 0 => more < count)
  BY <1>1, <1>3, <1>4
<1> QED BY <1>5 DEF Evenable, count

LEMMA EdgeFacts ==
  ASSUME NEW p, Settled(p), NEW edge \in ASWT!Edges(p)
  PROVE  /\ Evenable(edge[1], p.m, p.baseM) /\ Evenable(edge[2], p.n, p.baseN)
         /\ edge[1] # 0 => p.way = "none" /\ ASWT!MCnt(p) # 1
         /\ edge[2] # 0 => p.way = "none" /\ ASWT!NCnt(p) # 1
<1> DEFINE none == p.way # "none" \/ ASWT!MCnt(p) * ASWT!NCnt(p) < p.cores \/ ASWT!MCnt(p) = 1 \/ ASWT!NCnt(p) = 1
           rows == IF p.m % p.baseM > 0 THEN {<<more, 0>> : more \in ASWT!More(p.m, p.baseM)} ELSE {}
           columns == IF p.n % p.baseN > 0 THEN {<<0, more>> : more \in ASWT!More(p.n, p.baseN)} ELSE {}
<1>1. edge \in IF none THEN {<<0, 0>>} ELSE {<<0, 0>>} \cup rows \cup columns
  <2> HIDE DEF rows, columns, none
  <2> QED BY DEF ASWT!Edges, rows, columns, none
<1>2. Evenable(0, p.m, p.baseM) /\ Evenable(0, p.n, p.baseN)
  BY DEF Evenable
<1>3. CASE edge = <<0, 0>>
  BY <1>2, <1>3
<1>4. CASE ~none /\ edge \in rows
  <2>1. PICK more \in ASWT!More(p.m, p.baseM) : edge = <<more, 0>> /\ p.m % p.baseM > 0
    BY <1>4
  <2>2. Evenable(more, p.m, p.baseM)
    BY <2>1, MoreFacts DEF Settled
  <2> QED BY <1>2, <1>4, <2>1, <2>2
<1>5. CASE ~none /\ edge \in columns
  <2>1. PICK more \in ASWT!More(p.n, p.baseN) : edge = <<0, more>> /\ p.n % p.baseN > 0
    BY <1>5
  <2>2. Evenable(more, p.n, p.baseN)
    BY <2>1, MoreFacts DEF Settled
  <2> QED BY <1>2, <1>5, <2>1, <2>2
<1> HIDE DEF rows, columns, none
<1> QED BY <1>1, <1>3, <1>4, <1>5

(* An L1 block is as long as the host asks for, or as the axis.            *)
LEMMA SideFits ==
  ASSUME NEW size \in Nat \ {0}, NEW base \in Nat \ {0}, NEW cap \in Nat \ {0}, NEW more,
         base % 16 = 0, Evenable(more, size, base),
         more # 0 => cap = base /\ ASWT!CeilDiv(size, base) # 1
  PROVE  LET axis == ASWT!Axis(size, ASWT!Least(ASWT!Align(size, 16), cap), ASWT!Evened(size, base, more))
         IN  axis.count = ASWT!CeilDiv(size, cap) /\ BlocksFitL1(axis)
<1> DEFINE a == ASWT!Align(size, 16)  l1 == ASWT!Least(a, cap)
<1>1. a \in Nat \ {0} /\ size <= a
  BY WholeFractals
<1> HIDE DEF a
<1>2. l1 \in Nat \ {0} /\ (l1 = cap \/ (l1 = a /\ a < cap))
  BY <1>1 DEF ASWT!Least
<1> HIDE DEF l1
<1>4. ASWT!CeilDiv(size, l1) = ASWT!CeilDiv(size, cap)
  <2>1. CASE l1 = cap
    BY <2>1
  <2>2. CASE l1 = a /\ a < cap
    <3>1. ASWT!CeilDiv(size, a) \in Nat \ {0} /\ ASWT!CeilDiv(size, cap) \in Nat \ {0}
      BY <1>1, LeastCover
    <3>2. size <= 1 * a /\ size <= 1 * cap
      BY <1>1, <2>2
    <3>3. ASWT!CeilDiv(size, a) <= 1 /\ ASWT!CeilDiv(size, cap) <= 1
      BY <1>1, <3>2, LeastCover
    <3> QED BY <2>2, <3>1, <3>3
  <2> QED BY <1>2, <2>1, <2>2
<1>5. more # 0 => l1 = base
  <2> SUFFICES ASSUME more # 0, l1 = a, a < base PROVE FALSE
    BY <1>2
  <2>1. size <= 1 * base
    BY <1>1
  <2>2. ASWT!CeilDiv(size, base) <= 1 /\ ASWT!CeilDiv(size, base) \in Nat \ {0}
    BY <2>1, LeastCover
  <2> QED BY <2>2
<1>6. /\ ASWT!Axis(size, l1, ASWT!Evened(size, base, more)).count = ASWT!CeilDiv(size, l1)
      /\ BlocksFitL1(ASWT!Axis(size, l1, ASWT!Evened(size, base, more)))
  BY <1>2, <1>5, AxisFits
<1> QED BY <1>4, <1>6 DEF l1, a

(* The two axes of a problem; a fully loaded one is a single block.        *)
LEMMA AxesFit ==
  ASSUME NEW p, Settled(p), p.edge \in ASWT!Edges(p)
  PROVE  /\ ASWT!MAxis(p).count = IF p.way = "A" THEN 1 ELSE ASWT!MCnt(p)
         /\ ASWT!NAxis(p).count = IF p.way = "B" THEN 1 ELSE ASWT!NCnt(p)
         /\ BlocksFitL1(ASWT!MAxis(p)) /\ BlocksFitL1(ASWT!NAxis(p))
<1> DEFINE M == ASWT!MCnt(p)  N == ASWT!NCnt(p)
           capM == IF p.way = "A" THEN M * p.baseM ELSE p.baseM
           capN == IF p.way = "B" THEN N * p.baseN ELSE p.baseN
<1>1. /\ p.m \in Nat \ {0} /\ p.baseM \in Nat \ {0} /\ p.baseM % 16 = 0
      /\ p.n \in Nat \ {0} /\ p.baseN \in Nat \ {0} /\ p.baseN % 16 = 0
  BY DEF Settled
<1>2. /\ M = ASWT!CeilDiv(p.m, p.baseM) /\ M \in Nat \ {0} /\ p.m <= M * p.baseM
      /\ N = ASWT!CeilDiv(p.n, p.baseN) /\ N \in Nat \ {0} /\ p.n <= N * p.baseN
  BY <1>1, LeastCover DEF ASWT!MCnt, ASWT!NCnt
<1>3. /\ Evenable(p.edge[1], p.m, p.baseM) /\ (p.edge[1] # 0 => p.way = "none" /\ M # 1)
      /\ Evenable(p.edge[2], p.n, p.baseN) /\ (p.edge[2] # 0 => p.way = "none" /\ N # 1)
  BY EdgeFacts
<1>4. /\ ASWT!MAxis(p) = ASWT!Axis(p.m, ASWT!Least(ASWT!Align(p.m, 16), capM),
                                  ASWT!Evened(p.m, p.baseM, p.edge[1]))
      /\ ASWT!NAxis(p) = ASWT!Axis(p.n, ASWT!Least(ASWT!Align(p.n, 16), capN),
                                  ASWT!Evened(p.n, p.baseN, p.edge[2]))
  BY DEF ASWT!MAxis, ASWT!NAxis, ASWT!BASIC_BLOCK_SIZE_16
<1> HIDE DEF M, N
<1>5. /\ M * p.baseM \in Nat \ {0} /\ N * p.baseN \in Nat \ {0}
  BY <1>1, <1>2
<1>6. /\ capM \in Nat \ {0} /\ (p.edge[1] # 0 => capM = p.baseM)
      /\ capN \in Nat \ {0} /\ (p.edge[2] # 0 => capN = p.baseN)
  BY <1>1, <1>3, <1>5
<1>7. ASSUME NEW size \in Nat \ {0}, NEW cap \in Nat \ {0}, size <= cap
      PROVE  ASWT!CeilDiv(size, cap) = 1
  <2>1. size <= 1 * cap
    BY <1>7
  <2>2. ASWT!CeilDiv(size, cap) <= 1 /\ ASWT!CeilDiv(size, cap) \in Nat \ {0}
    BY <2>1, LeastCover
  <2> QED BY <2>2
<1>8. /\ ASWT!CeilDiv(p.m, capM) = IF p.way = "A" THEN 1 ELSE M
      /\ ASWT!CeilDiv(p.n, capN) = IF p.way = "B" THEN 1 ELSE N
  BY <1>1, <1>2, <1>5, <1>7
<1> HIDE DEF capM, capN
<1>9. ASWT!MAxis(p).count = ASWT!CeilDiv(p.m, capM) /\ BlocksFitL1(ASWT!MAxis(p))
  BY <1>1, <1>2, <1>3, <1>4, <1>6, SideFits
<1>10. ASWT!NAxis(p).count = ASWT!CeilDiv(p.n, capN) /\ BlocksFitL1(ASWT!NAxis(p))
  BY <1>1, <1>2, <1>3, <1>4, <1>6, SideFits
<1> QED BY <1>8, <1>9, <1>10 DEF M, N

(* Into how many parts a tile of the last round is split.                  *)
TailParts(cores) == (1 .. cores) \X (1 .. cores)
TailStop(tail, cores) == {c \in TailParts(cores) : (c[1] + 1) * c[2] * tail > cores}
TailNext(tail, cores) ==
  [c \in TailParts(cores) |->
     <<c[1] + 1, IF (c[1] + 1) * (c[2] + 1) * tail <= cores THEN c[2] + 1 ELSE c[2]>>]
IsTailLoop(f, tail, cores) ==
  f = [c \in TailParts(cores) |->
         IF (c[1] + 1) * c[2] * tail > cores THEN c
         ELSE f[<<c[1] + 1, IF (c[1] + 1) * (c[2] + 1) * tail <= cores THEN c[2] + 1 ELSE c[2]>>]]
TailFits(tail, cores) == {c \in TailParts(cores) : c[1] * c[2] * tail <= cores}

LEMMA TailSteps ==
  ASSUME NEW tail \in Nat \ {0}, NEW cores \in Nat,
         NEW c \in TailParts(cores) \ TailStop(tail, cores)
  PROVE  TailNext(tail, cores)[c] \in TailFits(tail, cores) /\ TailNext(tail, cores)[c][1] = c[1] + 1
<1> DEFINE x == c[1] + 1  y == c[2]
           z == IF x * (y + 1) * tail <= cores THEN y + 1 ELSE y
<1>1. x \in Nat \ {0} /\ y \in Nat \ {0} /\ x * y * tail <= cores
  BY DEF TailStop, TailParts
<1>2. TailNext(tail, cores)[c] = <<x, z>>
  BY DEF TailNext
<1> HIDE DEF x, y
<1>3. z \in Nat \ {0} /\ x * z * tail <= cores
  BY <1>1
<1> HIDE DEF z
<1>4. x * z \in Nat \ {0} /\ x <= x * z /\ z <= x * z
  BY <1>1, <1>3
<1> DEFINE w == x * z
<1>5. w \in Nat \ {0} /\ w <= w * tail /\ w * tail \in Nat
  BY <1>4
<1>6. x <= cores /\ z <= cores
  <2>1. x <= w /\ z <= w /\ w * tail <= cores
    BY <1>3, <1>4
  <2> HIDE DEF w
  <2> QED BY <1>1, <1>3, <1>5, <2>1
<1> HIDE DEF w
<1>7. <<x, z>> \in TailFits(tail, cores)
  BY <1>1, <1>3, <1>6 DEF TailFits, TailParts
<1> QED BY <1>2, <1>7 DEF x

LEMMA GrowFits ==
  ASSUME NEW tail \in Nat \ {0}, NEW cores \in Nat, tail <= cores
  PROVE  ASWT!Grow(tail, cores) \in TailFits(tail, cores)
<1> DEFINE S == TailParts(cores)  Stop == TailStop(tail, cores)
           g == TailNext(tail, cores)  mu == [c \in S |-> cores - c[1]]
           Keeps == TailFits(tail, cores)
           f == CHOOSE h : IsTailLoop(h, tail, cores)
<1>1. ComesDown(S, Stop, g, mu)
  <2>1. \A c \in S : mu[c] \in Nat
    BY DEF TailParts
  <2>2. ASSUME NEW c \in S \ Stop PROVE g[c] \in S /\ mu[g[c]] < mu[c]
    <3>1. g[c] \in S /\ g[c][1] = c[1] + 1
      BY TailSteps DEF TailFits
    <3>2. c[1] \in Nat
      BY DEF TailParts
    <3> HIDE DEF g, S
    <3> QED BY <3>1, <3>2
  <2> HIDE DEF mu, g, S, Stop
  <2> QED BY <2>1, <2>2 DEF ComesDown
<1>2. \A h : IsTailLoop(h, tail, cores) <=> IsLoop(h, S, Stop, g)
  <2>1. ASSUME NEW h
        PROVE  [c \in TailParts(cores) |->
                  IF (c[1] + 1) * c[2] * tail > cores THEN c
                  ELSE h[<<c[1] + 1, IF (c[1] + 1) * (c[2] + 1) * tail <= cores THEN c[2] + 1 ELSE c[2]>>]]
               = [c \in S |-> IF c \in Stop THEN c ELSE h[g[c]]]
    <3>1. ASSUME NEW c \in TailParts(cores)
          PROVE  (IF (c[1] + 1) * c[2] * tail > cores THEN c
                  ELSE h[<<c[1] + 1, IF (c[1] + 1) * (c[2] + 1) * tail <= cores THEN c[2] + 1 ELSE c[2]>>])
                 = IF c \in Stop THEN c ELSE h[g[c]]
      <4>1. g[c] = <<c[1] + 1, IF (c[1] + 1) * (c[2] + 1) * tail <= cores THEN c[2] + 1 ELSE c[2]>>
        BY DEF TailNext
      <4>2. c \in Stop <=> (c[1] + 1) * c[2] * tail > cores
        BY DEF TailStop
      <4> HIDE DEF g, Stop
      <4> QED BY <4>1, <4>2
    <3> HIDE DEF g, Stop
    <3> QED BY <3>1
  <2> HIDE DEF g, Stop
  <2> QED BY <2>1 DEF IsTailLoop, IsLoop
<1>3. ASWT!Grow(tail, cores) = f[<<1, 1>>]
  BY DEF ASWT!Grow, IsTailLoop, TailParts
<1>4. Keeps \in SUBSET S /\ \A c \in Keeps \ Stop : g[c] \in Keeps
  BY TailSteps DEF TailFits
<1>5. <<1, 1>> \in Keeps
  BY DEF TailFits, TailParts
<1> HIDE DEF S, Stop, g, mu, Keeps
<1>6. IsLoop(f, S, Stop, g)
  <2>1. \E h : IsLoop(h, S, Stop, g)
    BY <1>1, LoopEnds
  <2> QED BY <1>2, <2>1
<1> HIDE DEF f
<1>7. f[<<1, 1>>] \in Keeps
  BY <1>1, <1>4, <1>5, <1>6, LoopKeeps
<1> QED BY <1>3, <1>7 DEF Keeps

(* The parts of all tiles of the last round, and the cores.                *)
LEMMA TailCntFits ==
  ASSUME NEW p, Settled(p)
  PROVE  /\ ASWT!TailCnt(p)[1] \in Nat \ {0} /\ ASWT!TailCnt(p)[2] \in Nat \ {0}
         /\ ASWT!TailTiles(p) \in 0 .. p.cores - 1
         /\ ASWT!TailTiles(p) = 0 => ASWT!TailCnt(p) = <<1, 1>>
         /\ ASWT!TailCnt(p)[1] * ASWT!TailCnt(p)[2] * ASWT!TailTiles(p) <= p.cores
<1> DEFINE M == ASWT!MCnt(p)  N == ASWT!NCnt(p)  t == ASWT!TailTiles(p)
           count == CASE p.way = "none" -> M * N [] p.way = "A" -> N [] p.way = "B" -> M
<1>1. M \in Nat \ {0} /\ N \in Nat \ {0} /\ p.cores \in Nat \ {0} /\ p.way \in {"none", "A", "B"}
  BY LeastCover DEF ASWT!MCnt, ASWT!NCnt, Settled
<1>2. t = IF count <= p.cores THEN 0 ELSE count % p.cores
  BY DEF ASWT!TailTiles
<1> HIDE DEF M, N
<1>3. count \in Nat
  <2>1. M * N \in Nat
    BY <1>1
  <2> QED BY <1>1, <2>1
<1> HIDE DEF count, t
<1>4. t \in 0 .. p.cores - 1
  BY <1>1, <1>2, <1>3
<1>5. CASE t = 0
  <2>1. ASWT!TailCnt(p) = <<1, 1>>
    BY <1>5 DEF ASWT!TailCnt, t
  <2> QED BY <1>1, <1>4, <1>5, <2>1 DEF t
<1>6. CASE t # 0
  <2>1. t \in Nat \ {0} /\ t <= p.cores
    BY <1>1, <1>4, <1>6
  <2>2. ASSUME NEW q, q = p.cores \div t
        PROVE  q \in Nat \ {0} /\ q * t <= p.cores
    <3> DEFINE cores == p.cores  d == cores \div t  r == cores % t
    <3>1. cores \in Nat
      BY <1>1
    <3>2. t <= cores
      BY <2>1
    <3> HIDE DEF cores
    <3>3. d \in Nat /\ r \in 0 .. t - 1 /\ cores = (t * d) + r
      BY <2>1, <3>1
    <3> HIDE DEF d, r
    <3>4. d # 0
      BY <2>1, <3>2, <3>3
    <3>5. d * t = t * d /\ t * d \in Nat
      BY <2>1, <3>3
    <3> QED BY <2>2, <3>1, <3>3, <3>4, <3>5 DEF d, cores
  <2>3. CASE p.way = "none"
    <3>1. ASWT!TailCnt(p) = ASWT!Grow(t, p.cores)
      BY <1>6, <2>3 DEF ASWT!TailCnt, t
    <3>2. ASWT!TailCnt(p) \in TailFits(t, p.cores)
      BY <1>1, <2>1, <3>1, GrowFits
    <3> QED BY <1>4, <1>6, <3>2 DEF TailFits, TailParts, t
  <2>4. CASE p.way = "A"
    <3> DEFINE q == p.cores \div t
    <3>1. ASWT!TailCnt(p) = <<1, q>>
      BY <1>6, <2>4 DEF ASWT!TailCnt, t
    <3>2. q \in Nat \ {0} /\ q * t <= p.cores
      BY <2>2
    <3> HIDE DEF q
    <3>3. 1 * q * t = q * t
      BY <2>1, <3>2
    <3> QED BY <1>4, <1>6, <3>1, <3>2, <3>3 DEF t
  <2>5. CASE p.way = "B"
    <3> DEFINE q == p.cores \div t
    <3>1. ASWT!TailCnt(p) = <<q, 1>>
      BY <1>6, <2>5 DEF ASWT!TailCnt, t
    <3>2. q \in Nat \ {0} /\ q * t <= p.cores
      BY <2>2
    <3> HIDE DEF q
    <3>3. q * 1 * t = q * t
      BY <2>1, <3>2
    <3> QED BY <1>4, <1>6, <3>1, <3>2, <3>3 DEF t
  <2> QED BY <1>1, <2>3, <2>4, <2>5
<1> QED BY <1>5, <1>6

(* A tile is never cut into more parts than asked for.                     *)
LEMMA PartsOfTile ==
  ASSUME NEW length \in Nat \ {0}, NEW count \in Nat \ {0}
  PROVE  /\ ASWT!CeilDiv(length, ASWT!CeilDiv(length, count)) \in Nat \ {0}
         /\ ASWT!CeilDiv(length, ASWT!CeilDiv(length, count)) <= count
<1> DEFINE q == ASWT!CeilDiv(length, count)
<1>1. q \in Nat \ {0} /\ length <= q * count
  BY LeastCover
<1> HIDE DEF q
<1>2. q * count = count * q
  BY <1>1
<1>3. length <= count * q
  BY <1>1, <1>2
<1>4. ASWT!CeilDiv(length, q) \in Nat \ {0} /\ ASWT!CeilDiv(length, q) <= count
  BY <1>1, <1>3, LeastCover
<1> QED BY <1>4 DEF q

LEMMA RoundFits ==
  ASSUME NEW p, Settled(p), p.edge \in ASWT!Edges(p)
  PROVE  ASWT!PartsFit(ASWT!Scheduler(p))
<1> DEFINE m == ASWT!MAxis(p)  n == ASWT!NAxis(p)  s == ASWT!Scheduler(p)
           M == ASWT!MCnt(p)  N == ASWT!NCnt(p)
           a == ASWT!TailCnt(p)[1]  b == ASWT!TailCnt(p)[2]  t == ASWT!TailTiles(p)
           tiles == m.count * n.count
           split == p.batch = 1
           mTail == IF split THEN ASWT!CeilDiv(m.last, ASWT!CeilDiv(m.last, a)) ELSE 1
           nTail == IF split THEN ASWT!CeilDiv(n.last, ASWT!CeilDiv(n.last, b)) ELSE 1
           blockNum == IF split /\ p.way = "none" THEN ASWT!Least(tiles, p.cores) ELSE p.cores
<1>1. /\ m.count = IF p.way = "A" THEN 1 ELSE M
      /\ n.count = IF p.way = "B" THEN 1 ELSE N
      /\ BlocksFitL1(m) /\ BlocksFitL1(n)
  BY AxesFit
<1>2. s.m = m /\ s.n = n /\ s.tail = mTail * nTail /\ s.blockNum = blockNum
  <2> HIDE DEF a, b, m, n
  <2> QED BY DEF ASWT!Scheduler, ASWT!Counting, ASWT!Started, a, b, m, n
<1>3. /\ a \in Nat \ {0} /\ b \in Nat \ {0} /\ t \in 0 .. p.cores - 1
      /\ (t = 0 => a = 1 /\ b = 1) /\ a * b * t <= p.cores
  <2>1. t = 0 => ASWT!TailCnt(p) = <<1, 1>>
    BY TailCntFits
  <2> QED BY <2>1, TailCntFits
<1>4. M \in Nat \ {0} /\ N \in Nat \ {0} /\ p.cores \in Nat \ {0}
  <2>1. /\ p.m \in Nat \ {0} /\ p.baseM \in Nat \ {0} /\ p.n \in Nat \ {0} /\ p.baseN \in Nat \ {0}
        /\ p.cores \in Nat \ {0}
    BY DEF Settled
  <2> QED BY <2>1, LeastCover DEF ASWT!MCnt, ASWT!NCnt
<1>5. p.way \in {"none", "A", "B"} /\ p.batch \in Nat \ {0} /\ (p.batch > 1 => p.way = "none")
  BY DEF Settled
<1>6. t = IF (CASE p.way = "none" -> M * N [] p.way = "A" -> N [] p.way = "B" -> M) <= p.cores THEN 0
          ELSE (CASE p.way = "none" -> M * N [] p.way = "A" -> N [] p.way = "B" -> M) % p.cores
  BY DEF ASWT!TailTiles
<1>7. /\ m.last \in Nat \ {0} /\ n.last \in Nat \ {0}
  <2> HIDE DEF m, n
  <2> QED BY <1>1 DEF BlocksFitL1
<1> HIDE DEF m, n, M, N, a, b, t
<1>8. tiles \in Nat \ {0} /\ t = IF tiles <= p.cores THEN 0 ELSE tiles % p.cores
  <2>1. M * N \in Nat \ {0} /\ 1 * N = N /\ M * 1 = M
    BY <1>4
  <2>2. CASE p.way = "none"
    BY <1>1, <1>6, <2>1, <2>2
  <2>3. CASE p.way = "A"
    BY <1>1, <1>4, <1>6, <2>1, <2>3
  <2>4. CASE p.way = "B"
    BY <1>1, <1>4, <1>6, <2>1, <2>4
  <2> QED BY <1>5, <2>2, <2>3, <2>4
<1>9. mTail \in Nat \ {0} /\ mTail <= a /\ nTail \in Nat \ {0} /\ nTail <= b
  <2> DEFINE x == ASWT!CeilDiv(m.last, ASWT!CeilDiv(m.last, a))
             y == ASWT!CeilDiv(n.last, ASWT!CeilDiv(n.last, b))
  <2>1. x \in Nat \ {0} /\ x <= a
    BY <1>3, <1>7, PartsOfTile
  <2>2. y \in Nat \ {0} /\ y <= b
    BY <1>3, <1>7, PartsOfTile
  <2>3. mTail = (IF split THEN x ELSE 1) /\ nTail = (IF split THEN y ELSE 1)
    OBVIOUS
  <2> HIDE DEF x, y, mTail, nTail
  <2> QED BY <1>3, <2>1, <2>2, <2>3
<1>10. (tiles % blockNum) * (mTail * nTail) <= blockNum
  <2>1. blockNum \in Nat \ {0} /\ (tiles > p.cores => blockNum = p.cores)
    BY <1>4, <1>8 DEF ASWT!Least
  <2>2. (~split => mTail = 1 /\ nTail = 1) /\ (t = 0 => mTail = 1 /\ nTail = 1)
    BY <1>3, <1>9
  <2> HIDE DEF mTail, nTail, blockNum, tiles
  <2>3. tiles % blockNum \in 0 .. blockNum - 1
    BY <1>8, <2>1
  <2>4. CASE mTail = 1 /\ nTail = 1
    <3>1. (tiles % blockNum) * (1 * 1) = tiles % blockNum
      BY <2>3
    <3> QED BY <2>1, <2>3, <2>4, <3>1
  <2>5. CASE t # 0
    <3>1. blockNum = p.cores /\ tiles % blockNum = t
      BY <1>4, <1>8, <2>1, <2>5
    <3>2. mTail * nTail \in Nat /\ a * b \in Nat /\ mTail * nTail <= a * b
      <4>1. mTail * nTail <= a * nTail /\ a * nTail <= a * b
        BY <1>3, <1>9
      <4>2. mTail * nTail \in Nat /\ a * nTail \in Nat /\ a * b \in Nat
        BY <1>3, <1>9
      <4> QED BY <4>1, <4>2
    <3> DEFINE v == mTail * nTail  w == a * b
    <3>3. v \in Nat /\ w \in Nat /\ v <= w /\ w * t <= p.cores
      BY <1>3, <3>2
    <3> HIDE DEF v, w
    <3>4. t \in Nat
      BY <1>3
    <3>5. t * v <= t * w /\ t * w = w * t /\ t * v \in Nat /\ t * w \in Nat
      BY <3>3, <3>4
    <3>6. t * v <= p.cores
      BY <1>4, <3>3, <3>5
    <3> QED BY <3>1, <3>6 DEF v
  <2> QED BY <2>2, <2>4, <2>5
<1> HIDE DEF s, tiles, mTail, nTail, blockNum
<1>11. ((s.m.count * s.n.count) % s.blockNum) * s.tail <= s.blockNum
  BY <1>2, <1>10 DEF tiles
<1> QED BY <1>1, <1>2, <1>11 DEF ASWT!PartsFit, BlocksFitL1, s, m, n

(* Evening out an edge changes nothing else of a problem.                  *)
Fields == {"batch", "m", "n", "cores", "baseM", "baseN", "way", "edge"}
LEMMA EdgeChanges ==
  ASSUME NEW f, f = [x \in Fields |-> f[x]], NEW edge, NEW h, h = [f EXCEPT !.edge = edge]
  PROVE  /\ h.edge = edge
         /\ ASWT!Edges(h) = ASWT!Edges(f)
         /\ Settled(f) => Settled(h)
         /\ \A e : [h EXCEPT !.edge = e] = [f EXCEPT !.edge = e]
         /\ edge = f.edge => h = f
<1>1. DOMAIN f = Fields /\ "edge" \in Fields
  <2> DEFINE k == [x \in Fields |-> f[x]]
  <2>1. DOMAIN k = Fields
    OBVIOUS
  <2>2. f = k
    OBVIOUS
  <2> HIDE DEF k
  <2> QED BY <2>1, <2>2 DEF Fields
<1>2. /\ h.batch = f.batch /\ h.m = f.m /\ h.n = f.n /\ h.cores = f.cores /\ h.way = f.way
      /\ h.baseM = f.baseM /\ h.baseN = f.baseN /\ h.edge = edge
  BY <1>1 DEF Fields
<1>3. ASWT!MCnt(h) = ASWT!MCnt(f) /\ ASWT!NCnt(h) = ASWT!NCnt(f)
  BY <1>2 DEF ASWT!MCnt, ASWT!NCnt
<1>4. ASWT!Edges(h) = ASWT!Edges(f)
  BY <1>2, <1>3 DEF ASWT!Edges
<1>5. Settled(f) => Settled(h)
  BY <1>2 DEF Settled
<1>6. ASSUME NEW e PROVE [h EXCEPT !.edge = e] = [f EXCEPT !.edge = e]
  BY <1>1
<1>7. edge = f.edge => h = f
  BY <1>1
<1> QED BY <1>2, <1>4, <1>5, <1>6, <1>7

LEMMA FormulatedFields ==
  ASSUME NEW p \in AswtProblems, NEW f, f = ASWT!FormulateBasicBlock(p)
  PROVE  f = [x \in Fields |-> f[x]] /\ f.edge = <<0, 0>>
<1> DEFINE c == IF ASWT!MCnt(p) * ASWT!NCnt(p) < p.cores
                  THEN ASWT!CalcBasicBlock(p, p.cores)
                  ELSE [baseM |-> ASWT!Least(ASWT!Align(p.m, 16), p.baseM),
                        baseN |-> ASWT!Least(ASWT!Align(p.n, 16), p.baseN)]
<1>1. f = [p EXCEPT !.baseM = c.baseM, !.baseN = c.baseN]
  BY DEF ASWT!FormulateBasicBlock, ASWT!BASIC_BLOCK_SIZE_16
<1> HIDE DEF c
<1>2. p.edge = <<0, 0>> /\ p = [x \in Fields |-> p[x]]
  BY DEF AswtProblems, Fields
<1>3. f = [x \in Fields |-> f[x]] /\ f.edge = p.edge
  BY <1>1, <1>2 DEF Fields
<1> QED BY <1>2, <1>3

-------------------------------------------------------------------------------
(* The specification.                                                      *)

(* What a state holds of a problem of each kind: evening out the edges of  *)
(* an ASWT problem, the only step, leaves the others alone.                *)
SInv ==
  /\ kind = "streamk" => shape \in STREAMK!ShapeRecords /\ STREAMK!HostAllows(shape)
  /\ kind = "pertile" => \E p \in PertileProblems : shape = [problem |-> p, parts |-> PERTILE!Parts(p)]
  /\ kind = "splitk" => \E p \in SplitKProblems : shape = SPLITK!Tiling(p)
  /\ kind = "batch" => shape \in BatchAxes
  /\ kind = "aswt" => \E p \in AswtProblems : \E edge \in ASWT!Edges(ASWT!FormulateBasicBlock(p)) :
                        shape = [ASWT!FormulateBasicBlock(p) EXCEPT !.edge = edge]
  /\ kind = "base" => shape \in AswtProblems

(* A Stream-K shape is one the host allows, a split-k launch has cores and *)
(* the axes of a batch are as broadcasting wants them.                     *)
THEOREM ProblemsKept == Spec => []SInv
<1>1. Init => SInv
  <2> SUFFICES ASSUME Init PROVE SInv
    OBVIOUS
  <2>1. CASE kind = "streamk" /\ shape \in StreamKShapes
    <3>1. shape \in [cores : 2 .. MaxCores, m : 1 .. MaxTiles, n : 1 .. MaxTiles, sk : 2 .. MaxCores]
      BY <2>1 DEF StreamKShapes
    <3>2. shape \in STREAMK!ShapeRecords
      BY <3>1, SizesAssumption DEF STREAMK!ShapeRecords
    <3> QED BY <2>1, <3>2 DEF SInv, StreamKShapes
  <2>2. CASE kind = "splitk" /\ shape \in {SPLITK!Tiling(p) : p \in SplitKProblems}
    BY <2>2 DEF SInv
  <2>3. CASE kind = "batch" /\ shape \in BatchAxes
    BY <2>3 DEF SInv
  <2>4. CASE kind = "pertile" /\ shape \in {[problem |-> p, parts |-> PERTILE!Parts(p)] : p \in PertileProblems}
    BY <2>4 DEF SInv
  <2>5. CASE kind = "aswt" /\ shape \in {ASWT!FormulateBasicBlock(p) : p \in AswtProblems}
    <3>1. PICK p \in AswtProblems : shape = ASWT!FormulateBasicBlock(p)
      BY <2>5
    <3>2. shape = [x \in Fields |-> shape[x]] /\ shape.edge = <<0, 0>>
      BY <3>1, FormulatedFields
    <3>3. shape = [shape EXCEPT !.edge = <<0, 0>>]
      BY <3>2, EdgeChanges
    <3>4. <<0, 0>> \in ASWT!Edges(shape)
      BY DEF ASWT!Edges
    <3> QED BY <2>5, <3>1, <3>3, <3>4 DEF SInv
  <2>6. CASE kind = "base" /\ shape \in AswtProblems
    BY <2>6 DEF SInv
  <2> QED BY <2>1, <2>2, <2>3, <2>4, <2>5, <2>6 DEF Init
<1>2. SInv /\ [Next]_<<kind, shape>> => SInv'
  <2> SUFFICES ASSUME SInv, [Next]_<<kind, shape>> PROVE SInv'
    OBVIOUS
  <2>1. CASE Next
    <3>1. kind = "aswt" /\ kind' = "aswt"
      BY <2>1 DEF Next, Even
    <3>2. PICK e \in ASWT!Edges(shape) : shape' = [shape EXCEPT !.edge = e]
      BY <2>1 DEF Next, Even
    <3>3. PICK p \in AswtProblems : \E edge \in ASWT!Edges(ASWT!FormulateBasicBlock(p)) :
             shape = [ASWT!FormulateBasicBlock(p) EXCEPT !.edge = edge]
      BY <3>1 DEF SInv
    <3> DEFINE f == ASWT!FormulateBasicBlock(p)
    <3>4. f = [x \in Fields |-> f[x]]
      BY FormulatedFields
    <3>5. PICK edge \in ASWT!Edges(f) : shape = [f EXCEPT !.edge = edge]
      BY <3>3
    <3> HIDE DEF f
    <3>6. e \in ASWT!Edges(f) /\ shape' = [f EXCEPT !.edge = e]
      BY <3>2, <3>4, <3>5, EdgeChanges
    <3> QED BY <3>1, <3>6 DEF SInv, f
  <2>2. CASE UNCHANGED <<kind, shape>>
    <3>1. kind' = kind /\ shape' = shape
      BY <2>2
    <3> QED BY <3>1 DEF SInv
  <2> QED BY <2>1, <2>2
<1> QED BY <1>1, <1>2, PTL DEF Spec

(* Preloading the chunk reorders a core's own tiles, and the core tells    *)
(* its vector cores once: for every launch the host allows.                *)
THEOREM Preloading == Spec => []PreloadReorders
<1>1. SInv => PreloadReorders
  <2> SUFFICES ASSUME SInv, kind = "streamk" PROVE STREAMK!PreloadPermutes(shape)
    BY DEF PreloadReorders
  <2>1. shape \in SKP!ShapeRecords /\ SKP!HostAllows(shape)
    BY SameShapes DEF SInv
  <2>2. SKP!PreloadPermutes(shape)
    BY <2>1, SizesAssumption, SKP!PreloadReordersOwnTiles
  <2> QED BY <2>2, SamePreload
<1> QED BY <1>1, ProblemsKept, PTL

(* Every chunk of k is computed once: by Stream-K of every output tile, by *)
(* split k whatever the number of blocks and cores.                        *)
THEOREM Chunks == Spec => []EveryChunkOnce
<1>1. SInv => EveryChunkOnce
  <2> SUFFICES ASSUME SInv PROVE EveryChunkOnce
    OBVIOUS
  <2>1. ASSUME kind = "streamk" PROVE STREAMK!CoversEveryChunkOnce(shape)
    <3>1. shape \in SKP!ShapeRecords /\ SKP!HostAllows(shape)
      BY <2>1, SameShapes DEF SInv
    <3>2. SKP!CoversEveryChunkOnce(shape)
      BY <3>1, SizesAssumption, SKP!EveryChunkComputed
    <3> QED BY <3>2, SameChunks
  <2>2. ASSUME kind = "splitk", NEW kCnt \in shape.cores .. 3 * shape.cores
        PROVE  SPLITK!SharesKOut(kCnt, shape.cores)
    <3>1. shape.cores \in Nat \ {0}
      BY <2>2, SplitKFacts DEF SInv
    <3>2. kCnt \in Nat /\ kCnt >= shape.cores
      BY <3>1
    <3> QED BY <3>1, <3>2, KSharedOut
  <2> QED BY <2>1, <2>2 DEF EveryChunkOnce
<1> QED BY <1>1, ProblemsKept, PTL

(* A batch of the output is multiplied from the batches of the inputs that *)
(* broadcasting names, for axes of any length.                             *)
THEOREM Batches == Spec => []BatchesBroadcast
<1>1. SInv => BatchesBroadcast
  BY OffsetsBroadcast DEF SInv, BatchesBroadcast
<1> QED BY <1>1, ProblemsKept, PTL

(* Whoever sums a partial product finds it where it was left: the vector   *)
(* cores of Stream-K the chunks of their own tile in the workspace, those  *)
(* of a per-tile matmul the half that the fixpipe of the cube core hands   *)
(* them, and those of split k a tile that lies within its slice.           *)
THEOREM Workspace == Spec => []WorkspaceAgrees
<1>1. SInv => WorkspaceAgrees
  <2> SUFFICES ASSUME SInv PROVE WorkspaceAgrees
    OBVIOUS
  <2>1. ASSUME kind = "streamk" PROVE STREAMK!SlotsAgree(shape)
    <3>1. shape \in SKP!ShapeRecords /\ SKP!HostAllows(shape)
      BY <2>1, SameShapes DEF SInv
    <3>2. SKP!SlotsAgree(shape)
      BY <3>1, SizesAssumption, SKP!EpilogueSumsItsTile
    <3> QED BY <3>2, SameSlots
  <2>2. ASSUME kind = "pertile", NEW t \in PERTILE!Shapes(shape.parts)
        PROVE  PERTILE!FixpipeAgrees(t[1], t[2])
    <3>1. PICK p \in PertileProblems : shape = [problem |-> p, parts |-> PERTILE!Parts(p)]
      BY <2>2 DEF SInv
    <3>2. t \in PERTILE!Shapes(PERTILE!Parts(p))
      BY <2>2, <3>1
    <3> QED BY <3>2, ShapesAgree
  <2>3. ASSUME kind = "splitk" PROVE SPLITK!TilesFitSlices(shape)
    BY <2>3, TilesFit DEF SInv
  <2> QED BY <2>1, <2>2, <2>3 DEF WorkspaceAgrees
<1> QED BY <1>1, ProblemsKept, PTL

(* Whatever base block the host comes with, what it settles on covers the  *)
(* output with no more blocks than cores; no L1 block is empty or longer   *)
(* than its buffer, the parts of a split last round find a core each, and  *)
(* the halves of a per-tile tile fit into the buffers of the vector cores. *)
THEOREM Blocks == Spec => []BlocksFit
<1>1. SInv => BlocksFit
  <2> SUFFICES ASSUME SInv PROVE BlocksFit
    OBVIOUS
  <2>1. ASSUME kind = "aswt" PROVE ASWT!PartsFit(ASWT!Scheduler(shape))
    <3>1. PICK p \in AswtProblems : \E edge \in ASWT!Edges(ASWT!FormulateBasicBlock(p)) :
             shape = [ASWT!FormulateBasicBlock(p) EXCEPT !.edge = edge]
      BY <2>1 DEF SInv
    <3> DEFINE f == ASWT!FormulateBasicBlock(p)
    <3>2. f = [x \in Fields |-> f[x]] /\ Settled(f)
      BY FormulatedFields, Formulated
    <3>3. PICK edge \in ASWT!Edges(f) : shape = [f EXCEPT !.edge = edge]
      BY <3>1
    <3> HIDE DEF f
    <3>4. Settled(shape) /\ shape.edge \in ASWT!Edges(shape)
      BY <3>2, <3>3, EdgeChanges
    <3> QED BY <3>4, RoundFits
  <2>2. ASSUME kind = "base" PROVE ASWT!ShrunkFits(shape, ASWT!FormulateBasicBlock(shape))
    BY <2>2, Formulated DEF SInv
  <2>3. ASSUME kind = "pertile", NEW t \in PERTILE!Shapes(shape.parts)
        PROVE  PERTILE!HalvesFit(t[1], t[2])
    <3>1. PICK p \in PertileProblems : shape = [problem |-> p, parts |-> PERTILE!Parts(p)]
      BY <2>3 DEF SInv
    <3>2. t \in PERTILE!Shapes(PERTILE!Parts(p))
      BY <2>3, <3>1
    <3> QED BY <3>2, ShapesAgree
  <2> QED BY <2>1, <2>2, <2>3 DEF BlocksFit
<1> QED BY <1>1, ProblemsKept, PTL

(* A vector core of a per-tile matmul never scales two groups with one     *)
(* number: for every problem, number of cores and split of the last round. *)
THEOREM Scales == Spec => []ScaleOfItsGroup
<1>1. SInv => ScaleOfItsGroup
  <2> SUFFICES ASSUME SInv, kind = "pertile" PROVE PERTILE!OneScaleEach(shape.parts)
    BY DEF ScaleOfItsGroup
  <2>1. PICK p \in PertileProblems : shape = [problem |-> p, parts |-> PERTILE!Parts(p)]
    BY DEF SInv
  <2> QED BY <2>1, ScalesAgree
<1> QED BY <1>1, ProblemsKept, PTL
===============================================================================
