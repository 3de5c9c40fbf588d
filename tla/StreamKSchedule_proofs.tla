------------------------- MODULE StreamKSchedule_proofs -------------------------
(***************************************************************************)
(* Facts about the Stream-K tile schedule, for every number of cores and   *)
(* vector cores and every shape the host tiling allows: the divisions and  *)
(* remainders of StreamKSchedule and of the serpentine walk of             *)
(* SlidingWindow, reduced to sums and comparisons.                         *)
(***************************************************************************)
EXTENDS StreamKSchedule, TLAPS, FiniteSetTheorems

-------------------------------------------------------------------------------
(* Division.                                                               *)

(* Quotient and remainder.                                                 *)
LEMMA DivMod ==
  ASSUME NEW a \in Nat, NEW b \in Nat \ {0}
  PROVE  /\ a \div b \in Nat
         /\ (a % b) \in 0 .. b - 1
         /\ a = (b * (a \div b)) + (a % b)
  OBVIOUS

(* There is only one quotient and one remainder.                           *)
LEMMA DivModUnique ==
  ASSUME NEW a \in Nat, NEW b \in Nat \ {0}, NEW q \in Nat, NEW r \in 0 .. b - 1,
         a = (b * q) + r
  PROVE  a \div b = q /\ a % b = r
  OBVIOUS

(* A number below a product has a quotient below the other factor.         *)
LEMMA DivBelow ==
  ASSUME NEW a \in Nat, NEW b \in Nat \ {0}, NEW n \in Nat, a < n * b
  PROVE  a \div b < n
  OBVIOUS

(* A larger factor makes a product larger by a whole step at least.        *)
LEMMA MulBelow ==
  ASSUME NEW p \in Nat, NEW q \in Nat, NEW b \in Nat \ {0}, p < q
  PROVE  (p * b) + b <= q * b
  OBVIOUS

(* Multiplication distributes.                                             *)
LEMMA Distribute ==
  ASSUME NEW p \in Nat, NEW q \in Nat, NEW b \in Nat
  PROVE  b * (p + q) = (b * p) + (b * q)
  OBVIOUS

(* Products grow with their factors.                                       *)
LEMMA MulMonotone ==
  ASSUME NEW p \in Nat, NEW q \in Nat, NEW b \in Nat, p <= q
  PROVE  b * p <= b * q
  OBVIOUS

(* The round a number is in: CeilDiv(i + 1, n) counts rounds from one.     *)
LEMMA CeilDivNext ==
  ASSUME NEW i \in Nat, NEW n \in Nat \ {0}
  PROVE  CeilDiv(i + 1, n) = (i \div n) + 1
  BY DEF CeilDiv

(* The number a core takes after one of its own is its own.                *)
LEMMA NextOfCore ==
  ASSUME NEW n \in Nat \ {0}, NEW i \in Nat
  PROVE  (i + n) % n = i % n
<1> DEFINE q == i \div n  r == i % n
<1>1. q \in Nat /\ r \in 0 .. n - 1 /\ i = (n * q) + r
  BY DivMod
<1> HIDE DEF q, r
<1>2. n * (q + 1) = (n * q) + (n * 1)
  BY <1>1, Distribute
<1>3. i + n \in Nat /\ q + 1 \in Nat /\ i + n = (n * (q + 1)) + r
  BY <1>1, <1>2
<1> QED BY <1>3, <1>1, DivModUnique DEF r

(* Numbers of one core are a multiple of the cores apart.                  *)
LEMMA SameCore ==
  ASSUME NEW n \in Nat \ {0}, NEW i \in Nat, NEW j \in Nat, i % n = j % n, i < j
  PROVE  i + n <= j
<1> DEFINE q == i \div n  p == j \div n  r == i % n
<1>1. /\ q \in Nat /\ p \in Nat /\ r \in 0 .. n - 1
      /\ i = (n * q) + r /\ j = (n * p) + r
  BY DivMod
<1> HIDE DEF q, p, r
<1>2. q < p
  BY <1>1
<1>3. (q * n) + n <= p * n
  BY <1>1, <1>2, MulBelow
<1> QED BY <1>1, <1>3

-------------------------------------------------------------------------------
(* The numbers of a shape.                                                 *)

(* Whole rounds of tiles, then a round of Tail * sk chunks, at least one   *)
(* core and at most all of them.                                           *)
LEMMA HostFacts ==
  ASSUME NEW s \in ShapeRecords, HostAllows(s)
  PROVE  /\ s.cores \in Nat \ {0} /\ s.m \in Nat \ {0} /\ s.n \in Nat \ {0} /\ s.sk \in Nat
         /\ s.sk >= 2
         /\ MnTiles(s) \in Nat \ {0}
         /\ MnTiles(s) \div s.cores \in Nat
         /\ Tail(s) \in 1 .. s.cores - 1
         /\ DpTiles(s) = s.cores * (MnTiles(s) \div s.cores)
         /\ DpTiles(s) \in Nat
         /\ MnTiles(s) = DpTiles(s) + Tail(s)
         /\ Tail(s) * s.sk \in 2 .. s.cores
         /\ TileNum(s) = DpTiles(s) + (Tail(s) * s.sk)
         /\ TileNum(s) \in Nat
<1> DEFINE n == s.cores  T == s.m * s.n  d == T \div n  tail == T % n
<1>1. n \in Nat \ {0} /\ s.m \in Nat \ {0} /\ s.n \in Nat \ {0} /\ s.sk \in Nat
  BY DEF ShapeRecords
<1>2. T \in Nat \ {0}
  BY <1>1
<1>3. MnTiles(s) = T /\ Tail(s) = tail /\ DpTiles(s) = T - tail
  BY DEF MnTiles, Tail, DpTiles
<1>4. SkOnly(s) \/ DpAndSk(s)
  BY DEF HostAllows
<1>5. s.sk \in 2 .. n \div tail
  BY DEF HostAllows
<1> HIDE DEF T
<1>6. d \in Nat /\ tail \in 0 .. n - 1 /\ T = (n * d) + tail
  BY <1>1, <1>2, DivMod
<1>7. tail # 0
  <2>1. CASE SkOnly(s)
    <3>1. T <= n \div 2
      BY <2>1 DEF SkOnly, T
    <3>2. T < n
      BY <3>1, <1>1, <1>2
    <3>3. T = (n * 0) + T
      BY <1>1, <1>2
    <3>4. T % n = T
      BY <3>2, <3>3, <1>1, <1>2, DivModUnique
    <3> QED BY <3>4, <1>2
  <2>2. CASE DpAndSk(s)
    BY <2>2 DEF DpAndSk, T
  <2> QED BY <2>1, <2>2, <1>4
<1> HIDE DEF d, tail
<1>8. n \div tail \in Nat /\ (n % tail) \in 0 .. tail - 1 /\ n = (tail * (n \div tail)) + (n % tail)
  <2>1. tail \in Nat \ {0}
    BY <1>6, <1>7, <1>1
  <2> QED BY <2>1, <1>1, DivMod
<1>9. s.sk >= 2 /\ s.sk <= n \div tail
  BY <1>5, <1>8, <1>1
<1> DEFINE most == n \div tail
<1> HIDE DEF most
<1>10. tail * s.sk <= tail * most /\ tail * 2 <= tail * s.sk
  <2>1. most \in Nat /\ s.sk \in Nat /\ tail \in Nat /\ 2 \in Nat /\ 2 <= s.sk /\ s.sk <= most
    BY <1>9, <1>8, <1>6, <1>1 DEF most
  <2> QED BY <2>1, MulMonotone
<1>11. tail * s.sk \in 2 .. n
  <2>1. n = (tail * most) + (n % tail) /\ (n % tail) \in Nat
    BY <1>8, <1>6, <1>1 DEF most
  <2>2. most \in Nat /\ tail \in Nat \ {0} /\ s.sk \in Nat
    BY <1>8, <1>7, <1>6, <1>1 DEF most
  <2> QED BY <2>1, <2>2, <1>10, <1>1
<1>12. TileNum(s) = (T - tail) + (tail * s.sk)
  BY <1>3 DEF TileNum
<1> QED BY <1>1, <1>2, <1>3, <1>6, <1>7, <1>9, <1>11, <1>12 DEF d

(* The split round is the last one: a number is a chunk exactly when it is *)
(* past the whole tiles, and its core is its place in that round.          *)
LEMMA Numbering ==
  ASSUME NEW s \in ShapeRecords, HostAllows(s), NEW i \in 0 .. TileNum(s) - 1
  PROVE  /\ IsSk(s, i) <=> i >= DpTiles(s)
         /\ i >= DpTiles(s) => i % s.cores = i - DpTiles(s)
         /\ i \div s.cores <= MnTiles(s) \div s.cores
         /\ i >= DpTiles(s) <=> i \div s.cores = MnTiles(s) \div s.cores
         /\ Rounds(s) = (MnTiles(s) \div s.cores) + 1
<1> DEFINE n == s.cores  d == MnTiles(s) \div n  q == i \div n  r == i % n
           chunks == Tail(s) * s.sk
<1>1. /\ n \in Nat \ {0} /\ d \in Nat /\ chunks \in 2 .. n
      /\ DpTiles(s) = n * d /\ TileNum(s) = (n * d) + chunks /\ i \in Nat
  BY HostFacts
<1>2. q \in Nat /\ r \in 0 .. n - 1 /\ i = (n * q) + r
  BY <1>1, DivMod
<1>3. CeilDiv(TileNum(s), n) = d + 1
  <2> DEFINE last == chunks - 1
  <2>1. last \in 0 .. n - 1 /\ TileNum(s) = ((n * d) + last) + 1 /\ (n * d) + last \in Nat
    BY <1>1
  <2> HIDE DEF last
  <2>2. ((n * d) + last) \div n = d
    <3> DEFINE a == (n * d) + last
    <3>1. a \in Nat /\ a = (n * d) + last
      BY <2>1
    <3> HIDE DEF a, d
    <3> QED BY <3>1, <2>1, <1>1, DivModUnique
  <2> QED BY <2>1, <2>2, <1>1, CeilDivNext
<1>4. IsSk(s, i) <=> q = d
  <2>1. CeilDiv(i + 1, n) = q + 1
    BY <1>1, CeilDivNext
  <2>2. IsSk(s, i) <=> CeilDiv(i + 1, n) = CeilDiv(TileNum(s), n)
    BY DEF IsSk
  <2> HIDE DEF q, d, n
  <2> QED BY <2>1, <2>2, <1>1, <1>2, <1>3
<1> HIDE DEF n, d, q, r, chunks
<1>5. q <= d
  <2>1. ASSUME d < q PROVE FALSE
    <3>1. (d * n) + n <= q * n
      BY <2>1, <1>1, <1>2, MulBelow
    <3>2. i < (n * d) + n
      BY <1>1
    <3> QED BY <3>1, <3>2, <1>1, <1>2
  <2> QED BY <2>1, <1>1, <1>2
<1>6. q < d => i < n * d
  <2>1. ASSUME q < d PROVE (q * n) + n <= d * n
    BY <2>1, <1>1, <1>2, MulBelow
  <2> QED BY <2>1, <1>1, <1>2
<1>7. i >= n * d <=> q = d
  BY <1>5, <1>6, <1>1, <1>2
<1>8. q = d => r = i - n * d
  BY <1>1, <1>2
<1> QED BY <1>1, <1>3, <1>4, <1>5, <1>7, <1>8 DEF n, d, q, r, Rounds

(* The chunk of core w: number DpTiles + w.                                *)
LEMMA ChunkOfCore ==
  ASSUME NEW s \in ShapeRecords, HostAllows(s), NEW w \in 0 .. (Tail(s) * s.sk) - 1
  PROVE  /\ w \in Cores(s) /\ w < BlockNum(s)
         /\ DpTiles(s) + w \in 0 .. TileNum(s) - 1
         /\ IsSk(s, DpTiles(s) + w)
         /\ (DpTiles(s) + w) % s.cores = w
         /\ IsLast(s, DpTiles(s) + w)
<1> DEFINE t == DpTiles(s) + w
<1>1. /\ s.cores \in Nat \ {0} /\ DpTiles(s) \in Nat /\ Tail(s) * s.sk \in 2 .. s.cores
      /\ TileNum(s) = DpTiles(s) + (Tail(s) * s.sk) /\ TileNum(s) \in Nat
  BY HostFacts
<1>2. t \in 0 .. TileNum(s) - 1 /\ t >= DpTiles(s) /\ w \in Cores(s) /\ w < BlockNum(s)
  BY <1>1 DEF Cores, BlockNum, Least
<1>3. IsSk(s, t) /\ t % s.cores = t - DpTiles(s)
  BY <1>2, Numbering
<1>4. IsLast(s, t)
  BY <1>1, <1>2 DEF IsLast
<1> QED BY <1>1, <1>2, <1>3, <1>4

(* The slot of a chunk in the workspace is the core that computes it.      *)
LEMMA SlotIsCore ==
  ASSUME NEW s \in ShapeRecords, HostAllows(s), NEW i \in 0 .. TileNum(s) - 1, IsSk(s, i)
  PROVE  Slot(s, i) = i % s.cores /\ Slot(s, i) = i - DpTiles(s)
<1> DEFINE x == i % s.cores
<1>1. /\ s.cores \in Nat \ {0} /\ s.sk \in Nat \ {0} /\ i \in Nat
  BY HostFacts
<1>2. x \in Nat /\ x = i - DpTiles(s)
  <2>1. x \in 0 .. s.cores - 1
    BY <1>1, DivMod
  <2>2. x = i - DpTiles(s)
    BY Numbering
  <2> QED BY <2>1, <2>2, <1>1
<1>3. Slot(s, i) = ((x \div s.sk) * s.sk) + (x % s.sk)
  BY DEF Slot, KIdx
<1> DEFINE k == s.sk
<1> HIDE DEF x, k
<1>4. x \div k \in Nat /\ x = (k * (x \div k)) + (x % k) /\ (x % k) \in 0 .. k - 1
  BY <1>1, <1>2, DivMod DEF k
<1>5. Slot(s, i) = x
  BY <1>1, <1>3, <1>4 DEF k
<1> QED BY <1>5, <1>2 DEF x

(* Preloading exchanges the last whole tile and the chunk of a core: the   *)
(* tile numbers of a core stay its own, and doing it twice undoes it.      *)
LEMMA PreloadExchanges ==
  ASSUME NEW s \in ShapeRecords, HostAllows(s), NEW i \in 0 .. TileNum(s) - 1
  PROVE  /\ TileAt(s, i) \in 0 .. TileNum(s) - 1
         /\ TileAt(s, i) % s.cores = i % s.cores
         /\ TileAt(s, TileAt(s, i)) = i
<1> DEFINE n == s.cores  d == MnTiles(s) \div n  q == i \div n  r == i % n
           chunks == Tail(s) * s.sk
<1>1. /\ n \in Nat \ {0} /\ d \in Nat /\ chunks \in 2 .. n
      /\ DpTiles(s) = n * d /\ TileNum(s) = (n * d) + chunks /\ i \in Nat
  BY HostFacts
<1>2. q \in Nat /\ r \in 0 .. n - 1 /\ i = (n * q) + r
  BY <1>1, DivMod
<1>3. q <= d /\ (i >= n * d <=> q = d)
  BY <1>1, Numbering
<1>4. \A j \in 0 .. TileNum(s) - 1 :
         TileAt(s, j) = IF d = 0 \/ ~(j % n < chunks) THEN j
                        ELSE IF j \div n = d - 1 THEN j + n
                        ELSE IF j \div n = d THEN j - n
                        ELSE j
  <2> TAKE j \in 0 .. TileNum(s) - 1
  <2>1. j \in Nat
    BY <1>1
  <2>7. CeilDiv(j + 1, n) = (j \div n) + 1
    BY <2>1, <1>1, CeilDivNext
  <2>8. j \div n \in Nat
    BY <2>1, <1>1, DivMod
  <2>2. 0 \in 0 .. TileNum(s) - 1
    BY <1>1
  <2>3. IsSk(s, 0) <=> 0 >= n * d
    BY <2>2, <1>1, Numbering
  <2>4. IsSk(s, 0) <=> d = 0
    <3> HIDE DEF d, n
    <3> QED BY <2>3, <1>1
  <2>5. HasChunk(s, j) <=> j % n < chunks
    BY DEF HasChunk
  <2>6. Rounds(s) = d + 1
    BY <2>2, Numbering
  <2> HIDE DEF d, n, chunks
  <2> QED BY <2>1, <2>7, <2>8, <2>4, <2>5, <2>6, <1>1 DEF TileAt, n
<1>5. ASSUME NEW j \in 0 .. TileNum(s) - 1, NEW p \in Nat, j = (n * p) + r
      PROVE  j \div n = p /\ j % n = r
  <2>1. j \in Nat
    BY <1>1
  <2> HIDE DEF r, n
  <2> QED BY <2>1, <1>1, <1>2, <1>5, DivModUnique
<1> HIDE DEF d, n, chunks, q, r
<1>6. CASE d = 0 \/ ~(r < chunks)
  <2>1. TileAt(s, i) = i
    BY <1>4, <1>6 DEF r
  <2> QED BY <2>1 DEF n
<1>7. CASE d # 0 /\ r < chunks /\ q = d - 1
  <2>1. TileAt(s, i) = i + n
    BY <1>4, <1>7 DEF r, q
  <2>2. n * d = (n * q) + n
    <3>1. n * (q + 1) = (n * q) + (n * 1)
      BY <1>1, <1>2, Distribute
    <3> QED BY <3>1, <1>7, <1>1, <1>2
  <2>3. i + n = (n * d) + r /\ i + n \in 0 .. TileNum(s) - 1
    BY <2>2, <1>1, <1>2, <1>7
  <2>4. (i + n) \div n = d /\ (i + n) % n = r
    BY <2>3, <1>5, <1>1
  <2>5. TileAt(s, i + n) = i
    BY <2>3, <2>4, <1>4, <1>7, <1>1
  <2> QED BY <2>1, <2>3, <2>4, <2>5 DEF n, r
<1>8. CASE d # 0 /\ r < chunks /\ q = d
  <2>1. TileAt(s, i) = i - n
    BY <1>4, <1>8, <1>1 DEF r, q
  <2>2. n * d = (n * (d - 1)) + n /\ d - 1 \in Nat
    <3>1. d - 1 \in Nat
      BY <1>1, <1>8
    <3>2. n * ((d - 1) + 1) = (n * (d - 1)) + (n * 1)
      BY <3>1, <1>1, Distribute
    <3> QED BY <3>1, <3>2, <1>1
  <2>3. i - n = (n * (d - 1)) + r /\ i - n \in 0 .. TileNum(s) - 1
    <3>1. n * (d - 1) \in Nat
      BY <2>2, <1>1
    <3> QED BY <3>1, <2>2, <1>1, <1>2, <1>8
  <2>4. (i - n) \div n = d - 1 /\ (i - n) % n = r
    BY <2>2, <2>3, <1>5, <1>1
  <2>5. TileAt(s, i - n) = (i - n) + n
    BY <2>3, <2>4, <1>4, <1>8, <1>1
  <2>6. (i - n) + n = i
    BY <1>1
  <2> QED BY <2>1, <2>3, <2>4, <2>5, <2>6 DEF n, r
<1>9. CASE q # d /\ q # d - 1
  <2>1. TileAt(s, i) = i
    BY <1>4, <1>9 DEF q
  <2> QED BY <2>1 DEF n
<1> QED BY <1>6, <1>7, <1>8, <1>9

(* The last tile number of a core is unique, and is its chunk if it has    *)
(* one.                                                                    *)
LEMMA LastIsUnique ==
  ASSUME NEW s \in ShapeRecords, HostAllows(s),
         NEW i \in 0 .. TileNum(s) - 1, NEW j \in 0 .. TileNum(s) - 1,
         i % s.cores = j % s.cores, IsLast(s, i), IsLast(s, j)
  PROVE  i = j
<1>1. s.cores \in Nat \ {0} /\ TileNum(s) \in Nat /\ i \in Nat /\ j \in Nat
  BY HostFacts
<1>2. i + s.cores >= TileNum(s) /\ j + s.cores >= TileNum(s)
  BY DEF IsLast
<1>3. (i < j => i + s.cores <= j) /\ (j < i => j + s.cores <= i)
  BY <1>1, SameCore
<1> QED BY <1>1, <1>2, <1>3

-------------------------------------------------------------------------------
(* The walk over the tiles.  A tile number is a band, a column counted in  *)
(* the direction of the band, and a row of the band.                       *)

Window(s) == Least(WINDOW_LEN, s.m)
Bands(s) == (s.m \div Window(s)) - 1
LastHeight(s) == s.m - (Bands(s) * Window(s))
Height(s, b) == IF b < Bands(s) THEN Window(s) ELSE LastHeight(s)

Number(s, b, x, r) == (((b * Window(s)) * s.n) + (x * Height(s, b))) + r
Place(s, b, x, r) == <<(b * Window(s)) + r, IF b % 2 # 0 THEN (s.n - 1) - x ELSE x>>

IsPlace(s, b, x, r) == b \in 0 .. Bands(s) /\ x \in 0 .. s.n - 1 /\ r \in 0 .. Height(s, b) - 1

(* Position, with its local names spelled out.                             *)
LEMMA PositionUnfolds ==
  ASSUME NEW s, NEW j
  PROVE  LET band   == Least(j \div (s.n * Window(s)), Bands(s))
             inLast == j - ((Bands(s) * Window(s)) * s.n)
             row    == IF band < Bands(s) THEN j % Window(s) ELSE inLast % LastHeight(s)
             column == IF band < Bands(s) THEN (j \div Window(s)) % s.n
                                          ELSE (inLast \div LastHeight(s)) % s.n
         IN  Position(s, j) = <<(band * Window(s)) + row,
                                IF band % 2 # 0 THEN (s.n - 1) - column ELSE column>>
  BY Zenon DEF Position, Window, Bands, LastHeight

(* All bands but the last are as high as the window, the last at least so. *)
LEMMA BandFacts ==
  ASSUME NEW s \in ShapeRecords
  PROVE  /\ s.m \in Nat \ {0} /\ s.n \in Nat \ {0}
         /\ Window(s) \in Nat \ {0} /\ Bands(s) \in Nat
         /\ LastHeight(s) \in Nat \ {0}
         /\ s.m = (Bands(s) * Window(s)) + LastHeight(s)
         /\ LastHeight(s) >= Window(s)
         /\ Bands(s) * Window(s) \in Nat
<1> DEFINE w == Window(s)  q == s.m \div w
<1>1. s.m \in Nat \ {0} /\ s.n \in Nat \ {0}
  BY DEF ShapeRecords
<1>2. w \in Nat \ {0} /\ w <= s.m
  BY <1>1 DEF Window, Least, WINDOW_LEN
<1> HIDE DEF w
<1>3. q \in Nat /\ (s.m % w) \in 0 .. w - 1 /\ s.m = (w * q) + (s.m % w)
  BY <1>1, <1>2, DivMod
<1>4. Bands(s) = q - 1
  BY DEF Bands, w
<1> HIDE DEF q
<1>5. q # 0
  BY <1>1, <1>2, <1>3
<1> DEFINE b == q - 1
<1>6. b \in Nat /\ w * q = (w * b) + w
  <2>1. b \in Nat /\ q = b + 1
    BY <1>3, <1>5
  <2> HIDE DEF b
  <2>2. w * (b + 1) = (w * b) + (w * 1)
    BY <2>1, <1>2, Distribute
  <2> QED BY <2>1, <2>2, <1>2
<1> HIDE DEF b
<1>7. LastHeight(s) = s.m - (b * w)
  BY <1>4 DEF LastHeight, b, w
<1>8. b * w = w * b /\ w * b \in Nat
  BY <1>2, <1>6
<1> DEFINE rest == s.m % w
<1>9. LastHeight(s) = w + rest /\ rest \in 0 .. w - 1
  <2>1. rest \in 0 .. w - 1 /\ s.m = (w * q) + rest
    BY <1>3
  <2> HIDE DEF rest
  <2>2. s.m = ((w * b) + w) + rest
    BY <2>1, <1>6
  <2> QED BY <2>1, <2>2, <1>7, <1>8, <1>1, <1>2
<1> HIDE DEF rest
<1> QED BY <1>1, <1>2, <1>3, <1>4, <1>6, <1>7, <1>8, <1>9 DEF b, w

(* Every place has a number, and the number leads back to the place.       *)
LEMMA PlaceToNumber ==
  ASSUME NEW s \in ShapeRecords, NEW b, NEW x, NEW r, IsPlace(s, b, x, r)
  PROVE  /\ Number(s, b, x, r) \in 0 .. (s.m * s.n) - 1
         /\ Position(s, Number(s, b, x, r)) = Place(s, b, x, r)
         /\ Place(s, b, x, r) \in Positions(s)
<1> DEFINE w == Window(s)  B == Bands(s)  n == s.n  h == Height(s, b)
           j == Number(s, b, x, r)  base == (b * w) * n
<1>1. /\ s.m \in Nat \ {0} /\ n \in Nat \ {0} /\ w \in Nat \ {0} /\ B \in Nat
      /\ LastHeight(s) \in Nat \ {0} /\ s.m = (B * w) + LastHeight(s)
      /\ LastHeight(s) >= w /\ B * w \in Nat
  BY BandFacts
<1>2. b \in 0 .. B /\ x \in 0 .. n - 1 /\ r \in 0 .. h - 1 /\ h \in Nat \ {0}
  BY <1>1 DEF IsPlace, Height
<1>3. j = (base + (x * h)) + r /\ base \in Nat /\ x * h \in Nat /\ j \in Nat
  BY <1>1, <1>2 DEF Number
<1>4. (x * h) + r < n * h
  <2>1. (x * h) + h <= n * h
    BY <1>1, <1>2, MulBelow
  <2> QED BY <2>1, <1>1, <1>2, <1>3
<1> DEFINE end == (b * w) + h
<1>5. end <= s.m /\ end \in Nat /\ b * w \in Nat
  <2>1. CASE b < B
    <3>1. (b * w) + w <= B * w
      BY <2>1, <1>1, <1>2, MulBelow
    <3>2. h = w
      BY <2>1 DEF Height
    <3> QED BY <3>1, <3>2, <1>1, <1>2
  <2>2. CASE b = B
    BY <2>2, <1>1, <1>2 DEF Height
  <2> QED BY <2>1, <2>2, <1>1, <1>2
<1>6. j \in 0 .. (s.m * n) - 1
  <2>1. n * end <= n * s.m
    <3> HIDE DEF end
    <3> QED BY <1>1, <1>5, MulMonotone
  <2>2. n * end = (n * (b * w)) + (n * h)
    BY <1>5, <1>2, <1>1, Distribute
  <2>3. j < (n * (b * w)) + (n * h)
    BY <1>3, <1>4, <1>1, <1>2, <1>5
  <2> HIDE DEF j, end, n, w, h
  <2>4. j < n * end /\ n * end \in Nat /\ n * s.m = s.m * n
    BY <2>2, <2>3, <1>1, <1>5
  <2> QED BY <2>1, <2>4, <1>1, <1>3
<1>7. Place(s, b, x, r) \in Positions(s)
  <2>1. (b * w) + r \in 0 .. s.m - 1
    BY <1>5, <1>1, <1>2
  <2>2. (IF b % 2 # 0 THEN (n - 1) - x ELSE x) \in 0 .. n - 1
    BY <1>1, <1>2
  <2> QED BY <2>1, <2>2 DEF Place, Positions
<1>8. Position(s, j) = Place(s, b, x, r)
  <2> DEFINE band   == Least(j \div (n * w), B)
             inLast == j - ((B * w) * n)
             row    == IF band < B THEN j % w ELSE inLast % LastHeight(s)
             column == IF band < B THEN (j \div w) % n ELSE (inLast \div LastHeight(s)) % n
  <2>1. Position(s, j) = <<(band * w) + row, IF band % 2 # 0 THEN (n - 1) - column ELSE column>>
    BY PositionUnfolds
  <2>2. band = b /\ row = r /\ column = x
    <3> DEFINE q == j \div (n * w)
    <3>1. n * w \in Nat \ {0}
      BY <1>1
    <3>2. q \in Nat /\ (j % (n * w)) \in 0 .. (n * w) - 1 /\ j = ((n * w) * q) + (j % (n * w))
      <4> HIDE DEF j, w, n
      <4> QED BY <3>1, <1>3, DivMod
    <3>3. CASE b < B
      <4>1. h = w
        BY <3>3 DEF Height
      <4> HIDE DEF j, w, n, h, B
      <4>2. j = ((n * w) * b) + ((x * w) + r) /\ (x * w) + r \in 0 .. (n * w) - 1
        BY <4>1, <1>1, <1>2, <1>3, <1>4
      <4>3. q = b
        <5> DEFINE p == n * w  o == (x * w) + r
        <5>1. j \in Nat /\ p \in Nat \ {0} /\ b \in Nat /\ o \in 0 .. p - 1 /\ j = (p * b) + o
          BY <4>2, <3>1, <1>1, <1>2, <1>3
        <5> HIDE DEF p, o
        <5>2. j \div p = b
          BY <5>1, DivModUnique
        <5> QED BY <5>2 DEF p
      <4>4. band = b
        BY <4>3, <3>3, <1>1, <1>2 DEF Least
      <4> DEFINE lines == (n * b) + x
      <4>5. j = (w * lines) + r /\ lines \in Nat
        <5>1. n * b \in Nat /\ b * w = w * b
          BY <1>1, <1>2
        <5>2. w * lines = (w * (n * b)) + (w * x)
          BY <5>1, <1>1, <1>2, Distribute
        <5> QED BY <5>1, <5>2, <4>2, <1>1, <1>2
      <4>6. lines % n = x
        <5>1. /\ lines \in Nat /\ n \in Nat \ {0} /\ b \in Nat /\ x \in 0 .. n - 1
              /\ lines = (n * b) + x
          BY <1>1, <1>2, <4>5
        <5> HIDE DEF lines
        <5> QED BY <5>1, DivModUnique
      <4> HIDE DEF lines
      <4>7. j % w = r /\ j \div w = lines
        <5>1. j \in Nat /\ w \in Nat \ {0} /\ r \in 0 .. w - 1
          BY <4>1, <1>1, <1>2, <1>3
        <5> QED BY <5>1, <4>5, DivModUnique
      <4> QED BY <4>4, <4>6, <4>7, <3>3
    <3>4. CASE b = B
      <4>1. h = LastHeight(s)
        BY <3>4, <1>1 DEF Height
      <4> HIDE DEF j, w, n, h, B
      <4>2. ~(q < B)
        <5>1. ASSUME q < B PROVE FALSE
          <6> DEFINE p == n * w
          <6>1. p \in Nat \ {0} /\ q \in Nat /\ j = (p * q) + (j % p) /\ (j % p) \in 0 .. p - 1
            BY <3>1, <3>2
          <6>2. j >= p * B
            BY <1>1, <1>2, <1>3, <3>4
          <6> HIDE DEF p, q
          <6>3. (q * p) + p <= B * p
            BY <6>1, <5>1, <1>1, MulBelow
          <6> QED BY <6>1, <6>2, <6>3, <1>1
        <5> QED BY <5>1
      <4>3. band = B
        BY <4>2, <1>1, <3>2 DEF Least
      <4>4. inLast = (h * x) + r /\ inLast \in Nat
        BY <3>4, <1>1, <1>2, <1>3
      <4>5. inLast % h = r /\ inLast \div h = x
        <5>1. inLast \in Nat /\ h \in Nat \ {0} /\ x \in Nat /\ r \in 0 .. h - 1
          BY <4>4, <1>1, <1>2
        <5> HIDE DEF inLast
        <5> QED BY <5>1, <4>4, DivModUnique
      <4>6. x % n = x
        <5>1. x \in Nat /\ n \in Nat \ {0} /\ 0 \in Nat /\ x \in 0 .. n - 1 /\ x = (n * 0) + x
          BY <1>1, <1>2
        <5> QED BY <5>1, DivModUnique
      <4> HIDE DEF inLast
      <4>7. row = inLast % h /\ column = (inLast \div h) % n
        <5>1. ~(band < B)
          BY <4>3, <1>1
        <5> HIDE DEF band
        <5> QED BY <5>1, <4>1
      <4> QED BY <4>3, <4>5, <4>6, <4>7, <3>4
    <3>5. b < B \/ b = B
      <4> HIDE DEF B
      <4> QED BY <1>1, <1>2
    <3> HIDE DEF band, row, column, B
    <3> QED BY <3>3, <3>4, <3>5
  <2> HIDE DEF band, row, column
  <2> QED BY <2>1, <2>2 DEF Place
<1> QED BY <1>6, <1>7, <1>8

(* Every number below the tiles is that of a place.                        *)
LEMMA NumberToPlace ==
  ASSUME NEW s \in ShapeRecords, NEW j \in 0 .. (s.m * s.n) - 1
  PROVE  \E b, x, r : IsPlace(s, b, x, r) /\ j = Number(s, b, x, r)
<1> DEFINE w == Window(s)  B == Bands(s)  n == s.n  last == LastHeight(s)  p == n * w
           q == j \div p
<1>1. /\ s.m \in Nat \ {0} /\ n \in Nat \ {0} /\ w \in Nat \ {0} /\ B \in Nat
      /\ last \in Nat \ {0} /\ s.m = (B * w) + last /\ B * w \in Nat
  BY BandFacts
<1>2. j \in Nat /\ j < s.m * n /\ p \in Nat \ {0}
  BY <1>1
<1>3. q \in Nat /\ (j % p) \in 0 .. p - 1 /\ j = (p * q) + (j % p)
  <2> HIDE DEF p
  <2> QED BY <1>2, DivMod
<1>4. ASSUME NEW b \in 0 .. B, NEW o \in Nat, NEW h \in Nat \ {0}, h = Height(s, b),
             o < n * h, j = ((b * w) * n) + o
      PROVE  \E x, r : IsPlace(s, b, x, r) /\ j = Number(s, b, x, r)
  <2> DEFINE x == o \div h  r == o % h
  <2>1. x \in Nat /\ r \in 0 .. h - 1 /\ o = (h * x) + r
    BY <1>4, DivMod
  <2>2. x < n
    <3> HIDE DEF n
    <3> QED BY <1>4, <1>1, DivBelow
  <2>3. x \in 0 .. n - 1
    <3> HIDE DEF n, x
    <3> QED BY <2>1, <2>2, <1>1
  <2>4. IsPlace(s, b, x, r)
    BY <2>1, <2>3, <1>4 DEF IsPlace
  <2>5. (b * w) * n \in Nat
    BY <1>1
  <2>6. j = (((b * w) * n) + (x * h)) + r
    <3> HIDE DEF n, w, x, r
    <3> QED BY <2>1, <2>5, <1>4
  <2>7. j = Number(s, b, x, r)
    BY <2>6, <1>4 DEF Number
  <2> QED BY <2>4, <2>7
<1>5. CASE q < B
  <2> DEFINE o == j % p
  <2>1. o \in Nat /\ o < n * w /\ q \in 0 .. B
    <3>1. o \in 0 .. p - 1
      BY <1>3
    <3> HIDE DEF o, q, B
    <3>2. o \in Nat /\ o < p
      <4> HIDE DEF p
      <4> QED BY <3>1, <1>2
    <3> QED BY <3>2, <1>3, <1>5, <1>1
  <2>2. j = ((q * w) * n) + o
    <3>1. p * q = (q * w) * n
      <4> HIDE DEF q, w, n
      <4> QED BY <1>1, <1>3
    <3> QED BY <3>1, <1>3
  <2>3. w = Height(s, q)
    BY <1>5 DEF Height
  <2> HIDE DEF o, q
  <2> QED BY <2>1, <2>2, <2>3, <1>1, <1>4
<1>6. CASE ~(q < B)
  <2> DEFINE o == j - ((B * w) * n)
  <2> HIDE DEF q, w, n, B, last
  <2>1. B <= q
    BY <1>6, <1>1, <1>3
  <2>2. p * B <= p * q /\ p * B = (B * w) * n /\ p * B \in Nat
    <3>1. p * B <= p * q
      <4> HIDE DEF p
      <4> QED BY <2>1, <1>1, <1>2, <1>3, MulMonotone
    <3> QED BY <3>1, <1>1
  <2>3. o \in Nat /\ j = ((B * w) * n) + o
    <3> HIDE DEF p
    <3> QED BY <2>2, <1>2, <1>3
  <2>4. o < n * last
    <3>1. n * s.m = (n * (B * w)) + (n * last)
      BY <1>1, Distribute
    <3>2. s.m * n = n * s.m /\ n * (B * w) = (B * w) * n /\ n * last \in Nat
      BY <1>1
    <3> QED BY <3>1, <3>2, <2>3, <2>2, <1>2
  <2>5. last = Height(s, B) /\ B \in 0 .. B
    BY <1>1 DEF Height, last, B
  <2> HIDE DEF o
  <2> QED BY <2>3, <2>4, <2>5, <1>1, <1>4
<1> QED BY <1>5, <1>6

(* The walk stays on the output.                                           *)
LEMMA WalkInside ==
  ASSUME NEW s \in ShapeRecords, NEW j \in 0 .. (s.m * s.n) - 1
  PROVE  Position(s, j) \in Positions(s)
BY NumberToPlace, PlaceToNumber

(* The walk never comes back to a tile.                                    *)
LEMMA WalkInjective ==
  ASSUME NEW s \in ShapeRecords,
         NEW i \in 0 .. (s.m * s.n) - 1, NEW j \in 0 .. (s.m * s.n) - 1,
         Position(s, i) = Position(s, j)
  PROVE  i = j
<1> DEFINE w == Window(s)  B == Bands(s)
<1>1. w \in Nat \ {0} /\ B \in Nat /\ s.n \in Nat \ {0} /\ LastHeight(s) \in Nat \ {0}
  BY BandFacts
<1>2. PICK b, x, r : IsPlace(s, b, x, r) /\ i = Number(s, b, x, r)
  BY NumberToPlace
<1>3. PICK bb, xx, rr : IsPlace(s, bb, xx, rr) /\ j = Number(s, bb, xx, rr)
  BY NumberToPlace
<1>4. Place(s, b, x, r) = Place(s, bb, xx, rr)
  BY <1>2, <1>3, PlaceToNumber
<1>5. /\ b \in 0 .. B /\ x \in 0 .. s.n - 1 /\ r \in 0 .. Height(s, b) - 1
      /\ bb \in 0 .. B /\ xx \in 0 .. s.n - 1 /\ rr \in 0 .. Height(s, bb) - 1
  BY <1>2, <1>3 DEF IsPlace
<1>6. /\ (b * w) + r = (bb * w) + rr
      /\ (IF b % 2 # 0 THEN (s.n - 1) - x ELSE x) = (IF bb % 2 # 0 THEN (s.n - 1) - xx ELSE xx)
  BY <1>4 DEF Place
<1> HIDE DEF w, B
<1>7. ASSUME NEW a \in 0 .. B, NEW e \in 0 .. B, a < e,
             NEW y \in 0 .. Height(s, a) - 1, NEW z \in 0 .. Height(s, e) - 1
      PROVE  (a * w) + y # (e * w) + z
  <2>1. Height(s, a) = w
    BY <1>7, <1>1 DEF Height, w, B
  <2>2. (a * w) + w <= e * w
    BY <1>7, <1>1, MulBelow
  <2>3. Height(s, e) \in Nat \ {0}
    BY <1>1 DEF Height, w
  <2> QED BY <2>1, <2>2, <2>3, <1>1
<1>8. b = bb
  <2>1. ~(b < bb) /\ ~(bb < b)
    BY <1>5, <1>6, <1>7
  <2> QED BY <2>1, <1>1, <1>5
<1>9. Height(s, b) \in Nat \ {0} /\ b * w \in Nat
  BY <1>1, <1>5 DEF Height, w
<1>10. r = rr
  BY <1>5, <1>6, <1>8, <1>9
<1>11. x = xx
  BY <1>5, <1>6, <1>8, <1>1
<1> QED BY <1>2, <1>3, <1>8, <1>10, <1>11

(* The walk leaves no tile out.                                            *)
LEMMA WalkOnto ==
  ASSUME NEW s \in ShapeRecords, NEW pos \in Positions(s)
  PROVE  \E j \in 0 .. (s.m * s.n) - 1 : Position(s, j) = pos
<1> DEFINE w == Window(s)  B == Bands(s)  last == LastHeight(s)
<1>1. /\ s.m \in Nat \ {0} /\ s.n \in Nat \ {0} /\ w \in Nat \ {0} /\ B \in Nat
      /\ last \in Nat \ {0} /\ s.m = (B * w) + last /\ B * w \in Nat
  BY BandFacts
<1>2. PICK y \in 0 .. s.m - 1, z \in 0 .. s.n - 1 : pos = <<y, z>>
  BY DEF Positions
<1>3. \E b \in 0 .. B, r \in Nat : r < Height(s, b) /\ y = (b * w) + r
  <2>1. CASE y < B * w
    <3> DEFINE b == y \div w  r == y % w
    <3>1. y \in Nat
      BY <1>1
    <3>2. b \in Nat /\ r \in 0 .. w - 1 /\ y = (w * b) + r
      BY <3>1, <1>1, DivMod
    <3>3. b < B
      <4> HIDE DEF w, B
      <4> QED BY <2>1, <3>1, <1>1, DivBelow
    <3>4. Height(s, b) = w
      BY <3>3 DEF Height
    <3> HIDE DEF b, r, w, B
    <3>5. b \in 0 .. B /\ r \in Nat /\ r < Height(s, b) /\ y = (b * w) + r
      BY <3>2, <3>3, <3>4, <1>1
    <3> QED BY <3>5
  <2>2. CASE ~(y < B * w)
    <3> DEFINE r == y - (B * w)
    <3>1. Height(s, B) = last
      BY <1>1 DEF Height
    <3> HIDE DEF w, B, last
    <3>2. B \in 0 .. B /\ r \in Nat /\ r < last /\ y = (B * w) + r
      BY <2>2, <1>1
    <3> QED BY <3>1, <3>2
  <2> QED BY <2>1, <2>2
<1>4. PICK b \in 0 .. B, r \in Nat : r < Height(s, b) /\ y = (b * w) + r
  BY <1>3
<1> DEFINE x == IF b % 2 # 0 THEN (s.n - 1) - z ELSE z
<1>5. x \in 0 .. s.n - 1 /\ (IF b % 2 # 0 THEN (s.n - 1) - x ELSE x) = z
  BY <1>1
<1>6. IsPlace(s, b, x, r)
  <2>1. Height(s, b) \in Nat
    BY <1>1 DEF Height
  <2>2. r \in 0 .. Height(s, b) - 1
    BY <2>1, <1>4
  <2> QED BY <2>2, <1>5 DEF IsPlace
<1>7. Place(s, b, x, r) = pos
  BY <1>2, <1>4, <1>5 DEF Place
<1> QED BY <1>6, <1>7, PlaceToNumber

-------------------------------------------------------------------------------
(* The epilogue.                                                           *)

(* Chunk k of split tile e: its place in the round and the tile it is of.  *)
LEMMA ChunkOfTile ==
  ASSUME NEW s \in ShapeRecords, HostAllows(s),
         NEW e \in 0 .. Tail(s) - 1, NEW k \in 0 .. s.sk - 1
  PROVE  /\ (e * s.sk) + k \in 0 .. (Tail(s) * s.sk) - 1
         /\ TilePosition(s, DpTiles(s) + ((e * s.sk) + k)) = Position(s, e + DpTiles(s))
         /\ KIdx(s, DpTiles(s) + ((e * s.sk) + k)) = k
<1> DEFINE w == (e * s.sk) + k
<1>1. s.sk \in Nat \ {0} /\ Tail(s) \in Nat \ {0} /\ Tail(s) * s.sk \in Nat
  BY HostFacts
<1>2. w \in 0 .. (Tail(s) * s.sk) - 1
  <2>1. (e * s.sk) + s.sk <= Tail(s) * s.sk
    <3>1. e \in Nat /\ Tail(s) \in Nat /\ e < Tail(s)
      BY <1>1
    <3> QED BY <3>1, <1>1, MulBelow
  <2>2. e * s.sk \in Nat
    BY <1>1
  <2> QED BY <2>1, <2>2, <1>1
<1>3. w \div s.sk = e /\ w % s.sk = k
  <2>1. w \in Nat /\ s.sk \in Nat \ {0} /\ e \in Nat /\ k \in 0 .. s.sk - 1 /\ w = (s.sk * e) + k
    BY <1>1, <1>2
  <2> HIDE DEF w
  <2> QED BY <2>1, DivModUnique
<1> HIDE DEF w
<1>4. IsSk(s, DpTiles(s) + w) /\ (DpTiles(s) + w) % s.cores = w
  BY <1>2, ChunkOfCore
<1>5. MnIdx(s, DpTiles(s) + w) = e + DpTiles(s) /\ KIdx(s, DpTiles(s) + w) = k
  BY <1>3, <1>4 DEF MnIdx, KIdx
<1> QED BY <1>2, <1>5 DEF TilePosition, w

(* A vector core with an epilogue has a split tile and a part of it.       *)
LEMMA EpilogueFacts ==
  ASSUME NEW s \in ShapeRecords, HostAllows(s), NEW v \in Vectors(s), HasEpilogue(s, v)
  PROVE  /\ EpilogueTile(s, v) \in 0 .. Tail(s) - 1
         /\ EpiloguePart(s, v) \in Parts(s)
         /\ EpiloguePosition(s, v) \in Positions(s)
<1> DEFINE p == Ratio * s.sk  e == v \div p
<1>1. s.sk \in Nat \ {0} /\ Tail(s) \in Nat \ {0} /\ s.cores \in Nat \ {0} /\ Ratio \in Nat \ {0}
  BY HostFacts, RatioAssumption
<1>2. p \in Nat \ {0} /\ v \in Nat
  BY <1>1 DEF Vectors
<1>3. v < Tail(s) * p
  <2>1. v < (Tail(s) * s.sk) * Ratio
    BY DEF HasEpilogue
  <2> QED BY <2>1, <1>1, <1>2
<1> HIDE DEF p
<1>4. e \in Nat /\ (v % p) \in 0 .. p - 1
  BY <1>2, DivMod
<1>5. e < Tail(s)
  <2>1. Tail(s) \in Nat
    BY <1>1
  <2> QED BY <2>1, <1>2, <1>3, DivBelow
<1>6. e \in 0 .. Tail(s) - 1
  <2> HIDE DEF e
  <2> QED BY <1>4, <1>5, <1>1
<1>7. EpilogueTile(s, v) = e /\ EpiloguePart(s, v) = v % p /\ Parts(s) = 0 .. p - 1
  BY DEF EpilogueTile, EpiloguePart, Parts, p
<1>8. EpiloguePosition(s, v) = Position(s, e + DpTiles(s))
  BY <1>7 DEF EpiloguePosition
<1>9. e + DpTiles(s) \in 0 .. (s.m * s.n) - 1
  <2> HIDE DEF e
  <2> QED BY <1>6, HostFacts DEF MnTiles
<1> QED BY <1>4, <1>6, <1>7, <1>8, <1>9, WalkInside

(* Every part of every split tile has a vector core.                       *)
LEMMA EpilogueOnto ==
  ASSUME NEW s \in ShapeRecords, HostAllows(s),
         NEW e \in 0 .. Tail(s) - 1, NEW part \in Parts(s)
  PROVE  \E v \in Vectors(s) :
            /\ HasEpilogue(s, v)
            /\ EpiloguePosition(s, v) = Position(s, e + DpTiles(s))
            /\ EpiloguePart(s, v) = part
<1> DEFINE p == Ratio * s.sk  v == (p * e) + part
<1>1. /\ s.sk \in Nat \ {0} /\ Tail(s) \in Nat \ {0} /\ s.cores \in Nat \ {0} /\ Ratio \in Nat \ {0}
      /\ Tail(s) * s.sk \in Nat /\ Tail(s) * s.sk <= s.cores
  BY HostFacts, RatioAssumption
<1>2. p \in Nat \ {0} /\ part \in 0 .. p - 1
  BY <1>1 DEF Parts
<1>3. e \in Nat /\ e < Tail(s)
  BY <1>1
<1>4. v \in Nat /\ v < Tail(s) * p
  <2> HIDE DEF p
  <2>1. (e * p) + p <= Tail(s) * p
    BY <1>1, <1>2, <1>3, MulBelow
  <2> QED BY <2>1, <1>1, <1>2, <1>3
<1>5. Tail(s) * p = Ratio * (Tail(s) * s.sk)
  BY <1>1
<1>6. Ratio * (Tail(s) * s.sk) <= Ratio * s.cores
  BY <1>1, MulMonotone
<1>7. v \in Vectors(s)
  <2>1. Ratio * s.cores \in Nat
    BY <1>1
  <2> HIDE DEF v, p
  <2>2. v < Ratio * s.cores
    <3>1. Ratio * (Tail(s) * s.sk) \in Nat
      BY <1>1
    <3> QED BY <3>1, <2>1, <1>4, <1>5, <1>6
  <2> QED BY <2>1, <2>2, <1>4 DEF Vectors
<1>8. HasEpilogue(s, v)
  <2>1. (Tail(s) * s.sk) * Ratio = Ratio * (Tail(s) * s.sk)
    BY <1>1
  <2> HIDE DEF v
  <2> QED BY <2>1, <1>4, <1>5 DEF HasEpilogue
<1>9. v \div p = e /\ v % p = part
  <2>1. v = (p * e) + part
    OBVIOUS
  <2> HIDE DEF v, p
  <2> QED BY <2>1, <1>2, <1>3, <1>4, DivModUnique
<1>10. EpilogueTile(s, v) = e /\ EpiloguePart(s, v) = part
  BY <1>9 DEF EpilogueTile, EpiloguePart
<1> HIDE DEF v
<1>11. EpiloguePosition(s, v) = Position(s, e + DpTiles(s))
  BY <1>10 DEF EpiloguePosition
<1> QED BY <1>7, <1>8, <1>10, <1>11

-------------------------------------------------------------------------------
(* What the schedule must satisfy, for every shape.                        *)

(* The serpentine walk visits every tile of every output once, whatever    *)
(* the height of its last band.                                            *)
THEOREM EveryTileVisited ==
  \A s \in ShapeRecords : VisitsEveryTileOnce(s)
<1> SUFFICES ASSUME NEW s \in ShapeRecords PROVE VisitsEveryTileOnce(s)
  OBVIOUS
<1>1. {Position(s, j) : j \in 0 .. s.m * s.n - 1} \subseteq Positions(s)
  BY WalkInside
<1>2. Positions(s) \subseteq {Position(s, j) : j \in 0 .. s.m * s.n - 1}
  BY WalkOnto
<1>3. \A i, j \in 0 .. s.m * s.n - 1 : Position(s, i) = Position(s, j) => i = j
  BY WalkInjective
<1> QED BY <1>1, <1>2, <1>3 DEF VisitsEveryTileOnce

(* Whole tiles and chunks together cover the output: every whole tile is   *)
(* computed once, every chunk of every other tile once, nothing else.      *)
THEOREM EveryChunkComputed ==
  \A s \in ShapeRecords : HostAllows(s) => CoversEveryChunkOnce(s)
<1> SUFFICES ASSUME NEW s \in ShapeRecords, HostAllows(s) PROVE CoversEveryChunkOnce(s)
  OBVIOUS
<1> DEFINE dp == {i \in 0 .. TileNum(s) - 1 : ~IsSk(s, i)}
           sk == {i \in 0 .. TileNum(s) - 1 : IsSk(s, i)}
           split == {Position(s, j) : j \in DpTiles(s) .. MnTiles(s) - 1}
           D == DpTiles(s)  T == TileNum(s)  S == Tail(s) * s.sk
<1>1. /\ D \in Nat /\ S \in Nat /\ T = D + S /\ T \in Nat /\ s.sk \in Nat \ {0}
      /\ MnTiles(s) = D + Tail(s) /\ Tail(s) \in Nat /\ MnTiles(s) = s.m * s.n
  BY HostFacts DEF MnTiles
<1>2. dp = 0 .. D - 1 /\ sk = D .. T - 1
  <2>1. ASSUME NEW i \in 0 .. T - 1 PROVE IsSk(s, i) <=> i >= D
    BY Numbering
  <2> HIDE DEF D, T, S
  <2>2. dp = {i \in 0 .. T - 1 : ~(i >= D)} /\ sk = {i \in 0 .. T - 1 : i >= D}
    BY <2>1 DEF T
  <2> HIDE DEF dp, sk
  <2>3. D \in Nat /\ S \in Nat /\ T = D + S
    BY <1>1
  <2>4. ASSUME NEW i PROVE i \in dp <=> i \in 0 .. D - 1
    BY <2>2, <2>3
  <2>5. ASSUME NEW i PROVE i \in sk <=> i \in D .. T - 1
    BY <2>2, <2>3
  <2>6. dp = 0 .. D - 1
    BY <2>4, Zenon
  <2>7. sk = D .. T - 1
    BY <2>5, Zenon
  <2> QED BY <2>6, <2>7
<1>3. {TilePosition(s, i) : i \in dp} = Positions(s) \ split
  <2>1. ASSUME NEW i \in dp PROVE TilePosition(s, i) = Position(s, i)
    BY DEF TilePosition, MnIdx
  <2>2. {TilePosition(s, i) : i \in dp} = {Position(s, i) : i \in 0 .. D - 1}
    <3> HIDE DEF dp, D
    <3> QED BY <2>1, <1>2
  <2>3. ASSUME NEW i \in 0 .. D - 1
        PROVE  Position(s, i) \in Positions(s) /\ Position(s, i) \notin split
    <3>1. i \in 0 .. (s.m * s.n) - 1
      BY <1>1
    <3>2. ASSUME NEW j \in D .. MnTiles(s) - 1 PROVE Position(s, i) # Position(s, j)
      <4>1. j \in 0 .. (s.m * s.n) - 1 /\ i # j
        BY <1>1
      <4> QED BY <3>1, <4>1, WalkInjective
    <3> QED BY <3>1, <3>2, WalkInside
  <2>4. ASSUME NEW pos \in Positions(s), pos \notin split
        PROVE  \E i \in 0 .. D - 1 : pos = Position(s, i)
    <3>1. PICK j \in 0 .. (s.m * s.n) - 1 : Position(s, j) = pos
      BY WalkOnto
    <3>2. j \in 0 .. D - 1
      <4>1. j \notin D .. MnTiles(s) - 1
        BY <3>1, <2>4
      <4> QED BY <4>1, <1>1
    <3> QED BY <3>1, <3>2
  <2> HIDE DEF dp, split, D
  <2> QED BY <2>2, <2>3, <2>4
<1>4. {<<TilePosition(s, i), KIdx(s, i)>> : i \in sk} = split \X (0 .. s.sk - 1)
  <2>1. ASSUME NEW i \in sk
        PROVE  TilePosition(s, i) \in split /\ KIdx(s, i) \in 0 .. s.sk - 1
    <3> DEFINE x == i % s.cores  e == x \div s.sk
    <3>1. i \in 0 .. T - 1 /\ IsSk(s, i) /\ i >= D
      BY Numbering
    <3>2. x = i - D /\ x \in Nat /\ x < S
      BY <3>1, <1>1, Numbering
    <3>3. KIdx(s, i) = x % s.sk /\ TilePosition(s, i) = Position(s, e + D)
      BY <3>1 DEF KIdx, TilePosition, MnIdx
    <3> HIDE DEF x, D, S
    <3>4. e \in Nat /\ (x % s.sk) \in 0 .. s.sk - 1
      BY <3>2, <1>1, DivMod
    <3>5. e < Tail(s)
      BY <3>2, <1>1, DivBelow DEF S
    <3> HIDE DEF e
    <3>6. e + D \in D .. MnTiles(s) - 1
      BY <3>4, <3>5, <1>1
    <3> QED BY <3>3, <3>4, <3>6 DEF D
  <2>2. ASSUME NEW j \in D .. MnTiles(s) - 1, NEW k \in 0 .. s.sk - 1
        PROVE  \E i \in sk : TilePosition(s, i) = Position(s, j) /\ KIdx(s, i) = k
    <3> DEFINE e == j - D  w == (e * s.sk) + k
    <3>1. e \in 0 .. Tail(s) - 1 /\ e + D = j
      BY <1>1
    <3> HIDE DEF e
    <3>2. /\ w \in 0 .. (Tail(s) * s.sk) - 1
          /\ TilePosition(s, DpTiles(s) + w) = Position(s, e + DpTiles(s))
          /\ KIdx(s, DpTiles(s) + w) = k
      BY <3>1, ChunkOfTile
    <3> HIDE DEF w
    <3>3. DpTiles(s) + w \in sk
      BY <3>2, ChunkOfCore
    <3> QED BY <3>1, <3>2, <3>3
  <2> HIDE DEF sk, D
  <2>3. ASSUME NEW i \in sk
        PROVE  <<TilePosition(s, i), KIdx(s, i)>> \in split \X (0 .. s.sk - 1)
    BY <2>1
  <2>4. ASSUME NEW x \in split \X (0 .. s.sk - 1)
        PROVE  x \in {<<TilePosition(s, i), KIdx(s, i)>> : i \in sk}
    <3>1. PICK j \in D .. MnTiles(s) - 1, k \in 0 .. s.sk - 1 : x = <<Position(s, j), k>>
      BY DEF D
    <3> QED BY <3>1, <2>2
  <2> QED BY <2>3, <2>4
<1>5. Cardinality(dp) + Cardinality(sk) = D + S
  <2> HIDE DEF dp, sk, D, T, S
  <2>1. Cardinality(dp) = D
    BY <1>1, <1>2, FS_Interval
  <2>2. Cardinality(sk) = S
    BY <1>1, <1>2, FS_Interval
  <2> QED BY <2>1, <2>2
<1> QED BY <1>3, <1>4, <1>5 DEF CoversEveryChunkOnce

(* Computing the chunk before the last whole tile only reorders the tiles  *)
(* of a core, and the vector cores are told after exactly one of them: its *)
(* chunk, if it has one.                                                   *)
THEOREM PreloadReordersOwnTiles ==
  \A s \in ShapeRecords : HostAllows(s) => PreloadPermutes(s)
<1> SUFFICES ASSUME NEW s \in ShapeRecords, HostAllows(s), NEW c \in Cores(s)
             PROVE  LET mine == TilesOf(s, c) IN
                    /\ {TileAt(s, i) : i \in mine} = mine
                    /\ Cardinality({i \in mine : IsLast(s, TileAt(s, i))})
                         = (IF mine = {} THEN 0 ELSE 1)
                    /\ \A i \in mine : IsSk(s, i) => IsLast(s, i)
  BY DEF PreloadPermutes
<1> DEFINE mine == TilesOf(s, c)
           last == {i \in mine : IsLast(s, TileAt(s, i))}
           n == s.cores  D == DpTiles(s)  S == Tail(s) * s.sk  T == TileNum(s)
<1>1. /\ n \in Nat \ {0} /\ D \in Nat /\ S \in 2 .. n /\ T = D + S /\ T \in Nat
  BY HostFacts
<1>2. ASSUME NEW i \in mine
      PROVE  /\ i \in 0 .. T - 1 /\ i % n = c
             /\ TileAt(s, i) \in mine /\ TileAt(s, TileAt(s, i)) = i
  <2>1. i \in 0 .. TileNum(s) - 1 /\ i % s.cores = c
    BY DEF TilesOf
  <2> QED BY <2>1, PreloadExchanges DEF TilesOf
<1>3. {TileAt(s, i) : i \in mine} = mine
  <2> HIDE DEF mine
  <2> QED BY <1>2
<1>4. ASSUME NEW i \in mine, IsSk(s, i) PROVE IsLast(s, i)
  <2>1. i \in 0 .. T - 1 /\ i >= D
    BY <1>2, <1>4, Numbering
  <2>2. i + n >= T
    <3> HIDE DEF n, D, S, T
    <3> QED BY <2>1, <1>1
  <2> QED BY <2>2 DEF IsLast
<1>5. ASSUME mine # {} PROVE \E l \in mine : IsLast(s, l)
  <2>1. c \in 0 .. n - 1
    BY DEF Cores
  <2>2. CASE c < S
    <3>1. D + c \in mine /\ IsLast(s, D + c)
      <4>1. c \in 0 .. (Tail(s) * s.sk) - 1
        BY <2>1, <2>2, <1>1
      <4> QED BY <4>1, ChunkOfCore DEF TilesOf
    <3> QED BY <3>1
  <2>3. CASE ~(c < S)
    <3> DEFINE d == MnTiles(s) \div n  l == (D - n) + c
    <3>1. d \in Nat /\ D = n * d
      BY HostFacts
    <3>2. PICK i \in mine : TRUE
      BY <1>5
    <3>3. i \in 0 .. T - 1 /\ i % n = c
      BY <1>2
    <3>4. d # 0
      <4>1. SUFFICES ASSUME d = 0 PROVE FALSE
        OBVIOUS
      <4>2. D = 0
        <5> HIDE DEF d, D, n
        <5> QED BY <4>1, <3>1, <1>1
      <4>3. i >= D
        <5> HIDE DEF D, T
        <5> QED BY <4>2, <3>3
      <4>4. i % n = i - D
        BY <4>3, <3>3, Numbering
      <4> HIDE DEF D, T, S, n
      <4> QED BY <4>2, <4>4, <3>3, <2>3, <1>1, <2>1
    <3> HIDE DEF d
    <3> DEFINE before == n * (d - 1)
    <3>5. n <= D /\ D = before + n /\ before \in Nat
      <4> HIDE DEF n, D
      <4>1. d - 1 \in Nat /\ 1 \in Nat /\ d = (d - 1) + 1
        BY <3>1, <3>4
      <4>2. n * ((d - 1) + 1) = (n * (d - 1)) + (n * 1)
        BY <4>1, <1>1, Distribute
      <4>3. n * (d - 1) \in Nat
        BY <4>1, <1>1
      <4> QED BY <4>1, <4>2, <4>3, <3>1, <1>1
    <3>6. l \in Nat /\ l = before + c /\ l \in 0 .. T - 1 /\ l + n >= T
      <4> HIDE DEF n, D, S, T, before
      <4> QED BY <3>5, <1>1, <2>1, <2>3
    <3>7. d - 1 \in Nat
      BY <3>1, <3>4
    <3>8. l % n = c
      <4>1. l = (n * (d - 1)) + c
        BY <3>6
      <4> HIDE DEF l, n
      <4> QED BY <4>1, <3>6, <3>7, <1>1, <2>1, DivModUnique
    <3>9. l \in mine /\ IsLast(s, l)
      <4> HIDE DEF l
      <4> QED BY <3>6, <3>8 DEF TilesOf, IsLast
    <3> QED BY <3>9
  <2> QED BY <2>2, <2>3
<1>6. Cardinality(last) = IF mine = {} THEN 0 ELSE 1
  <2>1. CASE mine = {}
    <3>1. last = {}
      BY <2>1
    <3> QED BY <3>1, <2>1, FS_EmptySet
  <2>2. CASE mine # {}
    <3>1. PICK l \in mine : IsLast(s, l)
      BY <2>2, <1>5
    <3>2. TileAt(s, l) \in last
      <4>1. TileAt(s, l) \in mine /\ TileAt(s, TileAt(s, l)) = l
        BY <1>2
      <4> HIDE DEF mine
      <4> QED BY <4>1, <3>1
    <3>3. ASSUME NEW j \in last PROVE j = TileAt(s, l)
      <4>1. j \in mine /\ IsLast(s, TileAt(s, j))
        OBVIOUS
      <4>2. /\ TileAt(s, j) \in mine /\ TileAt(s, TileAt(s, j)) = j
        BY <4>1, <1>2
      <4>3. /\ TileAt(s, j) \in 0 .. TileNum(s) - 1 /\ TileAt(s, j) % s.cores = c
            /\ l \in 0 .. TileNum(s) - 1 /\ l % s.cores = c
        BY <4>2, <3>1, <1>2
      <4>4. TileAt(s, j) = l
        BY <4>1, <4>3, <3>1, LastIsUnique
      <4> QED BY <4>2, <4>4
    <3>4. last = {TileAt(s, l)}
      <4> HIDE DEF last
      <4> QED BY <3>2, <3>3
    <3> HIDE DEF last
    <3> QED BY <3>4, <2>2, FS_Singleton
  <2> QED BY <2>1, <2>2
<1> QED BY <1>3, <1>4, <1>6

(* A chunk is parked in the slot of the core that computes it, so that no  *)
(* two chunks share one, and a vector core finds all chunks of its tile,   *)
(* and no other, in the slots it sums.                                     *)
THEOREM EpilogueSumsItsTile ==
  \A s \in ShapeRecords : HostAllows(s) => SlotsAgree(s)
<1> SUFFICES ASSUME NEW s \in ShapeRecords, HostAllows(s) PROVE SlotsAgree(s)
  OBVIOUS
<1> DEFINE sk == {i \in 0 .. TileNum(s) - 1 : IsSk(s, i)}
           D == DpTiles(s)  S == Tail(s) * s.sk
<1>1. /\ D \in Nat /\ S \in Nat /\ TileNum(s) = D + S /\ s.sk \in Nat \ {0}
      /\ s.cores \in Nat \ {0} /\ Tail(s) \in Nat /\ MnTiles(s) = D + Tail(s)
      /\ MnTiles(s) = s.m * s.n
  BY HostFacts DEF MnTiles
<1>2. ASSUME NEW i \in sk
      PROVE  /\ i \in D .. (D + S) - 1 /\ Slot(s, i) \in Cores(s) /\ Slot(s, i) = i - D
  <2>1. i \in 0 .. TileNum(s) - 1 /\ IsSk(s, i)
    OBVIOUS
  <2>2. i >= D /\ Slot(s, i) = i % s.cores /\ Slot(s, i) = i - D
    BY <2>1, Numbering, SlotIsCore
  <2>3. i \in Nat
    BY <2>1
  <2>4. (i % s.cores) \in 0 .. s.cores - 1
    BY <2>3, <1>1, DivMod
  <2> QED BY <2>1, <2>2, <2>4, <1>1 DEF Cores
<1>3. \A i, j \in sk : Slot(s, i) = Slot(s, j) => i = j
  <2> HIDE DEF sk, D, S
  <2> QED BY <1>1, <1>2
<1>4. ASSUME NEW v \in Vectors(s), HasEpilogue(s, v)
      PROVE  EpilogueSlots(s, v)
               = {Slot(s, i) : i \in {j \in sk : TilePosition(s, j) = EpiloguePosition(s, v)}}
  <2> DEFINE e == EpilogueTile(s, v)
             mine == {j \in sk : TilePosition(s, j) = EpiloguePosition(s, v)}
  <2>1. e \in 0 .. Tail(s) - 1 /\ EpiloguePosition(s, v) = Position(s, e + DpTiles(s))
    BY <1>4, EpilogueFacts DEF EpiloguePosition
  <2>2. EpilogueSlots(s, v) = {(e * s.sk) + k : k \in 0 .. s.sk - 1}
    BY DEF EpilogueSlots
  <2> HIDE DEF e
  <2>3. ASSUME NEW k \in 0 .. s.sk - 1
        PROVE  \E j \in mine : Slot(s, j) = (e * s.sk) + k
    <3> DEFINE w == (e * s.sk) + k
    <3>1. /\ w \in 0 .. (Tail(s) * s.sk) - 1
          /\ TilePosition(s, DpTiles(s) + w) = Position(s, e + DpTiles(s))
      BY <2>1, ChunkOfTile
    <3> HIDE DEF w
    <3>2. DpTiles(s) + w \in sk
      BY <3>1, ChunkOfCore
    <3>3. Slot(s, DpTiles(s) + w) = (DpTiles(s) + w) - D
      BY <3>2, <1>2
    <3>4. Slot(s, DpTiles(s) + w) = w
      <4> HIDE DEF S
      <4> QED BY <3>3, <3>1, <1>1 DEF D
    <3>5. DpTiles(s) + w \in mine
      BY <3>1, <3>2, <2>1
    <3> QED BY <3>4, <3>5 DEF w
  <2>4. ASSUME NEW j \in mine
        PROVE  \E k \in 0 .. s.sk - 1 : Slot(s, j) = (e * s.sk) + k
    <3> DEFINE x == j % s.cores  f == x \div s.sk
    <3>1. /\ j \in sk /\ j \in 0 .. TileNum(s) - 1 /\ IsSk(s, j)
          /\ TilePosition(s, j) = Position(s, e + D)
      BY <2>1
    <3>2. /\ Slot(s, j) = x /\ Slot(s, j) = j - D /\ j \in D .. (D + S) - 1
      BY <3>1, <1>2, SlotIsCore
    <3>3. TilePosition(s, j) = Position(s, f + D)
      BY <3>1 DEF TilePosition, MnIdx
    <3> HIDE DEF x, D, S, mine, sk
    <3>4. x \in Nat /\ x < S
      BY <3>2, <1>1
    <3>5. f \in Nat /\ (x % s.sk) \in 0 .. s.sk - 1 /\ x = (s.sk * f) + (x % s.sk)
      BY <3>4, <1>1, DivMod
    <3>6. f < Tail(s)
      BY <3>4, <1>1, DivBelow DEF S
    <3> HIDE DEF f
    <3>7. /\ e + D \in 0 .. (s.m * s.n) - 1 /\ f + D \in 0 .. (s.m * s.n) - 1
      BY <3>5, <3>6, <2>1, <1>1
    <3>8. e + D = f + D
      BY <3>7, <3>1, <3>3, WalkInjective
    <3>9. e = f
      BY <3>8, <3>5, <2>1, <1>1
    <3>10. Slot(s, j) = (e * s.sk) + (x % s.sk)
      BY <3>2, <3>5, <3>9, <1>1
    <3> QED BY <3>5, <3>10
  <2> HIDE DEF mine
  <2>5. EpilogueSlots(s, v) = {Slot(s, i) : i \in mine}
    BY <2>2, <2>3, <2>4
  <2> QED BY <2>5 DEF mine
<1>5. \A i \in sk : Slot(s, i) \in Cores(s)
  BY <1>2
<1> HIDE DEF sk
<1>6. /\ \A i \in sk : Slot(s, i) \in Cores(s)
      /\ \A i, j \in sk : Slot(s, i) = Slot(s, j) => i = j
      /\ \A v \in Vectors(s) : HasEpilogue(s, v) =>
           EpilogueSlots(s, v)
             = {Slot(s, i) : i \in {j \in sk : TilePosition(s, j) = EpiloguePosition(s, v)}}
  BY <1>3, <1>4, <1>5
<1> QED BY <1>6 DEF SlotsAgree, sk

(* A ceiling is the least number of pieces that cover.                     *)
LEMMA CeilDivCovers ==
  ASSUME NEW a \in Nat, NEW b \in Nat \ {0}
  PROVE  /\ CeilDiv(a, b) \in Nat
         /\ a <= b * CeilDiv(a, b) /\ b * CeilDiv(a, b) < a + b
<1> DEFINE x == (a + b) - 1
<1>1. x \in Nat /\ CeilDiv(a, b) = x \div b
  BY DEF CeilDiv
<1> HIDE DEF x
<1>2. /\ x \div b \in Nat /\ (x % b) \in 0 .. b - 1
      /\ x = (b * (x \div b)) + (x % b)
  BY <1>1, DivMod
<1> DEFINE q == x \div b  r == x % b  product == b * q
<1>3. /\ q \in Nat /\ r \in 0 .. b - 1 /\ x = product + r /\ product \in Nat
  BY <1>2
<1>4. x = (a + b) - 1
  BY DEF x
<1>5. a <= product /\ product < a + b
  <2> HIDE DEF product, r, q
  <2> QED BY <1>3, <1>4
<1> QED BY <1>1, <1>3, <1>5

(* The bursts of a tile: at least one line each, at most one for a part,   *)
(* and all but the last of them full.                                      *)
LEMMA BurstFacts ==
  ASSUME NEW s \in ShapeRecords, s.sk # 0, NEW rows \in Nat \ {0}, NEW columns \in Nat \ {0}
  PROVE  LET burst  == Burst(s, rows, columns)
             bursts == CeilDiv(rows, burst)
         IN  /\ burst \in Nat \ {0} /\ bursts \in Nat \ {0}
             /\ rows <= bursts * burst /\ (bursts - 1) * burst < rows
             /\ bursts <= Ratio * s.sk
<1> DEFINE parts == Ratio * s.sk  unit == CeilDiv(UB2GM_SRCGAP_UNIT, columns)
           share == CeilDiv(rows, parts)  units == CeilDiv(share, unit)
           burst == Burst(s, rows, columns)  bursts == CeilDiv(rows, burst)
<1>1. parts \in Nat \ {0}
  BY RatioAssumption DEF ShapeRecords
<1>2. unit \in Nat \ {0}
  <2>1. UB2GM_SRCGAP_UNIT \in Nat \ {0}
    BY DEF UB2GM_SRCGAP_UNIT
  <2>2. unit \in Nat /\ UB2GM_SRCGAP_UNIT <= columns * unit
    BY <2>1, CeilDivCovers
  <2> HIDE DEF unit
  <2> QED BY <2>1, <2>2
<1>3. share \in Nat \ {0} /\ rows <= parts * share
  <2> HIDE DEF parts
  <2>1. share \in Nat /\ rows <= parts * share
    BY <1>1, CeilDivCovers
  <2> HIDE DEF share
  <2> QED BY <2>1, <1>1
<1> HIDE DEF parts, unit, share
<1>4. burst \in Nat \ {0} /\ share <= burst
  <2>1. units \in Nat /\ share <= unit * units
    BY <1>2, <1>3, CeilDivCovers
  <2>2. burst = units * unit
    BY DEF Burst, parts, unit, share
  <2> HIDE DEF units, burst
  <2>3. unit * units = units * unit /\ unit * units \in Nat
    BY <2>1, <1>2
  <2> QED BY <2>1, <2>2, <2>3, <1>3
<1> HIDE DEF burst
<1>5. bursts \in Nat /\ rows <= burst * bursts /\ burst * bursts < rows + burst
  BY <1>4, CeilDivCovers
<1> HIDE DEF bursts
<1>6. bursts # 0 /\ burst * bursts = bursts * burst
  BY <1>4, <1>5
<1>7. (bursts - 1) * burst < rows
  <2>1. bursts - 1 \in Nat /\ 1 \in Nat /\ (bursts - 1) + 1 = bursts
    BY <1>5, <1>6
  <2>2. burst * ((bursts - 1) + 1) = (burst * (bursts - 1)) + (burst * 1)
    BY <2>1, <1>4, Distribute
  <2>3. burst * (bursts - 1) = (bursts - 1) * burst /\ (bursts - 1) * burst \in Nat
    BY <2>1, <1>4
  <2> QED BY <2>1, <2>2, <2>3, <1>4, <1>5
<1>8. bursts <= parts
  <2>1. SUFFICES ASSUME parts < bursts PROVE FALSE
    BY <1>1, <1>5
  <2>2. (parts * burst) + burst <= bursts * burst
    BY <2>1, <1>1, <1>4, <1>5, MulBelow
  <2>3. parts * share <= parts * burst /\ parts * burst \in Nat
    BY <1>1, <1>3, <1>4, MulMonotone
  <2>4. parts * share \in Nat /\ bursts * burst \in Nat
    BY <1>1, <1>3, <1>4, <1>5
  <2> QED BY <2>2, <2>3, <2>4, <1>3, <1>4, <1>5, <1>6
<1> QED BY <1>4, <1>5, <1>6, <1>7, <1>8 DEF burst, bursts, parts

(* The parts of a split tile share its rows out, whatever the size of the  *)
(* tile: also those behind the last full burst, of which parts may be      *)
(* empty, and never the rows of the tile below.                            *)
THEOREM PartsShareEveryTile ==
  \A s \in ShapeRecords, rows, columns \in Nat \ {0} :
    s.sk # 0 => PartsShareRows(s, rows, columns)
<1> SUFFICES ASSUME NEW s \in ShapeRecords, s.sk # 0,
                    NEW rows \in Nat \ {0}, NEW columns \in Nat \ {0}
             PROVE  PartsShareRows(s, rows, columns)
  OBVIOUS
<1> DEFINE burst == Burst(s, rows, columns)  bursts == CeilDiv(rows, burst)
           length(p) == IF p >= bursts THEN 0
                        ELSE IF p = bursts - 1 THEN rows - ((bursts - 1) * burst)
                        ELSE burst
           part(p) == RowsOfPart(s, rows, columns, p)
<1>1. /\ burst \in Nat \ {0} /\ bursts \in Nat \ {0}
      /\ rows <= bursts * burst /\ (bursts - 1) * burst < rows
      /\ bursts <= Ratio * s.sk
  BY BurstFacts
<1>2. \A p : part(p) = {(p * burst) + x : x \in 0 .. length(p) - 1}
  BY DEF RowsOfPart
<1>3. Parts(s) = 0 .. (Ratio * s.sk) - 1 /\ Ratio * s.sk \in Nat
  BY RatioAssumption DEF Parts, ShapeRecords
<1> HIDE DEF burst, bursts, part
<1>4. ASSUME NEW p \in Nat, NEW x \in 0 .. length(p) - 1
      PROVE  x \in 0 .. burst - 1 /\ (p * burst) + x \in 0 .. rows - 1
  <2>1. p < bursts
    BY <1>1
  <2> DEFINE before == p * burst  full == (bursts - 1) * burst  all == bursts * burst
  <2>2. before \in Nat /\ full \in Nat /\ all = full + burst
    <3>1. bursts - 1 \in Nat /\ 1 \in Nat /\ (bursts - 1) + 1 = bursts
      BY <1>1
    <3>2. burst * ((bursts - 1) + 1) = (burst * (bursts - 1)) + (burst * 1)
      BY <3>1, <1>1, Distribute
    <3>3. /\ burst * bursts = bursts * burst
          /\ burst * (bursts - 1) = (bursts - 1) * burst /\ (bursts - 1) * burst \in Nat
          /\ p * burst \in Nat
      BY <3>1, <1>1
    <3> QED BY <3>1, <3>2, <3>3, <1>1
  <2>3. CASE p = bursts - 1
    <3>1. before = full /\ length(p) = rows - full
      BY <2>1, <2>3, <1>1
    <3>2. rows <= all /\ full < rows
      BY <1>1
    <3>3. x \in 0 .. (rows - full) - 1
      BY <3>1
    <3> HIDE DEF before, full, all, length
    <3>4. x \in 0 .. burst - 1 /\ before + x \in 0 .. rows - 1
      BY <3>1, <3>2, <3>3, <2>2, <1>1
    <3> QED BY <3>4 DEF before
  <2>4. CASE p # bursts - 1
    <3>1. x \in 0 .. burst - 1
      BY <2>1, <2>4, <1>1
    <3>2. p \in Nat /\ bursts - 1 \in Nat /\ p < bursts - 1
      BY <2>1, <2>4, <1>1
    <3>3. before + burst <= full
      BY <3>2, <1>1, MulBelow
    <3>4. full < rows
      BY <1>1
    <3> HIDE DEF before, full, all, length
    <3>5. before + x \in 0 .. rows - 1
      BY <3>1, <3>3, <3>4, <2>2, <1>1
    <3> QED BY <3>1, <3>5 DEF before
  <2> QED BY <2>3, <2>4
<1>5. ASSUME NEW r \in 0 .. rows - 1 PROVE {p \in Parts(s) : r \in part(p)} = {r \div burst}
  <2> DEFINE q == r \div burst  x == r % burst
  <2>1. /\ q \in Nat /\ x \in 0 .. burst - 1 /\ r = (burst * q) + x
    <3>1. r \in Nat /\ burst \in Nat \ {0}
      BY <1>1
    <3> QED BY <3>1, DivMod
  <2> HIDE DEF q, x
  <2>2. burst * q = q * burst /\ q * burst \in Nat
    BY <2>1, <1>1
  <2>3. q < bursts
    <3>1. SUFFICES ASSUME bursts <= q PROVE FALSE
      BY <2>1, <1>1
    <3>2. burst * bursts <= burst * q
      BY <3>1, <2>1, <1>1, MulMonotone
    <3>3. burst * bursts = bursts * burst /\ bursts * burst \in Nat
      BY <1>1
    <3> QED BY <3>2, <3>3, <2>1, <2>2, <1>1
  <2>4. x \in 0 .. length(q) - 1
    <3>1. CASE q = bursts - 1
      <4>1. length(q) = rows - (q * burst)
        BY <3>1, <2>3, <2>1, <1>1
      <4> HIDE DEF length
      <4> QED BY <4>1, <2>1, <2>2, <1>1
    <3>2. CASE q # bursts - 1
      BY <3>2, <2>1, <2>3, <1>1
    <3> QED BY <3>1, <3>2
  <2>5. r \in part(q)
    <3> HIDE DEF length
    <3>1. r = (q * burst) + x
      BY <2>1, <2>2
    <3> QED BY <3>1, <2>4, <1>2
  <2>6. q \in Parts(s)
    BY <2>1, <2>3, <1>1, <1>3
  <2>7. ASSUME NEW p \in Parts(s), r \in part(p) PROVE p = q
    <3>1. p \in Nat
      BY <1>3
    <3>2. PICK y \in 0 .. length(p) - 1 : r = (p * burst) + y
      BY <2>7, <1>2
    <3>3. y \in 0 .. burst - 1
      BY <3>1, <3>2, <1>4
    <3>4. p * burst = burst * p
      BY <3>1, <1>1
    <3>5. r \in Nat /\ r = (burst * p) + y
      BY <3>2, <3>4
    <3>6. r \div burst = p
      BY <3>1, <3>3, <3>5, <1>1, DivModUnique
    <3> QED BY <3>6 DEF q
  <2> QED BY <2>5, <2>6, <2>7 DEF q
<1>6. ASSUME NEW r \in 0 .. rows - 1
      PROVE  Cardinality({p \in Parts(s) : r \in part(p)}) = 1
  BY <1>5, FS_Singleton
<1>7. ASSUME NEW p \in Parts(s) PROVE part(p) \subseteq 0 .. rows - 1
  <2>1. p \in Nat
    BY <1>3
  <2> HIDE DEF length
  <2> QED BY <2>1, <1>2, <1>4
<1> QED BY <1>6, <1>7 DEF PartsShareRows, part
===============================================================================
