------------------------ MODULE MCSchedulesCover_proofs -------------------------
(***************************************************************************)
(* The schedules of MCSchedules share the output out, whatever the sizes:  *)
(* the tiles of Stream-K and of split k, the parts of a per-tile matmul    *)
(* and of an ASWT launch, the pieces of the vector cores, and what they    *)
(* add up of the slices of split k. Sharing out is proved by cells:        *)
(* rectangles that hold every cell once are apart, and their areas add up  *)
(* to that of the whole.                                                   *)
(***************************************************************************)
EXTENDS MCSchedules_proofs, SequenceTheorems

-------------------------------------------------------------------------------
(* Rectangles that share lines and columns out: their areas add up.        *)

(* How MapThenSumSet adds up what a gives the elements of S.               *)
IsSum(f, S, a) ==
  f = [s \in SUBSET S |-> IF s = {} THEN 0
                          ELSE a[CHOOSE x \in s : TRUE] + f[s \ {CHOOSE x \in s : TRUE}]]
SumOver(S, a) == (CHOOSE f : IsSum(f, S, a))[S]

(* The elements of all of the sets of C, by index.                         *)
All(C, T) == UNION {C[x] : x \in T}
Apart(C, S) == \A x, y \in S : x # y => C[x] \cap C[y] = {}

(* One set less.                                                           *)
LEMMA OneLess ==
  ASSUME NEW S, NEW C, NEW T \in SUBSET S, NEW x \in T, Apart(C, S),
         \A y \in S : IsFiniteSet(C[y]), IsFiniteSet(S)
  PROVE  /\ IsFiniteSet(All(C, T)) /\ IsFiniteSet(All(C, T \ {x}))
         /\ Cardinality(All(C, T)) = Cardinality(C[x]) + Cardinality(All(C, T \ {x}))
         /\ Cardinality(All(C, T \ {x})) \in Nat /\ Cardinality(C[x]) \in Nat
<1>1. ASSUME NEW U \in SUBSET S PROVE IsFiniteSet(All(C, U))
  <2>1. IsFiniteSet(U)
    BY FS_Subset
  <2> DEFINE I == {C[y] : y \in U}
  <2>2. [y \in U |-> C[y]] \in Surjection(U, I)
    BY DEF Surjection
  <2>5. IsFiniteSet(I)
    BY <2>1, <2>2, FS_Surjection
  <2>3. \A V \in I : IsFiniteSet(V)
    OBVIOUS
  <2> HIDE DEF I
  <2>4. IsFiniteSet(UNION I)
    BY <2>5, <2>3, FS_UNION
  <2> QED BY <2>4 DEF I, All
<1>2. All(C, T) = C[x] \cup All(C, T \ {x})
  BY DEF All
<1>3. C[x] \cap All(C, T \ {x}) = {}
  BY DEF All, Apart
<1>4. IsFiniteSet(All(C, T)) /\ IsFiniteSet(All(C, T \ {x})) /\ IsFiniteSet(C[x])
  BY <1>1
<1>5. Cardinality(C[x] \cup All(C, T \ {x}))
        = Cardinality(C[x]) + Cardinality(All(C, T \ {x})) - Cardinality(C[x] \cap All(C, T \ {x}))
  BY <1>4, FS_Union
<1>6. Cardinality(C[x] \cap All(C, T \ {x})) = 0
  BY <1>3, FS_EmptySet
<1>7. Cardinality(C[x]) \in Nat /\ Cardinality(All(C, T \ {x})) \in Nat
  BY <1>4, FS_CardinalityType
<1> QED BY <1>2, <1>4, <1>5, <1>6, <1>7

(* Adding up the sizes of sets that have nothing in common counts them.    *)
LEMMA SumCounts ==
  ASSUME NEW S, NEW C, Apart(C, S), \A y \in S : IsFiniteSet(C[y]), IsFiniteSet(S)
  PROVE  SumOver(S, [x \in S |-> Cardinality(C[x])]) = Cardinality(All(C, S))
<1> DEFINE a == [x \in S |-> Cardinality(C[x])]
           count == [T \in SUBSET S |-> Cardinality(All(C, T))]
           one(T) == CHOOSE x \in T : TRUE
<1>1. IsSum(count, S, a)
  <2>1. SUFFICES ASSUME NEW T \in SUBSET S
                 PROVE  count[T] = IF T = {} THEN 0 ELSE a[one(T)] + count[T \ {one(T)}]
    BY DEF IsSum
  <2>2. CASE T = {}
    <3>1. All(C, T) = {}
      BY <2>2 DEF All
    <3> QED BY <3>1, <2>2, FS_EmptySet
  <2>3. CASE T # {}
    <3>1. one(T) \in T
      BY <2>3
    <3> HIDE DEF one
    <3>2. Cardinality(All(C, T)) = Cardinality(C[one(T)]) + Cardinality(All(C, T \ {one(T)}))
      BY <3>1, OneLess
    <3>3. T \ {one(T)} \in SUBSET S /\ one(T) \in S
      BY <3>1
    <3> QED BY <2>3, <3>2, <3>3
  <2> QED BY <2>2, <2>3
<1> DEFINE f == CHOOSE g : IsSum(g, S, a)
<1>2. IsSum(f, S, a)
  BY <1>1
<1>3. ASSUME NEW T \in SUBSET S
      PROVE  f[T] = IF T = {} THEN 0 ELSE a[one(T)] + f[T \ {one(T)}]
  BY <1>2 DEF IsSum
<1>4. SumOver(S, a) = f[S]
  BY DEF SumOver
<1> HIDE DEF f
<1> DEFINE Bad == {n \in Nat : \E T \in SUBSET S : Cardinality(T) = n /\ f[T] # Cardinality(All(C, T))}
<1>5. Bad = {}
  <2>1. SUFFICES ASSUME Bad # {} PROVE FALSE
    OBVIOUS
  <2>2. Bad \in SUBSET Nat
    OBVIOUS
  <2> HIDE DEF Bad
  <2>3. PICK n \in Bad : \A k \in Bad : n <= k
    BY <2>1, <2>2, LeastNumber
  <2>4. PICK T \in SUBSET S : Cardinality(T) = n /\ f[T] # Cardinality(All(C, T))
    BY <2>3 DEF Bad
  <2>5. T # {}
    <3>1. SUFFICES ASSUME T = {} PROVE FALSE
      OBVIOUS
    <3>2. All(C, T) = {} /\ f[T] = 0
      BY <3>1, <1>3 DEF All
    <3> QED BY <2>4, <3>2, FS_EmptySet
  <2>6. one(T) \in T
    BY <2>5
  <2> DEFINE x == one(T)  U == T \ {x}
  <2>7. f[T] = a[x] + f[U]
    BY <1>3, <2>5
  <2>8. x \in T
    BY <2>6
  <2> HIDE DEF one
  <2> HIDE DEF x
  <2>9. Cardinality(All(C, T)) = Cardinality(C[x]) + Cardinality(All(C, U))
    BY <2>8, OneLess
  <2>10. a[x] = Cardinality(C[x])
    BY <2>8
  <2>11. f[U] # Cardinality(All(C, U))
    BY <2>4, <2>7, <2>9, <2>10
  <2>12. IsFiniteSet(T)
    BY FS_Subset
  <2>13. Cardinality(U) = n - 1 /\ Cardinality(U) \in Nat
    BY <2>12, <2>8, <2>4, FS_RemoveElement, FS_CardinalityType
  <2>14. n - 1 \in Bad
    BY <2>11, <2>13 DEF Bad
  <2> QED BY <2>14, <2>3, <2>2
<1>6. S \in SUBSET S /\ Cardinality(S) \in Nat
  BY FS_CardinalityType
<1>7. f[S] = Cardinality(All(C, S))
  BY <1>5, <1>6
<1> QED BY <1>4, <1>7

(* A part as it is shared out: <<batch, first line, lines, first column,   *)
(* columns>>; that it lies in the output, and which cells it holds.        *)
Rectangles == Int \X Int \X Int \X Int \X Int
Inside(part, batch, m, n) ==
  /\ part[1] \in 0 .. batch - 1 /\ part[3] > 0 /\ part[5] > 0
  /\ part[2] >= 0 /\ part[2] + part[3] <= m /\ part[4] >= 0 /\ part[4] + part[5] <= n
Holds(part, b, i, j) ==
  /\ part[1] = b
  /\ part[2] <= i /\ i < part[2] + part[3]
  /\ part[4] <= j /\ j < part[4] + part[5]
Separate(p, q) ==
  \/ p[1] # q[1]
  \/ p[2] + p[3] <= q[2] \/ q[2] + q[3] <= p[2]
  \/ p[4] + p[5] <= q[4] \/ q[4] + q[5] <= p[4]

(* The parts f[x] lie in the output, and each cell of it in one of them.   *)
Tiles(S, f, batch, m, n) ==
  /\ \A x \in S : f[x] \in Rectangles /\ Inside(f[x], batch, m, n)
  /\ \A b \in 0 .. batch - 1, i \in 0 .. m - 1, j \in 0 .. n - 1 : \E x \in S : Holds(f[x], b, i, j)
  /\ \A x, y \in S : \A b, i, j \in Int : Holds(f[x], b, i, j) /\ Holds(f[y], b, i, j) => x = y

(* No two of the rectangles hold a cell in common.                         *)
LEMMA HeldOnce ==
  ASSUME NEW p \in Rectangles, NEW q \in Rectangles, p[3] > 0, p[5] > 0, q[3] > 0, q[5] > 0,
         ~Separate(p, q)
  PROVE  \E b, i, j \in Int : Holds(p, b, i, j) /\ Holds(q, b, i, j)
<1>1. /\ p[1] \in Int /\ p[2] \in Int /\ p[3] \in Int /\ p[4] \in Int /\ p[5] \in Int
      /\ q[1] \in Int /\ q[2] \in Int /\ q[3] \in Int /\ q[4] \in Int /\ q[5] \in Int
  BY DEF Rectangles
<1> DEFINE i == IF p[2] < q[2] THEN q[2] ELSE p[2]
           j == IF p[4] < q[4] THEN q[4] ELSE p[4]
<1>2. Holds(p, p[1], i, j) /\ Holds(q, p[1], i, j)
  BY <1>1 DEF Holds, Separate
<1>3. i \in Int /\ j \in Int /\ p[1] \in Int
  BY <1>1
<1> QED BY <1>2, <1>3

Cells(part) ==
  ({part[1]} \X (part[2] .. part[2] + part[3] - 1)) \X (part[4] .. part[4] + part[5] - 1)

(* A cell of the output, as a member of Cells.                             *)
LEMMA CellsHeld ==
  ASSUME NEW p \in Rectangles, NEW c
  PROVE  c \in Cells(p) <=> \E b, i, j \in Int : c = << <<b, i>>, j >> /\ Holds(p, b, i, j)
<1>1. p[1] \in Int /\ p[2] \in Int /\ p[3] \in Int /\ p[4] \in Int /\ p[5] \in Int
  BY DEF Rectangles
<1> DEFINE rows == p[2] .. p[2] + p[3] - 1  columns == p[4] .. p[4] + p[5] - 1
<1>2. \A i : i \in rows <=> i \in Int /\ p[2] <= i /\ i < p[2] + p[3]
  BY <1>1
<1>3. \A j : j \in columns <=> j \in Int /\ p[4] <= j /\ j < p[4] + p[5]
  BY <1>1
<1>4. Cells(p) = ({p[1]} \X rows) \X columns
  BY DEF Cells
<1> HIDE DEF rows, columns
<1>5. ASSUME c \in Cells(p)
      PROVE  \E b, i, j \in Int : c = << <<b, i>>, j >> /\ Holds(p, b, i, j)
  <2>1. c = << <<c[1][1], c[1][2]>>, c[2] >> /\ c[1][1] = p[1] /\ c[1][2] \in rows /\ c[2] \in columns
    BY <1>4, <1>5
  <2>2. Holds(p, c[1][1], c[1][2], c[2])
    BY <2>1, <1>2, <1>3 DEF Holds
  <2>3. c[1][1] \in Int /\ c[1][2] \in Int /\ c[2] \in Int
    BY <2>1, <1>1, <1>2, <1>3
  <2> QED BY <2>1, <2>2, <2>3
<1>6. ASSUME NEW b \in Int, NEW i \in Int, NEW j \in Int, c = << <<b, i>>, j >>, Holds(p, b, i, j)
      PROVE  c \in Cells(p)
  <2>1. b = p[1] /\ i \in rows /\ j \in columns
    BY <1>6, <1>2, <1>3 DEF Holds
  <2> QED BY <2>1, <1>4, <1>6
<1> QED BY <1>5, <1>6

(* A rectangle holds as many cells as its sides say.                       *)
LEMMA CellsCounted ==
  ASSUME NEW p \in Rectangles, p[3] > 0, p[5] > 0
  PROVE  IsFiniteSet(Cells(p)) /\ Cardinality(Cells(p)) = p[3] * p[5]
<1>1. p[1] \in Int /\ p[2] \in Int /\ p[3] \in Int /\ p[4] \in Int /\ p[5] \in Int
  BY DEF Rectangles
<1> DEFINE rows == p[2] .. p[2] + p[3] - 1  columns == p[4] .. p[4] + p[5] - 1
           one == {p[1]} \X rows
<1>2. IsFiniteSet(rows) /\ Cardinality(rows) = p[3]
  <2>1. p[2] + p[3] - 1 \in Int
    BY <1>1
  <2> DEFINE e == p[2] + p[3] - 1
  <2>2. IsFiniteSet(p[2] .. e) /\ Cardinality(p[2] .. e) = IF p[2] > e THEN 0 ELSE e - p[2] + 1
    BY <1>1, <2>1, FS_Interval
  <2> QED BY <1>1, <2>2
<1>3. IsFiniteSet(columns) /\ Cardinality(columns) = p[5]
  <2>1. p[4] + p[5] - 1 \in Int
    BY <1>1
  <2> DEFINE e == p[4] + p[5] - 1
  <2>2. IsFiniteSet(p[4] .. e) /\ Cardinality(p[4] .. e) = IF p[4] > e THEN 0 ELSE e - p[4] + 1
    BY <1>1, <2>1, FS_Interval
  <2> QED BY <1>1, <2>2
<1>4. IsFiniteSet({p[1]}) /\ Cardinality({p[1]}) = 1
  BY FS_Singleton
<1> HIDE DEF rows, columns
<1>5. IsFiniteSet(one) /\ Cardinality(one) = 1 * p[3]
  BY <1>2, <1>4, FS_Product
<1> HIDE DEF one
<1>6. IsFiniteSet(one \X columns) /\ Cardinality(one \X columns) = (1 * p[3]) * p[5]
  BY <1>3, <1>5, FS_Product
<1>7. Cells(p) = one \X columns
  BY DEF Cells, one, rows, columns
<1> QED BY <1>1, <1>6, <1>7

(* Parts that hold every cell of the output once are apart from each other *)
(* and their areas add up to that of the output.                           *)
LEMMA AreasAddUp ==
  ASSUME NEW batch \in Nat, NEW m \in Nat, NEW n \in Nat, NEW S, NEW f, Tiles(S, f, batch, m, n)
  PROVE  /\ \A x, y \in S : x # y => Separate(f[x], f[y])
         /\ SumOver(S, [x \in S |-> f[x][3] * f[x][5]]) = batch * m * n
<1>1. ASSUME NEW x \in S
      PROVE  /\ f[x] \in Rectangles /\ Inside(f[x], batch, m, n) /\ f[x][3] > 0 /\ f[x][5] > 0
             /\ f[x][1] \in Int /\ f[x][2] \in Int /\ f[x][3] \in Int /\ f[x][4] \in Int /\ f[x][5] \in Int
  BY DEF Tiles, Inside, Rectangles
<1>2. ASSUME NEW x \in S, NEW y \in S, NEW b \in Int, NEW i \in Int, NEW j \in Int,
             Holds(f[x], b, i, j), Holds(f[y], b, i, j)
      PROVE  x = y
  BY <1>2 DEF Tiles
<1>3. ASSUME NEW x \in S, NEW y \in S, x # y PROVE Separate(f[x], f[y])
  <2>1. SUFFICES ASSUME ~Separate(f[x], f[y]) PROVE FALSE
    OBVIOUS
  <2>2. PICK b, i, j \in Int : Holds(f[x], b, i, j) /\ Holds(f[y], b, i, j)
    BY <2>1, <1>1, HeldOnce
  <2> QED BY <2>2, <1>2, <1>3
<1> DEFINE C == [x \in S |-> Cells(f[x])]
           rows == 0 .. m - 1  columns == 0 .. n - 1  batches == 0 .. batch - 1
           output == (batches \X rows) \X columns
<1>4. /\ IsFiniteSet(batches) /\ Cardinality(batches) = batch
      /\ IsFiniteSet(rows) /\ Cardinality(rows) = m
      /\ IsFiniteSet(columns) /\ Cardinality(columns) = n
  <2>1. ASSUME NEW k \in Nat PROVE IsFiniteSet(0 .. k - 1) /\ Cardinality(0 .. k - 1) = k
    <3>1. k - 1 \in Int /\ 0 \in Int
      OBVIOUS
    <3> DEFINE e == k - 1
    <3>2. IsFiniteSet(0 .. e) /\ Cardinality(0 .. e) = IF 0 > e THEN 0 ELSE e - 0 + 1
      BY <3>1, FS_Interval
    <3> QED BY <3>2
  <2> QED BY <2>1
<1>5. IsFiniteSet(output) /\ Cardinality(output) = batch * m * n
  <2> HIDE DEF rows, columns, batches
  <2> DEFINE one == batches \X rows
  <2>1. IsFiniteSet(one) /\ Cardinality(one) = batch * m
    BY <1>4, FS_Product
  <2> HIDE DEF one
  <2>2. IsFiniteSet(one \X columns) /\ Cardinality(one \X columns) = (batch * m) * n
    BY <2>1, <1>4, FS_Product
  <2> QED BY <2>2 DEF one
<1>6. \A y \in S : IsFiniteSet(C[y]) /\ Cardinality(C[y]) = f[y][3] * f[y][5]
  BY <1>1, CellsCounted
<1>7. Apart(C, S)
  <2>1. SUFFICES ASSUME NEW x \in S, NEW y \in S, NEW c, c \in C[x], c \in C[y] PROVE x = y
    BY DEF Apart
  <2>2. PICK b, i, j \in Int : c = << <<b, i>>, j >> /\ Holds(f[x], b, i, j)
    BY <2>1, <1>1, CellsHeld
  <2>3. PICK b1, i1, j1 \in Int : c = << <<b1, i1>>, j1 >> /\ Holds(f[y], b1, i1, j1)
    BY <2>1, <1>1, CellsHeld
  <2>4. b = b1 /\ i = i1 /\ j = j1
    BY <2>2, <2>3
  <2> QED BY <2>2, <2>3, <2>4, <1>2
<1>8. All(C, S) = output
  <2>1. ASSUME NEW c, c \in All(C, S) PROVE c \in output
    <3>1. PICK x \in S : c \in Cells(f[x])
      BY <2>1 DEF All
    <3>2. PICK b, i, j \in Int : c = << <<b, i>>, j >> /\ Holds(f[x], b, i, j)
      BY <3>1, <1>1, CellsHeld
    <3>3. b \in batches /\ i \in rows /\ j \in columns
      BY <3>2, <1>1 DEF Holds, Inside
    <3> HIDE DEF batches, rows, columns
    <3> QED BY <3>2, <3>3
  <2>2. ASSUME NEW c, c \in output PROVE c \in All(C, S)
    <3> DEFINE b == c[1][1]  i == c[1][2]  j == c[2]
    <3>1. c = << <<b, i>>, j >> /\ b \in batches /\ i \in rows /\ j \in columns
      <4> HIDE DEF batches, rows, columns
      <4> QED BY <2>2
    <3> HIDE DEF b, i, j
    <3>2. PICK x \in S : Holds(f[x], b, i, j)
      BY <3>1 DEF Tiles
    <3>3. b \in Int /\ i \in Int /\ j \in Int
      BY <3>1
    <3>4. c \in Cells(f[x])
      BY <3>1, <3>2, <3>3, <1>1, CellsHeld
    <3> QED BY <3>4 DEF All
  <2> HIDE DEF output, C
  <2> QED BY <2>1, <2>2
<1>9. IsFiniteSet(S)
  <2> DEFINE at == [x \in S |-> << <<f[x][1], f[x][2]>>, f[x][4] >>]
  <2>1. ASSUME NEW x \in S PROVE Holds(f[x], f[x][1], f[x][2], f[x][4])
    BY <1>1 DEF Holds
  <2>2. at \in [S -> output]
    <3>1. ASSUME NEW x \in S PROVE f[x][1] \in batches /\ f[x][2] \in rows /\ f[x][4] \in columns
      BY <1>1 DEF Inside
    <3> HIDE DEF batches, rows, columns
    <3> QED BY <3>1
  <2>3. ASSUME NEW x \in S, NEW y \in S, at[x] = at[y] PROVE x = y
    <3>1. f[x][1] = f[y][1] /\ f[x][2] = f[y][2] /\ f[x][4] = f[y][4]
      BY <2>3
    <3> QED BY <3>1, <2>1, <1>1, <1>2
  <2> HIDE DEF at, output
  <2>4. at \in Injection(S, output)
    BY <2>2, <2>3 DEF Injection, IsInjective
  <2> QED BY <2>4, <1>5, FS_Injection
<1>10. SumOver(S, [x \in S |-> Cardinality(C[x])]) = Cardinality(All(C, S))
  <2> HIDE DEF C
  <2> QED BY <1>6, <1>7, <1>9, SumCounts
<1>11. [x \in S |-> Cardinality(C[x])] = [x \in S |-> f[x][3] * f[x][5]]
  BY <1>6
<1> HIDE DEF C, output
<1> QED BY <1>3, <1>5, <1>8, <1>10, <1>11

-------------------------------------------------------------------------------
(* The tiles of split k.                                                   *)

(* Block i of an axis that is cut into blocks of length single: how long   *)
(* it is, the last one being shorter.                                      *)
Extent(size, single, i) ==
  IF i = SPLITK!CeilDiv(size, single) - 1
    THEN size - ((SPLITK!CeilDiv(size, single) - 1) * single) ELSE single

(* Where x lies within block i.                                            *)
InBlock(x, size, single, i) ==
  i * single <= x /\ x < (i * single) + Extent(size, single, i)

(* Every block of an axis holds something and lies within the axis.        *)
LEMMA BlockInside ==
  ASSUME NEW size \in Nat \ {0}, NEW single \in Nat \ {0}, NEW i \in Nat,
         i < SPLITK!CeilDiv(size, single)
  PROVE  /\ Extent(size, single, i) \in Nat \ {0} /\ Extent(size, single, i) <= single
         /\ i * single \in Nat /\ (i * single) + Extent(size, single, i) <= size
<1> DEFINE q == SPLITK!CeilDiv(size, single)  e == Extent(size, single, i)
<1>1. q \in Nat \ {0} /\ size <= q * single /\ (q - 1) * single < size
  BY RoundedUp
<1>2. e = IF i = q - 1 THEN size - ((q - 1) * single) ELSE single
  BY DEF Extent
<1>3. i < q
  OBVIOUS
<1> HIDE DEF q
<1>4. (q - 1) * single \in Nat /\ i * single \in Nat
  BY <1>1
<1>5. e \in Nat \ {0} /\ e <= single
  <2>1. e = IF i = SPLITK!CeilDiv(size, single) - 1
              THEN size - ((SPLITK!CeilDiv(size, single) - 1) * single) ELSE single
    BY <1>2 DEF q
  <2> HIDE DEF e
  <2> QED BY <2>1, ExtentFits
<1>6. CASE i = q - 1
  BY <1>1, <1>2, <1>4, <1>6
<1>7. CASE i # q - 1
  <2>1. i + 1 <= q - 1
    BY <1>1, <1>3, <1>7
  <2>2. (i + 1) * single <= (q - 1) * single
    BY <1>1, <2>1
  <2>3. (i + 1) * single = (i * single) + single
    OBVIOUS
  <2> QED BY <1>1, <1>2, <1>4, <1>7, <2>2, <2>3
<1> QED BY <1>4, <1>5, <1>6, <1>7

(* Every place of an axis lies in a block.                                 *)
LEMMA BlockOf ==
  ASSUME NEW size \in Nat \ {0}, NEW single \in Nat \ {0}, NEW x \in 0 .. size - 1
  PROVE  \E i \in Nat : i < SPLITK!CeilDiv(size, single) /\ InBlock(x, size, single, i)
<1> DEFINE q == SPLITK!CeilDiv(size, single)  i == x \div single
<1>1. q \in Nat \ {0} /\ size <= q * single /\ (q - 1) * single < size
  BY RoundedUp
<1>2. i \in Nat /\ i * single <= x /\ x < (i * single) + single
  OBVIOUS
<1> HIDE DEF q, i
<1>3. i * single \in Nat /\ q * single \in Nat /\ (q - 1) * single \in Nat
  BY <1>1, <1>2
<1>4. i < q
  <2>1. SUFFICES ASSUME q <= i PROVE FALSE
    BY <1>1, <1>2
  <2>2. q * single <= i * single
    BY <2>1, <1>1, <1>2
  <2> QED BY <1>1, <1>2, <1>3, <2>2
<1>5. Extent(size, single, i) = IF i = q - 1 THEN size - ((q - 1) * single) ELSE single
  BY DEF Extent, q
<1>6. InBlock(x, size, single, i)
  BY <1>1, <1>2, <1>3, <1>5 DEF InBlock
<1> QED BY <1>2, <1>4, <1>6 DEF q

(* No place of an axis lies in two blocks.                                 *)
LEMMA OneBlock ==
  ASSUME NEW size \in Nat \ {0}, NEW single \in Nat \ {0}, NEW x \in Int, NEW i \in Nat, NEW j \in Nat,
         i < SPLITK!CeilDiv(size, single), j < SPLITK!CeilDiv(size, single),
         InBlock(x, size, single, i), InBlock(x, size, single, j)
  PROVE  i = j
<1>1. /\ i * single <= x /\ x < (i * single) + single
      /\ j * single <= x /\ x < (j * single) + single
      /\ i * single \in Nat /\ j * single \in Nat
  BY BlockInside DEF InBlock
<1>2. ASSUME NEW a \in Nat, NEW b \in Nat, a < b, b * single <= x, x < (a * single) + single PROVE FALSE
  <2>1. (a + 1) * single <= b * single
    BY <1>2
  <2>2. (a + 1) * single = (a * single) + single /\ a * single \in Nat /\ b * single \in Nat
    OBVIOUS
  <2> QED BY <2>1, <2>2, <1>2
<1>3. ~(i < j) /\ ~(j < i)
  BY <1>1, <1>2
<1> QED BY <1>3

(* Tiles that are numbered line by line.                                   *)
LEMMA NumberOf ==
  ASSUME NEW height \in Nat \ {0}, NEW width \in Nat \ {0}, NEW a \in Nat, NEW b \in Nat,
         a < height, b < width, NEW t, t = (a * width) + b
  PROVE  t \in Nat /\ t < height * width /\ t \div width = a /\ (t % width) = b
<1>1. t \in Nat
  OBVIOUS
<1>2. t < height * width
  <2>1. (a + 1) * width <= height * width /\ (a + 1) * width = (a * width) + width
    OBVIOUS
  <2>2. a * width \in Nat /\ height * width \in Nat
    OBVIOUS
  <2> QED BY <2>1, <2>2
<1>3. t \div width = a
  OBVIOUS
<1>4. (t % width) = b
  OBVIOUS
<1> QED BY <1>1, <1>2, <1>3, <1>4

(* A number is told by its quotient and its remainder.                     *)
LEMMA OneNumber ==
  ASSUME NEW width \in Nat \ {0}, NEW t \in Nat, NEW u \in Nat,
         t \div width = u \div width, (t % width) = (u % width)
  PROVE  t = u
<1>1. t = (width * (t \div width)) + (t % width) /\ u = (width * (u \div width)) + (u % width)
  OBVIOUS
<1> QED BY <1>1

(* The tiles of split k share the output out, whatever its size.           *)
LEMMA OutputCovered ==
  ASSUME NEW p \in SplitKProblems
  PROVE  SPLITK!CoversOutput(SPLITK!Tiling(p))
<1> DEFINE s == SPLITK!Tiling(p)  S == SPLITK!Numbers(s)  mCnt == SPLITK!MCnt(s)  nCnt == SPLITK!NCnt(s)
           i(t) == SPLITK!MIndex(s, t)  j(t) == SPLITK!NIndex(s, t)
           part(t) == LET tile == SPLITK!Tile(s, t) IN <<0, tile.row, tile.rows, tile.column, tile.cols>>
           f == [t \in S |-> part(t)]
<1>1. /\ s.m \in Nat \ {0} /\ s.n \in Nat \ {0}
      /\ s.singleM \in Nat \ {0} /\ s.singleN \in Nat \ {0}
      /\ s.order \in {"NK", "MK"}
  BY SplitKFacts
<1> HIDE DEF s
<1>2. mCnt = SPLITK!CeilDiv(s.m, s.singleM) /\ nCnt = SPLITK!CeilDiv(s.n, s.singleN)
  BY DEF SPLITK!MCnt, SPLITK!NCnt
<1>3. mCnt \in Nat \ {0} /\ nCnt \in Nat \ {0}
  BY <1>1, <1>2, RoundedUp
<1>4. S = 0 .. (mCnt * nCnt) - 1 /\ mCnt * nCnt = nCnt * mCnt /\ mCnt * nCnt \in Nat
  <2>1. S = 0 .. (mCnt * nCnt) - 1
    BY DEF SPLITK!Numbers
  <2> HIDE DEF S, mCnt, nCnt
  <2>2. mCnt * nCnt = nCnt * mCnt /\ mCnt * nCnt \in Nat
    BY <1>3
  <2> QED BY <2>1, <2>2
<1>5. ASSUME NEW t \in S
      PROVE  /\ i(t) = IF s.order = "NK" THEN t \div nCnt ELSE t % mCnt
             /\ j(t) = IF s.order = "NK" THEN t % nCnt ELSE t \div mCnt
  BY DEF SPLITK!MIndex, SPLITK!NIndex
<1>6. ASSUME NEW t \in S
      PROVE  part(t) = <<0, i(t) * s.singleM, Extent(s.m, s.singleM, i(t)),
                         j(t) * s.singleN, Extent(s.n, s.singleN, j(t))>>
  BY <1>2 DEF SPLITK!Tile, Extent
<1>7. ASSUME NEW t \in S PROVE i(t) \in Nat /\ i(t) < mCnt /\ j(t) \in Nat /\ j(t) < nCnt
  <2>1. t \in 0 .. (mCnt * nCnt) - 1
    BY <1>4
  <2>2. /\ i(t) = IF s.order = "NK" THEN t \div nCnt ELSE t % mCnt
        /\ j(t) = IF s.order = "NK" THEN t % nCnt ELSE t \div mCnt
    BY <1>5
  <2> HIDE DEF mCnt, nCnt, i, j
  <2>3. /\ t \div nCnt \in 0 .. mCnt - 1 /\ (t % nCnt) \in 0 .. nCnt - 1
        /\ t \div mCnt \in 0 .. nCnt - 1 /\ (t % mCnt) \in 0 .. mCnt - 1
    BY <1>3, <2>1, TilePositions
  <2> QED BY <1>3, <2>2, <2>3
<1>8. ASSUME NEW u \in Nat, NEW v \in Nat, u < mCnt, v < nCnt
      PROVE  \E t \in S : i(t) = u /\ j(t) = v
  <2>1. CASE s.order = "NK"
    <3> HIDE DEF mCnt, nCnt
    <3> DEFINE t == (u * nCnt) + v
    <3>1. t \in Nat /\ t < mCnt * nCnt /\ t \div nCnt = u /\ (t % nCnt) = v
      BY <1>3, <1>8, NumberOf
    <3> HIDE DEF t
    <3>2. t \in S
      BY <1>4, <3>1
    <3> HIDE DEF S, i, j
    <3> QED BY <1>5, <2>1, <3>1, <3>2
  <2>2. CASE s.order # "NK"
    <3> HIDE DEF mCnt, nCnt
    <3> DEFINE t == (v * mCnt) + u
    <3>1. t \in Nat /\ t < nCnt * mCnt /\ t \div mCnt = v /\ (t % mCnt) = u
      BY <1>3, <1>8, NumberOf
    <3> HIDE DEF t
    <3>2. t \in S
      BY <1>4, <3>1
    <3> HIDE DEF S, i, j
    <3> QED BY <1>5, <2>2, <3>1, <3>2
  <2> QED BY <2>1, <2>2
<1>9. ASSUME NEW t \in S, NEW u \in S, i(t) = i(u), j(t) = j(u) PROVE t = u
  <2>1. t \in Nat /\ u \in Nat
    BY <1>4
  <2>2. CASE s.order = "NK"
    <3>1. t \div nCnt = u \div nCnt /\ (t % nCnt) = (u % nCnt)
      BY <1>5, <1>9, <2>2
    <3> HIDE DEF mCnt, nCnt, S
    <3> QED BY <1>3, <2>1, <3>1, OneNumber
  <2>3. CASE s.order # "NK"
    <3>1. t \div mCnt = u \div mCnt /\ (t % mCnt) = (u % mCnt)
      BY <1>5, <1>9, <2>3
    <3> HIDE DEF mCnt, nCnt, S
    <3> QED BY <1>3, <2>1, <3>1, OneNumber
  <2> QED BY <2>2, <2>3
<1>10. ASSUME NEW t \in S
       PROVE  /\ f[t] = part(t) /\ f[t] \in Rectangles /\ Inside(f[t], 1, s.m, s.n)
              /\ \A b, x, y \in Int : Holds(f[t], b, x, y) <=>
                   b = 0 /\ InBlock(x, s.m, s.singleM, i(t)) /\ InBlock(y, s.n, s.singleN, j(t))
  <2> DEFINE it == i(t)  jt == j(t)
  <2>1. it \in Nat /\ it < SPLITK!CeilDiv(s.m, s.singleM) /\ jt \in Nat /\ jt < SPLITK!CeilDiv(s.n, s.singleN)
    BY <1>2, <1>7
  <2>2. f[t] = <<0, it * s.singleM, Extent(s.m, s.singleM, it), jt * s.singleN, Extent(s.n, s.singleN, jt)>>
    BY <1>6
  <2>3. f[t] = part(t)
    OBVIOUS
  <2> HIDE DEF it, jt, f, part
  <2>4. /\ Extent(s.m, s.singleM, it) \in Nat \ {0} /\ it * s.singleM \in Nat
        /\ (it * s.singleM) + Extent(s.m, s.singleM, it) <= s.m
    BY <1>1, <2>1, BlockInside
  <2>5. /\ Extent(s.n, s.singleN, jt) \in Nat \ {0} /\ jt * s.singleN \in Nat
        /\ (jt * s.singleN) + Extent(s.n, s.singleN, jt) <= s.n
    BY <1>1, <2>1, BlockInside
  <2>6. f[t] \in Rectangles
    BY <2>2, <2>4, <2>5 DEF Rectangles
  <2>7. Inside(f[t], 1, s.m, s.n)
    BY <2>2, <2>4, <2>5 DEF Inside
  <2>8. \A b, x, y \in Int : Holds(f[t], b, x, y) <=>
          b = 0 /\ InBlock(x, s.m, s.singleM, it) /\ InBlock(y, s.n, s.singleN, jt)
    BY <2>2 DEF Holds, InBlock
  <2> QED BY <2>3, <2>6, <2>7, <2>8 DEF it, jt
<1> HIDE DEF S, f, part, i, j, mCnt, nCnt
<1>11. ASSUME NEW b \in 0 .. 0, NEW x \in 0 .. s.m - 1, NEW y \in 0 .. s.n - 1
       PROVE  \E t \in S : Holds(f[t], b, x, y)
  <2>1. PICK u \in Nat : u < SPLITK!CeilDiv(s.m, s.singleM) /\ InBlock(x, s.m, s.singleM, u)
    BY <1>1, BlockOf
  <2>2. PICK v \in Nat : v < SPLITK!CeilDiv(s.n, s.singleN) /\ InBlock(y, s.n, s.singleN, v)
    BY <1>1, BlockOf
  <2>3. PICK t \in S : i(t) = u /\ j(t) = v
    BY <1>2, <1>8, <2>1, <2>2
  <2> QED BY <1>10, <2>1, <2>2, <2>3
<1>12. ASSUME NEW t \in S, NEW u \in S, NEW b \in Int, NEW x \in Int, NEW y \in Int,
              Holds(f[t], b, x, y), Holds(f[u], b, x, y)
       PROVE  t = u
  <2>1. /\ InBlock(x, s.m, s.singleM, i(t)) /\ InBlock(y, s.n, s.singleN, j(t))
        /\ InBlock(x, s.m, s.singleM, i(u)) /\ InBlock(y, s.n, s.singleN, j(u))
    BY <1>10, <1>12
  <2>2. /\ i(t) \in Nat /\ i(t) < SPLITK!CeilDiv(s.m, s.singleM)
        /\ i(u) \in Nat /\ i(u) < SPLITK!CeilDiv(s.m, s.singleM)
        /\ j(t) \in Nat /\ j(t) < SPLITK!CeilDiv(s.n, s.singleN)
        /\ j(u) \in Nat /\ j(u) < SPLITK!CeilDiv(s.n, s.singleN)
    BY <1>2, <1>7
  <2>3. i(t) = i(u)
    BY <1>1, <2>1, <2>2, OneBlock
  <2>4. j(t) = j(u)
    BY <1>1, <2>1, <2>2, OneBlock
  <2> QED BY <1>9, <2>3, <2>4
<1>13. Tiles(S, f, 1, s.m, s.n)
  BY <1>10, <1>11, <1>12 DEF Tiles
<1>14. /\ \A x, y \in S : x # y => Separate(f[x], f[y])
       /\ SumOver(S, [x \in S |-> f[x][3] * f[x][5]]) = 1 * s.m * s.n
  BY <1>1, <1>13, AreasAddUp
<1>15. SPLITK!MapThenSumSet(LAMBDA t : part(t)[3] * part(t)[5], S) = 1 * s.m * s.n
  <2>1. [t \in S |-> part(t)[3] * part(t)[5]] = [t \in S |-> f[t][3] * f[t][5]]
    BY <1>10
  <2>2. SPLITK!MapThenSumSet(LAMBDA t : part(t)[3] * part(t)[5], S)
          = SumOver(S, [t \in S |-> part(t)[3] * part(t)[5]])
    BY DEF SPLITK!MapThenSumSet, SPLITK!MapThenFoldSet, SumOver, IsSum
  <2> QED BY <1>14, <2>1, <2>2
<1>16. SPLITK!ShareOut(S, part, 1, s.m, s.n)
  <2>1. ASSUME NEW t \in S PROVE f[t] = part(t) /\ Inside(part(t), 1, s.m, s.n)
    BY <1>10
  <2>2. \A x, y \in S : x # y =>
           \/ part(x)[1] # part(y)[1]
           \/ part(x)[2] + part(x)[3] <= part(y)[2] \/ part(y)[2] + part(y)[3] <= part(x)[2]
           \/ part(x)[4] + part(x)[5] <= part(y)[4] \/ part(y)[4] + part(y)[5] <= part(x)[4]
    BY <1>14, <2>1 DEF Separate
  <2>3. \A x \in S :
           /\ part(x)[1] \in 0 .. 1 - 1 /\ part(x)[3] > 0 /\ part(x)[5] > 0
           /\ part(x)[2] >= 0 /\ part(x)[2] + part(x)[3] <= s.m
           /\ part(x)[4] >= 0 /\ part(x)[4] + part(x)[5] <= s.n
    BY <2>1 DEF Inside
  <2> QED BY <1>15, <2>2, <2>3, Zenon DEF SPLITK!ShareOut
<1> QED BY <1>16, Zenon DEF SPLITK!CoversOutput, S, part, s

-------------------------------------------------------------------------------
(* The pieces of the vector cores of a per-tile matmul.                    *)

(* One element and one more are two.                                       *)
LEMMA Joined ==
  ASSUME NEW a, NEW b
  PROVE  <<a>> \o <<b>> = <<a, b>>
<1> DEFINE T == {a, b}  s == <<a>> \o <<b>>  t == <<a, b>>
<1>1. <<a>> \in Seq(T) /\ <<b>> \in Seq(T) /\ t \in Seq(T)
  OBVIOUS
<1>2. s \in Seq(T) /\ Len(s) = 2 /\ s[1] = a /\ s[2] = b
  BY <1>1, ConcatProperties
<1>3. Len(t) = 2 /\ t[1] = a /\ t[2] = b
  OBVIOUS
<1> HIDE DEF s, t, T
<1>4. \A i \in 1 .. Len(s) : s[i] = t[i]
  BY <1>2, <1>3
<1>5. s = t
  BY <1>1, <1>2, <1>3, <1>4, SeqEqual
<1> QED BY <1>5 DEF s, t

(* A piece of the only batch.                                              *)
LEMMA Placed ==
  ASSUME NEW a \in Int, NEW b \in Int, NEW c \in Int, NEW d \in Int
  PROVE  <<0>> \o <<a, b, c, d>> = <<0, a, b, c, d>>
<1> DEFINE s == <<0>> \o <<a, b, c, d>>  t == <<0, a, b, c, d>>
<1>1. <<0>> \in Seq(Int) /\ <<a, b, c, d>> \in Seq(Int) /\ t \in Seq(Int)
  OBVIOUS
<1>2. s \in Seq(Int) /\ Len(s) = 5 /\ s[1] = 0 /\ s[2] = a /\ s[3] = b /\ s[4] = c /\ s[5] = d
  BY <1>1, ConcatProperties
<1>3. Len(t) = 5 /\ t[1] = 0 /\ t[2] = a /\ t[3] = b /\ t[4] = c /\ t[5] = d
  OBVIOUS
<1> HIDE DEF s, t
<1>4. \A i \in 1 .. Len(s) : s[i] = t[i]
  BY <1>2, <1>3
<1>5. s = t
  BY <1>1, <1>2, <1>3, <1>4, SeqEqual
<1> QED BY <1>5 DEF s, t

(* Length lines (or columns) of a part of m by n, from a line (column) on. *)
Strip(byRows, m, n, from, length) ==
  IF byRows THEN <<0, from, length, 0, n>> ELSE <<0, 0, m, from, length>>

(* The strips f[x] share total lines (or columns) of a part out.           *)
Strips(S, f, byRows, m, n, total, lo, len) ==
  /\ \A x \in S : /\ f[x] = Strip(byRows, m, n, lo[x], len[x])
                  /\ lo[x] \in Nat /\ len[x] \in Nat \ {0} /\ lo[x] + len[x] <= total
  /\ \A k \in 0 .. total - 1 : \E x \in S : lo[x] <= k /\ k < lo[x] + len[x]
  /\ \A x, y \in S : \A k \in Int :
       lo[x] <= k /\ k < lo[x] + len[x] /\ lo[y] <= k /\ k < lo[y] + len[y] => x = y

(* Strips that share one axis of a part out share the part out.            *)
LEMMA StripsTile ==
  ASSUME NEW byRows \in BOOLEAN, NEW m \in Nat \ {0}, NEW n \in Nat \ {0}, NEW total, NEW S, NEW f, NEW lo, NEW len,
         total = IF byRows THEN m ELSE n, Strips(S, f, byRows, m, n, total, lo, len)
  PROVE  Tiles(S, f, 1, m, n)
<1>1. ASSUME NEW x \in S
      PROVE  /\ f[x] = IF byRows THEN <<0, lo[x], len[x], 0, n>> ELSE <<0, 0, m, lo[x], len[x]>>
             /\ lo[x] \in Nat /\ len[x] \in Nat \ {0} /\ lo[x] + len[x] <= total
  BY DEF Strips, Strip
<1>2. ASSUME NEW x \in S PROVE f[x] \in Rectangles /\ Inside(f[x], 1, m, n)
  <2>1. CASE byRows
    <3>1. f[x] = <<0, lo[x], len[x], 0, n>> /\ lo[x] \in Nat /\ len[x] \in Nat \ {0} /\ lo[x] + len[x] <= m
      BY <1>1, <2>1
    <3>2. f[x] \in Rectangles
      BY <3>1 DEF Rectangles
    <3> QED BY <3>1, <3>2 DEF Inside
  <2>2. CASE ~byRows
    <3>1. f[x] = <<0, 0, m, lo[x], len[x]>> /\ lo[x] \in Nat /\ len[x] \in Nat \ {0} /\ lo[x] + len[x] <= n
      BY <1>1, <2>2
    <3>2. f[x] \in Rectangles
      BY <3>1 DEF Rectangles
    <3> QED BY <3>1, <3>2 DEF Inside
  <2> QED BY <2>1, <2>2
<1>3. ASSUME NEW x \in S, NEW b \in Int, NEW i \in Int, NEW j \in Int
      PROVE  Holds(f[x], b, i, j) <=>
               /\ b = 0 /\ 0 <= i /\ i < m /\ 0 <= j /\ j < n
               /\ lo[x] <= (IF byRows THEN i ELSE j) /\ (IF byRows THEN i ELSE j) < lo[x] + len[x]
  <2>1. CASE byRows
    <3>1. f[x] = <<0, lo[x], len[x], 0, n>> /\ total = m
      BY <1>1, <2>1
    <3> QED BY <1>1, <2>1, <3>1 DEF Holds
  <2>2. CASE ~byRows
    <3>1. f[x] = <<0, 0, m, lo[x], len[x]>> /\ total = n
      BY <1>1, <2>2
    <3> QED BY <1>1, <2>2, <3>1 DEF Holds
  <2> QED BY <2>1, <2>2
<1>4. ASSUME NEW b \in 0 .. 0, NEW i \in 0 .. m - 1, NEW j \in 0 .. n - 1
      PROVE  \E x \in S : Holds(f[x], b, i, j)
  <2> DEFINE k == IF byRows THEN i ELSE j
  <2>1. k \in 0 .. total - 1
    OBVIOUS
  <2>2. PICK x \in S : lo[x] <= k /\ k < lo[x] + len[x]
    BY <2>1 DEF Strips
  <2> QED BY <1>3, <2>2
<1>5. ASSUME NEW x \in S, NEW y \in S, NEW b \in Int, NEW i \in Int, NEW j \in Int,
             Holds(f[x], b, i, j), Holds(f[y], b, i, j)
      PROVE  x = y
  <2> DEFINE k == IF byRows THEN i ELSE j
  <2>1. k \in Int /\ lo[x] <= k /\ k < lo[x] + len[x] /\ lo[y] <= k /\ k < lo[y] + len[y]
    BY <1>3, <1>5
  <2> QED BY <2>1 DEF Strips
<1> QED BY <1>2, <1>4, <1>5 DEF Tiles

P(number, m0, m, n0, n) == [number |-> number, at |-> <<m0, m, n0, n>>]

(* A piece is written if it holds something.                               *)
LEMMA FilledPiece ==
  ASSUME NEW k, NEW a \in Int, NEW b \in Int, NEW c \in Int, NEW d \in Int
  PROVE  /\ b > 0 /\ d > 0 => PERTILE!VEC!Filled(P(k, a, b, c, d)) = <<P(k, a, b, c, d)>>
         /\ ~(b > 0 /\ d > 0) => PERTILE!VEC!Filled(P(k, a, b, c, d)) = <<>>
<1>1. P(k, a, b, c, d).at[2] = b /\ P(k, a, b, c, d).at[4] = d
  BY DEF P
<1> HIDE DEF P
<1> QED BY <1>1 DEF PERTILE!VEC!Filled, PERTILE!VEC!When

(* What Pieces joins, with the measures of a vector core's share.          *)
LEMMA PiecesUnfold ==
  ASSUME NEW cast, NEW m, NEW n, NEW sub
  PROVE  LET v == PERTILE!VEC!ValidM(m, n, sub)
             m0 == PERTILE!VEC!OffsetM(m, n, sub)
             sum == PERTILE!VEC!ValidN(m, n, sub, 0) + PERTILE!VEC!ValidN(m, n, sub, 1)
             half == (v + 2 - 1) \div 2
             nd(i) == PERTILE!VEC!Filled(P(i, m0, v, PERTILE!VEC!OffsetN(m, n, sub, i), PERTILE!VEC!ValidN(m, n, sub, i)))
             two == PERTILE!VEC!NdNum(m, n) = 2
         IN  /\ PERTILE!VEC!SplitN(m, n) /\ two => PERTILE!VEC!Pieces(cast, m, n, sub) = nd(0) \o nd(1)
             /\ ~two => PERTILE!VEC!Pieces(cast, m, n, sub) = nd(0) \o <<>>
             /\ two /\ ~PERTILE!VEC!SplitN(m, n) /\ cast =>
                  PERTILE!VEC!Pieces(cast, m, n, sub)
                    = PERTILE!VEC!Filled(P(0, m0, half, 0, sum))
                        \o PERTILE!VEC!Filled(P(1, m0 + half, v - half, 0, sum))
             /\ two /\ ~PERTILE!VEC!SplitN(m, n) /\ ~cast =>
                  PERTILE!VEC!Pieces(cast, m, n, sub) = PERTILE!VEC!Filled(P(0, m0, v, 0, sum))
<1> DEFINE v == PERTILE!VEC!ValidM(m, n, sub)
           m0 == PERTILE!VEC!OffsetM(m, n, sub)
           sum == PERTILE!VEC!ValidN(m, n, sub, 0) + PERTILE!VEC!ValidN(m, n, sub, 1)
           half == (v + 2 - 1) \div 2
           nd(i) == PERTILE!VEC!Filled(P(i, m0, v, PERTILE!VEC!OffsetN(m, n, sub, i), PERTILE!VEC!ValidN(m, n, sub, i)))
           two == PERTILE!VEC!NdNum(m, n) = 2
           pieces == PERTILE!VEC!Pieces(cast, m, n, sub)
<1>1. PERTILE!VEC!CeilDiv(v, PERTILE!VEC!GMM_BUFFER_NUM) = half
  BY DEF PERTILE!VEC!CeilDiv, PERTILE!VEC!GMM_BUFFER_NUM
<1>2. pieces =
        IF ~(two /\ ~PERTILE!VEC!SplitN(m, n)) THEN nd(0) \o (IF two THEN nd(1) ELSE <<>>)
        ELSE IF cast THEN PERTILE!VEC!Filled(P(0, m0, half, 0, sum))
                            \o PERTILE!VEC!Filled(P(1, m0 + half, v - half, 0, sum))
        ELSE PERTILE!VEC!Filled(P(0, m0, v, 0, sum))
  BY <1>1 DEF PERTILE!VEC!Pieces, PERTILE!VEC!Piece, PERTILE!VEC!When, P
<1> HIDE DEF v, m0, sum, half, nd, two, pieces
<1>3. CASE two /\ ~PERTILE!VEC!SplitN(m, n)
  BY <1>2, <1>3 DEF nd, two, pieces, v, m0, sum, half
<1>4. CASE ~(two /\ ~PERTILE!VEC!SplitN(m, n)) /\ two
  BY <1>2, <1>4 DEF nd, two, pieces, v, m0, sum, half
<1>5. CASE ~two
  BY <1>2, <1>5 DEF nd, two, pieces, v, m0, sum, half
<1> QED BY <1>3, <1>4, <1>5

(* The two pieces of a vector core that takes two groups of columns.       *)
LEMMA SplitPieces ==
  ASSUME NEW cast, NEW m, NEW n, NEW sub, PERTILE!VEC!SplitN(m, n), PERTILE!VEC!NdNum(m, n) = 2
  PROVE  PERTILE!VEC!Pieces(cast, m, n, sub)
           = PERTILE!VEC!Filled(P(0, PERTILE!VEC!OffsetM(m, n, sub), PERTILE!VEC!ValidM(m, n, sub),
                                 PERTILE!VEC!OffsetN(m, n, sub, 0), PERTILE!VEC!ValidN(m, n, sub, 0)))
               \o PERTILE!VEC!Filled(P(1, PERTILE!VEC!OffsetM(m, n, sub), PERTILE!VEC!ValidM(m, n, sub),
                                 PERTILE!VEC!OffsetN(m, n, sub, 1), PERTILE!VEC!ValidN(m, n, sub, 1)))
BY PiecesUnfold

(* The only piece of a vector core with one ND.                            *)
LEMMA OnePiece ==
  ASSUME NEW cast, NEW m, NEW n, NEW sub, PERTILE!VEC!NdNum(m, n) # 2
  PROVE  PERTILE!VEC!Pieces(cast, m, n, sub)
           = PERTILE!VEC!Filled(P(0, PERTILE!VEC!OffsetM(m, n, sub), PERTILE!VEC!ValidM(m, n, sub),
                                 PERTILE!VEC!OffsetN(m, n, sub, 0), PERTILE!VEC!ValidN(m, n, sub, 0))) \o <<>>
BY PiecesUnfold

(* The two halves of the lines of a vector core that casts.                *)
LEMMA CastPieces ==
  ASSUME NEW cast, NEW m, NEW n, NEW sub, PERTILE!VEC!NdNum(m, n) = 2, ~PERTILE!VEC!SplitN(m, n), cast,
         NEW half, half = (PERTILE!VEC!ValidM(m, n, sub) + 2 - 1) \div 2
  PROVE  PERTILE!VEC!Pieces(cast, m, n, sub)
           = PERTILE!VEC!Filled(P(0, PERTILE!VEC!OffsetM(m, n, sub), half,
                                 0, PERTILE!VEC!ValidN(m, n, sub, 0) + PERTILE!VEC!ValidN(m, n, sub, 1)))
               \o PERTILE!VEC!Filled(P(1, PERTILE!VEC!OffsetM(m, n, sub) + half,
                                      PERTILE!VEC!ValidM(m, n, sub) - half,
                                      0, PERTILE!VEC!ValidN(m, n, sub, 0) + PERTILE!VEC!ValidN(m, n, sub, 1)))
BY PiecesUnfold

(* All the lines of a vector core that does not cast.                      *)
LEMMA WholePiece ==
  ASSUME NEW cast, NEW m, NEW n, NEW sub, PERTILE!VEC!NdNum(m, n) = 2, ~PERTILE!VEC!SplitN(m, n), ~cast
  PROVE  PERTILE!VEC!Pieces(cast, m, n, sub)
           = PERTILE!VEC!Filled(P(0, PERTILE!VEC!OffsetM(m, n, sub), PERTILE!VEC!ValidM(m, n, sub),
                                 0, PERTILE!VEC!ValidN(m, n, sub, 0) + PERTILE!VEC!ValidN(m, n, sub, 1)))
BY PiecesUnfold

(* Where the pieces of a vector core lie, for parts of two groups of       *)
(* columns, of a single line, and of others with and without two ND.       *)
LEMMA WideShares ==
  ASSUME NEW m \in 1 .. 128, NEW n, n = 256, NEW sub \in {0, 1}
  PROVE  /\ PERTILE!VEC!SplitN(m, n) /\ PERTILE!VEC!NdNum(m, n) = 2
         /\ PERTILE!VEC!ValidM(m, n, sub) = m /\ PERTILE!VEC!OffsetM(m, n, sub) = 0
         /\ PERTILE!VEC!OffsetN(m, n, sub, 0) = sub * 64 /\ PERTILE!VEC!ValidN(m, n, sub, 0) = 64
         /\ PERTILE!VEC!OffsetN(m, n, sub, 1) = (sub + 2) * 64 /\ PERTILE!VEC!ValidN(m, n, sub, 1) = 64
BY DEF PERTILE!VEC!OffsetM, PERTILE!VEC!ValidM, PERTILE!VEC!OffsetN, PERTILE!VEC!ValidN,
      PERTILE!VEC!SingleM, PERTILE!VEC!SingleN, PERTILE!VEC!SplitN, PERTILE!VEC!NdNum,
      PERTILE!VEC!Align, PERTILE!VEC!CeilDiv, PERTILE!VEC!Least, PERTILE!VEC!PER_BLOCK_SIZE,
      PERTILE!VEC!UB_TWO_BANK_ELEMS_B32, PERTILE!VEC!UB_SUB_BANK_ELEMS_B32,
      PERTILE!VEC!UB_SUB_BANK_NUM, PERTILE!VEC!ONE_BLK_SIZE, PERTILE!VEC!BLOCK_CUBE, PERTILE!VEC!TaskRation

(* The vector cores take the halves of the columns of a single line.       *)
LEMMA LineShares ==
  ASSUME NEW m, m = 1, NEW n \in 1 .. 128, NEW sub \in {0, 1}, NEW h, h = PERTILE!VEC!SingleN(m, n)
  PROVE  /\ h \in Nat \ {0} /\ n <= 2 * h
         /\ PERTILE!VEC!SplitN(m, n) /\ PERTILE!VEC!NdNum(m, n) = 1
         /\ PERTILE!VEC!ValidM(m, n, sub) = 1 /\ PERTILE!VEC!OffsetM(m, n, sub) = 0
         /\ PERTILE!VEC!OffsetN(m, n, sub, 0) = sub * h
         /\ PERTILE!VEC!ValidN(m, n, sub, 0) =
              IF sub = 0 THEN IF n < h THEN n ELSE h ELSE IF n < h THEN 0 ELSE n - h
<1>1. PERTILE!VEC!SplitN(m, n) /\ PERTILE!VEC!NdNum(m, n) = 1
  BY DEF PERTILE!VEC!SplitN, PERTILE!VEC!NdNum, PERTILE!VEC!PER_BLOCK_SIZE, PERTILE!VEC!UB_TWO_BANK_ELEMS_B32
<1>2. PERTILE!VEC!ValidM(m, n, sub) = 1 /\ PERTILE!VEC!OffsetM(m, n, sub) = 0
  BY <1>1 DEF PERTILE!VEC!OffsetM, PERTILE!VEC!ValidM, PERTILE!VEC!SingleM
<1>3. h \in Nat \ {0} /\ n <= 2 * h
  <2>1. h = ((((n + 32 - 1) \div 32) * 32) \div 1) \div 2
    BY <1>1 DEF PERTILE!VEC!SingleN, PERTILE!VEC!Align, PERTILE!VEC!CeilDiv, PERTILE!VEC!PER_BLOCK_SIZE,
                PERTILE!VEC!ONE_BLK_SIZE, PERTILE!VEC!TaskRation
  <2> QED BY <2>1
<1>4. PERTILE!VEC!OffsetN(m, n, sub, 0) = sub * h
  BY <1>1, <1>3 DEF PERTILE!VEC!OffsetN, PERTILE!VEC!UB_SUB_BANK_NUM
<1>5. PERTILE!VEC!ValidN(m, n, sub, 0) = IF n < sub * h THEN 0
                                         ELSE IF h < n - sub * h THEN h ELSE n - sub * h
  BY <1>3, <1>4 DEF PERTILE!VEC!ValidN, PERTILE!VEC!Least
<1>6. CASE sub = 0
  BY <1>1, <1>2, <1>3, <1>4, <1>5, <1>6
<1>7. CASE sub = 1
  BY <1>1, <1>2, <1>3, <1>4, <1>5, <1>7
<1> QED BY <1>6, <1>7

(* The parts that are shared out by lines, and the vector cores.           *)
ByLines(m, n) == m \in (2 .. 128) \cup {256} /\ n \in 1 .. 128
Core(sub) == sub \in {0, 1}

(* The vector cores take the halves of the lines of other parts.           *)
LEMMA RowShares ==
  ASSUME NEW m, NEW n, NEW sub, ByLines(m, n), Core(sub)
  PROVE  /\ ~PERTILE!VEC!SplitN(m, n) /\ PERTILE!VEC!NdNum(m, n) = IF n > 64 THEN 2 ELSE 1
         /\ PERTILE!VEC!ValidM(m, n, sub) = IF sub = 0 THEN (m + 1) \div 2 ELSE m - ((m + 1) \div 2)
         /\ PERTILE!VEC!OffsetM(m, n, sub) = sub * ((m + 1) \div 2)
         /\ n <= 64 => PERTILE!VEC!OffsetN(m, n, sub, 0) = 0 /\ PERTILE!VEC!ValidN(m, n, sub, 0) = n
         /\ n > 64 => PERTILE!VEC!ValidN(m, n, sub, 0) + PERTILE!VEC!ValidN(m, n, sub, 1) = n
<1> m \in (2 .. 128) \cup {256} /\ n \in 1 .. 128 /\ sub \in {0, 1}
  BY DEF ByLines, Core
<1>1. ~PERTILE!VEC!SplitN(m, n) /\ PERTILE!VEC!NdNum(m, n) = IF n > 64 THEN 2 ELSE 1
  BY DEF PERTILE!VEC!SplitN, PERTILE!VEC!NdNum, PERTILE!VEC!PER_BLOCK_SIZE, PERTILE!VEC!UB_SUB_BANK_ELEMS_B32
<1>2. PERTILE!VEC!SingleM(m, n) = (m + 1) \div 2
  BY <1>1 DEF PERTILE!VEC!SingleM, PERTILE!VEC!CeilDiv, PERTILE!VEC!TaskRation
<1>3. /\ PERTILE!VEC!ValidM(m, n, sub) = IF sub = 0 THEN (m + 1) \div 2 ELSE m - ((m + 1) \div 2)
      /\ PERTILE!VEC!OffsetM(m, n, sub) = sub * ((m + 1) \div 2)
  BY <1>1, <1>2 DEF PERTILE!VEC!OffsetM, PERTILE!VEC!ValidM
<1> DEFINE s == PERTILE!VEC!SingleN(m, n)
<1>4. CASE n <= 64
  <2>1. s = (((n + 16 - 1) \div 16) * 16) \div 1
    BY <1>1, <1>4 DEF PERTILE!VEC!SingleN, PERTILE!VEC!Align, PERTILE!VEC!CeilDiv, PERTILE!VEC!BLOCK_CUBE
  <2>2. s \in Nat /\ n <= s
    BY <2>1
  <2> HIDE DEF s
  <2>3. PERTILE!VEC!OffsetN(m, n, sub, 0) = 0
    BY <1>1, <2>2 DEF PERTILE!VEC!OffsetN, s
  <2>4. PERTILE!VEC!ValidN(m, n, sub, 0) = n
    BY <2>2, <2>3 DEF PERTILE!VEC!ValidN, PERTILE!VEC!Least, s
  <2> QED BY <1>1, <1>3, <1>4, <2>3, <2>4
<1>5. CASE n > 64
  <2>1. s = (((n + 32 - 1) \div 32) * 32) \div 2
    BY <1>1, <1>5 DEF PERTILE!VEC!SingleN, PERTILE!VEC!Align, PERTILE!VEC!CeilDiv, PERTILE!VEC!BLOCK_CUBE
  <2>2. s \in Nat /\ n <= 2 * s /\ s < n
    BY <2>1, <1>5
  <2> HIDE DEF s
  <2>3. PERTILE!VEC!OffsetN(m, n, sub, 0) = 0 /\ PERTILE!VEC!OffsetN(m, n, sub, 1) = s
    BY <1>1, <2>2 DEF PERTILE!VEC!OffsetN, s
  <2>4. PERTILE!VEC!ValidN(m, n, sub, 0) = s /\ PERTILE!VEC!ValidN(m, n, sub, 1) = n - s
    BY <2>2, <2>3 DEF PERTILE!VEC!ValidN, PERTILE!VEC!Least, s
  <2> QED BY <1>1, <1>3, <1>5, <2>2, <2>4
<1> QED BY <1>4, <1>5

(* The pieces of both vector cores: by core and number.                    *)
Numbered(cast, m, n) ==
  UNION {{<<sub, i>> : i \in DOMAIN PERTILE!VEC!Pieces(cast, m, n, sub)} : sub \in {0, 1}}
Placement(cast, m, n) ==
  [x \in Numbered(cast, m, n) |-> <<0>> \o PERTILE!VEC!Pieces(cast, m, n, x[1])[x[2]].at]

(* A piece goes by its core and its number.                                *)
LEMMA NumberedOf ==
  ASSUME NEW cast, NEW m, NEW n, NEW x
  PROVE  x \in Numbered(cast, m, n) <=>
           \E sub \in {0, 1} : \E i \in DOMAIN PERTILE!VEC!Pieces(cast, m, n, sub) : x = <<sub, i>>
BY DEF Numbered

(* Where the piece of a core and number lies.                              *)
LEMMA PlacedAt ==
  ASSUME NEW cast, NEW m, NEW n, NEW sub \in {0, 1}, NEW i \in DOMAIN PERTILE!VEC!Pieces(cast, m, n, sub),
         NEW k, NEW a \in Int, NEW b \in Int, NEW c \in Int, NEW d \in Int,
         PERTILE!VEC!Pieces(cast, m, n, sub)[i] = P(k, a, b, c, d)
  PROVE  <<sub, i>> \in Numbered(cast, m, n) /\ Placement(cast, m, n)[<<sub, i>>] = <<0, a, b, c, d>>
<1>1. <<sub, i>> \in Numbered(cast, m, n)
  BY NumberedOf
<1>2. Placement(cast, m, n)[<<sub, i>>] = <<0>> \o PERTILE!VEC!Pieces(cast, m, n, sub)[i].at
  BY <1>1 DEF Placement
<1>3. PERTILE!VEC!Pieces(cast, m, n, sub)[i].at = <<a, b, c, d>>
  BY DEF P
<1> QED BY <1>1, <1>2, <1>3, Placed

(* Both pieces are written if both hold something.                         *)
LEMMA TwoSplitPieces ==
  ASSUME NEW cast, NEW m, NEW n, NEW sub, PERTILE!VEC!SplitN(m, n), PERTILE!VEC!NdNum(m, n) = 2,
         NEW m0 \in Int, NEW v \in Int, NEW n0 \in Int, NEW w0 \in Int, NEW n1 \in Int, NEW w1 \in Int,
         PERTILE!VEC!OffsetM(m, n, sub) = m0, PERTILE!VEC!ValidM(m, n, sub) = v, v > 0,
         PERTILE!VEC!OffsetN(m, n, sub, 0) = n0, PERTILE!VEC!ValidN(m, n, sub, 0) = w0, w0 > 0,
         PERTILE!VEC!OffsetN(m, n, sub, 1) = n1, PERTILE!VEC!ValidN(m, n, sub, 1) = w1, w1 > 0
  PROVE  PERTILE!VEC!Pieces(cast, m, n, sub) = <<P(0, m0, v, n0, w0), P(1, m0, v, n1, w1)>>
<1>1. PERTILE!VEC!Pieces(cast, m, n, sub)
        = PERTILE!VEC!Filled(P(0, m0, v, n0, w0)) \o PERTILE!VEC!Filled(P(1, m0, v, n1, w1))
  BY SplitPieces
<1>2. PERTILE!VEC!Filled(P(0, m0, v, n0, w0)) = <<P(0, m0, v, n0, w0)>>
  BY FilledPiece
<1>3. PERTILE!VEC!Filled(P(1, m0, v, n1, w1)) = <<P(1, m0, v, n1, w1)>>
  BY FilledPiece
<1> QED BY <1>1, <1>2, <1>3, Joined

(* The four pieces of a part of two groups of columns share it out.        *)
LEMMA WideTiled ==
  ASSUME NEW cast, NEW m \in 1 .. 128, NEW n, n = 256
  PROVE  Tiles(Numbered(cast, m, n), Placement(cast, m, n), 1, m, n)
<1> DEFINE S == Numbered(cast, m, n)  f == Placement(cast, m, n)
           lo == [x \in S |-> (x[1] + 2 * (x[2] - 1)) * 64]  len == [x \in S |-> 64]
<1>1. ASSUME NEW sub \in {0, 1}
      PROVE  PERTILE!VEC!Pieces(cast, m, n, sub) = <<P(0, 0, m, sub * 64, 64), P(1, 0, m, (sub + 2) * 64, 64)>>
  <2> DEFINE a == sub * 64  b == (sub + 2) * 64
  <2>1. a \in Int /\ b \in Int /\ m \in Int /\ 64 \in Int /\ 0 \in Int
    OBVIOUS
  <2>2. /\ PERTILE!VEC!SplitN(m, n) /\ PERTILE!VEC!NdNum(m, n) = 2
        /\ PERTILE!VEC!ValidM(m, n, sub) = m /\ PERTILE!VEC!OffsetM(m, n, sub) = 0
        /\ PERTILE!VEC!OffsetN(m, n, sub, 0) = a /\ PERTILE!VEC!ValidN(m, n, sub, 0) = 64
        /\ PERTILE!VEC!OffsetN(m, n, sub, 1) = b /\ PERTILE!VEC!ValidN(m, n, sub, 1) = 64
    BY WideShares
  <2> HIDE DEF a, b
  <2>3. m > 0 /\ 64 > 0
    OBVIOUS
  <2>4. PERTILE!VEC!Pieces(cast, m, n, sub) = <<P(0, 0, m, a, 64), P(1, 0, m, b, 64)>>
    BY <2>1, <2>2, <2>3, TwoSplitPieces
  <2> QED BY <2>4 DEF a, b
<1>2. ASSUME NEW sub \in {0, 1}
      PROVE  DOMAIN PERTILE!VEC!Pieces(cast, m, n, sub) = {1, 2}
  BY <1>1
<1>3. ASSUME NEW x PROVE x \in S <=> x \in {<<0, 1>>, <<0, 2>>, <<1, 1>>, <<1, 2>>}
  <2>1. x \in S <=> \E sub \in {0, 1} : \E i \in {1, 2} : x = <<sub, i>>
    BY <1>2, NumberedOf
  <2> QED BY <2>1
<1>4. ASSUME NEW sub \in {0, 1}, NEW i \in {1, 2}
      PROVE  f[<<sub, i>>] = <<0, 0, m, (sub + 2 * (i - 1)) * 64, 64>>
  <2> DEFINE a == (sub + 2 * (i - 1)) * 64
  <2>1. PERTILE!VEC!Pieces(cast, m, n, sub)[i] = P(i - 1, 0, m, a, 64)
    BY <1>1
  <2>2. a \in Int
    OBVIOUS
  <2>4. i \in DOMAIN PERTILE!VEC!Pieces(cast, m, n, sub) /\ m \in Int /\ 0 \in Int /\ 64 \in Int
    BY <1>2
  <2> DEFINE k == i - 1
  <2>5. PERTILE!VEC!Pieces(cast, m, n, sub)[i] = P(k, 0, m, a, 64)
    BY <2>1
  <2> HIDE DEF a, k
  <2>3. Placement(cast, m, n)[<<sub, i>>] = <<0, 0, m, a, 64>>
    BY <2>2, <2>4, <2>5, PlacedAt
  <2> QED BY <2>3 DEF a
<1>5. \A x \in S : \E sub \in {0, 1}, i \in {1, 2} :
        x = <<sub, i>> /\ f[x] = <<0, 0, m, lo[x], len[x]>> /\ lo[x] = (sub + 2 * (i - 1)) * 64 /\ len[x] = 64
  <2> TAKE x \in S
  <2>1. PICK sub \in {0, 1}, i \in {1, 2} : x = <<sub, i>>
    BY <1>3
  <2>2. lo[x] = (sub + 2 * (i - 1)) * 64 /\ len[x] = 64
    BY <2>1
  <2>3. f[x] = <<0, 0, m, (sub + 2 * (i - 1)) * 64, 64>>
    BY <1>4, <2>1
  <2> HIDE DEF lo, len, f
  <2> QED BY <2>1, <2>2, <2>3
<1>10. lo[<<0, 1>>] = 0 /\ lo[<<1, 1>>] = 64 /\ lo[<<0, 2>>] = 128 /\ lo[<<1, 2>>] = 192
  <2>1. ASSUME NEW x \in S PROVE lo[x] = (x[1] + 2 * (x[2] - 1)) * 64
    OBVIOUS
  <2> HIDE DEF lo
  <2>2. lo[<<0, 1>>] = (0 + 2 * (1 - 1)) * 64
    BY <1>3, <2>1
  <2>3. lo[<<1, 1>>] = (1 + 2 * (1 - 1)) * 64
    BY <1>3, <2>1
  <2>4. lo[<<0, 2>>] = (0 + 2 * (2 - 1)) * 64
    BY <1>3, <2>1
  <2>5. lo[<<1, 2>>] = (1 + 2 * (2 - 1)) * 64
    BY <1>3, <2>1
  <2> QED BY <2>2, <2>3, <2>4, <2>5
<1> HIDE DEF S, f, lo, len
<1>6. \A x \in S : f[x] = Strip(FALSE, m, n, lo[x], len[x]) /\ lo[x] \in Nat /\ len[x] \in Nat \ {0} /\ lo[x] + len[x] <= 256
  BY <1>5 DEF Strip
<1>7. ASSUME NEW k \in 0 .. 255 PROVE \E x \in S : lo[x] <= k /\ k < lo[x] + len[x]
  <2>1. /\ <<0, 1>> \in S /\ <<0, 2>> \in S /\ <<1, 1>> \in S /\ <<1, 2>> \in S
    BY <1>3
  <2>2. \A x \in S : len[x] = 64
    BY <1>5
  <2> QED BY <1>10, <2>1, <2>2
<1>8. \A x, y \in S : \A k \in Int : lo[x] <= k /\ k < lo[x] + len[x] /\ lo[y] <= k /\ k < lo[y] + len[y] => x = y
  BY <1>5
<1>9. Tiles(S, f, 1, m, n)
  <2>1. FALSE \in BOOLEAN /\ m \in Nat \ {0} /\ n \in Nat \ {0}
    OBVIOUS
  <2> DEFINE byRows == FALSE  total == 256
  <2>2. total = IF byRows THEN m ELSE n
    OBVIOUS
  <2>3. \A k \in 0 .. total - 1 : \E x \in S : lo[x] <= k /\ k < lo[x] + len[x]
    BY <1>7
  <2>4. \A x \in S : /\ f[x] = Strip(byRows, m, n, lo[x], len[x])
                     /\ lo[x] \in Nat /\ len[x] \in Nat \ {0} /\ lo[x] + len[x] <= total
    BY <1>6
  <2>5. byRows \in BOOLEAN
    OBVIOUS
  <2> HIDE DEF byRows, total
  <2>6. Strips(S, f, byRows, m, n, total, lo, len)
    BY <1>8, <2>3, <2>4 DEF Strips
  <2> QED BY <2>1, <2>2, <2>5, <2>6, StripsTile
<1> QED BY <1>9 DEF S, f

(* The only piece is written if it holds something.                        *)
LEMMA OneSplitPiece ==
  ASSUME NEW cast, NEW m, NEW n, NEW sub, PERTILE!VEC!NdNum(m, n) = 1,
         NEW m0 \in Int, NEW v \in Int, NEW n0 \in Int, NEW w0 \in Int,
         PERTILE!VEC!OffsetM(m, n, sub) = m0, PERTILE!VEC!ValidM(m, n, sub) = v,
         PERTILE!VEC!OffsetN(m, n, sub, 0) = n0, PERTILE!VEC!ValidN(m, n, sub, 0) = w0
  PROVE  /\ v > 0 /\ w0 > 0 => PERTILE!VEC!Pieces(cast, m, n, sub) = <<P(0, m0, v, n0, w0)>>
         /\ ~(v > 0 /\ w0 > 0) => PERTILE!VEC!Pieces(cast, m, n, sub) = <<>>
<1>1. PERTILE!VEC!Pieces(cast, m, n, sub) = PERTILE!VEC!Filled(P(0, m0, v, n0, w0)) \o <<>>
  BY OnePiece
<1>2. CASE v > 0 /\ w0 > 0
  <2>1. PERTILE!VEC!Filled(P(0, m0, v, n0, w0)) = <<P(0, m0, v, n0, w0)>>
    BY <1>2, FilledPiece
  <2> DEFINE p == P(0, m0, v, n0, w0)
  <2> HIDE DEF p
  <2>2. <<p>> \o <<>> = <<p>>
    OBVIOUS
  <2> QED BY <1>1, <1>2, <2>1, <2>2 DEF p
<1>3. CASE ~(v > 0 /\ w0 > 0)
  <2>1. PERTILE!VEC!Filled(P(0, m0, v, n0, w0)) = <<>>
    BY <1>3, FilledPiece
  <2>2. <<>> \o <<>> = <<>>
    OBVIOUS
  <2> QED BY <1>1, <1>3, <2>1, <2>2
<1> QED BY <1>2, <1>3

(* All the lines are written at once, whatever the ND.                     *)
LEMMA WholeRows ==
  ASSUME NEW cast, NEW m, NEW n, NEW sub, PERTILE!VEC!NdNum(m, n) = 2, ~PERTILE!VEC!SplitN(m, n), ~cast,
         NEW m0 \in Int, NEW v \in Int, NEW sum \in Int,
         PERTILE!VEC!OffsetM(m, n, sub) = m0, PERTILE!VEC!ValidM(m, n, sub) = v, v > 0, sum > 0,
         PERTILE!VEC!ValidN(m, n, sub, 0) + PERTILE!VEC!ValidN(m, n, sub, 1) = sum
  PROVE  PERTILE!VEC!Pieces(cast, m, n, sub) = <<P(0, m0, v, 0, sum)>>
<1>1. PERTILE!VEC!Pieces(cast, m, n, sub) = PERTILE!VEC!Filled(P(0, m0, v, 0, sum))
  BY WholePiece
<1>2. PERTILE!VEC!Filled(P(0, m0, v, 0, sum)) = <<P(0, m0, v, 0, sum)>>
  BY FilledPiece
<1> QED BY <1>1, <1>2

(* Pieces that are strips, with the numbers of their cores and their own.  *)
PieceStrip(piece, byRows, m, n, l, e) ==
  \E k : piece = IF byRows THEN P(k, l, e, 0, n) ELSE P(k, 0, m, l, e)
Laid(cast, m, n, byRows, lo, len) ==
  \A sub \in {0, 1} : \A i \in DOMAIN PERTILE!VEC!Pieces(cast, m, n, sub) :
     PieceStrip(PERTILE!VEC!Pieces(cast, m, n, sub)[i], byRows, m, n, lo[<<sub, i>>], len[<<sub, i>>])
Divided(S, total, lo, len) ==
  /\ \A x \in S : lo[x] \in Nat /\ len[x] \in Nat \ {0} /\ lo[x] + len[x] <= total
  /\ \A k \in 0 .. total - 1 : \E x \in S : lo[x] <= k /\ k < lo[x] + len[x]
  /\ \A x, y \in S : \A k \in Int :
       lo[x] <= k /\ k < lo[x] + len[x] /\ lo[y] <= k /\ k < lo[y] + len[y] => x = y

(* Where a piece lies that is a strip.                                     *)
LEMMA StripPlaced ==
  ASSUME NEW cast, NEW m \in Int, NEW n \in Int, NEW byRows \in BOOLEAN, NEW l \in Int, NEW e \in Int,
         NEW sub \in {0, 1}, NEW i \in DOMAIN PERTILE!VEC!Pieces(cast, m, n, sub),
         PieceStrip(PERTILE!VEC!Pieces(cast, m, n, sub)[i], byRows, m, n, l, e)
  PROVE  Placement(cast, m, n)[<<sub, i>>] = Strip(byRows, m, n, l, e)
<1> DEFINE x == <<sub, i>>  piece == PERTILE!VEC!Pieces(cast, m, n, sub)[i]  z == 0
<1>1. x \in Numbered(cast, m, n)
  BY NumberedOf
<1>2. Placement(cast, m, n)[x] = <<0>> \o piece.at
  BY <1>1 DEF Placement
<1> HIDE DEF x, piece
<1>3. PICK k : piece = IF byRows THEN P(k, l, e, 0, n) ELSE P(k, 0, m, l, e)
  BY DEF PieceStrip, piece
<1>4. z \in Int
  OBVIOUS
<1>5. CASE byRows
  <2>1. piece.at = <<l, e, z, n>>
    BY <1>3, <1>5 DEF P
  <2> HIDE DEF z
  <2>2. <<0>> \o <<l, e, z, n>> = <<0, l, e, z, n>>
    BY <1>4, Placed
  <2>3. Placement(cast, m, n)[x] = <<0, l, e, z, n>>
    BY <1>2, <2>1, <2>2
  <2> QED BY <1>5, <2>3 DEF Strip, z, x
<1>6. CASE ~byRows
  <2>1. piece.at = <<z, m, l, e>>
    BY <1>3, <1>6 DEF P
  <2> HIDE DEF z
  <2>2. <<0>> \o <<z, m, l, e>> = <<0, z, m, l, e>>
    BY <1>4, Placed
  <2>3. Placement(cast, m, n)[x] = <<0, z, m, l, e>>
    BY <1>2, <2>1, <2>2
  <2> QED BY <1>6, <2>3 DEF Strip, z, x
<1> QED BY <1>5, <1>6

(* Pieces that are strips of a divided axis share the part out.            *)
LEMMA LaidTiled ==
  ASSUME NEW cast, NEW m \in Nat \ {0}, NEW n \in Nat \ {0}, NEW byRows \in BOOLEAN, NEW total, NEW lo, NEW len,
         total = IF byRows THEN m ELSE n,
         Laid(cast, m, n, byRows, lo, len), Divided(Numbered(cast, m, n), total, lo, len)
  PROVE  Tiles(Numbered(cast, m, n), Placement(cast, m, n), 1, m, n)
<1> DEFINE S == Numbered(cast, m, n)  f == Placement(cast, m, n)
<1>1. ASSUME NEW x \in S PROVE f[x] = Strip(byRows, m, n, lo[x], len[x])
  <2>1. PICK sub \in {0, 1} : \E i \in DOMAIN PERTILE!VEC!Pieces(cast, m, n, sub) : x = <<sub, i>>
    BY NumberedOf
  <2>2. PICK i \in DOMAIN PERTILE!VEC!Pieces(cast, m, n, sub) : x = <<sub, i>>
    BY <2>1
  <2>3. PieceStrip(PERTILE!VEC!Pieces(cast, m, n, sub)[i], byRows, m, n, lo[<<sub, i>>], len[<<sub, i>>])
    BY DEF Laid
  <2>4. lo[x] \in Int /\ len[x] \in Int /\ m \in Int /\ n \in Int
    BY DEF Divided
  <2> DEFINE l == lo[<<sub, i>>]  e == len[<<sub, i>>]
  <2>5. l \in Int /\ e \in Int /\ m \in Int /\ n \in Int
    BY <2>2, <2>4
  <2> HIDE DEF l, e, f
  <2>6. Placement(cast, m, n)[<<sub, i>>] = Strip(byRows, m, n, l, e)
    BY <2>3, <2>5, StripPlaced DEF l, e
  <2> QED BY <2>2, <2>6 DEF l, e, f
<1> HIDE DEF S, f
<1>2. Strips(S, f, byRows, m, n, total, lo, len)
  BY <1>1 DEF Strips, Divided, S
<1>3. Tiles(S, f, 1, m, n)
  BY <1>2, StripsTile
<1> QED BY <1>3 DEF S, f

(* The pieces of a vector core are length lines (columns) from one on: in  *)
(* one piece, or, if first is less, in two.                                *)
Halved(cast, m, n, byRows, sub, from, length, first) ==
  LET pieces == PERTILE!VEC!Pieces(cast, m, n, sub) IN
  /\ length = 0 => DOMAIN pieces = {}
  /\ length > 0 /\ first = length => DOMAIN pieces = {1} /\ PieceStrip(pieces[1], byRows, m, n, from, first)
  /\ length > 0 /\ first < length =>
       /\ DOMAIN pieces = {1, 2} /\ PieceStrip(pieces[1], byRows, m, n, from, first)
       /\ PieceStrip(pieces[2], byRows, m, n, from + first, length - first)

(* Two cores that divide an axis, each in one piece or two, share the part *)
(* out.                                                                    *)
LEMMA HalvesTile ==
  ASSUME NEW cast, NEW m \in Nat \ {0}, NEW n \in Nat \ {0}, NEW byRows \in BOOLEAN, NEW total,
         total = IF byRows THEN m ELSE n, NEW h \in 1 .. total, NEW u \in Nat, NEW v \in Nat, NEW w, w = total - h,
         1 <= u, u <= h, v <= w, w = 0 \/ 1 <= v,
         Halved(cast, m, n, byRows, 0, 0, h, u), Halved(cast, m, n, byRows, 1, h, w, v)
  PROVE  Tiles(Numbered(cast, m, n), Placement(cast, m, n), 1, m, n)
<1> DEFINE S == Numbered(cast, m, n)
           from(sub) == IF sub = 0 THEN 0 ELSE h
           length(sub) == IF sub = 0 THEN h ELSE w
           first(sub) == IF sub = 0 THEN u ELSE v
           lo == [x \in S |-> IF x[2] = 1 THEN from(x[1]) ELSE from(x[1]) + first(x[1])]
           len == [x \in S |-> IF x[2] = 1 THEN first(x[1]) ELSE length(x[1]) - first(x[1])]
<1>1. ASSUME NEW sub \in {0, 1}
      PROVE  /\ Halved(cast, m, n, byRows, sub, from(sub), length(sub), first(sub))
             /\ from(sub) \in Nat /\ length(sub) \in Nat /\ first(sub) \in Nat /\ first(sub) <= length(sub)
             /\ length(sub) = 0 \/ 1 <= first(sub)
             /\ from(sub) + length(sub) <= total
  <2>0. total \in Nat /\ w \in Nat /\ h + w = total
    OBVIOUS
  <2>1. CASE sub = 0
    BY <2>0, <2>1
  <2>2. CASE sub = 1
    BY <2>0, <2>2
  <2> QED BY <2>1, <2>2
<1> HIDE DEF from, length, first
<1>2. ASSUME NEW sub \in {0, 1}, NEW i \in DOMAIN PERTILE!VEC!Pieces(cast, m, n, sub)
      PROVE  /\ length(sub) > 0 /\ i \in {1, 2} /\ (i = 2 => first(sub) < length(sub))
             /\ <<sub, i>> \in S
             /\ lo[<<sub, i>>] = IF i = 1 THEN from(sub) ELSE from(sub) + first(sub)
             /\ len[<<sub, i>>] = IF i = 1 THEN first(sub) ELSE length(sub) - first(sub)
             /\ PieceStrip(PERTILE!VEC!Pieces(cast, m, n, sub)[i], byRows, m, n, lo[<<sub, i>>], len[<<sub, i>>])
  <2> DEFINE x == <<sub, i>>
  <2>1. <<sub, i>> \in S
    BY NumberedOf
  <2>2. x[1] = sub /\ x[2] = i
    OBVIOUS
  <2>3. /\ lo[x] = IF i = 1 THEN from(sub) ELSE from(sub) + first(sub)
        /\ len[x] = IF i = 1 THEN first(sub) ELSE length(sub) - first(sub)
    BY <2>1, <2>2
  <2> HIDE DEF lo, len, S
  <2>4. length(sub) > 0
    BY <1>1 DEF Halved
  <2>5. CASE first(sub) = length(sub)
    <3>1. i = 1 /\ PieceStrip(PERTILE!VEC!Pieces(cast, m, n, sub)[i], byRows, m, n, from(sub), first(sub))
      BY <1>1, <2>4, <2>5 DEF Halved
    <3> QED BY <2>1, <2>3, <2>4, <3>1
  <2>6. CASE first(sub) < length(sub)
    <3>1. \/ i = 1 /\ PieceStrip(PERTILE!VEC!Pieces(cast, m, n, sub)[i], byRows, m, n, from(sub), first(sub))
          \/ i = 2 /\ PieceStrip(PERTILE!VEC!Pieces(cast, m, n, sub)[i], byRows, m, n,
                                 from(sub) + first(sub), length(sub) - first(sub))
      BY <1>1, <2>4, <2>6 DEF Halved
    <3> QED BY <2>1, <2>3, <2>4, <2>6, <3>1
  <2> QED BY <1>1, <2>5, <2>6
<1>3. Laid(cast, m, n, byRows, lo, len)
  <2> HIDE DEF lo, len, S
  <2> QED BY <1>2 DEF Laid
<1>4. ASSUME NEW x \in S
      PROVE  \E sub \in {0, 1}, i \in {1, 2} :
               /\ x = <<sub, i>> /\ length(sub) > 0 /\ (i = 2 => first(sub) < length(sub))
               /\ lo[x] = IF i = 1 THEN from(sub) ELSE from(sub) + first(sub)
               /\ len[x] = IF i = 1 THEN first(sub) ELSE length(sub) - first(sub)
  <2>1. PICK sub \in {0, 1} : \E i \in DOMAIN PERTILE!VEC!Pieces(cast, m, n, sub) : x = <<sub, i>>
    BY NumberedOf
  <2>2. PICK i \in DOMAIN PERTILE!VEC!Pieces(cast, m, n, sub) : x = <<sub, i>>
    BY <2>1
  <2> HIDE DEF lo, len, S
  <2> QED BY <1>2, <2>2
<1>5. ASSUME NEW k \in 0 .. total - 1 PROVE \E x \in S : lo[x] <= k /\ k < lo[x] + len[x]
  <2> DEFINE sub == IF k < h THEN 0 ELSE 1
             i == IF k < from(sub) + first(sub) THEN 1 ELSE 2
             x == <<sub, i>>
  <2>1. sub \in {0, 1} /\ from(sub) <= k /\ k < from(sub) + length(sub) /\ length(sub) > 0
    BY DEF from, length
  <2> HIDE DEF sub
  <2>2. i \in {1, 2} /\ (i = 2 => first(sub) < length(sub))
    BY <1>1, <2>1
  <2>3. i \in DOMAIN PERTILE!VEC!Pieces(cast, m, n, sub)
    <3> HIDE DEF i
    <3>1. CASE first(sub) = length(sub)
      BY <1>1, <2>1, <2>2, <3>1 DEF Halved
    <3>2. CASE first(sub) < length(sub)
      BY <1>1, <2>1, <2>2, <3>2 DEF Halved
    <3> QED BY <1>1, <2>1, <3>1, <3>2
  <2> HIDE DEF lo, len, S
  <2>4. /\ x \in S
        /\ lo[x] = IF i = 1 THEN from(sub) ELSE from(sub) + first(sub)
        /\ len[x] = IF i = 1 THEN first(sub) ELSE length(sub) - first(sub)
    BY <1>2, <2>1, <2>3
  <2>5. lo[x] <= k /\ k < lo[x] + len[x]
    <3> HIDE DEF x
    <3> QED BY <1>1, <2>1, <2>2, <2>4
  <2> QED BY <2>4, <2>5
<1>6. \A x \in S : lo[x] \in Nat /\ len[x] \in Nat \ {0} /\ lo[x] + len[x] <= total
  <2> HIDE DEF lo, len, S
  <2> TAKE x \in S
  <2>1. PICK sub \in {0, 1}, i \in {1, 2} :
               /\ length(sub) > 0 /\ (i = 2 => first(sub) < length(sub))
               /\ lo[x] = IF i = 1 THEN from(sub) ELSE from(sub) + first(sub)
               /\ len[x] = IF i = 1 THEN first(sub) ELSE length(sub) - first(sub)
    BY <1>4
  <2> QED BY <1>1, <2>1
<1>7. ASSUME NEW x \in S, NEW y \in S, NEW k \in Int,
             lo[x] <= k, k < lo[x] + len[x], lo[y] <= k, k < lo[y] + len[y]
      PROVE  x = y
  <2> HIDE DEF lo, len, S
  <2>1. PICK sub \in {0, 1}, i \in {1, 2} :
               /\ x = <<sub, i>> /\ length(sub) > 0 /\ (i = 2 => first(sub) < length(sub))
               /\ lo[x] = IF i = 1 THEN from(sub) ELSE from(sub) + first(sub)
               /\ len[x] = IF i = 1 THEN first(sub) ELSE length(sub) - first(sub)
    BY <1>4
  <2>2. PICK tub \in {0, 1}, j \in {1, 2} :
               /\ y = <<tub, j>> /\ length(tub) > 0 /\ (j = 2 => first(tub) < length(tub))
               /\ lo[y] = IF j = 1 THEN from(tub) ELSE from(tub) + first(tub)
               /\ len[y] = IF j = 1 THEN first(tub) ELSE length(tub) - first(tub)
    BY <1>4
  <2>3. from(sub) <= k /\ k < from(sub) + length(sub)
    BY <1>1, <1>7, <2>1
  <2>4. from(tub) <= k /\ k < from(tub) + length(tub)
    BY <1>1, <1>7, <2>2
  <2>5. sub = tub
    BY <2>3, <2>4 DEF from, length
  <2>6. i = j
    BY <1>1, <1>7, <2>1, <2>2, <2>5
  <2> QED BY <2>1, <2>2, <2>5, <2>6
<1>8. Divided(S, total, lo, len)
  <2> HIDE DEF lo, len, S
  <2> QED BY <1>5, <1>6, <1>7 DEF Divided
<1> HIDE DEF lo, len
<1> QED BY <1>3, <1>8, LaidTiled

(* A piece of a vector core that handles its share at once.                *)
LEMMA AtOnce ==
  ASSUME NEW cast, NEW m, NEW n, NEW byRows, NEW sub, NEW from, NEW length \in Int, NEW k, NEW piece,
         piece = IF byRows THEN P(k, from, length, 0, n) ELSE P(k, 0, m, from, length),
         length > 0 => PERTILE!VEC!Pieces(cast, m, n, sub) = <<piece>>,
         length = 0 => PERTILE!VEC!Pieces(cast, m, n, sub) = <<>>
  PROVE  Halved(cast, m, n, byRows, sub, from, length, length)
<1>1. PieceStrip(piece, byRows, m, n, from, length)
  BY DEF PieceStrip
<1>2. DOMAIN <<piece>> = {1} /\ <<piece>>[1] = piece
  OBVIOUS
<1>4. CASE length > 0
  <2>1. PERTILE!VEC!Pieces(cast, m, n, sub) = <<piece>>
    BY <1>4
  <2> QED BY <1>1, <1>2, <1>4, <2>1 DEF Halved
<1>5. CASE length = 0
  <2>1. PERTILE!VEC!Pieces(cast, m, n, sub) = <<>>
    BY <1>5
  <2> QED BY <1>5, <2>1 DEF Halved
<1>6. CASE length < 0
  BY <1>6 DEF Halved
<1> QED BY <1>4, <1>5, <1>6

(* The pieces of a single line share it out.                               *)
LEMMA LineTiled ==
  ASSUME NEW cast, NEW m, m = 1, NEW n \in 1 .. 128
  PROVE  Tiles(Numbered(cast, m, n), Placement(cast, m, n), 1, m, n)
<1> DEFINE s == PERTILE!VEC!SingleN(m, n)  h == IF n < s THEN n ELSE s  w == n - h  byRows == FALSE  total == n
           z == 0
<1>1. /\ s \in Nat \ {0} /\ n <= 2 * s
      /\ \A sub \in {0, 1} :
           /\ PERTILE!VEC!NdNum(m, n) = 1
           /\ PERTILE!VEC!ValidM(m, n, sub) = 1 /\ PERTILE!VEC!OffsetM(m, n, sub) = z
           /\ PERTILE!VEC!OffsetN(m, n, sub, 0) = sub * s
           /\ PERTILE!VEC!ValidN(m, n, sub, 0) =
                IF sub = 0 THEN IF n < s THEN n ELSE s ELSE IF n < s THEN 0 ELSE n - s
  <2>1. ASSUME NEW sub \in {0, 1}
        PROVE  /\ s \in Nat \ {0} /\ n <= 2 * s
               /\ PERTILE!VEC!NdNum(m, n) = 1
               /\ PERTILE!VEC!ValidM(m, n, sub) = 1 /\ PERTILE!VEC!OffsetM(m, n, sub) = 0
               /\ PERTILE!VEC!OffsetN(m, n, sub, 0) = sub * s
               /\ PERTILE!VEC!ValidN(m, n, sub, 0) =
                    IF sub = 0 THEN IF n < s THEN n ELSE s ELSE IF n < s THEN 0 ELSE n - s
    <3>1. s = PERTILE!VEC!SingleN(m, n)
      OBVIOUS
    <3> HIDE DEF s
    <3> QED BY <3>1, LineShares
  <2> HIDE DEF s
  <2> QED BY <2>1
<1> HIDE DEF s
<1>2. h \in 1 .. n /\ w \in Nat /\ w = n - h
  BY <1>1
<1>3. /\ PERTILE!VEC!OffsetN(m, n, 0, 0) = z /\ PERTILE!VEC!ValidN(m, n, 0, 0) = h
      /\ PERTILE!VEC!ValidN(m, n, 1, 0) = w
      /\ w > 0 => PERTILE!VEC!OffsetN(m, n, 1, 0) = h
  BY <1>1
<1>4. 1 \in Int /\ h \in Int /\ w \in Int /\ z \in Int /\ s \in Int /\ 0 \in {0, 1} /\ 1 \in {0, 1} /\ m \in Int
  BY <1>1, <1>2
<1> HIDE DEF h, w, z
<1>5. Halved(cast, m, n, byRows, 0, z, h, h)
  <2> DEFINE piece == P(0, z, m, z, h)
  <2>1. /\ PERTILE!VEC!OffsetM(m, n, 0) = z /\ PERTILE!VEC!ValidM(m, n, 0) = m /\ PERTILE!VEC!NdNum(m, n) = 1
        /\ PERTILE!VEC!OffsetN(m, n, 0, 0) = z /\ PERTILE!VEC!ValidN(m, n, 0, 0) = h /\ m > 0
    BY <1>1, <1>3, <1>4
  <2>2. /\ m > 0 /\ h > 0 => PERTILE!VEC!Pieces(cast, m, n, 0) = <<P(0, z, m, z, h)>>
    BY <1>4, <2>1, OneSplitPiece
  <2>3. h > 0
    BY <1>2
  <2>4. piece = IF byRows THEN P(0, z, h, 0, n) ELSE P(0, 0, m, z, h)
    BY DEF z
  <2>5. PERTILE!VEC!Pieces(cast, m, n, 0) = <<piece>>
    BY <2>1, <2>2, <2>3
  <2>6. ~(h = 0)
    BY <2>3
  <2> HIDE DEF piece, byRows
  <2> QED BY <1>4, <2>4, <2>5, <2>6, AtOnce
<1>6. Halved(cast, m, n, byRows, 1, h, w, w)
  <2> DEFINE o == PERTILE!VEC!OffsetN(m, n, 1, 0)  piece == P(0, z, m, o, w)
  <2>1. /\ PERTILE!VEC!OffsetM(m, n, 1) = z /\ PERTILE!VEC!ValidM(m, n, 1) = m /\ PERTILE!VEC!NdNum(m, n) = 1
        /\ PERTILE!VEC!ValidN(m, n, 1, 0) = w /\ m > 0
    BY <1>1, <1>3, <1>4
  <2>0. o = s /\ o \in Int
    BY <1>1, <1>4
  <2>7. PERTILE!VEC!OffsetN(m, n, 1, 0) = o
    OBVIOUS
  <2> HIDE DEF o
  <2>2. /\ m > 0 /\ w > 0 => PERTILE!VEC!Pieces(cast, m, n, 1) = <<P(0, z, m, o, w)>>
        /\ ~(m > 0 /\ w > 0) => PERTILE!VEC!Pieces(cast, m, n, 1) = <<>>
    BY <1>4, <2>0, <2>1, <2>7, OneSplitPiece
  <2>3. CASE w > 0
    <3>1. o = h
      BY <1>3, <2>3, <2>7
    <3>4. piece = IF byRows THEN P(0, h, w, 0, n) ELSE P(0, 0, m, h, w)
      BY <3>1 DEF z
    <3>5. PERTILE!VEC!Pieces(cast, m, n, 1) = <<piece>>
      BY <2>1, <2>2, <2>3
    <3>6. ~(w = 0)
      BY <2>3
    <3> HIDE DEF piece, byRows
    <3> QED BY <1>4, <3>4, <3>5, <3>6, AtOnce
  <2>4. CASE ~(w > 0)
    <3>1. w = 0
      BY <1>2, <2>4
    <3>2. PERTILE!VEC!Pieces(cast, m, n, 1) = <<>>
      BY <2>2, <2>4
    <3> QED BY <3>1, <3>2 DEF Halved
  <2> QED BY <2>3, <2>4
<1>7. /\ byRows \in BOOLEAN /\ total = (IF byRows THEN m ELSE n) /\ m \in Nat \ {0} /\ n \in Nat \ {0}
      /\ h \in 1 .. total /\ h \in Nat /\ w \in Nat /\ w = total - h /\ 1 <= h /\ h <= h /\ w <= w /\ (w = 0 \/ 1 <= w)
  BY <1>2
<1>8. Halved(cast, m, n, byRows, 0, 0, h, h)
  BY <1>5 DEF z
<1> HIDE DEF byRows, total
<1> QED BY <1>6, <1>7, <1>8, HalvesTile

(* A piece of whole lines is a strip.                                      *)
LEMMA RowStrip ==
  ASSUME NEW k, NEW m, NEW n, NEW from, NEW length
  PROVE  PieceStrip(P(k, from, length, 0, n), TRUE, m, n, from, length)
<1>1. P(k, from, length, 0, n) = IF TRUE THEN P(k, from, length, 0, n) ELSE P(k, 0, m, from, length)
  OBVIOUS
<1> QED BY <1>1, Zenon DEF PieceStrip

(* The lines of one vector core, whose columns are all of the part.        *)
LEMMA RowsAtOnce ==
  ASSUME NEW cast, NEW m, NEW n, NEW sub, ByLines(m, n), Core(sub), n <= 64 \/ ~cast,
         NEW from \in Int, NEW length \in Int, length > 0,
         PERTILE!VEC!OffsetM(m, n, sub) = from, PERTILE!VEC!ValidM(m, n, sub) = length
  PROVE  Halved(cast, m, n, TRUE, sub, from, length, length)
<1> DEFINE z == 0
<1>1. /\ ~PERTILE!VEC!SplitN(m, n) /\ PERTILE!VEC!NdNum(m, n) = IF n > 64 THEN 2 ELSE 1
      /\ n <= 64 => PERTILE!VEC!OffsetN(m, n, sub, 0) = 0 /\ PERTILE!VEC!ValidN(m, n, sub, 0) = n
      /\ n > 64 => PERTILE!VEC!ValidN(m, n, sub, 0) + PERTILE!VEC!ValidN(m, n, sub, 1) = n
  BY RowShares
<1>2. n \in Int /\ n > 0 /\ z \in Int
  BY DEF ByLines
<1>3. PERTILE!VEC!Pieces(cast, m, n, sub) = <<P(0, from, length, z, n)>>
  <2>1. CASE n <= 64
    <3>1. /\ PERTILE!VEC!OffsetN(m, n, sub, 0) = z /\ PERTILE!VEC!ValidN(m, n, sub, 0) = n
          /\ PERTILE!VEC!NdNum(m, n) = 1
      BY <1>1, <1>2, <2>1
    <3> HIDE DEF z
    <3> QED BY <1>2, <3>1, OneSplitPiece
  <2>2. CASE n > 64
    <3>1. ~cast
      BY <1>2, <2>2
    <3>2. PERTILE!VEC!NdNum(m, n) = 2
      BY <1>1, <2>2
    <3>3. PERTILE!VEC!ValidN(m, n, sub, 0) + PERTILE!VEC!ValidN(m, n, sub, 1) = n
      BY <1>1, <2>2
    <3>4. PERTILE!VEC!Pieces(cast, m, n, sub) = <<P(0, from, length, 0, n)>>
      BY <1>1, <1>2, <3>1, <3>2, <3>3, WholeRows
    <3> QED BY <3>4
  <2> QED BY <1>2, <2>1, <2>2
<1> DEFINE piece == P(0, from, length, 0, n)  pieces == PERTILE!VEC!Pieces(cast, m, n, sub)
<1>4. PieceStrip(piece, TRUE, m, n, from, length)
  BY RowStrip
<1>5. pieces = <<piece>>
  BY <1>3
<1> HIDE DEF piece, pieces
<1>6. DOMAIN pieces = {1} /\ pieces[1] = piece
  BY <1>5
<1>7. ~(length = 0) /\ ~(length < length)
  OBVIOUS
<1> QED BY <1>4, <1>6, <1>7 DEF Halved, pieces

(* The lines of one vector core that casts them in two pieces.             *)
LEMMA RowsInHalves ==
  ASSUME NEW cast, NEW m, NEW n, NEW sub, ByLines(m, n), Core(sub), n > 64, cast,
         NEW from \in Int, NEW length \in Nat, length > 0, NEW half \in Int, half = (length + 2 - 1) \div 2,
         PERTILE!VEC!OffsetM(m, n, sub) = from, PERTILE!VEC!ValidM(m, n, sub) = length
  PROVE  Halved(cast, m, n, TRUE, sub, from, length, half)
<1> DEFINE rest == length - half  mid == from + half
           one == P(0, from, half, 0, n)  two == P(1, mid, rest, 0, n)  pieces == PERTILE!VEC!Pieces(cast, m, n, sub)
<1>1. /\ ~PERTILE!VEC!SplitN(m, n) /\ PERTILE!VEC!NdNum(m, n) = 2
      /\ PERTILE!VEC!ValidN(m, n, sub, 0) + PERTILE!VEC!ValidN(m, n, sub, 1) = n
  BY RowShares
<1>2. n \in Int /\ n > 0
  BY DEF ByLines
<1>5. half > 0 /\ half <= length /\ rest \in Int /\ mid \in Int /\ ~(length = 0) /\ length \in Int
  OBVIOUS
<1>8. pieces = PERTILE!VEC!Filled(one) \o PERTILE!VEC!Filled(two)
  <2>1. half = (PERTILE!VEC!ValidM(m, n, sub) + 2 - 1) \div 2
    OBVIOUS
  <2>2. PERTILE!VEC!Pieces(cast, m, n, sub)
          = PERTILE!VEC!Filled(P(0, PERTILE!VEC!OffsetM(m, n, sub), half,
                                 0, PERTILE!VEC!ValidN(m, n, sub, 0) + PERTILE!VEC!ValidN(m, n, sub, 1)))
              \o PERTILE!VEC!Filled(P(1, PERTILE!VEC!OffsetM(m, n, sub) + half,
                                      PERTILE!VEC!ValidM(m, n, sub) - half,
                                      0, PERTILE!VEC!ValidN(m, n, sub, 0) + PERTILE!VEC!ValidN(m, n, sub, 1)))
    BY <1>1, <2>1, CastPieces
  <2> QED BY <1>1, <2>2
<1>9. PERTILE!VEC!Filled(one) = <<one>>
  BY <1>2, <1>5, FilledPiece
<1>3. pieces = IF rest > 0 THEN <<one, two>> ELSE <<one>>
  <2>4. CASE rest > 0
    <3>1. PERTILE!VEC!Filled(two) = <<two>>
      <4> HIDE DEF mid, rest
      <4> QED BY <1>2, <1>5, <2>4, FilledPiece
    <3> HIDE DEF one, two, pieces, rest
    <3>2. <<one>> \o <<two>> = <<one, two>>
      BY Joined
    <3>3. pieces = <<one, two>>
      BY <1>8, <1>9, <3>1, <3>2
    <3> QED BY <2>4, <3>3
  <2>5. CASE ~(rest > 0)
    <3>1. PERTILE!VEC!Filled(two) = <<>>
      <4> HIDE DEF mid, rest
      <4> QED BY <1>2, <1>5, <2>5, FilledPiece
    <3> HIDE DEF one, two, pieces, rest
    <3>2. <<one>> \o <<>> = <<one>>
      OBVIOUS
    <3>3. pieces = <<one>>
      BY <1>8, <1>9, <3>1, <3>2
    <3> QED BY <2>5, <3>3
  <2> QED BY <2>4, <2>5
<1>4. PieceStrip(one, TRUE, m, n, from, half) /\ PieceStrip(two, TRUE, m, n, mid, rest)
  BY RowStrip
<1>6. CASE half < length
  <2>1. rest > 0 /\ ~(half = length)
    BY <1>6
  <2> HIDE DEF one, two, pieces
  <2>2. DOMAIN pieces = {1, 2} /\ pieces[1] = one /\ pieces[2] = two
    BY <1>3, <2>1
  <2> QED BY <1>4, <1>5, <1>6, <2>1, <2>2 DEF Halved, pieces
<1>7. CASE ~(half < length)
  <2>1. ~(rest > 0) /\ half = length
    BY <1>5, <1>7
  <2> HIDE DEF one, two, pieces, rest
  <2>2. DOMAIN pieces = {1} /\ pieces[1] = one
    BY <1>3, <2>1
  <2> QED BY <1>4, <1>5, <1>7, <2>1, <2>2 DEF Halved, pieces
<1> QED BY <1>6, <1>7

(* The pieces of a part that is shared out by lines share it out.          *)
LEMMA RowsTiled ==
  ASSUME NEW cast, NEW m, NEW n, ByLines(m, n)
  PROVE  Tiles(Numbered(cast, m, n), Placement(cast, m, n), 1, m, n)
<1> DEFINE h == (m + 1) \div 2  w == m - h  byRows == TRUE  total == m
           both == cast /\ n > 64
           u == IF both THEN (h + 2 - 1) \div 2 ELSE h
           v == IF both THEN (w + 2 - 1) \div 2 ELSE w
           z == 0
<1>0. m \in Nat \ {0} /\ m >= 2 /\ n \in Nat \ {0} /\ Core(0) /\ Core(1)
  BY DEF ByLines, Core
<1>2. /\ h \in Nat /\ w \in Nat /\ h > 0 /\ w > 0 /\ h <= total /\ w = total - h /\ z \in Int
      /\ h \in Int /\ w \in Int
  BY <1>0
<1>1. /\ PERTILE!VEC!OffsetM(m, n, 0) = z /\ PERTILE!VEC!ValidM(m, n, 0) = h
      /\ PERTILE!VEC!OffsetM(m, n, 1) = h /\ PERTILE!VEC!ValidM(m, n, 1) = w
  <2>1. ASSUME NEW sub, Core(sub)
        PROVE  /\ PERTILE!VEC!ValidM(m, n, sub) = IF sub = 0 THEN h ELSE w
               /\ PERTILE!VEC!OffsetM(m, n, sub) = sub * h
    BY <2>1, RowShares
  <2> HIDE DEF h, w
  <2> QED BY <1>0, <1>2, <2>1
<1> HIDE DEF h, w, z
<1>3. u \in Nat /\ v \in Nat /\ 1 <= u /\ u <= h /\ 1 <= v /\ v <= w /\ u \in Int /\ v \in Int
  BY <1>2
<1>4. Halved(cast, m, n, TRUE, 0, z, h, u) /\ Halved(cast, m, n, TRUE, 1, h, w, v)
  <2>1. CASE both
    <3>1. u = (h + 2 - 1) \div 2 /\ v = (w + 2 - 1) \div 2
      BY <2>1
    <3>4. n > 64 /\ cast
      BY <2>1
    <3> HIDE DEF u, v, both
    <3>2. Halved(cast, m, n, TRUE, 0, z, h, u)
      BY <1>0, <1>1, <1>2, <1>3, <3>1, <3>4, RowsInHalves
    <3>3. Halved(cast, m, n, TRUE, 1, h, w, v)
      BY <1>0, <1>1, <1>2, <1>3, <3>1, <3>4, RowsInHalves
    <3> QED BY <3>2, <3>3
  <2>2. CASE ~both
    <3>1. u = h /\ v = w
      BY <2>2
    <3>4. n <= 64 \/ ~cast
      BY <1>0, <2>2
    <3> HIDE DEF u, v, both
    <3>2. Halved(cast, m, n, TRUE, 0, z, h, h)
      BY <1>0, <1>1, <1>2, <3>4, RowsAtOnce
    <3>3. Halved(cast, m, n, TRUE, 1, h, w, w)
      BY <1>0, <1>1, <1>2, <3>4, RowsAtOnce
    <3> QED BY <3>1, <3>2, <3>3
  <2> QED BY <2>1, <2>2
<1>5. Halved(cast, m, n, byRows, 0, 0, h, u) /\ Halved(cast, m, n, byRows, 1, h, w, v)
  BY <1>4 DEF z
<1> HIDE DEF u, v
<1>6. /\ byRows \in BOOLEAN /\ total = (IF byRows THEN m ELSE n)
      /\ h \in 1 .. total /\ (w = 0 \/ 1 <= v)
  BY <1>0, <1>2, <1>3
<1> HIDE DEF byRows, total
<1> QED BY <1>0, <1>2, <1>3, <1>5, <1>6, HalvesTile

(* The pieces of every part share it out.                                  *)
LEMMA PartTiled ==
  ASSUME NEW cast \in BOOLEAN, NEW m, NEW n, Measures(m, n)
  PROVE  Tiles(Numbered(cast, m, n), Placement(cast, m, n), 1, m, n)
<1>1. CASE n = 256
  <2>1. m \in 1 .. 128
    BY <1>1 DEF Measures
  <2> QED BY <1>1, <2>1, WideTiled, Zenon
<1>2. CASE n # 256 /\ m = 1
  <2>1. n \in 1 .. 128
    BY <1>2 DEF Measures
  <2> QED BY <1>2, <2>1, LineTiled
<1>3. CASE n # 256 /\ m # 1
  <2>1. ByLines(m, n)
    BY <1>3 DEF Measures, ByLines
  <2> QED BY <2>1, RowsTiled
<1> QED BY <1>1, <1>2, <1>3

(* The vector cores share the lines and columns of every part out.         *)
LEMMA CoresShare ==
  ASSUME NEW m, NEW n, Measures(m, n)
  PROVE  PERTILE!VectorCoresShare(m, n)
<1> SUFFICES ASSUME NEW cast \in BOOLEAN
             PROVE  LET pieces == UNION {{<<sub, i>> : i \in DOMAIN PERTILE!VEC!Pieces(cast, m, n, sub)} : sub \in {0, 1}}
                        piece(x) == <<0>> \o PERTILE!VEC!Pieces(cast, m, n, x[1])[x[2]].at
                    IN  PERTILE!ShareOut(pieces, piece, 1, m, n)
  BY DEF PERTILE!VectorCoresShare
<1> DEFINE S == Numbered(cast, m, n)  f == Placement(cast, m, n)
           piece(x) == <<0>> \o PERTILE!VEC!Pieces(cast, m, n, x[1])[x[2]].at
<1>1. ASSUME NEW x \in S PROVE f[x] = piece(x)
  BY DEF Placement
<1>2. Tiles(S, f, 1, m, n)
  BY PartTiled
<1>3. m \in Nat \ {0} /\ n \in Nat \ {0}
  BY DEF Measures
<1> HIDE DEF S, f, piece
<1>4. /\ \A x, y \in S : x # y => Separate(f[x], f[y])
      /\ SumOver(S, [x \in S |-> f[x][3] * f[x][5]]) = 1 * m * n
  BY <1>2, <1>3, AreasAddUp
<1>5. PERTILE!MapThenSumSet(LAMBDA t : piece(t)[3] * piece(t)[5], S) = 1 * m * n
  <2>1. [t \in S |-> piece(t)[3] * piece(t)[5]] = [t \in S |-> f[t][3] * f[t][5]]
    BY <1>1
  <2>2. PERTILE!MapThenSumSet(LAMBDA t : piece(t)[3] * piece(t)[5], S)
          = SumOver(S, [t \in S |-> piece(t)[3] * piece(t)[5]])
    BY DEF PERTILE!MapThenSumSet, PERTILE!MapThenFoldSet, SumOver, IsSum
  <2> QED BY <1>4, <2>1, <2>2
<1>6. PERTILE!ShareOut(S, piece, 1, m, n)
  <2>1. ASSUME NEW t \in S PROVE f[t] = piece(t) /\ Inside(piece(t), 1, m, n)
    BY <1>1, <1>2 DEF Tiles
  <2>2. \A x, y \in S : x # y =>
           \/ piece(x)[1] # piece(y)[1]
           \/ piece(x)[2] + piece(x)[3] <= piece(y)[2] \/ piece(y)[2] + piece(y)[3] <= piece(x)[2]
           \/ piece(x)[4] + piece(x)[5] <= piece(y)[4] \/ piece(y)[4] + piece(y)[5] <= piece(x)[4]
    BY <1>4, <2>1 DEF Separate
  <2>3. \A x \in S :
           /\ piece(x)[1] \in 0 .. 1 - 1 /\ piece(x)[3] > 0 /\ piece(x)[5] > 0
           /\ piece(x)[2] >= 0 /\ piece(x)[2] + piece(x)[3] <= m
           /\ piece(x)[4] >= 0 /\ piece(x)[4] + piece(x)[5] <= n
    BY <2>1 DEF Inside
  <2> QED BY <1>5, <2>2, <2>3, Zenon DEF PERTILE!ShareOut
<1> QED BY <1>6, Zenon DEF S, piece, Numbered

-------------------------------------------------------------------------------
(* The turns of the blocks of a per-tile matmul.                           *)

(* Numbers S, S + 1, ... of T tiles that blocks of a round of N take in    *)
(* turn, up to block E of round K.                                         *)
Ending(N, T, S, E, K) ==
  /\ N \in Nat \ {0} /\ T \in Nat \ {0} /\ S \in 0 .. N - 1 /\ E \in 0 .. N - 1 /\ K \in Nat
  /\ S + T - 1 = (N * K) + E
First(S, c) == IF c < S THEN 1 ELSE 0
Last(E, K, c) == IF c <= E THEN K ELSE K - 1

(* The last of the tiles is taken by the block and in the round that its   *)
(* number says.                                                            *)
LEMMA EndingOf ==
  ASSUME NEW N \in Nat \ {0}, NEW T \in Nat \ {0}, NEW S \in 0 .. N - 1
  PROVE  Ending(N, T, S, (T + S - 1) % N, (T + S - 1) \div N)
<1> DEFINE x == T + S - 1
<1>1. x \in Nat
  OBVIOUS
<1> HIDE DEF x
<1>2. x \div N \in Nat /\ (x % N) \in 0 .. N - 1 /\ x = (N * (x \div N)) + (x % N)
  BY <1>1
<1> QED BY <1>2 DEF Ending, x

(* How many turns a block has.                                             *)
LEMMA TurnsCounted ==
  ASSUME NEW N, NEW T, NEW S, NEW E, NEW K, Ending(N, T, S, E, K), NEW c \in 0 .. N - 1
  PROVE  PERTILE!CeilDiv(T, N)
           - (IF (IF S > E THEN E < c /\ c < S ELSE c > E \/ c < S) THEN 1 ELSE 0)
           = 1 + Last(E, K, c) - First(S, c)
<1>1. /\ N \in Nat \ {0} /\ T \in Nat \ {0} /\ S \in 0 .. N - 1 /\ E \in 0 .. N - 1 /\ K \in Nat
      /\ S + T - 1 = (N * K) + E
  BY DEF Ending
<1> DEFINE q == PERTILE!CeilDiv(T, N)  rest == E - S + 1
<1>2. q = (T + N - 1) \div N
  BY DEF PERTILE!CeilDiv
<1>3. N * K \in Nat /\ T = (N * K) + rest /\ rest \in Int
  BY <1>1
<1>4. CASE S <= E
  <2>1. rest + N - 1 = N + (rest - 1) /\ rest - 1 \in 0 .. N - 1
    BY <1>1, <1>4
  <2>2. T + N - 1 = (N * (K + 1)) + (rest - 1)
    <3>1. N * (K + 1) = (N * K) + N
      BY <1>1
    <3> QED BY <1>1, <1>3, <3>1
  <2> HIDE DEF rest, q
  <2>3. q = K + 1
    <3> DEFINE y == rest - 1  z == K + 1  x == T + N - 1
    <3>1. y \in 0 .. N - 1 /\ z \in Nat /\ x = (N * z) + y /\ q = x \div N
      BY <1>1, <1>2, <2>1, <2>2
    <3> HIDE DEF x, y, z
    <3>2. q = z
      BY <1>1, <3>1
    <3> QED BY <3>2 DEF z
  <2> QED BY <1>1, <1>4, <2>3 DEF First, Last, q
<1>5. CASE S > E
  <2>1. rest + N - 1 \in 0 .. N - 1
    BY <1>1, <1>5
  <2>2. T + N - 1 = (N * K) + (rest + N - 1)
    BY <1>1, <1>3
  <2> HIDE DEF rest, q
  <2>3. q = K
    <3> DEFINE y == rest + N - 1  x == T + N - 1
    <3>1. y \in 0 .. N - 1 /\ x = (N * K) + y /\ q = x \div N
      BY <1>1, <1>2, <2>1, <2>2
    <3> HIDE DEF x, y
    <3> QED BY <1>1, <3>1
  <2> QED BY <1>1, <1>5, <2>3 DEF First, Last, q
<1> QED BY <1>1, <1>4, <1>5

(* Every number is the turn of one block.                                  *)
LEMMA TurnOf ==
  ASSUME NEW N, NEW T, NEW S, NEW E, NEW K, Ending(N, T, S, E, K), NEW t \in 0 .. T - 1
  PROVE  \E c \in 0 .. N - 1, j \in Nat :
           S + t = (N * j) + c /\ First(S, c) <= j /\ j <= Last(E, K, c)
<1>1. /\ N \in Nat \ {0} /\ T \in Nat \ {0} /\ S \in 0 .. N - 1 /\ E \in 0 .. N - 1 /\ K \in Nat
      /\ S + T - 1 = (N * K) + E
  BY DEF Ending
<1> DEFINE x == S + t  j == x \div N  c == x % N
<1>2. x \in Nat /\ x >= S /\ x <= (N * K) + E
  BY <1>1
<1> HIDE DEF x
<1>3. j \in Nat /\ c \in 0 .. N - 1 /\ x = (N * j) + c
  BY <1>1, <1>2
<1> HIDE DEF j, c
<1>4. First(S, c) <= j
  <2>1. j = 0 => c >= S
    <3>1. j = 0 => N * j = 0
      BY <1>1
    <3> QED BY <1>1, <1>2, <1>3, <3>1
  <2> QED BY <1>1, <1>3, <2>1 DEF First
<1>5. j <= Last(E, K, c)
  <2>1. SUFFICES ASSUME j > Last(E, K, c) PROVE FALSE
    BY <1>1, <1>3 DEF Last
  <2>2. CASE c <= E
    <3>1. j >= K + 1
      BY <1>1, <1>3, <2>1, <2>2 DEF Last
    <3>2. N * j >= N * (K + 1) /\ N * (K + 1) = (N * K) + N /\ N * K \in Nat /\ N * j \in Nat
      BY <1>1, <1>3, <3>1
    <3> QED BY <1>1, <1>2, <1>3, <3>2
  <2>3. CASE c > E
    <3>1. j >= K
      BY <1>1, <1>3, <2>1, <2>3 DEF Last
    <3>2. N * j >= N * K /\ N * K \in Nat /\ N * j \in Nat
      BY <1>1, <1>3, <3>1
    <3> QED BY <1>1, <1>2, <1>3, <2>3, <3>2
  <2> QED BY <1>1, <1>3, <2>2, <2>3
<1> QED BY <1>3, <1>4, <1>5 DEF x

(* A turn of a block is a number, and of no other.                         *)
LEMMA TurnInside ==
  ASSUME NEW N, NEW T, NEW S, NEW E, NEW K, Ending(N, T, S, E, K),
         NEW c \in 0 .. N - 1, NEW j \in Nat, First(S, c) <= j, j <= Last(E, K, c)
  PROVE  (N * j) + c - S \in 0 .. T - 1
<1>1. /\ N \in Nat \ {0} /\ T \in Nat \ {0} /\ S \in 0 .. N - 1 /\ E \in 0 .. N - 1 /\ K \in Nat
      /\ S + T - 1 = (N * K) + E
  BY DEF Ending
<1>2. N * j \in Nat /\ N * K \in Nat
  BY <1>1
<1>3. (N * j) + c >= S
  <2>1. CASE j = 0
    BY <1>1, <1>2, <2>1 DEF First
  <2>2. CASE j # 0
    <3>1. N * j >= N * 1 /\ N * 1 = N
      BY <1>1, <2>2
    <3> QED BY <1>1, <1>2, <3>1
  <2> QED BY <2>1, <2>2
<1>4. (N * j) + c <= (N * K) + E
  <2>1. CASE c <= E
    <3>1. j <= K
      BY <2>1 DEF Last
    <3>2. N * j <= N * K
      BY <1>1, <3>1
    <3> QED BY <1>1, <1>2, <2>1, <3>2
  <2>2. CASE c > E
    <3>1. j + 1 <= K
      BY <1>1, <2>2 DEF Last
    <3>2. N * (j + 1) <= N * K /\ N * (j + 1) = (N * j) + N
      BY <1>1, <3>1
    <3> QED BY <1>1, <1>2, <3>2
  <2> QED BY <1>1, <2>1, <2>2
<1> QED BY <1>1, <1>2, <1>3, <1>4

(* A number is that of one block of one round.                             *)
LEMMA OneTurn ==
  ASSUME NEW N \in Nat \ {0}, NEW c \in 0 .. N - 1, NEW j \in Int, NEW e \in 0 .. N - 1, NEW k \in Int,
         (N * j) + c = (N * k) + e
  PROVE  c = e /\ j = k
<1>1. ASSUME NEW a \in 0 .. N - 1, NEW u \in Int, NEW b \in 0 .. N - 1, NEW v \in Int, (N * u) + a = (N * v) + b
      PROVE  ~(u < v)
  <2>1. SUFFICES ASSUME u < v PROVE FALSE
    OBVIOUS
  <2>2. N * (u + 1) <= N * v /\ N * (u + 1) = (N * u) + N /\ N * u \in Int /\ N * v \in Int
    BY <2>1
  <2> QED BY <1>1, <2>2
<1>2. ~(j < k)
  BY <1>1
<1>3. ~(k < j)
  BY <1>1
<1>4. j = k
  BY <1>2, <1>3
<1>5. N * j = N * k /\ N * j \in Int
  BY <1>4
<1> QED BY <1>4, <1>5

(* How long the cuts of a length are, but for the last ones.               *)
CutPart(length, count, aligned) ==
  IF aligned THEN PERTILE!Align(PERTILE!CeilDiv(length, count), 128) ELSE PERTILE!CeilDiv(length, count)

(* Where o lies within number q of the cuts of a length.                   *)
InCut(o, length, count, q, aligned) ==
  LET cut == PERTILE!Cut(length, count, q, aligned)
  IN  cut.offset <= o /\ o < cut.offset + cut.length

(* A cut lies within the length.                                           *)
LEMMA CutLies ==
  ASSUME NEW L \in Nat \ {0}, NEW c \in Nat \ {0}, NEW aligned \in BOOLEAN, NEW q \in Nat
  PROVE  LET cut == PERTILE!Cut(L, c, q, aligned)
             part == CutPart(L, c, aligned)
         IN  /\ cut.offset \in Nat /\ cut.length \in Nat
             /\ cut.length # 0 => cut.offset + cut.length <= L
             /\ part \in Nat \ {0} /\ L <= part * c
             /\ cut.offset = q * part
             /\ cut.length = IF q * part >= L THEN 0 ELSE IF part < L - (q * part) THEN part ELSE L - (q * part)
<1> DEFINE short == SPLITK!CeilDiv(L, c)  up == SPLITK!CeilDiv(short, 128) * 128
           part == IF aligned THEN up ELSE short  cut == PERTILE!Cut(L, c, q, aligned)
<1>1. short \in Nat \ {0} /\ L <= short * c
  BY RoundedUp
<1>2. PERTILE!CeilDiv(L, c) = short /\ PERTILE!Align(PERTILE!CeilDiv(L, c), 128) = up
  BY DEF PERTILE!Align, PERTILE!CeilDiv, SPLITK!CeilDiv
<1>3. cut = [offset |-> q * part,
             length |-> IF q * part >= L THEN 0 ELSE IF part < L - (q * part) THEN part ELSE L - (q * part)]
  BY <1>2 DEF PERTILE!Cut, PERTILE!Least, PERTILE!INNER_AXIS_MIN_SPLIT_VAL
<1>4. up \in Nat \ {0} /\ short <= up
  <2> HIDE DEF short
  <2> DEFINE z == 128
  <2>1. z \in Nat \ {0} /\ up = SPLITK!CeilDiv(short, z) * z
    OBVIOUS
  <2> HIDE DEF z, up
  <2>2. SPLITK!CeilDiv(short, z) \in Nat \ {0} /\ short <= SPLITK!CeilDiv(short, z) * z
    BY <1>1, <2>1, RoundedUp
  <2> QED BY <1>1, <2>1, <2>2
<1> HIDE DEF short, up
<1>5. part \in Nat \ {0} /\ short <= part
  BY <1>1, <1>4
<1> HIDE DEF part
<1>6. L <= part * c
  <2>1. short * c <= part * c /\ short * c \in Nat /\ part * c \in Nat
    BY <1>1, <1>5
  <2> QED BY <1>1, <2>1
<1>7. q * part \in Nat
  BY <1>5
<1> HIDE DEF cut
<1>8. /\ cut.offset = q * part
      /\ cut.length = IF q * part >= L THEN 0 ELSE IF part < L - (q * part) THEN part ELSE L - (q * part)
  BY <1>3
<1>9. /\ cut.offset \in Nat /\ cut.length \in Nat
      /\ cut.length # 0 => cut.offset + cut.length <= L
  BY <1>5, <1>7, <1>8
<1>10. part = CutPart(L, c, aligned)
  BY <1>2 DEF part, CutPart
<1> QED BY <1>5, <1>6, <1>8, <1>9, <1>10 DEF cut

(* Every place of a length lies in a cut.                                  *)
LEMMA CutOf ==
  ASSUME NEW L \in Nat \ {0}, NEW c \in Nat \ {0}, NEW aligned \in BOOLEAN, NEW o \in 0 .. L - 1
  PROVE  \E q \in 0 .. c - 1 : InCut(o, L, c, q, aligned)
<1> DEFINE part == CutPart(L, c, aligned)
           q == o \div part
<1>1. part \in Nat \ {0} /\ L <= part * c
  <2>1. 0 \in Nat
    OBVIOUS
  <2> QED BY <2>1, CutLies
<1> HIDE DEF part
<1>2. q \in Nat /\ q * part <= o /\ o < (q * part) + part /\ q * part \in Nat
  BY <1>1
<1> HIDE DEF q
<1>3. q < c
  <2>1. SUFFICES ASSUME c <= q PROVE FALSE
    BY <1>2
  <2>2. part * c <= part * q /\ part * q = q * part /\ part * c \in Nat
    BY <1>1, <1>2, <2>1
  <2> QED BY <1>1, <1>2, <2>2
<1>4. /\ PERTILE!Cut(L, c, q, aligned).offset = q * part
      /\ PERTILE!Cut(L, c, q, aligned).length =
           IF q * part >= L THEN 0 ELSE IF part < L - (q * part) THEN part ELSE L - (q * part)
  BY <1>2, CutLies DEF part
<1>5. InCut(o, L, c, q, aligned)
  BY <1>1, <1>2, <1>4 DEF InCut
<1> QED BY <1>2, <1>3, <1>5

(* No place lies in two.                                                   *)
LEMMA OneCut ==
  ASSUME NEW L \in Nat \ {0}, NEW c \in Nat \ {0}, NEW aligned \in BOOLEAN, NEW o \in Int,
         NEW q \in Nat, NEW k \in Nat, InCut(o, L, c, q, aligned), InCut(o, L, c, k, aligned)
  PROVE  q = k
<1> DEFINE part == CutPart(L, c, aligned)
<1>1. part \in Nat \ {0}
  BY CutLies
<1>2. ASSUME NEW a \in Nat, InCut(o, L, c, a, aligned)
      PROVE  a * part \in Nat /\ a * part <= o /\ o < (a * part) + part
  <2>1. /\ PERTILE!Cut(L, c, a, aligned).offset = a * part
        /\ PERTILE!Cut(L, c, a, aligned).length =
             IF a * part >= L THEN 0 ELSE IF part < L - (a * part) THEN part ELSE L - (a * part)
    BY CutLies
  <2> HIDE DEF part
  <2>2. a * part \in Nat
    BY <1>1
  <2> QED BY <1>1, <1>2, <2>1, <2>2 DEF InCut
<1> HIDE DEF part
<1>3. ASSUME NEW a \in Nat, NEW b \in Nat, a < b, b * part <= o, o < (a * part) + part PROVE FALSE
  <2>1. (a + 1) * part <= b * part /\ (a + 1) * part = (a * part) + part /\ a * part \in Nat /\ b * part \in Nat
    BY <1>1, <1>3
  <2> QED BY <1>1, <2>1, <1>3
<1>4. /\ q * part <= o /\ o < (q * part) + part
      /\ k * part <= o /\ o < (k * part) + part
  BY <1>2
<1>5. ~(q < k) /\ ~(k < q)
  BY <1>3, <1>4
<1> QED BY <1>5

(* The serpentine walk over the tiles of a window.                         *)
LEMMA SameWalk ==
  ASSUME NEW w, w.m \in Nat \ {0}, w.n \in Nat \ {0}
  PROVE  \E s \in SKP!ShapeRecords :
           /\ s.m = w.m /\ s.n = w.n /\ SKP!Positions(s) = (0 .. w.m - 1) \X (0 .. w.n - 1)
           /\ \A j \in Int : PERTILE!Position(w, j) = SKP!Position(s, j)
<1> DEFINE s == [cores |-> 1, m |-> w.m, n |-> w.n, sk |-> 0]
<1>1. s \in SKP!ShapeRecords /\ s.m = w.m /\ s.n = w.n
  BY DEF SKP!ShapeRecords
<1> HIDE DEF s
<1>2. SKP!Positions(s) = (0 .. w.m - 1) \X (0 .. w.n - 1)
  BY <1>1 DEF SKP!Positions
<1>3. ASSUME NEW j \in Int PROVE PERTILE!Position(w, j) = SKP!Position(s, j)
  BY <1>1 DEF PERTILE!Position, SKP!Position, PERTILE!Least, SKP!Least, PERTILE!WINDOW_LEN, SKP!WINDOW_LEN
<1> QED BY <1>1, <1>2, <1>3

(* It visits every tile once.                                              *)
LEMMA WalkVisits ==
  ASSUME NEW w, w.m \in Nat \ {0}, w.n \in Nat \ {0}
  PROVE  /\ \A j \in 0 .. (w.m * w.n) - 1 : PERTILE!Position(w, j) \in (0 .. w.m - 1) \X (0 .. w.n - 1)
         /\ \A u \in 0 .. w.m - 1, v \in 0 .. w.n - 1 :
              \E j \in 0 .. (w.m * w.n) - 1 : PERTILE!Position(w, j) = <<u, v>>
         /\ \A i, j \in 0 .. (w.m * w.n) - 1 : PERTILE!Position(w, i) = PERTILE!Position(w, j) => i = j
<1>1. PICK s \in SKP!ShapeRecords :
        /\ s.m = w.m /\ s.n = w.n /\ SKP!Positions(s) = (0 .. w.m - 1) \X (0 .. w.n - 1)
        /\ \A j \in Int : PERTILE!Position(w, j) = SKP!Position(s, j)
  BY SameWalk
<1> DEFINE T == (w.m * w.n) - 1
<1>2. T = (s.m * s.n) - 1 /\ T \in Int
  BY <1>1
<1> HIDE DEF T
<1>3. \A j \in 0 .. T : PERTILE!Position(w, j) \in (0 .. w.m - 1) \X (0 .. w.n - 1)
  BY <1>1, <1>2, SizesAssumption, SKP!WalkInside
<1>4. ASSUME NEW u \in 0 .. w.m - 1, NEW v \in 0 .. w.n - 1
      PROVE  \E j \in 0 .. T : PERTILE!Position(w, j) = <<u, v>>
  <2>1. <<u, v>> \in SKP!Positions(s)
    BY <1>1
  <2>2. PICK j \in 0 .. (s.m * s.n) - 1 : SKP!Position(s, j) = <<u, v>>
    BY <2>1, SizesAssumption, SKP!WalkOnto
  <2> QED BY <1>1, <1>2, <2>2
<1>5. ASSUME NEW i \in 0 .. T, NEW j \in 0 .. T, PERTILE!Position(w, i) = PERTILE!Position(w, j) PROVE i = j
  <2>1. SKP!Position(s, i) = SKP!Position(s, j)
    BY <1>1, <1>2, <1>5
  <2> QED BY <1>2, <2>1, SizesAssumption, SKP!WalkInjective
<1> QED BY <1>3, <1>4, <1>5 DEF T

(* What the turns of the blocks rest on: the host leaves a tail unsplit,   *)
(* or has more tiles than blocks, or a block for every part of every tile. *)
TailsOf(d) == d.tails.m * d.tails.n
IsTiling(d) ==
  /\ d.batch \in Nat /\ d.blockNum \in Nat \ {0} /\ PERTILE!Total(d.w) \in Nat \ {0}
  /\ d.tails.m \in Nat \ {0} /\ d.tails.n \in Nat \ {0}
  /\ TailsOf(d) = 1 \/ PERTILE!Total(d.w) > d.blockNum \/ d.blockNum = PERTILE!Total(d.w) * TailsOf(d)

(* What the host comes with allows the turns.                              *)
LEMMA HostTiling ==
  ASSUME NEW p \in PertileProblems
  PROVE  IsTiling(PERTILE!Tiling(p))
<1> DEFINE d == PERTILE!Tiling(p)  w == PERTILE!Window(p, PERTILE!Base(p))  T == PERTILE!Total(w)
           tail == PERTILE!TailWin(p, w)  tails == PERTILE!Tails(p, w)
<1>1. /\ d.batch \in Nat /\ d.w = w /\ d.blockNum \in Nat \ {0}
      /\ d.tails.m \in Nat \ {0} /\ d.tails.n \in Nat \ {0}
  BY TilingFacts
<1>2. d.tails = tails /\ d.blockNum = PERTILE!BlockNum(p, w, tails)
  BY DEF PERTILE!Tiling, PERTILE!TilingOf, PERTILE!TilingData
<1>3. w.m \in Nat \ {0} /\ w.n \in Nat \ {0}
  BY BlockFacts
<1>4. p.cores \in Nat \ {0}
  BY SizesAssumption DEF PertileProblems
<1>5. tail = 0 => tails = [m |-> 1, n |-> 1]
  BY DEF PERTILE!Tails, PERTILE!TailsBy
<1>6. tail = T % p.cores
  BY DEF PERTILE!TailWin
<1>7. PERTILE!BlockNum(p, w, tails)
        = IF T > p.cores \/ tail = 0 THEN p.cores ELSE tail * tails.m * tails.n
  BY DEF PERTILE!BlockNum
<1>8. T \in Nat \ {0}
  BY <1>3 DEF PERTILE!Total
<1> HIDE DEF d, w, T, tail, tails
<1>9. CASE tail = 0
  <2>1. d.tails.m = 1 /\ d.tails.n = 1
    BY <1>2, <1>5, <1>9
  <2>2. TailsOf(d) = 1
    BY <2>1 DEF TailsOf
  <2> QED BY <1>1, <1>8, <2>2 DEF IsTiling, T, d
<1>10. CASE T > p.cores
  <2>1. d.blockNum = p.cores
    BY <1>2, <1>7, <1>10
  <2> QED BY <1>1, <1>8, <1>10, <2>1 DEF IsTiling, T, d
<1>11. CASE tail # 0 /\ ~(T > p.cores)
  <2>1. T # p.cores
    <3>1. T = p.cores => tail = 0
      BY <1>4, <1>6, <1>8
    <3> QED BY <1>11, <3>1
  <2>2. T < p.cores
    BY <1>4, <1>8, <1>11, <2>1
  <2>3. tail = T
    BY <1>4, <1>6, <1>8, <2>2
  <2>4. d.blockNum = T * tails.m * tails.n
    BY <1>2, <1>7, <1>11, <2>3
  <2>5. T * tails.m * tails.n = T * (tails.m * tails.n)
    BY <1>1, <1>2, <1>8
  <2>6. d.blockNum = T * TailsOf(d)
    BY <1>2, <2>4, <2>5 DEF TailsOf
  <2> QED BY <1>1, <1>8, <2>6 DEF IsTiling, T, d
<1> QED BY <1>9, <1>10, <1>11

(* Where batch b starts and ends, and whether its last tiles are split.    *)
StartOf(d, b) == PERTILE!Bounds(d, b, PERTILE!Ends(d)).start
EndOf(d, b) == PERTILE!Bounds(d, b, PERTILE!Ends(d)).end
LastRound(d, b) == (PERTILE!Total(d.w) + StartOf(d, b) - 1) \div d.blockNum
CutsTail(d, b) == b = d.batch /\ (EndOf(d, b) + 1) * TailsOf(d) <= d.blockNum /\ TailsOf(d) # 1
CutsTailFor(d, b, c) == CutsTail(d, b) /\ c < TailsOf(d) * (EndOf(d, b) + 1)

(* A batch starts and ends with the blocks that Bounds says.               *)
LEMMA BatchEnds ==
  ASSUME NEW d, IsTiling(d), NEW b \in 1 .. d.batch
  PROVE  Ending(d.blockNum, PERTILE!Total(d.w), StartOf(d, b), EndOf(d, b), LastRound(d, b))
<1> DEFINE ends == PERTILE!Ends(d)  N == d.blockNum  T == PERTILE!Total(d.w)
<1>1. d.batch \in Nat /\ N \in Nat \ {0} /\ T \in Nat \ {0}
  BY DEF IsTiling
<1>2. b \in 0 .. d.batch /\ b - 1 \in 0 .. d.batch /\ b # 0
  BY <1>1
<1>3. ends[b - 1] \in 0 .. N - 1 /\ ends[b] = EndStep(ends, b, d)
  <2>1. IsEnds(ends, d) /\ ends[b - 1] \in 0 .. N - 1
    BY <1>1, <1>2, EndsExist, EndsAreBlocks
  <2> HIDE DEF ends
  <2> QED BY <1>2, <2>1 DEF IsEnds, EndStep
<1>4. StartOf(d, b) = (ends[b - 1] + 1) % N /\ EndOf(d, b) = ends[b]
  BY DEF StartOf, EndOf, PERTILE!Bounds
<1> HIDE DEF ends
<1>5. ends[b] = (T + ((ends[b - 1] + 1) % N) - 1) % N
  BY <1>2, <1>3 DEF EndStep
<1> HIDE DEF N, T
<1> DEFINE S == StartOf(d, b)
<1>6. S \in 0 .. N - 1
  BY <1>1, <1>3, <1>4
<1>7. EndOf(d, b) = (T + S - 1) % N /\ LastRound(d, b) = (T + S - 1) \div N
  BY <1>4, <1>5 DEF LastRound, N, T
<1> HIDE DEF S
<1>8. Ending(N, T, S, (T + S - 1) % N, (T + S - 1) \div N)
  BY <1>1, <1>6, EndingOf
<1> QED BY <1>7, <1>8 DEF S, N, T

(* A batch whose last tiles are split has a whole round before them, or    *)
(* starts with block 0.                                                    *)
LEMMA RoomForTail ==
  ASSUME NEW d, IsTiling(d), NEW b \in 1 .. d.batch, CutsTail(d, b)
  PROVE  StartOf(d, b) = 0 \/ LastRound(d, b) >= 1
<1> DEFINE N == d.blockNum  T == PERTILE!Total(d.w)  S == StartOf(d, b)  E == EndOf(d, b)
           K == LastRound(d, b)  k == TailsOf(d)
<1>1. Ending(N, T, S, E, K)
  BY BatchEnds
<1>2. (E + 1) * k <= N /\ k # 1 /\ (k = 1 \/ T > N \/ N = T * k)
  BY DEF CutsTail, IsTiling
<1>3. k \in Nat \ {0}
  BY DEF IsTiling, TailsOf
<1> HIDE DEF N, T, S, E, K, k
<1>4. /\ N \in Nat \ {0} /\ T \in Nat \ {0} /\ S \in 0 .. N - 1 /\ E \in 0 .. N - 1 /\ K \in Nat
      /\ S + T - 1 = (N * K) + E
  BY <1>1 DEF Ending
<1>5. SUFFICES ASSUME K = 0, S > 0 PROVE FALSE
  BY <1>4 DEF S, K
<1>6. E = S + T - 1
  <2>1. N * K = 0
    BY <1>4, <1>5
  <2> QED BY <1>4, <2>1
<1>7. N = T * k
  BY <1>2, <1>4, <1>5, <1>6
<1>8. (S + T) * k = (S * k) + (T * k) /\ S * k >= 1 /\ T * k \in Nat
  <2>1. (S + T) * k = (S * k) + (T * k) /\ T * k \in Nat
    BY <1>3, <1>4
  <2>2. S * k >= 1 * 1
    BY <1>3, <1>4, <1>5
  <2> QED BY <2>1, <2>2
<1>9. (E + 1) * k = (S + T) * k
  BY <1>4, <1>6
<1> QED BY <1>2, <1>3, <1>4, <1>7, <1>8, <1>9

(* The scheduler of a block, by its first and its last turn.               *)
LEMMA TurnsOfBlock ==
  ASSUME NEW d, IsTiling(d), NEW b \in 1 .. d.batch, NEW c \in 0 .. d.blockNum - 1
  PROVE  LET s == PERTILE!Scheduler(d, b, c)
             S == StartOf(d, b)  E == EndOf(d, b)  K == LastRound(d, b)
         IN  /\ s.start = S
             /\ CutsTailFor(d, b, c) => /\ s.tail = TailsOf(d) /\ s.mTail = d.tails.m /\ s.nTail = d.tails.n
                                       /\ s.rounds = 1 + K - First(S, c)
             /\ ~CutsTailFor(d, b, c) => s.tail = 1 /\ s.rounds = 1 + Last(E, K, c) - First(S, c)
<1> DEFINE N == d.blockNum  T == PERTILE!Total(d.w)  S == StartOf(d, b)  E == EndOf(d, b)
           K == LastRound(d, b)  k == TailsOf(d)  bounds == PERTILE!Bounds(d, b, PERTILE!Ends(d))
           s == PERTILE!Scheduler(d, b, c)
           inTail == b = d.batch /\ (E + 1) * k <= N /\ c <= k * (E + 1) - 1
<1>1. Ending(N, T, S, E, K)
  BY BatchEnds
<1>2. bounds.start = S /\ bounds.end = E
  BY DEF StartOf, EndOf
<1>3. s = [start |-> S, tail |-> IF inTail THEN k ELSE 1,
           mTail |-> IF inTail THEN d.tails.m ELSE 1, nTail |-> IF inTail THEN d.tails.n ELSE 1,
           rounds |-> PERTILE!Rounds(d, bounds, c) + (IF inTail /\ c > E THEN 1 ELSE 0)]
  BY <1>2 DEF PERTILE!Scheduler, PERTILE!SchedulerIn, TailsOf
<1>4. PERTILE!Rounds(d, bounds, c)
        = PERTILE!CeilDiv(T, N) - (IF (IF S > E THEN E < c /\ c < S ELSE c > E \/ c < S) THEN 1 ELSE 0)
  BY <1>2 DEF PERTILE!Rounds
<1>5. k \in Nat \ {0} /\ N \in Nat \ {0} /\ E \in Nat /\ S \in Nat /\ K \in Nat /\ c \in Nat
  <2>1. k \in Nat \ {0}
    <3>1. d.tails.m \in Nat \ {0} /\ d.tails.n \in Nat \ {0}
      BY DEF IsTiling
    <3> QED BY <3>1 DEF TailsOf
  <2> HIDE DEF k, E, S, K, T
  <2>2. N \in Nat \ {0} /\ E \in Nat /\ S \in Nat /\ K \in Nat
    <3> HIDE DEF N
    <3> QED BY <1>1 DEF Ending
  <2> QED BY <2>1, <2>2
<1>6. CutsTailFor(d, b, c) <=> inTail /\ k # 1
  <2>1. k * (E + 1) \in Nat
    BY <1>5
  <2>2. c < k * (E + 1) <=> c <= k * (E + 1) - 1
    BY <1>5, <2>1
  <2> HIDE DEF k, N, E
  <2> QED BY <2>2 DEF CutsTailFor, CutsTail, k, N, E
<1> HIDE DEF N, T, S, E, K, k, bounds, s, inTail
<1> DEFINE whole == PERTILE!CeilDiv(T, N) - (IF (IF S > E THEN E < c /\ c < S ELSE c > E \/ c < S) THEN 1 ELSE 0)
<1>7. whole = 1 + Last(E, K, c) - First(S, c)
  <2>1. c \in 0 .. N - 1
    BY DEF N
  <2> QED BY <1>1, <2>1, TurnsCounted
<1> HIDE DEF whole
<1>8. s.start = S
  BY <1>3
<1>9. s.rounds = whole + (IF inTail /\ c > E THEN 1 ELSE 0)
  BY <1>3, <1>4 DEF whole
<1>10. ASSUME CutsTailFor(d, b, c)
       PROVE  s.tail = k /\ s.mTail = d.tails.m /\ s.nTail = d.tails.n /\ s.rounds = 1 + K - First(S, c)
  <2>1. inTail
    BY <1>6, <1>10
  <2>2. s.rounds = 1 + K - First(S, c)
    BY <1>5, <1>7, <1>9, <2>1 DEF First, Last
  <2> QED BY <1>3, <2>1, <2>2
<1>11. ASSUME ~CutsTailFor(d, b, c)
       PROVE  s.tail = 1 /\ s.rounds = 1 + Last(E, K, c) - First(S, c)
  <2>1. ~inTail \/ k = 1
    BY <1>6, <1>11
  <2>2. s.tail = 1
    BY <1>3, <2>1
  <2>3. ~(inTail /\ c > E)
    <3>1. SUFFICES ASSUME inTail, c > E PROVE FALSE
      OBVIOUS
    <3>2. k = 1 /\ c <= k * (E + 1) - 1
      BY <2>1, <3>1 DEF inTail
    <3>3. k * (E + 1) = E + 1
      BY <1>5, <3>2
    <3> QED BY <1>5, <3>1, <3>2, <3>3
  <2>4. whole \in Int
    BY <1>5, <1>7 DEF First, Last
  <2>5. s.rounds = whole
    BY <1>9, <2>3, <2>4
  <2> QED BY <1>7, <2>2, <2>5
<1> QED BY <1>8, <1>10, <1>11 DEF s, S, K, E, k

(* The rounds of every block in every batch, <<batch, block, round>>: the  *)
(* tile each is for, and the part of it if it is cut.                      *)
ScheduleOf(d, x) == PERTILE!Scheduler(d, x[1], x[2])
TurnsTaken(d) ==
  {x \in (1 .. d.batch) \X (0 .. d.blockNum - 1) \X Nat : x[3] < ScheduleOf(d, x).rounds}
TileOf(d, x) == PERTILE!Index(d, ScheduleOf(d, x), x[2], x[3])
IsCut(d, x) == PERTILE!IsSplit(ScheduleOf(d, x), x[3])
NumberIn(d, x) == x[2] % ScheduleOf(d, x).tail
TurnIn(d, x) == x[3] + First(StartOf(d, x[1]), x[2])

(* A turn that takes a whole tile.                                         *)
LEMMA WholeTurn ==
  ASSUME NEW d, IsTiling(d), NEW x \in TurnsTaken(d), ~IsCut(d, x)
  PROVE  /\ TurnIn(d, x) \in Nat /\ First(StartOf(d, x[1]), x[2]) <= TurnIn(d, x)
         /\ TurnIn(d, x) <= Last(EndOf(d, x[1]), LastRound(d, x[1]), x[2])
         /\ CutsTail(d, x[1]) => TurnIn(d, x) < LastRound(d, x[1])
         /\ TileOf(d, x) = (d.blockNum * TurnIn(d, x)) + x[2] - StartOf(d, x[1])
<1> DEFINE b == x[1]  c == x[2]  r == x[3]  N == d.blockNum  S == StartOf(d, b)  E == EndOf(d, b)
           K == LastRound(d, b)  k == TailsOf(d)  s == PERTILE!Scheduler(d, b, c)  T == PERTILE!Total(d.w)
<1>1. b \in 1 .. d.batch /\ c \in 0 .. N - 1 /\ r \in Nat /\ r < s.rounds
  BY DEF TurnsTaken, ScheduleOf
<1>2. ~(s.tail # 1 /\ r = s.rounds - 1)
  BY DEF IsCut, ScheduleOf, PERTILE!IsSplit
<1>3. /\ s.start = S
      /\ CutsTailFor(d, b, c) => s.tail = k /\ s.rounds = 1 + K - First(S, c)
      /\ ~CutsTailFor(d, b, c) => s.tail = 1 /\ s.rounds = 1 + Last(E, K, c) - First(S, c)
  BY <1>1, TurnsOfBlock
<1>4. Ending(N, T, S, E, K)
  BY <1>1, BatchEnds
<1>5. CutsTailFor(d, b, c) <=> CutsTail(d, b) /\ c < k * (E + 1)
  BY DEF CutsTailFor
<1>6. CutsTail(d, b) => k # 1
  BY DEF CutsTail
<1>7. TileOf(d, x) = (IF r = s.rounds - 1 THEN c \div s.tail ELSE c) + r * N
                       + (IF c < s.start THEN N - s.start ELSE 0 - s.start)
  BY DEF TileOf, ScheduleOf, PERTILE!Index
<1>8. TurnIn(d, x) = r + First(S, c)
  BY DEF TurnIn
<1>9. k \in Nat \ {0}
  <2>1. d.tails.m \in Nat \ {0} /\ d.tails.n \in Nat \ {0}
    BY DEF IsTiling
  <2> QED BY <2>1 DEF TailsOf
<1> HIDE DEF N, T, S, E, K, k, s, b, c, r
<1>10. N \in Nat \ {0} /\ E \in Nat /\ S \in Nat /\ K \in Nat /\ E < N /\ S < N
  BY <1>4 DEF Ending
<1>11. (IF r = s.rounds - 1 THEN c \div s.tail ELSE c) = c
  <2>1. r = s.rounds - 1 => s.tail = 1
    BY <1>2
  <2>2. c \div 1 = c
    BY <1>1, <1>10
  <2> QED BY <2>1, <2>2
<1>12. TileOf(d, x) = (N * (r + First(S, c))) + c - S
  <2>1. N * (r + 1) = (N * r) + N /\ N * r = r * N /\ N * r \in Nat /\ N * (r + 0) = N * r
    BY <1>1, <1>10
  <2>2. TileOf(d, x) = c + r * N + (IF c < S THEN N - S ELSE 0 - S)
    BY <1>3, <1>7, <1>11
  <2>3. CASE c < S
    <3>1. First(S, c) = 1
      BY <2>3 DEF First
    <3> QED BY <1>1, <1>10, <2>1, <2>2, <2>3, <3>1
  <2>4. CASE ~(c < S)
    <3>1. First(S, c) = 0
      BY <2>4 DEF First
    <3> QED BY <1>1, <1>10, <2>1, <2>2, <2>4, <3>1
  <2> QED BY <2>3, <2>4
<1>13. ASSUME CutsTailFor(d, b, c)
       PROVE  r + First(S, c) < K
  <2>1. s.tail # 1 /\ s.rounds = 1 + K - First(S, c)
    BY <1>3, <1>5, <1>6, <1>13
  <2> QED BY <1>1, <1>2, <1>10, <2>1 DEF First
<1>14. ASSUME ~CutsTailFor(d, b, c)
       PROVE  r + First(S, c) <= Last(E, K, c)
  BY <1>1, <1>3, <1>10, <1>14 DEF First, Last
<1>15. ASSUME ~CutsTailFor(d, b, c), CutsTail(d, b)
       PROVE  c > E
  <2>1. c >= k * (E + 1)
    BY <1>1, <1>5, <1>9, <1>10, <1>15
  <2>2. k * (E + 1) >= 1 * (E + 1)
    BY <1>9, <1>10
  <2> QED BY <1>1, <1>9, <1>10, <2>1, <2>2
<1>16. r + First(S, c) \in Nat /\ First(S, c) <= r + First(S, c)
  BY <1>1 DEF First
<1>17. r + First(S, c) <= Last(E, K, c)
  BY <1>1, <1>10, <1>13, <1>14, <1>16 DEF Last
<1>18. CutsTail(d, b) => r + First(S, c) < K
  <2>1. SUFFICES ASSUME CutsTail(d, b), ~CutsTailFor(d, b, c) PROVE r + First(S, c) < K
    BY <1>13
  <2>2. ~(c <= E)
    BY <1>1, <1>10, <1>15, <2>1
  <2>3. r + First(S, c) <= K - 1
    BY <1>14, <2>1, <2>2 DEF Last
  <2> QED BY <1>10, <1>16, <2>3
<1> QED BY <1>8, <1>12, <1>16, <1>17, <1>18 DEF N, S, E, K, b, c

(* A turn that takes a part of one.                                        *)
LEMMA CutTurn ==
  ASSUME NEW d, IsTiling(d), NEW x \in TurnsTaken(d), IsCut(d, x)
  PROVE  /\ CutsTail(d, x[1]) /\ ScheduleOf(d, x).tail = TailsOf(d)
         /\ ScheduleOf(d, x).mTail = d.tails.m /\ ScheduleOf(d, x).nTail = d.tails.n
         /\ TurnIn(d, x) = LastRound(d, x[1])
         /\ x[2] \div TailsOf(d) \in 0 .. EndOf(d, x[1])
         /\ TileOf(d, x) = (d.blockNum * LastRound(d, x[1])) + (x[2] \div TailsOf(d)) - StartOf(d, x[1])
<1> DEFINE b == x[1]  c == x[2]  r == x[3]  N == d.blockNum  S == StartOf(d, b)  E == EndOf(d, b)
           K == LastRound(d, b)  k == TailsOf(d)  s == PERTILE!Scheduler(d, b, c)  T == PERTILE!Total(d.w)
<1>1. b \in 1 .. d.batch /\ c \in 0 .. N - 1 /\ r \in Nat /\ r < s.rounds
  BY DEF TurnsTaken, ScheduleOf
<1>2. s.tail # 1 /\ r = s.rounds - 1
  BY DEF IsCut, ScheduleOf, PERTILE!IsSplit
<1>3. /\ s.start = S
      /\ CutsTailFor(d, b, c) => /\ s.tail = k /\ s.mTail = d.tails.m /\ s.nTail = d.tails.n
                                /\ s.rounds = 1 + K - First(S, c)
      /\ ~CutsTailFor(d, b, c) => s.tail = 1
  BY <1>1, TurnsOfBlock
<1>4. Ending(N, T, S, E, K)
  BY <1>1, BatchEnds
<1>5. CutsTailFor(d, b, c) <=> CutsTail(d, b) /\ c < k * (E + 1)
  BY DEF CutsTailFor
<1>6. ScheduleOf(d, x) = s
  BY DEF ScheduleOf
<1>7. TileOf(d, x) = (IF r = s.rounds - 1 THEN c \div s.tail ELSE c) + r * N
                       + (IF c < s.start THEN N - s.start ELSE 0 - s.start)
  BY DEF TileOf, ScheduleOf, PERTILE!Index
<1>8. TurnIn(d, x) = r + First(S, c)
  BY DEF TurnIn
<1>9. k \in Nat \ {0}
  <2>1. d.tails.m \in Nat \ {0} /\ d.tails.n \in Nat \ {0}
    BY DEF IsTiling
  <2> QED BY <2>1 DEF TailsOf
<1> HIDE DEF N, T, S, E, K, k, s, b, c, r
<1>10. N \in Nat \ {0} /\ E \in Nat /\ S \in Nat /\ K \in Nat /\ E < N /\ S < N
  BY <1>4 DEF Ending
<1>11. CutsTailFor(d, b, c)
  BY <1>2, <1>3
<1>12. CutsTail(d, b) /\ c < k * (E + 1) /\ s.tail = k /\ s.rounds = 1 + K - First(S, c)
  BY <1>3, <1>5, <1>11
<1>13. r + First(S, c) = K
  BY <1>1, <1>2, <1>10, <1>12 DEF First
<1> DEFINE e == c \div k
<1>14. e \in Nat /\ k * e <= c
  BY <1>1, <1>9, <1>10
<1> HIDE DEF e
<1>15. e <= E
  <2>1. SUFFICES ASSUME E + 1 <= e PROVE FALSE
    BY <1>10, <1>14
  <2>2. k * (E + 1) <= k * e /\ k * e \in Nat /\ k * (E + 1) \in Nat
    BY <1>9, <1>10, <1>14, <2>1
  <2> QED BY <1>1, <1>10, <1>12, <1>14, <2>2
<1>16. TileOf(d, x) = (N * K) + e - S
  <2>1. N * (r + 1) = (N * r) + N /\ N * r = r * N /\ N * r \in Nat /\ N * (r + 0) = N * r
    BY <1>1, <1>10
  <2>2. TileOf(d, x) = e + r * N + (IF c < S THEN N - S ELSE 0 - S)
    BY <1>2, <1>3, <1>7, <1>12 DEF e
  <2>3. CASE c < S
    <3>1. First(S, c) = 1
      BY <2>3 DEF First
    <3>2. N * K = (N * r) + N
      BY <1>13, <2>1, <3>1
    <3> QED BY <1>1, <1>10, <1>14, <2>1, <2>2, <2>3, <3>2
  <2>4. CASE ~(c < S)
    <3>1. First(S, c) = 0
      BY <2>4 DEF First
    <3>2. N * K = N * r
      BY <1>13, <2>1, <3>1
    <3> QED BY <1>1, <1>10, <1>14, <2>1, <2>2, <2>4, <3>2
  <2> QED BY <2>3, <2>4
<1>17. e \in 0 .. E
  BY <1>10, <1>14, <1>15
<1> QED BY <1>3, <1>6, <1>8, <1>11, <1>12, <1>13, <1>16, <1>17 DEF N, S, E, K, b, c, k, e

(* Turns are for tiles of the output.                                      *)
LEMMA TurnsInside ==
  ASSUME NEW d, IsTiling(d), NEW x \in TurnsTaken(d)
  PROVE  TileOf(d, x) \in 0 .. PERTILE!Total(d.w) - 1
<1> DEFINE b == x[1]  c == x[2]  N == d.blockNum  S == StartOf(d, b)  E == EndOf(d, b)
           K == LastRound(d, b)  k == TailsOf(d)  T == PERTILE!Total(d.w)
<1>1. b \in 1 .. d.batch /\ c \in 0 .. N - 1
  BY DEF TurnsTaken
<1>2. Ending(N, T, S, E, K)
  BY <1>1, BatchEnds
<1>3. CASE ~IsCut(d, x)
  <2> DEFINE j == TurnIn(d, x)
  <2>1. j \in Nat /\ First(S, c) <= j /\ j <= Last(E, K, c) /\ TileOf(d, x) = (N * j) + c - S
    BY <1>3, WholeTurn
  <2> HIDE DEF N, T, S, E, K, b, c, j
  <2>2. (N * j) + c - S \in 0 .. T - 1
    BY <1>1, <1>2, <2>1, TurnInside
  <2> QED BY <2>1, <2>2 DEF T
<1>4. CASE IsCut(d, x)
  <2> DEFINE e == c \div k
  <2>1. CutsTail(d, b) /\ e \in 0 .. E /\ TileOf(d, x) = (N * K) + e - S
    BY <1>4, CutTurn
  <2>2. S = 0 \/ K >= 1
    BY <1>1, <2>1, RoomForTail
  <2> HIDE DEF N, T, S, E, K, b, c, e
  <2>3. /\ N \in Nat \ {0} /\ T \in Nat \ {0} /\ S \in 0 .. N - 1 /\ E \in 0 .. N - 1 /\ K \in Nat
        /\ S + T - 1 = (N * K) + E
    BY <1>2 DEF Ending
  <2>4. N * K >= S /\ N * K \in Nat
    <3>1. N * K \in Nat /\ (K >= 1 => N * K >= N * 1)
      BY <2>3
    <3> QED BY <2>2, <2>3, <3>1
  <2>5. (N * K) + e - S \in 0 .. T - 1
    BY <2>1, <2>3, <2>4
  <2> QED BY <2>1, <2>5 DEF T
<1> QED BY <1>3, <1>4

(* A turn for every tile, or for every part of it.                         *)
LEMMA TurnsReach ==
  ASSUME NEW d, IsTiling(d), NEW b \in 1 .. d.batch, NEW t \in 0 .. PERTILE!Total(d.w) - 1
  PROVE  \/ \E x \in TurnsTaken(d) : x[1] = b /\ TileOf(d, x) = t /\ ~IsCut(d, x)
         \/ \A q \in 0 .. TailsOf(d) - 1 :
              \E x \in TurnsTaken(d) : x[1] = b /\ TileOf(d, x) = t /\ IsCut(d, x) /\ NumberIn(d, x) = q
<1> DEFINE N == d.blockNum  S == StartOf(d, b)  E == EndOf(d, b)
           K == LastRound(d, b)  k == TailsOf(d)  T == PERTILE!Total(d.w)
<1>1. Ending(N, T, S, E, K)
  BY BatchEnds
<1>2. k \in Nat \ {0}
  <2>1. d.tails.m \in Nat \ {0} /\ d.tails.n \in Nat \ {0}
    BY DEF IsTiling
  <2> QED BY <2>1 DEF TailsOf
<1>3. CutsTail(d, b) => (E + 1) * k <= N /\ k # 1 /\ (S = 0 \/ K >= 1)
  <2>1. CutsTail(d, b) => (S = 0 \/ K >= 1)
    BY RoomForTail
  <2> QED BY <2>1 DEF CutsTail
<1>4. ASSUME NEW c \in 0 .. N - 1, NEW r \in Nat, r < PERTILE!Scheduler(d, b, c).rounds
      PROVE  /\ <<b, c, r>> \in TurnsTaken(d)
             /\ IsCut(d, <<b, c, r>>) <=> PERTILE!Scheduler(d, b, c).tail # 1 /\ r = PERTILE!Scheduler(d, b, c).rounds - 1
             /\ NumberIn(d, <<b, c, r>>) = c % PERTILE!Scheduler(d, b, c).tail
             /\ TurnIn(d, <<b, c, r>>) = r + First(S, c)
  BY <1>4 DEF TurnsTaken, ScheduleOf, IsCut, PERTILE!IsSplit, NumberIn, TurnIn
<1>5. ASSUME NEW c \in 0 .. N - 1
      PROVE  LET s == PERTILE!Scheduler(d, b, c)
             IN  /\ CutsTailFor(d, b, c) => s.tail = k /\ s.rounds = 1 + K - First(S, c)
                 /\ ~CutsTailFor(d, b, c) => s.tail = 1 /\ s.rounds = 1 + Last(E, K, c) - First(S, c)
  BY TurnsOfBlock
<1>6. ASSUME NEW c \in 0 .. N - 1 PROVE CutsTailFor(d, b, c) <=> CutsTail(d, b) /\ c < k * (E + 1)
  BY DEF CutsTailFor
<1>7. ASSUME NEW x \in TurnsTaken(d), x[1] = b, ~IsCut(d, x)
      PROVE  TileOf(d, x) = (N * TurnIn(d, x)) + x[2] - S
  BY <1>7, WholeTurn
<1>8. ASSUME NEW x \in TurnsTaken(d), x[1] = b, IsCut(d, x)
      PROVE  TileOf(d, x) = (N * K) + (x[2] \div k) - S
  BY <1>8, CutTurn
<1> HIDE DEF N, S, E, K, k, T
<1>9. /\ N \in Nat \ {0} /\ T \in Nat \ {0} /\ S \in 0 .. N - 1 /\ E \in 0 .. N - 1 /\ K \in Nat
      /\ S + T - 1 = (N * K) + E
  BY <1>1 DEF Ending
<1>10. PICK c \in 0 .. N - 1, j \in Nat : S + t = (N * j) + c /\ First(S, c) <= j /\ j <= Last(E, K, c)
  <2>1. t \in 0 .. T - 1
    BY DEF T
  <2> QED BY <1>1, <2>1, TurnOf
<1>11. t \in Int /\ N * j \in Nat
  BY <1>9
<1>12. CASE CutsTail(d, b) => j < K
  <2> DEFINE s == PERTILE!Scheduler(d, b, c)  r == j - First(S, c)  x == <<b, c, r>>
  <2>1. r \in Nat /\ r + First(S, c) = j
    BY <1>9, <1>10 DEF First
  <2> HIDE DEF s, r
  <2>2. r < s.rounds /\ (s.tail = 1 \/ r # s.rounds - 1)
    <3>1. CASE CutsTailFor(d, b, c)
      <4>1. j < K /\ s.rounds = 1 + K - First(S, c)
        BY <1>5, <1>6, <1>12, <3>1 DEF s
      <4> QED BY <1>9, <2>1, <4>1 DEF First
    <3>2. CASE ~CutsTailFor(d, b, c)
      <4>1. s.tail = 1 /\ s.rounds = 1 + Last(E, K, c) - First(S, c)
        BY <1>5, <3>2 DEF s
      <4> QED BY <1>9, <1>10, <2>1, <4>1 DEF First, Last
    <3> QED BY <3>1, <3>2
  <2>3. x \in TurnsTaken(d) /\ ~IsCut(d, x) /\ TurnIn(d, x) = j
    BY <1>4, <2>1, <2>2 DEF s
  <2>4. x[1] = b /\ x[2] = c
    OBVIOUS
  <2> HIDE DEF x
  <2>5. TileOf(d, x) = (N * j) + c - S
    BY <1>7, <2>3, <2>4
  <2>6. TileOf(d, x) = t
    BY <1>9, <1>10, <1>11, <2>5
  <2> QED BY <2>3, <2>4, <2>6
<1>13. CASE CutsTail(d, b) /\ ~(j < K)
  <2>1. c <= E /\ j = K
    BY <1>9, <1>10, <1>13 DEF Last
  <2>2. ASSUME NEW q \in 0 .. k - 1
        PROVE  \E x \in TurnsTaken(d) : x[1] = b /\ TileOf(d, x) = t /\ IsCut(d, x) /\ NumberIn(d, x) = q
    <3> DEFINE a == (c * k) + q  s == PERTILE!Scheduler(d, b, a)  r == K - First(S, a)  x == <<b, a, r>>
    <3>1. a \in Nat /\ a \div k = c /\ (a % k) = q /\ a < (E + 1) * k
      <4>1. c \in Nat /\ q \in Nat /\ E + 1 \in Nat \ {0} /\ c < E + 1 /\ q < k
        BY <1>2, <1>9, <2>1
      <4> QED BY <1>2, <4>1, NumberOf
    <3> HIDE DEF a
    <3>2. (E + 1) * k <= N /\ k # 1 /\ (S = 0 \/ K >= 1)
      BY <1>3, <1>13
    <3>3. a \in 0 .. N - 1
      BY <1>2, <1>9, <3>1, <3>2
    <3>4. CutsTailFor(d, b, a)
      <4>1. (E + 1) * k = k * (E + 1)
        BY <1>2, <1>9
      <4> QED BY <1>6, <1>13, <3>1, <3>3, <4>1
    <3>5. s.tail = k /\ s.rounds = 1 + K - First(S, a)
      BY <1>5, <3>3, <3>4
    <3>6. r \in Nat
      BY <1>9, <3>1, <3>2 DEF First
    <3> HIDE DEF s
    <3>7. r < s.rounds /\ r = s.rounds - 1
      BY <1>9, <3>5, <3>6 DEF First
    <3> HIDE DEF r
    <3>8. x \in TurnsTaken(d) /\ IsCut(d, x) /\ NumberIn(d, x) = q
      BY <1>4, <3>1, <3>2, <3>3, <3>5, <3>6, <3>7 DEF s
    <3>9. x[1] = b /\ x[2] = a
      OBVIOUS
    <3> HIDE DEF x
    <3>10. TileOf(d, x) = (N * K) + c - S
      BY <1>8, <3>1, <3>8, <3>9
    <3>11. TileOf(d, x) = t
      BY <1>9, <1>10, <1>11, <2>1, <3>10
    <3> QED BY <3>8, <3>9, <3>11
  <2> QED BY <2>2 DEF k
<1> QED BY <1>12, <1>13

(* No two turns are for the same tile, or the same part of it.             *)
LEMMA OneTurnEach ==
  ASSUME NEW d, IsTiling(d), NEW x \in TurnsTaken(d), NEW y \in TurnsTaken(d),
         x[1] = y[1], TileOf(d, x) = TileOf(d, y)
  PROVE  /\ IsCut(d, x) <=> IsCut(d, y)
         /\ ~IsCut(d, x) => x = y
         /\ IsCut(d, x) /\ NumberIn(d, x) = NumberIn(d, y) => x = y
<1> DEFINE b == x[1]  N == d.blockNum  S == StartOf(d, b)  E == EndOf(d, b)
           K == LastRound(d, b)  k == TailsOf(d)  T == PERTILE!Total(d.w)
<1>1. /\ b \in 1 .. d.batch /\ x[2] \in 0 .. N - 1 /\ y[2] \in 0 .. N - 1 /\ y[1] = b
      /\ x[3] \in Nat /\ y[3] \in Nat /\ x = <<x[1], x[2], x[3]>> /\ y = <<y[1], y[2], y[3]>>
  BY DEF TurnsTaken
<1>2. Ending(N, T, S, E, K)
  BY <1>1, BatchEnds
<1>3. k \in Nat \ {0}
  <2>1. d.tails.m \in Nat \ {0} /\ d.tails.n \in Nat \ {0}
    BY DEF IsTiling
  <2> QED BY <2>1 DEF TailsOf
<1>4. ASSUME NEW z \in TurnsTaken(d), z[1] = b, ~IsCut(d, z)
      PROVE  TurnIn(d, z) \in Nat /\ TileOf(d, z) = (N * TurnIn(d, z)) + z[2] - S /\ (CutsTail(d, b) => TurnIn(d, z) < K)
  BY <1>4, WholeTurn
<1>5. ASSUME NEW z \in TurnsTaken(d), z[1] = b, IsCut(d, z)
      PROVE  /\ CutsTail(d, b) /\ TileOf(d, z) = (N * K) + (z[2] \div k) - S /\ (z[2] \div k) \in 0 .. E
             /\ TurnIn(d, z) = K /\ NumberIn(d, z) = z[2] % k
  BY <1>5, CutTurn DEF NumberIn
<1>6. ASSUME NEW z \in TurnsTaken(d), z[1] = b PROVE TurnIn(d, z) = z[3] + First(S, z[2])
  BY <1>6 DEF TurnIn
<1> HIDE DEF b, N, S, E, K, k, T
<1>7. N \in Nat \ {0} /\ E \in 0 .. N - 1 /\ S \in 0 .. N - 1 /\ K \in Nat
  BY <1>2 DEF Ending
<1>8. ASSUME NEW u \in TurnsTaken(d), NEW v \in TurnsTaken(d), u[1] = b, v[1] = b, IsCut(d, u), ~IsCut(d, v),
             TileOf(d, u) = TileOf(d, v), v[2] \in 0 .. N - 1
      PROVE  FALSE
  <2> DEFINE j == TurnIn(d, v)  e == u[2] \div k
  <2>1. j \in Nat /\ TileOf(d, v) = (N * j) + v[2] - S /\ j < K /\ e \in 0 .. E /\ TileOf(d, u) = (N * K) + e - S
    BY <1>4, <1>5, <1>8
  <2> HIDE DEF j, e
  <2>2. e \in 0 .. N - 1 /\ (N * K) + e = (N * j) + v[2]
    BY <1>7, <1>8, <2>1
  <2>3. K \in Int /\ j \in Int
    BY <1>7, <2>1
  <2>4. K = j
    BY <1>7, <1>8, <2>2, <2>3, OneTurn
  <2> QED BY <1>7, <2>1, <2>4
<1>9. IsCut(d, x) <=> IsCut(d, y)
  BY <1>1, <1>8 DEF b
<1>10. ASSUME x[2] = y[2], TurnIn(d, x) = TurnIn(d, y) PROVE x = y
  <2>1. x[3] + First(S, x[2]) = y[3] + First(S, x[2])
    BY <1>1, <1>6, <1>10 DEF b
  <2>2. x[3] = y[3]
    BY <1>1, <2>1 DEF First
  <2> QED BY <1>1, <1>10, <2>2
<1>11. ASSUME ~IsCut(d, x) PROVE x = y
  <2> DEFINE i == TurnIn(d, x)  j == TurnIn(d, y)
  <2>1. i \in Int /\ j \in Int /\ TileOf(d, x) = (N * i) + x[2] - S /\ TileOf(d, y) = (N * j) + y[2] - S
    BY <1>1, <1>4, <1>9, <1>11 DEF b
  <2> HIDE DEF i, j
  <2>2. (N * i) + x[2] = (N * j) + y[2]
    <3>1. N * i \in Int /\ N * j \in Int /\ x[2] \in Int /\ y[2] \in Int /\ S \in Int
      BY <1>1, <1>7, <2>1
    <3>2. (N * i) + x[2] - S = (N * j) + y[2] - S
      BY <2>1
    <3> QED BY <3>1, <3>2
  <2>3. x[2] = y[2] /\ i = j
    BY <1>1, <1>7, <2>1, <2>2, OneTurn
  <2> QED BY <1>10, <2>3 DEF i, j
<1>12. ASSUME IsCut(d, x), NumberIn(d, x) = NumberIn(d, y) PROVE x = y
  <2>1. /\ TileOf(d, x) = (N * K) + (x[2] \div k) - S /\ TurnIn(d, x) = K /\ NumberIn(d, x) = x[2] % k
        /\ TileOf(d, y) = (N * K) + (y[2] \div k) - S /\ TurnIn(d, y) = K /\ NumberIn(d, y) = y[2] % k
        /\ x[2] \div k \in Int /\ y[2] \div k \in Int
    BY <1>1, <1>5, <1>9, <1>12 DEF b
  <2>2. x[2] \div k = y[2] \div k /\ (x[2] % k) = (y[2] % k)
    <3>1. N * K \in Int
      BY <1>7
    <3>2. (N * K) + (x[2] \div k) - S = (N * K) + (y[2] \div k) - S
      BY <2>1
    <3>3. x[2] \div k = y[2] \div k
      <4> DEFINE u == x[2] \div k  v == y[2] \div k  w == N * K
      <4>1. u \in Int /\ v \in Int /\ w \in Int /\ S \in Int /\ w + u - S = w + v - S
        BY <1>7, <2>1, <3>1, <3>2
      <4> HIDE DEF u, v, w
      <4>2. u = v
        BY <4>1
      <4> QED BY <4>2 DEF u, v
    <3> QED BY <1>12, <2>1, <3>3
  <2>3. x[2] \in Nat /\ y[2] \in Nat
    BY <1>1, <1>7
  <2>4. x[2] = y[2]
    BY <1>3, <2>2, <2>3, OneNumber
  <2> QED BY <1>10, <2>1, <2>4
<1> QED BY <1>9, <1>11, <1>12

(* The lines of a tile that a turn is for: all of them or a cut, from      *)
(* where block u of an axis begins.                                        *)
CutOrWhole(whole, L, count, q, aligned) ==
  IF whole THEN [offset |-> 0, length |-> L] ELSE PERTILE!Cut(L, count, q, aligned)
InPart(i, size, base, u, whole, count, q, aligned) ==
  /\ InBlock(i, size, base, u)
  /\ whole \/ InCut(i - (u * base), Extent(size, base, u), count, q, aligned)

(* A cut lies within its tile.                                             *)
LEMMA CutWithin ==
  ASSUME NEW L \in Nat \ {0}, NEW c \in Nat \ {0}, NEW aligned \in BOOLEAN, NEW q \in Nat,
         NEW cut, cut = PERTILE!Cut(L, c, q, aligned)
  PROVE  cut.offset \in Nat /\ cut.length \in Nat /\ (cut.length # 0 => cut.offset + cut.length <= L)
BY CutLies

(* What the lines of a turn amount to, of an axis of so many lines.        *)
SideAt(size, base, u, whole, count, q, aligned, cut) ==
  /\ (u * base) + cut.offset \in Nat /\ cut.length \in Nat
  /\ cut.length # 0 => (u * base) + cut.offset + cut.length <= size
  /\ whole => cut.length # 0
  /\ \A i \in Int : (u * base) + cut.offset <= i /\ i < (u * base) + cut.offset + cut.length
                      <=> InPart(i, size, base, u, whole, count, q, aligned)

(* The lines of a turn are those that lie in its part of a tile.           *)
LEMMA SidePlaced ==
  ASSUME NEW size \in Nat \ {0}, NEW base \in Nat \ {0}, NEW u \in Nat, u < SPLITK!CeilDiv(size, base),
         NEW whole \in BOOLEAN, NEW count \in Nat \ {0}, NEW q \in Nat, NEW aligned \in BOOLEAN,
         NEW cut, cut = CutOrWhole(whole, Extent(size, base, u), count, q, aligned)
  PROVE  SideAt(size, base, u, whole, count, q, aligned, cut)
<1> DEFINE L == Extent(size, base, u)  a == u * base
<1>1. L \in Nat \ {0} /\ a \in Nat /\ a + L <= size
  BY BlockInside
<1>2. \A i : InBlock(i, size, base, u) <=> a <= i /\ i < a + L
  BY DEF InBlock
<1>3. cut = CutOrWhole(whole, L, count, q, aligned)
  OBVIOUS
<1>4. \A i : InPart(i, size, base, u, whole, count, q, aligned)
               <=> InBlock(i, size, base, u) /\ (whole \/ InCut(i - a, L, count, q, aligned))
  BY DEF InPart
<1> HIDE DEF a, L
<1>5. CASE whole
  <2>1. cut.offset = 0 /\ cut.length = L
    BY <1>3, <1>5 DEF CutOrWhole
  <2>2. \A i \in Int : a + cut.offset <= i /\ i < a + cut.offset + cut.length
                         <=> InPart(i, size, base, u, whole, count, q, aligned)
    <3>1. \A i : InPart(i, size, base, u, whole, count, q, aligned) <=> InBlock(i, size, base, u)
      BY <1>4, <1>5
    <3>2. \A i \in Int : a + cut.offset <= i /\ i < a + cut.offset + cut.length <=> a <= i /\ i < a + L
      BY <1>1, <2>1
    <3> QED BY <1>2, <3>1, <3>2
  <2> QED BY <1>1, <2>1, <2>2 DEF a, SideAt
<1>6. CASE ~whole
  <2>1. cut = PERTILE!Cut(L, count, q, aligned)
    BY <1>3, <1>6 DEF CutOrWhole
  <2>2. cut.offset \in Nat /\ cut.length \in Nat /\ (cut.length # 0 => cut.offset + cut.length <= L)
    <3>1. L \in Nat \ {0}
      BY <1>1
    <3> QED BY <2>1, <3>1, CutWithin
  <2>3. ASSUME NEW i \in Int
        PROVE  a + cut.offset <= i /\ i < a + cut.offset + cut.length
                 <=> InPart(i, size, base, u, whole, count, q, aligned)
    <3>1. InCut(i - a, L, count, q, aligned) <=> cut.offset <= i - a /\ i - a < cut.offset + cut.length
      BY <2>1 DEF InCut
    <3>2. InCut(i - a, L, count, q, aligned) => InBlock(i, size, base, u)
      BY <1>1, <1>2, <2>2, <3>1
    <3>3. a + cut.offset <= i /\ i < a + cut.offset + cut.length
            <=> cut.offset <= i - a /\ i - a < cut.offset + cut.length
      BY <1>1, <2>2
    <3> QED BY <1>4, <1>6, <3>1, <3>2, <3>3
  <2>4. cut.length # 0 => a + cut.offset + cut.length <= size
    BY <1>1, <2>2
  <2>5. a + cut.offset \in Nat
    BY <1>1, <2>2
  <2> QED BY <1>6, <2>2, <2>3, <2>4, <2>5 DEF a, SideAt
<1> QED BY <1>5, <1>6

(* The window of a problem.                                                *)
LEMMA WindowOf ==
  ASSUME NEW p \in PertileProblems
  PROVE  LET d == PERTILE!Tiling(p)
         IN  /\ p.m \in Nat \ {0} /\ p.n \in Nat \ {0} /\ p.batch \in Nat /\ d.batch = p.batch
             /\ d.w.base.m \in Nat \ {0} /\ d.w.base.n \in Nat \ {0}
             /\ d.w.m \in Nat \ {0} /\ d.w.n \in Nat \ {0}
             /\ d.w.m = SPLITK!CeilDiv(p.m, d.w.base.m) /\ d.w.n = SPLITK!CeilDiv(p.n, d.w.base.n)
             /\ \A u : (IF u # d.w.m - 1 THEN d.w.base.m ELSE d.w.last.m) = Extent(p.m, d.w.base.m, u)
             /\ \A v : (IF v # d.w.n - 1 THEN d.w.base.n ELSE d.w.last.n) = Extent(p.n, d.w.base.n, v)
             /\ d.transA \in BOOLEAN /\ d.transB \in BOOLEAN
             /\ d.tails.m \in Nat \ {0} /\ d.tails.n \in Nat \ {0}
             /\ IsTiling(d) /\ PERTILE!Total(d.w) = d.w.m * d.w.n
<1> DEFINE d == PERTILE!Tiling(p)  base == PERTILE!Base(p)  w == PERTILE!Window(p, base)
<1>1. p.m \in Nat \ {0} /\ p.n \in Nat \ {0} /\ p.batch \in Nat
  BY SizesAssumption DEF PertileProblems
<1>2. d.batch = p.batch
  BY DEF PERTILE!Tiling, PERTILE!TilingOf, PERTILE!TilingData
<1>3. /\ d.w = w /\ d.transA \in BOOLEAN /\ d.transB \in BOOLEAN
      /\ d.tails.m \in Nat \ {0} /\ d.tails.n \in Nat \ {0}
  BY TilingFacts
<1>4. /\ base.m \in {128, 256} /\ base.n \in {128, 256} /\ w.base = base
      /\ w.m \in Nat \ {0} /\ w.n \in Nat \ {0}
  BY BlockFacts
<1>5. /\ w.m = SPLITK!CeilDiv(p.m, base.m) /\ w.n = SPLITK!CeilDiv(p.n, base.n)
      /\ w.last.m = p.m - ((SPLITK!CeilDiv(p.m, base.m) - 1) * base.m)
      /\ w.last.n = p.n - ((SPLITK!CeilDiv(p.n, base.n) - 1) * base.n)
  BY DEF PERTILE!Window, PERTILE!LastLength, PERTILE!CeilDiv, SPLITK!CeilDiv
<1>6. base.m \in Nat \ {0} /\ base.n \in Nat \ {0}
  BY <1>4
<1>7. IsTiling(d) /\ PERTILE!Total(w) = w.m * w.n
  BY HostTiling DEF PERTILE!Total
<1> HIDE DEF d, w, base
<1>8. \A u : (IF u # w.m - 1 THEN base.m ELSE w.last.m) = Extent(p.m, base.m, u)
  BY <1>5 DEF Extent
<1>9. \A v : (IF v # w.n - 1 THEN base.n ELSE w.last.n) = Extent(p.n, base.n, v)
  BY <1>5 DEF Extent
<1> QED BY <1>1, <1>2, <1>3, <1>4, <1>5, <1>6, <1>7, <1>8, <1>9 DEF d

(* The part that a turn is for, and which lines and columns it holds.      *)
PartOfTurn(d, x) == PERTILE!Part(d, x[1], ScheduleOf(d, x), x[2], x[3])
TilePlace(d, x) == PERTILE!Position(d.w, TileOf(d, x))
InLines(p, d, x, i) ==
  InPart(i, p.m, d.w.base.m, TilePlace(d, x)[1], ~IsCut(d, x),
         ScheduleOf(d, x).mTail, NumberIn(d, x) % ScheduleOf(d, x).mTail, d.transA)
InColumns(p, d, x, j) ==
  InPart(j, p.n, d.w.base.n, TilePlace(d, x)[2], ~IsCut(d, x),
         ScheduleOf(d, x).nTail, NumberIn(d, x) \div ScheduleOf(d, x).mTail, ~d.transB)

(* The tile of a turn is one of the output.                                *)
LEMMA TurnTile ==
  ASSUME NEW p \in PertileProblems, NEW x \in TurnsTaken(PERTILE!Tiling(p))
  PROVE  LET d == PERTILE!Tiling(p)
         IN  /\ TileOf(d, x) \in 0 .. (d.w.m * d.w.n) - 1
             /\ TilePlace(d, x)[1] \in 0 .. d.w.m - 1 /\ TilePlace(d, x)[2] \in 0 .. d.w.n - 1
             /\ TilePlace(d, x) = <<TilePlace(d, x)[1], TilePlace(d, x)[2]>>
<1> DEFINE d == PERTILE!Tiling(p)  w == d.w
<1>1. w.m \in Nat \ {0} /\ w.n \in Nat \ {0} /\ IsTiling(d) /\ PERTILE!Total(w) = w.m * w.n
  BY WindowOf
<1>2. x \in TurnsTaken(d)
  OBVIOUS
<1> HIDE DEF d
<1>3. TileOf(d, x) \in 0 .. (w.m * w.n) - 1
  BY <1>1, <1>2, TurnsInside
<1> HIDE DEF w
<1>4. PERTILE!Position(w, TileOf(d, x)) \in (0 .. w.m - 1) \X (0 .. w.n - 1)
  BY <1>1, <1>3, WalkVisits
<1> QED BY <1>3, <1>4 DEF TilePlace, w, d

(* The numbers of a turn are sizes.                                        *)
LEMMA NumbersOfTurn ==
  ASSUME NEW p \in PertileProblems, NEW x \in TurnsTaken(PERTILE!Tiling(p))
  PROVE  LET d == PERTILE!Tiling(p)  s == ScheduleOf(d, x)
         IN  /\ s.mTail \in Nat \ {0} /\ s.nTail \in Nat \ {0} /\ NumberIn(d, x) \in Nat
             /\ (NumberIn(d, x) % s.mTail) \in Nat /\ NumberIn(d, x) \div s.mTail \in Nat
<1> DEFINE d == PERTILE!Tiling(p)  s == ScheduleOf(d, x)
<1>1. x[1] \in 1 .. d.batch /\ x[2] \in 0 .. d.blockNum - 1
  BY DEF TurnsTaken
<1>2. s.tail \in Nat \ {0} /\ s.mTail \in Nat \ {0} /\ s.nTail \in Nat \ {0}
  BY <1>1, SchedulerFacts DEF ScheduleOf
<1>3. d.blockNum \in Nat
  BY TilingFacts
<1>4. NumberIn(d, x) = x[2] % s.tail
  BY DEF NumberIn
<1> HIDE DEF d, s
<1>5. x[2] \in Nat
  BY <1>1, <1>3
<1>6. NumberIn(d, x) \in Nat
  BY <1>2, <1>4, <1>5
<1>7. (NumberIn(d, x) % s.mTail) \in Nat /\ NumberIn(d, x) \div s.mTail \in Nat
  BY <1>2, <1>6
<1> QED BY <1>2, <1>6, <1>7 DEF d, s

(* The lines of block u of an axis: CutOrWhole's arguments, as Shape has   *)
(* them.                                                                   *)
LEMMA PartForm ==
  ASSUME NEW p \in PertileProblems, NEW x \in TurnsTaken(PERTILE!Tiling(p))
  PROVE  LET d == PERTILE!Tiling(p)
             s == ScheduleOf(d, x)
             u == TilePlace(d, x)[1]
             v == TilePlace(d, x)[2]
             q == NumberIn(d, x)
             whole == ~IsCut(d, x)
             mCut == CutOrWhole(whole, Extent(p.m, d.w.base.m, u), s.mTail, q % s.mTail, d.transA)
             nCut == CutOrWhole(whole, Extent(p.n, d.w.base.n, v), s.nTail, q \div s.mTail, ~d.transB)
         IN  PartOfTurn(d, x) = <<x[1] - 1, (u * d.w.base.m) + mCut.offset, mCut.length,
                                  (v * d.w.base.n) + nCut.offset, nCut.length>>
<1> DEFINE d == PERTILE!Tiling(p)  s == ScheduleOf(d, x)  u == TilePlace(d, x)[1]  v == TilePlace(d, x)[2]
           q == NumberIn(d, x)  whole == ~IsCut(d, x)
           lines == IF u # d.w.m - 1 THEN d.w.base.m ELSE d.w.last.m
           columns == IF v # d.w.n - 1 THEN d.w.base.n ELSE d.w.last.n
           m0 == CutOrWhole(whole, lines, s.mTail, q % s.mTail, d.transA)
           n0 == CutOrWhole(whole, columns, s.nTail, q \div s.mTail, ~d.transB)
<1>1. lines = Extent(p.m, d.w.base.m, u) /\ columns = Extent(p.n, d.w.base.n, v)
  BY WindowOf
<1>2. PartOfTurn(d, x) = PERTILE!Shape(d, x[1], s, TilePlace(d, x), x[2], x[3])
  BY DEF PartOfTurn, PERTILE!Part, TilePlace, TileOf
<1>3. PERTILE!Shape(d, x[1], s, TilePlace(d, x), x[2], x[3])
        = <<x[1] - 1, (u * d.w.base.m) + m0.offset, m0.length, (v * d.w.base.n) + n0.offset, n0.length>>
  <2> HIDE DEF d
  <2> QED BY DEF PERTILE!Shape, CutOrWhole, NumberIn, IsCut
<1> QED BY <1>1, <1>2, <1>3

(* Where the part of a turn lies, and what it holds.                       *)
LEMMA PartPlaced ==
  ASSUME NEW p \in PertileProblems, NEW x \in TurnsTaken(PERTILE!Tiling(p))
  PROVE  LET d == PERTILE!Tiling(p)  f == PartOfTurn(d, x)
         IN  /\ f \in Rectangles /\ f[3] \in Nat /\ f[5] \in Nat
             /\ ~PERTILE!IsEmpty(f) => Inside(f, p.batch, p.m, p.n)
             /\ ~IsCut(d, x) => ~PERTILE!IsEmpty(f)
             /\ \A b, i, j \in Int : Holds(f, b, i, j) <=> b = x[1] - 1 /\ InLines(p, d, x, i) /\ InColumns(p, d, x, j)
<1> DEFINE d == PERTILE!Tiling(p)  s == ScheduleOf(d, x)  u == TilePlace(d, x)[1]  v == TilePlace(d, x)[2]
           q == NumberIn(d, x)  whole == ~IsCut(d, x)
           a == d.w.base.m  b0 == d.w.base.n  qm == q % s.mTail  qn == q \div s.mTail
           row == d.transA  col == ~d.transB
           mCut == CutOrWhole(whole, Extent(p.m, a, u), s.mTail, qm, row)
           nCut == CutOrWhole(whole, Extent(p.n, b0, v), s.nTail, qn, col)
           f == PartOfTurn(d, x)  mTail == s.mTail  nTail == s.nTail
<1>1. f = <<x[1] - 1, (u * a) + mCut.offset, mCut.length, (v * b0) + nCut.offset, nCut.length>>
  BY PartForm
<1>2. u \in 0 .. d.w.m - 1 /\ v \in 0 .. d.w.n - 1
  BY TurnTile
<1>3. mTail \in Nat \ {0} /\ nTail \in Nat \ {0} /\ qm \in Nat /\ qn \in Nat
  BY NumbersOfTurn
<1>4. /\ p.m \in Nat \ {0} /\ p.n \in Nat \ {0} /\ p.batch \in Nat /\ d.batch = p.batch
      /\ a \in Nat \ {0} /\ b0 \in Nat \ {0} /\ d.w.m \in Nat \ {0} /\ d.w.n \in Nat \ {0}
      /\ d.w.m = SPLITK!CeilDiv(p.m, a) /\ d.w.n = SPLITK!CeilDiv(p.n, b0)
      /\ row \in BOOLEAN /\ col \in BOOLEAN
  BY WindowOf
<1>5. x[1] \in 1 .. p.batch
  BY <1>4 DEF TurnsTaken
<1>6. whole \in BOOLEAN
  BY DEF IsCut, PERTILE!IsSplit
<1>7. \A i : InLines(p, d, x, i) <=> InPart(i, p.m, a, u, whole, mTail, qm, row)
  BY DEF InLines
<1>8. \A j : InColumns(p, d, x, j) <=> InPart(j, p.n, b0, v, whole, nTail, qn, col)
  BY DEF InColumns
<1>9. mCut = CutOrWhole(whole, Extent(p.m, a, u), mTail, qm, row) /\ nCut = CutOrWhole(whole, Extent(p.n, b0, v), nTail, qn, col)
  OBVIOUS
<1>10. whole <=> ~IsCut(d, x)
  OBVIOUS
<1> HIDE DEF d, s, u, v, q, whole, a, b0, qm, qn, row, col, mTail, nTail, mCut, nCut, f
<1>11. u \in Nat /\ u < SPLITK!CeilDiv(p.m, a) /\ v \in Nat /\ v < SPLITK!CeilDiv(p.n, b0)
  BY <1>2, <1>4
<1>12. /\ (u * a) + mCut.offset \in Nat /\ mCut.length \in Nat
       /\ mCut.length # 0 => (u * a) + mCut.offset + mCut.length <= p.m
       /\ whole => mCut.length # 0
       /\ \A i \in Int : (u * a) + mCut.offset <= i /\ i < (u * a) + mCut.offset + mCut.length
                           <=> InPart(i, p.m, a, u, whole, mTail, qm, row)
  <2>1. SideAt(p.m, a, u, whole, mTail, qm, row, mCut)
    BY <1>3, <1>4, <1>6, <1>9, <1>11, SidePlaced
  <2> QED BY <2>1 DEF SideAt
<1>13. /\ (v * b0) + nCut.offset \in Nat /\ nCut.length \in Nat
       /\ nCut.length # 0 => (v * b0) + nCut.offset + nCut.length <= p.n
       /\ whole => nCut.length # 0
       /\ \A j \in Int : (v * b0) + nCut.offset <= j /\ j < (v * b0) + nCut.offset + nCut.length
                           <=> InPart(j, p.n, b0, v, whole, nTail, qn, col)
  <2>1. SideAt(p.n, b0, v, whole, nTail, qn, col, nCut)
    BY <1>3, <1>4, <1>6, <1>9, <1>11, SidePlaced
  <2> QED BY <2>1 DEF SideAt
<1>14. /\ f[1] = x[1] - 1 /\ f[2] = (u * a) + mCut.offset /\ f[3] = mCut.length
       /\ f[4] = (v * b0) + nCut.offset /\ f[5] = nCut.length
  BY <1>1
<1>15. f \in Rectangles
  <2>1. x[1] - 1 \in Int /\ (u * a) + mCut.offset \in Int /\ mCut.length \in Int
        /\ (v * b0) + nCut.offset \in Int /\ nCut.length \in Int
    BY <1>4, <1>5, <1>12, <1>13
  <2> QED BY <1>1, <2>1 DEF Rectangles
<1>16. ~PERTILE!IsEmpty(f) => Inside(f, p.batch, p.m, p.n)
  <2>1. SUFFICES ASSUME ~PERTILE!IsEmpty(f) PROVE Inside(f, p.batch, p.m, p.n)
    OBVIOUS
  <2>2. mCut.length # 0 /\ nCut.length # 0
    BY <1>14, <2>1 DEF PERTILE!IsEmpty
  <2>3. /\ f[1] \in 0 .. p.batch - 1 /\ f[3] > 0 /\ f[5] > 0 /\ f[2] >= 0 /\ f[4] >= 0
        /\ f[2] + f[3] <= p.m /\ f[4] + f[5] <= p.n
    BY <1>4, <1>5, <1>12, <1>13, <1>14, <2>2
  <2> QED BY <2>3 DEF Inside
<1>17. whole => ~PERTILE!IsEmpty(f)
  BY <1>12, <1>13, <1>14 DEF PERTILE!IsEmpty
<1>18. ASSUME NEW b \in Int, NEW i \in Int, NEW j \in Int
       PROVE  Holds(f, b, i, j) <=> b = x[1] - 1 /\ InLines(p, d, x, i) /\ InColumns(p, d, x, j)
  <2>1. Holds(f, b, i, j) <=>
          /\ x[1] - 1 = b
          /\ (u * a) + mCut.offset <= i /\ i < (u * a) + mCut.offset + mCut.length
          /\ (v * b0) + nCut.offset <= j /\ j < (v * b0) + nCut.offset + nCut.length
    BY <1>14 DEF Holds
  <2>2. (u * a) + mCut.offset <= i /\ i < (u * a) + mCut.offset + mCut.length <=> InLines(p, d, x, i)
    BY <1>7, <1>12
  <2>3. (v * b0) + nCut.offset <= j /\ j < (v * b0) + nCut.offset + nCut.length <=> InColumns(p, d, x, j)
    BY <1>8, <1>13
  <2> HIDE DEF Holds
  <2> QED BY <2>1, <2>2, <2>3, Zenon
<1>19. f[3] \in Nat /\ f[5] \in Nat
  BY <1>12, <1>13, <1>14
<1> QED BY <1>10, <1>15, <1>16, <1>17, <1>18, <1>19 DEF d, f

(* The parts that are computed: those that hold something.                 *)
LEMMA PartsTaken ==
  ASSUME NEW p \in PertileProblems
  PROVE  LET d == PERTILE!Tiling(p)
         IN  /\ DOMAIN PERTILE!Parts(p) = {x \in TurnsTaken(d) : ~PERTILE!IsEmpty(PartOfTurn(d, x))}
             /\ \A x \in DOMAIN PERTILE!Parts(p) : PERTILE!Parts(p)[x] = PartOfTurn(d, x)
<1> DEFINE d == PERTILE!Tiling(p)
           S == UNION {PERTILE!Taken(d, b, block, PERTILE!Scheduler(d, b, block)) :
                         b \in 1 .. d.batch, block \in 0 .. d.blockNum - 1}
           U == {x \in TurnsTaken(d) : ~PERTILE!IsEmpty(PartOfTurn(d, x))}
<1>1. PERTILE!Parts(p) = [x \in S |-> PartOfTurn(d, x)]
  BY DEF PERTILE!Parts, PERTILE!PartsOf, PartOfTurn, ScheduleOf
<1>2. ASSUME NEW x \in S PROVE x \in U
  <2>1. PICK b \in 1 .. d.batch, c \in 0 .. d.blockNum - 1 :
           x \in PERTILE!Taken(d, b, c, PERTILE!Scheduler(d, b, c))
    OBVIOUS
  <2> DEFINE s == PERTILE!Scheduler(d, b, c)
  <2>2. PICK r \in 0 .. s.rounds - 1 :
           x = <<b, c, r>> /\ \A q \in 0 .. r : ~PERTILE!IsEmpty(PERTILE!Part(d, b, s, c, q))
    BY <2>1 DEF PERTILE!Taken
  <2>3. s.rounds \in Int
    BY SchedulerFacts
  <2>4. x[1] = b /\ x[2] = c /\ x[3] = r /\ ScheduleOf(d, x) = s
    BY <2>2 DEF ScheduleOf
  <2> HIDE DEF s, d
  <2>5. r \in Nat /\ r < s.rounds /\ r \in 0 .. r
    BY <2>3
  <2>6. x \in TurnsTaken(d)
    BY <2>2, <2>4, <2>5 DEF TurnsTaken
  <2>7. ~PERTILE!IsEmpty(PartOfTurn(d, x))
    BY <2>2, <2>4, <2>5 DEF PartOfTurn
  <2> QED BY <2>6, <2>7
<1>3. ASSUME NEW x \in U PROVE x \in S
  <2> DEFINE b == x[1]  c == x[2]  r == x[3]  s == PERTILE!Scheduler(d, b, c)
  <2>1. /\ b \in 1 .. d.batch /\ c \in 0 .. d.blockNum - 1 /\ r \in Nat /\ r < s.rounds
        /\ x = <<b, c, r>>
    BY DEF TurnsTaken, ScheduleOf
  <2>2. s.rounds \in Int
    BY <2>1, SchedulerFacts
  <2>3. ASSUME NEW q \in 0 .. r PROVE ~PERTILE!IsEmpty(PERTILE!Part(d, b, s, c, q))
    <3> DEFINE y == <<b, c, q>>
    <3>1. CASE q = r
      <4>1. PartOfTurn(d, x) = PERTILE!Part(d, b, s, c, r)
        BY DEF PartOfTurn, ScheduleOf
      <4> QED BY <3>1, <4>1
    <3>2. CASE q # r
      <4>1. y[1] = b /\ y[2] = c /\ y[3] = q /\ ScheduleOf(d, y) = s
        BY DEF ScheduleOf
      <4>2. q \in Nat /\ q < s.rounds /\ q # s.rounds - 1
        <5> HIDE DEF s, r
        <5> QED BY <2>1, <2>2, <3>2
      <4>3. y \in TurnsTaken(d)
        <5> HIDE DEF s, b, c, d
        <5> QED BY <2>1, <4>1, <4>2 DEF TurnsTaken
      <4>4. ~IsCut(d, y)
        <5> HIDE DEF s, b, c, d, y
        <5> QED BY <4>1, <4>2 DEF IsCut, PERTILE!IsSplit
      <4>5. ~PERTILE!IsEmpty(PartOfTurn(d, y))
        <5> HIDE DEF y
        <5> QED BY <4>3, <4>4, PartPlaced
      <4>6. PartOfTurn(d, y) = PERTILE!Part(d, b, s, c, q)
        <5> HIDE DEF s, b, c, d, y
        <5> QED BY <4>1 DEF PartOfTurn
      <4> QED BY <4>5, <4>6
    <3> QED BY <3>1, <3>2
  <2> HIDE DEF s, b, c, r, d
  <2>4. r \in 0 .. s.rounds - 1
    BY <2>1, <2>2
  <2>5. x \in PERTILE!Taken(d, b, c, s)
    BY <2>1, <2>3, <2>4 DEF PERTILE!Taken
  <2> QED BY <2>1, <2>5 DEF s
<1>4. S = U
  BY <1>2, <1>3
<1> HIDE DEF S, U, d
<1>5. DOMAIN PERTILE!Parts(p) = U /\ \A x \in U : PERTILE!Parts(p)[x] = PartOfTurn(d, x)
  BY <1>1, <1>4
<1> QED BY <1>5 DEF U, d

(* Every place of the output lies in a part.                               *)
LEMMA PartsReach ==
  ASSUME NEW p \in PertileProblems,
         NEW b \in 0 .. p.batch - 1, NEW i \in 0 .. p.m - 1, NEW j \in 0 .. p.n - 1
  PROVE  \E x \in TurnsTaken(PERTILE!Tiling(p)) : Holds(PartOfTurn(PERTILE!Tiling(p), x), b, i, j)
<1> DEFINE d == PERTILE!Tiling(p)  w == d.w  a == w.base.m  c == w.base.n  tm == d.tails.m  tn == d.tails.n
           row == d.transA  col == ~d.transB
<1>1. /\ p.m \in Nat \ {0} /\ p.n \in Nat \ {0} /\ p.batch \in Nat /\ d.batch = p.batch
      /\ a \in Nat \ {0} /\ c \in Nat \ {0} /\ w.m \in Nat \ {0} /\ w.n \in Nat \ {0}
      /\ w.m = SPLITK!CeilDiv(p.m, a) /\ w.n = SPLITK!CeilDiv(p.n, c)
      /\ row \in BOOLEAN /\ col \in BOOLEAN
      /\ tm \in Nat \ {0} /\ tn \in Nat \ {0}
      /\ IsTiling(d) /\ PERTILE!Total(w) = w.m * w.n
  BY WindowOf
<1>2. ASSUME NEW x \in TurnsTaken(d)
      PROVE  /\ \A k, y, z \in Int : Holds(PartOfTurn(d, x), k, y, z)
                  <=> k = x[1] - 1 /\ InLines(p, d, x, y) /\ InColumns(p, d, x, z)
             /\ IsCut(d, x) => ScheduleOf(d, x).mTail = tm /\ ScheduleOf(d, x).nTail = tn
  BY <1>1, PartPlaced, CutTurn
<1>3. ASSUME NEW x \in TurnsTaken(d)
      PROVE  /\ InLines(p, d, x, i) <=> InPart(i, p.m, a, TilePlace(d, x)[1], ~IsCut(d, x),
                                       ScheduleOf(d, x).mTail, NumberIn(d, x) % ScheduleOf(d, x).mTail, row)
             /\ InColumns(p, d, x, j) <=> InPart(j, p.n, c, TilePlace(d, x)[2], ~IsCut(d, x),
                                       ScheduleOf(d, x).nTail, NumberIn(d, x) \div ScheduleOf(d, x).mTail, col)
             /\ TilePlace(d, x) = PERTILE!Position(w, TileOf(d, x))
  BY DEF InLines, InColumns, TilePlace
<1>4. TailsOf(d) = tm * tn
  BY DEF TailsOf
<1> HIDE DEF d, w, a, c, tm, tn, row, col
<1>5. b + 1 \in 1 .. d.batch /\ b \in Int /\ i \in Int /\ j \in Int
  BY <1>1
<1>6. PICK u \in Nat : u < w.m /\ InBlock(i, p.m, a, u)
  BY <1>1, BlockOf
<1>7. PICK v \in Nat : v < w.n /\ InBlock(j, p.n, c, v)
  BY <1>1, BlockOf
<1>8. PICK t \in 0 .. (w.m * w.n) - 1 : PERTILE!Position(w, t) = <<u, v>>
  <2>1. u \in 0 .. w.m - 1 /\ v \in 0 .. w.n - 1
    BY <1>1, <1>6, <1>7
  <2> QED BY <1>1, <2>1, WalkVisits
<1> DEFINE L == Extent(p.m, a, u)  M == Extent(p.n, c, v)
<1>9. L \in Nat \ {0} /\ M \in Nat \ {0}
  BY <1>1, <1>6, <1>7, BlockInside
<1>10. i - (u * a) \in 0 .. L - 1 /\ j - (v * c) \in 0 .. M - 1
  <2>1. /\ u * a <= i /\ i < (u * a) + L /\ v * c <= j /\ j < (v * c) + M
        /\ u * a \in Int /\ v * c \in Int
    <3>1. u * a \in Int /\ v * c \in Int
      BY <1>1
    <3> QED BY <1>6, <1>7, <3>1 DEF InBlock
  <2> HIDE DEF L, M
  <2> QED BY <1>5, <1>9, <2>1
<1> HIDE DEF L, M
<1>11. PICK qm \in 0 .. tm - 1 : InCut(i - (u * a), L, tm, qm, row)
  BY <1>1, <1>9, <1>10, CutOf
<1>12. PICK qn \in 0 .. tn - 1 : InCut(j - (v * c), M, tn, qn, col)
  BY <1>1, <1>9, <1>10, CutOf
<1>13. ASSUME NEW x \in TurnsTaken(d), x[1] = b + 1, TileOf(d, x) = t, ~IsCut(d, x)
       PROVE  Holds(PartOfTurn(d, x), b, i, j)
  <2>1. TilePlace(d, x)[1] = u /\ TilePlace(d, x)[2] = v
    BY <1>3, <1>8, <1>13
  <2>2. InLines(p, d, x, i) /\ InColumns(p, d, x, j)
    BY <1>3, <1>6, <1>7, <1>13, <2>1 DEF InPart
  <2>5. b = x[1] - 1
    BY <1>5, <1>13
  <2>6. Holds(PartOfTurn(d, x), b, i, j) <=> b = x[1] - 1 /\ InLines(p, d, x, i) /\ InColumns(p, d, x, j)
    BY <1>2, <1>5
  <2> QED BY <2>2, <2>5, <2>6
<1> DEFINE q == (qn * tm) + qm
<1>14. q \in 0 .. (tm * tn) - 1 /\ q \div tm = qn /\ (q % tm) = qm
  <2>1. qn \in Nat /\ qn < tn /\ qm \in Nat /\ qm < tm
    BY <1>1
  <2>2. q \in Nat /\ q < tn * tm /\ q \div tm = qn /\ (q % tm) = qm
    BY <1>1, <2>1, NumberOf
  <2>3. tn * tm = tm * tn /\ tm * tn \in Nat
    BY <1>1
  <2> QED BY <2>2, <2>3
<1> HIDE DEF q
<1>15. ASSUME NEW x \in TurnsTaken(d), x[1] = b + 1, TileOf(d, x) = t, IsCut(d, x), NumberIn(d, x) = q
       PROVE  Holds(PartOfTurn(d, x), b, i, j)
  <2>1. TilePlace(d, x)[1] = u /\ TilePlace(d, x)[2] = v
    BY <1>3, <1>8, <1>15
  <2>2. ScheduleOf(d, x).mTail = tm /\ ScheduleOf(d, x).nTail = tn
    BY <1>2, <1>15
  <2>3. InLines(p, d, x, i)
    <3>1. InPart(i, p.m, a, u, ~IsCut(d, x), tm, qm, row)
      BY <1>6, <1>11 DEF InPart, L
    <3> QED BY <1>3, <1>14, <1>15, <2>1, <2>2, <3>1
  <2>4. InColumns(p, d, x, j)
    <3>1. InPart(j, p.n, c, v, ~IsCut(d, x), tn, qn, col)
      BY <1>7, <1>12 DEF InPart, M
    <3> QED BY <1>3, <1>14, <1>15, <2>1, <2>2, <3>1
  <2>5. b = x[1] - 1
    BY <1>5, <1>15
  <2>6. Holds(PartOfTurn(d, x), b, i, j) <=> b = x[1] - 1 /\ InLines(p, d, x, i) /\ InColumns(p, d, x, j)
    BY <1>2, <1>5
  <2> QED BY <2>3, <2>4, <2>5, <2>6
<1>16. \/ \E x \in TurnsTaken(d) : x[1] = b + 1 /\ TileOf(d, x) = t /\ ~IsCut(d, x)
       \/ \A k \in 0 .. TailsOf(d) - 1 :
            \E x \in TurnsTaken(d) : x[1] = b + 1 /\ TileOf(d, x) = t /\ IsCut(d, x) /\ NumberIn(d, x) = k
  <2>1. t \in 0 .. PERTILE!Total(w) - 1
    BY <1>1
  <2> QED BY <1>1, <1>5, <2>1, TurnsReach DEF w
<1>17. \E x \in TurnsTaken(d) : Holds(PartOfTurn(d, x), b, i, j)
  BY <1>4, <1>13, <1>14, <1>15, <1>16
<1> QED BY <1>17 DEF d

(* None lies in two.                                                       *)
LEMMA PartsApart ==
  ASSUME NEW p \in PertileProblems,
         NEW x \in TurnsTaken(PERTILE!Tiling(p)), NEW y \in TurnsTaken(PERTILE!Tiling(p)),
         NEW b \in Int, NEW i \in Int, NEW j \in Int,
         Holds(PartOfTurn(PERTILE!Tiling(p), x), b, i, j), Holds(PartOfTurn(PERTILE!Tiling(p), y), b, i, j)
  PROVE  x = y
<1> DEFINE d == PERTILE!Tiling(p)  w == d.w  a == w.base.m  c == w.base.n  tm == d.tails.m  tn == d.tails.n
           row == d.transA  col == ~d.transB
<1>1. /\ p.m \in Nat \ {0} /\ p.n \in Nat \ {0} /\ p.batch \in Nat /\ d.batch = p.batch
      /\ a \in Nat \ {0} /\ c \in Nat \ {0} /\ w.m \in Nat \ {0} /\ w.n \in Nat \ {0}
      /\ w.m = SPLITK!CeilDiv(p.m, a) /\ w.n = SPLITK!CeilDiv(p.n, c)
      /\ row \in BOOLEAN /\ col \in BOOLEAN
      /\ tm \in Nat \ {0} /\ tn \in Nat \ {0}
      /\ IsTiling(d) /\ PERTILE!Total(w) = w.m * w.n
  BY WindowOf
<1>2. ASSUME NEW z \in TurnsTaken(d), Holds(PartOfTurn(d, z), b, i, j)
      PROVE  /\ z[1] = b + 1
             /\ InBlock(i, p.m, a, TilePlace(d, z)[1]) /\ InBlock(j, p.n, c, TilePlace(d, z)[2])
             /\ IsCut(d, z) =>
                  /\ InCut(i - (TilePlace(d, z)[1] * a), Extent(p.m, a, TilePlace(d, z)[1]), tm, NumberIn(d, z) % tm, row)
                  /\ InCut(j - (TilePlace(d, z)[2] * c), Extent(p.n, c, TilePlace(d, z)[2]), tn, NumberIn(d, z) \div tm, col)
             /\ NumberIn(d, z) \in Nat
  <2>1. b = z[1] - 1 /\ InLines(p, d, z, i) /\ InColumns(p, d, z, j)
    BY <1>2, PartPlaced
  <2>2. IsCut(d, z) => ScheduleOf(d, z).mTail = tm /\ ScheduleOf(d, z).nTail = tn
    BY <1>1, CutTurn
  <2>3. NumberIn(d, z) \in Nat
    BY NumbersOfTurn
  <2>4. z[1] \in 1 .. d.batch
    BY DEF TurnsTaken
  <2>5. z[1] = b + 1
    <3> HIDE DEF d
    <3> QED BY <1>1, <2>1, <2>4
  <2>6. /\ InPart(i, p.m, a, TilePlace(d, z)[1], ~IsCut(d, z), ScheduleOf(d, z).mTail, NumberIn(d, z) % ScheduleOf(d, z).mTail, row)
        /\ InPart(j, p.n, c, TilePlace(d, z)[2], ~IsCut(d, z), ScheduleOf(d, z).nTail, NumberIn(d, z) \div ScheduleOf(d, z).mTail, col)
    BY <2>1 DEF InLines, InColumns
  <2> HIDE DEF d, w, a, c, tm, tn, row, col
  <2> QED BY <2>2, <2>3, <2>5, <2>6 DEF InPart
<1>3. ASSUME NEW z \in TurnsTaken(d)
      PROVE  /\ TileOf(d, z) \in 0 .. (w.m * w.n) - 1
             /\ TilePlace(d, z)[1] \in 0 .. w.m - 1 /\ TilePlace(d, z)[2] \in 0 .. w.n - 1
             /\ TilePlace(d, z) = <<TilePlace(d, z)[1], TilePlace(d, z)[2]>>
             /\ TilePlace(d, z) = PERTILE!Position(w, TileOf(d, z))
  BY TurnTile DEF TilePlace
<1>4. /\ x \in TurnsTaken(d) /\ y \in TurnsTaken(d)
      /\ Holds(PartOfTurn(d, x), b, i, j) /\ Holds(PartOfTurn(d, y), b, i, j)
  OBVIOUS
<1> DEFINE u == TilePlace(d, x)[1]  v == TilePlace(d, x)[2]
<1> HIDE DEF d, w, a, c, tm, tn, row, col
<1>5. x[1] = y[1]
  BY <1>2, <1>4
<1>6. TilePlace(d, y)[1] = u
  <2> DEFINE u2 == TilePlace(d, y)[1]
  <2>1. /\ u \in Nat /\ u2 \in Nat /\ u < SPLITK!CeilDiv(p.m, a) /\ u2 < SPLITK!CeilDiv(p.m, a)
        /\ InBlock(i, p.m, a, u) /\ InBlock(i, p.m, a, u2)
    BY <1>1, <1>2, <1>3, <1>4
  <2> HIDE DEF u, u2
  <2>2. u = u2
    BY <1>1, <2>1, OneBlock
  <2> QED BY <2>2 DEF u2
<1>7. TilePlace(d, y)[2] = v
  <2> DEFINE v2 == TilePlace(d, y)[2]
  <2>1. /\ v \in Nat /\ v2 \in Nat /\ v < SPLITK!CeilDiv(p.n, c) /\ v2 < SPLITK!CeilDiv(p.n, c)
        /\ InBlock(j, p.n, c, v) /\ InBlock(j, p.n, c, v2)
    BY <1>1, <1>2, <1>3, <1>4
  <2> HIDE DEF v, v2
  <2>2. v = v2
    BY <1>1, <2>1, OneBlock
  <2> QED BY <2>2 DEF v2
<1>8. TileOf(d, x) = TileOf(d, y)
  <2>1. PERTILE!Position(w, TileOf(d, x)) = PERTILE!Position(w, TileOf(d, y))
    BY <1>3, <1>4, <1>6, <1>7
  <2> QED BY <1>1, <1>3, <1>4, <2>1, WalkVisits
<1>9. /\ IsCut(d, x) <=> IsCut(d, y)
      /\ ~IsCut(d, x) => x = y
      /\ IsCut(d, x) /\ NumberIn(d, x) = NumberIn(d, y) => x = y
  BY <1>1, <1>4, <1>5, <1>8, OneTurnEach
<1>10. ASSUME IsCut(d, x) PROVE NumberIn(d, x) = NumberIn(d, y)
  <2> DEFINE k == NumberIn(d, x)  l == NumberIn(d, y)  L == Extent(p.m, a, u)  M == Extent(p.n, c, v)
             o == i - (u * a)  e == j - (v * c)
  <2>1. /\ InCut(o, L, tm, k % tm, row) /\ InCut(o, L, tm, l % tm, row)
        /\ InCut(e, M, tn, k \div tm, col) /\ InCut(e, M, tn, l \div tm, col)
        /\ k \in Nat /\ l \in Nat
    BY <1>2, <1>4, <1>6, <1>7, <1>9, <1>10
  <2>2. u \in Nat /\ v \in Nat /\ u < SPLITK!CeilDiv(p.m, a) /\ v < SPLITK!CeilDiv(p.n, c)
    BY <1>1, <1>3, <1>4
  <2>3. L \in Nat \ {0} /\ M \in Nat \ {0} /\ o \in Int /\ e \in Int
    <3>1. L \in Nat \ {0} /\ M \in Nat \ {0}
      BY <1>1, <2>2, BlockInside
    <3> QED BY <1>1, <2>2, <3>1
  <2> DEFINE k1 == k % tm  l1 == l % tm  k2 == k \div tm  l2 == l \div tm
  <2>4. k1 \in Nat /\ l1 \in Nat /\ k2 \in Nat /\ l2 \in Nat
    BY <1>1, <2>1
  <2> HIDE DEF k, l, L, M, o, e, k1, l1, k2, l2
  <2>5. InCut(o, L, tm, k1, row) /\ InCut(o, L, tm, l1, row) /\ InCut(e, M, tn, k2, col) /\ InCut(e, M, tn, l2, col)
    BY <2>1 DEF k1, l1, k2, l2
  <2>6. k1 = l1
    BY <1>1, <2>3, <2>4, <2>5, OneCut
  <2>7. k2 = l2
    BY <1>1, <2>3, <2>4, <2>5, OneCut
  <2>8. k = l
    BY <1>1, <2>1, <2>6, <2>7, OneNumber DEF k1, l1, k2, l2
  <2> QED BY <2>8 DEF k, l
<1> QED BY <1>9, <1>10

(* The parts of a per-tile matmul share its outputs out, whatever the      *)
(* batches, the cores and the split of the last tiles.                     *)
LEMMA PartsTile ==
  ASSUME NEW p \in PertileProblems
  PROVE  Tiles(DOMAIN PERTILE!Parts(p), PERTILE!Parts(p), p.batch, p.m, p.n)
<1> DEFINE d == PERTILE!Tiling(p)  f == PERTILE!Parts(p)  S == DOMAIN PERTILE!Parts(p)
<1>1. /\ S = {x \in TurnsTaken(d) : ~PERTILE!IsEmpty(PartOfTurn(d, x))}
      /\ \A x \in S : f[x] = PartOfTurn(d, x)
  BY PartsTaken
<1>2. ASSUME NEW x \in TurnsTaken(d)
      PROVE  LET g == PartOfTurn(d, x)
             IN  /\ g \in Rectangles /\ g[3] \in Nat /\ g[5] \in Nat
                 /\ ~PERTILE!IsEmpty(g) => Inside(g, p.batch, p.m, p.n)
  BY PartPlaced
<1>3. ASSUME NEW b \in 0 .. p.batch - 1, NEW i \in 0 .. p.m - 1, NEW j \in 0 .. p.n - 1
      PROVE  \E x \in TurnsTaken(d) : Holds(PartOfTurn(d, x), b, i, j)
  BY PartsReach
<1>4. ASSUME NEW x \in TurnsTaken(d), NEW y \in TurnsTaken(d), NEW b \in Int, NEW i \in Int, NEW j \in Int,
             Holds(PartOfTurn(d, x), b, i, j), Holds(PartOfTurn(d, y), b, i, j)
      PROVE  x = y
  BY <1>4, PartsApart
<1>5. p.m \in Nat \ {0} /\ p.n \in Nat \ {0} /\ p.batch \in Nat
  BY WindowOf
<1> HIDE DEF d, f, S
<1>6. ASSUME NEW x \in S PROVE f[x] \in Rectangles /\ Inside(f[x], p.batch, p.m, p.n)
  BY <1>1, <1>2
<1>7. ASSUME NEW b \in 0 .. p.batch - 1, NEW i \in 0 .. p.m - 1, NEW j \in 0 .. p.n - 1
      PROVE  \E x \in S : Holds(f[x], b, i, j)
  <2>1. PICK x \in TurnsTaken(d) : Holds(PartOfTurn(d, x), b, i, j)
    BY <1>3
  <2> DEFINE g == PartOfTurn(d, x)
  <2>2. g \in Rectangles /\ Holds(g, b, i, j)
    BY <1>2, <2>1
  <2>3. g[3] # 0 /\ g[5] # 0
    <3> HIDE DEF g
    <3>1. /\ g[2] \in Int /\ g[3] \in Int /\ g[4] \in Int /\ g[5] \in Int /\ i \in Int /\ j \in Int
      BY <1>5, <2>2 DEF Rectangles
    <3>2. g[2] <= i /\ i < g[2] + g[3] /\ g[4] <= j /\ j < g[4] + g[5]
      BY <2>2 DEF Holds
    <3> QED BY <3>1, <3>2
  <2>4. ~PERTILE!IsEmpty(g)
    BY <2>3 DEF PERTILE!IsEmpty
  <2>5. x \in S /\ f[x] = g
    BY <1>1, <2>4
  <2> QED BY <2>2, <2>5
<1>8. ASSUME NEW x \in S, NEW y \in S, NEW b \in Int, NEW i \in Int, NEW j \in Int,
             Holds(f[x], b, i, j), Holds(f[y], b, i, j)
      PROVE  x = y
  <2>1. x \in TurnsTaken(d) /\ y \in TurnsTaken(d) /\ f[x] = PartOfTurn(d, x) /\ f[y] = PartOfTurn(d, y)
    BY <1>1
  <2> QED BY <1>4, <1>8, <2>1
<1>9. Tiles(S, f, p.batch, p.m, p.n)
  BY <1>6, <1>7, <1>8 DEF Tiles
<1> QED BY <1>9 DEF S, f

(* A per-tile matmul computes every part of its outputs once.              *)
LEMMA PartsOnce ==
  ASSUME NEW p \in PertileProblems
  PROVE  PERTILE!ComputesEveryPartOnce(p, PERTILE!Tiling(p), PERTILE!Parts(p))
<1> DEFINE d == PERTILE!Tiling(p)  f == PERTILE!Parts(p)  S == DOMAIN f  m == p.m  n == p.n  batch == p.batch
<1>1. Tiles(S, f, batch, m, n)
  BY PartsTile
<1>2. m \in Nat \ {0} /\ n \in Nat \ {0} /\ batch \in Nat
  BY WindowOf
<1>3. ASSUME NEW x \in S PROVE PERTILE!Index(d, PERTILE!Scheduler(d, x[1], x[2]), x[2], x[3]) \in 0 .. PERTILE!Total(d.w) - 1
  <2>1. x \in TurnsTaken(d)
    BY PartsTaken
  <2>2. IsTiling(d)
    BY WindowOf
  <2> HIDE DEF d
  <2>3. TileOf(d, x) \in 0 .. PERTILE!Total(d.w) - 1
    BY <2>1, <2>2, TurnsInside
  <2> QED BY <2>3 DEF TileOf, ScheduleOf
<1> HIDE DEF S, f, m, n, batch
<1>4. /\ \A x, y \in S : x # y => Separate(f[x], f[y])
      /\ SumOver(S, [x \in S |-> f[x][3] * f[x][5]]) = batch * m * n
  BY <1>1, <1>2, AreasAddUp
<1>5. PERTILE!MapThenSumSet(LAMBDA x : f[x][3] * f[x][5], S) = batch * m * n
  <2>1. PERTILE!MapThenSumSet(LAMBDA x : f[x][3] * f[x][5], S)
          = SumOver(S, [x \in S |-> f[x][3] * f[x][5]])
    BY DEF PERTILE!MapThenSumSet, PERTILE!MapThenFoldSet, SumOver, IsSum
  <2> QED BY <1>4, <2>1
<1>6. PERTILE!ShareOut(S, LAMBDA x : f[x], batch, m, n)
  <2>1. ASSUME NEW x \in S PROVE Inside(f[x], batch, m, n)
    BY <1>1 DEF Tiles
  <2>2. \A x, y \in S : x # y =>
           \/ f[x][1] # f[y][1]
           \/ f[x][2] + f[x][3] <= f[y][2] \/ f[y][2] + f[y][3] <= f[x][2]
           \/ f[x][4] + f[x][5] <= f[y][4] \/ f[y][4] + f[y][5] <= f[x][4]
    BY <1>4 DEF Separate
  <2>3. \A x \in S :
           /\ f[x][1] \in 0 .. batch - 1 /\ f[x][3] > 0 /\ f[x][5] > 0
           /\ f[x][2] >= 0 /\ f[x][2] + f[x][3] <= m
           /\ f[x][4] >= 0 /\ f[x][4] + f[x][5] <= n
    BY <2>1 DEF Inside
  <2> QED BY <1>5, <2>2, <2>3, Zenon DEF PERTILE!ShareOut
<1> QED BY <1>3, <1>6, Zenon DEF PERTILE!ComputesEveryPartOnce, S, f, m, n, batch, d

-------------------------------------------------------------------------------
(* The blocks of an ASWT launch, and their numbers.                        *)

(* An axis in L1 blocks: norm whole ones, some of length main and a last.  *)
IsAxis(axis, size) ==
  /\ axis.count \in Nat \ {0} /\ axis.l1 \in Nat \ {0} /\ axis.norm \in Nat /\ axis.norm < axis.count
  /\ axis.main \in 1 .. axis.l1 /\ axis.last \in 1 .. axis.l1
  /\ size = (axis.norm * axis.l1) + ((axis.count - 1 - axis.norm) * axis.main) + axis.last

(* The axes that the host comes with are made of L1 blocks.                *)
LEMMA AxisShape ==
  ASSUME NEW size \in Nat \ {0}, NEW l1 \in Nat \ {0}, NEW base \in Nat \ {0}, NEW more,
         Evenable(more, size, base), more # 0 => l1 = base,
         NEW axis, axis = ASWT!Axis(size, l1, ASWT!Evened(size, base, more)), BlocksFitL1(axis)
  PROVE  IsAxis(axis, size) /\ axis.count = ASWT!CeilDiv(size, l1) /\ axis.l1 = l1
<1> DEFINE count == ASWT!CeilDiv(size, l1)
           edge == ASWT!Evened(size, base, more)
           norm == count - edge.count
           rest == size - norm * l1
           main == IF edge.count = 1 THEN rest ELSE edge.main
           last == rest - (edge.count - 1) * main
<1>1. /\ axis.count = count /\ axis.l1 = l1 /\ axis.norm = norm
      /\ axis.main = main /\ axis.last = last
  BY DEF ASWT!Axis
<1>2. count \in Nat \ {0}
  BY LeastCover
<1>3. edge.count = more + 1 /\ more \in Nat
  BY DEF ASWT!Evened, Evenable
<1>4. more # 0 => more < count
  BY DEF Evenable
<1>5. axis.last \in 1 .. l1 /\ \A i \in 0 .. count - 1 : ASWT!Length(axis, i) \in 1 .. l1
  <2> HIDE DEF count, last
  <2> QED BY <1>1 DEF BlocksFitL1
<1> DEFINE e == edge.count
<1>6. e \in Nat /\ e = more + 1 /\ norm = count - e /\ rest = size - (norm * l1) /\ last = rest - ((e - 1) * main)
      /\ (e = 1 => main = rest)
  BY <1>3
<1> HIDE DEF count, edge, e, main, last, rest, norm
<1>7. norm \in Nat /\ norm < count
  BY <1>2, <1>3, <1>4, <1>6
<1>8. norm * l1 \in Nat /\ rest \in Int
  BY <1>6, <1>7
<1>9. main \in 1 .. l1
  <2>1. CASE more = 0
    <3>1. e = 1 /\ main = rest
      BY <1>3, <1>6, <2>1
    <3>2. (e - 1) * main = 0
      BY <1>8, <3>1
    <3>3. last = main
      BY <1>6, <1>8, <3>1, <3>2
    <3> QED BY <1>1, <1>5, <3>3
  <2>2. CASE more # 0
    <3>1. norm \in 0 .. count - 1 /\ norm # count - 1
      BY <1>2, <1>3, <1>6, <1>7, <2>2
    <3>2. ASWT!Length(axis, norm) = main
      BY <1>1, <1>7, <3>1 DEF ASWT!Length
    <3> QED BY <1>5, <3>1, <3>2
  <2> QED BY <2>1, <2>2
<1>10. size = (norm * l1) + ((count - 1 - norm) * main) + last
  <2>1. e - 1 = count - 1 - norm /\ e - 1 \in Nat
    BY <1>2, <1>3, <1>6
  <2> DEFINE k == e - 1
  <2>2. k \in Nat /\ k = count - 1 - norm /\ last = rest - (k * main)
    BY <1>6, <2>1
  <2> HIDE DEF k
  <2>3. k * main \in Nat
    BY <1>9, <2>2
  <2> QED BY <1>6, <1>8, <2>2, <2>3
<1> QED BY <1>1, <1>2, <1>5, <1>7, <1>9, <1>10 DEF IsAxis, count

(* Where block i of an axis begins.                                        *)
LEMMA AxisOffsets ==
  ASSUME NEW size \in Nat \ {0}, NEW axis, IsAxis(axis, size), NEW i \in 0 .. axis.count - 1
  PROVE  /\ ASWT!Offset(axis, i) = IF i < axis.norm THEN i * axis.l1
                                   ELSE (axis.norm * axis.l1) + ((i - axis.norm) * axis.main)
         /\ ASWT!Offset(axis, i) \in Nat
         /\ ASWT!Length(axis, i) = IF i < axis.norm THEN axis.l1
                                   ELSE IF i = axis.count - 1 THEN axis.last ELSE axis.main
         /\ ASWT!Length(axis, i) \in 1 .. axis.l1
<1>1. /\ axis.count \in Nat \ {0} /\ axis.l1 \in Nat \ {0} /\ axis.norm \in Nat
      /\ axis.main \in 1 .. axis.l1 /\ axis.last \in 1 .. axis.l1
  BY DEF IsAxis
<1>2. i \in Nat /\ i * axis.l1 \in Nat /\ axis.norm * axis.l1 \in Nat /\ 0 * axis.main = 0
  BY <1>1
<1>3. i > axis.norm => (i - axis.norm) * axis.main \in Nat
  BY <1>1, <1>2
<1>4. ASWT!Offset(axis, i) = IF i > axis.norm THEN (axis.norm * axis.l1) + ((i - axis.norm) * axis.main) ELSE i * axis.l1
  BY DEF ASWT!Offset
<1>5. i = axis.norm => i - axis.norm = 0
  BY <1>1
<1>6. ASWT!Length(axis, i) = IF i < axis.norm THEN axis.l1
                                   ELSE IF i = axis.count - 1 THEN axis.last ELSE axis.main
  BY DEF ASWT!Length
<1>7. axis.l1 \in 1 .. axis.l1
  BY <1>1
<1>8. ASWT!Length(axis, i) \in 1 .. axis.l1
  BY <1>1, <1>6, <1>7
<1>9. CASE i < axis.norm
  BY <1>1, <1>2, <1>4, <1>6, <1>8, <1>9
<1>10. CASE i = axis.norm
  BY <1>1, <1>2, <1>4, <1>5, <1>6, <1>8, <1>10
<1>11. CASE i > axis.norm
  BY <1>1, <1>2, <1>3, <1>4, <1>6, <1>8, <1>11
<1> QED BY <1>1, <1>2, <1>9, <1>10, <1>11

(* A block ends before the ones behind it begin.                           *)
LEMMA AxisAhead ==
  ASSUME NEW size \in Nat \ {0}, NEW axis, IsAxis(axis, size),
         NEW i \in 0 .. axis.count - 1, NEW j \in 0 .. axis.count - 1, i < j
  PROVE  ASWT!Offset(axis, i) + ASWT!Length(axis, i) <= ASWT!Offset(axis, j)
<1> DEFINE N == axis.norm  l == axis.l1  a == axis.main
<1>1. /\ axis.count \in Nat \ {0} /\ l \in Nat \ {0} /\ N \in Nat /\ N < axis.count /\ a \in 1 .. l
  BY DEF IsAxis
<1>2. /\ ASWT!Offset(axis, i) = IF i < N THEN i * l ELSE (N * l) + ((i - N) * a)
      /\ ASWT!Offset(axis, j) = IF j < N THEN j * l ELSE (N * l) + ((j - N) * a)
      /\ ASWT!Length(axis, i) = IF i < N THEN l ELSE a
  <2>1. i # axis.count - 1
    BY <1>1
  <2> QED BY <2>1, AxisOffsets
<1> HIDE DEF N, l, a
<1>3. i \in Nat /\ j \in Nat /\ i + 1 <= j
  BY <1>1
<1>4. i * l \in Nat /\ N * l \in Nat /\ j * l \in Nat /\ (i + 1) * l = (i * l) + l /\ a \in Nat
  BY <1>1, <1>3
<1>5. CASE j < N
  <2>1. (i + 1) * l <= j * l
    BY <1>1, <1>3
  <2> QED BY <1>1, <1>2, <1>3, <1>4, <1>5, <2>1
<1>6. CASE i < N /\ ~(j < N)
  <2>1. (i + 1) * l <= N * l
    BY <1>1, <1>3, <1>6
  <2>2. (j - N) * a \in Nat
    BY <1>1, <1>3, <1>4, <1>6
  <2> QED BY <1>1, <1>2, <1>3, <1>4, <1>6, <2>1, <2>2
<1>7. CASE ~(i < N)
  <2> DEFINE u == i - N  v == j - N
  <2>1. u \in Nat /\ v \in Nat /\ u + 1 <= v /\ ~(j < N)
    BY <1>1, <1>3, <1>7
  <2>2. /\ ASWT!Offset(axis, i) = (N * l) + (u * a) /\ ASWT!Offset(axis, j) = (N * l) + (v * a)
        /\ ASWT!Length(axis, i) = a
    BY <1>2, <1>7, <2>1
  <2> HIDE DEF u, v
  <2>3. (u + 1) * a <= v * a /\ (u + 1) * a = (u * a) + a /\ u * a \in Nat /\ v * a \in Nat
    BY <1>4, <2>1
  <2> QED BY <1>4, <2>2, <2>3
<1> QED BY <1>3, <1>5, <1>6, <1>7

(* Line x of an axis lies in block i.                                      *)
InSpan(x, axis, i) == ASWT!Offset(axis, i) <= x /\ x < ASWT!Offset(axis, i) + ASWT!Length(axis, i)

(* An L1 block lies within its axis.                                       *)
LEMMA SpanInside ==
  ASSUME NEW size \in Nat \ {0}, NEW axis, IsAxis(axis, size), NEW i \in 0 .. axis.count - 1
  PROVE  ASWT!Offset(axis, i) + ASWT!Length(axis, i) <= size
<1> DEFINE z == axis.count - 1
<1>1. /\ axis.count \in Nat \ {0} /\ axis.l1 \in Nat \ {0} /\ axis.norm \in Nat /\ axis.norm < axis.count
      /\ axis.main \in 1 .. axis.l1 /\ axis.last \in 1 .. axis.l1
      /\ size = (axis.norm * axis.l1) + ((z - axis.norm) * axis.main) + axis.last
  BY DEF IsAxis
<1>2. z \in 0 .. axis.count - 1 /\ ~(z < axis.norm)
  BY <1>1
<1>3. ASWT!Offset(axis, z) + ASWT!Length(axis, z) = size
  <2>1. /\ ASWT!Offset(axis, z) = (axis.norm * axis.l1) + ((z - axis.norm) * axis.main)
        /\ ASWT!Length(axis, z) = axis.last
    BY <1>2, AxisOffsets
  <2> HIDE DEF z
  <2> QED BY <1>1, <2>1
<1>4. CASE i = z
  BY <1>3, <1>4
<1>5. CASE i # z
  <2>1. i < z
    BY <1>1, <1>5
  <2>2. ASWT!Offset(axis, i) + ASWT!Length(axis, i) <= ASWT!Offset(axis, z)
    BY <1>2, <2>1, AxisAhead
  <2>3. ASWT!Offset(axis, z) \in Nat /\ ASWT!Length(axis, z) \in Nat
    <3>1. ASWT!Length(axis, z) \in 1 .. axis.l1 /\ ASWT!Offset(axis, z) \in Nat
      BY <1>2, AxisOffsets
    <3> QED BY <1>1, <3>1
  <2>4. ASWT!Offset(axis, i) \in Nat /\ ASWT!Length(axis, i) \in Nat
    <3>1. ASWT!Length(axis, i) \in 1 .. axis.l1 /\ ASWT!Offset(axis, i) \in Nat
      BY AxisOffsets
    <3> QED BY <1>1, <3>1
  <2> HIDE DEF z
  <2> QED BY <1>3, <2>2, <2>3, <2>4
<1> QED BY <1>4, <1>5

(* Every line lies in an L1 block.                                         *)
LEMMA SpanOf ==
  ASSUME NEW size \in Nat \ {0}, NEW axis, IsAxis(axis, size), NEW x \in 0 .. size - 1
  PROVE  \E i \in 0 .. axis.count - 1 : InSpan(x, axis, i)
<1> DEFINE N == axis.norm  l == axis.l1  a == axis.main  z == axis.count - 1  e == z - N
<1>1. /\ axis.count \in Nat \ {0} /\ l \in Nat \ {0} /\ N \in Nat /\ a \in Nat \ {0} /\ axis.last \in Nat
      /\ z \in Nat /\ e \in Nat /\ N <= z /\ z = N + e
      /\ size = (N * l) + (e * a) + axis.last
  BY DEF IsAxis
<1>2. ASSUME NEW i \in 0 .. z
      PROVE  /\ ASWT!Offset(axis, i) = IF i < N THEN i * l ELSE (N * l) + ((i - N) * a)
             /\ ASWT!Length(axis, i) = IF i < N THEN l ELSE IF i = z THEN axis.last ELSE a
  BY AxisOffsets
<1> HIDE DEF N, l, a, z, e
<1>3. x \in Nat /\ N * l \in Nat /\ e * a \in Nat /\ x < size
  BY <1>1
<1>4. CASE x < N * l
  <2> DEFINE i == x \div l
  <2>1. i \in Nat /\ l * i <= x /\ x < (l * i) + l /\ l * i = i * l
    BY <1>1, <1>3
  <2> HIDE DEF i
  <2>2. i < N
    <3>1. SUFFICES ASSUME N <= i PROVE FALSE
      BY <1>1, <2>1
    <3>2. N * l <= i * l /\ i * l \in Nat
      BY <1>1, <2>1, <3>1
    <3> QED BY <1>3, <1>4, <2>1, <3>2
  <2>3. i \in 0 .. z
    BY <1>1, <2>1, <2>2
  <2>4. ASWT!Offset(axis, i) = i * l /\ ASWT!Length(axis, i) = l
    BY <1>2, <2>2, <2>3
  <2>5. InSpan(x, axis, i)
    <3>1. l * i \in Nat
      BY <1>1, <2>1
    <3> QED BY <1>1, <1>3, <2>1, <2>4, <3>1 DEF InSpan
  <2> QED BY <2>3, <2>5 DEF z
<1>5. CASE ~(x < N * l) /\ x - (N * l) < e * a
  <2> DEFINE y == x - (N * l)  k == y \div a  i == N + k
  <2>0. y \in Nat /\ x = (N * l) + y
    BY <1>3, <1>5
  <2>1. k \in Nat /\ a * k <= y /\ y < (a * k) + a /\ a * k = k * a /\ a * k \in Nat
    BY <1>1, <2>0
  <2> HIDE DEF k
  <2>2. k < e
    <3>1. SUFFICES ASSUME e <= k PROVE FALSE
      BY <1>1, <2>1
    <3>2. e * a <= k * a /\ k * a \in Nat
      BY <1>1, <2>1, <3>1
    <3>3. y < e * a
      BY <1>5
    <3> QED BY <1>3, <2>0, <2>1, <3>2, <3>3
  <2>3. i \in 0 .. z /\ i # z /\ ~(i < N) /\ i - N = k
    BY <1>1, <2>1, <2>2
  <2> HIDE DEF i, y
  <2>4. ASWT!Offset(axis, i) = (N * l) + (k * a) /\ ASWT!Length(axis, i) = a
    BY <1>2, <2>3
  <2>5. InSpan(x, axis, i)
    BY <1>1, <1>3, <2>0, <2>1, <2>4 DEF InSpan
  <2> QED BY <2>3, <2>5 DEF z
<1>6. CASE ~(x < N * l) /\ ~(x - (N * l) < e * a)
  <2>1. z \in 0 .. z /\ ~(z < N) /\ z - N = e
    BY <1>1
  <2>2. ASWT!Offset(axis, z) = (N * l) + (e * a) /\ ASWT!Length(axis, z) = axis.last
    BY <1>2, <2>1
  <2>3. InSpan(x, axis, z)
    BY <1>1, <1>3, <1>6, <2>2 DEF InSpan
  <2> QED BY <2>1, <2>3 DEF z
<1> QED BY <1>4, <1>5, <1>6

(* No line lies in two L1 blocks.                                          *)
LEMMA OneSpan ==
  ASSUME NEW size \in Nat \ {0}, NEW axis, IsAxis(axis, size), NEW x \in Int,
         NEW i \in 0 .. axis.count - 1, NEW j \in 0 .. axis.count - 1,
         InSpan(x, axis, i), InSpan(x, axis, j)
  PROVE  i = j
<1>1. axis.count \in Nat
  BY DEF IsAxis
<1>2. ASSUME NEW u \in 0 .. axis.count - 1, NEW v \in 0 .. axis.count - 1, u < v,
             InSpan(x, axis, u), InSpan(x, axis, v)
      PROVE  FALSE
  <2>1. ASWT!Offset(axis, u) + ASWT!Length(axis, u) <= ASWT!Offset(axis, v)
    BY <1>2, AxisAhead
  <2>2. /\ ASWT!Offset(axis, u) \in Nat /\ ASWT!Length(axis, u) \in 1 .. axis.l1
        /\ ASWT!Offset(axis, v) \in Nat
    BY AxisOffsets
  <2>3. x < ASWT!Offset(axis, u) + ASWT!Length(axis, u) /\ ASWT!Offset(axis, v) <= x
    BY <1>2 DEF InSpan
  <2>4. axis.l1 \in Nat
    BY DEF IsAxis
  <2> QED BY <2>1, <2>2, <2>3, <2>4
<1> QED BY <1>1, <1>2

(* L0 blocks cut what is left of an L1 block into pieces: one that is no   *)
(* longer than the base block, or a fully loaded axis.                     *)
InPieces(axis, tail, size, base) ==
  \/ axis.l1 <= base
  \/ axis.count = 1 /\ tail = 1 /\ axis.l1 = ASWT!Align(size, 16)

(* What a launch of the ASWT kernel comes with.                            *)
IsLaunch(p, s) ==
  /\ IsAxis(s.m, p.m) /\ IsAxis(s.n, p.n)
  /\ InPieces(s.m, s.mTail, p.m, p.baseM) /\ InPieces(s.n, s.nTail, p.n, p.baseN)
  /\ s.mTail \in Nat \ {0} /\ s.nTail \in Nat \ {0} /\ s.tail = s.mTail * s.nTail
  /\ s.blockNum \in Nat \ {0}
  /\ s.rounds = ASWT!CeilDiv((s.m.count * s.n.count) * p.batch, s.blockNum)
  /\ s.tileNum = (s.m.count * s.n.count) + ((s.tail - 1) * ((s.m.count * s.n.count) % s.blockNum))
  /\ s.tail # 1 => /\ p.batch = 1 /\ (s.m.count * s.n.count) % s.blockNum # 0
                   /\ ((s.m.count * s.n.count) % s.blockNum) * s.tail <= s.blockNum

(* Block is what the host asked for, unless the axis is shorter.           *)
LEMMA AxisOfSide ==
  ASSUME NEW size \in Nat \ {0}, NEW base \in Nat \ {0}, NEW cap \in Nat \ {0}, NEW more,
         base % 16 = 0, cap % 16 = 0, Evenable(more, size, base),
         more # 0 => cap = base /\ ASWT!CeilDiv(size, base) # 1,
         cap = base \/ size <= cap,
         NEW axis, axis = ASWT!Axis(size, ASWT!Least(ASWT!Align(size, 16), cap), ASWT!Evened(size, base, more)),
         NEW tail, cap = base \/ tail = 1
  PROVE  IsAxis(axis, size) /\ axis.count = ASWT!CeilDiv(size, cap) /\ InPieces(axis, tail, size, base)
<1> DEFINE a == ASWT!Align(size, 16)  l1 == ASWT!Least(a, cap)
<1>1. axis.count = ASWT!CeilDiv(size, cap) /\ BlocksFitL1(axis)
  BY SideFits
<1>2. a \in Nat \ {0} /\ size <= a /\ \A b \in Nat : b % 16 = 0 /\ size <= b => a <= b
  BY WholeFractals
<1>3. axis = ASWT!Axis(size, l1, ASWT!Evened(size, base, more))
  OBVIOUS
<1>4. l1 = IF a < cap THEN a ELSE cap
  BY DEF ASWT!Least
<1> HIDE DEF a, l1
<1>5. l1 \in Nat \ {0}
  BY <1>2, <1>4
<1>6. more # 0 => l1 = base
  <2> SUFFICES ASSUME more # 0, l1 # base PROVE FALSE
    OBVIOUS
  <2>1. size <= 1 * base
    BY <1>2, <1>4
  <2>2. ASWT!CeilDiv(size, base) <= 1 /\ ASWT!CeilDiv(size, base) \in Nat \ {0}
    BY <2>1, LeastCover
  <2> QED BY <2>2
<1>7. IsAxis(axis, size) /\ axis.count = ASWT!CeilDiv(size, l1) /\ axis.l1 = l1
  BY <1>1, <1>3, <1>5, <1>6, AxisShape
<1>8. InPieces(axis, tail, size, base)
  <2>1. CASE cap = base
    <3>1. l1 <= base
      BY <1>2, <1>4, <2>1
    <3> QED BY <1>7, <3>1 DEF InPieces
  <2>2. CASE cap # base
    <3>1. size <= cap /\ tail = 1
      BY <2>2
    <3>2. a <= cap
      BY <1>2, <3>1
    <3>3. l1 = a
      BY <1>2, <1>4, <3>2
    <3>4. ASWT!CeilDiv(size, cap) = 1
      <4>1. size <= 1 * cap
        BY <3>1
      <4>2. ASWT!CeilDiv(size, cap) <= 1 /\ ASWT!CeilDiv(size, cap) \in Nat \ {0}
        BY <4>1, LeastCover
      <4> QED BY <4>2
    <3> QED BY <1>1, <1>7, <3>1, <3>3, <3>4 DEF InPieces, a
  <2> QED BY <2>1, <2>2
<1> QED BY <1>1, <1>7, <1>8

(* The axes of a launch, whatever is evened out, and how they are cut into *)
(* L0 blocks.                                                              *)
LEMMA AxesOfLaunch ==
  ASSUME NEW p, Settled(p), p.edge \in ASWT!Edges(p), NEW mTail, NEW nTail,
         p.way = "A" => mTail = 1, p.way = "B" => nTail = 1
  PROVE  /\ IsAxis(ASWT!MAxis(p), p.m) /\ IsAxis(ASWT!NAxis(p), p.n)
         /\ InPieces(ASWT!MAxis(p), mTail, p.m, p.baseM) /\ InPieces(ASWT!NAxis(p), nTail, p.n, p.baseN)
<1> DEFINE M == ASWT!MCnt(p)  N == ASWT!NCnt(p)
           capM == IF p.way = "A" THEN M * p.baseM ELSE p.baseM
           capN == IF p.way = "B" THEN N * p.baseN ELSE p.baseN
<1>1. /\ p.m \in Nat \ {0} /\ p.baseM \in Nat \ {0} /\ p.baseM % 16 = 0
      /\ p.n \in Nat \ {0} /\ p.baseN \in Nat \ {0} /\ p.baseN % 16 = 0
  BY DEF Settled
<1>2. /\ M = ASWT!CeilDiv(p.m, p.baseM) /\ M \in Nat \ {0} /\ p.m <= M * p.baseM
      /\ N = ASWT!CeilDiv(p.n, p.baseN) /\ N \in Nat \ {0} /\ p.n <= N * p.baseN
  BY <1>1, LeastCover DEF ASWT!MCnt, ASWT!NCnt
<1>3. /\ Evenable(p.edge[1], p.m, p.baseM) /\ (p.edge[1] # 0 => p.way = "none" /\ M # 1)
      /\ Evenable(p.edge[2], p.n, p.baseN) /\ (p.edge[2] # 0 => p.way = "none" /\ N # 1)
  BY EdgeFacts
<1>4. /\ ASWT!MAxis(p) = ASWT!Axis(p.m, ASWT!Least(ASWT!Align(p.m, 16), capM),
                                  ASWT!Evened(p.m, p.baseM, p.edge[1]))
      /\ ASWT!NAxis(p) = ASWT!Axis(p.n, ASWT!Least(ASWT!Align(p.n, 16), capN),
                                  ASWT!Evened(p.n, p.baseN, p.edge[2]))
  BY DEF ASWT!MAxis, ASWT!NAxis, ASWT!BASIC_BLOCK_SIZE_16
<1> HIDE DEF M, N
<1>5. ASSUME NEW a \in Nat \ {0}, NEW b \in Nat \ {0}, b % 16 = 0
      PROVE  a * b \in Nat \ {0} /\ ((a * b) % 16) = 0
  <2> DEFINE q == b \div 16
  <2>1. q \in Nat /\ b = 16 * q
    BY <1>5
  <2> HIDE DEF q
  <2>2. a * b = 16 * (a * q) /\ a * q \in Nat
    BY <2>1
  <2>3. a * b \in Nat \ {0}
    BY <1>5
  <2> DEFINE v == a * q
  <2>4. v \in Nat /\ a * b = 16 * v
    BY <2>2
  <2> HIDE DEF v
  <2>5. ((16 * v) % 16) = 0
    BY <2>4
  <2> QED BY <2>3, <2>4, <2>5
<1>6. /\ M * p.baseM \in Nat \ {0} /\ ((M * p.baseM) % 16) = 0
      /\ N * p.baseN \in Nat \ {0} /\ ((N * p.baseN) % 16) = 0
  BY <1>1, <1>2, <1>5
<1>7. /\ capM \in Nat \ {0} /\ capM % 16 = 0 /\ (p.edge[1] # 0 => capM = p.baseM)
      /\ (capM = p.baseM \/ p.m <= capM) /\ (capM = p.baseM \/ mTail = 1)
  BY <1>1, <1>2, <1>3, <1>6
<1>8. /\ capN \in Nat \ {0} /\ capN % 16 = 0 /\ (p.edge[2] # 0 => capN = p.baseN)
      /\ (capN = p.baseN \/ p.n <= capN) /\ (capN = p.baseN \/ nTail = 1)
  BY <1>1, <1>2, <1>3, <1>6
<1> HIDE DEF capM, capN
<1>9. IsAxis(ASWT!MAxis(p), p.m) /\ InPieces(ASWT!MAxis(p), mTail, p.m, p.baseM)
  <2> DEFINE axis == ASWT!MAxis(p)  more == p.edge[1]  base == p.baseM  size == p.m
  <2>1. /\ size \in Nat \ {0} /\ base \in Nat \ {0} /\ capM \in Nat \ {0}
        /\ base % 16 = 0 /\ capM % 16 = 0 /\ Evenable(more, size, base)
        /\ (capM = base \/ size <= capM) /\ (capM = base \/ mTail = 1)
    BY <1>1, <1>3, <1>7
  <2>2. more # 0 => capM = base /\ ASWT!CeilDiv(size, base) # 1
    BY <1>2, <1>3, <1>7
  <2>3. axis = ASWT!Axis(size, ASWT!Least(ASWT!Align(size, 16), capM), ASWT!Evened(size, base, more))
    BY <1>4
  <2> HIDE DEF axis, more, base, size
  <2>4. IsAxis(axis, size) /\ InPieces(axis, mTail, size, base)
    BY <2>1, <2>2, <2>3, AxisOfSide
  <2> QED BY <2>4 DEF axis, size, base
<1>10. IsAxis(ASWT!NAxis(p), p.n) /\ InPieces(ASWT!NAxis(p), nTail, p.n, p.baseN)
  <2> DEFINE axis == ASWT!NAxis(p)  more == p.edge[2]  base == p.baseN  size == p.n
  <2>1. /\ size \in Nat \ {0} /\ base \in Nat \ {0} /\ capN \in Nat \ {0}
        /\ base % 16 = 0 /\ capN % 16 = 0 /\ Evenable(more, size, base)
        /\ (capN = base \/ size <= capN) /\ (capN = base \/ nTail = 1)
    BY <1>1, <1>3, <1>8
  <2>2. more # 0 => capN = base /\ ASWT!CeilDiv(size, base) # 1
    BY <1>2, <1>3, <1>8
  <2>3. axis = ASWT!Axis(size, ASWT!Least(ASWT!Align(size, 16), capN), ASWT!Evened(size, base, more))
    BY <1>4
  <2> HIDE DEF axis, more, base, size
  <2>4. IsAxis(axis, size) /\ InPieces(axis, nTail, size, base)
    BY <2>1, <2>2, <2>3, AxisOfSide
  <2> QED BY <2>4 DEF axis, size, base
<1> QED BY <1>9, <1>10

(* The host comes with a launch, whatever it makes of the base block, the  *)
(* edge and the last round.                                                *)
LEMMA Launched ==
  ASSUME NEW p, Settled(p), p.edge \in ASWT!Edges(p)
  PROVE  IsLaunch(p, ASWT!Scheduler(p))
<1> DEFINE m == ASWT!MAxis(p)  n == ASWT!NAxis(p)  s == ASWT!Scheduler(p)
           M == ASWT!MCnt(p)  N == ASWT!NCnt(p)
           a == ASWT!TailCnt(p)[1]  b == ASWT!TailCnt(p)[2]  t == ASWT!TailTiles(p)
           tiles == m.count * n.count
           split == p.batch = 1
           mTail == IF split THEN ASWT!CeilDiv(m.last, ASWT!CeilDiv(m.last, a)) ELSE 1
           nTail == IF split THEN ASWT!CeilDiv(n.last, ASWT!CeilDiv(n.last, b)) ELSE 1
           blockNum == IF split /\ p.way = "none" THEN ASWT!Least(tiles, p.cores) ELSE p.cores
<1>1. /\ m.count = IF p.way = "A" THEN 1 ELSE M
      /\ n.count = IF p.way = "B" THEN 1 ELSE N
      /\ BlocksFitL1(m) /\ BlocksFitL1(n)
  BY AxesFit
<1>2. /\ s.m = m /\ s.n = n /\ s.tail = mTail * nTail /\ s.blockNum = blockNum
      /\ s.mTail = mTail /\ s.nTail = nTail
      /\ s.rounds = ASWT!CeilDiv(tiles * p.batch, blockNum)
      /\ s.tileNum = tiles + (mTail * nTail - 1) * (tiles % blockNum)
  <2> HIDE DEF a, b, m, n
  <2> QED BY DEF ASWT!Scheduler, ASWT!Counting, ASWT!Started, a, b, m, n
<1>3. /\ a \in Nat \ {0} /\ b \in Nat \ {0} /\ t \in 0 .. p.cores - 1
      /\ (t = 0 => a = 1 /\ b = 1)
      /\ (p.way = "A" => a = 1) /\ (p.way = "B" => b = 1)
  <2>1. t = 0 => ASWT!TailCnt(p) = <<1, 1>>
    BY TailCntFits
  <2>2. p.way = "A" /\ t # 0 => ASWT!TailCnt(p) = <<1, p.cores \div ASWT!TailTiles(p)>>
    BY DEF ASWT!TailCnt
  <2>3. p.way = "B" /\ t # 0 => ASWT!TailCnt(p) = <<p.cores \div ASWT!TailTiles(p), 1>>
    BY DEF ASWT!TailCnt
  <2>4. /\ ASWT!TailCnt(p)[1] \in Nat \ {0} /\ ASWT!TailCnt(p)[2] \in Nat \ {0}
        /\ ASWT!TailTiles(p) \in 0 .. p.cores - 1
    BY TailCntFits
  <2> QED BY <2>1, <2>2, <2>3, <2>4
<1>4. M \in Nat \ {0} /\ N \in Nat \ {0} /\ p.cores \in Nat \ {0}
  <2>1. /\ p.m \in Nat \ {0} /\ p.baseM \in Nat \ {0} /\ p.n \in Nat \ {0} /\ p.baseN \in Nat \ {0}
        /\ p.cores \in Nat \ {0}
    BY DEF Settled
  <2> QED BY <2>1, LeastCover DEF ASWT!MCnt, ASWT!NCnt
<1>5. p.way \in {"none", "A", "B"} /\ p.batch \in Nat \ {0} /\ (p.batch > 1 => p.way = "none")
  BY DEF Settled
<1>6. t = IF (CASE p.way = "none" -> M * N [] p.way = "A" -> N [] p.way = "B" -> M) <= p.cores THEN 0
          ELSE (CASE p.way = "none" -> M * N [] p.way = "A" -> N [] p.way = "B" -> M) % p.cores
  BY DEF ASWT!TailTiles
<1>7. /\ m.last \in Nat \ {0} /\ n.last \in Nat \ {0}
  <2> HIDE DEF m, n
  <2> QED BY <1>1 DEF BlocksFitL1
<1>8. ((s.m.count * s.n.count) % s.blockNum) * s.tail <= s.blockNum
  BY RoundFits DEF ASWT!PartsFit
<1>9. ASSUME NEW x, NEW y, p.way = "A" => x = 1, p.way = "B" => y = 1
      PROVE  /\ IsAxis(m, p.m) /\ IsAxis(n, p.n)
             /\ InPieces(m, x, p.m, p.baseM) /\ InPieces(n, y, p.n, p.baseN)
  BY <1>9, AxesOfLaunch
<1> HIDE DEF m, n, M, N, a, b, t
<1>10. tiles \in Nat \ {0} /\ t = IF tiles <= p.cores THEN 0 ELSE tiles % p.cores
  <2>1. M * N \in Nat \ {0} /\ 1 * N = N /\ M * 1 = M
    BY <1>4
  <2>2. CASE p.way = "none"
    BY <1>1, <1>6, <2>1, <2>2
  <2>3. CASE p.way = "A"
    BY <1>1, <1>4, <1>6, <2>1, <2>3
  <2>4. CASE p.way = "B"
    BY <1>1, <1>4, <1>6, <2>1, <2>4
  <2> QED BY <1>5, <2>2, <2>3, <2>4
<1>11. /\ mTail \in Nat \ {0} /\ mTail <= a /\ nTail \in Nat \ {0} /\ nTail <= b
       /\ (~split => mTail = 1 /\ nTail = 1)
  <2> DEFINE x == ASWT!CeilDiv(m.last, ASWT!CeilDiv(m.last, a))
             y == ASWT!CeilDiv(n.last, ASWT!CeilDiv(n.last, b))
  <2>1. x \in Nat \ {0} /\ x <= a
    BY <1>3, <1>7, PartsOfTile
  <2>2. y \in Nat \ {0} /\ y <= b
    BY <1>3, <1>7, PartsOfTile
  <2>3. mTail = (IF split THEN x ELSE 1) /\ nTail = (IF split THEN y ELSE 1)
    OBVIOUS
  <2> HIDE DEF x, y, mTail, nTail
  <2> QED BY <1>3, <2>1, <2>2, <2>3
<1>12. (p.way = "A" => mTail = 1) /\ (p.way = "B" => nTail = 1) /\ (t = 0 => mTail = 1 /\ nTail = 1)
  <2> HIDE DEF mTail, nTail
  <2> QED BY <1>3, <1>11
<1>13. blockNum \in Nat \ {0} /\ (tiles > p.cores => blockNum = p.cores)
  BY <1>4, <1>10 DEF ASWT!Least
<1> HIDE DEF mTail, nTail, blockNum, tiles, s
<1>14. /\ IsAxis(m, p.m) /\ IsAxis(n, p.n)
       /\ InPieces(m, mTail, p.m, p.baseM) /\ InPieces(n, nTail, p.n, p.baseN)
  BY <1>9, <1>12
<1>15. ASSUME mTail * nTail # 1 PROVE p.batch = 1 /\ tiles % blockNum # 0
  <2>1. ~(mTail = 1 /\ nTail = 1)
    BY <1>15
  <2>2. p.batch = 1 /\ t # 0
    BY <1>11, <1>12, <2>1
  <2>3. tiles > p.cores /\ t = tiles % p.cores
    BY <1>4, <1>10, <2>2
  <2> QED BY <1>13, <2>2, <2>3
<1>16. tiles = s.m.count * s.n.count
  BY <1>2 DEF tiles
<1> QED BY <1>2, <1>8, <1>11, <1>13, <1>14, <1>15, <1>16 DEF IsLaunch, s

(* The numbers a launch of the ASWT kernel goes through: the block that    *)
(* takes number i, its batch, its tile and which part of it.               *)
TilesOfLaunch(s) == s.m.count * s.n.count
NumbersOf(p, s) == 0 .. (s.tileNum * p.batch) - 1
BatchAt(p, s, i) == IF p.batch > 1 THEN i \div s.tileNum ELSE 0
SplitAt(s, i) == ASWT!InSplitRound(s, i)
TileAt(s, i) == ASWT!TileIdx(s, i % s.blockNum, i)
PartAt(s, i) == (i % s.blockNum) % s.tail
WholeRounds(s) == TilesOfLaunch(s) \div s.blockNum
LeftOver(s) == TilesOfLaunch(s) % s.blockNum

(* How many numbers the blocks of a launch go through.                     *)
LEMMA LaunchCounts ==
  ASSUME NEW p, NEW s, IsLaunch(p, s), p.batch \in Nat \ {0}
  PROVE  /\ TilesOfLaunch(s) \in Nat \ {0} /\ s.blockNum \in Nat \ {0} /\ s.tail \in Nat \ {0}
         /\ WholeRounds(s) \in Nat /\ LeftOver(s) \in 0 .. s.blockNum - 1
         /\ TilesOfLaunch(s) = (s.blockNum * WholeRounds(s)) + LeftOver(s)
         /\ s.tail = 1 => s.tileNum = TilesOfLaunch(s)
         /\ s.tail # 1 => /\ p.batch = 1 /\ LeftOver(s) # 0 /\ LeftOver(s) * s.tail <= s.blockNum
                          /\ s.rounds = WholeRounds(s) + 1
                          /\ s.tileNum = (s.blockNum * WholeRounds(s)) + (LeftOver(s) * s.tail)
<1> DEFINE Q == TilesOfLaunch(s)  N == s.blockNum  k == s.tail  D == Q \div N  e == Q % N
<1>1. N \in Nat \ {0} /\ k \in Nat \ {0}
  <2>1. s.mTail \in Nat \ {0} /\ s.nTail \in Nat \ {0} /\ s.tail = s.mTail * s.nTail
    BY DEF IsLaunch
  <2> QED BY <2>1 DEF IsLaunch
<1>2. Q \in Nat \ {0}
  <2>1. s.m.count \in Nat \ {0} /\ s.n.count \in Nat \ {0}
    BY DEF IsLaunch, IsAxis
  <2> QED BY <2>1 DEF TilesOfLaunch
<1>3. /\ s.tileNum = Q + ((k - 1) * e) /\ s.rounds = ASWT!CeilDiv(Q * p.batch, N)
      /\ k # 1 => p.batch = 1 /\ e # 0 /\ e * k <= N
  BY DEF IsLaunch, TilesOfLaunch
<1>4. WholeRounds(s) = D /\ LeftOver(s) = e
  BY DEF WholeRounds, LeftOver
<1> HIDE DEF Q, N, k
<1>5. D \in Nat /\ e \in 0 .. N - 1 /\ Q = (N * D) + e
  BY <1>1, <1>2
<1> HIDE DEF D, e
<1>6. ASSUME k = 1 PROVE s.tileNum = Q
  <2>1. (k - 1) * e = 0
    BY <1>1, <1>5, <1>6
  <2> QED BY <1>2, <1>3, <2>1
<1>7. ASSUME k # 1 PROVE s.rounds = D + 1 /\ s.tileNum = (N * D) + (e * k)
  <2>1. (k - 1) * e = (e * k) - e /\ e * k \in Nat /\ N * D \in Nat
    BY <1>1, <1>5
  <2>2. s.tileNum = (N * D) + (e * k)
    BY <1>1, <1>3, <1>5, <2>1
  <2>3. s.rounds = ASWT!CeilDiv(Q, N)
    BY <1>2, <1>3, <1>7
  <2> DEFINE c == ASWT!CeilDiv(Q, N)
  <2>4. c \in Nat \ {0} /\ Q <= c * N /\ (c - 1) * N < Q
    BY <1>1, <1>2, LeastCover
  <2> HIDE DEF c
  <2>5. c * N = N * c /\ (c - 1) * N = (N * c) - N /\ N * c \in Nat
    BY <1>1, <2>4
  <2>6. e \in 1 .. N - 1
    BY <1>1, <1>3, <1>5, <1>7
  <2>7. ~(c <= D)
    <3>1. SUFFICES ASSUME c <= D PROVE FALSE
      OBVIOUS
    <3>2. N * c <= N * D /\ N * D \in Nat
      BY <1>1, <1>5, <2>4, <3>1
    <3> QED BY <1>1, <1>5, <2>4, <2>5, <2>6, <3>2
  <2>8. ~(D + 2 <= c)
    <3>1. SUFFICES ASSUME D + 2 <= c PROVE FALSE
      OBVIOUS
    <3>2. N * (D + 2) <= N * c /\ N * (D + 2) = (N * D) + N + N /\ N * D \in Nat
      BY <1>1, <1>5, <2>4, <3>1
    <3> QED BY <1>1, <1>5, <2>4, <2>5, <2>6, <3>2
  <2>9. c = D + 1
    BY <1>5, <2>4, <2>7, <2>8
  <2> QED BY <2>2, <2>3, <2>9 DEF c
<1> QED BY <1>1, <1>2, <1>3, <1>4, <1>5, <1>6, <1>7 DEF Q, N, k

(* The last round is split where it begins: behind the whole ones.         *)
LEMMA SplitsLast ==
  ASSUME NEW p, NEW s, IsLaunch(p, s), p.batch \in Nat \ {0}, NEW i \in NumbersOf(p, s)
  PROVE  /\ i \in Nat
         /\ SplitAt(s, i) <=> s.tail # 1 /\ s.blockNum * WholeRounds(s) <= i
         /\ SplitAt(s, i) => /\ i % s.blockNum = i - (s.blockNum * WholeRounds(s))
                             /\ (i % s.blockNum) < LeftOver(s) * s.tail
                             /\ TileAt(s, i) = (s.blockNum * WholeRounds(s)) + ((i % s.blockNum) \div s.tail)
                             /\ BatchAt(p, s, i) = 0
         /\ ~SplitAt(s, i) /\ s.tail # 1 => TileAt(s, i) = i /\ BatchAt(p, s, i) = 0
         /\ s.tail = 1 => TileAt(s, i) = i % TilesOfLaunch(s) /\ BatchAt(p, s, i) = i \div TilesOfLaunch(s)
<1> DEFINE Q == TilesOfLaunch(s)  N == s.blockNum  k == s.tail  D == WholeRounds(s)  e == LeftOver(s)
           T == s.tileNum  b == p.batch
<1>1. /\ Q \in Nat \ {0} /\ N \in Nat \ {0} /\ k \in Nat \ {0} /\ D \in Nat /\ e \in 0 .. N - 1
      /\ Q = (N * D) + e /\ (k = 1 => T = Q)
      /\ k # 1 => b = 1 /\ e # 0 /\ e * k <= N /\ s.rounds = D + 1 /\ T = (N * D) + (e * k)
  BY LaunchCounts
<1>2. SplitAt(s, i) <=> i \div N = s.rounds - 1 /\ k # 1
  BY DEF SplitAt, ASWT!InSplitRound
<1>3. TileAt(s, i) = LET j == i % T IN
                     IF j \div N = s.rounds - 1 /\ k # 1 THEN (s.rounds - 1) * N + ((i % N) \div k) ELSE j
  BY DEF TileAt, ASWT!TileIdx, ASWT!InSplitRound
<1>4. BatchAt(p, s, i) = IF b > 1 THEN i \div T ELSE 0
  BY DEF BatchAt
<1>5. i \in 0 .. (T * b) - 1
  BY DEF NumbersOf
<1> HIDE DEF Q, N, k, D, e, T, b
<1>6. b \in Nat \ {0} /\ T \in Nat \ {0}
  <2>1. k # 1 => e * k \in Nat /\ N * D \in Nat /\ e * k # 0
    BY <1>1
  <2> QED BY <1>1, <2>1 DEF b
<1>7. i \in Nat /\ i < T * b
  <2>1. T * b \in Nat
    BY <1>6
  <2> QED BY <1>5, <1>6, <2>1
<1>8. ASSUME k # 1
      PROVE  /\ i < T /\ (i % T) = i
             /\ i \div N = D <=> N * D <= i
             /\ N * D <= i => (i % N) = i - (N * D) /\ (i % N) < e * k
  <2>1. b = 1 /\ T * 1 = T /\ e * k <= N /\ e * k \in Nat /\ N * D \in Nat /\ T = (N * D) + (e * k)
    BY <1>1, <1>6, <1>8
  <2>2. i < T
    BY <1>7, <2>1
  <2>3. (i % T) = i
    BY <1>6, <1>7, <2>2
  <2> DEFINE c == i \div N  r == i % N
  <2>4. c \in Nat /\ r \in 0 .. N - 1 /\ i = (N * c) + r
    BY <1>1, <1>7
  <2> HIDE DEF c, r
  <2>5. c <= D
    <3>1. SUFFICES ASSUME D + 1 <= c PROVE FALSE
      BY <1>1, <2>4
    <3>2. N * (D + 1) <= N * c /\ N * (D + 1) = (N * D) + N /\ N * c \in Nat
      BY <1>1, <2>4, <3>1
    <3> QED BY <1>1, <1>7, <2>1, <2>2, <2>4, <3>2
  <2>6. ASSUME N * D <= i PROVE c = D
    <3>1. SUFFICES ASSUME c + 1 <= D PROVE FALSE
      BY <1>1, <2>4, <2>5
    <3>2. N * (c + 1) <= N * D /\ N * (c + 1) = (N * c) + N /\ N * c \in Nat
      BY <1>1, <2>4, <3>1
    <3> QED BY <1>1, <2>4, <2>6, <3>2
  <2>7. c = D => N * D <= i /\ r = i - (N * D)
    <3>1. N * D \in Nat
      BY <1>1
    <3> QED BY <1>1, <2>4, <3>1
  <2>8. N * D <= i => r < e * k
    BY <1>1, <1>7, <2>1, <2>2, <2>6, <2>7
  <2> QED BY <2>2, <2>3, <2>6, <2>7, <2>8 DEF c, r
<1>9. ASSUME k # 1, N * D <= i
      PROVE  /\ SplitAt(s, i) /\ (i % N) = i - (N * D) /\ (i % N) < e * k
             /\ TileAt(s, i) = (N * D) + ((i % N) \div k) /\ BatchAt(p, s, i) = 0
  <2>1. s.rounds - 1 = D /\ b = 1 /\ D * N = N * D
    BY <1>1, <1>9
  <2>2. (i % T) = i /\ i \div N = D
    BY <1>8, <1>9
  <2>3. TileAt(s, i) = D * N + ((i % N) \div k)
    BY <1>3, <1>9, <2>1, <2>2
  <2> QED BY <1>2, <1>4, <1>8, <1>9, <2>1, <2>2, <2>3
<1>10. ASSUME k # 1, ~(N * D <= i)
       PROVE  ~SplitAt(s, i) /\ TileAt(s, i) = i /\ BatchAt(p, s, i) = 0
  <2>1. s.rounds - 1 = D /\ b = 1
    BY <1>1, <1>10
  <2>2. (i % T) = i /\ ~(i \div N = D)
    BY <1>8, <1>10
  <2>3. TileAt(s, i) = i
    BY <1>3, <2>1, <2>2
  <2> QED BY <1>2, <1>4, <2>1, <2>2, <2>3
<1>11. ASSUME k = 1
       PROVE  ~SplitAt(s, i) /\ TileAt(s, i) = i % Q /\ BatchAt(p, s, i) = i \div Q
  <2>1. T = Q
    BY <1>1, <1>11
  <2>2. TileAt(s, i) = i % Q
    BY <1>3, <1>11, <2>1
  <2>3. BatchAt(p, s, i) = i \div Q
    <3>1. CASE b > 1
      BY <1>4, <2>1, <3>1
    <3>2. CASE ~(b > 1)
      <4>1. b = 1 /\ Q * 1 = Q
        BY <1>1, <1>6, <3>2
      <4>2. i < Q
        BY <1>7, <2>1, <4>1
      <4>3. i \div Q = 0
        BY <1>1, <1>7, <4>2
      <4> QED BY <1>4, <3>2, <4>3
    <3> QED BY <3>1, <3>2
  <2> QED BY <1>2, <1>11, <2>2, <2>3
<1>12. CASE k = 1
  BY <1>7, <1>11, <1>12 DEF k, Q
<1>13. CASE k # 1 /\ N * D <= i
  BY <1>7, <1>9, <1>13 DEF k, N, D, e
<1>14. CASE k # 1 /\ ~(N * D <= i)
  BY <1>7, <1>10, <1>14 DEF k, N, D, e
<1> QED BY <1>12, <1>13, <1>14

(* Numbers are for tiles of the output and parts of them.                  *)
LEMMA NumbersInside ==
  ASSUME NEW p, NEW s, IsLaunch(p, s), p.batch \in Nat \ {0}, NEW i \in NumbersOf(p, s)
  PROVE  /\ TileAt(s, i) \in 0 .. TilesOfLaunch(s) - 1 /\ BatchAt(p, s, i) \in 0 .. p.batch - 1
         /\ PartAt(s, i) \in 0 .. s.tail - 1 /\ i % s.blockNum \in 0 .. s.blockNum - 1
<1> DEFINE Q == TilesOfLaunch(s)  N == s.blockNum  k == s.tail  D == WholeRounds(s)  e == LeftOver(s)
           b == p.batch
<1>1. /\ Q \in Nat \ {0} /\ N \in Nat \ {0} /\ k \in Nat \ {0} /\ D \in Nat /\ e \in 0 .. N - 1
      /\ Q = (N * D) + e /\ b \in Nat \ {0} /\ (k = 1 => s.tileNum = Q)
  BY LaunchCounts
<1>2. /\ i \in Nat
      /\ SplitAt(s, i) <=> k # 1 /\ N * D <= i
      /\ SplitAt(s, i) => /\ (i % N) < e * k
                          /\ TileAt(s, i) = (N * D) + ((i % N) \div k)
                          /\ BatchAt(p, s, i) = 0
      /\ ~SplitAt(s, i) /\ k # 1 => TileAt(s, i) = i /\ BatchAt(p, s, i) = 0
      /\ k = 1 => TileAt(s, i) = i % Q /\ BatchAt(p, s, i) = i \div Q
  BY SplitsLast
<1>3. i \in 0 .. (s.tileNum * b) - 1
  BY DEF NumbersOf
<1>4. PartAt(s, i) = (i % N) % k
  BY DEF PartAt
<1> HIDE DEF Q, N, k, D, e, b
<1>5. i % N \in 0 .. N - 1
  BY <1>1, <1>2
<1>6. PartAt(s, i) \in 0 .. k - 1
  BY <1>1, <1>4, <1>5
<1>7. CASE k = 1
  <2>1. i < Q * b /\ i \in Nat
    <3>1. Q * b \in Nat
      BY <1>1
    <3> QED BY <1>1, <1>2, <1>3, <1>7, <3>1
  <2> DEFINE c == i \div Q  r == i % Q
  <2>2. c \in Nat /\ r \in 0 .. Q - 1 /\ i = (Q * c) + r
    BY <1>1, <2>1
  <2>3. TileAt(s, i) = r /\ BatchAt(p, s, i) = c
    BY <1>2, <1>7
  <2> HIDE DEF c, r
  <2>4. c < b
    <3>1. SUFFICES ASSUME b <= c PROVE FALSE
      BY <1>1, <2>2
    <3>2. Q * b <= Q * c /\ Q * c \in Nat /\ Q * b \in Nat
      BY <1>1, <2>2, <3>1
    <3> QED BY <1>1, <2>1, <2>2, <3>2
  <2> QED BY <1>1, <1>5, <1>6, <2>2, <2>3, <2>4 DEF Q, N, k, b
<1>8. CASE k # 1 /\ SplitAt(s, i)
  <2> DEFINE w == i % N  v == w \div k
  <2>1. w \in Nat /\ w < e * k /\ TileAt(s, i) = (N * D) + v /\ BatchAt(p, s, i) = 0
    BY <1>1, <1>2, <1>5, <1>8
  <2> HIDE DEF w
  <2>2. v \in Nat /\ k * v <= w
    BY <1>1, <2>1
  <2> HIDE DEF v
  <2>3. v < e
    <3>1. SUFFICES ASSUME e <= v PROVE FALSE
      BY <1>1, <2>2
    <3>2. k * e <= k * v /\ k * e = e * k /\ k * v \in Nat /\ e * k \in Nat
      BY <1>1, <2>2, <3>1
    <3> QED BY <2>1, <2>2, <3>2
  <2>4. N * D \in Nat
    BY <1>1
  <2> QED BY <1>1, <1>5, <1>6, <2>1, <2>2, <2>3, <2>4 DEF Q, N, k, b
<1>9. CASE k # 1 /\ ~SplitAt(s, i)
  <2>1. TileAt(s, i) = i /\ BatchAt(p, s, i) = 0 /\ ~(N * D <= i)
    BY <1>2, <1>9
  <2>2. N * D \in Nat
    BY <1>1
  <2> QED BY <1>1, <1>2, <1>5, <1>6, <2>1, <2>2 DEF Q, N, k, b
<1> QED BY <1>7, <1>8, <1>9

(* Every tile of every batch has a number, or every part of it does.       *)
LEMMA NumbersReach ==
  ASSUME NEW p, NEW s, IsLaunch(p, s), p.batch \in Nat \ {0},
         NEW b \in 0 .. p.batch - 1, NEW t \in 0 .. TilesOfLaunch(s) - 1
  PROVE  \/ \E i \in NumbersOf(p, s) : BatchAt(p, s, i) = b /\ TileAt(s, i) = t /\ ~SplitAt(s, i)
         \/ \A q \in 0 .. s.tail - 1 :
              \E i \in NumbersOf(p, s) : BatchAt(p, s, i) = b /\ TileAt(s, i) = t /\ SplitAt(s, i) /\ PartAt(s, i) = q
<1> DEFINE Q == TilesOfLaunch(s)  N == s.blockNum  k == s.tail  D == WholeRounds(s)  e == LeftOver(s)
           T == s.tileNum  S == NumbersOf(p, s)
<1>1. /\ Q \in Nat \ {0} /\ N \in Nat \ {0} /\ k \in Nat \ {0} /\ D \in Nat /\ e \in 0 .. N - 1
      /\ Q = (N * D) + e /\ (k = 1 => T = Q)
      /\ k # 1 => p.batch = 1 /\ e # 0 /\ e * k <= N /\ T = (N * D) + (e * k)
  BY LaunchCounts
<1>2. ASSUME NEW i \in S
      PROVE  /\ SplitAt(s, i) <=> k # 1 /\ N * D <= i
             /\ SplitAt(s, i) => /\ (i % N) = i - (N * D)
                                 /\ TileAt(s, i) = (N * D) + ((i % N) \div k)
                                 /\ BatchAt(p, s, i) = 0
             /\ ~SplitAt(s, i) /\ k # 1 => TileAt(s, i) = i /\ BatchAt(p, s, i) = 0
             /\ k = 1 => TileAt(s, i) = i % Q /\ BatchAt(p, s, i) = i \div Q
             /\ PartAt(s, i) = (i % N) % k
  BY SplitsLast DEF PartAt
<1>3. S = 0 .. (T * p.batch) - 1
  BY DEF NumbersOf
<1>4. t \in Nat /\ t < Q /\ b \in Nat /\ b < p.batch
  BY <1>1 DEF Q
<1> HIDE DEF Q, N, k, D, e, T, S
<1>5. CASE k = 1
  <2> DEFINE i == (b * Q) + t
  <2> DEFINE h == p.batch
  <2>0. /\ h \in Nat \ {0} /\ Q \in Nat \ {0} /\ b \in Nat /\ t \in Nat /\ b < h /\ t < Q
        /\ i = (b * Q) + t
    BY <1>1, <1>4
  <2> HIDE DEF i, h
  <2>1. i \in Nat /\ i < h * Q /\ i \div Q = b /\ (i % Q) = t
    BY <2>0, NumberOf
  <2> USE DEF h
  <2>2. p.batch * Q = T * p.batch /\ T * p.batch \in Nat
    BY <1>1, <1>5
  <2>3. i \in S
    BY <1>3, <2>1, <2>2
  <2> QED BY <1>2, <1>5, <2>1, <2>3 DEF S
<1>6. CASE k # 1 /\ t < N * D
  <2>1. t \in S
    <3>1. T * 1 = T /\ N * D \in Nat /\ e * k \in Nat /\ T = (N * D) + (e * k) /\ p.batch = 1
      BY <1>1, <1>6
    <3> QED BY <1>3, <1>4, <1>6, <3>1
  <2>2. ~(N * D <= t)
    <3>1. N * D \in Nat
      BY <1>1
    <3> QED BY <1>4, <1>6, <3>1
  <2>3. b = 0
    BY <1>1, <1>4, <1>6
  <2> QED BY <1>2, <1>6, <2>1, <2>2, <2>3 DEF S
<1>7. CASE k # 1 /\ ~(t < N * D)
  <2> DEFINE u == t - (N * D)
  <2>1. N * D \in Nat /\ u \in Nat /\ u < e /\ t = (N * D) + u
    <3>1. N * D \in Nat
      BY <1>1
    <3> QED BY <1>1, <1>4, <1>7, <3>1
  <2> HIDE DEF u
  <2>2. ASSUME NEW q \in 0 .. k - 1
        PROVE  \E i \in S : BatchAt(p, s, i) = b /\ TileAt(s, i) = t /\ SplitAt(s, i) /\ PartAt(s, i) = q
    <3> DEFINE c == (u * k) + q  i == (N * D) + c
    <3>1. c \in Nat /\ c < e * k /\ c \div k = u /\ (c % k) = q
      <4>1. q \in Nat /\ q < k /\ e \in Nat \ {0}
        BY <1>1, <1>7
      <4> QED BY <1>1, <2>1, <4>1, NumberOf
    <3> HIDE DEF c
    <3>2. i \in Nat /\ N * D <= i /\ i - (N * D) = c /\ i < T /\ T * 1 = T /\ T \in Nat
      <4>1. e * k \in Nat /\ T = (N * D) + (e * k)
        BY <1>1, <1>7
      <4> QED BY <2>1, <3>1, <4>1
    <3> HIDE DEF i
    <3>3. i \in S
      BY <1>1, <1>3, <1>7, <3>2
    <3>4. SplitAt(s, i) /\ (i % N) = c
      BY <1>2, <1>7, <3>2, <3>3
    <3>5. TileAt(s, i) = (N * D) + u /\ BatchAt(p, s, i) = 0 /\ PartAt(s, i) = q
      BY <1>2, <3>1, <3>3, <3>4
    <3>6. b = 0
      BY <1>1, <1>4, <1>7
    <3> QED BY <2>1, <3>3, <3>4, <3>5, <3>6
  <2> QED BY <2>2 DEF S, k
<1> QED BY <1>5, <1>6, <1>7

(* No two numbers are for the same tile, or the same part of it.           *)
LEMMA OneNumberEach ==
  ASSUME NEW p, NEW s, IsLaunch(p, s), p.batch \in Nat \ {0}, NEW i \in NumbersOf(p, s), NEW j \in NumbersOf(p, s),
         BatchAt(p, s, i) = BatchAt(p, s, j), TileAt(s, i) = TileAt(s, j)
  PROVE  /\ SplitAt(s, i) <=> SplitAt(s, j)
         /\ ~SplitAt(s, i) => i = j
         /\ SplitAt(s, i) /\ PartAt(s, i) = PartAt(s, j) => i = j
<1> DEFINE Q == TilesOfLaunch(s)  N == s.blockNum  k == s.tail  D == WholeRounds(s)  e == LeftOver(s)
<1>1. Q \in Nat \ {0} /\ N \in Nat \ {0} /\ k \in Nat \ {0} /\ D \in Nat
  BY LaunchCounts
<1>2. ASSUME NEW x \in NumbersOf(p, s)
      PROVE  /\ x \in Nat
             /\ SplitAt(s, x) <=> k # 1 /\ N * D <= x
             /\ SplitAt(s, x) => /\ (x % N) = x - (N * D)
                                 /\ TileAt(s, x) = (N * D) + ((x % N) \div k)
             /\ ~SplitAt(s, x) /\ k # 1 => TileAt(s, x) = x
             /\ k = 1 => TileAt(s, x) = x % Q /\ BatchAt(p, s, x) = x \div Q
             /\ PartAt(s, x) = (x % N) % k
  BY SplitsLast DEF PartAt
<1>3. i \in NumbersOf(p, s) /\ j \in NumbersOf(p, s)
  OBVIOUS
<1> HIDE DEF Q, N, k, D, e
<1>4. i \in Nat /\ j \in Nat /\ N * D \in Nat
  BY <1>1, <1>2
<1>5. CASE k = 1
  <2>1. i \div Q = j \div Q /\ (i % Q) = (j % Q)
    BY <1>2, <1>3, <1>5
  <2>2. i = j
    BY <1>1, <1>4, <2>1, OneNumber
  <2> QED BY <2>2
<1>6. ASSUME NEW x \in NumbersOf(p, s), SplitAt(s, x)
      PROVE  LET c == x - (N * D)
             IN  c \in Nat /\ TileAt(s, x) = (N * D) + (c \div k) /\ PartAt(s, x) = c % k /\ c \div k \in Nat
  <2> DEFINE c == x - (N * D)
  <2>1. c \in Nat
    BY <1>2, <1>4, <1>6
  <2>2. (x % N) = c
    BY <1>2, <1>6
  <2>3. TileAt(s, x) = (N * D) + (c \div k) /\ PartAt(s, x) = c % k
    BY <1>2, <1>6, <2>2
  <2> HIDE DEF c
  <2>4. c \div k \in Nat
    BY <1>1, <2>1
  <2> QED BY <2>1, <2>3, <2>4 DEF c
<1>7. ASSUME NEW x \in NumbersOf(p, s), NEW y \in NumbersOf(p, s), k # 1, SplitAt(s, x), ~SplitAt(s, y),
             TileAt(s, x) = TileAt(s, y)
      PROVE  FALSE
  <2> DEFINE v == (x - (N * D)) \div k
  <2>1. v \in Nat /\ TileAt(s, x) = (N * D) + v
    BY <1>6, <1>7
  <2> HIDE DEF v
  <2>2. y \in Nat /\ TileAt(s, y) = y /\ ~(N * D <= y)
    BY <1>2, <1>7
  <2> DEFINE w == N * D
  <2>3. w \in Nat /\ y = w + v /\ ~(w <= y)
    BY <1>4, <1>7, <2>1, <2>2
  <2> HIDE DEF w
  <2> QED BY <2>1, <2>2, <2>3
<1>8. CASE k # 1
  <2>1. SplitAt(s, i) <=> SplitAt(s, j)
    BY <1>3, <1>7, <1>8
  <2>2. ~SplitAt(s, i) => i = j
    BY <1>2, <1>3, <1>8, <2>1
  <2>3. ASSUME SplitAt(s, i), PartAt(s, i) = PartAt(s, j) PROVE i = j
    <3> DEFINE x == i - (N * D)  y == j - (N * D)  u == x \div k  v == y \div k
    <3>1. /\ x \in Nat /\ TileAt(s, i) = (N * D) + u /\ PartAt(s, i) = x % k /\ u \in Nat
          /\ y \in Nat /\ TileAt(s, j) = (N * D) + v /\ PartAt(s, j) = y % k /\ v \in Nat
      BY <1>3, <1>6, <2>1, <2>3
    <3>2. u = v
      <4> DEFINE w == N * D
      <4>1. w \in Nat /\ TileAt(s, i) = w + u /\ TileAt(s, j) = w + v /\ u \in Nat /\ v \in Nat
        BY <1>4, <3>1
      <4> HIDE DEF x, y, u, v, w
      <4>2. w + u = w + v
        BY <4>1
      <4> QED BY <4>1, <4>2
    <3>3. (x % k) = (y % k)
      BY <2>3, <3>1
    <3>4. x = y
      <4> HIDE DEF x, y
      <4> QED BY <1>1, <3>1, <3>2, <3>3, OneNumber
    <3> QED BY <1>4, <3>4
  <2> QED BY <2>1, <2>2, <2>3
<1> QED BY <1>5, <1>8

(* The part a number is for: lines and columns of an L1 block, all of them *)
(* or a cut of them.                                                       *)
LaunchPart(p, s, i) == ASWT!Part(p, s, i % s.blockNum, i)
PlaceAt(s, i) == ASWT!Position([m |-> s.m.count, n |-> s.n.count], TileAt(s, i))
RowCuts(s, i) == IF SplitAt(s, i) THEN s.mTail ELSE 1
RowCut(s, i) == IF SplitAt(s, i) THEN PartAt(s, i) % s.mTail ELSE 0
ColumnCuts(s, i) == IF SplitAt(s, i) THEN s.nTail ELSE 1
ColumnCut(s, i) == IF SplitAt(s, i) THEN PartAt(s, i) \div s.mTail ELSE 0
InShare(x, axis, u, count, q) ==
  InSpan(x, axis, u) /\ InCut(x - ASWT!Offset(axis, u), ASWT!Length(axis, u), count, q, FALSE)
InRows(s, i, x) == InShare(x, s.m, PlaceAt(s, i)[1], RowCuts(s, i), RowCut(s, i))
InCols(s, i, x) == InShare(x, s.n, PlaceAt(s, i)[2], ColumnCuts(s, i), ColumnCut(s, i))

(* Both kernels cut a length alike.                                        *)
LEMMA SameCut ==
  ASSUME NEW L, NEW count, NEW q
  PROVE  ASWT!Cut(L, count, q) = PERTILE!Cut(L, count, q, FALSE)
BY DEF ASWT!Cut, PERTILE!Cut, ASWT!CeilDiv, PERTILE!CeilDiv, ASWT!Least, PERTILE!Least

(* Both walk over the tiles alike.                                         *)
LEMMA SameWindow ==
  ASSUME NEW w, NEW j
  PROVE  ASWT!Position(w, j) = PERTILE!Position(w, j)
BY DEF ASWT!Position, PERTILE!Position, ASWT!Least, PERTILE!Least, ASWT!WINDOW_LEN, PERTILE!WINDOW_LEN

CutForm(L, c, q, cut, part) ==
  /\ part \in Nat \ {0} /\ L <= part * c /\ cut.offset = q * part
  /\ cut.length = IF q * part >= L THEN 0 ELSE IF part < L - (q * part) THEN part ELSE L - (q * part)
(* The lines that a cut of an L1 block takes.                              *)
LEMMA CutFormed ==
  ASSUME NEW L \in Nat \ {0}, NEW c \in Nat \ {0}, NEW q \in Nat,
         NEW cut, cut = PERTILE!Cut(L, c, q, FALSE), NEW part, part = CutPart(L, c, FALSE)
  PROVE  CutForm(L, c, q, cut, part)
<1>1. /\ CutPart(L, c, FALSE) \in Nat \ {0} /\ L <= CutPart(L, c, FALSE) * c
      /\ PERTILE!Cut(L, c, q, FALSE).offset = q * CutPart(L, c, FALSE)
      /\ PERTILE!Cut(L, c, q, FALSE).length =
           IF q * CutPart(L, c, FALSE) >= L THEN 0
           ELSE IF CutPart(L, c, FALSE) < L - (q * CutPart(L, c, FALSE)) THEN CutPart(L, c, FALSE)
                ELSE L - (q * CutPart(L, c, FALSE))
  <2> DEFINE f == FALSE
  <2>1. f \in BOOLEAN
    OBVIOUS
  <2> HIDE DEF f
  <2>2. /\ CutPart(L, c, f) \in Nat \ {0} /\ L <= CutPart(L, c, f) * c
        /\ PERTILE!Cut(L, c, q, f).offset = q * CutPart(L, c, f)
        /\ PERTILE!Cut(L, c, q, f).length =
             IF q * CutPart(L, c, f) >= L THEN 0
             ELSE IF CutPart(L, c, f) < L - (q * CutPart(L, c, f)) THEN CutPart(L, c, f)
                  ELSE L - (q * CutPart(L, c, f))
    BY <2>1, CutLies
  <2> QED BY <2>2 DEF f
<1> QED BY <1>1 DEF CutForm

(* Where the lines of a share lie, of an axis of so many lines.            *)
ShareAt(axis, size, u, count, q, cut) ==
  /\ ASWT!Offset(axis, u) + cut.offset \in Nat /\ cut.length \in 0 .. axis.l1
  /\ cut.length # 0 => ASWT!Offset(axis, u) + cut.offset + cut.length <= size
  /\ count = 1 /\ q = 0 => cut.length = ASWT!Length(axis, u) /\ cut.length # 0
  /\ \A x \in Int : ASWT!Offset(axis, u) + cut.offset <= x /\ x < ASWT!Offset(axis, u) + cut.offset + cut.length
                      <=> InShare(x, axis, u, count, q)

(* The lines of a share are those that lie in its cut of an L1 block.      *)
LEMMA SharePlaced ==
  ASSUME NEW size \in Nat \ {0}, NEW axis, IsAxis(axis, size), NEW u \in 0 .. axis.count - 1,
         NEW count \in Nat \ {0}, NEW q \in Nat,
         NEW cut, cut = ASWT!Cut(ASWT!Length(axis, u), count, q)
  PROVE  ShareAt(axis, size, u, count, q, cut)
<1> DEFINE L == ASWT!Length(axis, u)  a == ASWT!Offset(axis, u)  f == FALSE
<1>1. axis.l1 \in Nat \ {0}
  BY DEF IsAxis
<1>2. L \in 1 .. axis.l1 /\ a \in Nat /\ a + L <= size
  BY AxisOffsets, SpanInside
<1>3. cut = PERTILE!Cut(L, count, q, f)
  BY SameCut
<1>4. \A x : InShare(x, axis, u, count, q) <=> a <= x /\ x < a + L /\ InCut(x - a, L, count, q, f)
  BY DEF InShare, InSpan
<1>5. f \in BOOLEAN
  OBVIOUS
<1> HIDE DEF L, a
<1>6. L \in Nat \ {0}
  BY <1>1, <1>2
<1> DEFINE part == CutPart(L, count, f)
<1>7. /\ part \in Nat \ {0} /\ L <= part * count /\ cut.offset = q * part
      /\ cut.length = IF q * part >= L THEN 0 ELSE IF part < L - (q * part) THEN part ELSE L - (q * part)
  <2>1. CutForm(L, count, q, cut, part)
    BY <1>3, <1>6, CutFormed
  <2> QED BY <2>1 DEF CutForm
<1> HIDE DEF part
<1>8. q * part \in Nat
  BY <1>7
<1>9. cut.offset \in Nat /\ cut.length \in Nat /\ cut.length <= L /\ (cut.length # 0 => cut.offset + cut.length <= L)
  BY <1>6, <1>7, <1>8
<1>10. ASSUME count = 1, q = 0 PROVE cut.length = L
  <2>1. part * 1 = part /\ 0 * part = 0
    BY <1>7
  <2> QED BY <1>6, <1>7, <1>10, <2>1
<1>11. ASSUME NEW x \in Int
       PROVE  a + cut.offset <= x /\ x < a + cut.offset + cut.length <=> InShare(x, axis, u, count, q)
  <2>1. InCut(x - a, L, count, q, f) <=> cut.offset <= x - a /\ x - a < cut.offset + cut.length
    BY <1>3 DEF InCut
  <2>2. InCut(x - a, L, count, q, f) => a <= x /\ x < a + L
    <3> HIDE DEF f
    <3> QED BY <1>2, <1>6, <1>9, <2>1
  <2>3. a + cut.offset <= x /\ x < a + cut.offset + cut.length
          <=> cut.offset <= x - a /\ x - a < cut.offset + cut.length
    BY <1>2, <1>9
  <2> HIDE DEF f
  <2> QED BY <1>4, <2>1, <2>2, <2>3
<1>12. a + cut.offset \in Nat /\ cut.length \in 0 .. axis.l1
  BY <1>1, <1>2, <1>9
<1>13. cut.length # 0 => a + cut.offset + cut.length <= size
  BY <1>2, <1>6, <1>9
<1> QED BY <1>6, <1>10, <1>11, <1>12, <1>13 DEF ShareAt, a, L

(* The tile of a number is one of the output, its cut one of the tile.     *)
LEMMA NumberTile ==
  ASSUME NEW p, NEW s, IsLaunch(p, s), p.batch \in Nat \ {0}, NEW i \in NumbersOf(p, s)
  PROVE  /\ PlaceAt(s, i)[1] \in 0 .. s.m.count - 1 /\ PlaceAt(s, i)[2] \in 0 .. s.n.count - 1
         /\ PlaceAt(s, i) = <<PlaceAt(s, i)[1], PlaceAt(s, i)[2]>>
         /\ RowCuts(s, i) \in Nat \ {0} /\ RowCut(s, i) \in Nat
         /\ ColumnCuts(s, i) \in Nat \ {0} /\ ColumnCut(s, i) \in Nat
         /\ BatchAt(p, s, i) \in 0 .. p.batch - 1
<1> DEFINE w == [m |-> s.m.count, n |-> s.n.count]
<1>1. w.m \in Nat \ {0} /\ w.n \in Nat \ {0} /\ w.m = s.m.count /\ w.n = s.n.count
  BY DEF IsLaunch, IsAxis
<1>2. TileAt(s, i) \in 0 .. TilesOfLaunch(s) - 1 /\ BatchAt(p, s, i) \in 0 .. p.batch - 1 /\ PartAt(s, i) \in 0 .. s.tail - 1
  BY NumbersInside
<1>3. PlaceAt(s, i) = PERTILE!Position(w, TileAt(s, i))
  BY SameWindow DEF PlaceAt
<1> HIDE DEF w
<1>4. TileAt(s, i) \in 0 .. (w.m * w.n) - 1
  BY <1>1, <1>2 DEF TilesOfLaunch
<1>5. PlaceAt(s, i) \in (0 .. w.m - 1) \X (0 .. w.n - 1)
  BY <1>1, <1>3, <1>4, WalkVisits
<1>6. s.mTail \in Nat \ {0} /\ s.nTail \in Nat \ {0} /\ PartAt(s, i) \in Nat
  <2>1. s.tail \in Nat
    BY LaunchCounts
  <2> QED BY <1>2, <2>1 DEF IsLaunch
<1>7. (PartAt(s, i) % s.mTail) \in Nat /\ PartAt(s, i) \div s.mTail \in Nat
  BY <1>6
<1> QED BY <1>1, <1>2, <1>5, <1>6, <1>7 DEF RowCuts, RowCut, ColumnCuts, ColumnCut

(* The part of a number is a cut of its tile in both axes.                 *)
LEMMA LaunchPartForm ==
  ASSUME NEW p, NEW s, IsLaunch(p, s), p.batch \in Nat \ {0}, NEW i \in NumbersOf(p, s)
  PROVE  LET u == PlaceAt(s, i)[1]
             v == PlaceAt(s, i)[2]
             mCut == ASWT!Cut(ASWT!Length(s.m, u), RowCuts(s, i), RowCut(s, i))
             nCut == ASWT!Cut(ASWT!Length(s.n, v), ColumnCuts(s, i), ColumnCut(s, i))
         IN  LaunchPart(p, s, i) = <<BatchAt(p, s, i), ASWT!Offset(s.m, u) + mCut.offset, mCut.length,
                                     ASWT!Offset(s.n, v) + nCut.offset, nCut.length>>
<1>1. LaunchPart(p, s, i) = ASWT!Shape(p, s, PlaceAt(s, i), i % s.blockNum, i)
  BY DEF LaunchPart, ASWT!Part, ASWT!Tile, PlaceAt, TileAt
<1> QED BY <1>1 DEF ASWT!Shape, BatchAt, SplitAt, PartAt, RowCuts, RowCut, ColumnCuts, ColumnCut

(* A part of a fully loaded axis takes all of it.                          *)
LEMMA FullSide ==
  ASSUME NEW size \in Nat \ {0}, NEW axis, IsAxis(axis, size), axis.count = 1, NEW u \in 0 .. axis.count - 1
  PROVE  ASWT!Length(axis, u) = size
<1>1. u = 0 /\ axis.norm = 0 /\ axis.last \in Nat /\ axis.l1 \in Nat /\ axis.main \in Nat
  BY DEF IsAxis
<1>2. size = axis.last
  <2>1. 0 * axis.l1 = 0 /\ (axis.count - 1 - axis.norm) * axis.main = 0
    BY <1>1
  <2> QED BY <1>1, <2>1 DEF IsAxis
<1>3. ASWT!Length(axis, u) = axis.last
  BY <1>1 DEF ASWT!Length
<1> QED BY <1>2, <1>3

(* Where the part of a number lies, and what it holds.                     *)
LEMMA LaunchPlaced ==
  ASSUME NEW p, NEW s, IsLaunch(p, s), Settled(p), NEW i \in NumbersOf(p, s)
  PROVE  LET f == LaunchPart(p, s, i)
         IN  /\ f \in Rectangles /\ f[3] \in 0 .. s.m.l1 /\ f[5] \in 0 .. s.n.l1
             /\ ~ASWT!IsEmpty(f) => Inside(f, p.batch, p.m, p.n)
             /\ ~SplitAt(s, i) => ~ASWT!IsEmpty(f)
             /\ \A b, x, y \in Int : Holds(f, b, x, y) <=> b = BatchAt(p, s, i) /\ InRows(s, i, x) /\ InCols(s, i, y)
             /\ s.m.count = 1 /\ s.mTail = 1 => f[3] = p.m
             /\ s.n.count = 1 /\ s.nTail = 1 => f[5] = p.n
<1> DEFINE u == PlaceAt(s, i)[1]  v == PlaceAt(s, i)[2]
           rc == RowCuts(s, i)  r == RowCut(s, i)  cc == ColumnCuts(s, i)  c == ColumnCut(s, i)
           mCut == ASWT!Cut(ASWT!Length(s.m, u), rc, r)
           nCut == ASWT!Cut(ASWT!Length(s.n, v), cc, c)
           f == LaunchPart(p, s, i)  b0 == BatchAt(p, s, i)
<1>1. p.m \in Nat \ {0} /\ p.n \in Nat \ {0} /\ p.batch \in Nat \ {0}
  BY DEF Settled
<1>2. IsAxis(s.m, p.m) /\ IsAxis(s.n, p.n)
  BY DEF IsLaunch
<1>3. f = <<b0, ASWT!Offset(s.m, u) + mCut.offset, mCut.length, ASWT!Offset(s.n, v) + nCut.offset, nCut.length>>
  BY <1>1, LaunchPartForm
<1>4. /\ u \in 0 .. s.m.count - 1 /\ v \in 0 .. s.n.count - 1 /\ b0 \in 0 .. p.batch - 1
      /\ rc \in Nat \ {0} /\ r \in Nat /\ cc \in Nat \ {0} /\ c \in Nat
  BY <1>1, NumberTile
<1>5. ~SplitAt(s, i) => rc = 1 /\ r = 0 /\ cc = 1 /\ c = 0
  BY DEF RowCuts, RowCut, ColumnCuts, ColumnCut
<1>6. s.mTail = 1 => rc = 1 /\ r = 0
  <2>1. PartAt(s, i) \in Nat
    <3>1. PartAt(s, i) \in 0 .. s.tail - 1 /\ s.tail \in Nat
      BY <1>1, NumbersInside, LaunchCounts
    <3> QED BY <3>1
  <2>2. (PartAt(s, i) % 1) = 0
    BY <2>1
  <2> QED BY <2>2 DEF RowCuts, RowCut
<1>7. s.nTail = 1 => cc = 1 /\ c = 0
  <2> SUFFICES ASSUME s.nTail = 1, SplitAt(s, i) PROVE cc = 1 /\ c = 0
    BY <1>5
  <2>1. s.mTail \in Nat \ {0} /\ s.tail = s.mTail * s.nTail
    BY DEF IsLaunch
  <2>2. s.tail = s.mTail
    BY <2>1
  <2>3. PartAt(s, i) \in 0 .. s.mTail - 1
    BY <1>1, <2>2, NumbersInside
  <2>4. PartAt(s, i) \div s.mTail = 0
    BY <2>1, <2>3
  <2> QED BY <2>4 DEF ColumnCuts, ColumnCut
<1>8. \A x : InRows(s, i, x) <=> InShare(x, s.m, u, rc, r)
  BY DEF InRows
<1>9. \A y : InCols(s, i, y) <=> InShare(y, s.n, v, cc, c)
  BY DEF InCols
<1>10. ShareAt(s.m, p.m, u, rc, r, mCut)
  <2> DEFINE axis == s.m  size == p.m
  <2>1. /\ size \in Nat \ {0} /\ IsAxis(axis, size) /\ u \in 0 .. axis.count - 1 /\ rc \in Nat \ {0} /\ r \in Nat
        /\ mCut = ASWT!Cut(ASWT!Length(axis, u), rc, r)
    BY <1>1, <1>2, <1>4
  <2> HIDE DEF axis, size, u, rc, r, mCut
  <2>2. ShareAt(axis, size, u, rc, r, mCut)
    BY <2>1, SharePlaced
  <2> QED BY <2>2 DEF axis, size
<1>11. ShareAt(s.n, p.n, v, cc, c, nCut)
  <2> DEFINE axis == s.n  size == p.n
  <2>1. /\ size \in Nat \ {0} /\ IsAxis(axis, size) /\ v \in 0 .. axis.count - 1 /\ cc \in Nat \ {0} /\ c \in Nat
        /\ nCut = ASWT!Cut(ASWT!Length(axis, v), cc, c)
    BY <1>1, <1>2, <1>4
  <2> HIDE DEF axis, size, v, cc, c, nCut
  <2>2. ShareAt(axis, size, v, cc, c, nCut)
    BY <2>1, SharePlaced
  <2> QED BY <2>2 DEF axis, size
<1>12. s.m.count = 1 => ASWT!Length(s.m, u) = p.m
  BY <1>1, <1>2, <1>4, FullSide
<1>13. s.n.count = 1 => ASWT!Length(s.n, v) = p.n
  BY <1>1, <1>2, <1>4, FullSide
<1>14. s.m.l1 \in Nat /\ s.n.l1 \in Nat
  BY <1>2 DEF IsAxis
<1> HIDE DEF u, v, rc, r, cc, c, mCut, nCut, f, b0
<1> DEFINE a == ASWT!Offset(s.m, u) + mCut.offset  e == ASWT!Offset(s.n, v) + nCut.offset
           h == mCut.length  w == nCut.length
<1>15. /\ a \in Nat /\ h \in 0 .. s.m.l1 /\ (h # 0 => a + h <= p.m)
       /\ (rc = 1 /\ r = 0 => h = ASWT!Length(s.m, u) /\ h # 0)
       /\ \A x \in Int : a <= x /\ x < a + h <=> InRows(s, i, x)
  BY <1>8, <1>10 DEF ShareAt
<1>16. /\ e \in Nat /\ w \in 0 .. s.n.l1 /\ (w # 0 => e + w <= p.n)
       /\ (cc = 1 /\ c = 0 => w = ASWT!Length(s.n, v) /\ w # 0)
       /\ \A y \in Int : e <= y /\ y < e + w <=> InCols(s, i, y)
  BY <1>9, <1>11 DEF ShareAt
<1>17. f = <<b0, a, h, e, w>>
  BY <1>3
<1> HIDE DEF a, e, h, w
<1>18. f[1] = b0 /\ f[2] = a /\ f[3] = h /\ f[4] = e /\ f[5] = w
  BY <1>17
<1>19. f \in Rectangles
  <2>1. b0 \in Int /\ a \in Int /\ h \in Int /\ e \in Int /\ w \in Int
    BY <1>1, <1>4, <1>14, <1>15, <1>16
  <2> QED BY <1>17, <2>1 DEF Rectangles
<1>20. ASSUME ~ASWT!IsEmpty(f) PROVE Inside(f, p.batch, p.m, p.n)
  <2>1. h # 0 /\ w # 0
    BY <1>18, <1>20 DEF ASWT!IsEmpty
  <2>2. /\ f[1] \in 0 .. p.batch - 1 /\ f[3] > 0 /\ f[5] > 0 /\ f[2] >= 0 /\ f[4] >= 0
        /\ f[2] + f[3] <= p.m /\ f[4] + f[5] <= p.n
    BY <1>1, <1>4, <1>14, <1>15, <1>16, <1>18, <2>1
  <2> QED BY <2>2 DEF Inside
<1>21. ~SplitAt(s, i) => ~ASWT!IsEmpty(f)
  BY <1>5, <1>15, <1>16, <1>18 DEF ASWT!IsEmpty
<1>22. ASSUME NEW b \in Int, NEW x \in Int, NEW y \in Int
       PROVE  Holds(f, b, x, y) <=> b = b0 /\ InRows(s, i, x) /\ InCols(s, i, y)
  <2>1. Holds(f, b, x, y) <=> b0 = b /\ (a <= x /\ x < a + h) /\ (e <= y /\ y < e + w)
    BY <1>18 DEF Holds
  <2>2. a <= x /\ x < a + h <=> InRows(s, i, x)
    BY <1>15
  <2>3. e <= y /\ y < e + w <=> InCols(s, i, y)
    BY <1>16
  <2> QED BY <2>1, <2>2, <2>3, Zenon
<1>23. /\ s.m.count = 1 /\ s.mTail = 1 => f[3] = p.m
       /\ s.n.count = 1 /\ s.nTail = 1 => f[5] = p.n
  BY <1>6, <1>7, <1>12, <1>13, <1>15, <1>16, <1>18
<1>24. f[3] \in 0 .. s.m.l1 /\ f[5] \in 0 .. s.n.l1
  BY <1>15, <1>16, <1>18
<1> QED BY <1>19, <1>20, <1>21, <1>22, <1>23, <1>24 DEF f, b0

(* The numbers that are gone through: a block stops at an empty part, and  *)
(* none comes before a full one.                                           *)
LEMMA NumbersTaken ==
  ASSUME NEW p, NEW s, IsLaunch(p, s), Settled(p), NEW block \in 0 .. s.blockNum - 1
  PROVE  ASWT!Taken(p, s, block) =
           {i \in NumbersOf(p, s) : i % s.blockNum = block /\ ~ASWT!IsEmpty(LaunchPart(p, s, i))}
<1> DEFINE Mine == ASWT!Mine(s, p, block)
           Full == {i \in NumbersOf(p, s) : i % s.blockNum = block /\ ~ASWT!IsEmpty(LaunchPart(p, s, i))}
<1>1. p.batch \in Nat \ {0}
  BY DEF Settled
<1>2. Mine = {i \in NumbersOf(p, s) : i % s.blockNum = block}
  BY DEF ASWT!Mine, NumbersOf
<1>3. ASSUME NEW i \in Mine PROVE ASWT!Part(p, s, block, i) = LaunchPart(p, s, i)
  BY <1>2 DEF LaunchPart
<1> HIDE DEF Mine
<1>4. ASWT!Taken(p, s, block) = {i \in Mine : \A j \in Mine : j <= i => ~ASWT!IsEmpty(LaunchPart(p, s, j))}
  BY <1>3 DEF ASWT!Taken, Mine
<1>5. ASSUME NEW i \in Full, NEW j \in Mine, j <= i PROVE ~ASWT!IsEmpty(LaunchPart(p, s, j))
  <2> DEFINE N == s.blockNum  D == WholeRounds(s)  k == s.tail  e == LeftOver(s)
  <2>1. i \in NumbersOf(p, s) /\ j \in NumbersOf(p, s) /\ (i % N) = block /\ (j % N) = block
    BY <1>2
  <2>2. CASE i = j
    BY <2>2
  <2>3. CASE i # j
    <3>1. i \in Nat /\ j \in Nat /\ (SplitAt(s, j) => k # 1 /\ N * D <= j /\ (j % N) = j - (N * D))
      BY <1>1, <2>1, SplitsLast
    <3>2. SplitAt(s, i) <=> k # 1 /\ N * D <= i
      BY <1>1, <2>1, SplitsLast
    <3>3. SplitAt(s, i) => (i % N) = i - (N * D)
      BY <1>1, <2>1, SplitsLast
    <3>4. N \in Nat \ {0} /\ D \in Nat
      BY <1>1, LaunchCounts
    <3> HIDE DEF N, D, k
    <3>5. ~SplitAt(s, j)
      <4>1. SUFFICES ASSUME SplitAt(s, j) PROVE FALSE
        OBVIOUS
      <4>2. N * D \in Nat
        BY <3>4
      <4>3. SplitAt(s, i)
        BY <1>5, <3>1, <3>2, <4>1, <4>2
      <4>4. i - (N * D) = j - (N * D)
        BY <2>1, <3>1, <3>3, <4>1, <4>3
      <4> QED BY <2>3, <3>1, <4>2, <4>4
    <3> QED BY <2>1, <3>5, LaunchPlaced
  <2> QED BY <2>2, <2>3
<1>6. \A i \in Mine : i <= i
  BY <1>1, <1>2, SplitsLast
<1>7. ASWT!Taken(p, s, block) = Full
  BY <1>2, <1>4, <1>5, <1>6
<1> QED BY <1>7

(* Every line and column of every batch lies in a part.                    *)
LEMMA LaunchReaches ==
  ASSUME NEW p, NEW s, IsLaunch(p, s), Settled(p),
         NEW b \in 0 .. p.batch - 1, NEW x \in 0 .. p.m - 1, NEW y \in 0 .. p.n - 1
  PROVE  \E i \in NumbersOf(p, s) : Holds(LaunchPart(p, s, i), b, x, y)
<1> DEFINE axis == s.m  across == s.n  tm == s.mTail  tn == s.nTail  f == FALSE
           w == [m |-> s.m.count, n |-> s.n.count]  S == NumbersOf(p, s)
<1>1. /\ p.m \in Nat \ {0} /\ p.n \in Nat \ {0} /\ p.batch \in Nat \ {0}
      /\ IsAxis(axis, p.m) /\ IsAxis(across, p.n)
      /\ tm \in Nat \ {0} /\ tn \in Nat \ {0} /\ s.tail = tm * tn
      /\ axis.count \in Nat \ {0} /\ across.count \in Nat \ {0}
  BY DEF Settled, IsLaunch, IsAxis
<1>2. w.m = axis.count /\ w.n = across.count /\ TilesOfLaunch(s) = w.m * w.n
  BY DEF TilesOfLaunch
<1>3. ASSUME NEW i \in S
      PROVE  /\ \A bb, xx, yy \in Int : Holds(LaunchPart(p, s, i), bb, xx, yy)
                  <=> bb = BatchAt(p, s, i) /\ InRows(s, i, xx) /\ InCols(s, i, yy)
             /\ InRows(s, i, x) <=> InShare(x, axis, PlaceAt(s, i)[1], RowCuts(s, i), RowCut(s, i))
             /\ InCols(s, i, y) <=> InShare(y, across, PlaceAt(s, i)[2], ColumnCuts(s, i), ColumnCut(s, i))
             /\ PlaceAt(s, i) = PERTILE!Position(w, TileAt(s, i))
             /\ SplitAt(s, i) => RowCuts(s, i) = tm /\ RowCut(s, i) = PartAt(s, i) % tm
                                 /\ ColumnCuts(s, i) = tn /\ ColumnCut(s, i) = PartAt(s, i) \div tm
             /\ ~SplitAt(s, i) => RowCuts(s, i) = 1 /\ RowCut(s, i) = 0
                                  /\ ColumnCuts(s, i) = 1 /\ ColumnCut(s, i) = 0
  <2>1. \A bb, xx, yy \in Int : Holds(LaunchPart(p, s, i), bb, xx, yy)
                  <=> bb = BatchAt(p, s, i) /\ InRows(s, i, xx) /\ InCols(s, i, yy)
    BY LaunchPlaced
  <2>2. PlaceAt(s, i) = PERTILE!Position(w, TileAt(s, i))
    BY SameWindow DEF PlaceAt
  <2> QED BY <2>1, <2>2 DEF InRows, InCols, RowCuts, RowCut, ColumnCuts, ColumnCut
<1>4. x \in Int /\ y \in Int /\ b \in Int
  BY <1>1
<1>5. PICK u \in 0 .. axis.count - 1 : InSpan(x, axis, u)
  BY <1>1, SpanOf
<1>6. PICK v \in 0 .. across.count - 1 : InSpan(y, across, v)
  BY <1>1, SpanOf
<1> DEFINE L == ASWT!Length(axis, u)  M == ASWT!Length(across, v)
           o == x - ASWT!Offset(axis, u)  e == y - ASWT!Offset(across, v)
<1>7. L \in Nat \ {0} /\ o \in 0 .. L - 1
  <2>1. L \in 1 .. axis.l1 /\ ASWT!Offset(axis, u) \in Nat
    BY <1>1, AxisOffsets
  <2>2. axis.l1 \in Nat
    BY <1>1 DEF IsAxis
  <2> QED BY <1>4, <1>5, <2>1, <2>2 DEF InSpan
<1>8. M \in Nat \ {0} /\ e \in 0 .. M - 1
  <2>1. M \in 1 .. across.l1 /\ ASWT!Offset(across, v) \in Nat
    BY <1>1, AxisOffsets
  <2>2. across.l1 \in Nat
    BY <1>1 DEF IsAxis
  <2> QED BY <1>4, <1>6, <2>1, <2>2 DEF InSpan
<1>9. \A count, q : InShare(x, axis, u, count, q) <=> InCut(o, L, count, q, f)
  BY <1>5 DEF InShare
<1>10. \A count, q : InShare(y, across, v, count, q) <=> InCut(e, M, count, q, f)
  BY <1>6 DEF InShare
<1>11. f \in BOOLEAN
  OBVIOUS
<1> HIDE DEF axis, across, tm, tn, f, w, S, L, M, o, e
<1>12. PICK t \in 0 .. (w.m * w.n) - 1 : PERTILE!Position(w, t) = <<u, v>>
  BY <1>1, <1>2, WalkVisits
<1>13. PICK qm \in 0 .. tm - 1 : InCut(o, L, tm, qm, f)
  BY <1>1, <1>7, <1>11, CutOf
<1>14. PICK qn \in 0 .. tn - 1 : InCut(e, M, tn, qn, f)
  BY <1>1, <1>8, <1>11, CutOf
<1>15. InCut(o, L, 1, 0, f) /\ InCut(e, M, 1, 0, f)
  <2> DEFINE c == 1
  <2>1. c \in Nat \ {0} /\ \A z \in 0 .. c - 1 : z = 0
    OBVIOUS
  <2> HIDE DEF c
  <2>2. InCut(o, L, c, 0, f)
    <3>1. PICK z \in 0 .. c - 1 : InCut(o, L, c, z, f)
      BY <1>7, <1>11, <2>1, CutOf
    <3> QED BY <2>1, <3>1
  <2>3. InCut(e, M, c, 0, f)
    <3>1. PICK z \in 0 .. c - 1 : InCut(e, M, c, z, f)
      BY <1>8, <1>11, <2>1, CutOf
    <3> QED BY <2>1, <3>1
  <2> QED BY <2>2, <2>3 DEF c
<1>16. ASSUME NEW i \in S, BatchAt(p, s, i) = b, TileAt(s, i) = t, ~SplitAt(s, i)
       PROVE  Holds(LaunchPart(p, s, i), b, x, y)
  <2>1. PlaceAt(s, i)[1] = u /\ PlaceAt(s, i)[2] = v
    BY <1>3, <1>12, <1>16
  <2>2. InRows(s, i, x) /\ InCols(s, i, y)
    BY <1>3, <1>9, <1>10, <1>15, <1>16, <2>1
  <2>3. Holds(LaunchPart(p, s, i), b, x, y) <=> b = BatchAt(p, s, i) /\ InRows(s, i, x) /\ InCols(s, i, y)
    BY <1>3, <1>4
  <2> QED BY <1>16, <2>2, <2>3
<1> DEFINE q == (qn * tm) + qm
<1>17. q \in 0 .. s.tail - 1 /\ q \div tm = qn /\ (q % tm) = qm
  <2>1. qn \in Nat /\ qn < tn /\ qm \in Nat /\ qm < tm
    BY <1>1
  <2>2. q \in Nat /\ q < tn * tm /\ q \div tm = qn /\ (q % tm) = qm
    BY <1>1, <2>1, NumberOf
  <2>3. tn * tm = tm * tn /\ tm * tn \in Nat
    BY <1>1
  <2> QED BY <1>1, <2>2, <2>3
<1> HIDE DEF q
<1>18. ASSUME NEW i \in S, BatchAt(p, s, i) = b, TileAt(s, i) = t, SplitAt(s, i), PartAt(s, i) = q
       PROVE  Holds(LaunchPart(p, s, i), b, x, y)
  <2>1. PlaceAt(s, i)[1] = u /\ PlaceAt(s, i)[2] = v
    BY <1>3, <1>12, <1>18
  <2>2. RowCuts(s, i) = tm /\ RowCut(s, i) = qm /\ ColumnCuts(s, i) = tn /\ ColumnCut(s, i) = qn
    BY <1>3, <1>17, <1>18
  <2>3. InRows(s, i, x) /\ InCols(s, i, y)
    BY <1>3, <1>9, <1>10, <1>13, <1>14, <1>18, <2>1, <2>2
  <2>4. Holds(LaunchPart(p, s, i), b, x, y) <=> b = BatchAt(p, s, i) /\ InRows(s, i, x) /\ InCols(s, i, y)
    BY <1>3, <1>4
  <2> QED BY <1>18, <2>3, <2>4
<1>19. \/ \E i \in S : BatchAt(p, s, i) = b /\ TileAt(s, i) = t /\ ~SplitAt(s, i)
       \/ \A k \in 0 .. s.tail - 1 :
            \E i \in S : BatchAt(p, s, i) = b /\ TileAt(s, i) = t /\ SplitAt(s, i) /\ PartAt(s, i) = k
  <2>1. t \in 0 .. TilesOfLaunch(s) - 1
    BY <1>2
  <2> QED BY <1>1, <2>1, NumbersReach DEF S
<1>20. \E i \in S : Holds(LaunchPart(p, s, i), b, x, y)
  BY <1>16, <1>17, <1>18, <1>19
<1> QED BY <1>20 DEF S

(* None lies in two.                                                       *)
LEMMA LaunchApart ==
  ASSUME NEW p, NEW s, IsLaunch(p, s), Settled(p),
         NEW i \in NumbersOf(p, s), NEW j \in NumbersOf(p, s),
         NEW b \in Int, NEW x \in Int, NEW y \in Int,
         Holds(LaunchPart(p, s, i), b, x, y), Holds(LaunchPart(p, s, j), b, x, y)
  PROVE  i = j
<1> DEFINE axis == s.m  across == s.n  tm == s.mTail  tn == s.nTail  f == FALSE
           w == [m |-> s.m.count, n |-> s.n.count]  S == NumbersOf(p, s)
<1>1. /\ p.m \in Nat \ {0} /\ p.n \in Nat \ {0} /\ p.batch \in Nat \ {0}
      /\ IsAxis(axis, p.m) /\ IsAxis(across, p.n)
      /\ tm \in Nat \ {0} /\ tn \in Nat \ {0} /\ s.tail = tm * tn
      /\ axis.count \in Nat \ {0} /\ across.count \in Nat \ {0}
  BY DEF Settled, IsLaunch, IsAxis
<1>2. w.m = axis.count /\ w.n = across.count /\ TilesOfLaunch(s) = w.m * w.n
  BY DEF TilesOfLaunch
<1>3. ASSUME NEW k \in S, Holds(LaunchPart(p, s, k), b, x, y)
      PROVE  /\ b = BatchAt(p, s, k)
             /\ InSpan(x, axis, PlaceAt(s, k)[1]) /\ InSpan(y, across, PlaceAt(s, k)[2])
             /\ SplitAt(s, k) =>
                  /\ InCut(x - ASWT!Offset(axis, PlaceAt(s, k)[1]), ASWT!Length(axis, PlaceAt(s, k)[1]), tm, PartAt(s, k) % tm, f)
                  /\ InCut(y - ASWT!Offset(across, PlaceAt(s, k)[2]), ASWT!Length(across, PlaceAt(s, k)[2]), tn, PartAt(s, k) \div tm, f)
  <2>1. b = BatchAt(p, s, k) /\ InRows(s, k, x) /\ InCols(s, k, y)
    BY <1>3, LaunchPlaced
  <2> QED BY <2>1 DEF InRows, InCols, InShare, RowCuts, RowCut, ColumnCuts, ColumnCut
<1>4. ASSUME NEW k \in S
      PROVE  /\ PlaceAt(s, k)[1] \in 0 .. axis.count - 1 /\ PlaceAt(s, k)[2] \in 0 .. across.count - 1
             /\ PlaceAt(s, k) = <<PlaceAt(s, k)[1], PlaceAt(s, k)[2]>>
             /\ PlaceAt(s, k) = PERTILE!Position(w, TileAt(s, k))
             /\ TileAt(s, k) \in 0 .. (w.m * w.n) - 1
             /\ PartAt(s, k) \in Nat
  <2>1. /\ PlaceAt(s, k)[1] \in 0 .. axis.count - 1 /\ PlaceAt(s, k)[2] \in 0 .. across.count - 1
        /\ PlaceAt(s, k) = <<PlaceAt(s, k)[1], PlaceAt(s, k)[2]>>
    BY <1>1, NumberTile
  <2>2. PlaceAt(s, k) = PERTILE!Position(w, TileAt(s, k))
    BY SameWindow DEF PlaceAt
  <2>3. TileAt(s, k) \in 0 .. TilesOfLaunch(s) - 1 /\ PartAt(s, k) \in 0 .. s.tail - 1 /\ s.tail \in Nat
    BY <1>1, NumbersInside, LaunchCounts
  <2> QED BY <1>2, <2>1, <2>2, <2>3
<1>5. i \in S /\ j \in S /\ Holds(LaunchPart(p, s, i), b, x, y) /\ Holds(LaunchPart(p, s, j), b, x, y)
  OBVIOUS
<1>6. f \in BOOLEAN
  OBVIOUS
<1> DEFINE u == PlaceAt(s, i)[1]  v == PlaceAt(s, i)[2]
<1>7. PlaceAt(s, j)[1] = u
  <2> DEFINE u2 == PlaceAt(s, j)[1]  size == p.m
  <2>1. /\ u \in 0 .. axis.count - 1 /\ u2 \in 0 .. axis.count - 1
        /\ InSpan(x, axis, u) /\ InSpan(x, axis, u2) /\ size \in Nat \ {0} /\ IsAxis(axis, size)
    BY <1>1, <1>3, <1>4, <1>5
  <2> HIDE DEF u, u2, axis, size
  <2>2. u = u2
    BY <2>1, OneSpan
  <2> QED BY <2>2 DEF u2
<1>8. PlaceAt(s, j)[2] = v
  <2> DEFINE v2 == PlaceAt(s, j)[2]  size == p.n
  <2>1. /\ v \in 0 .. across.count - 1 /\ v2 \in 0 .. across.count - 1
        /\ InSpan(y, across, v) /\ InSpan(y, across, v2) /\ size \in Nat \ {0} /\ IsAxis(across, size)
    BY <1>1, <1>3, <1>4, <1>5
  <2> HIDE DEF v, v2, across, size
  <2>2. v = v2
    BY <2>1, OneSpan
  <2> QED BY <2>2 DEF v2
<1>9. BatchAt(p, s, i) = BatchAt(p, s, j)
  BY <1>3, <1>5
<1>10. TileAt(s, i) = TileAt(s, j)
  <2> HIDE DEF axis, across, tm, tn, f, w, u, v, S
  <2>1. PlaceAt(s, i) = PlaceAt(s, j)
    BY <1>4, <1>5, <1>7, <1>8 DEF u, v
  <2>2. PERTILE!Position(w, TileAt(s, i)) = PERTILE!Position(w, TileAt(s, j))
    BY <1>4, <1>5, <2>1
  <2>3. TileAt(s, i) \in 0 .. (w.m * w.n) - 1 /\ TileAt(s, j) \in 0 .. (w.m * w.n) - 1
    BY <1>4, <1>5
  <2>4. w.m \in Nat \ {0} /\ w.n \in Nat \ {0}
    BY <1>1, <1>2
  <2> QED BY <2>2, <2>3, <2>4, WalkVisits
<1>11. /\ SplitAt(s, i) <=> SplitAt(s, j)
       /\ ~SplitAt(s, i) => i = j
       /\ SplitAt(s, i) /\ PartAt(s, i) = PartAt(s, j) => i = j
  BY <1>1, <1>9, <1>10, OneNumberEach
<1>12. ASSUME SplitAt(s, i) PROVE PartAt(s, i) = PartAt(s, j)
  <2> DEFINE k == PartAt(s, i)  l == PartAt(s, j)  L == ASWT!Length(axis, u)  M == ASWT!Length(across, v)
             o == x - ASWT!Offset(axis, u)  e == y - ASWT!Offset(across, v)
             k1 == k % tm  l1 == l % tm  k2 == k \div tm  l2 == l \div tm
  <2>1. /\ InCut(o, L, tm, k1, f) /\ InCut(o, L, tm, l1, f)
        /\ InCut(e, M, tn, k2, f) /\ InCut(e, M, tn, l2, f)
    <3> HIDE DEF axis, across, tm, tn, f, S
    <3> QED BY <1>3, <1>5, <1>7, <1>8, <1>11, <1>12
  <2>2. k \in Nat /\ l \in Nat
    BY <1>4, <1>5
  <2>3. L \in Nat \ {0} /\ o \in Int
    <3>1. u \in 0 .. axis.count - 1
      BY <1>4, <1>5
    <3>2. L \in 1 .. axis.l1 /\ ASWT!Offset(axis, u) \in Nat /\ axis.l1 \in Nat
      <4> HIDE DEF axis, u
      <4>1. axis.l1 \in Nat
        BY <1>1 DEF IsAxis
      <4> QED BY <1>1, <3>1, <4>1, AxisOffsets
    <3> QED BY <3>2
  <2>4. M \in Nat \ {0} /\ e \in Int
    <3>1. v \in 0 .. across.count - 1
      BY <1>4, <1>5
    <3>2. M \in 1 .. across.l1 /\ ASWT!Offset(across, v) \in Nat /\ across.l1 \in Nat
      <4> HIDE DEF across, v
      <4>1. across.l1 \in Nat
        BY <1>1 DEF IsAxis
      <4> QED BY <1>1, <3>1, <4>1, AxisOffsets
    <3> QED BY <3>2
  <2>5. tm \in Nat \ {0} /\ tn \in Nat \ {0} /\ f \in BOOLEAN
    BY <1>1, <1>6
  <2> HIDE DEF k, l, L, M, o, e, tm, tn, f, axis, across, u, v, S, w
  <2>6. k1 \in Nat /\ l1 \in Nat /\ k2 \in Nat /\ l2 \in Nat
    BY <2>2, <2>5
  <2> HIDE DEF k1, l1, k2, l2
  <2>7. k1 = l1
    BY <2>1, <2>3, <2>5, <2>6, OneCut
  <2>8. k2 = l2
    BY <2>1, <2>4, <2>5, <2>6, OneCut
  <2>9. k = l
    BY <2>2, <2>5, <2>7, <2>8, OneNumber DEF k1, l1, k2, l2
  <2> QED BY <2>9 DEF k, l
<1> QED BY <1>11, <1>12

(* Where L0 blocks begin within an L1 block, and which lines one holds of  *)
(* a part of so many lines.                                                *)
Starts(axis, base) == {r \in 0 .. axis.l1 - 1 : r % base = 0}
InPiece(o, len, base, r) == r <= o /\ o < r + ASWT!Least(base, len - r)

(* The pieces of a side are full, and every line lies in one.              *)
PiecesShare(axis, base, len) ==
  /\ \A r \in Starts(axis, base) : /\ r \in Nat /\ ASWT!Least(base, len - r) \in Nat \ {0}
                                   /\ r + ASWT!Least(base, len - r) <= len
  /\ \A o \in 0 .. len - 1 : \E r \in Starts(axis, base) : InPiece(o, len, base, r)
  /\ \A o \in Int : \A r, q \in Starts(axis, base) : InPiece(o, len, base, r) /\ InPiece(o, len, base, q) => r = q

(* L0 blocks that start where the kernel starts them share a side of a     *)
(* part out.                                                               *)
LEMMA SidePieces ==
  ASSUME NEW size \in Nat \ {0}, NEW axis, IsAxis(axis, size), NEW base \in Nat \ {0}, base % 16 = 0,
         NEW tail, InPieces(axis, tail, size, base), NEW len, len \in 1 .. axis.l1,
         axis.count = 1 /\ tail = 1 => len = size
  PROVE  PiecesShare(axis, base, len)
<1> DEFINE l1 == axis.l1  R == Starts(axis, base)
<1>1. l1 \in Nat \ {0} /\ len \in Nat \ {0} /\ len <= l1
  BY DEF IsAxis
<1>2. \A r : r \in R <=> r \in 0 .. l1 - 1 /\ r % base = 0
  BY DEF Starts
<1>3. l1 <= base \/ (len = size /\ l1 = ASWT!Align(size, 16))
  BY DEF InPieces
<1> HIDE DEF l1, R
<1>4. ASSUME NEW r \in R PROVE r \in Nat /\ r < len
  <2>1. r \in Nat /\ r < l1 /\ r % base = 0
    BY <1>1, <1>2
  <2>2. CASE l1 <= base
    <3>1. r % base = r
      BY <1>1, <2>1, <2>2
    <3> QED BY <1>1, <2>1, <3>1
  <2>3. CASE len = size /\ l1 = ASWT!Align(size, 16)
    <3> DEFINE c == ASWT!CeilDiv(size, 16)  h == base \div 16  d == r \div base  z == d * h
    <3>1. c \in Nat \ {0} /\ (c - 1) * 16 < size
      BY LeastCover
    <3>2. l1 = c * 16
      BY <2>3 DEF ASWT!Align
    <3>3. h \in Nat /\ base = 16 * h
      OBVIOUS
    <3>4. d \in Nat /\ r = base * d
      BY <2>1
    <3> HIDE DEF c, h, d
    <3>5. z \in Nat /\ r = 16 * z
      <4>1. (16 * h) * d = 16 * (d * h) /\ d * h \in Nat
        BY <3>3, <3>4
      <4> QED BY <3>3, <3>4, <4>1
    <3> HIDE DEF z
    <3>6. z < c
      BY <2>1, <3>1, <3>2, <3>5
    <3>7. r <= (c - 1) * 16
      BY <3>1, <3>5, <3>6
    <3> QED BY <2>1, <2>3, <3>1, <3>7
  <2> QED BY <1>3, <2>2, <2>3
<1>5. ASSUME NEW r \in R
      PROVE  /\ r \in Nat /\ ASWT!Least(base, len - r) \in Nat \ {0}
             /\ r + ASWT!Least(base, len - r) <= len /\ ASWT!Least(base, len - r) <= base
  BY <1>1, <1>4 DEF ASWT!Least
<1>6. ASSUME NEW o \in 0 .. len - 1 PROVE \E r \in R : InPiece(o, len, base, r)
  <2> DEFINE d == o \div base  w == o % base  r == base * d
  <2>1. o \in Nat /\ o < len
    BY <1>1
  <2>2. d \in Nat /\ w \in 0 .. base - 1 /\ o = (base * d) + w
    BY <2>1
  <2> HIDE DEF d, w
  <2>3. r \in Nat /\ r <= o /\ o < r + base /\ r % base = 0
    <3>1. base * d \in Nat /\ ((base * d) % base) = 0
      <4> DEFINE h == d + 1  k == 0
      <4>1. h \in Nat \ {0} /\ d < h /\ k \in Nat /\ k < base /\ base * d \in Nat /\ base * d = (d * base) + k
        BY <2>2
      <4> HIDE DEF h, k
      <4>2. ((base * d) % base) = k
        BY <2>2, <4>1, NumberOf
      <4> QED BY <4>1, <4>2 DEF k
    <3> QED BY <2>1, <2>2, <3>1
  <2> HIDE DEF r
  <2>4. r \in R
    BY <1>1, <1>2, <2>1, <2>3
  <2>5. InPiece(o, len, base, r)
    BY <1>1, <2>1, <2>3 DEF InPiece, ASWT!Least
  <2> QED BY <2>4, <2>5
<1>7. ASSUME NEW o \in Int, NEW r \in R, NEW q \in R, InPiece(o, len, base, r), InPiece(o, len, base, q)
      PROVE  r = q
  <2>1. r \in Nat /\ q \in Nat /\ r % base = 0 /\ q % base = 0
    BY <1>2, <1>4
  <2>2. r <= o /\ o < r + base /\ q <= o /\ o < q + base
    <3>1. /\ r \in Nat /\ ASWT!Least(base, len - r) \in Nat \ {0} /\ ASWT!Least(base, len - r) <= base
          /\ q \in Nat /\ ASWT!Least(base, len - q) \in Nat \ {0} /\ ASWT!Least(base, len - q) <= base
      BY <1>5
    <3> QED BY <1>7, <3>1 DEF InPiece
  <2> DEFINE c == r \div base  d == q \div base
  <2>3. c \in Nat /\ d \in Nat /\ r = base * c /\ q = base * d
    BY <2>1
  <2> HIDE DEF c, d
  <2>4. ASSUME NEW x \in Nat, NEW y \in Nat, x < y, base * y <= o, o < (base * x) + base PROVE FALSE
    <3>1. base * (x + 1) <= base * y /\ base * (x + 1) = (base * x) + base /\ base * x \in Nat /\ base * y \in Nat
      BY <2>4
    <3> QED BY <2>4, <3>1
  <2>5. ~(c < d) /\ ~(d < c)
    BY <2>2, <2>3, <2>4
  <2> QED BY <2>3, <2>5
<1> QED BY <1>5, <1>6, <1>7 DEF PiecesShare, R

(* The pieces of a launch: those of the parts that are gone through.       *)
FullNumbers(p, s) == {i \in NumbersOf(p, s) : ~ASWT!IsEmpty(LaunchPart(p, s, i))}
(* A piece belongs to a number whose part is full.                         *)
LEMMA PiecesOfLaunch ==
  ASSUME NEW p, NEW s, IsLaunch(p, s), Settled(p), NEW z
  PROVE  z \in ASWT!Pieces(p, s) <=>
           \E i \in FullNumbers(p, s), r \in Starts(s.m, p.baseM), q \in Starts(s.n, p.baseN) :
             z = <<i % s.blockNum, i, r, q>>
<1> DEFINE R == Starts(s.m, p.baseM)  C == Starts(s.n, p.baseN)  N == s.blockNum
           parts == UNION {{<<block, i>> : i \in ASWT!Taken(p, s, block)} : block \in 0 .. N - 1}
<1>1. ASWT!Pieces(p, s) = UNION {{<<x[1], x[2], r, q>> : r \in R, q \in C} : x \in parts}
  BY DEF ASWT!Pieces, Starts
<1>2. ASSUME NEW block \in 0 .. N - 1
      PROVE  ASWT!Taken(p, s, block) = {i \in FullNumbers(p, s) : i % N = block}
  BY NumbersTaken DEF FullNumbers
<1>3. \A i \in FullNumbers(p, s) : i % N \in 0 .. N - 1
  BY NumbersInside DEF FullNumbers, Settled
<1> HIDE DEF R, C, N
<1>4. \A x : x \in parts <=> \E i \in FullNumbers(p, s) : x = <<i % N, i>>
  <2>1. ASSUME NEW x \in parts PROVE \E i \in FullNumbers(p, s) : x = <<i % N, i>>
    <3>1. PICK block \in 0 .. N - 1 : x \in {<<block, i>> : i \in ASWT!Taken(p, s, block)}
      OBVIOUS
    <3>2. PICK i \in ASWT!Taken(p, s, block) : x = <<block, i>>
      BY <3>1
    <3> QED BY <1>2, <3>2
  <2>2. ASSUME NEW i \in FullNumbers(p, s) PROVE <<i % N, i>> \in parts
    <3> DEFINE block == i % N
    <3>1. block \in 0 .. N - 1
      BY <1>3
    <3> HIDE DEF block
    <3>2. i \in ASWT!Taken(p, s, block)
      BY <1>2, <3>1 DEF block
    <3>3. <<block, i>> \in parts
      BY <3>1, <3>2
    <3> QED BY <3>3 DEF block
  <2> QED BY <2>1, <2>2
<1> HIDE DEF parts
<1>5. z \in ASWT!Pieces(p, s) <=> \E x \in parts : \E r \in R, q \in C : z = <<x[1], x[2], r, q>>
  BY <1>1
<1>6. z \in ASWT!Pieces(p, s) <=> \E i \in FullNumbers(p, s) : \E r \in R, q \in C : z = <<i % N, i, r, q>>
  <2>1. ASSUME NEW x \in parts, NEW r \in R, NEW q \in C, z = <<x[1], x[2], r, q>>
        PROVE  \E i \in FullNumbers(p, s) : \E a \in R, c \in C : z = <<i % N, i, a, c>>
    <3>1. PICK i \in FullNumbers(p, s) : x = <<i % N, i>>
      BY <1>4
    <3>2. z = <<i % N, i, r, q>>
      BY <2>1, <3>1
    <3> QED BY <3>2
  <2>2. ASSUME NEW i \in FullNumbers(p, s), NEW r \in R, NEW q \in C, z = <<i % N, i, r, q>>
        PROVE  \E x \in parts : \E a \in R, c \in C : z = <<x[1], x[2], a, c>>
    <3> DEFINE x == <<i % N, i>>
    <3>1. x \in parts
      BY <1>4
    <3>2. x[1] = i % N /\ x[2] = i
      OBVIOUS
    <3> HIDE DEF x
    <3>3. z = <<x[1], x[2], r, q>>
      BY <2>2, <3>2
    <3> QED BY <3>1, <3>3
  <2> QED BY <1>5, <2>1, <2>2
<1> QED BY <1>6 DEF R, C, N

(* A full part lies in the output and is shared out by its pieces.         *)
LEMMA FullPart ==
  ASSUME NEW p, NEW s, IsLaunch(p, s), Settled(p), NEW i \in FullNumbers(p, s)
  PROVE  LET t == LaunchPart(p, s, i)
         IN  /\ i \in NumbersOf(p, s) /\ t \in Rectangles /\ Inside(t, p.batch, p.m, p.n)
             /\ t[1] \in Int /\ t[2] \in Int /\ t[3] \in Nat \ {0} /\ t[4] \in Int /\ t[5] \in Nat \ {0}
             /\ PiecesShare(s.m, p.baseM, t[3]) /\ PiecesShare(s.n, p.baseN, t[5])
<1> DEFINE t == LaunchPart(p, s, i)
<1>1. i \in NumbersOf(p, s) /\ ~ASWT!IsEmpty(t)
  BY DEF FullNumbers
<1>2. /\ t \in Rectangles /\ t[3] \in 0 .. s.m.l1 /\ t[5] \in 0 .. s.n.l1 /\ Inside(t, p.batch, p.m, p.n)
      /\ (s.m.count = 1 /\ s.mTail = 1 => t[3] = p.m) /\ (s.n.count = 1 /\ s.nTail = 1 => t[5] = p.n)
  BY <1>1, LaunchPlaced
<1>3. t[3] # 0 /\ t[5] # 0
  BY <1>1 DEF ASWT!IsEmpty
<1>4. /\ p.m \in Nat \ {0} /\ p.baseM \in Nat \ {0} /\ p.baseM % 16 = 0
      /\ p.n \in Nat \ {0} /\ p.baseN \in Nat \ {0} /\ p.baseN % 16 = 0
  BY DEF Settled
<1>5. /\ IsAxis(s.m, p.m) /\ InPieces(s.m, s.mTail, p.m, p.baseM) /\ s.m.l1 \in Nat
      /\ IsAxis(s.n, p.n) /\ InPieces(s.n, s.nTail, p.n, p.baseN) /\ s.n.l1 \in Nat
  BY DEF IsLaunch, IsAxis
<1> HIDE DEF t
<1>6. t[1] \in Int /\ t[2] \in Int /\ t[4] \in Int
  BY <1>2 DEF Rectangles
<1>7. t[3] \in 1 .. s.m.l1 /\ t[5] \in 1 .. s.n.l1
  BY <1>2, <1>3, <1>5
<1>8. PiecesShare(s.m, p.baseM, t[3])
  <2> DEFINE size == p.m  base == p.baseM  axis == s.m  tail == s.mTail  len == t[3]
  <2>1. /\ size \in Nat \ {0} /\ base \in Nat \ {0} /\ base % 16 = 0 /\ IsAxis(axis, size)
        /\ InPieces(axis, tail, size, base) /\ len \in 1 .. axis.l1
        /\ (axis.count = 1 /\ tail = 1 => len = size)
    BY <1>2, <1>4, <1>5, <1>7
  <2> HIDE DEF size, base, axis, tail, len
  <2>2. PiecesShare(axis, base, len)
    BY <2>1, SidePieces
  <2> QED BY <2>2 DEF base, axis, len
<1>9. PiecesShare(s.n, p.baseN, t[5])
  <2> DEFINE size == p.n  base == p.baseN  axis == s.n  tail == s.nTail  len == t[5]
  <2>1. /\ size \in Nat \ {0} /\ base \in Nat \ {0} /\ base % 16 = 0 /\ IsAxis(axis, size)
        /\ InPieces(axis, tail, size, base) /\ len \in 1 .. axis.l1
        /\ (axis.count = 1 /\ tail = 1 => len = size)
    BY <1>2, <1>4, <1>5, <1>7
  <2> HIDE DEF size, base, axis, tail, len
  <2>2. PiecesShare(axis, base, len)
    BY <2>1, SidePieces
  <2> QED BY <2>2 DEF base, axis, len
<1>10. t[3] \in Nat \ {0} /\ t[5] \in Nat \ {0}
  BY <1>5, <1>7
<1> QED BY <1>1, <1>2, <1>6, <1>8, <1>9, <1>10 DEF t

(* What a piece holds.                                                     *)
PieceFacts(p, s, z, i, r, q) ==
  LET t == LaunchPart(p, s, i)
      f == ASWT!Piece(p, s, z)
  IN  /\ f \in Rectangles /\ Inside(f, p.batch, p.m, p.n)
      /\ \A b, x, y \in Int :
           Holds(f, b, x, y) <=> t[1] = b /\ InPiece(x - t[2], t[3], p.baseM, r) /\ InPiece(y - t[4], t[5], p.baseN, q)
      /\ \A b, x, y \in Int : Holds(f, b, x, y) => Holds(t, b, x, y)

(* Where a piece lies, and what it holds of its part.                      *)
LEMMA PiecePlaced ==
  ASSUME NEW p, NEW s, IsLaunch(p, s), Settled(p), NEW i \in FullNumbers(p, s),
         NEW r \in Starts(s.m, p.baseM), NEW q \in Starts(s.n, p.baseN),
         NEW z, z = <<i % s.blockNum, i, r, q>>
  PROVE  PieceFacts(p, s, z, i, r, q)
<1> DEFINE t == LaunchPart(p, s, i)  f == ASWT!Piece(p, s, z)
           h == ASWT!Least(p.baseM, t[3] - r)  w == ASWT!Least(p.baseN, t[5] - q)
<1>1. f = <<t[1], t[2] + r, h, t[4] + q, w>>
  <2>1. z[1] = i % s.blockNum /\ z[2] = i /\ z[3] = r /\ z[4] = q
    OBVIOUS
  <2> QED BY <2>1 DEF ASWT!Piece, ASWT!PieceOf, LaunchPart
<1>2. /\ Inside(t, p.batch, p.m, p.n)
      /\ t[1] \in Int /\ t[2] \in Int /\ t[3] \in Nat \ {0} /\ t[4] \in Int /\ t[5] \in Nat \ {0}
      /\ PiecesShare(s.m, p.baseM, t[3]) /\ PiecesShare(s.n, p.baseN, t[5])
  BY FullPart
<1>3. r \in Nat /\ h \in Nat \ {0} /\ r + h <= t[3] /\ q \in Nat /\ w \in Nat \ {0} /\ q + w <= t[5]
  BY <1>2 DEF PiecesShare
<1>4. /\ \A x : InPiece(x, t[3], p.baseM, r) <=> r <= x /\ x < r + h
      /\ \A y : InPiece(y, t[5], p.baseN, q) <=> q <= y /\ y < q + w
  BY DEF InPiece
<1>5. p.batch \in Int /\ p.m \in Int /\ p.n \in Int
  BY DEF Settled
<1> HIDE DEF t, f, h, w
<1>6. f[1] = t[1] /\ f[2] = t[2] + r /\ f[3] = h /\ f[4] = t[4] + q /\ f[5] = w
  BY <1>1
<1>7. f \in Rectangles
  <2>1. t[1] \in Int /\ t[2] + r \in Int /\ h \in Int /\ t[4] + q \in Int /\ w \in Int
    BY <1>2, <1>3
  <2> QED BY <1>1, <2>1 DEF Rectangles
<1>8. Inside(f, p.batch, p.m, p.n)
  <2>1. /\ t[1] \in 0 .. p.batch - 1 /\ t[2] >= 0 /\ t[2] + t[3] <= p.m /\ t[4] >= 0 /\ t[4] + t[5] <= p.n
    BY <1>2 DEF Inside
  <2>2. /\ f[1] \in 0 .. p.batch - 1 /\ f[3] > 0 /\ f[5] > 0
        /\ f[2] >= 0 /\ f[2] + f[3] <= p.m /\ f[4] >= 0 /\ f[4] + f[5] <= p.n
    BY <1>2, <1>3, <1>5, <1>6, <2>1
  <2> QED BY <2>2 DEF Inside
<1>9. ASSUME NEW b \in Int, NEW x \in Int, NEW y \in Int
      PROVE  /\ Holds(f, b, x, y) <=> t[1] = b /\ InPiece(x - t[2], t[3], p.baseM, r) /\ InPiece(y - t[4], t[5], p.baseN, q)
             /\ Holds(f, b, x, y) => Holds(t, b, x, y)
  <2>1. Holds(f, b, x, y) <=> t[1] = b /\ (t[2] + r <= x /\ x < t[2] + r + h) /\ (t[4] + q <= y /\ y < t[4] + q + w)
    BY <1>6 DEF Holds
  <2>2. t[2] + r <= x /\ x < t[2] + r + h <=> InPiece(x - t[2], t[3], p.baseM, r)
    BY <1>2, <1>3, <1>4
  <2>3. t[4] + q <= y /\ y < t[4] + q + w <=> InPiece(y - t[4], t[5], p.baseN, q)
    BY <1>2, <1>3, <1>4
  <2>4. t[2] + r <= x /\ x < t[2] + r + h => t[2] <= x /\ x < t[2] + t[3]
    BY <1>2, <1>3
  <2>5. t[4] + q <= y /\ y < t[4] + q + w => t[4] <= y /\ y < t[4] + t[5]
    BY <1>2, <1>3
  <2>6. Holds(t, b, x, y) <=> t[1] = b /\ (t[2] <= x /\ x < t[2] + t[3]) /\ (t[4] <= y /\ y < t[4] + t[5])
    BY DEF Holds
  <2> QED BY <2>1, <2>2, <2>3, <2>4, <2>5, <2>6, Zenon
<1> QED BY <1>7, <1>8, <1>9 DEF PieceFacts, t, f

(* The pieces of a launch share its outputs out.                           *)
LEMMA PiecesTile ==
  ASSUME NEW p, NEW s, IsLaunch(p, s), Settled(p),
         NEW S, S = ASWT!Pieces(p, s), NEW f, f = [z \in S |-> ASWT!Piece(p, s, z)]
  PROVE  Tiles(S, f, p.batch, p.m, p.n)
<1> DEFINE R == Starts(s.m, p.baseM)  C == Starts(s.n, p.baseN)  F == FullNumbers(p, s)
<1>1. ASSUME NEW z
      PROVE  z \in S <=> \E i \in F, r \in R, q \in C : z = <<i % s.blockNum, i, r, q>>
  BY PiecesOfLaunch
<1>2. ASSUME NEW z \in S, NEW i \in F, NEW r \in R, NEW q \in C, z = <<i % s.blockNum, i, r, q>>
      PROVE  /\ f[z] \in Rectangles /\ Inside(f[z], p.batch, p.m, p.n)
             /\ \A b, x, y \in Int : Holds(f[z], b, x, y)
                  <=> /\ LaunchPart(p, s, i)[1] = b
                      /\ InPiece(x - LaunchPart(p, s, i)[2], LaunchPart(p, s, i)[3], p.baseM, r)
                      /\ InPiece(y - LaunchPart(p, s, i)[4], LaunchPart(p, s, i)[5], p.baseN, q)
             /\ \A b, x, y \in Int : Holds(f[z], b, x, y) => Holds(LaunchPart(p, s, i), b, x, y)
  <2>1. PieceFacts(p, s, z, i, r, q)
    BY <1>2, PiecePlaced
  <2>2. f[z] = ASWT!Piece(p, s, z)
    OBVIOUS
  <2> QED BY <2>1, <2>2 DEF PieceFacts
<1>3. ASSUME NEW z \in S PROVE f[z] \in Rectangles /\ Inside(f[z], p.batch, p.m, p.n)
  <2>1. PICK i \in F, r \in R, q \in C : z = <<i % s.blockNum, i, r, q>>
    BY <1>1
  <2> HIDE DEF R, C, F
  <2> QED BY <1>2, <2>1
<1>4. ASSUME NEW i \in F
      PROVE  LET t == LaunchPart(p, s, i)
             IN  /\ t[1] \in Int /\ t[2] \in Int /\ t[3] \in Nat \ {0} /\ t[4] \in Int /\ t[5] \in Nat \ {0}
                 /\ \A o \in 0 .. t[3] - 1 : \E r \in R : InPiece(o, t[3], p.baseM, r)
                 /\ \A o \in 0 .. t[5] - 1 : \E q \in C : InPiece(o, t[5], p.baseN, q)
                 /\ \A o \in Int : \A r, q \in R : InPiece(o, t[3], p.baseM, r) /\ InPiece(o, t[3], p.baseM, q) => r = q
                 /\ \A o \in Int : \A r, q \in C : InPiece(o, t[5], p.baseN, r) /\ InPiece(o, t[5], p.baseN, q) => r = q
  BY FullPart DEF PiecesShare
<1>5. p.batch \in Nat \ {0} /\ p.m \in Nat \ {0} /\ p.n \in Nat \ {0}
  BY DEF Settled
<1>6. ASSUME NEW b \in 0 .. p.batch - 1, NEW x \in 0 .. p.m - 1, NEW y \in 0 .. p.n - 1
      PROVE  \E z \in S : Holds(f[z], b, x, y)
  <2>1. PICK i \in NumbersOf(p, s) : Holds(LaunchPart(p, s, i), b, x, y)
    BY LaunchReaches
  <2> DEFINE t == LaunchPart(p, s, i)
  <2>2. t \in Rectangles
    BY LaunchPlaced
  <2>3. t[1] = b /\ t[2] <= x /\ x < t[2] + t[3] /\ t[4] <= y /\ y < t[4] + t[5]
    BY <2>1 DEF Holds
  <2>4. t[3] # 0 /\ t[5] # 0
    <3> HIDE DEF t
    <3>1. t[2] \in Int /\ t[3] \in Int /\ t[4] \in Int /\ t[5] \in Int /\ x \in Int /\ y \in Int
      BY <1>5, <2>2 DEF Rectangles
    <3> QED BY <2>3, <3>1
  <2>5. i \in F
    BY <2>4 DEF FullNumbers, ASWT!IsEmpty
  <2>6. /\ t[2] \in Int /\ t[3] \in Nat \ {0} /\ t[4] \in Int /\ t[5] \in Nat \ {0}
        /\ \A o \in 0 .. t[3] - 1 : \E r \in R : InPiece(o, t[3], p.baseM, r)
        /\ \A o \in 0 .. t[5] - 1 : \E q \in C : InPiece(o, t[5], p.baseN, q)
    <3> HIDE DEF F, R, C
    <3> QED BY <1>4, <2>5
  <2> HIDE DEF t, F, R, C
  <2>7. x - t[2] \in 0 .. t[3] - 1 /\ y - t[4] \in 0 .. t[5] - 1
    BY <1>5, <2>3, <2>6
  <2>8. PICK r \in R : InPiece(x - t[2], t[3], p.baseM, r)
    BY <2>6, <2>7
  <2>9. PICK q \in C : InPiece(y - t[4], t[5], p.baseN, q)
    BY <2>6, <2>7
  <2> DEFINE z == <<i % s.blockNum, i, r, q>>
  <2>10. z \in S
    BY <1>1, <2>5
  <2>11. z = <<i % s.blockNum, i, r, q>>
    OBVIOUS
  <2> HIDE DEF z
  <2>12. b \in Int /\ x \in Int /\ y \in Int
    BY <1>5
  <2>13. Holds(f[z], b, x, y) <=> t[1] = b /\ InPiece(x - t[2], t[3], p.baseM, r) /\ InPiece(y - t[4], t[5], p.baseN, q)
    <3>1. PieceFacts(p, s, z, i, r, q)
      <4>1. i \in FullNumbers(p, s) /\ r \in Starts(s.m, p.baseM) /\ q \in Starts(s.n, p.baseN)
        BY <2>5, <2>8, <2>9 DEF F, R, C
      <4> QED BY <2>11, <4>1, PiecePlaced
    <3>2. ASWT!Piece(p, s, z) = f[z]
      BY <2>10
    <3> DEFINE g == ASWT!Piece(p, s, z)
    <3>3. Holds(g, b, x, y) <=> t[1] = b /\ InPiece(x - t[2], t[3], p.baseM, r) /\ InPiece(y - t[4], t[5], p.baseN, q)
      <4>1. \A b1, x1, y1 \in Int : Holds(g, b1, x1, y1)
              <=> t[1] = b1 /\ InPiece(x1 - t[2], t[3], p.baseM, r) /\ InPiece(y1 - t[4], t[5], p.baseN, q)
        BY <3>1, Zenon DEF PieceFacts, t, g
      <4> HIDE DEF g
      <4> QED BY <4>1, <2>12
    <3> QED BY <3>2, <3>3
  <2> QED BY <2>3, <2>8, <2>9, <2>10, <2>13
<1>7. ASSUME NEW z \in S, NEW z2 \in S, NEW b \in Int, NEW x \in Int, NEW y \in Int,
             Holds(f[z], b, x, y), Holds(f[z2], b, x, y)
      PROVE  z = z2
  <2>1. PICK i \in F, r \in R, q \in C : z = <<i % s.blockNum, i, r, q>>
    BY <1>1
  <2>2. PICK i2 \in F, r2 \in R, q2 \in C : z2 = <<i2 % s.blockNum, i2, r2, q2>>
    BY <1>1
  <2> HIDE DEF R, C
  <2>3. i = i2
    <3>1. Holds(LaunchPart(p, s, i), b, x, y) /\ Holds(LaunchPart(p, s, i2), b, x, y)
      <4> HIDE DEF F
      <4> QED BY <1>2, <1>7, <2>1, <2>2
    <3>2. i \in NumbersOf(p, s) /\ i2 \in NumbersOf(p, s)
      BY DEF FullNumbers
    <3> QED BY <3>1, <3>2, LaunchApart
  <2> DEFINE t == LaunchPart(p, s, i)
  <2> HIDE DEF F
  <2>4. InPiece(x - t[2], t[3], p.baseM, r) /\ InPiece(y - t[4], t[5], p.baseN, q)
    BY <1>2, <1>7, <2>1
  <2>5. InPiece(x - t[2], t[3], p.baseM, r2) /\ InPiece(y - t[4], t[5], p.baseN, q2)
    BY <1>2, <1>7, <2>2, <2>3
  <2>6. x - t[2] \in Int /\ y - t[4] \in Int
    <3>1. t[2] \in Int /\ t[4] \in Int
      BY <1>4
    <3> QED BY <3>1
  <2>7. /\ \A o \in Int : \A u, v \in R : InPiece(o, t[3], p.baseM, u) /\ InPiece(o, t[3], p.baseM, v) => u = v
        /\ \A o \in Int : \A u, v \in C : InPiece(o, t[5], p.baseN, u) /\ InPiece(o, t[5], p.baseN, v) => u = v
    BY <1>4
  <2>8. r = r2 /\ q = q2
    <3> HIDE DEF t
    <3> QED BY <2>4, <2>5, <2>6, <2>7
  <2> QED BY <2>1, <2>2, <2>3, <2>8
<1> HIDE DEF R, C, F
<1>8. \A z \in S : f[z] \in Rectangles /\ Inside(f[z], p.batch, p.m, p.n)
  BY <1>3
<1>9. \A b \in 0 .. p.batch - 1, x \in 0 .. p.m - 1, y \in 0 .. p.n - 1 : \E z \in S : Holds(f[z], b, x, y)
  BY <1>6
<1>10. \A z, z2 \in S, b, x, y \in Int : Holds(f[z], b, x, y) /\ Holds(f[z2], b, x, y) => z = z2
  BY <1>7
<1> QED BY <1>8, <1>9, <1>10, Zenon DEF Tiles

(* An ASWT launch computes every piece of its outputs once.                *)
LEMMA PiecesOnce ==
  ASSUME NEW p, Settled(p), p.edge \in ASWT!Edges(p)
  PROVE  ASWT!ComputesEveryPieceOnce(p, ASWT!Scheduler(p))
<1> DEFINE s == ASWT!Scheduler(p)  S == ASWT!Pieces(p, s)  f == [z \in S |-> ASWT!Piece(p, s, z)]
           m == p.m  n == p.n  batch == p.batch
<1>1. IsLaunch(p, s)
  BY Launched
<1>2. m \in Nat \ {0} /\ n \in Nat \ {0} /\ batch \in Nat
  BY DEF Settled
<1>3. Tiles(S, f, batch, m, n)
  <2> HIDE DEF s
  <2>1. S = ASWT!Pieces(p, s) /\ f = [z \in S |-> ASWT!Piece(p, s, z)]
    OBVIOUS
  <2> HIDE DEF S, f
  <2> QED BY <1>1, <2>1, PiecesTile
<1>4. \A z \in S : f[z] = ASWT!Piece(p, s, z)
  OBVIOUS
<1> HIDE DEF S, f, m, n, batch
<1>5. /\ \A x, y \in S : x # y => Separate(f[x], f[y])
      /\ SumOver(S, [x \in S |-> f[x][3] * f[x][5]]) = batch * m * n
  BY <1>2, <1>3, AreasAddUp
<1>6. ASWT!MapThenSumSet(LAMBDA x : ASWT!Piece(p, s, x)[3] * ASWT!Piece(p, s, x)[5], S) = batch * m * n
  <2>1. ASWT!MapThenSumSet(LAMBDA x : ASWT!Piece(p, s, x)[3] * ASWT!Piece(p, s, x)[5], S)
          = SumOver(S, [x \in S |-> ASWT!Piece(p, s, x)[3] * ASWT!Piece(p, s, x)[5]])
    BY DEF ASWT!MapThenSumSet, ASWT!MapThenFoldSet, SumOver, IsSum
  <2>2. [x \in S |-> ASWT!Piece(p, s, x)[3] * ASWT!Piece(p, s, x)[5]] = [x \in S |-> f[x][3] * f[x][5]]
    <3> HIDE DEF s
    <3> QED BY <1>4
  <2> QED BY <1>5, <2>1, <2>2
<1>7. ASWT!ShareOut(S, LAMBDA x : ASWT!Piece(p, s, x), batch, m, n)
  <2> HIDE DEF s
  <2>1. ASSUME NEW x \in S PROVE Inside(ASWT!Piece(p, s, x), batch, m, n)
    BY <1>3, <1>4 DEF Tiles
  <2>2. \A x, y \in S : x # y =>
           \/ ASWT!Piece(p, s, x)[1] # ASWT!Piece(p, s, y)[1]
           \/ ASWT!Piece(p, s, x)[2] + ASWT!Piece(p, s, x)[3] <= ASWT!Piece(p, s, y)[2]
           \/ ASWT!Piece(p, s, y)[2] + ASWT!Piece(p, s, y)[3] <= ASWT!Piece(p, s, x)[2]
           \/ ASWT!Piece(p, s, x)[4] + ASWT!Piece(p, s, x)[5] <= ASWT!Piece(p, s, y)[4]
           \/ ASWT!Piece(p, s, y)[4] + ASWT!Piece(p, s, y)[5] <= ASWT!Piece(p, s, x)[4]
    BY <1>4, <1>5 DEF Separate
  <2>3. \A x \in S :
           /\ ASWT!Piece(p, s, x)[1] \in 0 .. batch - 1 /\ ASWT!Piece(p, s, x)[3] > 0 /\ ASWT!Piece(p, s, x)[5] > 0
           /\ ASWT!Piece(p, s, x)[2] >= 0 /\ ASWT!Piece(p, s, x)[2] + ASWT!Piece(p, s, x)[3] <= m
           /\ ASWT!Piece(p, s, x)[4] >= 0 /\ ASWT!Piece(p, s, x)[4] + ASWT!Piece(p, s, x)[5] <= n
    BY <2>1 DEF Inside
  <2> QED BY <1>6, <2>2, <2>3, Zenon DEF ASWT!ShareOut
<1> QED BY <1>7, Zenon DEF ASWT!ComputesEveryPieceOnce, S, s, m, n, batch

-------------------------------------------------------------------------------
(* What the vector cores of split k add up of the slices.                  *)

(* What is written somewhere once is as much as is due and the rest.       *)
LEMMA CountedWithRest ==
  ASSUME NEW size \in Nat, NEW done, \A x \in done : x[2] \in 0 .. size - 1,
         \A x, y \in done : x[2] = y[2] => x = y,
         NEW due, due \subseteq {<<x[2], x[3]>> : x \in done},
         NEW rest, rest = {x \in done : <<x[2], x[3]>> \notin due}
  PROVE  Cardinality(done) = Cardinality(due) + Cardinality(rest)
<1> DEFINE to == [x \in done |-> x[2]]  main == done \ rest  pair == [x \in main |-> <<x[2], x[3]>>]
<1>1. IsFiniteSet(done)
  <2>1. to \in Injection(done, 0 .. size - 1)
    BY DEF Injection, IsInjective
  <2>2. IsFiniteSet(0 .. size - 1)
    BY FS_Interval
  <2> HIDE DEF to
  <2> QED BY <2>1, <2>2, FS_Injection
<1>2. /\ IsFiniteSet(main) /\ IsFiniteSet(rest)
      /\ Cardinality(main) = Cardinality(done) - Cardinality(rest)
  <2>1. rest \in SUBSET done /\ done \cap rest = rest
    OBVIOUS
  <2>2. IsFiniteSet(rest)
    BY <1>1, <2>1, FS_Subset
  <2>3. IsFiniteSet(main) /\ Cardinality(main) = Cardinality(done) - Cardinality(done \cap rest)
    BY <1>1, FS_Difference
  <2> QED BY <2>1, <2>2, <2>3
<1>3. Cardinality(due) = Cardinality(main)
  <2>1. \A x \in main : x \in done /\ <<x[2], x[3]>> \in due
    OBVIOUS
  <2>2. \A u \in due : \E x \in main : u = <<x[2], x[3]>>
    <3> SUFFICES ASSUME NEW u \in due PROVE \E x \in main : u = <<x[2], x[3]>>
      OBVIOUS
    <3>1. PICK x \in done : u = <<x[2], x[3]>>
      OBVIOUS
    <3>2. x \in main
      BY <3>1
    <3> QED BY <3>1, <3>2
  <2> HIDE DEF main
  <2>3. pair \in Surjection(main, due)
    BY <2>1, <2>2 DEF Surjection
  <2>4. pair \in Injection(main, due)
    <3>1. pair \in [main -> due]
      BY <2>1
    <3>2. ASSUME NEW x \in main, NEW y \in main, pair[x] = pair[y] PROVE x = y
      <4>1. <<x[2], x[3]>> = <<y[2], y[3]>>
        BY <3>2
      <4>2. x[2] = y[2]
        BY <4>1
      <4> QED BY <2>1, <4>2
    <3> QED BY <3>1, <3>2 DEF Injection, IsInjective
  <2> HIDE DEF pair
  <2> QED BY <1>2, <2>3, <2>4, FS_Surjection
<1>4. Cardinality(done) \in Nat /\ Cardinality(rest) \in Nat /\ Cardinality(main) \in Nat
  BY <1>1, <1>2, FS_CardinalityType
<1> QED BY <1>2, <1>3, <1>4

(* What is due of a tile is done, and done once; the rest is done again,   *)
(* for a later tile.                                                       *)
IsReduced(s, t, tile, done) ==
  /\ SPLITK!Due(s, tile) \subseteq {<<x[2], x[3]>> : x \in done}
  /\ Cardinality(done) = Cardinality(SPLITK!Due(s, tile)) + Cardinality(SPLITK!Beyond(s, tile, done))
  /\ \A x \in SPLITK!Beyond(s, tile, done) : SPLITK!Later(s, t, x[2])

(* Every tile is reduced if that is so of each.                            *)
LEMMA TilesReduced ==
  ASSUME NEW s,
         \A t \in SPLITK!Numbers(s) : IsReduced(s, t, SPLITK!Tile(s, t), SPLITK!Reduced(s, t, SPLITK!Tile(s, t)))
  PROVE  SPLITK!ReducesFromOwnTile(s)
<1>1. \A S : SPLITK!Cardinality(S) = Cardinality(S)
  BY SameCardinality
<1> QED BY <1>1 DEF SPLITK!ReducesFromOwnTile, IsReduced

(* A tile lies in the output.                                              *)
LiesIn(s, tile) ==
  /\ s.m \in Nat \ {0} /\ s.n \in Nat \ {0}
  /\ tile.row \in Nat /\ tile.rows \in Nat \ {0} /\ tile.row + tile.rows <= s.m
  /\ tile.column \in Nat /\ tile.cols \in Nat \ {0} /\ tile.column + tile.cols <= s.n

(* The elements of a tile, each reduced by its core.                       *)
DoneBy(s, tile, done, core) ==
  \A x : x \in done <=>
    \E i \in 0 .. tile.rows - 1, j \in 0 .. tile.cols - 1 :
      x = <<core[<<i, j>>], ((tile.row + i) * s.n) + (tile.column + j), SPLITK!Source(s, tile, i, j)>>

(* No two elements of a tile go to one place.                              *)
LEMMA PlaceOfElement ==
  ASSUME NEW s, NEW tile, LiesIn(s, tile), NEW i \in 0 .. tile.rows - 1, NEW j \in 0 .. tile.cols - 1
  PROVE  /\ ((tile.row + i) * s.n) + (tile.column + j) \in 0 .. (s.m * s.n) - 1
         /\ \A k \in 0 .. tile.rows - 1, l \in 0 .. tile.cols - 1 :
              ((tile.row + i) * s.n) + (tile.column + j) = ((tile.row + k) * s.n) + (tile.column + l)
                => i = k /\ j = l
<1> DEFINE a == tile.row + i  b == tile.column + j  n == s.n  m == s.m
<1>1. n \in Nat \ {0} /\ m \in Nat \ {0} /\ a \in 0 .. m - 1 /\ b \in 0 .. n - 1 /\ tile.row \in Nat /\ tile.column \in Nat
      /\ tile.rows \in Nat /\ tile.cols \in Nat
  BY DEF LiesIn
<1>2. ASSUME NEW k \in 0 .. tile.rows - 1, NEW l \in 0 .. tile.cols - 1,
             (a * n) + b = ((tile.row + k) * n) + (tile.column + l)
      PROVE  i = k /\ j = l
  <2> DEFINE c == tile.row + k  d == tile.column + l
  <2>1. c \in Int /\ d \in 0 .. n - 1
    BY DEF LiesIn
  <2>2. (n * a) + b = (n * c) + d
    <3>1. a * n = n * a /\ c * n = n * c
      BY <1>1, <2>1
    <3> QED BY <1>2, <3>1
  <2>3. a \in Int
    BY <1>1
  <2> HIDE DEF a, b, c, d, n
  <2>4. b = d /\ a = c
    BY <1>1, <2>1, <2>2, <2>3, OneTurn
  <2>5. tile.row + i = tile.row + k /\ tile.column + j = tile.column + l
    BY <2>4 DEF a, b, c, d
  <2>6. i \in Int /\ j \in Int /\ k \in Int /\ l \in Int
    BY <1>1
  <2> QED BY <1>1, <2>5, <2>6
<1>3. (a * n) + b \in 0 .. (m * n) - 1
  <2> HIDE DEF a, b, n, m
  <2>1. a * n \in Nat /\ (a + 1) * n <= m * n /\ (a + 1) * n = (a * n) + n /\ m * n \in Nat
    BY <1>1
  <2> QED BY <1>1, <2>1
<1> QED BY <1>2, <1>3

(* It is reduced.                                                          *)
LEMMA ElementsReduced ==
  ASSUME NEW s, NEW tile, LiesIn(s, tile), NEW done, NEW core, DoneBy(s, tile, done, core), NEW t
  PROVE  IsReduced(s, t, tile, done)
<1> DEFINE to(i, j) == ((tile.row + i) * s.n) + (tile.column + j)  due == SPLITK!Due(s, tile)  rest == SPLITK!Beyond(s, tile, done)
<1>1. s.m * s.n \in Nat
  BY DEF LiesIn
<1>2. ASSUME NEW x \in done
      PROVE  \E i \in 0 .. tile.rows - 1, j \in 0 .. tile.cols - 1 :
               x[2] = to(i, j) /\ x[3] = SPLITK!Source(s, tile, i, j)
  <2>1. PICK i \in 0 .. tile.rows - 1, j \in 0 .. tile.cols - 1 :
          x = <<core[<<i, j>>], to(i, j), SPLITK!Source(s, tile, i, j)>>
    BY DEF DoneBy
  <2>2. x[2] = to(i, j) /\ x[3] = SPLITK!Source(s, tile, i, j)
    BY <2>1
  <2> QED BY <2>2
<1>3. \A i \in 0 .. tile.rows - 1, j \in 0 .. tile.cols - 1 :
        <<core[<<i, j>>], to(i, j), SPLITK!Source(s, tile, i, j)>> \in done
  BY DEF DoneBy
<1>4. \A u : u \in due <=> \E i \in 0 .. tile.rows - 1, j \in 0 .. tile.cols - 1 :
                             u = <<to(i, j), SPLITK!Source(s, tile, i, j)>>
  <2>1. ASSUME NEW i \in 0 .. tile.rows - 1, NEW j \in 0 .. tile.cols - 1
        PROVE  (tile.row + i) * s.n + tile.column + j = to(i, j)
    <3>1. (tile.row + i) * s.n \in Int /\ tile.column \in Int /\ j \in Int
      BY DEF LiesIn
    <3> HIDE DEF LiesIn
    <3> QED BY <3>1
  <2> QED BY <2>1 DEF SPLITK!Due
<1>5. \A x \in done : x[2] \in 0 .. (s.m * s.n) - 1
  <2> SUFFICES ASSUME NEW x \in done PROVE x[2] \in 0 .. (s.m * s.n) - 1
    OBVIOUS
  <2>1. PICK i \in 0 .. tile.rows - 1, j \in 0 .. tile.cols - 1 : x[2] = to(i, j)
    BY <1>2
  <2> QED BY <2>1, PlaceOfElement
<1>6. \A x, y \in done : x[2] = y[2] => x = y
  <2> SUFFICES ASSUME NEW x \in done, NEW y \in done, x[2] = y[2] PROVE x = y
    OBVIOUS
  <2>1. PICK i \in 0 .. tile.rows - 1, j \in 0 .. tile.cols - 1 :
          x = <<core[<<i, j>>], to(i, j), SPLITK!Source(s, tile, i, j)>>
    BY DEF DoneBy
  <2>2. PICK k \in 0 .. tile.rows - 1, l \in 0 .. tile.cols - 1 :
          y = <<core[<<k, l>>], to(k, l), SPLITK!Source(s, tile, k, l)>>
    BY DEF DoneBy
  <2>3. to(i, j) = to(k, l)
    BY <2>1, <2>2
  <2>4. i = k /\ j = l
    BY <2>3, PlaceOfElement
  <2> QED BY <2>1, <2>2, <2>4
<1>7. due \subseteq {<<x[2], x[3]>> : x \in done}
  <2> SUFFICES ASSUME NEW u \in due PROVE \E x \in done : u = <<x[2], x[3]>>
    OBVIOUS
  <2>1. PICK i \in 0 .. tile.rows - 1, j \in 0 .. tile.cols - 1 : u = <<to(i, j), SPLITK!Source(s, tile, i, j)>>
    BY <1>4
  <2> DEFINE x == <<core[<<i, j>>], to(i, j), SPLITK!Source(s, tile, i, j)>>
  <2>2. x \in done /\ x[2] = to(i, j) /\ x[3] = SPLITK!Source(s, tile, i, j)
    BY <1>3
  <2> HIDE DEF x, to
  <2> QED BY <2>1, <2>2
<1>8. rest = {x \in done : <<x[2], x[3]>> \notin due}
  BY DEF SPLITK!Beyond
<1>9. rest = {}
  <2> SUFFICES ASSUME NEW x \in done PROVE <<x[2], x[3]>> \in due
    BY <1>8
  <2>1. PICK i \in 0 .. tile.rows - 1, j \in 0 .. tile.cols - 1 :
               x[2] = to(i, j) /\ x[3] = SPLITK!Source(s, tile, i, j)
    BY <1>2
  <2> HIDE DEF to
  <2> QED BY <1>4, <2>1
<1>10. Cardinality(done) = Cardinality(due) + Cardinality(rest)
  <2> DEFINE size == s.m * s.n
  <2> HIDE DEF due, rest, size
  <2>1. size \in Nat /\ \A x \in done : x[2] \in 0 .. size - 1
    BY <1>1, <1>5 DEF size
  <2> QED BY <2>1, <1>6, <1>7, <1>8, CountedWithRest
<1> HIDE DEF due, rest
<1> QED BY <1>7, <1>9, <1>10 DEF IsReduced, due, rest

(* Where a tile lies, by its row and column of tiles.                      *)
TileForm(s, t, i, j) ==
  LET tile == SPLITK!Tile(s, t)
  IN  /\ i \in Nat /\ i < SPLITK!MCnt(s) /\ j \in Nat /\ j < SPLITK!NCnt(s)
      /\ tile.row = i * s.singleM /\ tile.rows = Extent(s.m, s.singleM, i)
      /\ tile.column = j * s.singleN /\ tile.cols = Extent(s.n, s.singleN, j)

(* Where a tile of split k lies and what it holds.                         *)
LEMMA TileFormed ==
  ASSUME NEW p \in SplitKProblems, NEW t \in SPLITK!Numbers(SPLITK!Tiling(p))
  PROVE  LET s == SPLITK!Tiling(p) IN TileForm(s, t, SPLITK!MIndex(s, t), SPLITK!NIndex(s, t))
<1> DEFINE s == SPLITK!Tiling(p)  mCnt == SPLITK!MCnt(s)  nCnt == SPLITK!NCnt(s)
           i == SPLITK!MIndex(s, t)  j == SPLITK!NIndex(s, t)
<1>1. /\ s.m \in Nat \ {0} /\ s.n \in Nat \ {0}
      /\ s.singleM \in Nat \ {0} /\ s.singleN \in Nat \ {0}
      /\ s.order \in {"NK", "MK"}
  BY SplitKFacts
<1>2. t \in 0 .. (mCnt * nCnt) - 1
  BY DEF SPLITK!Numbers
<1> HIDE DEF s
<1>3. mCnt = SPLITK!CeilDiv(s.m, s.singleM) /\ nCnt = SPLITK!CeilDiv(s.n, s.singleN)
  BY DEF SPLITK!MCnt, SPLITK!NCnt
<1>4. mCnt \in Nat \ {0} /\ nCnt \in Nat \ {0}
  BY <1>1, <1>3, RoundedUp
<1>5. /\ i = IF s.order = "NK" THEN t \div nCnt ELSE t % mCnt
      /\ j = IF s.order = "NK" THEN t % nCnt ELSE t \div mCnt
  BY DEF SPLITK!MIndex, SPLITK!NIndex
<1>6. i \in Nat /\ i < mCnt /\ j \in Nat /\ j < nCnt
  <2> HIDE DEF mCnt, nCnt, i, j
  <2>1. /\ t \div nCnt \in 0 .. mCnt - 1 /\ (t % nCnt) \in 0 .. nCnt - 1
        /\ t \div mCnt \in 0 .. nCnt - 1 /\ (t % mCnt) \in 0 .. mCnt - 1
    BY <1>2, <1>4, TilePositions
  <2> QED BY <1>4, <1>5, <2>1
<1>7. /\ SPLITK!Tile(s, t).row = i * s.singleM /\ SPLITK!Tile(s, t).rows = Extent(s.m, s.singleM, i)
      /\ SPLITK!Tile(s, t).column = j * s.singleN /\ SPLITK!Tile(s, t).cols = Extent(s.n, s.singleN, j)
  BY <1>3 DEF SPLITK!Tile, Extent
<1> HIDE DEF i, j, mCnt, nCnt
<1>8. TileForm(s, t, i, j)
  BY <1>6, <1>7 DEF TileForm, mCnt, nCnt
<1> QED BY <1>8 DEF s, i, j

(* A tile of split k lies in the output.                                   *)
LEMMA TileLies ==
  ASSUME NEW p \in SplitKProblems, NEW t \in SPLITK!Numbers(SPLITK!Tiling(p))
  PROVE  LiesIn(SPLITK!Tiling(p), SPLITK!Tile(SPLITK!Tiling(p), t))
<1> DEFINE s == SPLITK!Tiling(p)  i == SPLITK!MIndex(s, t)  j == SPLITK!NIndex(s, t)
           tile == SPLITK!Tile(s, t)
<1>1. /\ s.m \in Nat \ {0} /\ s.n \in Nat \ {0}
      /\ s.singleM \in Nat \ {0} /\ s.singleN \in Nat \ {0}
  BY SplitKFacts
<1>2. TileForm(s, t, i, j)
  BY TileFormed
<1> HIDE DEF s, i, j
<1>3. /\ i \in Nat /\ i < SPLITK!CeilDiv(s.m, s.singleM) /\ j \in Nat /\ j < SPLITK!CeilDiv(s.n, s.singleN)
      /\ tile.row = i * s.singleM /\ tile.rows = Extent(s.m, s.singleM, i)
      /\ tile.column = j * s.singleN /\ tile.cols = Extent(s.n, s.singleN, j)
  BY <1>2 DEF TileForm, SPLITK!MCnt, SPLITK!NCnt
<1> HIDE DEF tile
<1>4. /\ Extent(s.m, s.singleM, i) \in Nat \ {0} /\ i * s.singleM \in Nat
      /\ (i * s.singleM) + Extent(s.m, s.singleM, i) <= s.m
  BY <1>1, <1>3, BlockInside
<1>5. /\ Extent(s.n, s.singleN, j) \in Nat \ {0} /\ j * s.singleN \in Nat
      /\ (j * s.singleN) + Extent(s.n, s.singleN, j) <= s.n
  BY <1>1, <1>3, BlockInside
<1>6. LiesIn(s, tile)
  BY <1>1, <1>3, <1>4, <1>5 DEF LiesIn
<1> QED BY <1>6 DEF s, tile

(* A tile that lies in columns of blocks: each column by its own core.     *)
LEMMA NzReduced ==
  ASSUME NEW s, NEW t, NEW tile, LiesIn(s, tile), s.nz = TRUE, s.cores \in Nat \ {0}
  PROVE  IsReduced(s, t, tile, SPLITK!Reduced(s, t, tile))
<1> DEFINE c == Align16  V == Ratio * s.cores  C == SPLITK!CeilDiv(tile.cols, c)  m == s.m
           done == SPLITK!Reduced(s, t, tile)
           core == [e \in (0 .. tile.rows - 1) \X (0 .. tile.cols - 1) |-> (e[2] \div c) % V]
           width(q) == IF q = C - 1 THEN tile.cols - q * c ELSE c
<1>1. c \in Nat \ {0} /\ V \in Nat \ {0}
  <2>1. c \in Nat \ {0} /\ Ratio \in Nat \ {0}
    BY SizesAssumption
  <2> QED BY <2>1
<1>2. /\ tile.rows \in Nat \ {0} /\ tile.cols \in Nat \ {0} /\ tile.row \in Nat /\ tile.column \in Nat
      /\ s.n \in Nat \ {0} /\ m \in Nat \ {0}
  BY DEF LiesIn
<1>3. C \in Nat \ {0} /\ tile.cols <= C * c /\ (C - 1) * c < tile.cols
  <2> DEFINE cols == tile.cols
  <2> HIDE DEF c
  <2>1. cols \in Nat \ {0}
    BY <1>2
  <2> HIDE DEF cols
  <2>2. SPLITK!CeilDiv(cols, c) \in Nat \ {0} /\ cols <= SPLITK!CeilDiv(cols, c) * c
        /\ (SPLITK!CeilDiv(cols, c) - 1) * c < cols
    BY <1>1, <2>1, RoundedUp
  <2> QED BY <2>2 DEF cols
<1>4. \A x : x \in done <=>
        \E v \in 0 .. V - 1, q \in 0 .. C - 1, i \in 0 .. tile.rows - 1 : \E k \in 0 .. width(q) - 1 :
          /\ q % V = v
          /\ x = <<v, (tile.row + i) * s.n + tile.column + q * c + k, q * c * m + i * c + k>>
  <2> DEFINE block(q) == {<<q * Align16 * s.m + i * Align16 + k, (tile.row + i) * s.n + tile.column + q * Align16 + k>> :
                            i \in 0 .. tile.rows - 1, k \in 0 .. width(q) - 1}
  <2>1. ASSUME NEW v, NEW y
        PROVE  y \in SPLITK!NzCopyOut(s, tile, v) <=> \E q \in 0 .. C - 1 : (q % V) = v /\ y \in block(q)
    <3>1. SPLITK!NzCopyOut(s, tile, v) = UNION {block(q) : q \in {r \in 0 .. C - 1 : r % V = v}}
      BY DEF SPLITK!NzCopyOut
    <3> HIDE DEF block
    <3> QED BY <3>1
  <2>2. done = UNION {{<<v, y[2], y[1]>> : y \in SPLITK!NzCopyOut(s, tile, v)} : v \in 0 .. V - 1}
    BY DEF SPLITK!Reduced, SPLITK!Vectors
  <2>3. \A x : x \in done <=> \E v \in 0 .. V - 1 : \E y \in SPLITK!NzCopyOut(s, tile, v) : x = <<v, y[2], y[1]>>
    BY <2>2
  <2> SUFFICES ASSUME NEW x
               PROVE  x \in done <=>
                        \E v \in 0 .. V - 1, q \in 0 .. C - 1, i \in 0 .. tile.rows - 1 : \E k \in 0 .. width(q) - 1 :
                          /\ q % V = v
                          /\ x = <<v, (tile.row + i) * s.n + tile.column + q * c + k, q * c * m + i * c + k>>
    OBVIOUS
  <2>4. \A q, y : y \in block(q) <=>
          \E i \in 0 .. tile.rows - 1 : \E k \in 0 .. width(q) - 1 :
            y = <<q * c * m + i * c + k, (tile.row + i) * s.n + tile.column + q * c + k>>
    OBVIOUS
  <2> HIDE DEF block, done, width, C, V, c, m
  <2>5. ASSUME x \in done
        PROVE  \E v \in 0 .. V - 1, q \in 0 .. C - 1, i \in 0 .. tile.rows - 1 : \E k \in 0 .. width(q) - 1 :
                 /\ q % V = v
                 /\ x = <<v, (tile.row + i) * s.n + tile.column + q * c + k, q * c * m + i * c + k>>
    <3>1. PICK v \in 0 .. V - 1 : \E y \in SPLITK!NzCopyOut(s, tile, v) : x = <<v, y[2], y[1]>>
      BY <2>3, <2>5
    <3>2. PICK y \in SPLITK!NzCopyOut(s, tile, v) : x = <<v, y[2], y[1]>>
      BY <3>1
    <3>3. PICK q \in 0 .. C - 1 : (q % V) = v /\ y \in block(q)
      BY <2>1
    <3>4. PICK i \in 0 .. tile.rows - 1 : \E k \in 0 .. width(q) - 1 :
            y = <<q * c * m + i * c + k, (tile.row + i) * s.n + tile.column + q * c + k>>
      BY <2>4, <3>3
    <3>5. PICK k \in 0 .. width(q) - 1 : y = <<q * c * m + i * c + k, (tile.row + i) * s.n + tile.column + q * c + k>>
      BY <3>4
    <3> DEFINE from == q * c * m + i * c + k  to == (tile.row + i) * s.n + tile.column + q * c + k
    <3>6. y = <<from, to>>
      BY <3>5
    <3> HIDE DEF from, to
    <3>7. x = <<v, to, from>>
      BY <3>2, <3>6
    <3> QED BY <3>3, <3>7, Zenon DEF from, to
  <2>6. ASSUME NEW v \in 0 .. V - 1, NEW q \in 0 .. C - 1, NEW i \in 0 .. tile.rows - 1, NEW k \in 0 .. width(q) - 1,
               q % V = v, x = <<v, (tile.row + i) * s.n + tile.column + q * c + k, q * c * m + i * c + k>>
        PROVE  x \in done
    <3> DEFINE from == q * c * m + i * c + k  to == (tile.row + i) * s.n + tile.column + q * c + k
    <3>1. <<from, to>> \in block(q)
      BY <2>4, Zenon
    <3>2. <<from, to>> \in SPLITK!NzCopyOut(s, tile, v)
      BY <2>1, <2>6, <3>1, Zenon
    <3>3. x = <<v, to, from>>
      BY <2>6
    <3> HIDE DEF from, to
    <3> DEFINE y == <<from, to>>
    <3>4. y \in SPLITK!NzCopyOut(s, tile, v) /\ y[1] = from /\ y[2] = to
      BY <3>2
    <3> HIDE DEF y
    <3> QED BY <2>3, <3>3, <3>4
  <2> QED BY <2>5, <2>6, Zenon
<1>5. \A i, j : SPLITK!Source(s, tile, i, j) = (j \div c) * c * m + i * c + (j % c)
  BY DEF SPLITK!Source
<1>6. DoneBy(s, tile, done, core)
  <2>0. \A x : x \in done <=>
          \E i \in 0 .. tile.rows - 1, j \in 0 .. tile.cols - 1 :
            x = <<core[<<i, j>>], ((tile.row + i) * s.n) + (tile.column + j), SPLITK!Source(s, tile, i, j)>>
    <3> SUFFICES ASSUME NEW x
                 PROVE  x \in done <=>
                   \E i \in 0 .. tile.rows - 1, j \in 0 .. tile.cols - 1 :
                     x = <<core[<<i, j>>], ((tile.row + i) * s.n) + (tile.column + j), SPLITK!Source(s, tile, i, j)>>
      OBVIOUS
    <3>1. ASSUME NEW i \in 0 .. tile.rows - 1, NEW j \in 0 .. tile.cols - 1,
                 x = <<core[<<i, j>>], ((tile.row + i) * s.n) + (tile.column + j), SPLITK!Source(s, tile, i, j)>>
          PROVE  x \in done
      <4> DEFINE q == j \div c  k == j % c  v == q % V
      <4> HIDE DEF V, C, c, m, done
      <4>1. j \in 0 .. tile.cols - 1 /\ j \in Nat
        BY <1>2
      <4>2. q \in Nat /\ k \in 0 .. c - 1 /\ j = (q * c) + k
        BY <1>1, <4>1
      <4>3. q \in 0 .. C - 1 /\ k \in 0 .. width(q) - 1
        <5> HIDE DEF q, k
        <5>1. q * c < tile.cols
          BY <1>1, <1>2, <4>1, <4>2
        <5>2. q <= C - 1
          <6> SUFFICES ASSUME C <= q PROVE FALSE
            BY <1>3, <4>2
          <6>1. C * c <= q * c /\ C * c \in Int /\ q * c \in Int
            BY <1>1, <1>3, <4>2
          <6> QED BY <1>2, <1>3, <5>1, <6>1
        <5>3. k < width(q)
          BY <1>1, <1>2, <4>1, <4>2
        <5> QED BY <1>1, <1>2, <1>3, <4>2, <5>2, <5>3
      <4>4. v \in 0 .. V - 1
        <5> HIDE DEF q
        <5> QED BY <1>1, <4>2
      <4>5. core[<<i, j>>] = v
        BY DEF c, V
      <4>6. ((tile.row + i) * s.n) + (tile.column + j) = (tile.row + i) * s.n + tile.column + q * c + k
        <5> HIDE DEF q, k
        <5>1. (tile.row + i) * s.n \in Int /\ q * c \in Int
          BY <1>1, <1>2, <4>2
        <5> QED BY <1>1, <1>2, <4>2, <5>1
      <4>7. SPLITK!Source(s, tile, i, j) = q * c * m + i * c + k
        BY <1>5, Zenon
      <4>8. x = <<v, (tile.row + i) * s.n + tile.column + q * c + k, q * c * m + i * c + k>>
        BY <3>1, <4>5, <4>6, <4>7, Zenon
      <4> HIDE DEF core, width
      <4>9. q % V = v
        OBVIOUS
      <4> HIDE DEF q, k, v
      <4> QED BY <1>4, <4>3, <4>4, <4>8, <4>9, Zenon
    <3>2. ASSUME NEW v \in 0 .. V - 1, NEW q \in 0 .. C - 1, NEW i \in 0 .. tile.rows - 1, NEW k \in 0 .. width(q) - 1,
                 q % V = v, x = <<v, (tile.row + i) * s.n + tile.column + q * c + k, q * c * m + i * c + k>>
          PROVE  \E j \in 0 .. tile.cols - 1 :
                   x = <<core[<<i, j>>], ((tile.row + i) * s.n) + (tile.column + j), SPLITK!Source(s, tile, i, j)>>
      <4> DEFINE j == (q * c) + k
      <4> HIDE DEF V, C, c, m, done
      <4>1. q \in Nat /\ k \in 0 .. c - 1 /\ k < width(q)
        <5>1. width(q) <= c
          <6>1. CASE q = C - 1
            <7>1. tile.cols - ((C - 1) * c) <= c
              <8>1. C * c = ((C - 1) * c) + c /\ (C - 1) * c \in Int
                BY <1>1, <1>3
              <8> QED BY <1>1, <1>2, <1>3, <8>1
            <7> QED BY <6>1, <7>1
          <6> QED BY <1>1, <6>1
        <5>2. width(q) \in Int
          BY <1>1, <1>2, <1>3
        <5> HIDE DEF width
        <5> QED BY <1>1, <1>3, <5>1, <5>2
      <4>2. j \div c = q /\ (j % c) = k
        BY <1>1, <4>1
      <4>3. j \in 0 .. tile.cols - 1
        <5>1. CASE q = C - 1
          <6>1. k < tile.cols - (q * c) /\ q * c \in Int
            BY <1>1, <4>1, <5>1
          <6> QED BY <1>1, <1>2, <4>1, <6>1
        <5>2. CASE q # C - 1
          <6>1. (q + 1) * c <= (C - 1) * c /\ (q + 1) * c = (q * c) + c /\ q * c \in Nat /\ (C - 1) * c \in Int
            BY <1>1, <1>3, <4>1, <5>2
          <6> QED BY <1>1, <1>2, <1>3, <4>1, <6>1
        <5> QED BY <5>1, <5>2
      <4> HIDE DEF j
      <4>4. core[<<i, j>>] = v
        BY <3>2, <4>2, <4>3 DEF c, V
      <4>5. ((tile.row + i) * s.n) + (tile.column + j) = (tile.row + i) * s.n + tile.column + q * c + k
        <5>1. (tile.row + i) * s.n \in Int /\ q * c \in Int
          BY <1>1, <1>2, <4>1
        <5> QED BY <1>1, <1>2, <4>1, <5>1 DEF j
      <4>6. SPLITK!Source(s, tile, i, j) = q * c * m + i * c + k
        BY <1>5, <4>2, Zenon
      <4> HIDE DEF core
      <4> QED BY <3>2, <4>3, <4>4, <4>5, <4>6, Zenon
    <3> HIDE DEF done, core, V, C, c, m, width
    <3>3. ASSUME x \in done
          PROVE  \E i \in 0 .. tile.rows - 1, j \in 0 .. tile.cols - 1 :
                   x = <<core[<<i, j>>], ((tile.row + i) * s.n) + (tile.column + j), SPLITK!Source(s, tile, i, j)>>
      <4>1. PICK v \in 0 .. V - 1, q \in 0 .. C - 1, i \in 0 .. tile.rows - 1 : \E k \in 0 .. width(q) - 1 :
              q % V = v /\ x = <<v, (tile.row + i) * s.n + tile.column + q * c + k, q * c * m + i * c + k>>
        BY <1>4, <3>3
      <4>2. PICK k \in 0 .. width(q) - 1 :
              q % V = v /\ x = <<v, (tile.row + i) * s.n + tile.column + q * c + k, q * c * m + i * c + k>>
        BY <4>1, Zenon
      <4>3. PICK j \in 0 .. tile.cols - 1 :
              x = <<core[<<i, j>>], ((tile.row + i) * s.n) + (tile.column + j), SPLITK!Source(s, tile, i, j)>>
        BY <3>2, <4>2, Zenon
      <4> QED BY <4>3, Zenon
    <3>4. ASSUME NEW i \in 0 .. tile.rows - 1, NEW j \in 0 .. tile.cols - 1
          PROVE  x = <<core[<<i, j>>], ((tile.row + i) * s.n) + (tile.column + j), SPLITK!Source(s, tile, i, j)>>
                   => x \in done
      BY <3>1
    <3> QED BY <3>3, <3>4, Zenon
  <2> QED BY <2>0, Zenon DEF DoneBy
<1> HIDE DEF done, core
<1> QED BY <1>6, ElementsReduced DEF done

(* How many b cover a is told by where the last one starts and ends.       *)
LEMMA OneCeil ==
  ASSUME NEW a \in Nat \ {0}, NEW b \in Nat \ {0}, NEW q \in Nat \ {0}, a <= q * b, (q - 1) * b < a
  PROVE  SPLITK!CeilDiv(a, b) = q
<1> DEFINE r == SPLITK!CeilDiv(a, b)
<1>1. r \in Nat \ {0} /\ a <= r * b /\ (r - 1) * b < a
  BY RoundedUp
<1> HIDE DEF r
<1>2. ~(r < q)
  <2> SUFFICES ASSUME r < q PROVE FALSE
    OBVIOUS
  <2>1. r * b <= (q - 1) * b /\ r * b \in Int /\ (q - 1) * b \in Int
    BY <1>1
  <2> QED BY <1>1, <2>1
<1>3. ~(q < r)
  <2> SUFFICES ASSUME q < r PROVE FALSE
    OBVIOUS
  <2>1. q * b <= (r - 1) * b /\ q * b \in Int /\ (r - 1) * b \in Int
    BY <1>1
  <2> QED BY <1>1, <2>1
<1> QED BY <1>1, <1>2, <1>3 DEF r

(* As many lines of one length as of another.                              *)
LEMMA ScaledCeil ==
  ASSUME NEW a \in Nat \ {0}, NEW b \in Nat \ {0}, NEW w \in Nat \ {0}
  PROVE  SPLITK!CeilDiv(a * w, b * w) = SPLITK!CeilDiv(a, b)
<1> DEFINE q == SPLITK!CeilDiv(a, b)  aw == a * w  bw == b * w
<1>1. q \in Nat \ {0} /\ a <= q * b /\ (q - 1) * b < a
  BY RoundedUp
<1>2. aw \in Nat \ {0} /\ bw \in Nat \ {0}
  OBVIOUS
<1> HIDE DEF q
<1>3. aw <= q * bw
  <2>1. a * w <= (q * b) * w /\ (q * b) * w = q * (b * w)
    BY <1>1
  <2> QED BY <2>1
<1>4. (q - 1) * bw < aw
  <2> DEFINE u == (q - 1) * b
  <2>1. u \in Int /\ u + 1 <= a /\ u * w = (q - 1) * (b * w)
    BY <1>1
  <2> HIDE DEF u
  <2>2. (u + 1) * w <= a * w /\ (u + 1) * w = (u * w) + w /\ u * w \in Int /\ a * w \in Int
    BY <2>1
  <2> QED BY <2>1, <2>2
<1> HIDE DEF aw, bw
<1>5. SPLITK!CeilDiv(aw, bw) = q
  BY <1>1, <1>2, <1>3, <1>4, OneCeil
<1> QED BY <1>5 DEF aw, bw, q

(* What is left from block i on, up to a block.                            *)
LEMMA LeastExtent ==
  ASSUME NEW size \in Nat \ {0}, NEW single \in Nat \ {0}, NEW i \in Nat, i < SPLITK!CeilDiv(size, single)
  PROVE  SPLITK!Least(single, size - (i * single)) = Extent(size, single, i)
<1> DEFINE q == SPLITK!CeilDiv(size, single)
<1>1. q \in Nat \ {0} /\ size <= q * single /\ (q - 1) * single < size
  BY RoundedUp
<1>2. CASE i = q - 1
  <2>1. Extent(size, single, i) = size - (i * single)
    BY <1>2 DEF Extent
  <2> HIDE DEF q
  <2>2. q * single = (i * single) + single /\ i * single \in Nat
    BY <1>1, <1>2
  <2>3. size - (i * single) <= single /\ size - (i * single) \in Int
    BY <1>1, <2>2
  <2> DEFINE left == size - (i * single)
  <2> HIDE DEF left
  <2>4. SPLITK!Least(single, left) = left
    BY <2>3 DEF SPLITK!Least, left
  <2> QED BY <2>1, <2>4 DEF left
<1>3. CASE i # q - 1
  <2>1. Extent(size, single, i) = single
    BY <1>3 DEF Extent
  <2>2. i + 1 <= q - 1
    BY <1>1, <1>3
  <2> HIDE DEF q
  <2>3. (i + 1) * single <= (q - 1) * single /\ (i + 1) * single = (i * single) + single
        /\ (q - 1) * single \in Int /\ i * single \in Nat
    BY <1>1, <2>2
  <2>4. single < size - (i * single)
    BY <1>1, <2>3
  <2> QED BY <2>1, <2>4 DEF SPLITK!Least
<1> QED BY <1>2, <1>3

(* Least of so many times a length.                                        *)
LEMMA ScaledLeast ==
  ASSUME NEW a \in Int, NEW b \in Int, NEW w \in Nat \ {0}
  PROVE  SPLITK!Least(a * w, b * w) = SPLITK!Least(a, b) * w
<1>1. CASE a < b
  <2>1. a + 1 <= b
    BY <1>1
  <2>2. (a + 1) * w <= b * w /\ (a + 1) * w = (a * w) + w /\ a * w \in Int /\ b * w \in Int
    BY <2>1
  <2>3. a * w < b * w
    BY <2>2
  <2> QED BY <1>1, <2>3 DEF SPLITK!Least
<1>2. CASE ~(a < b)
  <2>1. b * w <= a * w /\ a * w \in Int /\ b * w \in Int
    BY <1>2
  <2>2. ~(a * w < b * w)
    BY <2>1
  <2> QED BY <1>2, <2>2 DEF SPLITK!Least
<1> QED BY <1>1, <1>2

(* The lines of a tile that a vector core takes, M or fewer at a time.     *)
LinesEach(s, tile) == SPLITK!CeilDiv(tile.rows, Ratio * s.cores)
LinesOf(s, tile, v) == Extent(tile.rows, LinesEach(s, tile), v)

(* Tile t is moved by whole lines.                                         *)
MovedByLines(s, t, tile, M) ==
  /\ SPLITK!ByRows(s) /\ s.nz = FALSE /\ s.cores \in Nat \ {0}
  /\ tile.stride \in Nat \ {0} /\ tile.cols <= tile.stride
  /\ M \in Nat \ {0} /\ SPLITK!Moved(s, t, tile) = M * tile.stride

(* The lines of a tile are enough for all vector cores, and each takes     *)
(* some that are its own.                                                  *)
LEMMA LinesTaken ==
  ASSUME NEW s, NEW tile, tile.rows \in Nat \ {0}, s.cores \in Nat \ {0}
  PROVE  /\ Ratio * s.cores \in Nat \ {0} /\ LinesEach(s, tile) \in Nat \ {0}
         /\ tile.rows <= (Ratio * s.cores) * LinesEach(s, tile)
         /\ \A v \in Nat : v * LinesEach(s, tile) < tile.rows =>
              /\ v < SPLITK!CeilDiv(tile.rows, LinesEach(s, tile)) /\ v < Ratio * s.cores
              /\ LinesOf(s, tile, v) \in Nat \ {0} /\ LinesOf(s, tile, v) <= LinesEach(s, tile)
              /\ (v * LinesEach(s, tile)) + LinesOf(s, tile, v) <= tile.rows
<1> DEFINE V == Ratio * s.cores  rows == tile.rows  each == LinesEach(s, tile)
<1>1. V \in Nat \ {0}
  BY SizesAssumption
<1>2. rows \in Nat \ {0}
  OBVIOUS
<1> HIDE DEF V, rows
<1>3. SPLITK!CeilDiv(rows, V) \in Nat \ {0} /\ rows <= SPLITK!CeilDiv(rows, V) * V
  BY <1>1, <1>2, RoundedUp
<1>4. each = SPLITK!CeilDiv(rows, V)
  BY DEF LinesEach, rows, V
<1> HIDE DEF each
<1>5. each \in Nat \ {0} /\ rows <= V * each
  <2>1. each * V = V * each
    BY <1>1, <1>3, <1>4
  <2> QED BY <1>3, <1>4, <2>1
<1>6. ASSUME NEW v \in Nat, v * each < rows
      PROVE  /\ v < SPLITK!CeilDiv(rows, each) /\ v < V
             /\ Extent(rows, each, v) \in Nat \ {0} /\ Extent(rows, each, v) <= each
             /\ (v * each) + Extent(rows, each, v) <= rows
  <2> DEFINE q == SPLITK!CeilDiv(rows, each)
  <2>1. q \in Nat \ {0} /\ rows <= q * each
    BY <1>2, <1>5, RoundedUp
  <2> HIDE DEF q
  <2>2. v < q
    <3> SUFFICES ASSUME q <= v PROVE FALSE
      BY <2>1
    <3>1. q * each <= v * each /\ q * each \in Int /\ v * each \in Int
      BY <1>5, <2>1
    <3> QED BY <1>2, <1>6, <2>1, <3>1
  <2>3. v < V
    <3> SUFFICES ASSUME V <= v PROVE FALSE
      BY <1>1
    <3>1. V * each <= v * each /\ V * each \in Int /\ v * each \in Int
      BY <1>1, <1>5
    <3> QED BY <1>2, <1>5, <1>6, <3>1
  <2>4. v < SPLITK!CeilDiv(rows, each)
    BY <2>2 DEF q
  <2>5. /\ Extent(rows, each, v) \in Nat \ {0} /\ Extent(rows, each, v) <= each
        /\ (v * each) + Extent(rows, each, v) <= rows
    BY <1>2, <1>5, <2>4, BlockInside
  <2> QED BY <2>3, <2>4, <2>5
<1> QED BY <1>1, <1>5, <1>6 DEF V, rows, each, LinesOf

(* The pieces of a vector core are so many whole lines each.               *)
LEMMA PiecesByLines ==
  ASSUME NEW s, NEW t, NEW tile, NEW M, MovedByLines(s, t, tile, M), tile.rows \in Nat \ {0}, NEW v \in Nat
  PROVE  LET from == v * LinesEach(s, tile)
             lines == LinesOf(s, tile, v)
             pieces == SPLITK!Pieces(s, t, tile, v)
         IN  /\ ~(from < tile.rows) => pieces = {}
             /\ from < tile.rows =>
                  \A y : y \in pieces <=> \E k \in 0 .. SPLITK!CeilDiv(lines, M) - 1 :
                                       y = <<(from + (k * M)) * tile.stride, Extent(lines, M, k) * tile.stride>>
<1> DEFINE each == LinesEach(s, tile)  w == tile.stride  rows == tile.rows  from == v * each
           lines == LinesOf(s, tile, v)  pieces == SPLITK!Pieces(s, t, tile, v)
<1>1. w \in Nat \ {0} /\ rows \in Nat \ {0} /\ M \in Nat \ {0} /\ each \in Nat \ {0} /\ from \in Nat
  <2>1. each \in Nat \ {0}
    BY LinesTaken DEF MovedByLines
  <2> HIDE DEF each
  <2> QED BY <2>1 DEF MovedByLines
<1>2. from < rows => lines \in Nat \ {0} /\ lines = Extent(rows, each, v) /\ v < SPLITK!CeilDiv(rows, each)
  BY LinesTaken DEF MovedByLines, LinesOf
<1>3. /\ SPLITK!CoreSize(s, tile) = each * w /\ SPLITK!OutSize(s, t, tile) = rows * w
      /\ SPLITK!Moved(s, t, tile) = M * w
  BY DEF SPLITK!CoreSize, SPLITK!OutSize, MovedByLines, LinesEach
<1> HIDE DEF each, w, rows, lines
<1>4. v * (each * w) = from * w /\ from * w \in Nat
  BY <1>1
<1>5. from < rows <=> from * w < rows * w
  <2> HIDE DEF from
  <2>1. CASE from < rows
    <3>1. (from + 1) * w <= rows * w /\ (from + 1) * w = (from * w) + w /\ from * w \in Int /\ rows * w \in Int
      BY <1>1, <2>1
    <3> QED BY <1>1, <2>1, <3>1
  <2>2. CASE rows <= from
    <3>1. rows * w <= from * w /\ from * w \in Int /\ rows * w \in Int
      BY <1>1, <2>2
    <3> QED BY <1>1, <2>2, <3>1
  <2> QED BY <1>1, <2>1, <2>2
<1>6. pieces = IF ~(from * w < rows * w) THEN {}
          ELSE {<<from * w + k * (M * w), SPLITK!Least(M * w, SPLITK!Least(each * w, rows * w - from * w) - k * (M * w))>> :
                  k \in 0 .. SPLITK!CeilDiv(SPLITK!Least(each * w, rows * w - from * w), M * w) - 1}
  <2> HIDE DEF from
  <2>1. rows * w \in Int /\ from * w \in Int
    BY <1>1, <1>4
  <2>2. from * w >= rows * w <=> ~(from * w < rows * w)
    BY <2>1
  <2> QED BY <1>3, <1>4, <2>2, Zenon DEF SPLITK!Pieces
<1>7. ASSUME from < rows
      PROVE  \A y : y \in pieces <=> \E k \in 0 .. SPLITK!CeilDiv(lines, M) - 1 :
                                  y = <<(from + (k * M)) * w, Extent(lines, M, k) * w>>
  <2>1. lines \in Nat \ {0} /\ lines = Extent(rows, each, v) /\ v < SPLITK!CeilDiv(rows, each)
    BY <1>2, <1>7
  <2>2. SPLITK!Least(each, rows - from) = lines
    BY <1>1, <2>1, LeastExtent
  <2> HIDE DEF from
  <2>3. SPLITK!Least(each * w, rows * w - from * w) = lines * w
    <3> DEFINE left == rows - from
    <3>1. left \in Int /\ left * w = rows * w - from * w
      BY <1>1
    <3> HIDE DEF left
    <3>2. SPLITK!Least(each * w, left * w) = SPLITK!Least(each, left) * w
      BY <1>1, <3>1, ScaledLeast
    <3> QED BY <2>2, <3>1, <3>2 DEF left
  <2>4. SPLITK!CeilDiv(lines * w, M * w) = SPLITK!CeilDiv(lines, M)
    BY <1>1, <2>1, ScaledCeil
  <2>5. pieces = {<<from * w + k * (M * w), SPLITK!Least(M * w, lines * w - k * (M * w))>> :
               k \in 0 .. SPLITK!CeilDiv(lines, M) - 1}
    BY <1>5, <1>6, <1>7, <2>3, <2>4
  <2> DEFINE last == SPLITK!CeilDiv(lines, M) - 1
  <2>6. SPLITK!CeilDiv(lines, M) \in Nat
    BY <1>1, <2>1, RoundedUp
  <2>7. ASSUME NEW k \in 0 .. last
        PROVE  /\ from * w + k * (M * w) = (from + (k * M)) * w
               /\ SPLITK!Least(M * w, lines * w - k * (M * w)) = Extent(lines, M, k) * w
    <3>1. k \in Nat /\ k < SPLITK!CeilDiv(lines, M)
      BY <2>6
    <3>2. SPLITK!Least(M, lines - (k * M)) = Extent(lines, M, k)
      BY <1>1, <2>1, <3>1, LeastExtent
    <3> HIDE DEF last
    <3> DEFINE left == lines - (k * M)
    <3>3. left \in Int /\ left * w = lines * w - k * (M * w)
      BY <1>1, <2>1, <3>1
    <3> HIDE DEF left
    <3>4. SPLITK!Least(M * w, left * w) = SPLITK!Least(M, left) * w
      BY <1>1, <3>3, ScaledLeast
    <3>5. from * w + k * (M * w) = (from + (k * M)) * w
      BY <1>1, <3>1
    <3> QED BY <3>2, <3>3, <3>4, <3>5 DEF left
  <2> QED BY <2>5, <2>7
<1>8. ~(from < rows) => pieces = {}
  BY <1>5, <1>6
<1> QED BY <1>7, <1>8 DEF each, w, rows, lines

(* A number of whole lines is so many lines and nothing more.              *)
LEMMA WholeLines ==
  ASSUME NEW a \in Nat, NEW w \in Nat \ {0}
  PROVE  (a * w) \div w = a /\ ((a * w) % w) = 0
<1>1. a * w = (a * w) + 0 /\ 0 \in 0 .. w - 1 /\ a * w \in Nat
  OBVIOUS
<1>2. ((a * w) + 0) \div w = a /\ (((a * w) + 0) % w) = 0
  OBVIOUS
<1> QED BY <1>1, <1>2

(* What is copied of e whole lines from line a on.                         *)
CopiedLines(s, tile, a, e, z) ==
  \E i \in 0 .. e - 1, j \in 0 .. tile.cols - 1 :
    z = <<(a + i) * tile.stride + j, ((tile.row + (a + i)) * s.n) + (tile.column + j)>>

(* What is copied of a piece of whole lines.                               *)
LEMMA LinesCopied ==
  ASSUME NEW s, NEW t, NEW tile, NEW M, MovedByLines(s, t, tile, M), LiesIn(s, tile),
         NEW a \in Nat, NEW e \in Nat, NEW y, y = <<a * tile.stride, e * tile.stride>>, NEW z
  PROVE  z \in SPLITK!CopyOut(s, t, tile, y) <=> CopiedLines(s, tile, a, e, z)
<1> DEFINE w == tile.stride  row == tile.row + a  column == tile.column  n == s.n  cols == tile.cols
<1>1. w \in Nat \ {0} /\ row \in Nat /\ column \in Nat /\ n \in Nat \ {0} /\ cols \in Nat \ {0} /\ tile.row \in Nat
  BY DEF MovedByLines, LiesIn
<1>2. y[1] = a * w /\ y[2] = e * w
  OBVIOUS
<1>3. (a * w) \div w = a /\ ((a * w) % w) = 0 /\ (e * w) \div w = e
  <2> HIDE DEF w
  <2> QED BY <1>1, WholeLines
<1>4. SPLITK!CopyOut(s, t, tile, y) =
        {<<y[1] + i * w + j, ((tile.row + (y[1] \div w)) + i) * n + (column + (y[1] % w)) + j>> :
           i \in 0 .. (y[2] \div w) - 1, j \in 0 .. cols - 1}
  BY DEF SPLITK!CopyOut, MovedByLines
<1> HIDE DEF w, column, n, cols
<1>5. SPLITK!CopyOut(s, t, tile, y) =
        {<<a * w + i * w + j, ((tile.row + a) + i) * n + (column + 0) + j>> : i \in 0 .. e - 1, j \in 0 .. cols - 1}
  BY <1>2, <1>3, <1>4
<1>6. ASSUME NEW i \in 0 .. e - 1, NEW j \in 0 .. cols - 1
      PROVE  /\ a * w + i * w + j = (a + i) * w + j
             /\ ((tile.row + a) + i) * n + (column + 0) + j = ((tile.row + (a + i)) * n) + (column + j)
  <2>1. i \in Nat /\ j \in Nat
    BY <1>1
  <2>2. (a + i) * w = a * w + i * w /\ a * w \in Nat /\ i * w \in Nat
    BY <1>1, <2>1
  <2>3. ((tile.row + a) + i) * n = (tile.row + (a + i)) * n /\ (tile.row + (a + i)) * n \in Nat
    BY <1>1, <2>1
  <2> QED BY <1>1, <2>1, <2>2, <2>3
<1>7. z \in SPLITK!CopyOut(s, t, tile, y) <=>
        \E i \in 0 .. e - 1, j \in 0 .. cols - 1 :
          z = <<a * w + i * w + j, ((tile.row + a) + i) * n + (column + 0) + j>>
  BY <1>5
<1>8. z \in SPLITK!CopyOut(s, t, tile, y) <=>
        \E i \in 0 .. e - 1, j \in 0 .. cols - 1 : z = <<(a + i) * w + j, ((tile.row + (a + i)) * n) + (column + j)>>
  BY <1>6, <1>7
<1> QED BY <1>8 DEF CopiedLines, w, column, n, cols

(* The vector cores share the lines of a tile out, and every line is moved *)
(* at one of their turns.                                                  *)
LEMMA LineTaken ==
  ASSUME NEW s, NEW tile, tile.rows \in Nat \ {0}, s.cores \in Nat \ {0}, NEW M \in Nat \ {0},
         NEW o \in 0 .. tile.rows - 1
  PROVE  \E v \in 0 .. (Ratio * s.cores) - 1 :
           /\ v * LinesEach(s, tile) < tile.rows
           /\ \E k \in 0 .. SPLITK!CeilDiv(LinesOf(s, tile, v), M) - 1 : \E i \in 0 .. Extent(LinesOf(s, tile, v), M, k) - 1 :
                o = ((v * LinesEach(s, tile)) + (k * M)) + i
<1> DEFINE each == LinesEach(s, tile)  rows == tile.rows  V == Ratio * s.cores
<1>1. rows \in Nat \ {0} /\ each \in Nat \ {0} /\ V \in Nat \ {0}
  BY LinesTaken
<1>2. PICK v \in Nat : v < SPLITK!CeilDiv(rows, each) /\ InBlock(o, rows, each, v)
  <2> HIDE DEF rows, each
  <2>1. o \in 0 .. rows - 1
    BY DEF rows
  <2> QED BY <1>1, <2>1, BlockOf
<1> DEFINE lines == LinesOf(s, tile, v)  from == v * each
<1>3. lines = Extent(rows, each, v) /\ from <= o /\ o < from + lines
  BY <1>2 DEF InBlock, LinesOf
<1>4. from \in Nat /\ from < rows /\ o \in Nat
  <2> HIDE DEF rows, each, lines
  <2>1. o \in 0 .. rows - 1
    BY DEF rows
  <2> QED BY <1>1, <1>3, <2>1
<1>5. v < V /\ lines \in Nat \ {0}
  BY <1>4, LinesTaken
<1> HIDE DEF rows, each, lines, from
<1>6. o - from \in 0 .. lines - 1
  BY <1>3, <1>4, <1>5
<1> DEFINE u == o - from
<1> HIDE DEF u
<1>7. PICK k \in Nat : k < SPLITK!CeilDiv(lines, M) /\ InBlock(u, lines, M, k)
  BY <1>5, <1>6, BlockOf DEF u
<1> DEFINE i == u - (k * M)
<1>8. Extent(lines, M, k) \in Nat /\ SPLITK!CeilDiv(lines, M) \in Nat /\ k * M \in Nat
  BY <1>5, <1>7, BlockInside, RoundedUp
<1>9. i \in 0 .. Extent(lines, M, k) - 1 /\ o = (from + (k * M)) + i
  <2>1. k * M <= u /\ u < (k * M) + Extent(lines, M, k)
    BY <1>7 DEF InBlock
  <2>2. u \in Int /\ u = o - from
    BY <1>4 DEF u
  <2> QED BY <1>4, <1>8, <2>1, <2>2
<1> HIDE DEF i
<1>10. k \in 0 .. SPLITK!CeilDiv(lines, M) - 1 /\ v \in 0 .. V - 1
  BY <1>1, <1>5, <1>7, <1>8
<1> QED BY <1>4, <1>9, <1>10 DEF from, lines, each, rows

(* No line is moved at two turns.                                          *)
LEMMA LineOnce ==
  ASSUME NEW s, NEW tile, tile.rows \in Nat \ {0}, s.cores \in Nat \ {0}, NEW M \in Nat \ {0},
         NEW v \in Nat, v * LinesEach(s, tile) < tile.rows,
         NEW k \in 0 .. SPLITK!CeilDiv(LinesOf(s, tile, v), M) - 1, NEW i \in 0 .. Extent(LinesOf(s, tile, v), M, k) - 1,
         NEW o, o = ((v * LinesEach(s, tile)) + (k * M)) + i
  PROVE  o \in 0 .. tile.rows - 1 /\ o \div LinesEach(s, tile) = v
<1> DEFINE each == LinesEach(s, tile)  rows == tile.rows  lines == LinesOf(s, tile, v)  from == v * each
<1>1. /\ rows \in Nat \ {0} /\ each \in Nat \ {0} /\ from \in Nat
      /\ lines \in Nat \ {0} /\ lines <= each /\ from + lines <= rows
  <2>1. /\ each \in Nat \ {0} /\ lines \in Nat \ {0} /\ lines <= each /\ from + lines <= rows
    BY LinesTaken
  <2> HIDE DEF each
  <2> QED BY <2>1
<1> HIDE DEF lines
<1>2. k \in Nat /\ k < SPLITK!CeilDiv(lines, M)
  <2>1. SPLITK!CeilDiv(lines, M) \in Nat
    BY <1>1, RoundedUp
  <2> QED BY <2>1 DEF lines
<1>3. Extent(lines, M, k) \in Nat /\ k * M \in Nat /\ (k * M) + Extent(lines, M, k) <= lines
  BY <1>1, <1>2, BlockInside
<1>4. i \in Nat /\ i < Extent(lines, M, k)
  BY <1>3 DEF lines
<1> DEFINE u == (k * M) + i
<1>5. u \in Nat /\ u < lines
  BY <1>1, <1>2, <1>3, <1>4
<1>6. o = from + u
  <2> HIDE DEF each
  <2> QED BY <1>1, <1>3, <1>4 DEF each
<1> HIDE DEF u, each, rows, from
<1>7. o \in 0 .. rows - 1 /\ u < each
  BY <1>1, <1>5, <1>6
<1>8. (from + u) \div each = v
  <2>1. u \in 0 .. each - 1
    BY <1>1, <1>5, <1>7
  <2> QED BY <1>1, <2>1 DEF from
<1> QED BY <1>6, <1>7, <1>8 DEF each, rows

(* What a vector core reduces, by its pieces.                              *)
ReducedIn(s, t, tile, x, v) ==
  \E y \in SPLITK!Pieces(s, t, tile, v) : \E z \in SPLITK!CopyOut(s, t, tile, y) : x = <<v, z[2], z[1]>>
ReducedBy(s, t, tile, x) == \E v \in 0 .. (Ratio * s.cores) - 1 : ReducedIn(s, t, tile, x, v)

(* What the vector cores do is what they do with their pieces.             *)
LEMMA DoneByPieces ==
  ASSUME NEW s, NEW t, NEW tile, s.nz = FALSE, NEW x
  PROVE  x \in SPLITK!Reduced(s, t, tile) <=> ReducedBy(s, t, tile, x)
<1> DEFINE V == 0 .. (Ratio * s.cores) - 1
           all(v) == UNION {SPLITK!CopyOut(s, t, tile, y) : y \in SPLITK!Pieces(s, t, tile, v)}
<1>1. SPLITK!Reduced(s, t, tile) = UNION {{<<v, z[2], z[1]>> : z \in all(v)} : v \in V}
  BY DEF SPLITK!Reduced, SPLITK!Vectors
<1>2. \A v, z : z \in all(v) <=> \E y \in SPLITK!Pieces(s, t, tile, v) : z \in SPLITK!CopyOut(s, t, tile, y)
  OBVIOUS
<1> HIDE DEF all, V
<1>3. x \in SPLITK!Reduced(s, t, tile) <=> \E v \in V : \E z \in all(v) : x = <<v, z[2], z[1]>>
  BY <1>1
<1>4. ASSUME x \in SPLITK!Reduced(s, t, tile)
      PROVE  \E v \in V : \E y \in SPLITK!Pieces(s, t, tile, v) :
               \E z \in SPLITK!CopyOut(s, t, tile, y) : x = <<v, z[2], z[1]>>
  BY <1>2, <1>3, <1>4
<1>5. ASSUME NEW v \in V, NEW y \in SPLITK!Pieces(s, t, tile, v), NEW z \in SPLITK!CopyOut(s, t, tile, y), x = <<v, z[2], z[1]>>
      PROVE  x \in SPLITK!Reduced(s, t, tile)
  BY <1>2, <1>3, <1>5
<1> QED BY <1>4, <1>5, Zenon DEF V, ReducedBy, ReducedIn

(* A tile that is moved by lines.                                          *)
LEMMA LinesReduced ==
  ASSUME NEW s, NEW t, NEW tile, NEW M, MovedByLines(s, t, tile, M), LiesIn(s, tile)
  PROVE  IsReduced(s, t, tile, SPLITK!Reduced(s, t, tile))
<1> DEFINE w == tile.stride  V == Ratio * s.cores  each == LinesEach(s, tile)  rows == tile.rows  cols == tile.cols
           done == SPLITK!Reduced(s, t, tile)  n == s.n
           core == [e \in (0 .. tile.rows - 1) \X (0 .. tile.cols - 1) |-> e[1] \div each]
           to(o, j) == ((tile.row + o) * n) + (tile.column + j)
<1>1. /\ w \in Nat \ {0} /\ rows \in Nat \ {0} /\ cols \in Nat \ {0} /\ M \in Nat \ {0}
      /\ s.nz = FALSE /\ s.cores \in Nat \ {0} /\ tile.row \in Nat /\ tile.column \in Nat /\ n \in Nat \ {0}
  BY DEF MovedByLines, LiesIn
<1>0. V \in Nat \ {0}
  BY <1>1, LinesTaken
<1>2. \A o, j : SPLITK!Source(s, tile, o, j) = o * w + j
  BY <1>1 DEF SPLITK!Source
<1>3. ASSUME NEW x \in done
      PROVE  \E o \in 0 .. rows - 1, j \in 0 .. cols - 1 :
               x = <<core[<<o, j>>], to(o, j), SPLITK!Source(s, tile, o, j)>>
  <2>0. ReducedBy(s, t, tile, x)
    BY <1>1, DoneByPieces
  <2>1. PICK v \in 0 .. V - 1 : ReducedIn(s, t, tile, x, v)
    BY <2>0, Zenon DEF ReducedBy
  <2>2. PICK y \in SPLITK!Pieces(s, t, tile, v) : \E z \in SPLITK!CopyOut(s, t, tile, y) : x = <<v, z[2], z[1]>>
    BY <2>1, Zenon DEF ReducedIn
  <2>3. PICK z \in SPLITK!CopyOut(s, t, tile, y) : x = <<v, z[2], z[1]>>
    BY <2>2
  <2> DEFINE from == v * each  lines == LinesOf(s, tile, v)
  <2>4. v \in Nat /\ V \in Nat
    <3> HIDE DEF V
    <3> QED BY <1>0
  <2>5. /\ ~(from < rows) => SPLITK!Pieces(s, t, tile, v) = {}
        /\ from < rows =>
             \A u : u \in SPLITK!Pieces(s, t, tile, v) <=>
               \E k \in 0 .. SPLITK!CeilDiv(lines, M) - 1 : u = <<(from + (k * M)) * w, Extent(lines, M, k) * w>>
    BY <1>1, <2>4, PiecesByLines
  <2>6. from < rows
    BY <2>2, <2>5
  <2>7. PICK k \in 0 .. SPLITK!CeilDiv(lines, M) - 1 : y = <<(from + (k * M)) * w, Extent(lines, M, k) * w>>
    BY <2>2, <2>5, <2>6
  <2> DEFINE a == from + (k * M)  e == Extent(lines, M, k)
  <2>8. a \in Nat /\ e \in Nat
    <3>1. each \in Nat \ {0} /\ lines \in Nat \ {0}
      BY <1>1, <2>4, <2>6, LinesTaken
    <3> HIDE DEF each, lines
    <3>2. SPLITK!CeilDiv(lines, M) \in Nat
      BY <1>1, <3>1, RoundedUp
    <3>3. k \in Nat /\ k < SPLITK!CeilDiv(lines, M)
      BY <3>2
    <3>4. e \in Nat
      BY <1>1, <3>1, <3>3, BlockInside
    <3>5. a \in Nat
      BY <1>1, <2>4, <3>1, <3>3
    <3> QED BY <3>4, <3>5
  <2>9. y = <<a * w, e * w>>
    BY <2>7
  <2>10. PICK i \in 0 .. e - 1, j \in 0 .. cols - 1 :
           z = <<(a + i) * w + j, ((tile.row + (a + i)) * n) + (tile.column + j)>>
    <3> HIDE DEF a, e
    <3>1. CopiedLines(s, tile, a, e, z)
      BY <2>3, <2>8, <2>9, LinesCopied
    <3> QED BY <3>1, Zenon DEF CopiedLines
  <2> DEFINE o == a + i
  <2>11. o \in 0 .. rows - 1 /\ o \div each = v
    <3>1. o = ((v * each) + (k * M)) + i
      OBVIOUS
    <3> HIDE DEF o
    <3> QED BY <1>1, <2>4, <2>6, <3>1, LineOnce
  <2> HIDE DEF o, a, e, from, lines
  <2>12. core[<<o, j>>] = v
    BY <2>11
  <2>13. z = <<o * w + j, to(o, j)>>
    BY <2>10 DEF o
  <2> HIDE DEF core
  <2>14. x = <<v, to(o, j), o * w + j>>
    <3> HIDE DEF to
    <3> DEFINE src == o * w + j
    <3> HIDE DEF src
    <3>1. z = <<src, to(o, j)>>
      BY <2>13 DEF src
    <3>2. x = <<v, to(o, j), src>>
      BY <2>3, <3>1
    <3> QED BY <3>2 DEF src
  <2>15. x = <<core[<<o, j>>], to(o, j), SPLITK!Source(s, tile, o, j)>>
    BY <1>2, <2>12, <2>14, Zenon
  <2> HIDE DEF to
  <2> QED BY <2>11, <2>15, Zenon
<1>4. ASSUME NEW o \in 0 .. rows - 1, NEW j \in 0 .. cols - 1
      PROVE  <<core[<<o, j>>], to(o, j), SPLITK!Source(s, tile, o, j)>> \in done
  <2>1. PICK v \in 0 .. V - 1 :
           /\ v * each < rows
           /\ \E k \in 0 .. SPLITK!CeilDiv(LinesOf(s, tile, v), M) - 1 : \E i \in 0 .. Extent(LinesOf(s, tile, v), M, k) - 1 :
                o = ((v * each) + (k * M)) + i
    BY <1>1, LineTaken
  <2> DEFINE from == v * each  lines == LinesOf(s, tile, v)
  <2>2. PICK k \in 0 .. SPLITK!CeilDiv(lines, M) - 1 : \E i \in 0 .. Extent(lines, M, k) - 1 : o = (from + (k * M)) + i
    BY <2>1
  <2> DEFINE a == from + (k * M)  e == Extent(lines, M, k)  y == <<a * w, e * w>>
  <2>3. PICK i \in 0 .. e - 1 : o = a + i
    BY <2>2
  <2>4. v \in Nat /\ V \in Nat
    <3> HIDE DEF V
    <3> QED BY <1>0
  <2>5. from < rows
    BY <2>1
  <2>6. \A u : u \in SPLITK!Pieces(s, t, tile, v) <=>
          \E q \in 0 .. SPLITK!CeilDiv(lines, M) - 1 : u = <<(from + (q * M)) * w, Extent(lines, M, q) * w>>
    BY <1>1, <2>4, <2>5, PiecesByLines
  <2>7. y \in SPLITK!Pieces(s, t, tile, v)
    BY <2>6
  <2>8. a \in Nat /\ e \in Nat
    <3>1. each \in Nat \ {0} /\ lines \in Nat \ {0}
      BY <1>1, <2>4, <2>5, LinesTaken
    <3> HIDE DEF each, lines
    <3>2. SPLITK!CeilDiv(lines, M) \in Nat
      BY <1>1, <3>1, RoundedUp
    <3>3. k \in Nat /\ k < SPLITK!CeilDiv(lines, M)
      BY <3>2
    <3>4. e \in Nat
      BY <1>1, <3>1, <3>3, BlockInside
    <3>5. a \in Nat
      BY <1>1, <2>4, <3>1, <3>3
    <3> QED BY <3>4, <3>5
  <2>9. o \div each = v
    <3>1. o = ((v * each) + (k * M)) + i
      BY <2>3
    <3> QED BY <1>1, <2>4, <2>5, <3>1, LineOnce
  <2> DEFINE z == <<(a + i) * w + j, ((tile.row + (a + i)) * n) + (tile.column + j)>>
  <2>10. z \in SPLITK!CopyOut(s, t, tile, y)
    <3>1. y = <<a * w, e * w>>
      OBVIOUS
    <3>2. z = <<(a + i) * w + j, ((tile.row + (a + i)) * n) + (tile.column + j)>>
      OBVIOUS
    <3> HIDE DEF a, e, y, z
    <3>3. CopiedLines(s, tile, a, e, z)
      BY <2>3, <3>2, Zenon DEF CopiedLines
    <3> QED BY <2>8, <3>1, <3>3, LinesCopied
  <2>11. z = <<o * w + j, to(o, j)>>
    BY <2>3
  <2>12. core[<<o, j>>] = v
    BY <2>9
  <2> HIDE DEF core, y, z, a, e, from, lines
  <2> DEFINE src == o * w + j  x == <<v, to(o, j), src>>
  <2>13. x = <<v, z[2], z[1]>>
    <3> HIDE DEF to, src
    <3>1. z = <<src, to(o, j)>>
      BY <2>11 DEF src
    <3> QED BY <3>1
  <2>14. x \in done
    <3> HIDE DEF x
    <3>1. ReducedIn(s, t, tile, x, v)
      BY <2>7, <2>10, <2>13, Zenon DEF ReducedIn
    <3>2. ReducedBy(s, t, tile, x)
      BY <3>1, Zenon DEF ReducedBy
    <3> QED BY <1>1, <3>2, DoneByPieces
  <2>15. <<core[<<o, j>>], to(o, j), SPLITK!Source(s, tile, o, j)>> = x
    BY <1>2, <2>12, Zenon
  <2> QED BY <2>14, <2>15, Zenon
<1>5. DoneBy(s, tile, done, core)
  <2> HIDE DEF core, done
  <2>1. \A x : x \in done <=> \E o \in 0 .. rows - 1, j \in 0 .. cols - 1 :
                                x = <<core[<<o, j>>], to(o, j), SPLITK!Source(s, tile, o, j)>>
    <3> HIDE DEF rows, cols, to
    <3> QED BY <1>3, <1>4, Zenon
  <2> QED BY <2>1, Zenon DEF DoneBy, to, rows, cols, n
<1> HIDE DEF done, core
<1> QED BY <1>5, ElementsReduced DEF done

(* Address a of a slice, of those that vector core v takes: E to a core,   *)
(* up to address O, and S further on in the output for each tile before.   *)
FlatAt(t, E, O, S, x, v, a) ==
  v * E <= a /\ a < (v * E) + E /\ a < O /\ x = <<v, a + (t * S), a>>
FlatBy(s, t, E, O, S, x) == \E v \in 0 .. (Ratio * s.cores) - 1 : \E a \in Nat : FlatAt(t, E, O, S, x, v, a)

(* Where lines do not end, the vector cores take all addresses of the      *)
(* slice in order.                                                         *)
LEMMA FlatTaken ==
  ASSUME NEW s, NEW t, NEW tile, s.nz = FALSE, ~SPLITK!ByRows(s), s.cores \in Nat \ {0}, DataSize \in Nat \ {0},
         NEW E \in Nat \ {0}, E = SPLITK!CoreSize(s, tile), NEW O \in Nat \ {0}, O = SPLITK!OutSize(s, t, tile),
         NEW S, S = SPLITK!SingleSize(s), NEW x
  PROVE  x \in SPLITK!Reduced(s, t, tile) <=> FlatBy(s, t, E, O, S, x)
<1> DEFINE D == DataSize  V == Ratio * s.cores
<1>0. V \in Nat \ {0}
  BY SizesAssumption
<1>1. ASSUME NEW y, NEW z
      PROVE  z \in SPLITK!CopyOut(s, t, tile, y) <=> \E a \in y[1] .. y[1] + y[2] - 1 : z = <<a, a + t * S>>
  <2>1. SPLITK!CopyOut(s, t, tile, y) = {<<a, a + t * S>> : a \in y[1] .. y[1] + y[2] - 1}
    BY DEF SPLITK!CopyOut
  <2> QED BY <2>1
<1>2. ASSUME NEW v \in Nat, NEW y
      PROVE  LET from == v * E
                 size == SPLITK!Least(E, O - from)
             IN  y \in SPLITK!Pieces(s, t, tile, v) <=>
                   from < O /\ \E k \in 0 .. SPLITK!CeilDiv(size, D) - 1 :
                     y = <<from + k * D, SPLITK!Least(D, size - k * D)>>
  <2> DEFINE from == v * E  size == SPLITK!Least(E, O - from)
  <2>1. SPLITK!Moved(s, t, tile) = D
    BY DEF SPLITK!Moved, SPLITK!ByRows
  <2>2. from \in Nat
    OBVIOUS
  <2> HIDE DEF from
  <2>3. from >= O <=> ~(from < O)
    BY <2>2
  <2>4. SPLITK!Pieces(s, t, tile, v) =
          IF from >= O THEN {}
          ELSE {<<from + k * D, SPLITK!Least(D, size - k * D)>> : k \in 0 .. SPLITK!CeilDiv(size, D) - 1}
    BY <2>1, Zenon DEF SPLITK!Pieces, from
  <2> HIDE DEF size
  <2> QED BY <2>3, <2>4 DEF from, size
<1>3. ASSUME NEW v \in Nat, v * E < O
      PROVE  LET size == SPLITK!Least(E, O - (v * E))
             IN  size \in Nat \ {0} /\ size <= E /\ size <= O - (v * E) /\ (size = E \/ size = O - (v * E))
  <2> DEFINE from == v * E
  <2>1. from \in Nat
    OBVIOUS
  <2> HIDE DEF from
  <2>2. O - from \in Nat \ {0}
    BY <1>3, <2>1 DEF from
  <2> QED BY <1>3, <2>1, <2>2 DEF SPLITK!Least, from
<1>4. ASSUME x \in SPLITK!Reduced(s, t, tile)
      PROVE  FlatBy(s, t, E, O, S, x)
  <2>0. ReducedBy(s, t, tile, x)
    BY <1>4, DoneByPieces
  <2>1. PICK v \in 0 .. V - 1 : ReducedIn(s, t, tile, x, v)
    BY <2>0, Zenon DEF ReducedBy
  <2>2. PICK y \in SPLITK!Pieces(s, t, tile, v) : \E z \in SPLITK!CopyOut(s, t, tile, y) : x = <<v, z[2], z[1]>>
    BY <2>1, Zenon DEF ReducedIn
  <2>3. PICK z \in SPLITK!CopyOut(s, t, tile, y) : x = <<v, z[2], z[1]>>
    BY <2>2
  <2> DEFINE from == v * E  size == SPLITK!Least(E, O - from)
  <2>4. v \in Nat
    <3> HIDE DEF V
    <3> QED BY <1>0
  <2>5. from < O
    BY <1>2, <2>2, <2>4
  <2>6. PICK k \in 0 .. SPLITK!CeilDiv(size, D) - 1 : y = <<from + k * D, SPLITK!Least(D, size - k * D)>>
    BY <1>2, <2>2, <2>4
  <2>7. PICK a \in y[1] .. y[1] + y[2] - 1 : z = <<a, a + t * S>>
    BY <1>1, <2>3
  <2>8. size \in Nat \ {0} /\ size <= E /\ size <= O - from
    BY <1>3, <2>4, <2>5
  <2>9. from \in Nat
    BY <2>4
  <2> HIDE DEF size, from
  <2>10. k \in Nat /\ k < SPLITK!CeilDiv(size, D)
    <3>1. SPLITK!CeilDiv(size, D) \in Nat
      BY <2>8, RoundedUp
    <3> QED BY <3>1
  <2>11. SPLITK!Least(D, size - (k * D)) = Extent(size, D, k)
    BY <2>8, <2>10, LeastExtent
  <2>12. Extent(size, D, k) \in Nat \ {0} /\ k * D \in Nat /\ (k * D) + Extent(size, D, k) <= size
    BY <2>8, <2>10, BlockInside
  <2> DEFINE e == Extent(size, D, k)  kd == k * D
  <2>13. y = <<from + kd, e>>
    BY <2>6, <2>11
  <2>14. a \in (from + kd) .. (from + kd) + e - 1
    <3> HIDE DEF e, kd
    <3> QED BY <2>7, <2>13
  <2>15. a \in Nat /\ from <= a /\ a < from + E /\ a < O
    <3> HIDE DEF e, kd
    <3>1. e \in Nat /\ kd \in Nat /\ kd + e <= size
      BY <2>12 DEF e, kd
    <3> QED BY <2>8, <2>9, <2>14, <3>1
  <2>16. x = <<v, a + (t * S), a>>
    BY <2>3, <2>7
  <2>17. FlatAt(t, E, O, S, x, v, a)
    BY <2>15, <2>16 DEF FlatAt, from
  <2> QED BY <2>15, <2>17, Zenon DEF FlatBy
<1>5. ASSUME FlatBy(s, t, E, O, S, x)
      PROVE  x \in SPLITK!Reduced(s, t, tile)
  <2>1. PICK v \in 0 .. V - 1 : \E a \in Nat : FlatAt(t, E, O, S, x, v, a)
    BY <1>5, Zenon DEF FlatBy
  <2>2. PICK a \in Nat : FlatAt(t, E, O, S, x, v, a)
    BY <2>1
  <2> DEFINE from == v * E  size == SPLITK!Least(E, O - from)
  <2>3. from <= a /\ a < from + E /\ a < O /\ x = <<v, a + (t * S), a>>
    BY <2>2 DEF FlatAt
  <2>4. v \in Nat
    <3> HIDE DEF V
    <3> QED BY <1>0
  <2>5. from \in Nat /\ from < O
    BY <2>3, <2>4
  <2>6. size \in Nat \ {0} /\ (size = E \/ size = O - from)
    BY <1>3, <2>4, <2>5
  <2> HIDE DEF size, from
  <2>7. a - from \in 0 .. size - 1
    BY <2>3, <2>5, <2>6
  <2> DEFINE b == a - from
  <2>8. PICK k \in Nat : k < SPLITK!CeilDiv(size, D) /\ InBlock(b, size, D, k)
    <3> HIDE DEF b
    <3>1. b \in 0 .. size - 1
      BY <2>7 DEF b
    <3> QED BY <2>6, <3>1, BlockOf
  <2>9. SPLITK!Least(D, size - (k * D)) = Extent(size, D, k)
    BY <2>6, <2>8, LeastExtent
  <2>10. Extent(size, D, k) \in Nat \ {0} /\ k * D \in Nat
    BY <2>6, <2>8, BlockInside
  <2> DEFINE e == Extent(size, D, k)  kd == k * D  y == <<from + kd, e>>  z == <<a, a + t * S>>
  <2>11. k \in 0 .. SPLITK!CeilDiv(size, D) - 1
    <3>1. SPLITK!CeilDiv(size, D) \in Nat
      BY <2>6, RoundedUp
    <3> QED BY <2>8, <3>1
  <2>12. y \in SPLITK!Pieces(s, t, tile, v)
    <3>1. y = <<from + k * D, SPLITK!Least(D, size - k * D)>>
      BY <2>9
    <3> HIDE DEF y
    <3> QED BY <1>2, <2>4, <2>5, <2>11, <3>1 DEF from, size
  <2>13. z \in SPLITK!CopyOut(s, t, tile, y)
    <3>1. b >= kd /\ b < kd + e
      BY <2>8 DEF InBlock
    <3>2. e \in Nat /\ kd \in Nat
      BY <2>10
    <3> HIDE DEF e, kd
    <3>3. a \in y[1] .. y[1] + y[2] - 1
      BY <2>5, <2>7, <3>1, <3>2
    <3> HIDE DEF y
    <3> QED BY <1>1, <3>3
  <2>14. x = <<v, z[2], z[1]>>
    BY <2>3
  <2> HIDE DEF y, z
  <2>15. ReducedIn(s, t, tile, x, v)
    BY <2>12, <2>13, <2>14, Zenon DEF ReducedIn
  <2>16. ReducedBy(s, t, tile, x)
    BY <2>15, Zenon DEF ReducedBy
  <2> QED BY <2>16, DoneByPieces
<1> QED BY <1>4, <1>5

(* Tile t is whole lines of the output that lie one behind the other.      *)
FlatTile(s, t, tile) ==
  /\ ~SPLITK!ByRows(s) /\ s.nz = FALSE /\ s.cores \in Nat \ {0} /\ s.order = "MK"
  /\ t \in Nat /\ t < SPLITK!MCnt(s) /\ s.singleM \in Nat \ {0} /\ s.singleN = s.n
  /\ tile.row = t * s.singleM /\ tile.rows = Extent(s.m, s.singleM, t)
  /\ tile.column = 0 /\ tile.cols = s.n /\ tile.stride = s.n

(* How such a tile, the slices and the output compare: c lines of n.       *)
LEMMA FlatSizes ==
  ASSUME NEW s, NEW t, NEW tile, FlatTile(s, t, tile), LiesIn(s, tile)
  PROVE  LET S == s.singleM * s.n
             O == (s.m * s.n) - (t * S)
             E == SPLITK!CeilDiv(S, Ratio * s.cores)
         IN  /\ SPLITK!SingleSize(s) = S /\ SPLITK!OutSize(s, t, tile) = O /\ SPLITK!CoreSize(s, tile) = E
             /\ S \in Nat \ {0} /\ O \in Nat \ {0} /\ E \in Nat \ {0}
             /\ t * S \in Nat /\ tile.row * s.n = t * S
             /\ tile.rows * s.n \in Nat \ {0} /\ tile.rows * s.n <= O
             /\ tile.rows * s.n <= (Ratio * s.cores) * E
             /\ O = tile.rows * s.n \/ tile.rows * s.n = S
<1> DEFINE n == s.n  m == s.m  c == s.singleM  rows == tile.rows  S == c * n  V == Ratio * s.cores
           O == (m * n) - (t * S)  E == SPLITK!CeilDiv(S, V)
<1>1. n \in Nat \ {0} /\ m \in Nat \ {0} /\ c \in Nat \ {0} /\ rows \in Nat \ {0} /\ t \in Nat /\ tile.row = t * c
      /\ tile.row + rows <= m
  BY DEF FlatTile, LiesIn
<1>2. V \in Nat \ {0}
  BY SizesAssumption DEF FlatTile
<1>3. SPLITK!SingleSize(s) = S
  BY DEF SPLITK!SingleSize, SPLITK!ByRows, FlatTile
<1>4. SPLITK!OutSize(s, t, tile) = O /\ SPLITK!CoreSize(s, tile) = E
  BY <1>3 DEF SPLITK!OutSize, SPLITK!CoreSize, FlatTile
<1>5. S \in Nat \ {0}
  <2> HIDE DEF c, n
  <2> QED BY <1>1
<1>6. E \in Nat \ {0} /\ S <= V * E
  <2> HIDE DEF S, V
  <2>1. SPLITK!CeilDiv(S, V) \in Nat \ {0} /\ S <= SPLITK!CeilDiv(S, V) * V
    BY <1>2, <1>5, RoundedUp
  <2>2. E * V = V * E
    BY <1>2, <2>1
  <2> QED BY <2>1, <2>2
<1>7. rows <= c /\ (rows = c \/ rows = m - (t * c))
  <2>1. t < SPLITK!CeilDiv(m, c) /\ rows = Extent(m, c, t)
    BY DEF FlatTile, SPLITK!MCnt
  <2> HIDE DEF rows, m, c
  <2>2. Extent(m, c, t) <= c
    BY <1>1, <2>1, BlockInside
  <2>3. Extent(m, c, t) = c \/ Extent(m, c, t) = m - (t * c)
    <3> DEFINE q == SPLITK!CeilDiv(m, c)
    <3>1. q \in Nat
      BY <1>1, RoundedUp
    <3>2. Extent(m, c, t) = IF t = q - 1 THEN m - ((q - 1) * c) ELSE c
      BY DEF Extent
    <3> HIDE DEF q
    <3> QED BY <3>1, <3>2
  <2> QED BY <2>1, <2>2, <2>3
<1> HIDE DEF E
<1>8. t * S \in Nat /\ tile.row * n = t * S
  <2> HIDE DEF n, c
  <2>1. (t * c) * n = t * (c * n)
    BY <1>1
  <2> QED BY <1>1, <2>1, <1>5
<1>9. rows * n \in Nat \ {0} /\ rows * n <= S
  <2> HIDE DEF n, c, rows
  <2> QED BY <1>1, <1>7
<1>10. rows * n <= O /\ O \in Int
  <2> HIDE DEF n, c, rows, m
  <2>1. (tile.row + rows) * n <= m * n /\ (tile.row + rows) * n = (tile.row * n) + (rows * n) /\ tile.row * n \in Int /\ m * n \in Int
    BY <1>1
  <2> QED BY <1>8, <1>9, <2>1
<1>11. O = rows * n \/ rows * n = S
  <2> HIDE DEF n, c, rows, m
  <2>1. CASE rows = m - (t * c)
    <3>1. (m - (t * c)) * n = (m * n) - ((t * c) * n) /\ (t * c) * n = t * (c * n)
      BY <1>1
    <3> QED BY <2>1, <3>1
  <2>2. CASE rows = c
    BY <2>2
  <2> QED BY <1>7, <2>1, <2>2
<1>12. rows * n <= V * E
  <2> DEFINE rn == rows * n  ve == V * E
  <2>1. rn \in Int /\ ve \in Int /\ rn <= S /\ S <= ve /\ S \in Int
    <3> HIDE DEF rows, n, V, S
    <3> QED BY <1>2, <1>5, <1>6, <1>9
  <2> HIDE DEF rn, ve, S
  <2> QED BY <2>1 DEF rn, ve
<1>13. O \in Nat \ {0}
  <2> DEFINE rn == rows * n
  <2> HIDE DEF rn, O
  <2>1. rn \in Nat \ {0} /\ rn <= O /\ O \in Int
    BY <1>9, <1>10 DEF rn
  <2> QED BY <2>1
<1> HIDE DEF V
<1> QED BY <1>3, <1>4, <1>5, <1>6, <1>8, <1>9, <1>10, <1>11, <1>12, <1>13 DEF E, V

(* What vector cores write beyond such a tile is written for a later one.  *)
LEMMA FlatLater ==
  ASSUME NEW s, NEW t, NEW tile, FlatTile(s, t, tile), LiesIn(s, tile), NEW a \in Nat,
         LET S == s.singleM * s.n IN a < (s.m * s.n) - (t * S) /\ ~(a < tile.rows * s.n)
  PROVE  SPLITK!Later(s, t, a + (t * (s.singleM * s.n)))
<1> DEFINE n == s.n  m == s.m  c == s.singleM  S == c * n  tS == t * S  to == a + tS
           row == (to \div n) \div c  column == (to % n) \div n
<1>1. n \in Nat \ {0} /\ m \in Nat \ {0} /\ c \in Nat \ {0} /\ t \in Nat
  BY DEF FlatTile, LiesIn
<1>2. /\ S \in Nat \ {0} /\ tS \in Nat /\ tile.rows * n \in Nat
      /\ (m * n) - tS = tile.rows * n \/ tile.rows * n = S
  BY FlatSizes
<1>3. m * n \in Nat
  BY <1>1
<1>4. a < (m * n) - tS /\ ~(a < tile.rows * n)
  OBVIOUS
<1>5. to \in Nat /\ to < m * n /\ S <= a
  <2> DEFINE mn == m * n  rn == tile.rows * n
  <2>1. mn \in Nat /\ rn \in Nat /\ a < mn - tS /\ ~(a < rn) /\ (mn - tS = rn \/ rn = S) /\ tS \in Nat /\ S \in Nat
    BY <1>2, <1>3, <1>4
  <2> HIDE DEF mn, rn, tS, S
  <2> QED BY <2>1 DEF mn
<1>6. row >= t + 1
  <2> DEFINE q == to \div n
  <2>1. (t + 1) * S <= to
    <3>1. (t + 1) * S = (t * S) + S
      <4> HIDE DEF S
      <4> QED BY <1>1, <1>2
    <3> HIDE DEF S
    <3> QED BY <1>1, <1>2, <1>5, <3>1
  <2>2. ((t + 1) * c) * n = (t + 1) * S /\ (t + 1) * c \in Nat
    <3> HIDE DEF n, c
    <3> QED BY <1>1
  <2> DEFINE b == (t + 1) * c
  <2>3. b * n <= to /\ b \in Nat
    BY <2>1, <2>2
  <2>4. q \in Nat /\ to < (q * n) + n
    <3> HIDE DEF to, n
    <3> QED BY <1>1, <1>5
  <2>5. b <= q
    <3> HIDE DEF b, q, n, to
    <3> SUFFICES ASSUME q < b PROVE FALSE
      BY <2>3, <2>4
    <3>1. (q + 1) * n <= b * n /\ (q + 1) * n = (q * n) + n /\ b * n \in Int /\ q * n \in Int
      BY <1>1, <2>3, <2>4
    <3> QED BY <1>1, <1>5, <2>3, <2>4, <3>1
  <2>6. row \in Nat /\ q < (row * c) + c
    <3>1. row = q \div c
      OBVIOUS
    <3> HIDE DEF row, q, c
    <3>2. q \div c \in Nat /\ q < ((q \div c) * c) + c
      BY <1>1, <2>4
    <3> QED BY <3>1, <3>2
  <2>9. b = (t + 1) * c
    OBVIOUS
  <2> HIDE DEF row, q, b
  <2>7. SUFFICES ASSUME row < t + 1 PROVE FALSE
    BY <1>1, <2>6
  <2>8. (row + 1) * c <= (t + 1) * c /\ (row + 1) * c = (row * c) + c /\ (t + 1) * c \in Int /\ row * c \in Int
    <3> HIDE DEF c
    <3> QED BY <1>1, <2>6, <2>7
  <2> HIDE DEF c
  <2> QED BY <1>1, <2>3, <2>4, <2>5, <2>6, <2>8, <2>9
<1>7. column = 0
  <2> HIDE DEF to, n
  <2>1. (to % n) \in 0 .. n - 1
    BY <1>1, <1>5
  <2> QED BY <1>1, <2>1
<1>8. SPLITK!MCnt(s) \in Nat
  <2>1. SPLITK!MCnt(s) = SPLITK!CeilDiv(m, c)
    BY DEF SPLITK!MCnt
  <2> HIDE DEF m, c
  <2> QED BY <1>1, <2>1, RoundedUp
<1>9. row \in Nat
  <2> HIDE DEF to, n, c
  <2>1. to \div n \in Nat
    BY <1>1, <1>5
  <2> QED BY <1>1, <2>1
<1>10. s.order = "MK" /\ s.singleN = n
  BY DEF FlatTile
<1> HIDE DEF row, column, to
<1>11. t < (column * SPLITK!MCnt(s)) + row
  BY <1>1, <1>6, <1>7, <1>8, <1>9
<1> QED BY <1>5, <1>10, <1>11 DEF SPLITK!Later, row, column, to

(* A tile that lies in a row is reduced, whatever is written beyond it.    *)
LEMMA FlatReduced ==
  ASSUME NEW s, NEW t, NEW tile, FlatTile(s, t, tile), LiesIn(s, tile), DataSize \in Nat \ {0}
  PROVE  IsReduced(s, t, tile, SPLITK!Reduced(s, t, tile))
<1> DEFINE n == s.n  m == s.m  S == s.singleM * n  tS == t * S  V == Ratio * s.cores  rows == tile.rows
           O == (m * n) - tS  E == SPLITK!CeilDiv(S, V)
           done == SPLITK!Reduced(s, t, tile)  due == SPLITK!Due(s, tile)  rest == SPLITK!Beyond(s, tile, done)
<1>1. /\ SPLITK!SingleSize(s) = S /\ SPLITK!OutSize(s, t, tile) = O /\ SPLITK!CoreSize(s, tile) = E
      /\ S \in Nat \ {0} /\ O \in Nat \ {0} /\ E \in Nat \ {0} /\ tS \in Nat /\ tile.row * n = tS
      /\ rows * n \in Nat \ {0} /\ rows * n <= O /\ rows * n <= V * E
  BY FlatSizes
<1>2. /\ n \in Nat \ {0} /\ m \in Nat \ {0} /\ rows \in Nat \ {0} /\ tile.row \in Nat
      /\ tile.column = 0 /\ tile.cols = n /\ tile.stride = n /\ s.nz = FALSE /\ ~SPLITK!ByRows(s) /\ s.cores \in Nat \ {0}
  BY DEF FlatTile, LiesIn
<1>3. V \in Nat \ {0}
  BY <1>2, SizesAssumption
<1>4. m * n \in Nat
  BY <1>2
<1> HIDE DEF S, E, V, tS, O
<1>5. \A x : x \in done <=> FlatBy(s, t, E, O, S, x)
  BY <1>1, <1>2, FlatTaken
<1>6. ASSUME NEW x \in done
      PROVE  \E v \in Nat, a \in Nat : v * E <= a /\ a < (v * E) + E /\ a < O /\ x[1] = v /\ x[2] = a + tS /\ x[3] = a
                                      /\ x = <<v, a + tS, a>>
  <2>1. PICK v \in 0 .. V - 1 : \E a \in Nat : FlatAt(t, E, O, S, x, v, a)
    BY <1>5, Zenon DEF FlatBy, V
  <2>2. PICK a \in Nat : FlatAt(t, E, O, S, x, v, a)
    BY <2>1
  <2>3. v * E <= a /\ a < (v * E) + E /\ a < O /\ x = <<v, a + tS, a>>
    BY <2>2 DEF FlatAt, tS
  <2>4. v \in Nat
    BY <1>3
  <2>5. x[1] = v /\ x[2] = a + tS /\ x[3] = a
    BY <2>3
  <2> QED BY <2>3, <2>4, <2>5
<1>7. ASSUME NEW v \in 0 .. V - 1, NEW a \in Nat, v * E <= a, a < (v * E) + E, a < O
      PROVE  <<v, a + tS, a>> \in done
  <2>1. FlatAt(t, E, O, S, <<v, a + tS, a>>, v, a)
    BY <1>7 DEF FlatAt, tS
  <2> DEFINE x == <<v, a + tS, a>>
  <2> HIDE DEF x
  <2>2. FlatBy(s, t, E, O, S, x)
    BY <2>1, Zenon DEF FlatBy, V, x
  <2> QED BY <1>5, <2>2 DEF x
<1> HIDE DEF done
<1>8. \A u : u \in due <=> \E i \in 0 .. rows - 1, j \in 0 .. n - 1 : u = <<((i * n) + j) + tS, (i * n) + j>>
  <2>1. ASSUME NEW i \in 0 .. rows - 1, NEW j \in 0 .. n - 1
        PROVE  /\ (tile.row + i) * n + tile.column + j = ((i * n) + j) + tS
               /\ SPLITK!Source(s, tile, i, j) = (i * n) + j
    <3>1. SPLITK!Source(s, tile, i, j) = (i * n) + j
      BY <1>2 DEF SPLITK!Source
    <3>2. (tile.row + i) * n + tile.column + j = ((i * n) + j) + tS
      <4> DEFINE row == tile.row
      <4>1. row \in Nat /\ row * n = tS /\ tile.column = 0
        BY <1>1, <1>2
      <4> HIDE DEF row, n
      <4>2. (row + i) * n = (row * n) + (i * n) /\ row * n \in Int /\ i * n \in Int
        BY <1>2, <4>1
      <4>3. (row + i) * n + tile.column + j = ((i * n) + j) + tS
        BY <1>2, <4>1, <4>2
      <4> QED BY <4>3 DEF row
    <3> QED BY <3>1, <3>2
  <2>2. due = {<<(tile.row + i) * n + tile.column + j, SPLITK!Source(s, tile, i, j)>> : i \in 0 .. rows - 1, j \in 0 .. n - 1}
    BY <1>2 DEF SPLITK!Due
  <2> HIDE DEF due, rows, n
  <2> QED BY <2>1, <2>2
<1>9. \A x \in done : x[2] \in 0 .. (m * n) - 1
  <2> SUFFICES ASSUME NEW x \in done PROVE x[2] \in 0 .. (m * n) - 1
    OBVIOUS
  <2>1. PICK a \in Nat : a < O /\ x[2] = a + tS
    BY <1>6
  <2> DEFINE mn == m * n
  <2>2. O = mn - tS /\ mn \in Nat
    BY <1>4 DEF O
  <2> HIDE DEF mn
  <2> QED BY <1>1, <2>1, <2>2 DEF mn
<1>10. \A x, y \in done : x[2] = y[2] => x = y
  <2> SUFFICES ASSUME NEW x \in done, NEW y \in done, x[2] = y[2] PROVE x = y
    OBVIOUS
  <2>1. PICK v \in Nat, a \in Nat : v * E <= a /\ a < (v * E) + E /\ x[2] = a + tS /\ x = <<v, a + tS, a>>
    BY <1>6
  <2>2. PICK w \in Nat, b \in Nat : w * E <= b /\ b < (w * E) + E /\ y[2] = b + tS /\ y = <<w, b + tS, b>>
    BY <1>6
  <2>3. a = b
    <3>1. a + tS = b + tS
      BY <2>1, <2>2, Zenon
    <3> QED BY <1>1, <3>1
  <2>4. v = w
    <3>1. ASSUME NEW k \in Nat, NEW l \in Nat, k < l, l * E <= a, a < (k * E) + E PROVE FALSE
      <4>1. (k + 1) * E <= l * E /\ (k + 1) * E = (k * E) + E /\ l * E \in Int /\ k * E \in Int
        BY <1>1, <3>1
      <4> QED BY <1>1, <3>1, <4>1
    <3>2. v < w \/ v = w \/ w < v
      BY <2>1, <2>2
    <3> QED BY <2>1, <2>2, <2>3, <3>1, <3>2
  <2>5. x = <<v, a + tS, a>> /\ y = <<w, b + tS, b>>
    BY <2>1, <2>2
  <2> HIDE DEF m, n, rows
  <2> QED BY <2>3, <2>4, <2>5, Zenon
<1>11. ASSUME NEW a \in Nat, a < rows * n
       PROVE  \E v \in 0 .. V - 1 : v * E <= a /\ a < (v * E) + E
  <2> DEFINE v == a \div E  rn == rows * n
  <2>1. v \in Nat /\ v * E <= a /\ a < (v * E) + E
    BY <1>1
  <2>2. v < V
    <3> HIDE DEF v, rn
    <3> SUFFICES ASSUME V <= v PROVE FALSE
      BY <1>3, <2>1
    <3>1. V * E <= v * E /\ V * E \in Int /\ v * E \in Int
      BY <1>1, <1>3, <2>1
    <3>2. a < rn /\ rn <= V * E /\ rn \in Nat
      BY <1>1, <1>11 DEF rn
    <3> QED BY <2>1, <3>1, <3>2
  <2> HIDE DEF v
  <2> QED BY <1>3, <2>1, <2>2
<1>12. due \subseteq {<<x[2], x[3]>> : x \in done}
  <2> SUFFICES ASSUME NEW u \in due PROVE \E x \in done : u = <<x[2], x[3]>>
    OBVIOUS
  <2>1. PICK i \in 0 .. rows - 1, j \in 0 .. n - 1 : u = <<((i * n) + j) + tS, (i * n) + j>>
    BY <1>8
  <2> DEFINE a == (i * n) + j
  <2>2. a \in Nat /\ a < rows * n
    <3> HIDE DEF rows, n
    <3>1. (i + 1) * n <= rows * n /\ (i + 1) * n = (i * n) + n /\ i * n \in Nat /\ rows * n \in Int
      BY <1>2
    <3> QED BY <1>2, <3>1
  <2>3. PICK v \in 0 .. V - 1 : v * E <= a /\ a < (v * E) + E
    BY <1>11, <2>2
  <2>4. u = <<a + tS, a>>
    BY <2>1
  <2>5. a < O
    <3> DEFINE rn == rows * n
    <3>1. a < rn /\ rn <= O /\ rn \in Nat
      BY <1>1, <2>2
    <3> HIDE DEF a, rn
    <3> QED BY <1>1, <2>2, <3>1
  <2> DEFINE x == <<v, a + tS, a>>
  <2> HIDE DEF a
  <2>6. x \in done
    BY <1>7, <2>2, <2>3, <2>5
  <2>7. x[2] = a + tS /\ x[3] = a
    OBVIOUS
  <2> HIDE DEF x
  <2> QED BY <2>4, <2>6, <2>7
<1>13. rest = {x \in done : <<x[2], x[3]>> \notin due}
  BY DEF SPLITK!Beyond
<1> HIDE DEF due, rest
<1>14. ASSUME NEW x \in rest
       PROVE  SPLITK!Later(s, t, x[2])
  <2>1. x \in done /\ <<x[2], x[3]>> \notin due
    BY <1>13
  <2>2. PICK a \in Nat : a < O /\ x[2] = a + tS /\ x[3] = a
    BY <1>6, <2>1
  <2>3. ~(a < rows * n)
    <3> SUFFICES ASSUME a < rows * n PROVE FALSE
      OBVIOUS
    <3> DEFINE i == a \div n  j == (a % n)
    <3>1. i \in Nat /\ j \in 0 .. n - 1 /\ (i * n) + j = a /\ i * n <= a
      <4> HIDE DEF n
      <4> QED BY <1>2
    <3>2. i < rows
      <4> HIDE DEF i, j, rows, n
      <4> SUFFICES ASSUME rows <= i PROVE FALSE
        BY <1>2, <3>1
      <4>1. rows * n <= i * n /\ rows * n \in Int /\ i * n \in Int
        BY <1>2, <3>1
      <4> QED BY <3>1, <4>1
    <3> HIDE DEF i, j
    <3>3. i \in 0 .. rows - 1
      <4> HIDE DEF rows
      <4> QED BY <1>2, <3>1, <3>2
    <3>4. <<x[2], x[3]>> = <<((i * n) + j) + tS, (i * n) + j>>
      BY <2>2, <3>1
    <3> QED BY <1>8, <2>1, <3>1, <3>3, <3>4
  <2>4. a < (s.m * s.n) - (t * (s.singleM * s.n)) /\ ~(a < tile.rows * s.n)
    BY <2>2, <2>3 DEF O, tS, S
  <2>5. SPLITK!Later(s, t, a + (t * (s.singleM * s.n)))
    BY <2>4, FlatLater
  <2>6. x[2] = a + (t * (s.singleM * s.n))
    BY <2>2 DEF tS, S
  <2> QED BY <2>5, <2>6
<1>15. Cardinality(done) = Cardinality(due) + Cardinality(rest)
  <2> DEFINE size == m * n
  <2>1. size \in Nat /\ \A x \in done : x[2] \in 0 .. size - 1
    BY <1>4, <1>9
  <2> HIDE DEF size
  <2> QED BY <2>1, <1>10, <1>12, <1>13, CountedWithRest
<1> QED BY <1>12, <1>14, <1>15 DEF IsReduced, due, rest, done

(* A line of a tile in the workspace fits a quarter of UB.                 *)
LEMMA LinesFitUb ==
  ASSUME NEW p \in SplitKProblems, SPLITK!ByRows(SPLITK!Tiling(p))
  PROVE  SPLITK!Tiling(p).singleN <= DataSize
<1> DEFINE s == SPLITK!Tiling(p)
<1>1. /\ p.n \in Nat \ {0} /\ p.l2 \in Nat \ {0} /\ p.l2 <= DataSize
      /\ p.order \in {"NK", "MK"} /\ Block \in Nat \ {0} /\ Block33 \in Nat \ {0} /\ DataSize \in Nat \ {0}
      /\ Block33 % Block = 0 /\ DataSize % Block33 = 0
  BY SizesAssumption DEF SplitKProblems
<1>2. s.n = p.n /\ s.order = p.order /\ s.singleN = IF p.order = "NK" THEN Block33 ELSE SPLITK!L2Cut(p.n, p.l2)
  BY DEF SPLITK!Tiling
<1> HIDE DEF s
<1>3. DataSize = (DataSize \div Block33) * Block33 /\ DataSize \div Block33 \in Nat \ {0}
  <2> DEFINE q == DataSize \div Block33
  <2>1. DataSize = q * Block33 /\ q \in Nat
    BY <1>1
  <2> HIDE DEF q
  <2>2. q # 0
    <3> SUFFICES ASSUME q = 0 PROVE FALSE
      OBVIOUS
    <3>1. 0 * Block33 = 0
      BY <1>1
    <3> QED BY <1>1, <2>1, <3>1
  <2> QED BY <2>1, <2>2 DEF q
<1>4. \E k \in Nat : DataSize = k * Block
  <2> DEFINE q == DataSize \div Block33  r == Block33 \div Block
  <2>1. q \in Nat /\ r \in Nat /\ DataSize = q * Block33 /\ Block33 = r * Block
    BY <1>1, <1>3
  <2> HIDE DEF q, r
  <2>2. q * (r * Block) = (q * r) * Block /\ q * r \in Nat
    BY <1>1, <2>1
  <2> QED BY <2>1, <2>2
<1>5. CASE s.order = "NK"
  <2> DEFINE q == DataSize \div Block33
  <2>1. q \in Nat \ {0} /\ DataSize = q * Block33
    BY <1>3
  <2> HIDE DEF q
  <2>2. 1 * Block33 <= q * Block33
    BY <1>1, <2>1
  <2> QED BY <1>1, <1>2, <1>5, <2>1, <2>2 DEF s
<1>6. CASE s.order = "MK"
  <2>1. s.singleN = SPLITK!L2Cut(p.n, p.l2) /\ s.n # s.singleN
    BY <1>2, <1>6 DEF SPLITK!ByRows, SPLITK!IsL2Split, s
  <2> DEFINE n == p.n  room == SPLITK!Align(p.l2, Block)  parts == SPLITK!CeilDiv(n, room)  even == SPLITK!CeilDiv(n, parts)
  <2>2. ~(n <= p.l2)
    BY <1>2, <2>1 DEF SPLITK!L2Cut
  <2>3. s.singleN = SPLITK!Align(even, Block)
    BY <2>1, <2>2 DEF SPLITK!L2Cut
  <2>4. room \in Nat \ {0} /\ room <= DataSize /\ \E k \in Nat : room = k * Block
    <3>1. PICK k \in Nat : DataSize = k * Block
      BY <1>4
    <3>2. p.l2 <= k * Block
      BY <1>1, <3>1
    <3>3. /\ SPLITK!Align(p.l2, Block) \in Nat \ {0}
          /\ \E i \in Nat : SPLITK!Align(p.l2, Block) = i * Block
          /\ \A i \in Nat : p.l2 <= i * Block => SPLITK!Align(p.l2, Block) <= i * Block
      BY <1>1, Aligned
    <3> QED BY <3>1, <3>2, <3>3
  <2> HIDE DEF room
  <2>5. parts \in Nat \ {0} /\ n <= parts * room
    BY <1>1, <2>4, RoundedUp
  <2> HIDE DEF parts
  <2>6. even \in Nat \ {0} /\ (even - 1) * parts < n
    BY <1>1, <2>5, RoundedUp
  <2> HIDE DEF even, n
  <2>7. even <= room
    <3> SUFFICES ASSUME room < even PROVE FALSE
      BY <2>4, <2>6
    <3>1. room * parts <= (even - 1) * parts /\ room * parts = parts * room /\ room * parts \in Int /\ (even - 1) * parts \in Int
      BY <2>4, <2>5, <2>6
    <3>2. n \in Nat
      BY <1>1 DEF n
    <3> QED BY <2>5, <2>6, <3>1, <3>2
  <2>8. SPLITK!Align(even, Block) \in Nat /\ SPLITK!Align(even, Block) <= room
    <3>1. PICK k \in Nat : room = k * Block
      BY <2>4
    <3>2. /\ SPLITK!Align(even, Block) \in Nat \ {0}
          /\ \A i \in Nat : even <= i * Block => SPLITK!Align(even, Block) <= i * Block
      BY <1>1, <2>6, Aligned
    <3> QED BY <2>7, <3>1, <3>2
  <2> QED BY <1>1, <2>3, <2>4, <2>8 DEF s
<1> QED BY <1>1, <1>2, <1>5, <1>6

(* Tiles whose lines end are moved by whole lines.                         *)
LEMMA LinesMoved ==
  ASSUME NEW p \in SplitKProblems, NEW t \in SPLITK!Numbers(SPLITK!Tiling(p)),
         SPLITK!ByRows(SPLITK!Tiling(p)), SPLITK!Tiling(p).nz = FALSE
  PROVE  LET s == SPLITK!Tiling(p) IN \E M \in Nat \ {0} : MovedByLines(s, t, SPLITK!Tile(s, t), M)
<1> DEFINE s == SPLITK!Tiling(p)  tile == SPLITK!Tile(s, t)
<1>1. /\ tile.cols \in Nat \ {0} /\ tile.stride \in Nat /\ tile.cols <= tile.stride /\ tile.stride <= s.singleN
  BY TileFacts
<1>2. s.singleN <= DataSize
  BY LinesFitUb
<1>3. s.cores \in Nat \ {0} /\ s.singleN \in Nat \ {0} /\ s.singleM \in Nat \ {0} /\ s.m \in Nat \ {0} /\ s.n \in Nat \ {0}
      /\ s.order \in {"NK", "MK"}
  BY SplitKFacts
<1>4. DataSize \in Nat \ {0} /\ Block33 \in Nat \ {0} /\ DataSize % Block33 = 0
  BY SizesAssumption
<1>5. s.order = "NK" => s.singleN = Block33
  BY DEF SPLITK!Tiling
<1>6. t \in 0 .. (SPLITK!MCnt(s) * SPLITK!NCnt(s)) - 1
  BY DEF SPLITK!Numbers
<1>7. SPLITK!ByRows(s) /\ s.nz = FALSE
  OBVIOUS
<1>8. tile.stride = IF ~SPLITK!ByRows(s) THEN s.n
                    ELSE IF SPLITK!NIndex(s, t) = SPLITK!NCnt(s) - 1 THEN SPLITK!AlignTo256B(tile.cols) ELSE s.singleN
  BY DEF SPLITK!Tile
<1> HIDE DEF s, tile
<1>9. tile.stride \in Nat \ {0} /\ tile.stride <= DataSize
  BY <1>1, <1>2, <1>3, <1>4
<1>10. ASSUME NEW w \in Nat \ {0}, w <= DataSize PROVE DataSize \div w \in Nat \ {0}
  <2> DEFINE q == DataSize \div w
  <2>1. q \in Nat /\ DataSize < (q * w) + w
    BY <1>4
  <2> HIDE DEF q
  <2>2. q # 0
    <3> SUFFICES ASSUME q = 0 PROVE FALSE
      OBVIOUS
    <3>1. 0 * w = 0
      OBVIOUS
    <3> QED BY <1>4, <1>10, <2>1, <3>1
  <2> QED BY <2>1, <2>2 DEF q
<1> DEFINE M == DataSize \div tile.stride
<1>11. M \in Nat \ {0}
  BY <1>9, <1>10
<1>12. SPLITK!Moved(s, t, tile) = M * tile.stride
  <2>1. CASE SPLITK!IsL2Split(s) \/ (SPLITK!ByRows(s) /\ t = SPLITK!NCnt(s) - 1)
    BY <2>1 DEF SPLITK!Moved
  <2>2. CASE ~(SPLITK!IsL2Split(s) \/ (SPLITK!ByRows(s) /\ t = SPLITK!NCnt(s) - 1))
    <3>1. SPLITK!Moved(s, t, tile) = DataSize
      BY <2>2 DEF SPLITK!Moved
    <3>2. s.order = "NK" /\ s.m = s.singleM /\ t # SPLITK!NCnt(s) - 1
      BY <1>7, <2>2 DEF SPLITK!ByRows, SPLITK!IsL2Split
    <3>3. SPLITK!MCnt(s) = 1
      <4>1. SPLITK!MCnt(s) = SPLITK!CeilDiv(s.m, s.singleM)
        BY DEF SPLITK!MCnt
      <4> DEFINE m == s.m
      <4>2. m \in Nat \ {0} /\ m <= 1 * m /\ (1 - 1) * m < m
        BY <1>3
      <4> HIDE DEF m
      <4>3. SPLITK!CeilDiv(m, m) = 1
        BY <4>2, OneCeil
      <4> QED BY <3>2, <4>1, <4>3 DEF m
    <3>4. SPLITK!NIndex(s, t) = t % SPLITK!NCnt(s)
      BY <3>2 DEF SPLITK!NIndex
    <3>5. SPLITK!NCnt(s) \in Nat \ {0}
      <4>1. SPLITK!NCnt(s) = SPLITK!CeilDiv(s.n, s.singleN)
        BY DEF SPLITK!NCnt
      <4> DEFINE n == s.n  c == s.singleN
      <4>2. n \in Nat \ {0} /\ c \in Nat \ {0}
        BY <1>3
      <4> HIDE DEF n, c
      <4>3. SPLITK!CeilDiv(n, c) \in Nat \ {0}
        BY <4>2, RoundedUp
      <4> QED BY <4>1, <4>3 DEF n, c
    <3>6. t \in 0 .. SPLITK!NCnt(s) - 1
      <4> DEFINE c == SPLITK!NCnt(s)
      <4>1. t \in 0 .. (1 * c) - 1 /\ c \in Nat
        BY <1>6, <3>3, <3>5
      <4> HIDE DEF c
      <4>2. t \in 0 .. c - 1
        BY <4>1
      <4> QED BY <4>2 DEF c
    <3>7. (t % SPLITK!NCnt(s)) = t
      <4> DEFINE c == SPLITK!NCnt(s)
      <4>1. t \in 0 .. c - 1 /\ c \in Nat \ {0}
        BY <3>5, <3>6
      <4> HIDE DEF c
      <4>2. (t % c) = t
        BY <4>1
      <4> QED BY <4>2 DEF c
    <3>8. tile.stride = Block33
      BY <1>5, <1>7, <1>8, <3>2, <3>4, <3>7 DEF s
    <3>9. DataSize = (DataSize \div Block33) * Block33
      BY <1>4
    <3> QED BY <3>1, <3>8, <3>9
  <2> QED BY <2>1, <2>2
<1> HIDE DEF M
<1>13. MovedByLines(s, t, tile, M)
  BY <1>1, <1>3, <1>7, <1>9, <1>11, <1>12 DEF MovedByLines
<1>14. \E N \in Nat \ {0} : MovedByLines(s, t, tile, N)
  BY <1>11, <1>13, Zenon
<1> QED BY <1>14 DEF s, tile

-------------------------------------------------------------------------------
(* The specification.                                                      *)

(* The vector cores of a tile share its lines and columns out: those of a  *)
(* split tile of Stream-K whatever its rows and columns, those of a part   *)
(* of a per-tile matmul whatever the problem, cast or not.                 *)
THEOREM Rows == Spec => []RowsSharedOut
<1>1. SInv => RowsSharedOut
  <2> SUFFICES ASSUME SInv PROVE RowsSharedOut
    OBVIOUS
  <2>1. ASSUME kind = "streamk", NEW rows \in RowCounts, NEW columns \in ColumnCounts
        PROVE  STREAMK!PartsShareRows(shape, rows, columns)
    <3>1. shape \in SKP!ShapeRecords /\ SKP!HostAllows(shape)
      BY <2>1, SameShapes DEF SInv
    <3>2. shape.sk # 0
      BY <3>1 DEF SKP!HostAllows, SKP!SkOnly, SKP!DpAndSk
    <3>3. rows \in Nat \ {0} /\ columns \in Nat \ {0}
      BY SizesAssumption
    <3>4. SKP!PartsShareRows(shape, rows, columns)
      BY <3>1, <3>2, <3>3, SizesAssumption, SKP!PartsShareEveryTile
    <3> QED BY <3>4, SameRows
  <2>2. ASSUME kind = "pertile", NEW t \in PERTILE!Shapes(shape.parts)
        PROVE  PERTILE!VectorCoresShare(t[1], t[2])
    <3>1. PICK p \in PertileProblems : shape = [problem |-> p, parts |-> PERTILE!Parts(p)]
      BY <2>2 DEF SInv
    <3>2. PICK part \in PERTILE!Range(PERTILE!Parts(p)) : t = <<part[3], part[5]>>
      BY <2>2, <3>1 DEF PERTILE!Shapes
    <3>3. PartIsGrouped(part)
      BY PartFacts
    <3>4. Measures(part[3], part[5])
      BY <3>3 DEF PartIsGrouped, Grouped, Measures
    <3>5. PERTILE!VectorCoresShare(part[3], part[5])
      BY <3>4, CoresShare
    <3> QED BY <3>2, <3>5
  <2> QED BY <2>1, <2>2 DEF RowsSharedOut
<1> QED BY <1>1, ProblemsKept, PTL

(* The blocks of the cores share every output out: for stream k, whatever  *)
(* the windows and the height of the last band; for split k, whatever      *)
(* grid the host picks and whatever order it is walked in; for ASWT,       *)
(* whatever base block the host settles on, wherever it puts the edge and  *)
(* however often it splits the last round; and for a per-tile matmul,      *)
(* across batches and however it cuts the last round: no line and column   *)
(* of any batch is left out, and none is computed twice.                   *)
THEOREM OncePerTile == Spec => []EveryTileOnce
<1>1. SInv => EveryTileOnce
  <2> SUFFICES ASSUME SInv PROVE EveryTileOnce
    OBVIOUS
  <2>1. ASSUME kind = "streamk" PROVE STREAMK!VisitsEveryTileOnce(shape)
    <3>1. shape \in SKP!ShapeRecords
      BY <2>1, SameShapes DEF SInv
    <3>2. SKP!VisitsEveryTileOnce(shape)
      BY <3>1, SizesAssumption, SKP!EveryTileVisited
    <3> QED BY <3>2, SameVisits
  <2>2. ASSUME kind = "aswt" PROVE ASWT!ComputesEveryPieceOnce(shape, ASWT!Scheduler(shape))
    <3>1. PICK p \in AswtProblems : \E edge \in ASWT!Edges(ASWT!FormulateBasicBlock(p)) :
             shape = [ASWT!FormulateBasicBlock(p) EXCEPT !.edge = edge]
      BY <2>2 DEF SInv
    <3> DEFINE f == ASWT!FormulateBasicBlock(p)
    <3>2. f = [x \in Fields |-> f[x]] /\ Settled(f)
      BY FormulatedFields, Formulated
    <3>3. PICK edge \in ASWT!Edges(f) : shape = [f EXCEPT !.edge = edge]
      BY <3>1
    <3> HIDE DEF f
    <3>4. Settled(shape) /\ shape.edge \in ASWT!Edges(shape)
      BY <3>2, <3>3, EdgeChanges
    <3> QED BY <3>4, PiecesOnce
  <2>3. ASSUME kind = "pertile"
        PROVE  PERTILE!ComputesEveryPartOnce(shape.problem, PERTILE!Tiling(shape.problem), shape.parts)
    <3>1. PICK p \in PertileProblems : shape = [problem |-> p, parts |-> PERTILE!Parts(p)]
      BY <2>3 DEF SInv
    <3>2. PERTILE!ComputesEveryPartOnce(p, PERTILE!Tiling(p), PERTILE!Parts(p))
      BY PartsOnce
    <3>3. shape.problem = p /\ shape.parts = PERTILE!Parts(p)
      BY <3>1
    <3> QED BY <3>2, <3>3
  <2>4. ASSUME kind = "splitk" PROVE SPLITK!CoversOutput(shape)
    BY <2>4, OutputCovered DEF SInv
  <2> QED BY <2>1, <2>2, <2>3, <2>4 DEF EveryTileOnce
<1>2. Spec => []SInv
  BY ProblemsKept
<1> QED BY <1>1, <1>2, PTL

(* Every tile of a problem is reduced: NZ tiles by columns of blocks, cut  *)
(* ones and those of NK by lines, the others as what lies in a row.        *)
LEMMA TileReduced ==
  ASSUME NEW p \in SplitKProblems, NEW t \in SPLITK!Numbers(SPLITK!Tiling(p))
  PROVE  LET s == SPLITK!Tiling(p) IN IsReduced(s, t, SPLITK!Tile(s, t), SPLITK!Reduced(s, t, SPLITK!Tile(s, t)))
<1> DEFINE s == SPLITK!Tiling(p)  tile == SPLITK!Tile(s, t)
<1>1. LiesIn(s, tile)
  BY TileLies
<1>2. /\ s.cores \in Nat \ {0} /\ s.singleN \in Nat \ {0} /\ s.singleM \in Nat \ {0} /\ s.m \in Nat \ {0} /\ s.n \in Nat \ {0}
      /\ s.nz \in BOOLEAN /\ s.order \in {"NK", "MK"}
  BY SplitKFacts
<1>3. DataSize \in Nat \ {0}
  BY SizesAssumption
<1>4. TileForm(s, t, SPLITK!MIndex(s, t), SPLITK!NIndex(s, t))
  BY TileFormed
<1>5. t \in 0 .. (SPLITK!MCnt(s) * SPLITK!NCnt(s)) - 1
  BY DEF SPLITK!Numbers
<1>6. ~SPLITK!ByRows(s) => tile.stride = s.n
  BY DEF SPLITK!Tile
<1>7. CASE s.nz = TRUE
  <2> HIDE DEF s, tile
  <2> QED BY <1>1, <1>2, <1>7, NzReduced DEF s, tile
<1>8. CASE s.nz = FALSE /\ SPLITK!ByRows(s)
  <2>1. \E M \in Nat \ {0} : MovedByLines(s, t, tile, M)
    BY <1>8, LinesMoved
  <2>2. PICK M \in Nat \ {0} : MovedByLines(s, t, tile, M)
    BY <2>1
  <2> HIDE DEF s, tile
  <2> QED BY <1>1, <2>2, LinesReduced DEF s, tile
<1>9. CASE s.nz = FALSE /\ ~SPLITK!ByRows(s)
  <2> HIDE DEF s, tile
  <2>1. s.order = "MK" /\ s.n = s.singleN
    BY <1>2, <1>9 DEF SPLITK!ByRows, SPLITK!IsL2Split
  <2>2. SPLITK!NCnt(s) = 1
    <3>1. SPLITK!NCnt(s) = SPLITK!CeilDiv(s.n, s.singleN)
      BY DEF SPLITK!NCnt
    <3> DEFINE n == s.n
    <3>2. n \in Nat \ {0} /\ n <= 1 * n /\ (1 - 1) * n < n
      BY <1>2
    <3> HIDE DEF n
    <3>3. SPLITK!CeilDiv(n, n) = 1
      BY <3>2, OneCeil
    <3> QED BY <2>1, <3>1, <3>3 DEF n
  <2>3. SPLITK!MCnt(s) \in Nat \ {0}
    <3>1. SPLITK!MCnt(s) = SPLITK!CeilDiv(s.m, s.singleM)
      BY DEF SPLITK!MCnt
    <3> DEFINE m == s.m  c == s.singleM
    <3>2. m \in Nat \ {0} /\ c \in Nat \ {0}
      BY <1>2
    <3> HIDE DEF m, c
    <3>3. SPLITK!CeilDiv(m, c) \in Nat \ {0}
      BY <3>2, RoundedUp
    <3> QED BY <3>1, <3>3 DEF m, c
  <2>4. SPLITK!MIndex(s, t) = t /\ SPLITK!NIndex(s, t) = 0 /\ t \in Nat /\ t < SPLITK!MCnt(s)
    <3>1. SPLITK!MIndex(s, t) = t % SPLITK!MCnt(s)
      BY <2>1 DEF SPLITK!MIndex
    <3>2. SPLITK!NIndex(s, t) = t \div SPLITK!MCnt(s)
      BY <2>1 DEF SPLITK!NIndex
    <3> DEFINE c == SPLITK!MCnt(s)
    <3>3. c \in Nat \ {0} /\ t \in 0 .. (c * 1) - 1
      BY <1>5, <2>2, <2>3
    <3> HIDE DEF c
    <3>4. t \in 0 .. c - 1
      BY <3>3
    <3>5. (t % c) = t /\ t \div c = 0
      BY <3>3, <3>4
    <3>6. t \in Nat /\ t < c
      BY <3>3, <3>4
    <3> QED BY <3>1, <3>2, <3>5, <3>6 DEF c
  <2>5. /\ tile.row = t * s.singleM /\ tile.rows = Extent(s.m, s.singleM, t)
        /\ tile.column = 0 * s.singleN /\ tile.cols = Extent(s.n, s.singleN, 0)
    BY <1>4, <2>4 DEF TileForm, tile
  <2>6. tile.column = 0 /\ tile.cols = s.n
    <3>1. SPLITK!CeilDiv(s.n, s.singleN) = 1
      BY <2>2 DEF SPLITK!NCnt
    <3> DEFINE n == s.n  c == s.singleN
    <3>2. Extent(n, c, 0) = n - ((1 - 1) * c)
      BY <3>1 DEF Extent
    <3>3. n \in Nat /\ c \in Nat
      BY <1>2
    <3> HIDE DEF n, c
    <3>4. 0 * c = 0 /\ n - ((1 - 1) * c) = n
      BY <3>3
    <3> QED BY <2>5, <3>2, <3>4 DEF n, c
  <2>7. FlatTile(s, t, tile)
    BY <1>2, <1>6, <1>9, <2>1, <2>4, <2>5, <2>6 DEF FlatTile
  <2> QED BY <1>1, <1>3, <2>7, FlatReduced DEF s, tile
<1> HIDE DEF s, tile
<1> QED BY <1>2, <1>7, <1>8, <1>9

(* SlicesReduced for every problem: whatever grid the host picks, however  *)
(* many vector cores share a tile out and however much of it fits UB at a  *)
(* time, each element is added up by one of them, from where the cube      *)
(* cores left it, and what is written beyond a tile a later tile mends.    *)
THEOREM Slices == Spec => []SlicesReduced
<1>1. SInv => SlicesReduced
  <2> SUFFICES ASSUME SInv, kind = "splitk" PROVE SPLITK!ReducesFromOwnTile(shape)
    BY DEF SlicesReduced
  <2>1. PICK p \in SplitKProblems : shape = SPLITK!Tiling(p)
    BY DEF SInv
  <2> DEFINE s == SPLITK!Tiling(p)
  <2>2. \A t \in SPLITK!Numbers(s) : IsReduced(s, t, SPLITK!Tile(s, t), SPLITK!Reduced(s, t, SPLITK!Tile(s, t)))
    BY TileReduced
  <2>3. SPLITK!ReducesFromOwnTile(s)
    <3> HIDE DEF s
    <3> QED BY <2>2, TilesReduced
  <2> QED BY <2>1, <2>3
<1>2. Spec => []SInv
  BY ProblemsKept
<1> QED BY <1>1, <1>2, PTL
===============================================================================
