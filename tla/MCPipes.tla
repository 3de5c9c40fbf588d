-------------------------------- MODULE MCPipes --------------------------------
EXTENDS Pipes
SK == INSTANCE MmadStreamK
PP == INSTANCE MmadPingpong
MIX == INSTANCE MixFixpipe
PT == INSTANCE QbmmPertile
WP == INSTANCE WeightPrologue
DSK == INSTANCE DeterministicSplitK

(* Stream-K: two whole tiles and the first chunk of a split one; a later   *)
(* chunk, preloaded before a whole tile.                                   *)
Chunk(column, k, length, kCnt) ==
  [row |-> 0, column |-> column, k |-> k, length |-> length, kCnt |-> kCnt, block |-> column]
StreamK(tiles) ==
  [kind |-> "streamk", bias |-> TRUE, kL1 |-> 3, baseK |-> 2, tiles |-> tiles]

Tiles(fullLoad, rows, columns, lines) ==
  [i \in 1 .. rows * columns |->
     LET row == (i - 1) \div columns
         column == (i - 1) % columns
     IN  [row |-> row, column |-> column, lines |-> lines,
          first |-> IF fullLoad = "B" THEN row = 0 ELSE column = 0]]
Aswt(fullLoad, rows, columns, bias, l0cDB, l1BufNum, k, kL1) ==
  [kind |-> "aswt", fullLoad |-> fullLoad, bias |-> bias, l0cDB |-> l0cDB,
   l1BufNum |-> l1BufNum, k |-> k, kL1 |-> kL1, baseK |-> 1,
   rows |-> rows, columns |-> columns, tiles |-> Tiles(fullLoad, rows, columns, 2)]
Mix(aswt, enable2UB, enableUbDB, lines) ==
  [kind |-> "mix", enable2UB |-> enable2UB, enableUbDB |-> enableUbDB]
     @@ [aswt EXCEPT !.tiles = [i \in DOMAIN @ |-> [@[i] EXCEPT !.first = FALSE, !.lines = lines]]]

(* Per tile or per block, with tiles split in columns or in lines.         *)
Tile(column, m, n) == [row |-> 0, column |-> column, m |-> m, n |-> n]
Pertile(pertile, cast, stepKa, stepKb, k, scaleKMax, tiles) ==
  [kind |-> "pertile", pertile |-> pertile, cast |-> cast, stepKa |-> stepKa, stepKb |-> stepKb,
   k |-> k, scaleKMax |-> scaleKMax, tiles |-> tiles]

(* The weight cast by the vector cores, with four buffers or one in L1.    *)
Weight(column, n) == [row |-> 0, column |-> column, n |-> n]
Prologue(weightNz, bias, l1BufNum, scaleFactor, k, kL1, baseK, tiles) ==
  [kind |-> "prologue", weightNz |-> weightNz, bias |-> bias, l1BufNum |-> l1BufNum,
   scaleFactor |-> scaleFactor, k |-> k, kL1 |-> kL1, baseK |-> baseK,
   nUbSize |-> 16, kUbSize |-> 1, tiles |-> tiles]

(* Split k over two cube cores: ping-pong, a rest, idle vector cores.      *)
SplitK(kCnt, bias, nz, tiles) ==
  [kind |-> "splitk", cores |-> 2, kCnt |-> kCnt, bias |-> bias, nz |-> nz, tiles |-> tiles]
Part(repeat, tail) == [repeat |-> repeat, tail |-> tail]

Cases ==
  << StreamK(<<Chunk(0, 0, 7, 0), Chunk(1, 0, 7, 0), Chunk(2, 0, 4, 0)>>),
     StreamK(<<Chunk(1, 4, 3, 1), Chunk(0, 0, 7, 0)>>),
     Aswt("none", 1, 3, TRUE, TRUE, 4, 5, 2), Aswt("none", 1, 3, TRUE, FALSE, 2, 3, 2),
     Aswt("none", 1, 3, FALSE, TRUE, 2, 1, 1), Aswt("none", 0, 0, TRUE, TRUE, 2, 1, 1),
     Aswt("A", 2, 2, TRUE, TRUE, 2, 3, 2), Aswt("A", 1, 3, FALSE, FALSE, 4, 3, 2),
     Aswt("B", 2, 2, TRUE, FALSE, 2, 3, 2), Aswt("B", 3, 1, TRUE, TRUE, 4, 1, 1),
     Mix(Aswt("none", 1, 3, TRUE, TRUE, 2, 2, 1), TRUE, TRUE, 3),
     Mix(Aswt("none", 1, 3, FALSE, FALSE, 2, 1, 1), TRUE, TRUE, 1),
     Mix(Aswt("none", 0, 0, FALSE, TRUE, 2, 1, 1), TRUE, TRUE, 1),
     Mix(Aswt("A", 1, 3, TRUE, FALSE, 2, 1, 1), TRUE, FALSE, 2),
     Mix(Aswt("B", 3, 1, TRUE, TRUE, 2, 1, 1), FALSE, TRUE, 2),
     SplitK(3, TRUE, FALSE, [n \in 1 .. 3 |->
       <<Part(2, TRUE), Part(0, FALSE), Part(1, FALSE), Part(0, FALSE)>>]),
     SplitK(2, FALSE, TRUE, [n \in 1 .. 3 |-> << <<2, 1, 1>>, <<>>, <<1>>, <<>> >>]),
     Pertile(TRUE, TRUE, 2, 1, 3, 2, <<Tile(0, 3, 100), Tile(1, 3, 20)>>),
     Pertile(FALSE, FALSE, 1, 2, 4, 2, <<Tile(0, 2, 200), Tile(1, 1, 5)>>),
     Pertile(TRUE, FALSE, 2, 2, 3, 1, <<Tile(0, 3, 100), Tile(1, 3, 100)>>),
     Pertile(FALSE, TRUE, 1, 1, 1, 2, <<Tile(0, 2, 20)>>),
     Pertile(TRUE, FALSE, 2, 2, 1, 2, <<>>),
     Prologue(FALSE, FALSE, 4, 5, 5, 1, 1, <<Weight(0, 32)>>),
     Prologue(TRUE, TRUE, 4, 1, 2, 2, 1, <<Weight(0, 16), Weight(1, 16), Weight(2, 16)>>),
     Prologue(FALSE, TRUE, 1, 2, 5, 3, 1, <<Weight(0, 16), Weight(1, 16)>>),
     Prologue(TRUE, FALSE, 1, 1, 3, 1, 1, <<Weight(0, 16)>>),
     Prologue(FALSE, FALSE, 4, 1, 2, 1, 1, <<Weight(0, 16)>>),
     Prologue(FALSE, FALSE, 4, 1, 1, 1, 1, <<>>),
     Prologue(FALSE, FALSE, 2, 1, 3, 1, 1, <<Weight(0, 16)>>) >>

(* The last one, with two buffers, is MCPipesTwoBuffers.cfg's.             *)
Numbers == 1 .. Len(Cases) - 1
TwoBuffers == {Len(Cases)}

Kernel(l) ==
  CASE l.kind = "streamk" -> SK!Kernel(l)
    [] l.kind = "aswt" -> PP!Kernel(l)
    [] l.kind = "mix" -> MIX!Kernel(l)
    [] l.kind = "pertile" -> PT!Kernel(l)
    [] l.kind = "prologue" -> WP!Kernel(l)
    [] l.kind = "splitk" -> DSK!Kernel(l)
Result(l) ==
  CASE l.kind = "streamk" -> SK!Result(l)
    [] l.kind = "aswt" -> PP!Result(l)
    [] l.kind = "mix" -> MIX!Result(l)
    [] l.kind = "pertile" -> PT!Result(l)
    [] l.kind = "prologue" -> WP!Result(l)
    [] l.kind = "splitk" -> DSK!Result(l)
Programs ==
  LET program(n) == Queues(Kernel(Cases[n]))
  IN  [n \in DOMAIN Cases |-> program(n)] \o <<>>
Results ==
  LET result(n) == Result(Cases[n])
  IN  [n \in DOMAIN Cases |-> result(n)] \o <<>>
SetAheadOf(n, f) ==
  LET l == Cases[n]
  IN  CASE l.kind = "prologue" -> WP!BuffersBehind(l, f)
        [] l.kind = "splitk" -> DSK!BuffersBehind(f)
        [] OTHER -> 1
LeftOf(n) == IF Cases[n].kind = "splitk" THEN DSK!FlagsLeft(Cases[n]) ELSE {}
===============================================================================
