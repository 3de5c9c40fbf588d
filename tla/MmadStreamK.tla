------------------------------ MODULE MmadStreamK ------------------------------
(***************************************************************************)
(* What BlockMmad of Stream-K (block_mmad_streamk.h) hands to the pipes of *)
(* a cube core that computes a sequence of tiles.  L1 and L0 are double    *)
(* buffered, L0C is a single buffer kept apart by unit flags.              *)
(*                                                                         *)
(* A launch has bias, kL1 and baseK (in units of k) and tiles; a tile its  *)
(* row, column, range of k, the number of its chunk and where it goes.     *)
(***************************************************************************)
EXTENDS Instructions

BUFFER_NUM == 2
L1_EVENT_ID_OFFSET == 4

Set(p, q, id)  == SetFlag("aic", p, q, id)
Wait(p, q, id) == WaitFlag("aic", p, q, id)

A1(id) == <<"aic", "A1", id>>       B1(id) == <<"aic", "B1", id>>
A2(id) == <<"aic", "A2", id>>       B2(id) == <<"aic", "B2", id>>
C1(id) == <<"aic", "C1", id>>       C2(id) == <<"aic", "C2", id>>
CO1    == <<"aic", "CO1", 0>>

(* The constructor hands out the flags of empty buffers, the destructor    *)
(* takes them back.                                                        *)
Construct == [i \in 1 .. 8 |-> Set("MTE1", "MTE2", i - 1)]
               \o [i \in 1 .. 2 |-> Set("M", "MTE1", i - 1)]
Destruct  == [i \in 1 .. 8 |-> Wait("MTE1", "MTE2", i - 1)]
               \o [i \in 1 .. 2 |-> Wait("M", "MTE1", i - 1)]

CopyInA1(t, r, id) == Load("aic", "MTE2", Units("A", t.row, t.k + r.from, r.length), A1(id))
CopyInB1(t, r, id) == Load("aic", "MTE2", Units("B", t.column, t.k + r.from, r.length), B1(id))
CopyInC1(t, id)    == Load("aic", "MTE2", BiasOf(t.column), C1(id))
CopyInA2(id, r, l0) == Slice("aic", "MTE1", A1(id), r.from, r.length, A2(l0))
CopyInB2(id, r, l0) == Slice("aic", "MTE1", B1(id), r.from, r.length, B2(l0))
CopyInC2(id, bt)    == Copy("aic", "MTE1", C1(id), {C2(bt)}, 0)

(* To the workspace in the split scene, to the output otherwise.           *)
CopyOut(t) == Store("aic", "FIX", CO1, t.block, FINAL_ACCUMULATION)

(* Inner iteration: range r1 of the chunk r0, with l0 = l0PingPong_.       *)
L0Iteration(l, t, r0, r1, id, l0) ==
  LET pp == l0 % 2
      first == r0.from = 0 /\ r1.from = 0
      needBias == l.bias /\ first /\ t.kCnt = 0
      from == IF needBias THEN C2(id) ELSE IF first THEN NoBuffer ELSE CO1
  IN  <<Wait("M", "MTE1", pp), CopyInA2(id, r1, pp)>>
      \o When(r1.from = 0, <<Wait("MTE2", "MTE1", id + L1_EVENT_ID_OFFSET)>>)
      \o When(needBias, <<CopyInC2(id, id)>>)
      \o <<CopyInB2(id, r1, pp),
           Set("MTE1", "M", pp), Wait("MTE1", "M", pp),
           Mac("aic", "M", << <<A2(pp), 0>>, <<B2(pp), 0>> >>, r1.length, from, CO1,
               IF r0.last /\ r1.last THEN FINAL_ACCUMULATION ELSE NON_FINAL_ACCUMULATION),
           Set("M", "MTE1", pp)>>

(* Outer iteration: chunk r0 of tile t, with loop = abL1LoopCnt_.          *)
L1Iteration(l, t, r0, loop, l0) ==
  LET id == loop % BUFFER_NUM
      cut == Cut(r0.length, l.baseK)
  IN  <<Wait("MTE1", "MTE2", id)>>
      \o When(l.bias /\ r0.from = 0 /\ t.kCnt = 0, <<CopyInC1(t, id)>>)
      \o <<CopyInA1(t, r0, id), Set("MTE2", "MTE1", id), Wait("MTE2", "MTE1", id),
           Wait("MTE1", "MTE2", id + L1_EVENT_ID_OFFSET),
           CopyInB1(t, r0, id), Set("MTE2", "MTE1", id + L1_EVENT_ID_OFFSET)>>
      \o FlattenSeq([i \in DOMAIN cut |-> L0Iteration(l, t, r0, cut[i], id, l0 + i - 1)])
      \o When(r0.last, <<CopyOut(t)>>)
      \o <<Set("MTE1", "MTE2", id), Set("MTE1", "MTE2", id + L1_EVENT_ID_OFFSET)>>

(* All chunks of all tiles, as operator() is called for one after another. *)
Chunks(l) ==
  FlattenSeq([t \in DOMAIN l.tiles |->
    LET cut == Cut(l.tiles[t].length, l.kL1)
    IN  [i \in DOMAIN cut |-> [tile |-> l.tiles[t], range |-> cut[i]]]])

Kernel(l) ==
  LET chunks == Chunks(l)
      l0 == Before([n \in DOMAIN chunks |-> CeilDiv(chunks[n].range.length, l.baseK)])
  IN  Construct
      \o FlattenSeq([n \in DOMAIN chunks |->
           L1Iteration(l, chunks[n].tile, chunks[n].range, n - 1, l0[n])])
      \o Destruct

Result(l) ==
  [b \in {l.tiles[t].block : t \in DOMAIN l.tiles} |->
     LET t == CHOOSE x \in {l.tiles[i] : i \in DOMAIN l.tiles} : x.block = b
     IN  (IF l.bias /\ t.kCnt = 0 THEN BiasOf(t.column) ELSE <<>>)
           \o Products(t.row, t.column, t.k, t.length)]
===============================================================================
