---------------------------- MODULE QbmmTiling_proofs --------------------------
(***************************************************************************)
(* Proofs about QbmmTiling, for any number of threads, any contexts, any   *)
(* hash function and any contents of the padding: a template works on the  *)
(* info its own call has parsed, and, as long as no context is PERBLOCK's, *)
(* a call returns the tiling it would get in a process of its own.         *)
(***************************************************************************)
EXTENDS QbmmTiling, FiniteSetTheorems, SequenceTheorems, TLAPS

LEMMA SameCardinality == ASSUME NEW S PROVE Cache!Cardinality(S) = Cardinality(S)
  BY DEF Cache!Cardinality, Cardinality

-------------------------------------------------------------------------------
(* The frame of a call.                                                    *)

PCs == {"construct", "insert", "parse", "op", "get", "calc", "add", "return"}

(* What a thread has parsed, once its info is its own.                     *)
LEMMA ParsedOwn ==
  ASSUME NEW t, InfoIsOwn(t)
  PROVE  Parsed(t) = Own(Ctx(t))
  BY DEF InfoIsOwn, Parsed, Own

LEMMA InCall ==
  ASSUME Typed, NEW t \in Threads, NEW pc \in PCs, At(t, pc)
  PROVE  /\ frame[t] \in Frame /\ ~At(t, "idle")
         /\ Ctx(t) \in Contexts /\ Ctx(t).op \in {"V3", "Perblock", "Pergroup"}
         /\ Ctx(t).main \in Mains /\ Ctx(t).extra \in Extras /\ Ctx(t).valid \in BOOLEAN
         /\ frame[t].next \in 1 .. 3 /\ frame[t].next <= Len(Templates(Ctx(t).op))
  <1>1. frame[t] \in Frame
    BY DEF Typed, TypeOK, Idle, At, PCs
  <1>2. QED
    BY <1>1, QbmmAssumption DEF Typed, At, Ctx, Frame, Context, PCs

(* What the template lists of DoOpTiling say, entry by entry.              *)
LEMMA TemplateList ==
  ASSUME NEW op \in {"V3", "Perblock", "Pergroup"}, NEW n \in 1 .. 3, n <= Len(Templates(op))
  PROVE  /\ op = "V3" => /\ Len(Templates(op)) = 2 /\ n \in {1, 2}
                         /\ n = 1 => Templates(op)[n] = "basic"
                         /\ n = 2 => Templates(op)[n] = "tbe"
         /\ op # "V3" => /\ Len(Templates(op)) = 3
                         /\ n = 1 => Templates(op)[n] = "msd"
                         /\ n = 2 => Templates(op)[n] = "perblock"
                         /\ n = 3 => Templates(op)[n] = "pergroup"
  BY DEF Templates

LEMMA GoneTo ==
  ASSUME NEW t \in Threads, frame[t] \in Frame, NEW pc \in PCs, Goto(t, pc)
  PROVE  \E k \in Frame : /\ frame' = [frame EXCEPT ![t] = k] /\ k.pc = pc
                          /\ k.ctx = Ctx(t) /\ k.next = frame[t].next
                          /\ k.ub = frame[t].ub
  <1> DEFINE k == [frame[t] EXCEPT !.pc = pc]
  <1>1. /\ k \in Frame /\ k.pc = pc /\ k.ctx = Ctx(t) /\ k.next = frame[t].next
        /\ k.ub = frame[t].ub
    BY DEF Frame, Ctx, PCs
  <1>2. frame' = [frame EXCEPT ![t] = k]
    BY DEF Goto
  <1> HIDE DEF k
  <1>3. QED
    BY <1>1, <1>2

LEMMA Finished ==
  ASSUME NEW t \in Threads, frame[t] \in Frame, NEW r \in Result, Finish(t, r)
  PROVE  \E k \in Frame : /\ frame' = [frame EXCEPT ![t] = k] /\ k.pc = "return"
                          /\ k.ctx = Ctx(t) /\ k.next = frame[t].next /\ k.result = r
  <1> DEFINE k == [frame[t] EXCEPT !.pc = "return", !.result = r]
  <1>1. /\ k \in Frame /\ k.pc = "return" /\ k.ctx = Ctx(t) /\ k.next = frame[t].next
        /\ k.result = r
    BY DEF Frame, Ctx
  <1>2. frame' = [frame EXCEPT ![t] = k]
    BY DEF Finish
  <1> HIDE DEF k
  <1>3. QED
    BY <1>1, <1>2

LEMMA Ignored ==
  ASSUME NEW t \in Threads, frame[t] \in Frame, Ignore(t), Failed \in Result,
         Len(Templates(Ctx(t).op)) <= 3, Len(Templates(Ctx(t).op)) \in Nat
  PROVE  \E k \in Frame :
           /\ frame' = [frame EXCEPT ![t] = k] /\ k.ctx = Ctx(t)
           /\ IF frame[t].next < Len(Templates(Ctx(t).op))
                THEN k.pc = "construct" /\ k.next = frame[t].next + 1
                ELSE k.pc = "return" /\ k.next = frame[t].next /\ k.result = Failed
  <1>1. CASE frame[t].next < Len(Templates(Ctx(t).op))
    <2> DEFINE k == [frame[t] EXCEPT !.pc = "construct", !.next = @ + 1]
    <2>1. k \in Frame /\ k.pc = "construct" /\ k.ctx = Ctx(t) /\ k.next = frame[t].next + 1
      <3>1. frame[t].next + 1 \in 1 .. 3
        BY <1>1 DEF Frame
      <3>2. QED
        BY <3>1 DEF Frame, Ctx
    <2>2. frame' = [frame EXCEPT ![t] = k]
      BY <1>1 DEF Ignore
    <2> HIDE DEF k
    <2>3. QED
      BY <1>1, <2>1, <2>2
  <1>2. CASE ~(frame[t].next < Len(Templates(Ctx(t).op)))
    <2>1. Finish(t, Failed)
      BY <1>2 DEF Ignore
    <2>2. QED
      BY <1>2, <2>1, Finished
  <1>3. QED
    BY <1>1, <1>2

LEMMA Computes ==
  ASSUME NEW t \in Threads, frame[t] \in Frame, NEW pad \in Pads, Compute(t, pad)
  PROVE  \E k \in Frame : /\ frame' = [frame EXCEPT ![t] = k] /\ k.pc = "calc"
                          /\ k.ctx = Ctx(t) /\ k.next = frame[t].next
                          /\ k.ub = frame[t].ub
  <1> DEFINE k == [frame[t] EXCEPT !.pc = "calc", !.pad = pad]
  <1>1. /\ k \in Frame /\ k.pc = "calc" /\ k.ctx = Ctx(t) /\ k.next = frame[t].next
        /\ k.ub = frame[t].ub
    BY DEF Frame, Ctx
  <1>2. frame' = [frame EXCEPT ![t] = k]
    BY DEF Compute
  <1> HIDE DEF k
  <1>3. QED
    BY <1>1, <1>2

-------------------------------------------------------------------------------
(* What a step has to establish for the frame k it leaves thread t with,   *)
(* and what it may do to the infos, for the invariant to hold again.       *)
Tpl(k) == Templates(k.ctx.op)[k.next]

CacheTyped ==
  /\ IsFiniteSet(DOMAIN cache) /\ Cardinality(DOMAIN cache) <= Cap
  /\ \A k \in DOMAIN cache :
        /\ cache[k].input \in Inputs /\ KeyOf[cache[k].input] = k
        /\ cache[k].value \in {Tiling(i[1], i[2], ub) : i \in Inputs, ub \in BOOLEAN}

InfoStep(t) ==
  /\ DOMAIN info \subseteq DOMAIN info' /\ DOMAIN info' \subseteq Threads
  /\ \A u \in DOMAIN info : u # t => info'[u] = info[u]
  /\ \A u \in DOMAIN info' : info'[u] \in Info

TypedFrame(t, k) ==
  /\ k.next <= Len(Templates(k.ctx.op))
  /\ (k.pc \in {"parse", "op", "get", "calc", "add"} /\ Tpl(k) # "msd") => t \in DOMAIN info'
  /\ k.pc \in {"op", "get", "calc", "add"} => Tpl(k) # "msd"

OwnFrame(t, k) ==
  /\ (k.pc \in {"op", "get", "calc", "add"} /\ Tpl(k) \in {"basic", "pergroup"})
        => info'[t].main = k.ctx.main /\ info'[t].extra = k.ctx.extra /\ k.ctx.valid
  /\ (k.pc \in {"op", "get", "calc", "add"} /\ Tpl(k) = "perblock") => k.ctx.op = "Perblock"
  /\ (Tpl(k) = "tbe" /\ k.pc # "return")
        => /\ t \in DOMAIN info'
           /\ info'[t].main = k.ctx.main /\ info'[t].extra = k.ctx.extra
           /\ k.ctx.valid /\ Own(k.ctx) \in NotBasic

LEMMA FrameMoves ==
  ASSUME IInv, NEW t \in Threads, NEW k \in Frame \cup {Idle},
         frame' = [frame EXCEPT ![t] = k], InfoStep(t), CacheTyped',
         k # Idle => TypedFrame(t, k) /\ OwnFrame(t, k)
  PROVE  IInv'
  <1>1. /\ frame \in [Threads -> Frame \cup {Idle}]
        /\ frame'[t] = k /\ \A u \in Threads : u # t => frame'[u] = frame[u]
    BY DEF IInv, Typed, TypeOK
  <1>2. TypeOK'
    BY <1>1 DEF TypeOK, InfoStep, CacheTyped
  <1>3. ASSUME NEW u \in Threads, u # t, ~At(u, "idle")
        PROVE  /\ (frame[u].next <= Len(Templates(Ctx(u).op)))'
               /\ ((Working(u) /\ Template(u) # "msd") => u \in DOMAIN info)'
               /\ (PastParse(u) => Template(u) # "msd")'
               /\ ((PastParse(u) /\ Template(u) \in {"basic", "pergroup"})
                     => InfoIsOwn(u) /\ Ctx(u).valid)'
               /\ ((PastParse(u) /\ Template(u) = "perblock") => Ctx(u).op = "Perblock")'
               /\ ((Template(u) = "tbe" /\ ~At(u, "return"))
                     => u \in DOMAIN info /\ InfoIsOwn(u) /\ Ctx(u).valid
                        /\ Own(Ctx(u)) \in NotBasic)'
    <2>1. frame'[u] = frame[u] /\ (u \in DOMAIN info => u \in DOMAIN info' /\ info'[u] = info[u])
      BY <1>1, <1>3 DEF InfoStep
    <2>2. Ctx(u)' = Ctx(u) /\ Template(u)' = Template(u)
      BY <2>1 DEF Ctx, Template
    <2>3. PastParse(u) => Working(u)
      BY DEF PastParse, Working
    <2>4. QED
      BY <1>3, <2>1, <2>2, <2>3
         DEF IInv, Typed, WorksOnOwnInfo, Working, PastParse, InfoIsOwn, At
  <1>4. ASSUME k # Idle
        PROVE  /\ (frame[t].next <= Len(Templates(Ctx(t).op)))'
               /\ ((Working(t) /\ Template(t) # "msd") => t \in DOMAIN info)'
               /\ (PastParse(t) => Template(t) # "msd")'
               /\ ((PastParse(t) /\ Template(t) \in {"basic", "pergroup"})
                     => InfoIsOwn(t) /\ Ctx(t).valid)'
               /\ ((PastParse(t) /\ Template(t) = "perblock") => Ctx(t).op = "Perblock")'
               /\ ((Template(t) = "tbe" /\ ~At(t, "return"))
                     => t \in DOMAIN info /\ InfoIsOwn(t) /\ Ctx(t).valid
                        /\ Own(Ctx(t)) \in NotBasic)'
    <2>1. Ctx(t)' = k.ctx /\ Template(t)' = Tpl(k)
      BY <1>1 DEF Ctx, Template, Tpl
    <2>2. QED
      BY <1>1, <1>4, <2>1
         DEF TypedFrame, OwnFrame, Working, PastParse, InfoIsOwn, At
  <1>5. ASSUME NEW u \in Threads PROVE At(u, "idle")' <=> IF u = t THEN k = Idle ELSE At(u, "idle")
    BY <1>1 DEF At, Frame, Idle
  <1>6. Typed'
    <2>1. ASSUME NEW u \in Threads, ~At(u, "idle")'
          PROVE  /\ (frame[u].next <= Len(Templates(Ctx(u).op)))'
                 /\ ((Working(u) /\ Template(u) # "msd") => u \in DOMAIN info)'
                 /\ (PastParse(u) => Template(u) # "msd")'
      BY <1>3, <1>4, <1>5, <2>1
    <2>2. QED
      BY <1>2, <2>1 DEF Typed, CacheTyped
  <1>7. WorksOnOwnInfo'
    <2>1. ASSUME NEW u \in Threads, ~At(u, "idle")'
          PROVE  /\ ((PastParse(u) /\ Template(u) \in {"basic", "pergroup"})
                       => InfoIsOwn(u) /\ Ctx(u).valid)'
                 /\ ((PastParse(u) /\ Template(u) = "perblock") => Ctx(u).op = "Perblock")'
                 /\ ((Template(u) = "tbe" /\ ~At(u, "return"))
                       => u \in DOMAIN info /\ InfoIsOwn(u) /\ Ctx(u).valid
                          /\ Own(Ctx(u)) \in NotBasic)'
      BY <1>3, <1>4, <1>5, <2>1
    <2>2. QED
      BY <2>1 DEF WorksOnOwnInfo
  <1>8. QED
    BY <1>6, <1>7 DEF IInv

(* A step that leaves infos and cache alone.                               *)
LEMMA Untouched ==
  ASSUME IInv, NEW t, info' = info, cache' = cache
  PROVE  InfoStep(t) /\ CacheTyped'
  BY DEF IInv, Typed, TypeOK, InfoStep, CacheTyped

(* A parse: the info of the thread becomes i.                              *)
LEMMA InfoSet ==
  ASSUME IInv, NEW t \in DOMAIN info, NEW i \in Info, SetInfo(t, i)
  PROVE  InfoStep(t) /\ DOMAIN info' = DOMAIN info /\ info'[t] = i
  BY DEF IInv, Typed, TypeOK, InfoStep, SetInfo

LEMMA PairThenOne ==
  ASSUME NEW a, NEW b, NEW c
  PROVE  <<a, b>> \o <<c>> = <<a, b, c>>
  <1> DEFINE S == {a, b, c}  s == <<a, b>>  u == <<c>>  v == <<a, b, c>>
  <1>1. /\ s \in Seq(S) /\ u \in Seq(S) /\ v \in Seq(S)
        /\ Len(s) = 2 /\ Len(u) = 1 /\ Len(v) = 3
        /\ s[1] = a /\ s[2] = b /\ u[1] = c /\ v[1] = a /\ v[2] = b /\ v[3] = c
    OBVIOUS
  <1> HIDE DEF S, s, u, v
  <1>2. /\ s \o u \in Seq(S) /\ Len(s \o u) = Len(s) + Len(u)
        /\ \A i \in 1 .. Len(s) + Len(u) :
              (s \o u)[i] = IF i <= Len(s) THEN s[i] ELSE u[i - Len(s)]
    BY <1>1, ConcatProperties
  <1>3. s \o u = v
    <2>1. Len(s \o u) = 3 /\ \A i \in 1 .. 3 : (s \o u)[i] = v[i]
      BY <1>1, <1>2
    <2>2. QED
      BY <1>1, <1>2, <2>1, SeqEqual
  <1>4. QED
    BY <1>3 DEF s, u, v

LEMMA ResultTypes ==
  /\ Failed \in Result
  /\ \A m \in Mains \cup {NoMain}, e \in Extras :
        /\ TbeTiling(m, e) \in Result
        /\ \A ub \in BOOLEAN :
              /\ Tiling(m, e, ub) \in Result
              /\ Tiling(m, e, ub) \in {Tiling(i[1], i[2], b) : i \in Inputs, b \in BOOLEAN}
        /\ \A pad \in Pads : <<m, e, pad>> \in Inputs
  <1>1. ASSUME NEW m \in Mains \cup {NoMain}, NEW e \in Extras
        PROVE  \A pad \in Pads : <<m, e, pad>> \in Inputs
    BY DEF Inputs
  <1>2. ASSUME NEW m \in Mains \cup {NoMain}, NEW e \in Extras
        PROVE  \E i \in Inputs : i[1] = m /\ i[2] = e
    <2>1. PICK pad \in Pads : TRUE
      BY QbmmAssumption
    <2>2. <<m, e, pad>>[1] = m /\ <<m, e, pad>>[2] = e
      OBVIOUS
    <2>3. QED
      BY <1>1, <2>2
  <1>3. ASSUME NEW m \in Mains \cup {NoMain}, NEW e \in Extras
        PROVE  /\ TbeTiling(m, e) \in {TbeTiling(i[1], i[2]) : i \in Inputs}
               /\ \A ub \in BOOLEAN :
                     Tiling(m, e, ub) \in {Tiling(i[1], i[2], b) : i \in Inputs, b \in BOOLEAN}
    BY <1>2
  <1>4. QED
    BY <1>1, <1>3 DEF Result

-------------------------------------------------------------------------------
(* The steps of a call preserve the invariant.                             *)

LEMMA InitIInv == Init => IInv
  <1> SUFFICES ASSUME Init PROVE IInv
    OBVIOUS
  <1>1. DOMAIN info = {} /\ DOMAIN cache = {} /\ frame = [t \in Threads |-> Idle]
    BY DEF Init
  <1>2. IsFiniteSet(DOMAIN cache) /\ Cardinality(DOMAIN cache) = 0
    BY <1>1, FS_EmptySet
  <1>3. TypeOK
    BY <1>1, <1>2, QbmmAssumption DEF TypeOK
  <1>4. \A t \in Threads : At(t, "idle")
    BY <1>1 DEF At, Idle
  <1>5. QED
    BY <1>1, <1>2, <1>3, <1>4 DEF IInv, Typed, WorksOnOwnInfo

LEMMA CallIInv ==
  ASSUME IInv, NEW t \in Threads, NEW ctx \in Contexts, Call(t, ctx)
  PROVE  IInv'
  <1> DEFINE k == [pc |-> "construct", ctx |-> ctx, next |-> 1, ub |-> FALSE,
                   pad |-> CHOOSE p \in Pads : TRUE, result |-> Failed]
  <1>1. frame' = [frame EXCEPT ![t] = k] /\ info' = info /\ cache' = cache
    BY DEF Call
  <1>2. k \in Frame /\ k.pc = "construct" /\ k.ctx = ctx /\ k.next = 1
    <2>1. (CHOOSE p \in Pads : TRUE) \in Pads
      BY QbmmAssumption
    <2>2. QED
      BY <2>1, ResultTypes DEF Frame
  <1> HIDE DEF k
  <1>3. 1 <= Len(Templates(ctx.op)) /\ Templates(ctx.op)[1] # "tbe"
    BY DEF Templates
  <1>4. TypedFrame(t, k) /\ OwnFrame(t, k)
    BY <1>2, <1>3 DEF TypedFrame, OwnFrame, Tpl
  <1>5. QED
    BY <1>1, <1>2, <1>4, FrameMoves, Untouched

LEMMA ConstructIInv ==
  ASSUME IInv, NEW t \in Threads, Construct(t)
  PROVE  IInv'
  <1>1. At(t, "construct") /\ info' = info /\ cache' = cache
    BY DEF Construct
  <1>2. frame[t] \in Frame /\ ~At(t, "idle") /\ frame[t].next <= Len(Templates(Ctx(t).op))
    BY <1>1, InCall DEF PCs, IInv
  <1>3. PICK pc \in {"parse", "insert"} :
           /\ pc = "parse" => Template(t) = "msd" \/ t \in DOMAIN info
           /\ frame' = [frame EXCEPT ![t].pc = pc, ![t].ub = FALSE]
    BY DEF Construct
  <1>4. PICK k \in Frame : /\ frame' = [frame EXCEPT ![t] = k] /\ k.pc = pc
                           /\ k.ctx = Ctx(t) /\ k.next = frame[t].next
    <2> DEFINE k == [frame[t] EXCEPT !.pc = pc, !.ub = FALSE]
    <2>1. k \in Frame /\ k.pc = pc /\ k.ctx = Ctx(t) /\ k.next = frame[t].next
      BY <1>2 DEF Frame, Ctx
    <2>2. frame' = [frame EXCEPT ![t] = k]
      BY <1>3
    <2> HIDE DEF k
    <2>3. QED
      BY <2>1, <2>2
  <1>5. Tpl(k) = Template(t)
    BY <1>4 DEF Tpl, Template, Ctx
  <1>6. TypedFrame(t, k)
    BY <1>1, <1>2, <1>3, <1>4, <1>5 DEF TypedFrame
  <1>7. OwnFrame(t, k)
    BY <1>1, <1>2, <1>3, <1>4, <1>5 DEF OwnFrame, IInv, WorksOnOwnInfo, InfoIsOwn, At
  <1>8. QED
    BY <1>1, <1>4, <1>6, <1>7, FrameMoves, Untouched

LEMMA InsertInfoIInv ==
  ASSUME IInv, NEW t \in Threads, InsertInfo(t)
  PROVE  IInv'
  <1>1. /\ At(t, "insert") /\ cache' = cache /\ Goto(t, "parse")
        /\ info' = [u \in DOMAIN info \cup {t} |-> IF u \in DOMAIN info THEN info[u] ELSE Fresh]
    BY DEF InsertInfo
  <1>2. frame[t] \in Frame /\ ~At(t, "idle") /\ frame[t].next <= Len(Templates(Ctx(t).op))
    BY <1>1, InCall DEF PCs, IInv
  <1>3. PICK k \in Frame : /\ frame' = [frame EXCEPT ![t] = k] /\ k.pc = "parse"
                           /\ k.ctx = Ctx(t) /\ k.next = frame[t].next
    BY <1>1, <1>2, GoneTo DEF PCs
  <1>4. Tpl(k) = Template(t)
    BY <1>3 DEF Tpl, Template, Ctx
  <1>5. Fresh \in Info
    BY QbmmAssumption DEF Fresh, Info
  <1>6. InfoStep(t)
    BY <1>1, <1>5 DEF InfoStep, IInv, Typed, TypeOK
  <1>7. CacheTyped'
    BY <1>1 DEF CacheTyped, IInv, Typed, TypeOK
  <1>8. TypedFrame(t, k)
    BY <1>1, <1>2, <1>3 DEF TypedFrame
  <1>9. OwnFrame(t, k)
    BY <1>1, <1>2, <1>3, <1>4 DEF OwnFrame, IInv, WorksOnOwnInfo, InfoIsOwn, At
  <1>10. QED
    BY <1>3, <1>6, <1>7, <1>8, <1>9, FrameMoves

(* What ParseFresh comes to: the info of the context and on to DoOpTiling, *)
(* or a failure.                                                           *)
LEMMA ParseFreshIInv ==
  ASSUME IInv, NEW t \in Threads, At(t, "parse"), Template(t) # "msd",
         Template(t) # "perblock", Template(t) = "tbe" => Ctx(t).valid /\ Own(Ctx(t)) \in NotBasic,
         ParseFresh(t), cache' = cache
  PROVE  IInv'
  <1>1. /\ frame[t] \in Frame /\ ~At(t, "idle") /\ frame[t].next <= Len(Templates(Ctx(t).op))
        /\ Ctx(t).main \in Mains /\ Ctx(t).extra \in Extras
    BY InCall DEF PCs, IInv
  <1>2. t \in DOMAIN info
    BY <1>1 DEF IInv, Typed, Working, At
  <1>3. CASE Ctx(t).valid
    <2> DEFINE i == [initFlag |-> TRUE, main |-> Ctx(t).main, extra |-> Ctx(t).extra]
    <2>1. SetInfo(t, i) /\ Goto(t, "op")
      BY <1>3 DEF ParseFresh
    <2>2. i \in Info /\ i.main = Ctx(t).main /\ i.extra = Ctx(t).extra
      BY <1>1 DEF Info
    <2> HIDE DEF i
    <2>3. InfoStep(t) /\ DOMAIN info' = DOMAIN info /\ info'[t] = i
      BY <1>2, <2>1, <2>2, InfoSet
    <2>4. PICK k \in Frame : /\ frame' = [frame EXCEPT ![t] = k] /\ k.pc = "op"
                             /\ k.ctx = Ctx(t) /\ k.next = frame[t].next
      BY <1>1, <2>1, GoneTo DEF PCs
    <2>5. Tpl(k) = Template(t)
      BY <2>4 DEF Tpl, Template, Ctx
    <2>6. TypedFrame(t, k) /\ OwnFrame(t, k)
      BY <1>1, <1>2, <1>3, <2>2, <2>3, <2>4, <2>5 DEF TypedFrame, OwnFrame
    <2>7. CacheTyped'
      BY DEF CacheTyped, IInv, Typed, TypeOK
    <2>8. QED
      BY <2>3, <2>4, <2>6, <2>7, FrameMoves
  <1>4. CASE ~Ctx(t).valid
    <2>1. PICK m \in {NoMain, Ctx(t).main}, e \in {Default, Ctx(t).extra} :
             SetInfo(t, [initFlag |-> FALSE, main |-> m, extra |-> e])
      BY <1>4 DEF ParseFresh
    <2>2. Finish(t, Failed)
      BY <1>4 DEF ParseFresh
    <2>3. [initFlag |-> FALSE, main |-> m, extra |-> e] \in Info
      BY <1>1, QbmmAssumption DEF Info
    <2>4. InfoStep(t)
      BY <1>2, <2>1, <2>3, InfoSet
    <2>5. PICK k \in Frame : /\ frame' = [frame EXCEPT ![t] = k] /\ k.pc = "return"
                             /\ k.ctx = Ctx(t) /\ k.next = frame[t].next
      BY <1>1, <2>2, Finished, ResultTypes
    <2>6. TypedFrame(t, k) /\ OwnFrame(t, k)
      BY <1>1, <2>5 DEF TypedFrame, OwnFrame
    <2>7. CacheTyped'
      BY DEF CacheTyped, IInv, Typed, TypeOK
    <2>8. QED
      BY <2>4, <2>5, <2>6, <2>7, FrameMoves
  <1>5. QED
    BY <1>3, <1>4

LEMMA ParseV3IInv ==
  ASSUME IInv, NEW t \in Threads, ParseBasic(t) \/ ParseTbe(t)
  PROVE  IInv'
  <1>1. At(t, "parse") /\ cache' = cache
    BY DEF ParseBasic, ParseTbe
  <1>2. frame[t] \in Frame /\ ~At(t, "idle") /\ frame[t].next <= Len(Templates(Ctx(t).op))
    BY <1>1, InCall DEF PCs, IInv
  <1>3. Template(t) = "tbe" => InfoIsOwn(t) /\ Ctx(t).valid /\ Own(Ctx(t)) \in NotBasic
    BY <1>1, <1>2 DEF IInv, WorksOnOwnInfo, At
  <1>4. CASE ParseFresh(t)
    BY <1>1, <1>3, <1>4, ParseFreshIInv DEF ParseBasic, ParseTbe
  <1>5. CASE Template(t) = "tbe" /\ Goto(t, "op") /\ info' = info
    <2>1. t \in DOMAIN info
      BY <1>1, <1>2, <1>5 DEF IInv, Typed, Working, At
    <2>2. PICK k \in Frame : /\ frame' = [frame EXCEPT ![t] = k] /\ k.pc = "op"
                             /\ k.ctx = Ctx(t) /\ k.next = frame[t].next
      BY <1>2, <1>5, GoneTo DEF PCs
    <2>3. Tpl(k) = "tbe"
      BY <1>5, <2>2 DEF Tpl, Template, Ctx
    <2>4. TypedFrame(t, k) /\ OwnFrame(t, k)
      BY <1>2, <1>3, <1>5, <2>1, <2>2, <2>3 DEF TypedFrame, OwnFrame, InfoIsOwn
    <2>5. QED
      BY <1>1, <1>5, <2>2, <2>4, FrameMoves, Untouched
  <1>6. QED
    BY <1>4, <1>5 DEF ParseBasic, ParseTbe, ParseOnce

(* A refusal moves to the next template: to tbe only from the basic one,   *)
(* which has refused a valid context of its own.                           *)
LEMMA IgnoreIInv ==
  ASSUME IInv, NEW t \in Threads, NEW pc \in PCs, At(t, pc), Ignore(t), InfoStep(t), CacheTyped',
         Template(t) # "tbe",
         Template(t) = "basic" => /\ t \in DOMAIN info' /\ Ctx(t).valid
                                  /\ info'[t].main = Ctx(t).main
                                  /\ info'[t].extra = Ctx(t).extra
                                  /\ Own(Ctx(t)) \in NotBasic
  PROVE  IInv'
  <1>1. /\ frame[t] \in Frame /\ frame[t].next \in 1 .. 3
        /\ frame[t].next <= Len(Templates(Ctx(t).op))
        /\ Ctx(t).op \in {"V3", "Perblock", "Pergroup"}
    BY InCall DEF IInv
  <1>2. /\ Len(Templates(Ctx(t).op)) \in {2, 3}
        /\ Ctx(t).op = "V3" => Template(t) = "basic" \/ Template(t) = "tbe"
    BY <1>1, TemplateList DEF Template, Ctx
  <1> DEFINE L == Len(Templates(Ctx(t).op))
  <1>3. PICK k \in Frame :
           /\ frame' = [frame EXCEPT ![t] = k] /\ k.ctx = Ctx(t)
           /\ IF frame[t].next < L
                THEN k.pc = "construct" /\ k.next = frame[t].next + 1
                ELSE k.pc = "return" /\ k.next = frame[t].next /\ k.result = Failed
    <2>1. L <= 3 /\ L \in Nat
      <3> HIDE DEF L
      <3>1. L \in {2, 3}
        BY <1>2 DEF L
      <3>2. QED
        BY <3>1
    <2>2. QED
      BY <1>1, <2>1, Ignored, ResultTypes
  <1>4. k.next \in 1 .. 3 /\ k.next <= Len(Templates(k.ctx.op)) /\ k.pc \in {"construct", "return"}
    <2>1. Len(Templates(k.ctx.op)) = L
      BY <1>3
    <2> HIDE DEF L
    <2>2. L \in {2, 3} /\ frame[t].next \in 1 .. 3 /\ frame[t].next <= L
      BY <1>1, <1>2 DEF L
    <2>3. QED
      BY <1>3, <2>1, <2>2
  <1>5. Tpl(k) = "tbe" => Template(t) = "basic" \/ Template(t) = "tbe"
    BY <1>1, <1>2, <1>3, <1>4, TemplateList DEF Tpl
  <1>6. TypedFrame(t, k) /\ OwnFrame(t, k)
    BY <1>3, <1>4, <1>5 DEF TypedFrame, OwnFrame
  <1>7. QED
    BY <1>3, <1>6, FrameMoves

LEMMA ParseMsdIInv ==
  ASSUME IInv, NEW t \in Threads, ParseMsd(t)
  PROVE  IInv'
  <1>1. At(t, "parse") /\ Template(t) = "msd" /\ Ignore(t) /\ info' = info /\ cache' = cache
    BY DEF ParseMsd
  <1>2. InfoStep(t) /\ CacheTyped'
    BY <1>1, Untouched
  <1>3. QED
    BY <1>1, <1>2, IgnoreIInv DEF PCs

LEMMA ParsePerblockIInv ==
  ASSUME IInv, NEW t \in Threads, ParsePerblock(t)
  PROVE  IInv'
  <1> DEFINE mine == Ctx(t).op = "Perblock" /\ Ctx(t).valid
  <1>1. /\ At(t, "parse") /\ Template(t) = "perblock" /\ cache' = cache
        /\ IF mine THEN Goto(t, "op") ELSE Ignore(t)
    BY DEF ParsePerblock
  <1>2. /\ frame[t] \in Frame /\ ~At(t, "idle") /\ frame[t].next <= Len(Templates(Ctx(t).op))
        /\ Ctx(t).main \in Mains
    BY <1>1, InCall DEF PCs, IInv
  <1>3. t \in DOMAIN info /\ info[t] \in Info
    BY <1>1, <1>2 DEF IInv, Typed, TypeOK, Working, At
  <1>4. PICK m \in {Ctx(t).main, info[t].main} : SetInfo(t, [info[t] EXCEPT !.main = m])
    BY DEF ParsePerblock
  <1>5. [info[t] EXCEPT !.main = m] \in Info
    BY <1>2, <1>3 DEF Info
  <1>6. InfoStep(t) /\ DOMAIN info' = DOMAIN info
    BY <1>3, <1>4, <1>5, InfoSet
  <1>7. CacheTyped'
    BY <1>1 DEF CacheTyped, IInv, Typed, TypeOK
  <1>8. CASE mine
    <2>1. PICK k \in Frame : /\ frame' = [frame EXCEPT ![t] = k] /\ k.pc = "op"
                             /\ k.ctx = Ctx(t) /\ k.next = frame[t].next
      BY <1>1, <1>2, <1>8, GoneTo DEF PCs
    <2>2. Tpl(k) = "perblock"
      BY <1>1, <2>1 DEF Tpl, Template, Ctx
    <2>3. TypedFrame(t, k) /\ OwnFrame(t, k)
      BY <1>2, <1>3, <1>6, <1>8, <2>1, <2>2 DEF TypedFrame, OwnFrame
    <2>4. QED
      BY <1>6, <1>7, <2>1, <2>3, FrameMoves
  <1>9. CASE ~mine
    BY <1>1, <1>6, <1>7, <1>9, IgnoreIInv DEF PCs
  <1>10. QED
    BY <1>8, <1>9

(* DoOpTiling goes to the cache with isUbQuant_ as the template sets it.   *)
LEMMA UbIsSet ==
  ASSUME IInv, NEW t \in Threads, frame[t] \in Frame,
         \/ /\ DoOpTilingBasic(t)
            /\ Parsed(t) \notin NotBasic
         \/ DoOpTilingV4(t)
  PROVE  \E k \in Frame :
           /\ frame' = [frame EXCEPT ![t] = k] /\ k.pc = "get"
           /\ k.ctx = Ctx(t) /\ k.next = frame[t].next
           /\ k.ub <=> IF Template(t) = "basic" THEN Parsed(t) \in UbQuant
                                               ELSE Template(t) = "pergroup"
  <1>1. CASE DoOpTilingBasic(t) /\ Parsed(t) \notin NotBasic
    <2> DEFINE b == Parsed(t) \in UbQuant
    <2>1. b \in BOOLEAN /\ (b <=> Parsed(t) \in UbQuant)
      OBVIOUS
    <2>2. frame' = [frame EXCEPT ![t].pc = "get", ![t].ub = b] /\ Template(t) = "basic"
      BY <1>1 DEF DoOpTilingBasic
    <2> HIDE DEF b
    <2> DEFINE k == [frame[t] EXCEPT !.pc = "get", !.ub = b]
    <2>3. k \in Frame /\ k.pc = "get" /\ k.ctx = Ctx(t) /\ k.next = frame[t].next /\ k.ub = b
      BY <2>1 DEF Frame, Ctx
    <2>4. frame' = [frame EXCEPT ![t] = k]
      BY <2>2
    <2> HIDE DEF k
    <2>5. QED
      BY <2>1, <2>2, <2>3, <2>4
  <1>2. CASE DoOpTilingV4(t)
    <2> DEFINE b == Template(t) = "pergroup"
    <2>1. b \in BOOLEAN /\ (b <=> Template(t) = "pergroup")
      OBVIOUS
    <2>2. frame' = [frame EXCEPT ![t].pc = "get", ![t].ub = b] /\ Template(t) # "basic"
      BY <1>2 DEF DoOpTilingV4
    <2> HIDE DEF b
    <2> DEFINE k == [frame[t] EXCEPT !.pc = "get", !.ub = b]
    <2>3. k \in Frame /\ k.pc = "get" /\ k.ctx = Ctx(t) /\ k.next = frame[t].next /\ k.ub = b
      BY <2>1 DEF Frame, Ctx
    <2>4. frame' = [frame EXCEPT ![t] = k]
      BY <2>2
    <2> HIDE DEF k
    <2>5. QED
      BY <2>1, <2>2, <2>3, <2>4
  <1>3. QED
    BY <1>1, <1>2

(* Within DoOpTiling a call moves on with the same template.               *)
LEMMA PastParseMoves ==
  ASSUME IInv, NEW t \in Threads, NEW pc \in {"op", "get", "calc", "add"}, At(t, pc),
         NEW k \in Frame, frame' = [frame EXCEPT ![t] = k],
         k.ctx = Ctx(t), k.next = frame[t].next, k.pc \in {"get", "calc", "add", "return"},
         info' = info, CacheTyped'
  PROVE  IInv'
  <1>1. ~At(t, "idle") /\ frame[t].next <= Len(Templates(Ctx(t).op)) /\ Working(t) /\ PastParse(t)
    BY InCall DEF PCs, IInv, Working, PastParse, At
  <1>2. Tpl(k) = Template(t)
    BY DEF Tpl, Template, Ctx
  <1>3. TypedFrame(t, k)
    BY <1>1, <1>2 DEF TypedFrame, IInv, Typed
  <1>4. OwnFrame(t, k)
    BY <1>1, <1>2 DEF OwnFrame, IInv, WorksOnOwnInfo, InfoIsOwn, At
  <1>5. InfoStep(t)
    BY DEF InfoStep, IInv, Typed, TypeOK
  <1>6. QED
    BY <1>3, <1>4, <1>5, FrameMoves

LEMMA DoOpTilingIInv ==
  ASSUME IInv, NEW t \in Threads,
         DoOpTilingBasic(t) \/ DoOpTilingV4(t) \/ DoOpTilingTbe(t)
  PROVE  IInv'
  <1>1. At(t, "op") /\ info' = info /\ cache' = cache
    BY DEF DoOpTilingBasic, DoOpTilingV4, DoOpTilingTbe
  <1>2. frame[t] \in Frame /\ ~At(t, "idle") /\ PastParse(t) /\ Working(t)
    BY <1>1, InCall DEF PCs, IInv, PastParse, Working, At
  <1>3. t \in DOMAIN info /\ info[t] \in Info
    BY <1>2 DEF IInv, Typed, TypeOK
  <1>4. InfoStep(t) /\ CacheTyped'
    BY <1>1, Untouched
  <1>5. CASE DoOpTilingBasic(t) /\ Parsed(t) \in NotBasic
    <2>1. Template(t) = "basic" /\ Ignore(t)
      BY <1>5 DEF DoOpTilingBasic
    <2>2. InfoIsOwn(t) /\ Ctx(t).valid
      BY <1>2, <2>1 DEF IInv, WorksOnOwnInfo
    <2>3. Own(Ctx(t)) \in NotBasic
      BY <1>5, <2>2, ParsedOwn
    <2>4. QED
      BY <1>1, <1>3, <1>4, <2>1, <2>2, <2>3, IgnoreIInv DEF PCs, InfoIsOwn
  <1>6. CASE (DoOpTilingBasic(t) /\ Parsed(t) \notin NotBasic) \/ DoOpTilingV4(t)
    <2>1. PICK k \in Frame : /\ frame' = [frame EXCEPT ![t] = k] /\ k.pc = "get"
                             /\ k.ctx = Ctx(t) /\ k.next = frame[t].next
      BY <1>2, <1>6, UbIsSet
    <2>2. QED
      BY <1>1, <1>4, <2>1, PastParseMoves
  <1>7. CASE DoOpTilingTbe(t)
    <2>1. TbeTiling(info[t].main, info[t].extra) \in Result
      BY <1>3, ResultTypes DEF Info
    <2>2. PICK k \in Frame : /\ frame' = [frame EXCEPT ![t] = k] /\ k.pc = "return"
                             /\ k.ctx = Ctx(t) /\ k.next = frame[t].next
      BY <1>2, <1>7, <2>1, Finished DEF DoOpTilingTbe
    <2>3. QED
      BY <1>1, <1>4, <2>2, PastParseMoves
  <1>8. QED
    BY <1>5, <1>6, <1>7

(* What a lookup finds was stored for that very input.                     *)
LEMMA Found ==
  ASSUME Typed, NEW input, Cache!LookUp(input) # Cache!Miss
  PROVE  LET k == KeyOf[input] IN
         /\ k \in DOMAIN cache /\ cache[k].input = input
         /\ Cache!LookUp(input)[1].value = cache[k].value
         /\ cache[k].value \in Result
  <1>1. LET k == KeyOf[input] IN
        k \in DOMAIN cache /\ cache[k].input = input /\ Cache!LookUp(input) = <<cache[k]>>
    BY DEF Cache!LookUp
  <1>2. QED
    BY <1>1 DEF Typed, Result

LEMMA CacheGetIInv ==
  ASSUME IInv, NEW t \in Threads, CacheGet(t)
  PROVE  IInv'
  <1>1. At(t, "get") /\ info' = info /\ cache' = cache
    BY DEF CacheGet
  <1>2. frame[t] \in Frame
    BY <1>1, InCall DEF PCs, IInv
  <1>3. CacheTyped'
    BY <1>1, Untouched
  <1>4. PICK pad \in Pads :
          \/ /\ Cache!LookUp(HashInput(t, pad)) # Cache!Miss
             /\ Finish(t, Cache!LookUp(HashInput(t, pad))[1].value)
          \/ Compute(t, pad)
    BY DEF CacheGet
  <1>5. CASE Compute(t, pad)
    BY <1>1, <1>2, <1>3, <1>5, Computes, PastParseMoves
  <1>6. CASE /\ Cache!LookUp(HashInput(t, pad)) # Cache!Miss
             /\ Finish(t, Cache!LookUp(HashInput(t, pad))[1].value)
    <2>1. Cache!LookUp(HashInput(t, pad))[1].value \in Result
      BY <1>6, Found DEF IInv
    <2>2. QED
      BY <1>1, <1>2, <1>3, <1>6, <2>1, Finished, PastParseMoves
  <1>7. QED
    BY <1>4, <1>5, <1>6

LEMMA CalculateIInv ==
  ASSUME IInv, NEW t \in Threads, Calculate(t)
  PROVE  IInv'
  <1>1. At(t, "calc") /\ info' = info /\ cache' = cache
    BY DEF Calculate
  <1>2. frame[t] \in Frame /\ CacheTyped'
    BY <1>1, InCall, Untouched DEF PCs, IInv
  <1>3. CASE Finish(t, Failed)
    BY <1>1, <1>2, <1>3, Finished, ResultTypes, PastParseMoves
  <1>4. CASE Goto(t, "add")
    BY <1>1, <1>2, <1>4, GoneTo, PastParseMoves DEF PCs
  <1>5. QED
    BY <1>3, <1>4 DEF Calculate

(* An Add leaves the cache as it is, or puts the item under a new key.     *)
LEMMA Stored ==
  ASSUME Typed, NEW item, Cache!StoreNew(item)
  PROVE  \/ cache' = cache
         \/ /\ KeyOf[item.input] \notin DOMAIN cache
            /\ Cardinality(DOMAIN cache) < Cap
            /\ DOMAIN cache' = DOMAIN cache \cup {KeyOf[item.input]}
            /\ cache'[KeyOf[item.input]] = item
            /\ \A k \in DOMAIN cache : cache'[k] = cache[k]
  <1>1. Cardinality(DOMAIN cache) \in Nat
    BY FS_CardinalityType DEF Typed
  <1>2. ~Cache!Full => Cardinality(DOMAIN cache) < Cap
    BY <1>1, SameCardinality, QbmmAssumption DEF Cache!Full
  <1>3. QED
    BY <1>2 DEF Cache!StoreNew, Cache!Store

LEMMA CacheAddIInv ==
  ASSUME IInv, NEW t \in Threads, CacheAdd(t)
  PROVE  IInv'
  <1>1. At(t, "add") /\ info' = info /\ Cache!StoreNew(MyItem(t)) /\ Finish(t, MyTiling(t))
    BY DEF CacheAdd
  <1>2. frame[t] \in Frame /\ ~At(t, "idle") /\ PastParse(t) /\ Working(t)
    BY <1>1, InCall DEF PCs, IInv, PastParse, Working, At
  <1>3. t \in DOMAIN info /\ info[t] \in Info
    BY <1>2 DEF IInv, Typed, TypeOK
  <1>4. /\ MyTiling(t) \in Result
        /\ MyTiling(t) \in {Tiling(i[1], i[2], b) : i \in Inputs, b \in BOOLEAN}
        /\ MyItem(t).input \in Inputs
    <2>1. /\ info[t].main \in Mains \cup {NoMain} /\ info[t].extra \in Extras
          /\ frame[t].ub \in BOOLEAN /\ frame[t].pad \in Pads
      BY <1>2, <1>3 DEF Info, Frame
    <2>2. MyItem(t).input = <<info[t].main, info[t].extra, frame[t].pad>>
      BY PairThenOne DEF MyItem, HashInput, Parsed
    <2>3. QED
      BY <2>1, <2>2, ResultTypes DEF MyTiling
  <1>5. CacheTyped'
    <2>1. CASE cache' = cache
      BY <2>1, Untouched DEF CacheTyped, IInv, Typed, TypeOK
    <2>2. CASE /\ KeyOf[MyItem(t).input] \notin DOMAIN cache
               /\ Cardinality(DOMAIN cache) < Cap
               /\ DOMAIN cache' = DOMAIN cache \cup {KeyOf[MyItem(t).input]}
               /\ cache'[KeyOf[MyItem(t).input]] = MyItem(t)
               /\ \A k \in DOMAIN cache : cache'[k] = cache[k]
      <3>1. /\ IsFiniteSet(DOMAIN cache')
            /\ Cardinality(DOMAIN cache') = Cardinality(DOMAIN cache) + 1
            /\ Cardinality(DOMAIN cache) \in Nat
        <4> DEFINE x == KeyOf[MyItem(t).input]
        <4>1. x \notin DOMAIN cache /\ DOMAIN cache' = DOMAIN cache \cup {x}
              /\ IsFiniteSet(DOMAIN cache)
          BY <2>2 DEF IInv, Typed
        <4> HIDE DEF x
        <4>2. QED
          BY <4>1, FS_AddElement, FS_CardinalityType
      <3>2. Cardinality(DOMAIN cache') <= Cap
        BY <2>2, <3>1, QbmmAssumption
      <3>3. MyItem(t).value = MyTiling(t)
        BY DEF MyItem
      <3>4. QED
        BY <1>4, <2>2, <3>1, <3>2, <3>3 DEF CacheTyped, IInv, Typed, TypeOK
    <2>3. QED
      BY <1>1, <2>1, <2>2, Stored DEF IInv
  <1>6. QED
    BY <1>1, <1>2, <1>4, <1>5, Finished, PastParseMoves

LEMMA ReturnIInv ==
  ASSUME IInv, NEW t \in Threads, Return(t)
  PROVE  IInv'
  BY FrameMoves, Untouched DEF Return

LEMMA NextIInv ==
  ASSUME IInv, [Next]_vars
  PROVE  IInv'
  <1>1. ASSUME NEW t \in Threads, Proceed(t) PROVE IInv'
    BY <1>1, ConstructIInv, InsertInfoIInv, ParseV3IInv, ParseMsdIInv, ParsePerblockIInv,
       DoOpTilingIInv, CacheGetIInv, CalculateIInv, CacheAddIInv, ReturnIInv DEF Proceed
  <1>2. CASE UNCHANGED vars
    BY <1>2 DEF vars, IInv, Typed, TypeOK, WorksOnOwnInfo, Working, PastParse, InfoIsOwn,
                Template, Ctx, At
  <1>3. QED
    BY <1>1, <1>2, CallIInv DEF Next

-------------------------------------------------------------------------------
(* The theorems that hold with every kind of call.                         *)

(* The invariant is inductive, for any threads, contexts, hash and padding.*)
THEOREM Invariance == Spec => []IInv
  BY InitIInv, NextIInv, PTL DEF Spec

(* Infos, cache and calls stay well-formed: every item sits under the key  *)
(* of its own input, and there are never more than Cap of them.            *)
THEOREM TypeCorrect == Spec => []TypeOK
  <1>1. IInv => TypeOK
    BY DEF IInv, Typed
  <1>2. QED
    BY <1>1, Invariance, PTL

(* When the second template of QuantBatchMatmulV3 skips its parse, the     *)
(* info it goes on with is the one the first template parsed in this call, *)
(* whatever ran on the thread before, PERBLOCK calls included.             *)
THEOREM SkippedParse == Spec => []SkippedParseIsOwn
  <1>1. IInv => SkippedParseIsOwn
    BY DEF IInv, WorksOnOwnInfo, SkippedParseIsOwn, InfoIsOwn, At
  <1>2. QED
    BY <1>1, Invariance, PTL

-------------------------------------------------------------------------------
(* Without PERBLOCK: calls are independent.                                *)

ReadyFrame(k) ==
  /\ Tpl(k) # "tbe"
  /\ Tpl(k) = "basic" => Own(k.ctx) \notin NotBasic
  /\ k.ub <=> UbOf(k.ctx)
  /\ k.pc = "add" => Own(k.ctx) \notin NoTiling

LEMMA StaysIndependent ==
  ASSUME IndependenceInv, NEW t \in Threads, NEW k \in Frame \cup {Idle},
         frame' = [frame EXCEPT ![t] = k],
         k.pc \in {"get", "calc", "add"} => ReadyFrame(k),
         k.pc = "return" => k.result = Alone(k.ctx)
  PROVE  ReadyForCache' /\ CallsAreIndependent'
  <1>1. frame'[t] = k /\ \A u \in Threads : u # t => frame'[u] = frame[u]
    BY DEF IndependenceInv, IInv, Typed, TypeOK
  <1>2. \A u \in Threads : u # t => Ctx(u)' = Ctx(u) /\ Template(u)' = Template(u)
    BY <1>1 DEF Ctx, Template
  <1>3. Ctx(t)' = k.ctx /\ Template(t)' = Tpl(k)
    BY <1>1 DEF Ctx, Template, Tpl
  <1>4. ReadyForCache'
    BY <1>1, <1>2, <1>3 DEF IndependenceInv, ReadyForCache, ReadyFrame, At
  <1>5. CallsAreIndependent'
    BY <1>1, <1>2, <1>3 DEF IndependenceInv, CallsAreIndependent, At
  <1>6. QED
    BY <1>4, <1>5

(* The kinds of call that are left, and what each is to return.            *)
LEMMA AloneBasic ==
  ASSUME NEW ctx \in Contexts, ctx.op \in {"V3", "Pergroup"}, ctx.valid,
         ctx.op = "V3" => Own(ctx) \notin NotBasic
  PROVE  Alone(ctx) = IF Own(ctx) \in NoTiling THEN Failed
                      ELSE Tiling(ctx.main, ctx.extra, UbOf(ctx))
  <1> DEFINE a == \/ ctx.op = "Pergroup"
                  \/ ctx.op = "V3" /\ <<ctx.main, ctx.extra>> \in UbQuant
             b == UbOf(ctx)
  <1>1. a \in BOOLEAN /\ b \in BOOLEAN /\ (a <=> b)
    BY DEF UbOf, Own
  <1>2. Alone(ctx) = IF Own(ctx) \in NoTiling THEN Failed
                     ELSE Tiling(ctx.main, ctx.extra, a)
    <2>1. ctx.op # "Perblock"
      OBVIOUS
    <2>2. ~(ctx.op = "V3" /\ Own(ctx) \in NotBasic)
      OBVIOUS
    <2>3. QED
      BY <2>1, <2>2 DEF Alone, Own
  <1> HIDE DEF a, b
  <1>3. a = b
    BY <1>1
  <1>4. QED
    BY <1>2, <1>3 DEF b

(* A call at the cache works on its own info, and is to return its tiling. *)
LEMMA AtCache ==
  ASSUME KindsApart(Contexts), IndependenceInv, NEW t \in Threads,
         NEW pc \in {"get", "calc", "add"}, At(t, pc)
  PROVE  /\ frame[t] \in Frame /\ Ctx(t) \in Contexts /\ InfoIsOwn(t) /\ Ctx(t).valid
         /\ Ctx(t).op = "V3" => Own(Ctx(t)) \notin NotBasic
         /\ Alone(Ctx(t)) = IF Own(Ctx(t)) \in NoTiling THEN Failed
                            ELSE Tiling(Ctx(t).main, Ctx(t).extra, UbOf(Ctx(t)))
  <1>1. /\ frame[t] \in Frame /\ ~At(t, "idle") /\ Ctx(t) \in Contexts
        /\ Ctx(t).op \in {"V3", "Perblock", "Pergroup"}
        /\ frame[t].next \in 1 .. 3 /\ frame[t].next <= Len(Templates(Ctx(t).op))
    BY InCall DEF IndependenceInv, IInv, PCs
  <1>2. Ctx(t).op \in {"V3", "Pergroup"}
    BY <1>1 DEF KindsApart
  <1>3. PastParse(t)
    BY DEF PastParse, At
  <1>4. /\ Template(t) # "msd" /\ Template(t) # "tbe" /\ Template(t) # "perblock"
        /\ Template(t) = "basic" => Own(Ctx(t)) \notin NotBasic
    BY <1>1, <1>2, <1>3 DEF IndependenceInv, IInv, Typed, WorksOnOwnInfo, ReadyForCache, At
  <1>5. /\ Template(t) \in {"basic", "pergroup"}
        /\ Ctx(t).op = "V3" => Template(t) = "basic"
    BY <1>1, <1>2, <1>4, TemplateList DEF Template, Ctx
  <1>6. InfoIsOwn(t) /\ Ctx(t).valid
    BY <1>1, <1>3, <1>5 DEF IndependenceInv, IInv, WorksOnOwnInfo
  <1>7. QED
    BY <1>1, <1>2, <1>4, <1>5, <1>6, AloneBasic

LEMMA FinishesWell ==
  ASSUME IndependenceInv, NEW t \in Threads, frame[t] \in Frame, NEW r \in Result,
         Finish(t, r), r = Alone(Ctx(t))
  PROVE  ReadyForCache' /\ CallsAreIndependent'
  <1>1. PICK k \in Frame : /\ frame' = [frame EXCEPT ![t] = k] /\ k.pc = "return"
                           /\ k.ctx = Ctx(t) /\ k.next = frame[t].next /\ k.result = r
    BY Finished
  <1>2. QED
    BY <1>1, StaysIndependent

(* Steps before the cache, which leave it alone and return nothing.        *)
LEMMA StaysEarly ==
  ASSUME IndependenceInv, NEW t \in Threads, NEW k \in Frame \cup {Idle},
         frame' = [frame EXCEPT ![t] = k], k.pc \notin {"get", "calc", "add", "return"}
  PROVE  ReadyForCache' /\ CallsAreIndependent'
  BY StaysIndependent

LEMMA StartIndependent ==
  ASSUME IndependenceInv, NEW t \in Threads,
         \/ \E ctx \in Contexts : Call(t, ctx)
         \/ Construct(t) \/ InsertInfo(t) \/ Return(t)
  PROVE  ReadyForCache' /\ CallsAreIndependent'
  <1>1. ASSUME NEW ctx \in Contexts, Call(t, ctx) PROVE ReadyForCache' /\ CallsAreIndependent'
    <2> DEFINE k == [pc |-> "construct", ctx |-> ctx, next |-> 1, ub |-> FALSE,
                     pad |-> CHOOSE p \in Pads : TRUE, result |-> Failed]
    <2>1. frame' = [frame EXCEPT ![t] = k]
      BY <1>1 DEF Call
    <2>2. k \in Frame /\ k.pc = "construct"
      <3>1. (CHOOSE p \in Pads : TRUE) \in Pads
        BY QbmmAssumption
      <3>2. QED
        BY <3>1, ResultTypes DEF Frame
    <2> HIDE DEF k
    <2>3. QED
      BY <2>1, <2>2, StaysEarly
  <1>2. ASSUME Construct(t) PROVE ReadyForCache' /\ CallsAreIndependent'
    <2>1. frame[t] \in Frame
      BY <1>2, InCall DEF Construct, PCs, IndependenceInv, IInv
    <2>2. PICK pc \in {"parse", "insert"} : frame' = [frame EXCEPT ![t].pc = pc, ![t].ub = FALSE]
      BY <1>2 DEF Construct
    <2> DEFINE k == [frame[t] EXCEPT !.pc = pc, !.ub = FALSE]
    <2>3. k \in Frame /\ k.pc = pc
      BY <2>1 DEF Frame
    <2>4. frame' = [frame EXCEPT ![t] = k]
      BY <2>2
    <2> HIDE DEF k
    <2>5. QED
      BY <2>3, <2>4, StaysEarly
  <1>3. ASSUME InsertInfo(t) PROVE ReadyForCache' /\ CallsAreIndependent'
    <2>1. frame[t] \in Frame /\ Goto(t, "parse")
      BY <1>3, InCall DEF InsertInfo, PCs, IndependenceInv, IInv
    <2>2. QED
      BY <2>1, GoneTo, StaysEarly DEF PCs
  <1>4. ASSUME Return(t) PROVE ReadyForCache' /\ CallsAreIndependent'
    BY <1>4, StaysEarly DEF Return, Idle
  <1>5. QED
    BY <1>1, <1>2, <1>3, <1>4

(* No template of these kinds refuses at the end of its list.              *)
LEMMA IgnoreIndependent ==
  ASSUME IndependenceInv, NEW t \in Threads, NEW pc \in PCs, At(t, pc), Ignore(t),
         Template(t) \in {"msd", "perblock", "basic"}
  PROVE  ReadyForCache' /\ CallsAreIndependent'
  <1>1. /\ frame[t] \in Frame /\ frame[t].next \in 1 .. 3
        /\ frame[t].next <= Len(Templates(Ctx(t).op))
        /\ Ctx(t).op \in {"V3", "Perblock", "Pergroup"}
    BY InCall DEF IndependenceInv, IInv
  <1> DEFINE L == Len(Templates(Ctx(t).op))
  <1>2. frame[t].next < L /\ L <= 3 /\ L \in Nat
    <2>1. \/ L = 2 /\ (frame[t].next = 1 \/ Template(t) = "tbe")
          \/ L = 3 /\ (frame[t].next \in {1, 2} \/ Template(t) = "pergroup")
      BY <1>1, TemplateList DEF Template, Ctx
    <2> HIDE DEF L
    <2>2. QED
      BY <2>1
  <1>3. PICK k \in Frame : frame' = [frame EXCEPT ![t] = k] /\ k.pc = "construct"
    BY <1>1, <1>2, Ignored, ResultTypes
  <1>4. QED
    BY <1>3, StaysEarly

LEMMA ParseIndependent ==
  ASSUME IndependenceInv, NEW t \in Threads,
         ParseBasic(t) \/ ParseTbe(t) \/ ParseMsd(t) \/ ParsePerblock(t)
  PROVE  ReadyForCache' /\ CallsAreIndependent'
  <1>1. At(t, "parse")
    BY DEF ParseBasic, ParseTbe, ParseMsd, ParsePerblock
  <1>2. frame[t] \in Frame
    BY <1>1, InCall DEF PCs, IndependenceInv, IInv
  <1>3. CASE Goto(t, "op")
    BY <1>2, <1>3, GoneTo, StaysEarly DEF PCs
  <1>4. CASE Ignore(t) /\ Template(t) \in {"msd", "perblock"}
    BY <1>1, <1>4, IgnoreIndependent DEF PCs
  <1>5. CASE ~Ctx(t).valid /\ Finish(t, Failed)
    <2>1. Alone(Ctx(t)) = Failed
      BY <1>5 DEF Alone
    <2>2. QED
      BY <1>2, <1>5, <2>1, FinishesWell, ResultTypes
  <1>6. QED
    BY <1>3, <1>4, <1>5 DEF ParseBasic, ParseTbe, ParseOnce, ParseFresh, ParseMsd, ParsePerblock

LEMMA DoOpTilingIndependent ==
  ASSUME KindsApart(Contexts), IndependenceInv, NEW t \in Threads,
         DoOpTilingBasic(t) \/ DoOpTilingV4(t) \/ DoOpTilingTbe(t)
  PROVE  ReadyForCache' /\ CallsAreIndependent'
  <1>1. At(t, "op")
    BY DEF DoOpTilingBasic, DoOpTilingV4, DoOpTilingTbe
  <1>2. /\ frame[t] \in Frame /\ ~At(t, "idle") /\ PastParse(t)
        /\ Ctx(t) \in Contexts /\ Ctx(t).op \in {"V3", "Pergroup"}
        /\ frame[t].next \in 1 .. 3 /\ frame[t].next <= Len(Templates(Ctx(t).op))
    BY <1>1, InCall DEF PCs, IndependenceInv, IInv, PastParse, At, KindsApart
  <1>3. Template(t) = "tbe" \/ Template(t) = "basic" => Ctx(t).op = "V3"
    BY <1>2, TemplateList DEF Template, Ctx
  <1>4. Template(t) \in {"basic", "pergroup"} => InfoIsOwn(t) /\ Ctx(t).valid
    BY <1>2 DEF IndependenceInv, IInv, WorksOnOwnInfo
  <1>5. CASE DoOpTilingBasic(t) /\ Parsed(t) \in NotBasic
    BY <1>1, <1>5, IgnoreIndependent DEF DoOpTilingBasic, PCs
  <1>6. CASE (DoOpTilingBasic(t) /\ Parsed(t) \notin NotBasic) \/ DoOpTilingV4(t)
    <2>1. PICK k \in Frame :
             /\ frame' = [frame EXCEPT ![t] = k] /\ k.pc = "get"
             /\ k.ctx = Ctx(t) /\ k.next = frame[t].next
             /\ k.ub <=> IF Template(t) = "basic" THEN Parsed(t) \in UbQuant
                                                 ELSE Template(t) = "pergroup"
      BY <1>2, <1>6, UbIsSet DEF IndependenceInv
    <2>2. Tpl(k) = Template(t)
      BY <2>1 DEF Tpl, Template, Ctx
    <2>3. Template(t) \in {"basic", "pergroup"}
      BY <1>2, <1>6 DEF DoOpTilingBasic, DoOpTilingV4, IndependenceInv, IInv, WorksOnOwnInfo
    <2>4. CASE Template(t) = "basic"
      <3>1. Own(Ctx(t)) \notin NotBasic /\ Parsed(t) = Own(Ctx(t))
        BY <1>4, <1>6, <2>4, ParsedOwn DEF DoOpTilingV4
      <3>2. k.ub <=> UbOf(k.ctx)
        BY <1>3, <2>1, <2>4, <3>1 DEF UbOf
      <3>3. QED
        BY <2>1, <2>2, <2>4, <3>1, <3>2, StaysIndependent DEF ReadyFrame
    <2>5. CASE Template(t) = "pergroup"
      <3>1. Ctx(t).op = "Pergroup"
        BY <1>2, <2>5, TemplateList DEF Template, Ctx
      <3>2. k.ub <=> UbOf(k.ctx)
        BY <2>1, <2>5, <3>1 DEF UbOf
      <3>3. QED
        BY <2>1, <2>2, <2>5, <3>2, StaysIndependent DEF ReadyFrame
    <2>6. QED
      BY <2>3, <2>4, <2>5
  <1>7. CASE DoOpTilingTbe(t)
    <2>1. Template(t) = "tbe" /\ Finish(t, TbeTiling(info[t].main, info[t].extra))
      BY <1>7 DEF DoOpTilingTbe
    <2>2. InfoIsOwn(t) /\ Ctx(t).valid /\ Own(Ctx(t)) \in NotBasic /\ t \in DOMAIN info
      BY <1>1, <1>2, <2>1 DEF IndependenceInv, IInv, WorksOnOwnInfo, At
    <2>3. Alone(Ctx(t)) = TbeTiling(info[t].main, info[t].extra)
      BY <1>3, <2>1, <2>2 DEF Alone, InfoIsOwn, Own
    <2>4. TbeTiling(info[t].main, info[t].extra) \in Result
      BY <2>2, ResultTypes DEF IndependenceInv, IInv, Typed, TypeOK, Info
    <2>5. QED
      BY <1>2, <2>1, <2>3, <2>4, FinishesWell
  <1>8. QED
    BY <1>5, <1>6, <1>7

LEMMA GetIndependent ==
  ASSUME KindsApart(Contexts), IndependenceInv, NEW t \in Threads, CacheGet(t)
  PROVE  ReadyForCache' /\ CallsAreIndependent'
  <1>1. At(t, "get")
    BY DEF CacheGet
  <1>2. /\ frame[t] \in Frame /\ Ctx(t) \in Contexts /\ InfoIsOwn(t) /\ Ctx(t).valid
        /\ Alone(Ctx(t)) = IF Own(Ctx(t)) \in NoTiling THEN Failed
                           ELSE Tiling(Ctx(t).main, Ctx(t).extra, UbOf(Ctx(t)))
    BY <1>1, AtCache
  <1>3. PICK pad \in Pads :
          \/ /\ Cache!LookUp(HashInput(t, pad)) # Cache!Miss
             /\ Finish(t, Cache!LookUp(HashInput(t, pad))[1].value)
          \/ Compute(t, pad)
    BY DEF CacheGet
  <1>4. CASE Compute(t, pad)
    <2>1. PICK k \in Frame : /\ frame' = [frame EXCEPT ![t] = k] /\ k.pc = "calc"
                             /\ k.ctx = Ctx(t) /\ k.next = frame[t].next
                             /\ k.ub = frame[t].ub
      BY <1>2, <1>4, Computes
    <2>2. Tpl(k) = Template(t)
      BY <2>1 DEF Tpl, Template, Ctx
    <2>3. ReadyFrame(k)
      BY <1>1, <2>1, <2>2 DEF ReadyFrame, IndependenceInv, ReadyForCache, At
    <2>4. QED
      BY <2>1, <2>3, StaysIndependent
  <1>5. CASE /\ Cache!LookUp(HashInput(t, pad)) # Cache!Miss
             /\ Finish(t, Cache!LookUp(HashInput(t, pad))[1].value)
    <2> DEFINE h == HashInput(t, pad)  k == KeyOf[h]
    <2>1. /\ k \in DOMAIN cache /\ cache[k].input = h
          /\ Cache!LookUp(h)[1].value = cache[k].value /\ cache[k].value \in Result
      BY <1>5, Found DEF IndependenceInv, IInv
    <2>2. h[1] = Ctx(t).main /\ h[2] = Ctx(t).extra
      BY <1>2, PairThenOne DEF HashInput, Parsed, InfoIsOwn
    <2>3. Finish(t, cache[k].value)
      BY <1>5, <2>1
    <2> HIDE DEF h, k
    <2>4. PICK ctx \in Contexts :
             /\ Cacheable(ctx)
             /\ cache[k].input[1] = ctx.main /\ cache[k].input[2] = ctx.extra
             /\ cache[k].value = Tiling(ctx.main, ctx.extra, UbOf(ctx))
      BY <2>1 DEF IndependenceInv, CacheOfOwnTilings
    <2>5. ctx.main = Ctx(t).main /\ ctx.extra = Ctx(t).extra /\ Own(Ctx(t)) \notin NoTiling
      BY <2>1, <2>2, <2>4 DEF Cacheable, Own
    <2>6. UbOf(ctx) = UbOf(Ctx(t))
      <3> DEFINE a == UbOf(ctx)  b == UbOf(Ctx(t))
      <3>1. a \in BOOLEAN /\ b \in BOOLEAN
        BY DEF UbOf
      <3>2. a <=> b
        BY <1>2, <2>5 DEF KindsApart
      <3> HIDE DEF a, b
      <3>3. a = b
        BY <3>1, <3>2
      <3>4. QED
        BY <3>3 DEF a, b
    <2>7. cache[k].value = Alone(Ctx(t))
      BY <1>2, <2>4, <2>5, <2>6
    <2>8. QED
      BY <1>2, <2>1, <2>3, <2>7, FinishesWell
  <1>6. QED
    BY <1>3, <1>4, <1>5

LEMMA CalculateIndependent ==
  ASSUME KindsApart(Contexts), IndependenceInv, NEW t \in Threads, Calculate(t)
  PROVE  ReadyForCache' /\ CallsAreIndependent'
  <1>1. At(t, "calc")
    BY DEF Calculate
  <1>2. /\ frame[t] \in Frame /\ InfoIsOwn(t)
        /\ Alone(Ctx(t)) = IF Own(Ctx(t)) \in NoTiling THEN Failed
                           ELSE Tiling(Ctx(t).main, Ctx(t).extra, UbOf(Ctx(t)))
    BY <1>1, AtCache
  <1>3. CASE Parsed(t) \in NoTiling
    <2>1. Finish(t, Failed) /\ Alone(Ctx(t)) = Failed
      BY <1>2, <1>3, ParsedOwn DEF Calculate
    <2>2. QED
      BY <1>2, <2>1, FinishesWell, ResultTypes
  <1>4. CASE Parsed(t) \notin NoTiling
    <2>1. PICK k \in Frame : /\ frame' = [frame EXCEPT ![t] = k] /\ k.pc = "add"
                             /\ k.ctx = Ctx(t) /\ k.next = frame[t].next
                             /\ k.ub = frame[t].ub
      BY <1>2, <1>4, GoneTo DEF Calculate, PCs
    <2>2. Tpl(k) = Template(t)
      BY <2>1 DEF Tpl, Template, Ctx
    <2>3. ReadyFrame(k)
      BY <1>1, <1>2, <1>4, <2>1, <2>2, ParsedOwn
         DEF ReadyFrame, IndependenceInv, ReadyForCache, At
    <2>4. QED
      BY <2>1, <2>3, StaysIndependent
  <1>5. QED
    BY <1>3, <1>4

LEMMA AddIndependent ==
  ASSUME KindsApart(Contexts), IndependenceInv, NEW t \in Threads, CacheAdd(t)
  PROVE  CacheOfOwnTilings' /\ ReadyForCache' /\ CallsAreIndependent'
  <1>1. At(t, "add") /\ Cache!StoreNew(MyItem(t)) /\ Finish(t, MyTiling(t))
    BY DEF CacheAdd
  <1>2. /\ frame[t] \in Frame /\ Ctx(t) \in Contexts /\ InfoIsOwn(t) /\ Ctx(t).valid
        /\ Ctx(t).op = "V3" => Own(Ctx(t)) \notin NotBasic
        /\ Own(Ctx(t)) \notin NoTiling
        /\ Alone(Ctx(t)) = Tiling(Ctx(t).main, Ctx(t).extra, UbOf(Ctx(t)))
    BY <1>1, AtCache DEF IndependenceInv, ReadyForCache, At
  <1>3. frame[t].ub = UbOf(Ctx(t))
    <2> DEFINE a == frame[t].ub  b == UbOf(Ctx(t))
    <2>1. a \in BOOLEAN /\ b \in BOOLEAN
      BY <1>2 DEF Frame, UbOf
    <2>2. a <=> b
      BY <1>1 DEF IndependenceInv, ReadyForCache, At
    <2> HIDE DEF a, b
    <2>3. a = b
      BY <2>1, <2>2
    <2>4. QED
      BY <2>3 DEF a, b
  <1>4. MyTiling(t) = Tiling(Ctx(t).main, Ctx(t).extra, UbOf(Ctx(t)))
    BY <1>2, <1>3 DEF MyTiling, InfoIsOwn
  <1>5. ReadyForCache' /\ CallsAreIndependent'
    <2>1. Ctx(t).main \in Mains /\ Ctx(t).extra \in Extras /\ UbOf(Ctx(t)) \in BOOLEAN
      BY <1>2, QbmmAssumption DEF Context, UbOf
    <2>2. MyTiling(t) \in Result
      BY <1>4, <2>1, ResultTypes
    <2>3. QED
      BY <1>1, <1>2, <1>4, <2>2, FinishesWell
  <1>6. CacheOfOwnTilings'
    <2>1. /\ MyItem(t).value = MyTiling(t)
          /\ MyItem(t).input[1] = Ctx(t).main /\ MyItem(t).input[2] = Ctx(t).extra
      BY <1>2, PairThenOne DEF MyItem, HashInput, Parsed, InfoIsOwn
    <2>2. Cacheable(Ctx(t))
      BY <1>2 DEF Cacheable
    <2>3. CASE cache' = cache
      BY <2>3 DEF IndependenceInv, CacheOfOwnTilings
    <2>4. CASE /\ DOMAIN cache' = DOMAIN cache \cup {KeyOf[MyItem(t).input]}
               /\ cache'[KeyOf[MyItem(t).input]] = MyItem(t)
               /\ \A k \in DOMAIN cache : cache'[k] = cache[k]
      <3>1. ASSUME NEW k \in DOMAIN cache'
            PROVE  \E ctx \in Contexts :
                     /\ Cacheable(ctx)
                     /\ cache'[k].input[1] = ctx.main /\ cache'[k].input[2] = ctx.extra
                     /\ cache'[k].value = Tiling(ctx.main, ctx.extra, UbOf(ctx))
        <4>1. CASE k \in DOMAIN cache
          BY <2>4, <4>1 DEF IndependenceInv, CacheOfOwnTilings
        <4>2. CASE k \notin DOMAIN cache
          <5>1. cache'[k] = MyItem(t)
            BY <2>4, <4>2
          <5>2. QED
            BY <1>2, <1>4, <2>1, <2>2, <5>1
        <4>3. QED
          BY <4>1, <4>2
      <3>2. QED
        BY <3>1 DEF CacheOfOwnTilings
    <2>5. QED
      BY <1>1, <2>3, <2>4, Stored DEF IndependenceInv, IInv
  <1>7. QED
    BY <1>5, <1>6

LEMMA NextIndependent ==
  ASSUME KindsApart(Contexts), IndependenceInv, [Next]_vars
  PROVE  IndependenceInv'
  <1>1. IInv'
    BY NextIInv DEF IndependenceInv
  <1>2. cache' = cache => CacheOfOwnTilings'
    BY DEF IndependenceInv, CacheOfOwnTilings
  <1>3. ASSUME NEW t \in Threads, Proceed(t) \/ \E ctx \in Contexts : Call(t, ctx)
        PROVE  CacheOfOwnTilings' /\ ReadyForCache' /\ CallsAreIndependent'
    <2>1. CASE \/ \E ctx \in Contexts : Call(t, ctx)
               \/ Construct(t) \/ InsertInfo(t) \/ Return(t)
      BY <1>2, <2>1, StartIndependent DEF Call, Construct, InsertInfo, Return
    <2>2. CASE ParseBasic(t) \/ ParseTbe(t) \/ ParseMsd(t) \/ ParsePerblock(t)
      BY <1>2, <2>2, ParseIndependent DEF ParseBasic, ParseTbe, ParseMsd, ParsePerblock
    <2>3. CASE DoOpTilingBasic(t) \/ DoOpTilingV4(t) \/ DoOpTilingTbe(t)
      BY <1>2, <2>3, DoOpTilingIndependent DEF DoOpTilingBasic, DoOpTilingV4, DoOpTilingTbe
    <2>4. CASE CacheGet(t)
      BY <1>2, <2>4, GetIndependent DEF CacheGet
    <2>5. CASE Calculate(t)
      BY <1>2, <2>5, CalculateIndependent DEF Calculate
    <2>6. CASE CacheAdd(t)
      BY <2>6, AddIndependent
    <2>7. QED
      BY <1>3, <2>1, <2>2, <2>3, <2>4, <2>5, <2>6 DEF Proceed
  <1>4. CASE UNCHANGED vars
    <2>1. frame' = frame /\ cache' = cache
      BY <1>4 DEF vars
    <2>2. \A t \in Threads : Ctx(t)' = Ctx(t) /\ Template(t)' = Template(t)
      BY <2>1 DEF Ctx, Template
    <2>3. ReadyForCache'
      BY <2>1, <2>2 DEF IndependenceInv, ReadyForCache, At
    <2>4. CallsAreIndependent'
      BY <2>1, <2>2 DEF IndependenceInv, CallsAreIndependent, At
    <2>5. QED
      BY <1>1, <1>2, <2>1, <2>3, <2>4 DEF IndependenceInv
  <1>5. QED
    BY <1>1, <1>3, <1>4 DEF Next, IndependenceInv

(* As long as no PERBLOCK call takes part and no two kinds share a hash    *)
(* input, a call returns the tiling its own context has in a fresh         *)
(* process, whatever thread it runs on, whatever was tiled before, and     *)
(* however hashes collide.                                                 *)
THEOREM Independence == KindsApart(Contexts) => (Spec => []CallsAreIndependent)
  <1> SUFFICES ASSUME KindsApart(Contexts) PROVE Spec => []CallsAreIndependent
    OBVIOUS
  <1>1. Init => IndependenceInv
    <2>1. ASSUME Init PROVE \A t \in Threads : frame[t] = Idle
      BY <2>1 DEF Init
    <2>2. ASSUME Init PROVE CacheOfOwnTilings
      BY <2>2 DEF Init, CacheOfOwnTilings
    <2>3. QED
      BY <2>1, <2>2, InitIInv
         DEF IndependenceInv, ReadyForCache, CallsAreIndependent, At, Idle
  <1>2. IndependenceInv /\ [Next]_vars => IndependenceInv'
    BY NextIndependent
  <1>3. IndependenceInv => CallsAreIndependent
    BY DEF IndependenceInv
  <1>4. QED
    BY <1>1, <1>2, <1>3, PTL DEF Spec
===============================================================================
