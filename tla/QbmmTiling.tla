------------------------------ MODULE QbmmTiling -------------------------------
(***************************************************************************)
(* Tiling of the quantised batch matmul operators on the host: the         *)
(* template dispatch of TilingRegistry::DoTilingImpl, the per-thread       *)
(* QuantBatchMatmulInfo handed out by QuantBatchMatmulInfoFactory, and the *)
(* cache of basic tilings, as host threads use them concurrently for       *)
(* QuantBatchMatmulV3 (templates 0 and 1) and QuantBatchMatmulV4 (MSD,     *)
(* PERBLOCK, PERGROUP), which share the info and the cache.                *)
(*                                                                         *)
(* The critical sections of the factory and of the cache are single steps  *)
(* here: RWLock and TilingCache show that they behave so.                  *)
(***************************************************************************)
EXTENDS Naturals, Sequences, FiniteSets

CONSTANTS
  Threads,    \* pthread ids; an entry outlives its thread, so a new thread
              \* with a reused id is a later call of the same member
  Mains,      \* shapes, data types, transposes: what every template parses
  Extras,     \* bias, batch, formats, isPertoken...: what PERBLOCK does not parse
  Default,    \* Extras as QuantBatchMatmulInfo::Reset() leaves them
  NoMain,     \* Mains as Reset() leaves them
  Contexts,   \* the gert::TilingContexts the framework passes
  NotBasic,   \* <<main, extra>> that CheckUseBasicTiling refuses
  NoTiling,   \* <<main, extra>> for which CalcL0Tiling or CalcL1Tiling fails
  UbQuant,    \* <<main, extra>> with cDtype BF16 or isPertoken
  Pads,       \* contents of the last 4 bytes of a QuantBatchMatmulV3HashInput
  KeyOf,      \* MurmurHash of a hash input
  Cap         \* kMaxTilingCacheEntryNum

Context == [op : {"V3", "Perblock", "Pergroup"}, main : Mains, extra : Extras,
            valid : BOOLEAN]

ASSUME QbmmAssumption ==
  /\ NotBasic \subseteq Mains \X Extras /\ NoTiling \subseteq Mains \X Extras
  /\ Contexts \subseteq Context
  /\ Default \in Extras
  /\ NoMain \notin Mains
  /\ Pads # {}
  /\ Cap \in Nat

VARIABLES
  info,     \* g_quantBatchMatmulInfoFactory: inst_, thread id -> QuantBatchMatmulInfo
  cache,    \* tilingHashCache: hash key -> item
  frame     \* each thread's tiling call

vars == <<info, cache, frame>>

(***************************************************************************)
(* A hash input covers the parsed info, but not isUbQuant_ of the template.*)
(* Its members are 140 bytes long and it is aligned to 8: the constructor  *)
(* leaves 4 bytes of padding as they are, MurmurHash and memcmp read them. *)
(***************************************************************************)
Inputs == (Mains \cup {NoMain}) \X Extras \X Pads
Tiling(main, extra, ub) == <<"basic", main, extra, ub>>
TbeTiling(main, extra) == <<"tbe", main, extra>>
Failed == <<"failed">>

Cache == INSTANCE AbstractTilingCache
           WITH map <- cache, call <- frame, Inputs <- Inputs,
                Keys <- {KeyOf[i] : i \in Inputs},
                Values <- {Tiling(i[1], i[2], ub) : i \in Inputs, ub \in BOOLEAN}

(* The registerList each TilingFunc passes to DoTilingImpl.                *)
Templates(op) == IF op = "V3" THEN <<"basic", "tbe">>
                              ELSE <<"msd", "perblock", "pergroup">>

Fresh == [initFlag |-> FALSE, main |-> NoMain, extra |-> Default]
Idle == [pc |-> "idle"]

Info == [initFlag : BOOLEAN, main : Mains \cup {NoMain}, extra : Extras]
Result == {Failed}
            \cup {Tiling(i[1], i[2], ub) : i \in Inputs, ub \in BOOLEAN}
            \cup {TbeTiling(i[1], i[2]) : i \in Inputs}
Frame == [pc : {"construct", "insert", "parse", "op", "get", "calc", "add", "return"},
          ctx : Contexts, next : 1 .. 3, ub : BOOLEAN, pad : Pads, result : Result]

TypeOK ==
  /\ DOMAIN info \subseteq Threads
  /\ \A t \in DOMAIN info : info[t] \in Info
  /\ \A k \in DOMAIN cache : cache[k].input \in Inputs /\ KeyOf[cache[k].input] = k
  /\ Cardinality(DOMAIN cache) <= Cap
  /\ frame \in [Threads -> Frame \cup {Idle}]

Init ==
  /\ info = [t \in {} |-> Fresh]
  /\ cache = [k \in {} |-> {}]
  /\ frame = [t \in Threads |-> Idle]

-------------------------------------------------------------------------------
Template(t) == Templates(frame[t].ctx.op)[frame[t].next]
Ctx(t) == frame[t].ctx
Parsed(t) == <<info[t].main, info[t].extra>>
HashInput(t, pad) == Parsed(t) \o <<pad>>

At(t, pc) == frame[t].pc = pc
Goto(t, pc) == frame' = [frame EXCEPT ![t].pc = pc]
Finish(t, r) == frame' = [frame EXCEPT ![t].pc = "return", ![t].result = r]

\* broken variant: a refusal tries the same template again
IgnoreSame(t) ==
  IF frame[t].next < Len(Templates(Ctx(t).op)) THEN Goto(t, "construct")
                                               ELSE Finish(t, Failed)

(* GRAPH_PARAM_INVALID: the next template of the list, or failure.         *)
Ignore(t) ==
  IF frame[t].next < Len(Templates(Ctx(t).op))
    THEN frame' = [frame EXCEPT ![t].pc = "construct", ![t].next = @ + 1]
    ELSE Finish(t, Failed)

Call(t, ctx) ==
  /\ At(t, "idle")
  /\ frame' = [frame EXCEPT ![t] = [pc |-> "construct", ctx |-> ctx, next |-> 1,
                                    ub |-> FALSE, pad |-> CHOOSE p \in Pads : TRUE,
                                    result |-> Failed]]
  /\ UNCHANGED <<info, cache>>

(* The template's constructor: InfoFactory::Get() finds the thread's entry *)
(* under the read lock, or comes back with the write lock.  MSD keeps an   *)
(* info of its own.                                                        *)
Construct(t) ==
  /\ At(t, "construct")
  /\ frame' = [frame EXCEPT
                 ![t].pc = IF Template(t) = "msd" \/ t \in DOMAIN info THEN "parse"
                                                                       ELSE "insert",
                 ![t].ub = FALSE]
  /\ UNCHANGED <<info, cache>>

InsertInfo(t) ==
  /\ At(t, "insert")
  /\ info' = [u \in DOMAIN info \cup {t} |-> IF u \in DOMAIN info THEN info[u] ELSE Fresh]
  /\ Goto(t, "parse")
  /\ UNCHANGED cache

SetInfo(t, i) == info' = [info EXCEPT ![t] = i]

(* QuantBatchMatmulV3TilingBase::GetShapeAttrsInfo on a reset info: parse  *)
(* the context and set initFlag, or fail with any part of it parsed.       *)
ParseFresh(t) ==
  \/ /\ Ctx(t).valid
     /\ SetInfo(t, [initFlag |-> TRUE, main |-> Ctx(t).main, extra |-> Ctx(t).extra])
     /\ Goto(t, "op")
  \/ /\ ~Ctx(t).valid
     /\ \E m \in {NoMain, Ctx(t).main}, e \in {Default, Ctx(t).extra} :
           SetInfo(t, [initFlag |-> FALSE, main |-> m, extra |-> e])
     /\ Finish(t, Failed)

(* The same without the reset: a set initFlag spares the parse.            *)
ParseOnce(t) ==
  IF info[t].initFlag THEN Goto(t, "op") /\ UNCHANGED info ELSE ParseFresh(t)

\* broken variant: the basic template trusts the initFlag it finds
ParseBasicKept(t) ==
  /\ At(t, "parse") /\ Template(t) \in {"basic", "pergroup"}
  /\ ParseOnce(t)
  /\ UNCHANGED cache

(* QuantBatchMatmulV3BasicTiling::GetShapeAttrsInfo, also PERGROUP's.      *)
ParseBasic(t) ==
  /\ At(t, "parse") /\ Template(t) \in {"basic", "pergroup"}
  /\ ParseFresh(t)
  /\ UNCHANGED cache

(* QuantBatchMatmulV3Tiling, reached when the basic template has refused.  *)
ParseTbe(t) ==
  /\ At(t, "parse") /\ Template(t) = "tbe"
  /\ ParseOnce(t)
  /\ UNCHANGED cache

(* QuantBatchMatmulV4MsdTiling refuses the contexts considered here.       *)
ParseMsd(t) ==
  /\ At(t, "parse") /\ Template(t) = "msd"
  /\ Ignore(t)
  /\ UNCHANGED <<info, cache>>

(* QuantBatchMatmulV4PerblockTiling::GetShapeAttrsInfo: it overwrites what *)
(* it parses and leaves the rest, initFlag included, as it finds it.  It   *)
(* refuses a context of another kind before or after it has written.       *)
ParsePerblock(t) ==
  LET mine == Ctx(t).op = "Perblock" /\ Ctx(t).valid IN
  /\ At(t, "parse") /\ Template(t) = "perblock"
  /\ \E m \in {Ctx(t).main} \cup (IF mine THEN {} ELSE {info[t].main}) :
        SetInfo(t, [info[t] EXCEPT !.main = m])
  /\ IF mine THEN Goto(t, "op") ELSE Ignore(t)
  /\ UNCHANGED cache

(* DoOpTiling up to DoBasicTiling, of the templates that have one.         *)
DoOpTilingBasic(t) ==
  /\ At(t, "op") /\ Template(t) = "basic"
  /\ IF Parsed(t) \in NotBasic
       THEN Ignore(t)
       ELSE frame' = [frame EXCEPT ![t].pc = "get", ![t].ub = Parsed(t) \in UbQuant]
  /\ UNCHANGED <<info, cache>>

DoOpTilingV4(t) ==
  /\ At(t, "op") /\ Template(t) \in {"perblock", "pergroup"}
  /\ frame' = [frame EXCEPT ![t].pc = "get", ![t].ub = Template(t) = "pergroup"]
  /\ UNCHANGED <<info, cache>>

(* QuantBatchMatmulV3Tiling::DoOpTiling with GetTbeTiling.                 *)
DoOpTilingTbe(t) ==
  /\ At(t, "op") /\ Template(t) = "tbe"
  /\ Finish(t, TbeTiling(info[t].main, info[t].extra))
  /\ UNCHANGED <<info, cache>>

Compute(t, pad) == frame' = [frame EXCEPT ![t].pc = "calc", ![t].pad = pad]

\* broken variant: a hit on the hash key is a hit
CacheGetByHash(t) ==
  /\ At(t, "get")
  /\ \E pad \in Pads :
        IF KeyOf[HashInput(t, pad)] \in DOMAIN cache
          THEN Finish(t, cache[KeyOf[HashInput(t, pad)]].value)
          ELSE Compute(t, pad)
  /\ UNCHANGED <<info, cache>>

(* DoBasicTiling: the cached tiling, or a computation that may fail, with  *)
(* other threads at work between the miss and the Add.  The hash input is  *)
(* on the stack, with whatever is there for its padding.                   *)
CacheGet(t) ==
  /\ At(t, "get")
  /\ \E pad \in Pads :
        LET found == Cache!LookUp(HashInput(t, pad)) IN
        IF found # Cache!Miss THEN Finish(t, found[1].value) ELSE Compute(t, pad)
  /\ UNCHANGED <<info, cache>>

Calculate(t) ==
  /\ At(t, "calc")
  /\ IF Parsed(t) \in NoTiling THEN Finish(t, Failed) ELSE Goto(t, "add")
  /\ UNCHANGED <<info, cache>>

MyTiling(t) == Tiling(info[t].main, info[t].extra, frame[t].ub)
MyItem(t) == [input |-> HashInput(t, frame[t].pad), value |-> MyTiling(t)]

\* broken variant: an Add that knows no capacity
CacheAddUnbounded(t) ==
  /\ At(t, "add")
  /\ Cache!Store(KeyOf[MyItem(t).input], MyItem(t))
  /\ Finish(t, MyTiling(t))
  /\ UNCHANGED info

CacheAdd(t) ==
  /\ At(t, "add")
  /\ Cache!StoreNew(MyItem(t))
  /\ Finish(t, MyTiling(t))
  /\ UNCHANGED info

Return(t) ==
  /\ At(t, "return")
  /\ frame' = [frame EXCEPT ![t] = Idle]
  /\ UNCHANGED <<info, cache>>

Proceed(t) ==
  \/ Construct(t) \/ InsertInfo(t)
  \/ ParseBasic(t) \/ ParseTbe(t) \/ ParseMsd(t) \/ ParsePerblock(t)
  \/ DoOpTilingBasic(t) \/ DoOpTilingV4(t) \/ DoOpTilingTbe(t)
  \/ CacheGet(t) \/ Calculate(t) \/ CacheAdd(t)
  \/ Return(t)

Next == \E t \in Threads : Proceed(t) \/ \E ctx \in Contexts : Call(t, ctx)

Spec == Init /\ [][Next]_vars

FairSpec == Spec /\ \A t \in Threads : WF_vars(Proceed(t))

-------------------------------------------------------------------------------
(* What a call yields in a process that has tiled nothing before.          *)
Alone(ctx) ==
  LET extra == IF ctx.op = "Perblock" THEN Default ELSE ctx.extra
      parsed == <<ctx.main, extra>>
      ub == ctx.op = "Pergroup" \/ (ctx.op = "V3" /\ parsed \in UbQuant)
  IN  IF ~ctx.valid THEN Failed
      ELSE IF ctx.op = "V3" /\ parsed \in NotBasic THEN TbeTiling(ctx.main, extra)
      ELSE IF parsed \in NoTiling THEN Failed
      ELSE Tiling(ctx.main, extra, ub)

(* The tiling of an operator is a function of its own context: neither     *)
(* what the thread tiled before (the info it reuses), nor what other       *)
(* threads tile meanwhile (the shared cache) shows in the result.          *)
CallsAreIndependent ==
  \A t \in Threads : At(t, "return") => frame[t].result = Alone(Ctx(t))

(* A template that finds initFlag set and skips the parse works on the     *)
(* info of this very call, parsed by the template before it.               *)
SkippedParseIsOwn ==
  \A t \in Threads :
     (At(t, "op") /\ Template(t) = "tbe")
        => info[t].main = Ctx(t).main /\ info[t].extra = Ctx(t).extra

(***************************************************************************)
(* The inductive invariant behind the theorems of QbmmTiling_proofs: which *)
(* template a call has come to, whose info it works on there, and whose    *)
(* tilings the cache holds.                                                *)
(***************************************************************************)
Working(t) == frame[t].pc \in {"parse", "op", "get", "calc", "add"}
PastParse(t) == frame[t].pc \in {"op", "get", "calc", "add"}
InfoIsOwn(t) == info[t].main = Ctx(t).main /\ info[t].extra = Ctx(t).extra
Own(ctx) == <<ctx.main, ctx.extra>>

Typed ==
  /\ TypeOK
  /\ IsFiniteSet(DOMAIN cache)
  /\ \A k \in DOMAIN cache :
        cache[k].value \in {Tiling(i[1], i[2], ub) : i \in Inputs, ub \in BOOLEAN}
  /\ \A t \in Threads : ~At(t, "idle") =>
        /\ frame[t].next <= Len(Templates(Ctx(t).op))
        /\ (Working(t) /\ Template(t) # "msd") => t \in DOMAIN info
        /\ PastParse(t) => Template(t) # "msd"

WorksOnOwnInfo ==
  \A t \in Threads : ~At(t, "idle") =>
     /\ (PastParse(t) /\ Template(t) \in {"basic", "pergroup"}) => InfoIsOwn(t) /\ Ctx(t).valid
     /\ (PastParse(t) /\ Template(t) = "perblock") => Ctx(t).op = "Perblock"
     /\ (Template(t) = "tbe" /\ ~At(t, "return"))
           => /\ t \in DOMAIN info /\ InfoIsOwn(t)
              /\ Ctx(t).valid /\ Own(Ctx(t)) \in NotBasic

UbOf(ctx) == ctx.op = "Pergroup" \/ Own(ctx) \in UbQuant

(* No call that leaves the info of another kind behind, and none that      *)
(* shares its hash input with a call that is quantised in UB otherwise.    *)
KindsApart(contexts) ==
  /\ \A ctx \in contexts : ctx.op # "Perblock"
  /\ \A ctx, other \in contexts :
        (ctx.main = other.main /\ ctx.extra = other.extra) => (UbOf(ctx) <=> UbOf(other))

(* The context that reached the cache, and the tiling it stores there.     *)
Cacheable(ctx) ==
  /\ ctx \in Contexts /\ ctx.valid
  /\ Own(ctx) \notin NoTiling
  /\ ctx.op = "V3" => Own(ctx) \notin NotBasic

CacheOfOwnTilings ==
  \A k \in DOMAIN cache : \E ctx \in Contexts :
     /\ Cacheable(ctx)
     /\ cache[k].input[1] = ctx.main /\ cache[k].input[2] = ctx.extra
     /\ cache[k].value = Tiling(ctx.main, ctx.extra, UbOf(ctx))

ReadyForCache ==
  \A t \in Threads : frame[t].pc \in {"get", "calc", "add"} =>
     /\ Template(t) # "tbe"
     /\ Template(t) = "basic" => Own(Ctx(t)) \notin NotBasic
     /\ frame[t].ub <=> UbOf(Ctx(t))
     /\ At(t, "add") => Own(Ctx(t)) \notin NoTiling

IInv == Typed /\ WorksOnOwnInfo
IndependenceInv == IInv /\ CacheOfOwnTilings /\ ReadyForCache /\ CallsAreIndependent

(* The cache spares work: no thread computes a tiling while the cache      *)
(* holds one that was computed for the very same parsed info.              *)
CachedTilingsAreFound ==
  [][\A t \in Threads :
        (At(t, "get") /\ frame'[t].pc = "calc")
           => \A k \in DOMAIN cache : SubSeq(cache[k].input, 1, 2) # Parsed(t)]_vars

(* Whatever templates refuse or fail on the way, a tiling call returns.    *)
CallsReturn == \A t \in Threads : ~At(t, "idle") ~> At(t, "idle")
===============================================================================
