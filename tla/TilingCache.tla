------------------------------ MODULE TilingCache ------------------------------
(***************************************************************************)
(* The process-wide cache of computed tilings: class TilingCache in        *)
(* matmul/common/op_host/op_tiling/tiling_cache.h, with the RWLock it is   *)
(* guarded by.  Each call takes the lock, looks the hash key up, leaves by *)
(* an early return or goes on to copy or store the item, and unlocks; the  *)
(* lookup and what follows it are separate steps, so that what the lock    *)
(* has to prevent can be seen.                                             *)
(***************************************************************************)
EXTENDS Integers, FiniteSets, Functions

CONSTANTS
  Threads,    \* host threads that run tiling functions
  Inputs,     \* hash inputs: what the tiled shape, formats and types add up to
  Keys,       \* 32-bit MurmurHash values
  KeyOf,      \* the hash of an input; two inputs may have the same one
  Values,     \* tilings
  Ops,        \* the operations the callers use
  Cap         \* kMaxTilingCacheEntryNum

ASSUME ThreadsFinite == IsFiniteSet(Threads)
ASSUME CacheAssumption ==
  /\ KeyOf \in [Inputs -> Keys]
  /\ Ops \subseteq {"Get", "Add", "Replace"}
  /\ Cap \in Nat

VARIABLES
  status, waitingReaders, waitingWriters, at,   \* rwlock_, see RWLock
  map,                                          \* map_
  size,                                         \* size_
  call                                          \* each thread's call and how far it is

lockVars == <<status, waitingReaders, waitingWriters, at>>
vars == <<status, waitingReaders, waitingWriters, at, map, size, call>>

Lock == INSTANCE RWLock

(***************************************************************************)
(* An item carries the input it was computed for.  A call is a record: the *)
(* operation, its item (for Get only the input counts), the step it is at  *)
(* and, for Get, what it returns.                                          *)
(***************************************************************************)
Item == [input : Inputs, value : Values]
Miss == << >>          \* Get returned false
Hit(item) == <<item>>  \* Get returned true and this item

NoCall == [op |-> "none", step |-> "out"]
Call == [op : Ops, item : Item, result : {Miss} \cup {Hit(i) : i \in Item},
         step : {"lock", "access", "insert", "unlock"}]

MyKey(t) == KeyOf[call[t].item.input]

(* A thread is past its lock call.                                         *)
InSection(t) == at[t] \in {"reading", "writing"}

CacheTypeOK ==
  /\ DOMAIN map \subseteq Keys
  /\ map \in [DOMAIN map -> Item]
  /\ size \in 0 .. Cap
  /\ call \in [Threads -> Call \cup {NoCall}]

TypeOK == Lock!TypeOK /\ CacheTypeOK

Init ==
  /\ Lock!Init
  /\ map = [k \in {} |-> Miss]
  /\ size = 0
  /\ call = [t \in Threads |-> NoCall]

-------------------------------------------------------------------------------
Goto(t, step)    == call' = [call EXCEPT ![t].step = step]
Answer(t, r, step) == call' = [call EXCEPT ![t].step = step, ![t].result = r]

Invoke(t, op, item) ==
  /\ call[t] = NoCall
  /\ call' = [call EXCEPT ![t] =
                [op |-> op, item |-> item, result |-> Miss, step |-> "lock"]]
  /\ UNCHANGED <<lockVars, map, size>>

\* broken variant: Add and Replace share the lock like readers
AcquireShared(t) ==
  /\ call[t].step = "lock"
  /\ Lock!RdlockEnter(t) \/ Lock!RdlockRetry(t)
  /\ UNCHANGED <<map, size, call>>

(* rwlock_.rdlock() of Get, rwlock_.wrlock() of Add and Replace.           *)
Acquire(t) ==
  /\ call[t].step = "lock"
  /\ IF call[t].op = "Get" THEN Lock!RdlockEnter(t) \/ Lock!RdlockRetry(t)
                           ELSE Lock!WrlockEnter(t) \/ Lock!WrlockRetry(t)
  /\ UNCHANGED <<map, size, call>>

SpuriousWakeup(t) == Lock!SpuriousWakeup(t) /\ UNCHANGED <<map, size, call>>

\* broken variant: a hash hit is taken for a hit
GetFindByHash(t) ==
  /\ call[t].op = "Get" /\ call[t].step = "lock" /\ InSection(t)
  /\ \/ MyKey(t) \notin DOMAIN map /\ Answer(t, Miss, "unlock")
     \/ MyKey(t) \in DOMAIN map /\ Goto(t, "access")
  /\ UNCHANGED <<lockVars, map, size>>

(* Get: find the key, compare the inputs.                                  *)
GetFind(t) ==
  /\ call[t].op = "Get" /\ call[t].step = "lock" /\ InSection(t)
  /\ \/ /\ MyKey(t) \notin DOMAIN map
        /\ Answer(t, Miss, "unlock")
     \/ /\ MyKey(t) \in DOMAIN map
        /\ map[MyKey(t)].input # call[t].item.input
        /\ Answer(t, Miss, "unlock")
     \/ /\ MyKey(t) \in DOMAIN map
        /\ map[MyKey(t)].input = call[t].item.input
        /\ Goto(t, "access")
  /\ UNCHANGED <<lockVars, map, size>>

(* Get: value = iter->second.                                              *)
GetCopy(t) ==
  /\ call[t].op = "Get" /\ call[t].step = "access"
  /\ Answer(t, Hit(map[MyKey(t)]), "unlock")
  /\ UNCHANGED <<lockVars, map, size>>

Full == size >= Cap

Store(k, item) ==
  map' = [j \in DOMAIN map \cup {k} |-> IF j = k THEN item ELSE map[j]]

\* broken variant: an entry that is present is stored and counted again
AddFindUnchecked(t) ==
  /\ call[t].op = "Add" /\ call[t].step = "lock" /\ InSection(t)
  /\ Goto(t, IF Full THEN "unlock" ELSE "access")
  /\ UNCHANGED <<lockVars, map, size>>

\* broken variant: without either early return
AddFindUnguarded(t) ==
  /\ call[t].op = "Add" /\ call[t].step = "lock" /\ InSection(t)
  /\ Goto(t, "access")
  /\ UNCHANGED <<lockVars, map, size>>

\* broken variant: the early return of a full cache forgets to unlock
AddFindLeaksLock(t) ==
  /\ call[t].op = "Add" /\ call[t].step = "lock" /\ InSection(t)
  /\ IF Full THEN call' = [call EXCEPT ![t] = NoCall]
             ELSE Goto(t, IF MyKey(t) \in DOMAIN map THEN "unlock" ELSE "access")
  /\ UNCHANGED <<lockVars, map, size>>

(* Add: give up when the cache is full or the key is taken.                *)
AddFind(t) ==
  /\ call[t].op = "Add" /\ call[t].step = "lock" /\ InSection(t)
  /\ Goto(t, IF Full \/ MyKey(t) \in DOMAIN map THEN "unlock" ELSE "access")
  /\ UNCHANGED <<lockVars, map, size>>

(* Add: emplace and count.                                                 *)
AddStore(t) ==
  /\ call[t].op = "Add" /\ call[t].step = "access"
  /\ Store(MyKey(t), call[t].item)
  /\ size' = size + 1
  /\ Goto(t, "unlock")
  /\ UNCHANGED lockVars

(* Replace: give up when the cache is full, count a key that is new.       *)
ReplaceFind(t) ==
  /\ call[t].op = "Replace" /\ call[t].step = "lock" /\ InSection(t)
  /\ IF Full
       THEN Goto(t, "unlock") /\ UNCHANGED size
       ELSE /\ Goto(t, "access")
            /\ size' = size + (IF MyKey(t) \in DOMAIN map THEN 0 ELSE 1)
  /\ UNCHANGED <<lockVars, map>>

(* Replace: erase, then emplace.                                           *)
ReplaceErase(t) ==
  /\ call[t].op = "Replace" /\ call[t].step = "access"
  /\ map' = Restrict(map, DOMAIN map \ {MyKey(t)})
  /\ Goto(t, "insert")
  /\ UNCHANGED <<lockVars, size>>

ReplaceStore(t) ==
  /\ call[t].op = "Replace" /\ call[t].step = "insert"
  /\ Store(MyKey(t), call[t].item)
  /\ Goto(t, "unlock")
  /\ UNCHANGED <<lockVars, size>>

(* rwlock_.unlock() and return.                                            *)
Release(t) ==
  /\ call[t].step = "unlock"
  /\ Lock!Unlock(t)
  /\ call' = [call EXCEPT ![t] = NoCall]
  /\ UNCHANGED <<map, size>>

(* What a call does on its own, once the thread has entered it.            *)
Proceed(t) ==
  \/ Acquire(t)
  \/ GetFind(t) \/ GetCopy(t)
  \/ AddFind(t) \/ AddStore(t)
  \/ ReplaceFind(t) \/ ReplaceErase(t) \/ ReplaceStore(t)
  \/ Release(t)

NewCall == \E t \in Threads, op \in Ops, item \in Item : Invoke(t, op, item)

Next ==
  \/ NewCall
  \/ \E t \in Threads : Proceed(t) \/ SpuriousWakeup(t)

Spec == Init /\ [][Next]_vars

(***************************************************************************)
(* Threads inside a call keep running: rdlock and wrlock when their        *)
(* predicate lets them, the rest unconditionally.                          *)
(***************************************************************************)
FairSpec == Spec /\ \A t \in Threads : WF_vars(Proceed(t))

-------------------------------------------------------------------------------
(* Safety                                                                  *)

(* The steps of a call that touch map_.                                    *)
Touching(t) ==
  \/ call[t].step \in {"access", "insert"}
  \/ call[t].step = "lock" /\ InSection(t)

(* No data race on std::map: a thread that stores, or is about to, is the  *)
(* only one between its lock and unlock.                                   *)
NoMapRace ==
  \A t, u \in Threads :
     (t # u /\ Touching(t) /\ call[t].op \in {"Add", "Replace"}) => ~Touching(u)

(* The iterator Get holds between find and copy still points to an entry   *)
(* for the very input that was asked for: neither a concurrent Replace nor *)
(* a hash collision can make Get return the tiling of another input.       *)
HitMatchesInput ==
  \A t \in Threads :
     /\ (call[t].op = "Get" /\ call[t].step = "access")
           => /\ MyKey(t) \in DOMAIN map
              /\ map[MyKey(t)].input = call[t].item.input
     /\ (call[t].op = "Get" /\ call[t].step = "unlock" /\ call[t].result # Miss)
           => call[t].result[1].input = call[t].item.input

(* size_ is the number of entries whenever no store is under way, so the   *)
(* cap bounds the map itself.                                              *)
SizeCountsEntries ==
  (\A t \in Threads : call[t].op = "Replace" => call[t].step \notin {"access", "insert"})
     => size = Cardinality(DOMAIN map)

(* The inductive invariant behind the theorems of TilingCache_proofs: what *)
(* a thread's step says of its place in the lock, what Add and Get know of *)
(* the map after their lookup, and what _size counts during a Replace.     *)
StepInLock ==
  \A t \in Threads :
     /\ call[t] = NoCall => at[t] = "idle"
     /\ call[t].step \in {"access", "insert", "unlock"} => InSection(t)
     /\ call[t].op \in {"Add", "Replace"} => at[t] \notin {"rdsleep", "rdready", "reading"}
     /\ call[t].op = "Get" => at[t] \notin {"wrsleep", "wrready", "writing"}
     /\ call[t].step = "insert" => call[t].op = "Replace"

AddHasRoom ==
  \A t \in Threads :
     (call[t].op = "Add" /\ call[t].step = "access")
        => size < Cap /\ MyKey(t) \notin DOMAIN map

Replacing == {t \in Threads : call[t].op = "Replace" /\ call[t].step \in {"access", "insert"}}

SizeCounts ==
  /\ IsFiniteSet(DOMAIN map)
  /\ size = Cardinality(DOMAIN map \cup {MyKey(t) : t \in Replacing})

IInv == CacheTypeOK /\ StepInLock /\ HitMatchesInput /\ AddHasRoom /\ SizeCounts

-------------------------------------------------------------------------------
(* Refinement and liveness                                                 *)

(***************************************************************************)
(* The instant a call takes effect: for Get the comparison that misses or  *)
(* the copy, for Add the refusal or the emplace, for Replace the refusal   *)
(* or the erase (nobody can look before the emplace that follows).         *)
(***************************************************************************)
AbstractCall(t) ==
  IF call[t] = NoCall THEN [op |-> "none"]
  ELSE [op |-> call[t].op, item |-> call[t].item,
        done |-> call[t].step \in {"insert", "unlock"}, result |-> call[t].result]

Erased == {t \in Threads : call[t].step = "insert"}

AbstractMap ==
  [k \in DOMAIN map \cup {MyKey(t) : t \in Erased} |->
     IF \E t \in Erased : MyKey(t) = k
       THEN call[CHOOSE t \in Erased : MyKey(t) = k].item
       ELSE map[k]]

Atomic == INSTANCE AbstractTilingCache
            WITH map <- AbstractMap, call <- [t \in Threads |-> AbstractCall(t)]

(* Every call behaves as if it took effect at one instant (linearizable).  *)
ImplementsAtomicCache == Atomic!Spec

(* If the callers eventually stop calling, every call returns: no path     *)
(* leaves the lock held, and nobody waits for a wake-up that never comes.  *)
CallsReturn ==
  <>[][~NewCall]_vars => \A t \in Threads : []<>(call[t] = NoCall)
===============================================================================
