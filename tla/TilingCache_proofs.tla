-------------------------- MODULE TilingCache_proofs ---------------------------
(***************************************************************************)
(* Proofs about TilingCache, for every set of threads, inputs and hash     *)
(* function.  The cache uses its lock only through rdlock, wrlock and      *)
(* unlock, so the theorems of RWLock_proofs hold of it; with mutual        *)
(* exclusion from there, no two calls race on the map and a hit always     *)
(* carries the tiling of the input that was asked for.                     *)
(***************************************************************************)
EXTENDS TilingCache, FiniteSetTheorems, TLAPS

LockThm == INSTANCE RWLock_proofs

(* The cache drives its lock within the lock's own specification.          *)
THEOREM UsesLock == Spec => Lock!Spec
  <1>1. Init => Lock!Init
    BY DEF Init
  <1>2. ASSUME NewCall \/ UNCHANGED vars PROVE UNCHANGED Lock!vars
    BY <1>2 DEF NewCall, Invoke, vars, Lock!vars, lockVars
  <1>3. ASSUME NEW t \in Threads,
               \/ GetFind(t) \/ GetCopy(t) \/ AddFind(t) \/ AddStore(t)
               \/ ReplaceFind(t) \/ ReplaceErase(t) \/ ReplaceStore(t)
        PROVE  UNCHANGED Lock!vars
    BY <1>3 DEF GetFind, GetCopy, AddFind, AddStore, ReplaceFind,
                ReplaceErase, ReplaceStore, Lock!vars, lockVars
  <1>4. ASSUME NEW t \in Threads, Acquire(t) \/ Release(t) \/ SpuriousWakeup(t)
        PROVE  Lock!Next
    BY <1>4 DEF Acquire, Release, SpuriousWakeup, Lock!Next
  <1>5. [Next]_vars => [Lock!Next]_(Lock!vars)
    BY <1>2, <1>3, <1>4 DEF Next, Proceed
  <1> QED BY <1>1, <1>5, PTL DEF Spec, Lock!Spec

(* RWLock as this module and as RWLock_proofs see it.                      *)
LEMMA SameLock ==
  /\ Lock!Init => LockThm!Init
  /\ [Lock!Next]_(Lock!vars) => [LockThm!Next]_(LockThm!vars)
  /\ LockThm!IInv => Lock!TypeOK /\ Lock!Exclusion
  <1>1. Lock!Init => LockThm!Init
    BY DEF Lock!Init, LockThm!Init
  <1>2. [Lock!Next]_(Lock!vars) => [LockThm!Next]_(LockThm!vars)
    BY DEF Lock!Next, LockThm!Next, Lock!vars, LockThm!vars,
           Lock!RdlockEnter, LockThm!RdlockEnter, Lock!MayRead, LockThm!MayRead,
           Lock!RdlockRetry, LockThm!RdlockRetry,
           Lock!WrlockEnter, LockThm!WrlockEnter, Lock!MayWrite, LockThm!MayWrite,
           Lock!WrlockRetry, LockThm!WrlockRetry,
           Lock!SpuriousWakeup, LockThm!SpuriousWakeup,
           Lock!Unlock, LockThm!Unlock,
           Lock!StatusAfterUnlock, LockThm!StatusAfterUnlock,
           Lock!NotifyOneWriter, LockThm!NotifyOneWriter,
           Lock!NotifyAllReaders, LockThm!NotifyAllReaders
  <1>3. LockThm!IInv => Lock!TypeOK /\ Lock!Exclusion
    BY DEF LockThm!IInv, LockThm!TypeOK, Lock!TypeOK, Lock!Phase, LockThm!Phase,
           LockThm!Exclusion, Lock!Exclusion
  <1>4. QED
    BY <1>1, <1>2, <1>3

(* Calls exclude each other as rdlock and wrlock promise.                  *)
LEMMA LockExcludes == Spec => [](Lock!TypeOK /\ Lock!Exclusion)
  <1>1. LockThm!IsFiniteSet(Threads)
    BY ThreadsFinite DEF LockThm!IsFiniteSet, IsFiniteSet
  <1>2. LockThm!Spec => []LockThm!IInv
    BY <1>1, LockThm!Invariance, PTL
  <1>3. Lock!Spec => LockThm!Spec
    BY SameLock, PTL DEF Lock!Spec, LockThm!Spec
  <1>4. QED
    BY <1>2, <1>3, SameLock, UsesLock, PTL

-------------------------------------------------------------------------------
(* While Add or Replace is between lock and unlock, nobody else is.        *)
LEMMA StoringAlone ==
  ASSUME IInv, Lock!Exclusion, Lock!TypeOK,
         NEW t \in Threads, call[t].op \in {"Add", "Replace"}, InSection(t),
         NEW u \in Threads, u # t
  PROVE  /\ ~InSection(u)
         /\ call[u].step \notin {"access", "insert", "unlock"}
  <1>1. at[t] = "writing"
    BY DEF IInv, StepInLock, InSection
  <1>2. ~InSection(u)
    BY <1>1 DEF Lock!Exclusion, InSection
  <1>3. QED
    BY <1>2 DEF IInv, StepInLock

LEMMA InitIInv == Init => IInv
  <1> SUFFICES ASSUME Init PROVE IInv
    OBVIOUS
  <1>1. DOMAIN map = {} /\ size = 0 /\ call = [t \in Threads |-> NoCall]
        /\ at = [t \in Threads |-> "idle"]
    BY DEF Init, Lock!Init
  <1>2. map \in [DOMAIN map -> Item]
    BY DEF Init
  <1>3. CacheTypeOK
    BY <1>1, <1>2, CacheAssumption DEF CacheTypeOK
  <1>4. StepInLock /\ HitMatchesInput /\ AddHasRoom
    BY <1>1 DEF StepInLock, HitMatchesInput, AddHasRoom, NoCall, InSection
  <1>5. Replacing = {}
    BY <1>1 DEF Replacing, NoCall
  <1>6. SizeCounts
    BY <1>1, <1>5, FS_EmptySet DEF SizeCounts
  <1>7. QED
    BY <1>3, <1>4, <1>6 DEF IInv

LEMMA InvokeIInv ==
  ASSUME IInv, NEW t \in Threads, NEW op \in Ops, NEW item \in Item,
         Invoke(t, op, item)
  PROVE  IInv'
  <1>1. /\ call' = [call EXCEPT ![t] = [op |-> op, item |-> item,
                                        result |-> Miss, step |-> "lock"]]
        /\ UNCHANGED <<at, map, size>>
        /\ at[t] = "idle"
    BY DEF Invoke, lockVars, IInv, StepInLock
  <1>2. CacheTypeOK'
    BY <1>1 DEF IInv, CacheTypeOK, Call
  <1>3. StepInLock'
    BY <1>1 DEF IInv, StepInLock, CacheTypeOK, InSection, NoCall
  <1>4. HitMatchesInput' /\ AddHasRoom'
    BY <1>1 DEF IInv, HitMatchesInput, AddHasRoom, MyKey, CacheTypeOK
  <1>5. Replacing' = Replacing /\ \A u \in Replacing : MyKey(u)' = MyKey(u)
    BY <1>1 DEF IInv, CacheTypeOK, Replacing, Invoke, NoCall, MyKey
  <1>6. SizeCounts'
    BY <1>1, <1>5 DEF IInv, SizeCounts
  <1>7. QED
    BY <1>2, <1>3, <1>4, <1>6 DEF IInv

(* Steps that only move threads within the lock.                           *)
LEMMA LockStepIInv ==
  ASSUME IInv, NEW t \in Threads, UNCHANGED <<map, size, call>>,
         \A u \in Threads :
            \/ at'[u] = at[u]
            \/ /\ u = t /\ call[t].step = "lock" /\ call[t].op = "Get"
               /\ at'[u] \in {"reading", "rdsleep", "rdready"}
            \/ /\ u = t /\ call[t].step = "lock" /\ call[t].op # "Get"
               /\ at'[u] \in {"writing", "wrsleep", "wrready"}
  PROVE  IInv'
  <1>1. CacheTypeOK' /\ HitMatchesInput' /\ AddHasRoom'
    BY DEF IInv, CacheTypeOK, HitMatchesInput, AddHasRoom, MyKey
  <1>2. StepInLock'
    BY DEF IInv, StepInLock, InSection, NoCall
  <1>3. SizeCounts'
    BY DEF IInv, SizeCounts, Replacing, MyKey
  <1>4. QED
    BY <1>1, <1>2, <1>3 DEF IInv

LEMMA AcquireIInv ==
  ASSUME IInv, Lock!TypeOK, NEW t \in Threads, Acquire(t)
  PROVE  IInv'
  <1>1. /\ UNCHANGED <<map, size, call>>
        /\ call[t].step = "lock"
    BY DEF Acquire
  <1>2. CASE call[t].op = "Get"
    <2>1. \A u \in Threads :
            \/ at'[u] = at[u]
            \/ u = t /\ at'[u] \in {"reading", "rdsleep"}
      BY <1>2 DEF Acquire, Lock!RdlockEnter, Lock!RdlockRetry, Lock!TypeOK
    <2>2. QED
      BY <1>1, <1>2, <2>1, LockStepIInv
  <1>3. CASE call[t].op # "Get"
    <2>1. \A u \in Threads :
            \/ at'[u] = at[u]
            \/ u = t /\ at'[u] \in {"writing", "wrsleep"}
      BY <1>3 DEF Acquire, Lock!WrlockEnter, Lock!WrlockRetry, Lock!TypeOK
    <2>2. QED
      BY <1>1, <1>3, <2>1, LockStepIInv
  <1>4. QED
    BY <1>2, <1>3

LEMMA SpuriousWakeupIInv ==
  ASSUME IInv, Lock!TypeOK, NEW t \in Threads, SpuriousWakeup(t)
  PROVE  IInv'
  <1>1. /\ UNCHANGED <<map, size, call>>
        /\ \/ at[t] = "rdsleep" /\ at' = [at EXCEPT ![t] = "rdready"]
           \/ at[t] = "wrsleep" /\ at' = [at EXCEPT ![t] = "wrready"]
    BY DEF SpuriousWakeup, Lock!SpuriousWakeup
  <1>2. call[t] \in Call
    BY <1>1 DEF IInv, CacheTypeOK, StepInLock
  <1>3. call[t].step = "lock" /\ call[t].op \in {"Get", "Add", "Replace"}
    BY <1>1, <1>2, CacheAssumption DEF IInv, StepInLock, Call, InSection
  <1>4. \A u \in Threads :
            \/ at'[u] = at[u]
            \/ u = t /\ call[t].op = "Get" /\ at'[u] = "rdready"
            \/ u = t /\ call[t].op # "Get" /\ at'[u] = "wrready"
    BY <1>1, <1>3 DEF Lock!TypeOK, IInv, StepInLock
  <1>5. QED
    BY <1>1, <1>3, <1>4, LockStepIInv

LEMMA GetFindIInv ==
  ASSUME IInv, NEW t \in Threads, GetFind(t)
  PROVE  IInv'
  <1>1. /\ call[t].op = "Get" /\ call[t].step = "lock" /\ InSection(t)
        /\ UNCHANGED <<at, map, size>>
        /\ call[t] \in Call
    BY DEF GetFind, lockVars, IInv, CacheTypeOK, NoCall
  <1>2. \/ call' = [call EXCEPT ![t].step = "unlock", ![t].result = Miss]
        \/ /\ call' = [call EXCEPT ![t].step = "access"]
           /\ MyKey(t) \in DOMAIN map
           /\ map[MyKey(t)].input = call[t].item.input
    BY DEF GetFind, Goto, Answer
  <1>3. CacheTypeOK'
    BY <1>1, <1>2 DEF IInv, CacheTypeOK, Call
  <1>4. StepInLock'
    BY <1>1, <1>2 DEF IInv, StepInLock, CacheTypeOK, InSection, NoCall, Call
  <1>5. HitMatchesInput' /\ AddHasRoom'
    BY <1>1, <1>2 DEF IInv, HitMatchesInput, AddHasRoom, MyKey, CacheTypeOK, Call
  <1>6. Replacing' = Replacing /\ \A u \in Replacing : MyKey(u)' = MyKey(u)
    BY <1>1, <1>2 DEF IInv, CacheTypeOK, Replacing, MyKey, Call
  <1>7. SizeCounts'
    BY <1>1, <1>6 DEF IInv, SizeCounts
  <1>8. QED
    BY <1>3, <1>4, <1>5, <1>7 DEF IInv

LEMMA GetCopyIInv ==
  ASSUME IInv, NEW t \in Threads, GetCopy(t)
  PROVE  IInv'
  <1>1. /\ call[t].op = "Get" /\ call[t].step = "access"
        /\ UNCHANGED <<at, map, size>>
        /\ call[t] \in Call
        /\ call' = [call EXCEPT ![t].step = "unlock", ![t].result = Hit(map[MyKey(t)])]
    BY DEF GetCopy, Answer, lockVars, IInv, CacheTypeOK, NoCall
  <1>2. /\ MyKey(t) \in DOMAIN map
        /\ map[MyKey(t)] \in Item
        /\ map[MyKey(t)].input = call[t].item.input
    BY <1>1 DEF IInv, HitMatchesInput, CacheTypeOK
  <1>3. CacheTypeOK'
    BY <1>1, <1>2 DEF IInv, CacheTypeOK, Call
  <1>4. StepInLock'
    BY <1>1 DEF IInv, StepInLock, CacheTypeOK, InSection, NoCall, Call
  <1>5. HitMatchesInput'
    BY <1>1, <1>2 DEF IInv, HitMatchesInput, MyKey, CacheTypeOK, Call, Hit
  <1>6. AddHasRoom'
    BY <1>1 DEF IInv, AddHasRoom, MyKey, CacheTypeOK, Call
  <1>7. Replacing' = Replacing /\ \A u \in Replacing : MyKey(u)' = MyKey(u)
    BY <1>1 DEF IInv, CacheTypeOK, Replacing, MyKey, Call
  <1>8. SizeCounts'
    BY <1>1, <1>7 DEF IInv, SizeCounts
  <1>9. QED
    BY <1>3, <1>4, <1>5, <1>6, <1>8 DEF IInv

LEMMA AddFindIInv ==
  ASSUME IInv, NEW t \in Threads, AddFind(t)
  PROVE  IInv'
  <1>1. /\ call[t].op = "Add" /\ call[t].step = "lock" /\ InSection(t)
        /\ UNCHANGED <<at, map, size>>
        /\ call[t] \in Call
    BY DEF AddFind, lockVars, IInv, CacheTypeOK, NoCall
  <1>2. \/ call' = [call EXCEPT ![t].step = "unlock"]
        \/ /\ call' = [call EXCEPT ![t].step = "access"]
           /\ ~(size >= Cap)
           /\ MyKey(t) \notin DOMAIN map
    BY DEF AddFind, Goto, Full
  <1>3. CacheTypeOK'
    BY <1>1, <1>2 DEF IInv, CacheTypeOK, Call
  <1>4. StepInLock'
    BY <1>1, <1>2 DEF IInv, StepInLock, CacheTypeOK, InSection, NoCall, Call
  <1>5. HitMatchesInput'
    BY <1>1, <1>2 DEF IInv, HitMatchesInput, MyKey, CacheTypeOK, Call
  <1>6. AddHasRoom'
    BY <1>1, <1>2, CacheAssumption DEF IInv, AddHasRoom, MyKey, CacheTypeOK, Call
  <1>7. Replacing' = Replacing /\ \A u \in Replacing : MyKey(u)' = MyKey(u)
    BY <1>1, <1>2 DEF IInv, CacheTypeOK, Replacing, MyKey, Call
  <1>8. SizeCounts'
    BY <1>1, <1>7 DEF IInv, SizeCounts
  <1>9. QED
    BY <1>3, <1>4, <1>5, <1>6, <1>8 DEF IInv

(* What a store does to the map, and that nobody else is in the middle of  *)
(* a call while it happens.                                                *)
LEMMA StoreMap ==
  ASSUME CacheTypeOK, NEW k \in Keys, NEW item \in Item, Store(k, item)
  PROVE  /\ DOMAIN map' = DOMAIN map \cup {k}
         /\ map' \in [DOMAIN map' -> Item]
         /\ DOMAIN map' \subseteq Keys
  BY DEF Store, CacheTypeOK

LEMMA AddStoreIInv ==
  ASSUME IInv, Lock!Exclusion, Lock!TypeOK, NEW t \in Threads, AddStore(t)
  PROVE  IInv'
  <1>1. /\ call[t].op = "Add" /\ call[t].step = "access"
        /\ size' = size + 1
        /\ UNCHANGED at
        /\ call' = [call EXCEPT ![t].step = "unlock"]
        /\ Store(MyKey(t), call[t].item)
        /\ call[t] \in Call
    BY DEF AddStore, Goto, lockVars, IInv, CacheTypeOK, NoCall
  <1>2. MyKey(t) \in Keys /\ call[t].item \in Item
    BY <1>1, CacheAssumption DEF MyKey, Call, Item
  <1>3. /\ DOMAIN map' = DOMAIN map \cup {MyKey(t)}
        /\ map' \in [DOMAIN map' -> Item]
        /\ DOMAIN map' \subseteq Keys
    BY <1>1, <1>2, StoreMap DEF IInv
  <1>4. size < Cap /\ MyKey(t) \notin DOMAIN map
    BY <1>1 DEF IInv, AddHasRoom
  <1>5. \A u \in Threads : u # t => call[u].step \notin {"access", "insert", "unlock"}
    BY <1>1, StoringAlone DEF IInv, StepInLock
  <1>6. \A u \in Threads : u # t => call'[u] = call[u]
    BY <1>1 DEF IInv, CacheTypeOK
  <1>7. call'[t].step = "unlock" /\ call'[t].op = "Add"
    BY <1>1 DEF IInv, CacheTypeOK, Call
  <1>8. CacheTypeOK'
    BY <1>1, <1>3, <1>4, CacheAssumption DEF IInv, CacheTypeOK, Call
  <1>9. StepInLock'
    BY <1>1, <1>6, <1>7 DEF IInv, StepInLock, CacheTypeOK, InSection, NoCall, Call
  <1>10. HitMatchesInput' /\ AddHasRoom'
    BY <1>5, <1>6, <1>7 DEF HitMatchesInput, AddHasRoom
  <1>11. Replacing = {} /\ Replacing' = {}
    BY <1>1, <1>5, <1>6, <1>7 DEF Replacing
  <1>12. IsFiniteSet(DOMAIN map) /\ size = Cardinality(DOMAIN map)
    BY <1>11 DEF IInv, SizeCounts
  <1>13. SizeCounts'
    <2>1. IsFiniteSet(DOMAIN map') /\ Cardinality(DOMAIN map') = size + 1
      BY <1>3, <1>4, <1>12, FS_AddElement
    <2>2. (DOMAIN map \cup {MyKey(u) : u \in Replacing})' = DOMAIN map'
      BY <1>11
    <2>3. QED
      BY <1>1, <2>1, <2>2 DEF SizeCounts
  <1>14. QED
    BY <1>8, <1>9, <1>10, <1>13 DEF IInv

(* While Replace is at work it is the only one that has counted ahead.     *)
LEMMA ReplaceAlone ==
  ASSUME IInv, Lock!Exclusion, Lock!TypeOK, NEW t \in Threads,
         call[t].op = "Replace", InSection(t)
  PROVE  /\ call[t] \in Call /\ MyKey(t) \in Keys /\ call[t].item \in Item
         /\ \A u \in Threads : u # t => call[u].step \notin {"access", "insert", "unlock"}
         /\ Replacing = IF call[t].step \in {"access", "insert"} THEN {t} ELSE {}
  <1>1. call[t] \in Call
    BY DEF IInv, CacheTypeOK, NoCall
  <1>2. MyKey(t) \in Keys /\ call[t].item \in Item
    BY <1>1, CacheAssumption DEF MyKey, Call, Item
  <1>3. \A u \in Threads : u # t => call[u].step \notin {"access", "insert", "unlock"}
    BY StoringAlone
  <1>4. QED
    BY <1>1, <1>2, <1>3 DEF Replacing

(* What a Replace step leaves alone in the invariant: the other calls.     *)
LEMMA ReplaceStepOthers ==
  ASSUME IInv, NEW t \in Threads, call[t].op = "Replace", call[t] \in Call, InSection(t),
         NEW step \in {"access", "insert", "unlock"},
         call' = [call EXCEPT ![t].step = step], UNCHANGED at,
         \A u \in Threads : u # t => call[u].step \notin {"access", "insert", "unlock"}
  PROVE  /\ call' \in [Threads -> Call \cup {NoCall}]
         /\ StepInLock' /\ HitMatchesInput' /\ AddHasRoom'
         /\ MyKey(t)' = MyKey(t)
         /\ Replacing' = IF step = "unlock" THEN {} ELSE {t}
  <1>1. \A u \in Threads : u # t => call'[u] = call[u]
    BY DEF IInv, CacheTypeOK
  <1>2. /\ call'[t].step = step /\ call'[t].op = "Replace"
        /\ call'[t].item = call[t].item /\ call'[t] \in Call
    BY DEF IInv, CacheTypeOK, Call
  <1>3. call' \in [Threads -> Call \cup {NoCall}]
    BY <1>1, <1>2 DEF IInv, CacheTypeOK
  <1>4. StepInLock'
    BY <1>1, <1>2 DEF IInv, StepInLock, InSection, NoCall, Call
  <1>5. HitMatchesInput' /\ AddHasRoom'
    BY <1>1, <1>2 DEF HitMatchesInput, AddHasRoom
  <1>6. MyKey(t)' = MyKey(t) /\ Replacing' = IF step = "unlock" THEN {} ELSE {t}
    BY <1>1, <1>2 DEF MyKey, Replacing
  <1>7. QED
    BY <1>3, <1>4, <1>5, <1>6

LEMMA ReplaceFindIInv ==
  ASSUME IInv, Lock!Exclusion, Lock!TypeOK, NEW t \in Threads, ReplaceFind(t)
  PROVE  IInv'
  <1>1. /\ call[t].op = "Replace" /\ call[t].step = "lock" /\ InSection(t)
        /\ UNCHANGED <<at, map>>
    BY DEF ReplaceFind, lockVars
  <1>2. /\ call[t] \in Call /\ MyKey(t) \in Keys
        /\ \A u \in Threads : u # t => call[u].step \notin {"access", "insert", "unlock"}
        /\ Replacing = {}
    BY <1>1, ReplaceAlone
  <1>3. IsFiniteSet(DOMAIN map) /\ size = Cardinality(DOMAIN map)
    BY <1>2 DEF IInv, SizeCounts
  <1>4. CASE Full
    <2>1. UNCHANGED size /\ call' = [call EXCEPT ![t].step = "unlock"]
      BY <1>4 DEF ReplaceFind, Goto
    <2>2. /\ call' \in [Threads -> Call \cup {NoCall}]
          /\ StepInLock' /\ HitMatchesInput' /\ AddHasRoom' /\ Replacing' = {}
      BY <1>1, <1>2, <2>1, ReplaceStepOthers
    <2>3. CacheTypeOK' /\ SizeCounts'
      BY <1>1, <1>3, <2>1, <2>2 DEF IInv, CacheTypeOK, SizeCounts
    <2>4. QED
      BY <2>2, <2>3 DEF IInv
  <1>5. CASE ~Full
    <2>1. /\ size' = size + (IF MyKey(t) \in DOMAIN map THEN 0 ELSE 1)
          /\ call' = [call EXCEPT ![t].step = "access"]
          /\ ~(size >= Cap)
      BY <1>5 DEF ReplaceFind, Goto, Full
    <2>2. /\ call' \in [Threads -> Call \cup {NoCall}]
          /\ StepInLock' /\ HitMatchesInput' /\ AddHasRoom'
          /\ Replacing' = {t} /\ MyKey(t)' = MyKey(t)
      BY <1>1, <1>2, <2>1, ReplaceStepOthers
    <2>3. CacheTypeOK'
      BY <1>1, <2>1, <2>2, CacheAssumption DEF IInv, CacheTypeOK
    <2>4. Cardinality(DOMAIN map \cup {MyKey(t)}) = size'
      <3>1. CASE MyKey(t) \in DOMAIN map
        <4>1. DOMAIN map \cup {MyKey(t)} = DOMAIN map
          BY <3>1
        <4>2. QED
          BY <1>3, <2>1, <3>1, <4>1 DEF IInv, CacheTypeOK
      <3>2. CASE MyKey(t) \notin DOMAIN map
        <4>1. Cardinality(DOMAIN map \cup {MyKey(t)}) = Cardinality(DOMAIN map) + 1
          BY <1>3, <3>2, FS_AddElement
        <4>2. QED
          BY <1>3, <2>1, <3>2, <4>1 DEF IInv, CacheTypeOK
      <3>3. QED
        BY <3>1, <3>2
    <2>5. (DOMAIN map \cup {MyKey(u) : u \in Replacing})' = DOMAIN map \cup {MyKey(t)}
      BY <1>1, <2>2
    <2>6. SizeCounts'
      BY <1>1, <1>3, <2>4, <2>5 DEF SizeCounts
    <2>7. QED
      BY <2>2, <2>3, <2>6 DEF IInv
  <1>6. QED
    BY <1>4, <1>5

LEMMA ReplaceEraseIInv ==
  ASSUME IInv, Lock!Exclusion, Lock!TypeOK, NEW t \in Threads, ReplaceErase(t)
  PROVE  IInv'
  <1>1. /\ call[t].op = "Replace" /\ call[t].step = "access"
        /\ UNCHANGED <<at, size>>
        /\ map' = [k \in DOMAIN map \ {MyKey(t)} |-> map[k]]
        /\ call' = [call EXCEPT ![t].step = "insert"]
        /\ InSection(t)
    BY DEF ReplaceErase, Goto, Restrict, lockVars, IInv, StepInLock
  <1>2. /\ call[t] \in Call /\ MyKey(t) \in Keys
        /\ \A u \in Threads : u # t => call[u].step \notin {"access", "insert", "unlock"}
        /\ Replacing = {t}
    BY <1>1, ReplaceAlone
  <1>3. /\ call' \in [Threads -> Call \cup {NoCall}]
        /\ StepInLock' /\ HitMatchesInput' /\ AddHasRoom'
        /\ Replacing' = {t} /\ MyKey(t)' = MyKey(t)
    BY <1>1, <1>2, ReplaceStepOthers
  <1>4. /\ DOMAIN map' = DOMAIN map \ {MyKey(t)}
        /\ map' \in [DOMAIN map' -> Item]
    BY <1>1 DEF IInv, CacheTypeOK
  <1>5. CacheTypeOK'
    BY <1>1, <1>3, <1>4 DEF IInv, CacheTypeOK
  <1>6. (DOMAIN map \cup {MyKey(u) : u \in Replacing})'
           = DOMAIN map \cup {MyKey(u) : u \in Replacing}
    BY <1>2, <1>3, <1>4
  <1>7. IsFiniteSet(DOMAIN map')
    BY <1>4, FS_RemoveElement DEF IInv, SizeCounts
  <1>8. SizeCounts'
    BY <1>1, <1>6, <1>7 DEF IInv, SizeCounts
  <1>9. QED
    BY <1>3, <1>5, <1>8 DEF IInv

LEMMA ReplaceStoreIInv ==
  ASSUME IInv, Lock!Exclusion, Lock!TypeOK, NEW t \in Threads, ReplaceStore(t)
  PROVE  IInv'
  <1>1. /\ call[t].op = "Replace" /\ call[t].step = "insert"
        /\ UNCHANGED <<at, size>>
        /\ Store(MyKey(t), call[t].item)
        /\ call' = [call EXCEPT ![t].step = "unlock"]
        /\ InSection(t)
    BY DEF ReplaceStore, Goto, lockVars, IInv, StepInLock
  <1>2. /\ call[t] \in Call /\ MyKey(t) \in Keys /\ call[t].item \in Item
        /\ \A u \in Threads : u # t => call[u].step \notin {"access", "insert", "unlock"}
        /\ Replacing = {t}
    BY <1>1, ReplaceAlone
  <1>3. /\ call' \in [Threads -> Call \cup {NoCall}]
        /\ StepInLock' /\ HitMatchesInput' /\ AddHasRoom' /\ Replacing' = {}
    BY <1>1, <1>2, ReplaceStepOthers
  <1>4. /\ DOMAIN map' = DOMAIN map \cup {MyKey(t)}
        /\ map' \in [DOMAIN map' -> Item]
        /\ DOMAIN map' \subseteq Keys
    BY <1>1, <1>2, StoreMap DEF IInv
  <1>5. CacheTypeOK'
    BY <1>1, <1>3, <1>4 DEF IInv, CacheTypeOK
  <1>6. (DOMAIN map \cup {MyKey(u) : u \in Replacing})'
           = DOMAIN map \cup {MyKey(u) : u \in Replacing}
    BY <1>2, <1>3, <1>4
  <1>7. IsFiniteSet(DOMAIN map')
    BY <1>4, FS_AddElement DEF IInv, SizeCounts
  <1>8. SizeCounts'
    BY <1>1, <1>6, <1>7 DEF IInv, SizeCounts
  <1>9. QED
    BY <1>3, <1>5, <1>8 DEF IInv

LEMMA ReleaseIInv ==
  ASSUME IInv, Lock!TypeOK, NEW t \in Threads, Release(t)
  PROVE  IInv'
  <1>1. /\ call[t].step = "unlock"
        /\ UNCHANGED <<map, size>>
        /\ call' = [call EXCEPT ![t] = NoCall]
        /\ Lock!Unlock(t)
    BY DEF Release
  <1>2. /\ at'[t] = "idle"
        /\ \A u \in Threads : u # t =>
              \/ at'[u] = at[u]
              \/ at[u] = "wrsleep" /\ at'[u] = "wrready"
              \/ at[u] = "rdsleep" /\ at'[u] = "rdready"
    BY <1>1 DEF Lock!Unlock, Lock!NotifyOneWriter, Lock!NotifyAllReaders, Lock!TypeOK
  <1>3. call'[t] = NoCall /\ \A u \in Threads : u # t => call'[u] = call[u]
    BY <1>1 DEF IInv, CacheTypeOK
  <1>4. CacheTypeOK'
    BY <1>1 DEF IInv, CacheTypeOK
  <1>5. StepInLock'
    BY <1>2, <1>3 DEF IInv, StepInLock, InSection, NoCall
  <1>6. HitMatchesInput' /\ AddHasRoom'
    BY <1>1, <1>3 DEF IInv, HitMatchesInput, AddHasRoom, MyKey, NoCall
  <1>7. Replacing' = Replacing /\ \A u \in Replacing : MyKey(u)' = MyKey(u)
    BY <1>1, <1>3 DEF Replacing, MyKey, NoCall
  <1>8. SizeCounts'
    BY <1>1, <1>7 DEF IInv, SizeCounts
  <1>9. QED
    BY <1>4, <1>5, <1>6, <1>8 DEF IInv

(* The invariant is inductive, given the lock's.                           *)
LEMMA NextIInv ==
  ASSUME IInv, Lock!TypeOK, Lock!Exclusion, [Next]_vars
  PROVE  IInv'
  <1>1. CASE NewCall
    BY <1>1, InvokeIInv DEF NewCall
  <1>2. ASSUME NEW t \in Threads, Proceed(t) PROVE IInv'
    BY <1>2, AcquireIInv, GetFindIInv, GetCopyIInv, AddFindIInv, AddStoreIInv,
       ReplaceFindIInv, ReplaceEraseIInv, ReplaceStoreIInv, ReleaseIInv DEF Proceed
  <1>3. ASSUME NEW t \in Threads, SpuriousWakeup(t) PROVE IInv'
    BY <1>3, SpuriousWakeupIInv
  <1>4. CASE UNCHANGED vars
    BY <1>4 DEF vars, IInv, CacheTypeOK, StepInLock, InSection, HitMatchesInput,
                AddHasRoom, MyKey, SizeCounts, Replacing
  <1>5. QED
    BY <1>1, <1>2, <1>3, <1>4 DEF Next

-------------------------------------------------------------------------------
(* The theorems.                                                           *)

(* The inductive invariant and the lock's hold in every reachable state.   *)
THEOREM Invariance == Spec => [](IInv /\ Lock!TypeOK /\ Lock!Exclusion)
  <1>1. Spec => Init /\ [][Next]_vars
    BY DEF Spec
  <1>2. QED
    BY <1>1, InitIInv, NextIInv, LockExcludes, PTL

(* The cache never holds more than Cap items, and each under a hash key.   *)
THEOREM TypeCorrect == Spec => []TypeOK
  <1>1. IInv /\ Lock!TypeOK => TypeOK
    BY DEF IInv, TypeOK
  <1>2. QED
    BY <1>1, Invariance, PTL

(* No call changes the map while another call reads or changes it.         *)
THEOREM NoDataRace == Spec => []NoMapRace
  <1>1. IInv /\ Lock!TypeOK /\ Lock!Exclusion => NoMapRace
    <2> SUFFICES ASSUME IInv, Lock!TypeOK, Lock!Exclusion,
                        NEW t \in Threads, NEW u \in Threads, t # u,
                        Touching(t), call[t].op \in {"Add", "Replace"}
                 PROVE  ~Touching(u)
      BY DEF NoMapRace
    <2>1. InSection(t)
      BY DEF Touching, IInv, StepInLock
    <2>2. QED
      BY <2>1, StoringAlone DEF Touching
  <1>2. QED
    BY <1>1, Invariance, PTL

(* A hit is the item cached for the very input asked for, whatever the     *)
(* hash function and however many inputs collide.                          *)
THEOREM HitsMatch == Spec => []HitMatchesInput
  <1>1. IInv => HitMatchesInput
    BY DEF IInv
  <1>2. QED
    BY <1>1, Invariance, PTL

(* size_ is the number of entries whenever no Replace is under way.        *)
THEOREM SizeExact == Spec => []SizeCountsEntries
  <1>1. IInv => SizeCountsEntries
    <2> SUFFICES ASSUME IInv,
                        \A t \in Threads : call[t].op = "Replace"
                           => call[t].step \notin {"access", "insert"}
                 PROVE  size = Cardinality(DOMAIN map)
      BY DEF SizeCountsEntries
    <2>1. Replacing = {}
      BY DEF Replacing
    <2>2. DOMAIN map \cup {MyKey(t) : t \in Replacing} = DOMAIN map
      BY <2>1
    <2>3. QED
      BY <2>2 DEF IInv, SizeCounts
  <1>2. QED
    BY <1>1, Invariance, PTL

-------------------------------------------------------------------------------
(***************************************************************************)
(* TilingCache implements AbstractTilingCache: every call of Get, Add and  *)
(* Replace takes effect in one step, although the code looks up and stores *)
(* in several.  On top of the inductive invariant above this takes one     *)
(* more fact about Replace: the room it saw at its lookup is still there   *)
(* when it erases, as it keeps the lock in between.                        *)
(***************************************************************************)
ReplaceHasRoom ==
  \A t \in Threads :
     (call[t].op = "Replace" /\ call[t].step = "access") => Cardinality(DOMAIN map) < Cap

NoAnswerYet ==
  \A t \in Threads : call[t].step \in {"lock", "access", "insert"} => call[t].result = Miss

Safe == IInv /\ Lock!TypeOK /\ Lock!Exclusion
RInv == Safe /\ ReplaceHasRoom /\ NoAnswerYet

-------------------------------------------------------------------------------
(* The abstract call of a call, and what a step of the call makes of it.   *)
Effected(k) == k.step \in {"insert", "unlock"}

AbstractOf(k) ==
  IF k = NoCall THEN [op |-> "none"]
  ELSE [op |-> k.op, item |-> k.item, done |-> Effected(k), result |-> k.result]

AbstractCalls == [t \in Threads |-> AbstractCall(t)]

LEMMA CallsOneByOne ==
  /\ AbstractCalls = [t \in Threads |-> AbstractOf(call[t])]
  /\ AbstractCalls' = [t \in Threads |-> AbstractOf(call'[t])]
  BY DEF AbstractCalls, AbstractCall, AbstractOf, Effected

LEMMA EffectedIsBoolean ==
  ASSUME NEW k
  PROVE  /\ Effected(k) => Effected(k) = TRUE
         /\ ~Effected(k) => Effected(k) = FALSE
  <1> DEFINE b == Effected(k)
  <1>1. b \in BOOLEAN
    BY DEF Effected
  <1> HIDE DEF b
  <1>2. (b => b = TRUE) /\ (~b => b = FALSE)
    BY <1>1
  <1>3. QED
    BY <1>2 DEF b

LEMMA CallIsRecord ==
  ASSUME NEW k \in Call
  PROVE  k # NoCall /\ AbstractOf(k) = [op |-> k.op, item |-> k.item,
                                        done |-> Effected(k), result |-> k.result]
  BY CacheAssumption DEF Call, NoCall, AbstractOf

(* A call that does not take effect in this step.                          *)
LEMMA Stutters ==
  ASSUME CacheTypeOK, NEW t \in Threads, call[t] \in Call, NEW k \in Call,
         call' = [call EXCEPT ![t] = k],
         k.op = call[t].op, k.item = call[t].item, k.result = call[t].result,
         Effected(k) <=> Effected(call[t])
  PROVE  AbstractCalls' = AbstractCalls
  <1>1. AbstractOf(k) = AbstractOf(call[t])
    BY CallIsRecord, EffectedIsBoolean
  <1>2. \A u \in Threads : AbstractOf(call'[u]) = AbstractOf(call[u])
    BY <1>1 DEF CacheTypeOK
  <1>3. QED
    BY <1>2, CallsOneByOne

(* A call that does.                                                       *)
LEMMA TakesEffect ==
  ASSUME CacheTypeOK, NEW t \in Threads, call[t] \in Call, NEW k \in Call,
         call' = [call EXCEPT ![t] = k],
         k.op = call[t].op, k.item = call[t].item,
         ~Effected(call[t]), Effected(k)
  PROVE  /\ AbstractCalls' = [AbstractCalls EXCEPT ![t].done = TRUE, ![t].result = k.result]
         /\ AbstractCalls[t].op = call[t].op /\ AbstractCalls[t].item = call[t].item
         /\ ~AbstractCalls[t].done
  <1>1. AbstractOf(call[t]) = [op |-> call[t].op, item |-> call[t].item,
                               done |-> FALSE, result |-> call[t].result]
    BY CallIsRecord, EffectedIsBoolean
  <1>2. AbstractOf(k) = [op |-> call[t].op, item |-> call[t].item,
                         done |-> TRUE, result |-> k.result]
    BY CallIsRecord, EffectedIsBoolean
  <1>3. /\ \A u \in Threads : u # t => call'[u] = call[u]
        /\ call'[t] = k
    BY DEF CacheTypeOK
  <1>4. /\ AbstractCalls[t] = AbstractOf(call[t]) /\ AbstractCalls'[t] = AbstractOf(k)
        /\ \A u \in Threads : u # t => AbstractCalls'[u] = AbstractCalls[u]
        /\ DOMAIN AbstractCalls = Threads
        /\ AbstractCalls' = [u \in Threads |-> AbstractCalls'[u]]
    BY <1>3, CallsOneByOne
  <1>5. [AbstractOf(call[t]) EXCEPT !.done = TRUE, !.result = k.result] = AbstractOf(k)
    <2> DEFINE k0 == AbstractOf(call[t])  k1 == AbstractOf(k)
    <2>1. /\ k0 = [op |-> call[t].op, item |-> call[t].item, done |-> FALSE,
                   result |-> call[t].result]
          /\ k1 = [op |-> call[t].op, item |-> call[t].item, done |-> TRUE,
                   result |-> k.result]
      BY <1>1, <1>2
    <2> DEFINE k2 == [k0 EXCEPT !.done = TRUE, !.result = k.result]
    <2> HIDE DEF k0, k1
    <2>2. /\ DOMAIN k2 = DOMAIN k1 /\ k2 = [f \in DOMAIN k2 |-> k2[f]]
          /\ k2.op = k1.op /\ k2.item = k1.item /\ k2.done = k1.done
          /\ k2.result = k1.result
      BY <2>1
    <2> HIDE DEF k2
    <2>3. k2 = k1
      BY <2>1, <2>2
    <2>4. QED
      BY <2>3 DEF k0, k1, k2
  <1>6. AbstractCalls' = [AbstractCalls EXCEPT ![t] = AbstractOf(k)]
    BY <1>4
  <1>7. QED
    <2>1. /\ AbstractCalls[t].op = call[t].op /\ AbstractCalls[t].item = call[t].item
          /\ ~AbstractCalls[t].done
      BY <1>1, <1>4
    <2>2. QED
      BY <1>4, <1>5, <1>6, <2>1

-------------------------------------------------------------------------------
(* The invariant.                                                          *)

(* What Goto makes of the record of a call.                                *)
LEMMA GoneTo ==
  ASSUME CacheTypeOK, NEW t \in Threads, call[t] \in Call,
         NEW step \in {"lock", "access", "insert", "unlock"}, Goto(t, step)
  PROVE  \E k \in Call : /\ call' = [call EXCEPT ![t] = k]
                         /\ k.op = call[t].op /\ k.item = call[t].item
                         /\ k.result = call[t].result /\ k.step = step
  <1> DEFINE k == [call[t] EXCEPT !.step = step]
  <1>1. /\ k \in Call /\ k.op = call[t].op /\ k.item = call[t].item
        /\ k.result = call[t].result /\ k.step = step
    BY DEF Call
  <1>2. call' = [call EXCEPT ![t] = k]
    BY DEF Goto
  <1> HIDE DEF k
  <1>3. QED
    BY <1>1, <1>2

(* And Answer.                                                             *)
LEMMA Answered ==
  ASSUME CacheTypeOK, NEW t \in Threads, call[t] \in Call,
         NEW r \in {Miss} \cup {Hit(i) : i \in Item}, Answer(t, r, "unlock")
  PROVE  \E k \in Call : /\ call' = [call EXCEPT ![t] = k]
                         /\ k.op = call[t].op /\ k.item = call[t].item
                         /\ k.result = r /\ k.step = "unlock"
  <1> DEFINE k == [call[t] EXCEPT !.step = "unlock", !.result = r]
  <1>1. /\ k \in Call /\ k.op = call[t].op /\ k.item = call[t].item
        /\ k.result = r /\ k.step = "unlock"
    BY DEF Call
  <1>2. call' = [call EXCEPT ![t] = k]
    BY DEF Answer
  <1> HIDE DEF k
  <1>3. QED
    BY <1>1, <1>2

(* One call moves on, and the map is left alone or nobody else relies on   *)
(* what it saw there.                                                      *)
LEMMA OneCallMoves ==
  ASSUME RInv, NEW t \in Threads, NEW k, call' = [call EXCEPT ![t] = k],
         k.step \in {"lock", "access", "insert"} => k.result = Miss,
         map' = map \/ \A u \in Threads : u # t => call[u].step # "access",
         (k.op = "Replace" /\ k.step = "access") => Cardinality(DOMAIN map') < Cap
  PROVE  ReplaceHasRoom' /\ NoAnswerYet'
  <1>1. call'[t] = k /\ \A u \in Threads : u # t => call'[u] = call[u]
    BY DEF RInv, Safe, IInv, CacheTypeOK
  <1>2. NoAnswerYet'
    BY <1>1 DEF RInv, NoAnswerYet
  <1>3. ReplaceHasRoom'
    BY <1>1 DEF RInv, ReplaceHasRoom
  <1>4. QED
    BY <1>2, <1>3

LEMMA InitRoom == Init => ReplaceHasRoom /\ NoAnswerYet
  BY DEF Init, NoCall, ReplaceHasRoom, NoAnswerYet

(* Past its lookup a call is in the section, and its record is one of Call.*)
LEMMA InCall ==
  ASSUME IInv, NEW t \in Threads, call[t].step \in {"lock", "access", "insert", "unlock"}
  PROVE  /\ call[t] \in Call /\ MyKey(t) \in Keys /\ call[t].item \in Item
         /\ call[t].item.input \in Inputs
         /\ call[t].step # "lock" => InSection(t)
  <1>1. call[t] \in Call
    BY DEF IInv, CacheTypeOK, NoCall
  <1>2. QED
    BY <1>1, CacheAssumption DEF MyKey, Call, Item, IInv, StepInLock

(* While a Replace is at its lookup size_ is exact.                        *)
LEMMA SizeAtLookup ==
  ASSUME Safe, NEW t \in Threads, call[t].op \in {"Add", "Replace"},
         call[t].step \in {"lock", "access"}, InSection(t),
         call[t].op = "Replace" => call[t].step = "lock"
  PROVE  size = Cardinality(DOMAIN map)
  <1>1. \A u \in Threads : u # t => call[u].step \notin {"access", "insert"}
    BY StoringAlone DEF Safe
  <1>2. Replacing = {}
    BY <1>1 DEF Replacing
  <1>3. DOMAIN map \cup {MyKey(u) : u \in Replacing} = DOMAIN map
    BY <1>2
  <1>4. QED
    BY <1>3 DEF Safe, IInv, SizeCounts

LEMMA NextRoom ==
  ASSUME RInv, [Next]_vars
  PROVE  ReplaceHasRoom' /\ NoAnswerYet'
  <1> USE DEF RInv, Safe
  <1> DEFINE Room == ReplaceHasRoom' /\ NoAnswerYet'
  <1>1. ASSUME NEW t \in Threads, NEW op \in Ops, NEW item \in Item, Invoke(t, op, item)
        PROVE  Room
    <2> DEFINE k == [op |-> op, item |-> item, result |-> Miss, step |-> "lock"]
    <2>1. call' = [call EXCEPT ![t] = k] /\ map' = map
      BY <1>1 DEF Invoke
    <2>2. k.result = Miss /\ k.step = "lock"
      OBVIOUS
    <2> HIDE DEF k
    <2>3. QED
      BY <2>1, <2>2, OneCallMoves
  <1>2. ASSUME UNCHANGED <<map, call>> PROVE Room
    BY <1>2 DEF ReplaceHasRoom, NoAnswerYet
  <1>3. ASSUME NEW t \in Threads, Acquire(t) \/ SpuriousWakeup(t) PROVE Room
    BY <1>2, <1>3 DEF Acquire, SpuriousWakeup
  <1>4. ASSUME NEW t \in Threads, GetFind(t) PROVE Room
    <2>1. call[t] \in Call /\ call[t].result = Miss /\ call[t].op = "Get" /\ map' = map
      BY <1>4, InCall DEF GetFind, NoAnswerYet
    <2>2. Goto(t, "access") \/ Answer(t, Miss, "unlock")
      BY <1>4 DEF GetFind
    <2>3. PICK k \in Call : /\ call' = [call EXCEPT ![t] = k]
                            /\ k.op = "Get" /\ k.result = Miss
      BY <2>1, <2>2, GoneTo, Answered DEF IInv
    <2>4. QED
      BY <2>1, <2>3, OneCallMoves
  <1>5. ASSUME NEW t \in Threads, GetCopy(t) PROVE Room
    <2>1. call[t] \in Call /\ map[MyKey(t)] \in Item /\ map' = map
      BY <1>5, InCall DEF GetCopy, IInv, HitMatchesInput, CacheTypeOK
    <2>2. PICK k \in Call : call' = [call EXCEPT ![t] = k] /\ k.step = "unlock"
      BY <1>5, <2>1, Answered DEF GetCopy, IInv
    <2>3. QED
      BY <2>1, <2>2, OneCallMoves
  <1>6. ASSUME NEW t \in Threads, AddFind(t) PROVE Room
    <2>1. call[t] \in Call /\ call[t].result = Miss /\ call[t].op = "Add" /\ map' = map
      BY <1>6, InCall DEF AddFind, NoAnswerYet
    <2>2. PICK k \in Call : /\ call' = [call EXCEPT ![t] = k]
                            /\ k.op = "Add" /\ k.result = Miss
      BY <1>6, <2>1, GoneTo DEF AddFind, IInv
    <2>3. QED
      BY <2>1, <2>2, OneCallMoves
  <1>7. ASSUME NEW t \in Threads, AddStore(t) \/ ReplaceStore(t) PROVE Room
    <2>1. /\ call[t] \in Call /\ call[t].op \in {"Add", "Replace"} /\ InSection(t)
          /\ Goto(t, "unlock")
      BY <1>7, InCall DEF AddStore, ReplaceStore
    <2>2. \A u \in Threads : u # t => call[u].step # "access"
      BY <2>1, StoringAlone
    <2>3. PICK k \in Call : call' = [call EXCEPT ![t] = k] /\ k.step = "unlock"
      BY <2>1, GoneTo DEF IInv
    <2>4. QED
      BY <2>2, <2>3, OneCallMoves
  <1>8. ASSUME NEW t \in Threads, ReplaceFind(t) PROVE Room
    <2>1. /\ call[t] \in Call /\ call[t].result = Miss /\ map' = map
          /\ size = Cardinality(DOMAIN map)
      BY <1>8, InCall, SizeAtLookup DEF ReplaceFind, NoAnswerYet
    <2>2. CASE Full
      <3>1. PICK k \in Call : call' = [call EXCEPT ![t] = k] /\ k.step = "unlock"
        BY <1>8, <2>1, <2>2, GoneTo DEF ReplaceFind, IInv
      <3>2. QED
        BY <2>1, <3>1, OneCallMoves
    <2>3. CASE ~Full
      <3>1. PICK k \in Call : call' = [call EXCEPT ![t] = k] /\ k.result = Miss
        BY <1>8, <2>1, <2>3, GoneTo DEF ReplaceFind, IInv
      <3>2. Cardinality(DOMAIN map') < Cap
        BY <2>1, <2>3, CacheAssumption DEF Full, IInv, CacheTypeOK
      <3>3. QED
        BY <2>1, <3>1, <3>2, OneCallMoves
    <2>4. QED
      BY <2>2, <2>3
  <1>9. ASSUME NEW t \in Threads, ReplaceErase(t) PROVE Room
    <2>1. /\ call[t] \in Call /\ call[t].result = Miss /\ call[t].op = "Replace"
          /\ InSection(t) /\ Goto(t, "insert")
      BY <1>9, InCall DEF ReplaceErase, NoAnswerYet
    <2>2. \A u \in Threads : u # t => call[u].step # "access"
      BY <2>1, StoringAlone
    <2>3. PICK k \in Call : /\ call' = [call EXCEPT ![t] = k]
                            /\ k.result = Miss /\ k.step = "insert"
      BY <2>1, GoneTo DEF IInv
    <2>4. QED
      BY <2>2, <2>3, OneCallMoves
  <1>10. ASSUME NEW t \in Threads, Release(t) PROVE Room
    <2>1. call' = [call EXCEPT ![t] = NoCall] /\ map' = map
      BY <1>10 DEF Release
    <2>2. NoCall.step = "out" /\ NoCall.op = "none"
      BY DEF NoCall
    <2>3. QED
      BY <2>1, <2>2, OneCallMoves
  <1>11. CASE UNCHANGED vars
    BY <1>2, <1>11 DEF vars
  <1>12. QED
    BY <1>1, <1>3, <1>4, <1>5, <1>6, <1>7, <1>8, <1>9, <1>10, <1>11
       DEF Next, NewCall, Proceed

(* The invariant the refinement rests on holds in every reachable state.   *)
THEOREM RoomInvariance == Spec => []RInv
  <1>1. Spec => [](IInv /\ Lock!TypeOK /\ Lock!Exclusion) /\ Init /\ [][Next]_vars
    BY Invariance DEF Spec
  <1>2. IInv /\ Lock!TypeOK /\ Lock!Exclusion => Safe
    BY DEF Safe
  <1>3. Safe /\ ReplaceHasRoom /\ NoAnswerYet /\ [Next]_vars => (ReplaceHasRoom /\ NoAnswerYet)'
    BY NextRoom DEF RInv
  <1>4. Safe /\ ReplaceHasRoom /\ NoAnswerYet => RInv
    BY DEF RInv
  <1>5. QED
    BY <1>1, <1>2, <1>3, <1>4, InitRoom, PTL

-------------------------------------------------------------------------------
(* The map, as the callers may see it.                                     *)

LEMMA MapIsAbstract ==
  /\ CacheTypeOK /\ Erased = {} => AbstractMap = map
  /\ CacheTypeOK' /\ Erased' = {} => AbstractMap' = map'
  BY DEF AbstractMap, CacheTypeOK

(* Between erase and emplace of a Replace the entry is as good as stored.  *)
Stored(m, k, item) == [j \in DOMAIN m \cup {k} |-> IF j = k THEN item ELSE m[j]]

LEMMA MapWhileErased ==
  ASSUME NEW t \in Threads
  PROVE  /\ Erased = {t} => AbstractMap = Stored(map, MyKey(t), call[t].item)
         /\ Erased' = {t} => AbstractMap' = Stored(map', MyKey(t)', call'[t].item)
  <1>1. ASSUME Erased = {t} PROVE AbstractMap = Stored(map, MyKey(t), call[t].item)
    <2>1. MyKey(t) = MyKey(t) => (CHOOSE u \in Erased : MyKey(u) = MyKey(t)) = t
      BY <1>1
    <2>2. \A k : (\E u \in Erased : MyKey(u) = k) <=> k = MyKey(t)
      BY <1>1
    <2>3. {MyKey(u) : u \in Erased} = {MyKey(t)}
      BY <1>1
    <2>4. QED
      BY <2>1, <2>2, <2>3 DEF AbstractMap, Stored
  <1>2. ASSUME Erased' = {t} PROVE AbstractMap' = Stored(map', MyKey(t)', call'[t].item)
    <2>1. MyKey(t)' = MyKey(t)' => (CHOOSE u \in Erased' : MyKey(u)' = MyKey(t)') = t
      BY <1>2
    <2>2. \A k : (\E u \in Erased' : MyKey(u)' = k) <=> k = MyKey(t)'
      BY <1>2
    <2>3. {MyKey(u)' : u \in Erased'} = {MyKey(t)'}
      BY <1>2
    <2>4. QED
      BY <2>1, <2>2, <2>3 DEF AbstractMap, Stored
  <1>3. QED
    BY <1>1, <1>2

(* Nobody is in the section while a Replace has erased.                    *)
LEMMA ErasedAlone ==
  ASSUME Safe, NEW t \in Threads
  PROVE  /\ t \in Erased => Erased = {t}
         /\ InSection(t) /\ t \notin Erased => Erased = {}
  <1>1. ASSUME NEW u \in Erased, NEW v \in Threads, v # u
        PROVE  ~InSection(v) /\ v \notin Erased
    <2>1. call[u].op = "Replace" /\ InSection(u) /\ u \in Threads
      BY DEF Erased, Safe, IInv, StepInLock
    <2>2. QED
      BY <1>1, <2>1, StoringAlone DEF Safe, Erased
  <1>2. QED
    BY <1>1 DEF Erased

(* A step of a call that is not about to emplace leaves the set alone.     *)
LEMMA ErasedMoves ==
  ASSUME Safe, NEW t \in Threads, NEW k, call' = [call EXCEPT ![t] = k]
  PROVE  Erased' = IF k.step = "insert" THEN Erased \cup {t} ELSE Erased \ {t}
  BY DEF Safe, IInv, CacheTypeOK, Erased

(* As long as the map stays and nobody starts or ends such a gap, the map  *)
(* the callers see stays too.                                              *)
LEMMA MapUnmoved ==
  ASSUME Safe, CacheTypeOK', NEW t \in Threads, NEW k, call' = [call EXCEPT ![t] = k],
         t \notin Erased, k.step # "insert", map' = map
  PROVE  AbstractMap' = AbstractMap
  <1>1. Erased' = Erased
    BY ErasedMoves
  <1>2. CASE Erased = {}
    BY <1>1, <1>2, MapIsAbstract DEF Safe, IInv
  <1>3. ASSUME NEW u \in Erased PROVE AbstractMap' = AbstractMap
    <2>1. u \in Threads /\ u # t /\ call'[u] = call[u] /\ Erased = {u}
      BY ErasedAlone DEF Erased, Safe, IInv, CacheTypeOK
    <2>2. MyKey(u)' = MyKey(u)
      BY <2>1 DEF MyKey
    <2>3. QED
      BY <1>1, <2>1, <2>2, MapWhileErased
  <1>4. QED
    BY <1>2, <1>3

-------------------------------------------------------------------------------
(* Each step is one of the abstract cache, or none.                        *)

AbstractStep == [Atomic!Next]_(Atomic!vars)

LEMMA SameCardinality == ASSUME NEW S PROVE Atomic!Cardinality(S) = Cardinality(S)
  BY DEF Atomic!Cardinality, Cardinality

LEMMA NoStep ==
  ASSUME AbstractMap' = AbstractMap, AbstractCalls' = AbstractCalls
  PROVE  AbstractStep
  BY DEF AbstractStep, Atomic!vars, AbstractCalls

LEMMA InitAbstract == Init => Atomic!Init
  <1> SUFFICES ASSUME Init PROVE Atomic!Init
    OBVIOUS
  <1>1. Erased = {} /\ CacheTypeOK
    BY InitIInv DEF Init, Erased, NoCall, IInv
  <1>2. AbstractMap = [k \in {} |-> Miss]
    BY <1>1, MapIsAbstract DEF Init
  <1>3. \A t \in Threads : AbstractCall(t) = [op |-> "none"]
    BY DEF Init, AbstractCall
  <1>4. QED
    BY <1>2, <1>3 DEF Atomic!Init, Atomic!Miss, Miss

LEMMA InvokeAbstract ==
  ASSUME RInv, CacheTypeOK', NEW t \in Threads, NEW op \in Ops, NEW item \in Item,
         Invoke(t, op, item)
  PROVE  AbstractStep
  <1> DEFINE k == [op |-> op, item |-> item, result |-> Miss, step |-> "lock"]
  <1>1. /\ call[t] = NoCall /\ call' = [call EXCEPT ![t] = k] /\ map' = map
        /\ k \in Call /\ ~Effected(k)
    BY DEF Invoke, Call, Effected
  <1>2. AbstractMap' = AbstractMap
    <2>1. t \notin Erased /\ k.step # "insert"
      BY <1>1 DEF Erased, NoCall
    <2> HIDE DEF k
    <2>2. QED
      BY <1>1, <2>1, MapUnmoved DEF RInv
  <1>3. AbstractOf(call'[t]) = [op |-> op, item |-> item, done |-> FALSE, result |-> Miss]
    BY <1>1, CallIsRecord, EffectedIsBoolean DEF RInv, Safe, IInv, CacheTypeOK
  <1>4. AbstractCalls[t].op = "none"
    BY <1>1, CallsOneByOne DEF AbstractOf
  <1>5. AbstractCalls' = [AbstractCalls EXCEPT
            ![t] = [op |-> op, item |-> item, done |-> FALSE, result |-> Miss]]
    <2>1. \A u \in Threads : u # t => call'[u] = call[u]
      BY <1>1 DEF RInv, Safe, IInv, CacheTypeOK
    <2>2. \A u \in Threads : u # t => AbstractCalls'[u] = AbstractCalls[u]
      BY <2>1, CallsOneByOne
    <2>3. QED
      BY <1>3, <2>2, CallsOneByOne
  <1>6. Atomic!Invoke(t, op, item)
    BY <1>2, <1>4, <1>5 DEF Atomic!Invoke, Atomic!Miss, Miss, AbstractCalls
  <1>7. QED
    BY <1>6, CacheAssumption DEF AbstractStep, Atomic!Next, Atomic!Item, Item

(* A call that goes on without taking effect.                              *)
LEMMA GotoStutters ==
  ASSUME RInv, CacheTypeOK', NEW t \in Threads, call[t] \in Call, call[t].step = "lock",
         Goto(t, "access"), map' = map
  PROVE  AbstractStep
  <1>1. PICK k \in Call : /\ call' = [call EXCEPT ![t] = k]
                          /\ k.op = call[t].op /\ k.item = call[t].item
                          /\ k.result = call[t].result /\ k.step = "access"
    BY GoneTo DEF RInv, Safe, IInv
  <1>2. t \notin Erased
    BY DEF Erased
  <1>3. AbstractMap' = AbstractMap
    BY <1>1, <1>2, MapUnmoved DEF RInv
  <1>4. AbstractCalls' = AbstractCalls
    BY <1>1, Stutters DEF Effected, RInv, Safe, IInv
  <1>5. QED
    BY <1>3, <1>4, NoStep

(* A call that takes effect and leaves the map: what is left to show is    *)
(* that the abstract operation answers the same.                           *)
LEMMA EffectOnCall ==
  ASSUME RInv, NEW t \in Threads, call[t] \in Call, call[t].step \in {"lock", "access"},
         NEW step \in {"insert", "unlock"}, Goto(t, step)
  PROVE  /\ \E k \in Call : call' = [call EXCEPT ![t] = k] /\ k.step = step
                            /\ k.item = call[t].item
         /\ Atomic!Respond(t, Miss)
         /\ AbstractCalls[t].op = call[t].op /\ AbstractCalls[t].item = call[t].item
         /\ ~AbstractCalls[t].done
  <1>1. PICK k \in Call : /\ call' = [call EXCEPT ![t] = k]
                          /\ k.op = call[t].op /\ k.item = call[t].item
                          /\ k.result = call[t].result /\ k.step = step
    BY GoneTo DEF RInv, Safe, IInv
  <1>2. k.result = Miss
    BY <1>1 DEF RInv, NoAnswerYet
  <1>3. ~Effected(call[t]) /\ Effected(k)
    BY <1>1 DEF Effected
  <1>4. /\ AbstractCalls' = [AbstractCalls EXCEPT ![t].done = TRUE, ![t].result = k.result]
        /\ AbstractCalls[t].op = call[t].op /\ AbstractCalls[t].item = call[t].item
        /\ ~AbstractCalls[t].done
    BY <1>1, <1>3, TakesEffect DEF RInv, Safe, IInv
  <1>5. Atomic!Respond(t, Miss)
    BY <1>2, <1>4 DEF Atomic!Respond, AbstractCalls
  <1>6. QED
    BY <1>1, <1>4, <1>5

(* Get: the answer is the one a look at the abstract map would give.       *)
LEMMA AnswerIsGet ==
  ASSUME RInv, CacheTypeOK', NEW t \in Threads, call[t] \in Call, call[t].op = "Get",
         call[t].step \in {"lock", "access"}, InSection(t), map' = map,
         NEW r \in {Miss} \cup {Hit(i) : i \in Item}, Answer(t, r, "unlock"),
         r = IF MyKey(t) \in DOMAIN map /\ map[MyKey(t)].input = call[t].item.input
               THEN Hit(map[MyKey(t)]) ELSE Miss
  PROVE  AbstractStep
  <1>1. PICK k \in Call : /\ call' = [call EXCEPT ![t] = k]
                          /\ k.op = call[t].op /\ k.item = call[t].item
                          /\ k.result = r /\ k.step = "unlock"
    BY Answered DEF RInv, Safe, IInv
  <1>2. ~Effected(call[t]) /\ Effected(k)
    BY <1>1 DEF Effected
  <1>3. /\ AbstractCalls' = [AbstractCalls EXCEPT ![t].done = TRUE, ![t].result = r]
        /\ AbstractCalls[t].op = "Get" /\ AbstractCalls[t].item = call[t].item
        /\ ~AbstractCalls[t].done
    BY <1>1, <1>2, TakesEffect DEF RInv, Safe, IInv
  <1>4. t \notin Erased /\ Erased = {}
    BY ErasedAlone DEF Erased, RInv
  <1>5. AbstractMap = map /\ AbstractMap' = AbstractMap
    BY <1>1, <1>4, MapIsAbstract, MapUnmoved DEF RInv, Safe, IInv
  <1>6. Atomic!LookUp(call[t].item.input) = r
    BY <1>5 DEF Atomic!LookUp, Atomic!Miss, Miss, Hit, MyKey
  <1>7. Atomic!Get(t)
    BY <1>3, <1>5, <1>6 DEF Atomic!Get, Atomic!Respond, AbstractCalls
  <1>8. QED
    BY <1>7 DEF AbstractStep, Atomic!Next

LEMMA GetAbstract ==
  ASSUME RInv, CacheTypeOK', NEW t \in Threads, GetFind(t) \/ GetCopy(t)
  PROVE  AbstractStep
  <1>1. CASE GetFind(t)
    <2>1. /\ call[t] \in Call /\ call[t].op = "Get" /\ call[t].step = "lock"
          /\ InSection(t) /\ map' = map
      BY <1>1, InCall DEF GetFind, RInv, Safe
    <2>2. \/ Goto(t, "access")
          \/ /\ Answer(t, Miss, "unlock")
             /\ ~(MyKey(t) \in DOMAIN map /\ map[MyKey(t)].input = call[t].item.input)
      BY <1>1 DEF GetFind
    <2>3. QED
      BY <2>1, <2>2, GotoStutters, AnswerIsGet
  <1>2. CASE GetCopy(t)
    <2>1. /\ call[t] \in Call /\ call[t].op = "Get" /\ call[t].step = "access"
          /\ InSection(t) /\ map' = map /\ Answer(t, Hit(map[MyKey(t)]), "unlock")
      BY <1>2, InCall DEF GetCopy, RInv, Safe
    <2>2. /\ MyKey(t) \in DOMAIN map /\ map[MyKey(t)].input = call[t].item.input
          /\ map[MyKey(t)] \in Item
      BY <2>1 DEF RInv, Safe, IInv, HitMatchesInput, CacheTypeOK
    <2>3. QED
      BY <2>1, <2>2, AnswerIsGet
  <1>3. QED
    BY <1>1, <1>2

(* A refusal: the abstract operation refuses too.                          *)
LEMMA RefusalAbstract ==
  ASSUME RInv, CacheTypeOK', NEW t \in Threads, call[t] \in Call,
         call[t].step = "lock", InSection(t), Goto(t, "unlock"), map' = map,
         \/ call[t].op = "Add" /\ (Full \/ MyKey(t) \in DOMAIN map)
         \/ call[t].op = "Replace" /\ Full
  PROVE  AbstractStep
  <1>1. /\ \E k \in Call : /\ call' = [call EXCEPT ![t] = k] /\ k.step = "unlock"
                           /\ k.item = call[t].item
        /\ Atomic!Respond(t, Miss)
        /\ AbstractCalls[t].op = call[t].op /\ AbstractCalls[t].item = call[t].item
        /\ ~AbstractCalls[t].done
    BY EffectOnCall
  <1>2. t \notin Erased /\ Erased = {}
    BY ErasedAlone DEF Erased, RInv
  <1>3. AbstractMap = map /\ AbstractMap' = AbstractMap
    BY <1>1, <1>2, MapIsAbstract, MapUnmoved DEF RInv, Safe, IInv
  <1>4. Full => Atomic!Full
    BY <1>3, SizeAtLookup, SameCardinality DEF Full, Atomic!Full, RInv
  <1>5. CASE call[t].op = "Add"
    <2>1. Atomic!StoreNew(call[t].item)
      BY <1>3, <1>4, <1>5 DEF Atomic!StoreNew, MyKey
    <2>2. Atomic!Add(t)
      BY <1>1, <1>5, <2>1 DEF Atomic!Add, Atomic!Miss, Miss, AbstractCalls
    <2>3. QED
      BY <2>2 DEF AbstractStep, Atomic!Next
  <1>6. CASE call[t].op = "Replace"
    <2>1. Atomic!Replace(t)
      BY <1>1, <1>3, <1>4, <1>6 DEF Atomic!Replace, Atomic!Miss, Miss, AbstractCalls
    <2>2. QED
      BY <2>1 DEF AbstractStep, Atomic!Next
  <1>7. QED
    BY <1>5, <1>6

LEMMA FindAbstract ==
  ASSUME RInv, CacheTypeOK', NEW t \in Threads, AddFind(t) \/ ReplaceFind(t)
  PROVE  AbstractStep
  <1>1. /\ call[t] \in Call /\ call[t].step = "lock" /\ InSection(t) /\ map' = map
    BY InCall DEF AddFind, ReplaceFind, RInv, Safe
  <1>2. \/ Goto(t, "access")
        \/ /\ Goto(t, "unlock")
           /\ \/ call[t].op = "Add" /\ (Full \/ MyKey(t) \in DOMAIN map)
              \/ call[t].op = "Replace" /\ Full
    BY DEF AddFind, ReplaceFind
  <1>3. QED
    BY <1>1, <1>2, GotoStutters, RefusalAbstract

LEMMA AddStoreAbstract ==
  ASSUME RInv, CacheTypeOK', NEW t \in Threads, AddStore(t)
  PROVE  AbstractStep
  <1>1. /\ call[t] \in Call /\ call[t].op = "Add" /\ call[t].step = "access"
        /\ InSection(t) /\ Goto(t, "unlock") /\ Store(MyKey(t), call[t].item)
    BY InCall DEF AddStore, RInv, Safe
  <1>2. /\ \E k \in Call : call' = [call EXCEPT ![t] = k] /\ k.step = "unlock"
        /\ Atomic!Respond(t, Miss)
        /\ AbstractCalls[t].op = "Add" /\ AbstractCalls[t].item = call[t].item
        /\ ~AbstractCalls[t].done
    BY <1>1, EffectOnCall
  <1>3. Erased = {} /\ Erased' = {}
    BY <1>1, <1>2, ErasedAlone, ErasedMoves DEF Erased, RInv
  <1>4. AbstractMap = map /\ AbstractMap' = map'
    BY <1>3, MapIsAbstract DEF RInv, Safe, IInv
  <1>5. ~Atomic!Full /\ MyKey(t) \notin DOMAIN map
    <2>1. size < Cap /\ MyKey(t) \notin DOMAIN map /\ size \in Nat
      BY <1>1 DEF RInv, Safe, IInv, AddHasRoom, CacheTypeOK
    <2>2. size = Cardinality(DOMAIN map)
      BY <1>1, SizeAtLookup DEF RInv
    <2>3. QED
      BY <1>4, <2>1, <2>2, CacheAssumption, SameCardinality DEF Atomic!Full
  <1>6. Atomic!StoreNew(call[t].item)
    BY <1>1, <1>4, <1>5 DEF Atomic!StoreNew, Atomic!Store, Store, MyKey
  <1>7. Atomic!Add(t)
    BY <1>2, <1>6 DEF Atomic!Add, Atomic!Miss, Miss, AbstractCalls
  <1>8. QED
    BY <1>7 DEF AbstractStep, Atomic!Next

LEMMA ReplaceEraseAbstract ==
  ASSUME RInv, CacheTypeOK', NEW t \in Threads, ReplaceErase(t)
  PROVE  AbstractStep
  <1>1. /\ call[t] \in Call /\ call[t].op = "Replace" /\ call[t].step = "access"
        /\ InSection(t) /\ Goto(t, "insert")
        /\ map' = [j \in DOMAIN map \ {MyKey(t)} |-> map[j]]
    BY InCall DEF ReplaceErase, Restrict, RInv, Safe, IInv, CacheTypeOK
  <1>2. PICK k \in Call : /\ call' = [call EXCEPT ![t] = k] /\ k.step = "insert"
                          /\ k.item = call[t].item
    BY <1>1, EffectOnCall
  <1>3. /\ Atomic!Respond(t, Miss)
        /\ AbstractCalls[t].op = "Replace" /\ AbstractCalls[t].item = call[t].item
        /\ ~AbstractCalls[t].done
    BY <1>1, EffectOnCall
  <1>4. Erased = {} /\ Erased' = {t}
    BY <1>1, <1>2, ErasedAlone, ErasedMoves DEF Erased, RInv
  <1>5. call'[t].item = call[t].item /\ MyKey(t)' = MyKey(t)
    BY <1>2 DEF MyKey, RInv, Safe, IInv, CacheTypeOK
  <1>6. AbstractMap = map /\ AbstractMap' = Stored(map', MyKey(t), call[t].item)
    BY <1>4, <1>5, MapIsAbstract, MapWhileErased DEF RInv, Safe, IInv
  <1>7. Stored(map', MyKey(t), call[t].item) = Stored(map, MyKey(t), call[t].item)
    BY <1>1 DEF Stored
  <1>8. ~Atomic!Full
    <2>1. Cardinality(DOMAIN map) < Cap /\ Cardinality(DOMAIN map) \in Nat
      BY <1>1, FS_CardinalityType DEF RInv, Safe, IInv, SizeCounts, ReplaceHasRoom
    <2>2. QED
      BY <1>6, <2>1, CacheAssumption, SameCardinality DEF Atomic!Full
  <1>9. Atomic!Replace(t)
    BY <1>3, <1>6, <1>7, <1>8
       DEF Atomic!Replace, Atomic!Store, Stored, Atomic!Miss, Miss, AbstractCalls, MyKey
  <1>10. QED
    BY <1>9 DEF AbstractStep, Atomic!Next

LEMMA ReplaceStoreAbstract ==
  ASSUME RInv, CacheTypeOK', NEW t \in Threads, ReplaceStore(t)
  PROVE  AbstractStep
  <1>1. /\ call[t] \in Call /\ call[t].op = "Replace" /\ call[t].step = "insert"
        /\ InSection(t) /\ Goto(t, "unlock") /\ Store(MyKey(t), call[t].item)
    BY InCall DEF ReplaceStore, RInv, Safe
  <1>2. PICK k \in Call : /\ call' = [call EXCEPT ![t] = k]
                          /\ k.op = call[t].op /\ k.item = call[t].item
                          /\ k.result = call[t].result /\ k.step = "unlock"
    BY <1>1, GoneTo DEF RInv, Safe, IInv
  <1>3. Erased = {t} /\ Erased' = {}
    BY <1>1, <1>2, ErasedAlone, ErasedMoves DEF Erased, RInv
  <1>4. AbstractMap' = AbstractMap
    BY <1>1, <1>3, MapIsAbstract, MapWhileErased DEF Store, Stored
  <1>5. AbstractCalls' = AbstractCalls
    BY <1>1, <1>2, Stutters DEF Effected, RInv, Safe, IInv
  <1>6. QED
    BY <1>4, <1>5, NoStep

LEMMA ReleaseAbstract ==
  ASSUME RInv, CacheTypeOK', NEW t \in Threads, Release(t)
  PROVE  AbstractStep
  <1>1. /\ call[t] \in Call /\ call[t].step = "unlock" /\ map' = map
        /\ call' = [call EXCEPT ![t] = NoCall]
    BY InCall DEF Release, RInv, Safe
  <1>2. AbstractMap' = AbstractMap
    <2>1. t \notin Erased /\ NoCall.step # "insert"
      BY <1>1 DEF Erased, NoCall
    <2>2. QED
      BY <1>1, <2>1, MapUnmoved DEF RInv
  <1>3. AbstractCalls[t].op # "none" /\ AbstractCalls[t].done
    <2>1. AbstractCalls[t] = [op |-> call[t].op, item |-> call[t].item,
                              done |-> TRUE, result |-> call[t].result]
      BY <1>1, CallIsRecord, CallsOneByOne, EffectedIsBoolean DEF Effected
    <2>2. call[t].op # "none"
      BY <1>1, CacheAssumption DEF Call
    <2>3. QED
      BY <2>1, <2>2
  <1>4. AbstractCalls' = [AbstractCalls EXCEPT ![t] = [op |-> "none"]]
    <2>1. call'[t] = NoCall /\ \A u \in Threads : u # t => call'[u] = call[u]
      BY <1>1 DEF RInv, Safe, IInv, CacheTypeOK
    <2>2. QED
      BY <2>1, CallsOneByOne DEF AbstractOf
  <1>5. Atomic!Return(t)
    BY <1>2, <1>3, <1>4 DEF Atomic!Return, AbstractCalls
  <1>6. QED
    BY <1>5 DEF AbstractStep, Atomic!Next

LEMMA NextAbstract ==
  ASSUME RInv, CacheTypeOK', [Next]_vars
  PROVE  AbstractStep
  <1>1. CASE NewCall
    BY <1>1, InvokeAbstract DEF NewCall
  <1>2. ASSUME UNCHANGED <<map, call>> PROVE AbstractStep
    <2>1. \A t \in Threads : MyKey(t)' = MyKey(t)
      BY <1>2 DEF MyKey
    <2>2. AbstractMap' = AbstractMap
      BY <1>2 DEF AbstractMap, Erased, MyKey
    <2>3. AbstractCalls' = AbstractCalls
      BY <1>2, CallsOneByOne
    <2>4. QED
      BY <2>2, <2>3, NoStep
  <1>3. ASSUME NEW t \in Threads, Acquire(t) \/ SpuriousWakeup(t) PROVE AbstractStep
    BY <1>2, <1>3 DEF Acquire, SpuriousWakeup
  <1>4. ASSUME NEW t \in Threads, Proceed(t) PROVE AbstractStep
    BY <1>3, <1>4, GetAbstract, FindAbstract, AddStoreAbstract, ReplaceEraseAbstract,
       ReplaceStoreAbstract, ReleaseAbstract DEF Proceed
  <1>5. CASE UNCHANGED vars
    BY <1>2, <1>5 DEF vars
  <1>6. QED
    BY <1>1, <1>3, <1>4, <1>5 DEF Next

(* Get, Add and Replace are linearizable, for any number of threads, any   *)
(* inputs and any hash function.                                           *)
THEOREM Refinement == Spec => ImplementsAtomicCache
  <1>1. Spec => Init /\ [][Next]_vars /\ []RInv
    BY RoomInvariance DEF Spec
  <1>2. RInv => CacheTypeOK
    BY DEF RInv, Safe, IInv
  <1>3. RInv /\ CacheTypeOK' /\ [Next]_vars => [Atomic!Next]_(Atomic!vars)
    BY NextAbstract DEF AbstractStep
  <1>4. QED
    BY <1>1, <1>2, <1>3, InitAbstract, PTL DEF ImplementsAtomicCache, Atomic!Spec
===============================================================================
