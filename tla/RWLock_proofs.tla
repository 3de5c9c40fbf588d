----------------------------- MODULE RWLock_proofs -----------------------------
(***************************************************************************)
(* Proofs about RWLock, for every finite set of threads: the inductive     *)
(* invariant IInv, hence mutual exclusion, exact counters and no lost      *)
(* wake-up, and the refinement of AbstractRWLock.                          *)
(***************************************************************************)
EXTENDS RWLock, FiniteSetTheorems, TLAPS

USE ThreadsFinite

(* Adding a thread to, or removing one from, a set of threads.             *)
LEMMA CountThreads ==
  ASSUME NEW S \in SUBSET Threads, NEW t \in Threads
  PROVE  /\ Cardinality(S) \in Nat
         /\ Cardinality(S) = 0 <=> S = {}
         /\ Cardinality(S \cup {t}) = IF t \in S THEN Cardinality(S)
                                                 ELSE Cardinality(S) + 1
         /\ Cardinality(S \ {t}) = IF t \in S THEN Cardinality(S) - 1
                                              ELSE Cardinality(S)
  <1>1. IsFiniteSet(S)
    BY FS_Subset
  <1>2. QED
    BY <1>1, FS_CardinalityType, FS_EmptySet, FS_AddElement, FS_RemoveElement

(* What Exclusion says of the two sets of holders.                         *)
LEMMA HolderSets ==
  ASSUME TypeOK, Exclusion
  PROVE  /\ Writers # {} => Readers = {}
         /\ \A t \in Writers : Writers = {t}
  BY DEF TypeOK, Exclusion, Writers, Readers

(* The counters of a state of the invariant tell which sets are empty.     *)
LEMMA CountersTell ==
  ASSUME IInv
  PROVE  /\ status = -1 <=> Writers # {}
         /\ status = 0 <=> Writers = {} /\ Readers = {}
         /\ status >= 0 <=> Writers = {}
         /\ waitingWriters = 0 <=> WriteWaiters = {}
         /\ waitingReaders = 0 <=> ReadWaiters = {}
  <1>1. CASE Threads = {}
    BY <1>1, FS_EmptySet
       DEF IInv, CountersAgree, Writers, Readers, WriteWaiters, ReadWaiters
  <1>2. CASE Threads # {}
    <2>1. PICK t \in Threads : TRUE
      BY <1>2
    <2>2. /\ Readers \in SUBSET Threads
          /\ WriteWaiters \in SUBSET Threads
          /\ ReadWaiters \in SUBSET Threads
      BY DEF Readers, WriteWaiters, ReadWaiters
    <2>3. /\ Cardinality(Readers) \in Nat
          /\ Cardinality(Readers) = 0 <=> Readers = {}
          /\ Cardinality(WriteWaiters) = 0 <=> WriteWaiters = {}
          /\ Cardinality(ReadWaiters) = 0 <=> ReadWaiters = {}
      BY <2>1, <2>2, CountThreads
    <2>4. QED
      BY <2>3 DEF IInv, CountersAgree
  <1>3. QED
    BY <1>1, <1>2

LEMMA InitIInv == Init => IInv
  <1> SUFFICES ASSUME Init PROVE IInv
    OBVIOUS
  <1>1. Readers = {} /\ Writers = {} /\ ReadWaiters = {} /\ WriteWaiters = {}
    BY DEF Init, Readers, Writers, ReadWaiters, WriteWaiters
  <1>2. CountersAgree
    BY <1>1, FS_EmptySet DEF Init, CountersAgree
  <1>3. TypeOK
    BY DEF Init, TypeOK, Phase
  <1>4. Exclusion /\ NoStrandedReader
    BY DEF Init, Exclusion, NoStrandedReader
  <1>5. NoStrandedWriter
    BY <1>1 DEF NoStrandedWriter
  <1>6. QED
    BY <1>2, <1>3, <1>4, <1>5 DEF IInv

-------------------------------------------------------------------------------
(* One lemma per action: the action preserves the invariant.               *)

LEMMA RdlockEnterIInv ==
  ASSUME IInv, NEW t \in Threads, RdlockEnter(t)
  PROVE  IInv'
  <1> USE DEF IInv
  <1>1. TypeOK'
    BY DEF TypeOK, RdlockEnter, MayRead, Phase
  <1>2. CASE MayRead
    <2>1. /\ at' = [at EXCEPT ![t] = "reading"]
          /\ status' = status + 1
          /\ UNCHANGED <<waitingReaders, waitingWriters>>
          /\ at[t] = "idle"
      BY <1>2 DEF RdlockEnter
    <2>2. Writers = {} /\ WriteWaiters = {}
      BY <1>2, CountersTell DEF MayRead
    <2>3. /\ Readers' = Readers \cup {t}
          /\ Writers' = Writers
          /\ ReadWaiters' = ReadWaiters
          /\ WriteWaiters' = WriteWaiters
      BY <2>1 DEF TypeOK, Readers, Writers, ReadWaiters, WriteWaiters
    <2>4. t \notin Readers /\ Readers \in SUBSET Threads
      BY <2>1 DEF Readers
    <2>5. CountersAgree'
      BY <2>1, <2>2, <2>3, <2>4, CountThreads DEF CountersAgree, TypeOK
    <2>6. Exclusion'
      BY <2>1, <2>2 DEF Exclusion, TypeOK, Writers
    <2>7. NoStrandedWriter'
      BY <2>2, <2>3 DEF NoStrandedWriter
    <2>8. NoStrandedReader'
      BY <1>2, <2>1 DEF NoStrandedReader, TypeOK, MayRead
    <2>9. QED
      BY <1>1, <2>5, <2>6, <2>7, <2>8
  <1>3. CASE ~MayRead
    <2>1. /\ at' = [at EXCEPT ![t] = "rdsleep"]
          /\ waitingReaders' = waitingReaders + 1
          /\ UNCHANGED <<status, waitingWriters>>
          /\ at[t] = "idle"
      BY <1>3 DEF RdlockEnter
    <2>3. /\ Readers' = Readers
          /\ Writers' = Writers
          /\ ReadWaiters' = ReadWaiters \cup {t}
          /\ WriteWaiters' = WriteWaiters
      BY <2>1 DEF TypeOK, Readers, Writers, ReadWaiters, WriteWaiters
    <2>4. t \notin ReadWaiters /\ ReadWaiters \in SUBSET Threads
      BY <2>1 DEF ReadWaiters
    <2>5. CountersAgree'
      BY <2>1, <2>3, <2>4, CountThreads DEF CountersAgree, TypeOK
    <2>6. Exclusion'
      BY <2>1 DEF Exclusion, TypeOK
    <2>7. NoStrandedWriter'
      BY <2>1, <2>3 DEF NoStrandedWriter, TypeOK
    <2>8. NoStrandedReader'
      BY <1>3, <2>1 DEF NoStrandedReader, TypeOK, MayRead
    <2>9. QED
      BY <1>1, <2>5, <2>6, <2>7, <2>8
  <1>4. QED
    BY <1>2, <1>3

LEMMA RdlockRetryIInv ==
  ASSUME IInv, NEW t \in Threads, RdlockRetry(t)
  PROVE  IInv'
  <1> USE DEF IInv
  <1>1. CASE MayRead
    <2>1. /\ at' = [at EXCEPT ![t] = "reading"]
          /\ status' = status + 1
          /\ waitingReaders' = waitingReaders - 1
          /\ UNCHANGED waitingWriters
          /\ at[t] = "rdready"
      BY <1>1 DEF RdlockRetry
    <2>2. Writers = {} /\ WriteWaiters = {}
      BY <1>1, CountersTell DEF MayRead
    <2>3. /\ Readers' = Readers \cup {t}
          /\ Writers' = Writers
          /\ ReadWaiters' = ReadWaiters \ {t}
          /\ WriteWaiters' = WriteWaiters
      BY <2>1 DEF TypeOK, Readers, Writers, ReadWaiters, WriteWaiters
    <2>4. /\ t \notin Readers /\ Readers \in SUBSET Threads
          /\ t \in ReadWaiters /\ ReadWaiters \in SUBSET Threads
          /\ ReadWaiters \ {t} \in SUBSET Threads
      BY <2>1 DEF Readers, ReadWaiters
    <2>5. /\ Cardinality(Readers \cup {t}) = Cardinality(Readers) + 1
          /\ Cardinality(ReadWaiters \ {t}) = Cardinality(ReadWaiters) - 1
          /\ Cardinality(ReadWaiters \ {t}) \in Nat
      BY <2>4, CountThreads
    <2>6. CountersAgree'
      BY <2>1, <2>2, <2>3, <2>5 DEF CountersAgree
    <2>7. TypeOK'
      BY <1>1, <2>1, <2>5 DEF TypeOK, CountersAgree, MayRead, Phase
    <2>8. Exclusion'
      BY <2>1, <2>2 DEF Exclusion, TypeOK, Writers
    <2>9. NoStrandedWriter'
      BY <2>2, <2>3 DEF NoStrandedWriter
    <2>10. NoStrandedReader'
      BY <1>1, <2>1 DEF NoStrandedReader, TypeOK, MayRead
    <2>11. QED
      BY <2>6, <2>7, <2>8, <2>9, <2>10
  <1>2. CASE ~MayRead
    <2>1. /\ at' = [at EXCEPT ![t] = "rdsleep"]
          /\ UNCHANGED <<status, waitingReaders, waitingWriters>>
          /\ at[t] = "rdready"
      BY <1>2 DEF RdlockRetry
    <2>2. UNCHANGED <<Readers, Writers, ReadWaiters, WriteWaiters>>
      BY <2>1 DEF TypeOK, Readers, Writers, ReadWaiters, WriteWaiters
    <2>3. TypeOK'
      BY <2>1 DEF TypeOK, Phase
    <2>4. CountersAgree'
      BY <2>1, <2>2 DEF CountersAgree
    <2>5. Exclusion' /\ NoStrandedReader'
      BY <1>2, <2>1 DEF Exclusion, NoStrandedReader, TypeOK, MayRead
    <2>6. NoStrandedWriter'
      BY <2>1, <2>2 DEF NoStrandedWriter, TypeOK
    <2>7. QED
      BY <2>3, <2>4, <2>5, <2>6
  <1>3. QED
    BY <1>1, <1>2

LEMMA WrlockEnterIInv ==
  ASSUME IInv, NEW t \in Threads, WrlockEnter(t)
  PROVE  IInv'
  <1> USE DEF IInv
  <1>1. TypeOK'
    BY DEF TypeOK, WrlockEnter, Phase
  <1>2. CASE MayWrite
    <2>1. /\ at' = [at EXCEPT ![t] = "writing"]
          /\ status' = -1
          /\ UNCHANGED <<waitingReaders, waitingWriters>>
          /\ at[t] = "idle"
      BY <1>2 DEF WrlockEnter
    <2>2. Writers = {} /\ Readers = {}
      BY <1>2, CountersTell DEF MayWrite
    <2>3. /\ Readers' = Readers
          /\ Writers' = {t}
          /\ ReadWaiters' = ReadWaiters
          /\ WriteWaiters' = WriteWaiters
      BY <2>1, <2>2 DEF TypeOK, Readers, Writers, ReadWaiters, WriteWaiters
    <2>4. CountersAgree'
      BY <2>1, <2>3 DEF CountersAgree
    <2>5. Exclusion'
      BY <2>1, <2>2 DEF Exclusion, TypeOK, Writers, Readers
    <2>6. NoStrandedWriter' /\ NoStrandedReader'
      BY <2>1 DEF NoStrandedWriter, NoStrandedReader
    <2>7. QED
      BY <1>1, <2>4, <2>5, <2>6
  <1>3. CASE ~MayWrite
    <2>1. /\ at' = [at EXCEPT ![t] = "wrsleep"]
          /\ waitingWriters' = waitingWriters + 1
          /\ UNCHANGED <<status, waitingReaders>>
          /\ at[t] = "idle"
      BY <1>3 DEF WrlockEnter
    <2>2. /\ Readers' = Readers
          /\ Writers' = Writers
          /\ ReadWaiters' = ReadWaiters
          /\ WriteWaiters' = WriteWaiters \cup {t}
      BY <2>1 DEF TypeOK, Readers, Writers, ReadWaiters, WriteWaiters
    <2>3. t \notin WriteWaiters /\ WriteWaiters \in SUBSET Threads
      BY <2>1 DEF WriteWaiters
    <2>4. CountersAgree'
      BY <2>1, <2>2, <2>3, CountThreads DEF CountersAgree
    <2>5. Exclusion'
      BY <2>1 DEF Exclusion, TypeOK
    <2>6. NoStrandedWriter'
      BY <1>3, <2>1 DEF NoStrandedWriter, MayWrite
    <2>7. NoStrandedReader'
      BY <2>1 DEF NoStrandedReader, TypeOK
    <2>8. QED
      BY <1>1, <2>4, <2>5, <2>6, <2>7
  <1>4. QED
    BY <1>2, <1>3

LEMMA WrlockRetryIInv ==
  ASSUME IInv, NEW t \in Threads, WrlockRetry(t)
  PROVE  IInv'
  <1> USE DEF IInv
  <1>1. CASE MayWrite
    <2>1. /\ at' = [at EXCEPT ![t] = "writing"]
          /\ status' = -1
          /\ waitingWriters' = waitingWriters - 1
          /\ UNCHANGED waitingReaders
          /\ at[t] = "wrready"
      BY <1>1 DEF WrlockRetry
    <2>2. Writers = {} /\ Readers = {}
      BY <1>1, CountersTell DEF MayWrite
    <2>3. /\ Readers' = Readers
          /\ Writers' = {t}
          /\ ReadWaiters' = ReadWaiters
          /\ WriteWaiters' = WriteWaiters \ {t}
      BY <2>1, <2>2 DEF TypeOK, Readers, Writers, ReadWaiters, WriteWaiters
    <2>4. t \in WriteWaiters /\ WriteWaiters \in SUBSET Threads
          /\ WriteWaiters \ {t} \in SUBSET Threads
      BY <2>1 DEF WriteWaiters
    <2>5. /\ Cardinality(WriteWaiters \ {t}) = Cardinality(WriteWaiters) - 1
          /\ Cardinality(WriteWaiters \ {t}) \in Nat
      BY <2>4, CountThreads
    <2>6. CountersAgree'
      BY <2>1, <2>3, <2>5 DEF CountersAgree
    <2>7. TypeOK'
      BY <2>1, <2>5 DEF TypeOK, CountersAgree, Phase
    <2>8. Exclusion'
      BY <2>1, <2>2 DEF Exclusion, TypeOK, Writers, Readers
    <2>9. NoStrandedWriter' /\ NoStrandedReader'
      BY <2>1 DEF NoStrandedWriter, NoStrandedReader
    <2>10. QED
      BY <2>6, <2>7, <2>8, <2>9
  <1>2. CASE ~MayWrite
    <2>1. /\ at' = [at EXCEPT ![t] = "wrsleep"]
          /\ UNCHANGED <<status, waitingReaders, waitingWriters>>
          /\ at[t] = "wrready"
      BY <1>2 DEF WrlockRetry
    <2>2. UNCHANGED <<Readers, Writers, ReadWaiters, WriteWaiters>>
      BY <2>1 DEF TypeOK, Readers, Writers, ReadWaiters, WriteWaiters
    <2>3. TypeOK'
      BY <2>1 DEF TypeOK, Phase
    <2>4. CountersAgree'
      BY <2>1, <2>2 DEF CountersAgree
    <2>5. Exclusion' /\ NoStrandedReader'
      BY <2>1 DEF Exclusion, NoStrandedReader, TypeOK
    <2>6. NoStrandedWriter'
      BY <1>2, <2>1 DEF NoStrandedWriter, MayWrite
    <2>7. QED
      BY <2>3, <2>4, <2>5, <2>6
  <1>3. QED
    BY <1>1, <1>2

LEMMA SpuriousWakeupIInv ==
  ASSUME IInv, NEW t \in Threads, SpuriousWakeup(t)
  PROVE  IInv'
  <1> USE DEF IInv
  <1>1. UNCHANGED <<status, waitingReaders, waitingWriters>>
    BY DEF SpuriousWakeup
  <1>2. UNCHANGED <<Readers, Writers, ReadWaiters, WriteWaiters>>
    BY DEF SpuriousWakeup, TypeOK, Readers, Writers, ReadWaiters, WriteWaiters
  <1>3. TypeOK'
    BY DEF SpuriousWakeup, TypeOK, Phase
  <1>4. CountersAgree'
    BY <1>1, <1>2 DEF CountersAgree
  <1>5. Exclusion' /\ NoStrandedReader'
    BY <1>1 DEF SpuriousWakeup, Exclusion, NoStrandedReader, TypeOK
  <1>6. NoStrandedWriter'
    BY <1>1, <1>2 DEF SpuriousWakeup, NoStrandedWriter, TypeOK
  <1>7. QED
    BY <1>3, <1>4, <1>5, <1>6

(* Whatever unlock() notifies, its caller alone leaves the holders, every  *)
(* waiter stays a waiter, and _status counts the readers that are left.    *)
LEMMA UnlockSets ==
  ASSUME IInv, NEW t \in Threads, Unlock(t)
  PROVE  /\ at' \in [Threads -> Phase]
         /\ Readers' = Readers \ {t}
         /\ Writers' = {}
         /\ ReadWaiters' = ReadWaiters
         /\ WriteWaiters' = WriteWaiters
         /\ status' = Cardinality(Readers \ {t})
         /\ status' \in Nat
  <1> USE DEF IInv
  <1>1. Writers \subseteq {t}
    BY DEF Unlock, Exclusion, Writers
  <1>2. /\ at' \in [Threads -> Phase]
        /\ at'[t] = "idle"
        /\ \A u \in Threads \ {t} :
              \/ at'[u] = at[u]
              \/ at[u] = "wrsleep" /\ at'[u] = "wrready"
              \/ at[u] = "rdsleep" /\ at'[u] = "rdready"
    BY DEF Unlock, NotifyOneWriter, NotifyAllReaders, TypeOK, Phase
  <1>3. at[t] \in {"reading", "writing"}
    BY DEF Unlock
  <1>4. /\ Readers' = Readers \ {t}
        /\ Writers' = {}
        /\ ReadWaiters' = ReadWaiters
        /\ WriteWaiters' = WriteWaiters
    BY <1>1, <1>2, <1>3 DEF Readers, Writers, ReadWaiters, WriteWaiters
  <1>5. status' = Cardinality(Readers \ {t})
    <2>1. CASE at[t] = "writing"
      <3>1. Writers # {} /\ Readers = {}
        BY <2>1, HolderSets DEF Writers
      <3>2. status = -1 /\ Readers \ {t} = {}
        BY <3>1, CountersTell
      <3>3. QED
        BY <3>2, FS_EmptySet DEF Unlock, StatusAfterUnlock
    <2>2. CASE at[t] = "reading"
      <3>1. Writers = {} /\ t \in Readers /\ Readers \in SUBSET Threads
        BY <1>1, <2>2 DEF Writers, Readers
      <3>2. status = Cardinality(Readers) /\ status # -1
        BY <3>1, CountersTell DEF CountersAgree
      <3>3. Cardinality(Readers \ {t}) = Cardinality(Readers) - 1
        BY <3>1, CountThreads
      <3>4. QED
        BY <3>2, <3>3 DEF Unlock, StatusAfterUnlock
    <2>3. QED
      BY <1>3, <2>1, <2>2
  <1>6. Readers \ {t} \in SUBSET Threads
    BY DEF Readers
  <1>7. QED
    BY <1>2, <1>4, <1>5, <1>6, CountThreads

LEMMA UnlockIInv ==
  ASSUME IInv, NEW t \in Threads, Unlock(t)
  PROVE  IInv'
  <1> USE DEF IInv
  <1>1. /\ at' \in [Threads -> Phase]
        /\ Readers' = Readers \ {t}
        /\ Writers' = {}
        /\ ReadWaiters' = ReadWaiters
        /\ WriteWaiters' = WriteWaiters
        /\ status' = Cardinality(Readers \ {t})
        /\ status' \in Nat
    BY UnlockSets
  <1>2. UNCHANGED <<waitingReaders, waitingWriters>>
    BY DEF Unlock
  <1>3. TypeOK'
    BY <1>1, <1>2 DEF TypeOK
  <1>4. CountersAgree'
    BY <1>1, <1>2 DEF CountersAgree
  <1>5. Exclusion'
    BY <1>1 DEF Exclusion, Writers
  <1>6. NoStrandedWriter'
    <2> SUFFICES ASSUME status' = 0, WriteWaiters # {}
                 PROVE  \E w \in Threads : at'[w] = "wrready"
      BY <1>1 DEF NoStrandedWriter
    <2>1. waitingWriters > 0
      BY CountersTell DEF TypeOK
    <2>2. StatusAfterUnlock = 0 /\ NotifyOneWriter(t)
      BY <2>1 DEF Unlock
    <2>3. CASE \E w \in Threads : at[w] = "wrsleep"
      BY <2>2, <2>3 DEF NotifyOneWriter, TypeOK, Unlock
    <2>4. CASE ~ \E w \in Threads : at[w] = "wrsleep"
      BY <2>2, <2>4 DEF NotifyOneWriter, TypeOK, Unlock, WriteWaiters
    <2>5. QED
      BY <2>3, <2>4
  <1>7. NoStrandedReader'
    BY <1>2 DEF NoStrandedReader, Unlock, NotifyAllReaders, TypeOK
  <1>8. QED
    BY <1>3, <1>4, <1>5, <1>6, <1>7

(* The invariant is inductive.                                             *)
LEMMA NextIInv == IInv /\ [Next]_vars => IInv'
  <1> SUFFICES ASSUME IInv, [Next]_vars PROVE IInv'
    OBVIOUS
  <1>1. ASSUME NEW t \in Threads, RdlockEnter(t) PROVE IInv'
    BY <1>1, RdlockEnterIInv
  <1>2. ASSUME NEW t \in Threads, RdlockRetry(t) PROVE IInv'
    BY <1>2, RdlockRetryIInv
  <1>3. ASSUME NEW t \in Threads, WrlockEnter(t) PROVE IInv'
    BY <1>3, WrlockEnterIInv
  <1>4. ASSUME NEW t \in Threads, WrlockRetry(t) PROVE IInv'
    BY <1>4, WrlockRetryIInv
  <1>5. ASSUME NEW t \in Threads, SpuriousWakeup(t) PROVE IInv'
    BY <1>5, SpuriousWakeupIInv
  <1>6. ASSUME NEW t \in Threads, Unlock(t) PROVE IInv'
    BY <1>6, UnlockIInv
  <1>7. CASE UNCHANGED vars
    BY <1>7 DEF vars, IInv, TypeOK, Exclusion, CountersAgree, NoStrandedWriter,
                NoStrandedReader, Readers, Writers, ReadWaiters, WriteWaiters
  <1>8. QED
    BY <1>1, <1>2, <1>3, <1>4, <1>5, <1>6, <1>7 DEF Next

-------------------------------------------------------------------------------
(* The theorems.                                                           *)

(* The inductive invariant holds in every reachable state.                 *)
THEOREM Invariance == Spec => []IInv
  BY InitIInv, NextIInv, PTL DEF Spec

(* _status never drops below -1 and the waiting counts never below zero,   *)
(* so the unsigned view rdlock/wrlock take of them is sound.               *)
THEOREM TypeCorrect == Spec => []TypeOK
  <1>1. IInv => TypeOK
    BY DEF IInv
  <1>2. QED
    BY <1>1, Invariance, PTL

(* wrlock() gives exclusive access, whatever the number of threads.        *)
THEOREM MutualExclusion == Spec => []Exclusion
  <1>1. IInv => Exclusion
    BY DEF IInv
  <1>2. QED
    BY <1>1, Invariance, PTL

(* The three counters of class RWLock always describe the threads.         *)
THEOREM CountersExact == Spec => []CountersAgree
  <1>1. IInv => CountersAgree
    BY DEF IInv
  <1>2. QED
    BY <1>1, Invariance, PTL

(* unlock() never loses a wake-up: neither a writer nor a reader that      *)
(* could proceed is left asleep with nobody awake to make progress.        *)
THEOREM NoLostWakeup == Spec => [](NoStrandedWriter /\ NoStrandedReader)
  <1>1. IInv => NoStrandedWriter /\ NoStrandedReader
    BY DEF IInv
  <1>2. QED
    BY <1>1, Invariance, PTL

(* No reader sleeps while neither a writer nor a waiting writer bars it.   *)
THEOREM NoReaderLeftAsleep == Spec => []NoStrandedReader
  <1>1. NoStrandedWriter /\ NoStrandedReader => NoStrandedReader
    OBVIOUS
  <1>2. QED
    BY <1>1, NoLostWakeup, PTL

(* One step of the lock is one step, or no step, of the abstract lock.     *)
LEMMA StepImplementsAbstract ==
  ASSUME IInv, [Next]_vars
  PROVE  [Abstract!Next]_(Abstract!vars)
  <1> USE DEF IInv, Abstract!vars
  <1>1. ASSUME NEW t \in Threads, RdlockEnter(t) \/ RdlockRetry(t),
               MayRead, at'[t] = "reading"
        PROVE  Abstract!AcquireRead(t)
    BY <1>1, CountersTell
       DEF Abstract!AcquireRead, RdlockEnter, RdlockRetry, MayRead, TypeOK,
           Readers, Writers
  <1>2. ASSUME NEW t \in Threads, WrlockEnter(t) \/ WrlockRetry(t), MayWrite
        PROVE  Abstract!AcquireWrite(t)
    <2>1. Writers = {} /\ Readers = {}
      BY <1>2, CountersTell DEF MayWrite
    <2>2. at' = [at EXCEPT ![t] = "writing"]
      BY <1>2 DEF WrlockEnter, WrlockRetry
    <2>3. QED
      BY <2>1, <2>2 DEF Abstract!AcquireWrite, TypeOK, Readers, Writers
  <1>3. ASSUME NEW t \in Threads, Unlock(t)
        PROVE  Abstract!Release(t)
    <2>1. Readers' = Readers \ {t} /\ Writers' = {}
      BY <1>3, UnlockSets
    <2>2. t \in Readers \cup Writers /\ Writers \subseteq {t}
      BY <1>3 DEF Unlock, Exclusion, Readers, Writers
    <2>3. QED
      BY <2>1, <2>2 DEF Abstract!Release
  <1>4. ASSUME NEW t \in Threads,
               \/ RdlockEnter(t) /\ ~MayRead
               \/ RdlockRetry(t) /\ ~MayRead
               \/ WrlockEnter(t) /\ ~MayWrite
               \/ WrlockRetry(t) /\ ~MayWrite
               \/ SpuriousWakeup(t)
        PROVE  UNCHANGED <<Readers, Writers>>
    BY <1>4 DEF RdlockEnter, RdlockRetry, WrlockEnter, WrlockRetry,
                SpuriousWakeup, TypeOK, Readers, Writers
  <1>5. CASE UNCHANGED vars
    BY <1>5 DEF vars, Readers, Writers
  <1>6. ASSUME NEW t \in Threads, RdlockEnter(t) \/ RdlockRetry(t), MayRead
        PROVE  at'[t] = "reading"
    BY <1>6 DEF RdlockEnter, RdlockRetry, TypeOK
  <1>7. QED
    BY <1>1, <1>2, <1>3, <1>4, <1>5, <1>6 DEF Next, Abstract!Next

(* The lock with counters and condition variables implements the abstract  *)
(* reader/writer lock its callers rely on.                                 *)
THEOREM Refinement == Spec => ImplementsAbstract
  <1>1. Init => Abstract!Init
    BY DEF Init, Abstract!Init, Readers, Writers
  <1>2. IInv /\ [Next]_vars => [Abstract!Next]_(Abstract!vars)
    BY StepImplementsAbstract
  <1>3. QED
    BY <1>1, <1>2, Invariance, PTL DEF Spec, ImplementsAbstract, Abstract!Spec
===============================================================================
