-------------------------------- MODULE RWLock --------------------------------
(***************************************************************************)
(* The reader/writer lock of the tiling layer: class RWLock in             *)
(* matmul/common/op_host/op_tiling/lock.{h,cpp}.  Every statement of       *)
(* rdlock, wrlock and unlock runs with _mtx held and the mutex is given up *)
(* only inside condition_variable::wait, so a step of the model is the     *)
(* code a thread runs from taking _mtx to giving it up: from the call to   *)
(* the wait or the return, or from one wake-up to the next wait or return. *)
(***************************************************************************)
EXTENDS Integers, FiniteSets

CONSTANT Threads    \* the host threads that share the lock

ASSUME ThreadsFinite == IsFiniteSet(Threads)

VARIABLES
  status,           \* _status: -1 a writer holds it, n >= 0 readers hold it
  waitingReaders,   \* _waiting_readers
  waitingWriters,   \* _waiting_writers
  at                \* where each thread is, see Phase

vars == <<status, waitingReaders, waitingWriters, at>>

(***************************************************************************)
(* "rdsleep" and "wrsleep" are membership in the wait sets of _read_cv and *)
(* _write_cv; a notified (or spuriously woken) thread is "rdready" or      *)
(* "wrready" until it has retaken _mtx and evaluated its predicate again.  *)
(***************************************************************************)
Phase == {"idle", "rdsleep", "rdready", "reading",
                  "wrsleep", "wrready", "writing"}

Readers      == {t \in Threads : at[t] = "reading"}
Writers      == {t \in Threads : at[t] = "writing"}
ReadWaiters  == {t \in Threads : at[t] \in {"rdsleep", "rdready"}}
WriteWaiters == {t \in Threads : at[t] \in {"wrsleep", "wrready"}}

TypeOK ==
  /\ status \in Nat \cup {-1}
  /\ waitingReaders \in Nat
  /\ waitingWriters \in Nat
  /\ at \in [Threads -> Phase]

Init ==
  /\ status = 0
  /\ waitingReaders = 0
  /\ waitingWriters = 0
  /\ at = [t \in Threads |-> "idle"]

-------------------------------------------------------------------------------
(* The predicates the two waits loop on.                                   *)

\* broken variant: readers do not yield to waiting writers
MayReadNoPreference == status >= 0
\* broken variant: readers yield to waiting writers but not to the active one
MayReadBesideWriter == waitingWriters = 0
MayRead  == waitingWriters = 0 /\ status >= 0

\* broken variant: a writer only looks for another writer
MayWriteBesideReaders == status >= 0
MayWrite == status = 0

(* rdlock(): the predicate holds at once, or the thread joins _read_cv.    *)
RdlockEnter(t) ==
  /\ at[t] = "idle"
  /\ \/ /\ MayRead
        /\ status' = status + 1
        /\ at' = [at EXCEPT ![t] = "reading"]
        /\ UNCHANGED waitingReaders
     \/ /\ ~MayRead
        /\ waitingReaders' = waitingReaders + 1
        /\ at' = [at EXCEPT ![t] = "rdsleep"]
        /\ UNCHANGED status
  /\ UNCHANGED waitingWriters

(* rdlock() after a wake-up: the predicate is evaluated again.             *)
RdlockRetry(t) ==
  /\ at[t] = "rdready"
  /\ \/ /\ MayRead
        /\ waitingReaders' = waitingReaders - 1
        /\ status' = status + 1
        /\ at' = [at EXCEPT ![t] = "reading"]
     \/ /\ ~MayRead
        /\ at' = [at EXCEPT ![t] = "rdsleep"]
        /\ UNCHANGED <<status, waitingReaders>>
  /\ UNCHANGED waitingWriters

(* wrlock(): the lock is free, or the thread joins _write_cv.              *)
WrlockEnter(t) ==
  /\ at[t] = "idle"
  /\ \/ /\ MayWrite
        /\ status' = -1
        /\ at' = [at EXCEPT ![t] = "writing"]
        /\ UNCHANGED waitingWriters
     \/ /\ ~MayWrite
        /\ waitingWriters' = waitingWriters + 1
        /\ at' = [at EXCEPT ![t] = "wrsleep"]
        /\ UNCHANGED status
  /\ UNCHANGED waitingReaders

\* broken variant: the woken writer forgets to leave the waiting count
WrlockRetryKeepsCount(t) ==
  /\ at[t] = "wrready"
  /\ \/ /\ MayWrite
        /\ status' = -1
        /\ at' = [at EXCEPT ![t] = "writing"]
     \/ /\ ~MayWrite
        /\ at' = [at EXCEPT ![t] = "wrsleep"]
        /\ UNCHANGED status
  /\ UNCHANGED <<waitingReaders, waitingWriters>>

(* wrlock() after a wake-up: another thread may have taken the lock first. *)
WrlockRetry(t) ==
  /\ at[t] = "wrready"
  /\ \/ /\ MayWrite
        /\ waitingWriters' = waitingWriters - 1
        /\ status' = -1
        /\ at' = [at EXCEPT ![t] = "writing"]
     \/ /\ ~MayWrite
        /\ at' = [at EXCEPT ![t] = "wrsleep"]
        /\ UNCHANGED <<status, waitingWriters>>
  /\ UNCHANGED waitingReaders

(* condition_variable::wait may return without a notification.             *)
SpuriousWakeup(t) ==
  /\ \/ at[t] = "rdsleep" /\ at' = [at EXCEPT ![t] = "rdready"]
     \/ at[t] = "wrsleep" /\ at' = [at EXCEPT ![t] = "wrready"]
  /\ UNCHANGED <<status, waitingReaders, waitingWriters>>

\* broken variant: unlock() takes every holder for a reader
StatusAfterReaderUnlock == status - 1
StatusAfterUnlock == IF status = -1 THEN 0 ELSE status - 1

(* _write_cv.notify_one() and _read_cv.notify_all(), by a thread that      *)
(* leaves the lock in the same critical section.                           *)
NotifyOneWriter(t) ==
  IF \E w \in Threads : at[w] = "wrsleep"
    THEN \E w \in Threads :
           /\ at[w] = "wrsleep"
           /\ at' = [at EXCEPT ![t] = "idle", ![w] = "wrready"]
    ELSE at' = [at EXCEPT ![t] = "idle"]

NotifyAllReaders(t) ==
  at' = [u \in Threads |-> IF u = t THEN "idle"
                           ELSE IF at[u] = "rdsleep" THEN "rdready"
                           ELSE at[u]]

\* broken variant: unlock() only ever notifies readers
UnlockReadersOnly(t) ==
  /\ at[t] \in {"reading", "writing"}
  /\ status' = StatusAfterUnlock
  /\ NotifyAllReaders(t)
  /\ UNCHANGED <<waitingReaders, waitingWriters>>

\* broken variant: unlock() only ever notifies a writer
UnlockWritersOnly(t) ==
  /\ at[t] \in {"reading", "writing"}
  /\ status' = StatusAfterUnlock
  /\ IF waitingWriters > 0 /\ StatusAfterUnlock = 0
       THEN NotifyOneWriter(t)
       ELSE at' = [at EXCEPT ![t] = "idle"]
  /\ UNCHANGED <<waitingReaders, waitingWriters>>

(* unlock(): serves a reader and a writer alike, told apart by _status.    *)
Unlock(t) ==
  /\ at[t] \in {"reading", "writing"}
  /\ status' = StatusAfterUnlock
  /\ \/ /\ waitingWriters > 0
        /\ StatusAfterUnlock = 0
        /\ NotifyOneWriter(t)
     \/ /\ waitingWriters > 0
        /\ StatusAfterUnlock # 0
        /\ at' = [at EXCEPT ![t] = "idle"]
     \/ /\ ~(waitingWriters > 0)
        /\ NotifyAllReaders(t)
  /\ UNCHANGED <<waitingReaders, waitingWriters>>

Next ==
  \E t \in Threads :
     \/ RdlockEnter(t) \/ RdlockRetry(t)
     \/ WrlockEnter(t) \/ WrlockRetry(t)
     \/ SpuriousWakeup(t)
     \/ Unlock(t)

Spec == Init /\ [][Next]_vars

(***************************************************************************)
(* A woken thread is eventually scheduled on _mtx, which nobody holds for  *)
(* longer than one step; a holder runs a bounded critical section and      *)
(* unlocks.  Nothing obliges a thread to call rdlock or wrlock.            *)
(***************************************************************************)
Fairness ==
  \A t \in Threads :
     /\ WF_vars(RdlockRetry(t))
     /\ WF_vars(WrlockRetry(t))
     /\ WF_vars(Unlock(t))

FairSpec == Spec /\ Fairness

-------------------------------------------------------------------------------
(* Safety                                                                  *)

(* A thread between wrlock and unlock is alone: no other writer, no reader *)
(* (the mutual exclusion every map access in TilingCache and the info      *)
(* factory relies on).                                                     *)
Exclusion ==
  \A t, u \in Threads :
     (at[t] = "writing" /\ u # t) => at[u] \notin {"reading", "writing"}

(* The counters the predicates and unlock() decide by describe the threads *)
(* exactly: _status is -1 or the number of readers inside, and the waiting *)
(* counts are the numbers of threads blocked in each call.                 *)
CountersAgree ==
  /\ status = IF Writers # {} THEN -1 ELSE Cardinality(Readers)
  /\ waitingReaders = Cardinality(ReadWaiters)
  /\ waitingWriters = Cardinality(WriteWaiters)

(* No lost wake-up for writers: if the lock is free while a writer waits,  *)
(* some writer is already awake (the notify_one of unlock() has not been   *)
(* swallowed by a thread that cannot use it).                              *)
NoStrandedWriter ==
  (status = 0 /\ WriteWaiters # {}) => \E t \in Threads : at[t] = "wrready"

(* No lost wake-up for readers: if nothing bars readers, none still sleeps.*)
NoStrandedReader ==
  (waitingWriters = 0 /\ status >= 0) => \A t \in Threads : at[t] # "rdsleep"

(* The inductive invariant behind the theorems of RWLock_proofs.           *)
IInv ==
  /\ TypeOK
  /\ Exclusion
  /\ CountersAgree
  /\ NoStrandedWriter
  /\ NoStrandedReader

-------------------------------------------------------------------------------
(* Refinement and liveness                                                 *)

Abstract == INSTANCE AbstractRWLock WITH readers <- Readers, writers <- Writers

(* The lock behaves as the abstract reader/writer lock.                    *)
ImplementsAbstract == Abstract!Spec

(* While writers wait, one of them gets in: readers that keep coming       *)
(* cannot hold writers off for ever.                                       *)
WriterProgress == (WriteWaiters # {}) ~> (Writers # {})

(* Once writers stay away, every waiting reader gets in.                   *)
ReaderProgress ==
  <>[](Writers = {} /\ WriteWaiters = {})
    => \A t \in Threads : (at[t] \in {"rdsleep", "rdready"}) ~> (at[t] = "reading")
===============================================================================
