---------------------------- MODULE AbstractRWLock ----------------------------
(***************************************************************************)
(* What class RWLock (matmul/common/op_host/op_tiling/lock.h) promises its *)
(* callers, without the mutex, the counters and the condition variables:   *)
(* at any time the lock is free, held by some readers, or held by exactly  *)
(* one writer.  RWLock.tla is shown to implement this specification.       *)
(***************************************************************************)
CONSTANT Threads    \* the host threads that share the lock

VARIABLES
  readers,          \* the threads whose rdlock() has returned, not yet unlocked
  writers           \* the threads whose wrlock() has returned, not yet unlocked

vars == <<readers, writers>>

Init == readers = {} /\ writers = {}

AcquireRead(t) ==
  /\ t \notin readers
  /\ writers = {}
  /\ readers' = readers \cup {t}
  /\ UNCHANGED writers

AcquireWrite(t) ==
  /\ readers = {}
  /\ writers = {}
  /\ writers' = {t}
  /\ UNCHANGED readers

Release(t) ==
  /\ t \in readers \cup writers
  /\ readers' = readers \ {t}
  /\ writers' = writers \ {t}

Next == \E t \in Threads : AcquireRead(t) \/ AcquireWrite(t) \/ Release(t)

Spec == Init /\ [][Next]_vars
===============================================================================
