-------------------------- MODULE AbstractTilingCache --------------------------
(***************************************************************************)
(* What class TilingCache (matmul/common/op_host/op_tiling/tiling_cache.h) *)
(* promises the tiling functions: Get, Add and Replace behave as if each   *)
(* took effect at one instant between its call and its return, on a map    *)
(* that never exceeds its capacity.  TilingCache.tla implements it.        *)
(***************************************************************************)
EXTENDS Naturals, FiniteSets, Functions

CONSTANTS Threads, Inputs, Keys, Values, KeyOf, Cap

Item == [input : Inputs, value : Values]
Miss == << >>          \* Get found nothing for its input

VARIABLES
  map,    \* hash key -> stored item
  call    \* what each thread is executing: an operation, whether done, its result

vars == <<map, call>>

Init ==
  /\ map = [k \in {} |-> Miss]
  /\ call = [t \in Threads |-> [op |-> "none"]]

Full == Cardinality(DOMAIN map) >= Cap

Store(k, item) ==
  map' = [j \in DOMAIN map \cup {k} |-> IF j = k THEN item ELSE map[j]]

Invoke(t, op, item) ==
  /\ call[t].op = "none"
  /\ call' = [call EXCEPT ![t] = [op |-> op, item |-> item, done |-> FALSE, result |-> Miss]]
  /\ UNCHANGED map

Respond(t, result) == call' = [call EXCEPT ![t].done = TRUE, ![t].result = result]

LookUp(input) ==
  LET k == KeyOf[input] IN
  IF k \in DOMAIN map /\ map[k].input = input THEN <<map[k]>> ELSE Miss

StoreNew(item) ==
  LET k == KeyOf[item.input] IN
  IF Full \/ k \in DOMAIN map THEN UNCHANGED map ELSE Store(k, item)

Get(t) ==
  /\ call[t].op = "Get"
  /\ ~call[t].done
  /\ Respond(t, LookUp(call[t].item.input))
  /\ UNCHANGED map

Add(t) ==
  /\ call[t].op = "Add"
  /\ ~call[t].done
  /\ StoreNew(call[t].item)
  /\ Respond(t, Miss)

Replace(t) ==
  LET item == call[t].item  k == KeyOf[item.input] IN
  /\ call[t].op = "Replace"
  /\ ~call[t].done
  /\ IF Full THEN UNCHANGED map ELSE Store(k, item)
  /\ Respond(t, Miss)

Return(t) ==
  /\ call[t].op # "none"
  /\ call[t].done
  /\ call' = [call EXCEPT ![t] = [op |-> "none"]]
  /\ UNCHANGED map

Next ==
  \E t \in Threads :
     \/ \E op \in {"Get", "Add", "Replace"}, item \in Item : Invoke(t, op, item)
     \/ Get(t) \/ Add(t) \/ Replace(t)
     \/ Return(t)

Spec == Init /\ [][Next]_vars
===============================================================================
