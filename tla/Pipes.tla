--------------------------------- MODULE Pipes ---------------------------------
(***************************************************************************)
(* The cores of one launch as their pipes run: the scalar unit of a core   *)
(* only hands out instructions, each pipe (MTE2, MTE1, M, FIX, V, MTE3)    *)
(* works through its own queue in order, and nothing but flags orders the  *)
(* pipes of one core or of several.  What a kernel hands out for a launch  *)
(* is Program[launch], queue by queue and step by step (see Instructions); *)
(* it does not depend on data.                                            *)
(*                                                                         *)
(* The hardware is not part of the repository.  Assumed of it: instructions*)
(* of one pipe take effect in order, a flag counts, and a fixpipe or mmad  *)
(* that minds the unit flag minds it for the whole L0C buffer.             *)
(***************************************************************************)
EXTENDS Instructions, BagsExt

CONSTANTS
  Launches,   \* the launches considered
  Program,    \* launch -> queue -> sequence of instructions
  Product,    \* launch -> block of the output -> what it must hold
  SetAhead(_, _), \* of a launch and a flag: for how many buffers it stands
  Left(_)         \* of a launch: the flags its kernel sets once more than it minds

(* Under these names TLC evaluates them once.                              *)
Code == Program
Expected == Product

Ops == {"none", "load", "slice", "scaled", "copy", "store", "mac"}
ASSUME PipesAssumption ==
  \A l \in Launches : \A q \in DOMAIN Code[l] : \A i \in DOMAIN Code[l][q] :
     Code[l][q][i].do.op \in Ops

(* Nobody else waits for a flag that a queue waits for.  That makes a wait *)
(* commute with the next steps of other queues, as a set does with the     *)
(* steps before it, and an instruction with its waits and sets one step.   *)
WaitedFor(l, q) == UNION {DOMAIN Code[l][q][i].waits : i \in DOMAIN Code[l][q]}
ASSUME SingleWaiter ==
  \A l \in Launches : \A p, q \in DOMAIN Code[l] :
     p # q => WaitedFor(l, p) \cap WaitedFor(l, q) = {}

VARIABLES
  launch,
  pc,         \* queue -> number of the instruction it is at
  flag,       \* the bag of flags set and not waited for yet
  memory,     \* buffer -> contents, of the buffers written so far
  c           \* the output in global memory: block -> contents

vars == <<launch, pc, flag, memory, c>>

Empty == <<>>

Init ==
  /\ launch \in Launches
  /\ pc = [q \in DOMAIN Code[launch] |-> 1]
  /\ flag = EmptyBag
  /\ memory = [b \in {} |-> Empty]
  /\ c = [b \in DOMAIN Expected[launch] |-> Empty]

-------------------------------------------------------------------------------
Queue(q) == Code[launch][q]
Current(q) == Queue(q)[pc[q]]
At(q, op) == pc[q] <= Len(Queue(q)) /\ Current(q).do.op = op

(* The waits of the current step, and the flags that its instruction takes *)
(* in addition; its sets, and the flags that its instruction leaves.       *)
Synchronise(q, taken, left) ==
  /\ (Current(q).waits (+) taken) \sqsubseteq flag
  /\ flag' = ((flag (-) (Current(q).waits (+) taken)) (+) Current(q).sets) (+) left
  /\ pc' = [pc EXCEPT ![q] = @ + 1]
  /\ UNCHANGED launch

Contents(buffer) == IF buffer \in DOMAIN memory THEN memory[buffer] ELSE Empty
Write(buffers, value) ==
  memory' = [b \in DOMAIN memory \cup buffers |-> IF b \in buffers THEN value ELSE memory[b]]

SynchroniseOnly(q) ==
  /\ At(q, "none")
  /\ Synchronise(q, EmptyBag, EmptyBag)
  /\ UNCHANGED <<memory, c>>

LoadStep(q) ==
  /\ At(q, "load")
  /\ Synchronise(q, EmptyBag, EmptyBag)
  /\ Write({Current(q).do.dst}, Current(q).do.value)
  /\ UNCHANGED c

(* A position that was never filled holds no unit.                         *)
NoUnit == <<"none", 0, 0>>
Element(buffer, i) == IF i \in DOMAIN Contents(buffer) THEN Contents(buffer)[i] ELSE NoUnit

SliceStep(q) ==
  LET i == Current(q).do IN
  /\ At(q, "slice")
  /\ Synchronise(q, EmptyBag, EmptyBag)
  /\ Write({i.dst}, [k \in 1 .. i.length |-> Element(i.src, i.from + k)])
  /\ UNCHANGED c

(* The elements of a range of all sources, side by side.                   *)
Together(srcs, length) ==
  [k \in 1 .. length |-> [s \in DOMAIN srcs |-> Element(srcs[s][1], srcs[s][2] + k)]]

ScaledSliceStep(q) ==
  /\ At(q, "scaled")
  /\ Synchronise(q, EmptyBag, EmptyBag)
  /\ Write({Current(q).do.dst}, Together(Current(q).do.srcs, Current(q).do.length))
  /\ UNCHANGED c

(* A fixpipe that minds the unit flag takes a finished L0C buffer only, and*)
(* leaves it drained.                                                      *)
Drained(i) == IF i.unit = FINAL_ACCUMULATION THEN SetToBag({UnitFlag(i.src)}) ELSE EmptyBag

CopyStep(q) ==
  LET i == Current(q).do IN
  /\ At(q, "copy")
  /\ Synchronise(q, Drained(i), EmptyBag)
  /\ Write(i.dsts, Contents(i.src))
  /\ UNCHANGED c

StoreStep(q) ==
  LET i == Current(q).do IN
  /\ At(q, "store")
  /\ Synchronise(q, Drained(i), EmptyBag)
  /\ c' = [c EXCEPT ![i.block] = Contents(i.src)]
  /\ UNCHANGED memory

(* An mmad that minds the unit flag waits for a drained L0C buffer; the    *)
(* final one marks it as finished.                                         *)
MacStep(q) ==
  LET i == Current(q).do IN
  /\ At(q, "mac")
  /\ i.unit # 0 => ~BagIn(UnitFlag(i.dst), flag)
  /\ Synchronise(q, EmptyBag,
       IF i.unit = FINAL_ACCUMULATION THEN SetToBag({UnitFlag(i.dst)}) ELSE EmptyBag)
  /\ Write({i.dst}, Contents(i.from) \o Together(i.srcs, i.length))
  /\ UNCHANGED c

Step(q) ==
  \/ SynchroniseOnly(q)
  \/ LoadStep(q) \/ SliceStep(q) \/ ScaledSliceStep(q) \/ CopyStep(q) \/ StoreStep(q) \/ MacStep(q)

Next == \E q \in DOMAIN Code[launch] : Step(q)

Spec == Init /\ [][Next]_vars

(* A pipe never stops for good in front of an instruction it can execute;  *)
(* as queues are finite, it is enough that some pipe moves while any can.  *)
FairSpec == Spec /\ WF_vars(Next)

-------------------------------------------------------------------------------
Finished == \A q \in DOMAIN Code[launch] : pc[q] > Len(Queue(q))

(* However the pipes interleave, every block of the output is written once *)
(* and holds the product: no buffer is overwritten while a slower pipe or  *)
(* another core has still to read it, none is read before it is filled,    *)
(* and no accumulation runs into the one before it.                        *)
Matmul == INSTANCE AbstractMatmul WITH product <- Expected[launch], Nothing <- Empty
ImplementsMatmul == Matmul!Spec

(* What constructors hand out and loops set is waited for by the time the  *)
(* kernel ends, and nothing is left of it but what is known to be: the     *)
(* next kernel on these cores finds every other flag clear.                *)
FlagsBalanced == Finished => flag = SetToBag(Left(launch))

(* No pipe or core runs further ahead of another one than there are buffers*)
(* between them: a flag that says a buffer is full, or free, is never set  *)
(* more often, beyond the waits for it, than there are such buffers.       *)
FlagsNeverPileUp == \A f \in DOMAIN flag : CopiesIn(f, flag) <= SetAhead(launch, f)

(* The launch ends with the output complete: no pipe waits for a flag that *)
(* nobody sets, nor do several wait for each other.                        *)
Termination == <>(Finished /\ c = Expected[launch])
===============================================================================
