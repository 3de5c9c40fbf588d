------------------------------ MODULE Instructions -----------------------------
(***************************************************************************)
(* What the kernels are written in: the AscendC calls that a core's scalar *)
(* unit hands to the queues of its pipes, reduced to what moves data and   *)
(* what synchronises.  AscendC is not part of the repository; the calls    *)
(* are modelled from how the kernels use them.                             *)
(*                                                                         *)
(* A queue is <<core, pipe>>, a buffer <<core, memory, number>>, a flag    *)
(* <<core, from, to, number>>.  The contents of a buffer are a sequence:   *)
(* of units <<matrix, index, k>> along the k axis, or of products.         *)
(***************************************************************************)
EXTENDS Naturals, Sequences, FiniteSets, SequencesExt

CeilDiv(a, b) == (a + b - 1) \div b
Least(a, b) == IF a < b THEN a ELSE b

When(condition, instructions) == IF condition THEN instructions ELSE <<>>

(* SetFlag<HardEvent::p_q>(id), behind what pipe p was given before, and   *)
(* WaitFlag<HardEvent::p_q>(id), before what pipe q is given afterwards.   *)
SetFlag(core, p, q, id) ==
  [queue |-> <<core, p>>, op |-> "set", flag |-> <<core, p, q, id>>]

WaitFlag(core, p, q, id) ==
  [queue |-> <<core, q>>, op |-> "wait", flag |-> <<core, p, q, id>>]

(* CrossCoreSetFlag<mode, p>, for core `to', and CrossCoreWaitFlag.        *)
CrossCoreSetFlag(core, p, to, id) ==
  [queue |-> <<core, p>>, op |-> "set", flag |-> <<to, "cross", "cross", id>>]

CrossCoreWaitFlag(core, p, id) ==
  [queue |-> <<core, p>>, op |-> "wait", flag |-> <<core, "cross", "cross", id>>]

(* The flag that mmad and fixpipe keep with an L0C buffer: non-zero unit   *)
(* flags make mmad wait until the buffer is drained and fixpipe until the  *)
(* final accumulation is done.                                             *)
UnitFlag(buffer) == <<buffer[1], "unit", buffer[2], buffer[3]>>
NON_FINAL_ACCUMULATION == 2
FINAL_ACCUMULATION == 3

(* From global memory to a buffer; part of a buffer, or all of it, to      *)
(* another one; a buffer to global memory.                                 *)
Load(core, p, value, dst) ==
  [queue |-> <<core, p>>, op |-> "load", value |-> value, dst |-> dst]

Slice(core, p, src, from, length, dst) ==
  [queue |-> <<core, p>>, op |-> "slice", src |-> src, from |-> from,
   length |-> length, dst |-> dst]

(* LoadData of a matrix with its scales: element by element, what is read  *)
(* of the sources (a source is a buffer and an offset) belongs together.   *)
SliceScaled(core, p, srcs, length, dst) ==
  [queue |-> <<core, p>>, op |-> "scaled", srcs |-> srcs, length |-> length, dst |-> dst]

\* to one buffer, or to several at once
Copy(core, p, src, dsts, unit) ==
  [queue |-> <<core, p>>, op |-> "copy", src |-> src, dsts |-> dsts, unit |-> unit]

Store(core, p, src, block, unit) ==
  [queue |-> <<core, p>>, op |-> "store", src |-> src, block |-> block, unit |-> unit]

(* dst := contents of `from' (if any), and the products of the elements of *)
(* the sources, of the given length.                                       *)
Mac(core, p, srcs, length, from, dst, unit) ==
  [queue |-> <<core, p>>, op |-> "mac", srcs |-> srcs, length |-> length,
   from |-> from, dst |-> dst, unit |-> unit]

NoBuffer == <<"none", "none", 0>>

(* The units from .. from + length - 1 of a row of A or a column of B.     *)
Units(matrix, index, from, length) ==
  [i \in 1 .. length |-> <<matrix, index, from + i - 1>>]

(* for (i = 0; i < length; i += step), with what is left in the last round.*)
Cut(length, step) ==
  [i \in 1 .. CeilDiv(length, step) |->
     [from |-> (i - 1) * step, length |-> Least(step, length - (i - 1) * step),
      last |-> i * step >= length]]

(* What each pipe is handed of a kernel, in steps: an instruction together *)
(* with the waits in front of it and the sets behind it.                   *)
BagOf(flags) == [f \in ToSet(flags) |-> Cardinality({i \in DOMAIN flags : flags[i] = f})]
Flags(instructions, op) ==
  LET chosen == SelectSeq(instructions, LAMBDA i : i.op = op)
  IN  BagOf([i \in DOMAIN chosen |-> chosen[i].flag])

Idle == [op |-> "none", unit |-> 0]
StepOf(instructions) ==
  LET moves == SelectSeq(instructions, LAMBDA i : i.op \notin {"set", "wait"})
  IN  [waits |-> Flags(instructions, "wait"), sets |-> Flags(instructions, "set"),
       do |-> IF moves = <<>> THEN Idle ELSE moves[1]]

Steps(queue) ==
  LET begins(i) == i = 1 \/ (queue[i].op # "set" /\ queue[i - 1].op # "wait")
      first == SelectSeq([i \in DOMAIN queue |-> i], begins)
      last(n) == IF n = Len(first) THEN Len(queue) ELSE first[n + 1] - 1
  IN  [n \in DOMAIN first |-> StepOf(SubSeq(queue, first[n], last(n)))]

\* @@ makes TLC tabulate it
Queues(kernel) ==
  [q \in {kernel[i].queue : i \in DOMAIN kernel} |->
     Steps(SelectSeq(kernel, LAMBDA i : i.queue = q))] @@ <<>>

(* How often counters that step by counts[1], counts[2], ... have stepped  *)
(* before each of them.                                                    *)
Before(counts) ==
  LET sum[i \in DOMAIN counts] == IF i = 1 THEN 0 ELSE sum[i - 1] + counts[i - 1]
  IN  sum

(* The tile of row and column as the sum over k of products of A and B.    *)
Products(row, column, from, length) ==
  [i \in 1 .. length |-> <<<<"A", row, from + i - 1>>, <<"B", column, from + i - 1>>>>]

BiasOf(column) == <<<<"bias", column, 0>>>>
===============================================================================
