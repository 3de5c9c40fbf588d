------------------------- MODULE TilingDispatch_proofs -------------------------
(***************************************************************************)
(* Proofs about TilingDispatch, for every set of templates, every list of  *)
(* priorities that names none twice and every one of the dispatchers.      *)
(***************************************************************************)
EXTENDS TilingDispatch, FiniteSetTheorems, SequenceTheorems, TLAPS

Call == [dispatcher : Dispatchers, list : Lists \cup {<< >>}, map : Maps,
         platform : {"known", "reserved", "missing"},
         update : BOOLEAN, workspace : BOOLEAN]

DispatchTypeOK ==
  /\ call \in Call
  /\ next \in 0 .. Len(Order) + 1
  /\ stage \in 0 .. Len(Stages)
  /\ returned \in [DOMAIN returned -> {"nullptr", "PARAM_INVALID", "FAILED", "SUCCESS"}]
  /\ DOMAIN context = Field \cup {"mode"} /\ context.mode \in BOOLEAN
  /\ result \in {"running", "FAILED", "SUCCESS"}
  /\ stage > 0 => next \in 1 .. Len(Order) /\ Current \in Registered

(* The templates heard of are the registered ones up to the current one,   *)
(* and the current one itself when it has ended the loop.                  *)
Trail ==
  /\ DOMAIN returned \subseteq Named
  /\ \A i \in 1 .. Len(Order) :
        Order[i] \in DOMAIN returned <=>
           Order[i] \in Registered /\ (i < next \/ (i = next /\ Over))

(* None that the loop has left behind had a status that ends it.           *)
Strict == call.dispatcher \in {"New", "Plain", "PlainList"}

BehindRefused ==
  \A i \in 1 .. next - 1 : Order[i] \in DOMAIN returned =>
     /\ returned[Order[i]] # "SUCCESS"
     /\ Strict => returned[Order[i]] # "FAILED"

(* Only a success sets the schedule mode in a context that has room for    *)
(* the workspace sizes, and the success is the last template's.  A caller  *)
(* that takes the tiling itself finds the context as it was.               *)
Filled ==
  /\ \A f \in Field : context[f] = Current
  /\ context.mode <=> Current \in Modal

ContextOfLast ==
  /\ call.update => context = Blank
  /\ (call.workspace /\ result # "SUCCESS") => context.mode = FALSE
  /\ \A w \in DOMAIN returned : returned[w] = "SUCCESS" => result = "SUCCESS" /\ w = Current
  /\ result = "SUCCESS" => next \in 1 .. Len(Order) /\ (call.update \/ Filled)

IInv ==
  /\ DispatchTypeOK /\ Trail /\ BehindRefused /\ ContextOfLast
  /\ AllAskedBeforeGivingUp

-------------------------------------------------------------------------------
(* The order is a sequence that names no template twice, and an ascending  *)
(* one when it is the map's.                                               *)
LEMMA OrderFacts ==
  ASSUME call \in Call
  PROVE  /\ Order \in Seq(Priorities)
         /\ Len(Order) \in Nat /\ DOMAIN Order = 1 .. Len(Order)
         /\ \A i \in 1 .. Len(Order) : Order[i] \in Nat
         /\ \A i, j \in 1 .. Len(Order) : Order[i] = Order[j] => i = j
         /\ call.list = << >> => \A i, j \in 1 .. Len(Order) : i < j => Order[i] < Order[j]
         /\ Range(Order) = {Order[i] : i \in 1 .. Len(Order)}
  <1>1. CASE call.list = << >>
    <2>1. Order = call.map /\ call.map \in Maps
      BY <1>1 DEF Order, Call
    <2>2. PICK n \in 0 .. Cardinality(Priorities) :
              call.map \in [1 .. n -> Priorities] /\ Ascending(call.map)
      BY <2>1 DEF Maps
    <2>3. n \in Nat
      BY <2>2, FS_CardinalityType, DispatchAssumption
    <2>4. Order \in Seq(Priorities) /\ DOMAIN Order = 1 .. n /\ Len(Order) = n
      BY <2>1, <2>2, <2>3
    <2>5. \A i \in 1 .. n : Order[i] \in Nat
      BY <2>1, <2>2, <2>3, DispatchAssumption
    <2>6. \A i, j \in 1 .. n : i < j => Order[i] < Order[j]
      BY <2>1, <2>2 DEF Ascending
    <2>7. QED
      BY <1>1, <2>3, <2>4, <2>5, <2>6 DEF Range
  <1>2. CASE call.list # << >>
    <2>1. Order = call.list /\ call.list \in Lists
      BY <1>2 DEF Order, Call
    <2>2. Order \in Seq(Priorities) /\ IsInjective(Order)
      BY <2>1, DispatchAssumption
    <2>3. Len(Order) \in Nat /\ DOMAIN Order = 1 .. Len(Order)
      BY <2>2
    <2>4. \A i \in 1 .. Len(Order) : Order[i] \in Nat
      <3>1. \A i \in 1 .. Len(Order) : Order[i] \in Priorities
        BY <2>2, ElementOfSeq
      <3>2. Priorities \subseteq Nat
        BY DispatchAssumption
      <3>3. QED
        BY <3>1, <3>2
    <2>5. QED
      BY <1>2, <2>2, <2>3, <2>4 DEF IsInjective, Range
  <1>3. QED
    BY <1>1, <1>2

(* The loop, its order and the stages of a template do not change.         *)
LEMMA SameLoop ==
  ASSUME UNCHANGED call
  PROVE  /\ Order' = Order /\ Registered' = Registered /\ Named' = Named
         /\ Stages' = Stages /\ Strict' = Strict /\ (call \in Call)' = (call \in Call)
  BY DEF Order, Registered, Named, Stages, Strict, Call

LEMMA StagesFacts == Len(Stages) \in Nat /\ Len(Stages) >= 5
  BY DEF Stages

LEMMA InitIInv == Init => IInv
  <1> SUFFICES ASSUME Init PROVE IInv
    OBVIOUS
  <1>1. call \in Call
    BY DEF Init, Call
  <1>2. /\ next = 0 /\ stage = 0 /\ result = "running" /\ DOMAIN returned = {}
        /\ context = Blank
        /\ DOMAIN context = Field \cup {"mode"} /\ context.mode = FALSE
        /\ returned \in [DOMAIN returned -> {"nullptr", "PARAM_INVALID", "FAILED", "SUCCESS"}]
    BY DEF Init, Field, Blank
  <1>3. DispatchTypeOK
    <2>1. next \in 0 .. Len(Order) + 1
      BY <1>1, <1>2, OrderFacts
    <2>2. stage \in 0 .. Len(Stages) /\ ~(stage > 0)
      BY <1>2, StagesFacts
    <2>3. context.mode \in BOOLEAN
      BY <1>2
    <2>4. QED
      BY <1>1, <1>2, <2>1, <2>2, <2>3 DEF DispatchTypeOK
  <1>4. Trail /\ BehindRefused /\ ContextOfLast /\ AllAskedBeforeGivingUp
    BY <1>1, <1>2, OrderFacts DEF Trail, BehindRefused, ContextOfLast,
       AllAskedBeforeGivingUp, Over
  <1>5. QED
    BY <1>3, <1>4 DEF IInv

LEMMA EnterIInv == IInv /\ Enter => IInv'
  <1> SUFFICES ASSUME IInv, Enter PROVE IInv'
    OBVIOUS
  <1>1. /\ UNCHANGED <<call, stage, returned, context>> /\ next = 0 /\ result = "running"
        /\ \/ Unready /\ result' = "FAILED" /\ next' = 0
           \/ next' = 1 /\ result' = "running"
    BY DEF Enter, Over
  <1>2. /\ Order' = Order /\ Registered' = Registered /\ Named' = Named
        /\ Stages' = Stages /\ Strict' = Strict /\ (call \in Call)' = (call \in Call)
    BY <1>1, SameLoop
  <1>3. call \in Call /\ Len(Order) \in Nat /\ stage = 0
    BY <1>1, OrderFacts DEF IInv, DispatchTypeOK
  <1>4. DOMAIN returned = {}
    <2>1. ASSUME NEW p \in DOMAIN returned PROVE FALSE
      <3>1. PICK i \in 1 .. Len(Order) : p = Order[i]
        BY <1>3, OrderFacts DEF IInv, Trail, Named
      <3>2. i < next \/ i = next
        BY <3>1 DEF IInv, Trail
      <3>3. QED
        BY <1>1, <1>3, <3>2
    <2>2. QED
      BY <2>1
  <1>5. DispatchTypeOK'
    BY <1>1, <1>2, <1>3 DEF IInv, DispatchTypeOK
  <1>6. Trail' /\ BehindRefused'
    BY <1>1, <1>2, <1>3, <1>4 DEF IInv, Trail, BehindRefused, Over
  <1>7. ContextOfLast'
    BY <1>1, <1>2, <1>4 DEF IInv, ContextOfLast, Blank
  <1>8. AllAskedBeforeGivingUp'
    BY <1>1 DEF AllAskedBeforeGivingUp, Unready
  <1>9. QED
    BY <1>5, <1>6, <1>7, <1>8 DEF IInv

LEMMA ExhaustedIInv == IInv /\ Exhausted => IInv'
  <1> SUFFICES ASSUME IInv, Exhausted PROVE IInv'
    OBVIOUS
  <1>1. /\ UNCHANGED <<call, next, stage, returned, context>>
        /\ result = "running" /\ result' = "FAILED" /\ next > Len(Order)
    BY DEF Exhausted, Over
  <1>2. /\ Order' = Order /\ Registered' = Registered /\ Named' = Named
        /\ Stages' = Stages /\ Strict' = Strict
    BY <1>1, SameLoop
  <1>3. call \in Call /\ next \in 0 .. Len(Order) + 1
    BY DEF IInv, DispatchTypeOK
  <1>4. DispatchTypeOK'
    BY <1>1, <1>2 DEF IInv, DispatchTypeOK, Call, Current, Maps, Ascending
  <1>5. Trail'
    BY <1>1, <1>2, <1>3, OrderFacts DEF IInv, Trail, Over
  <1>6. BehindRefused' /\ ContextOfLast'
    BY <1>1, <1>2 DEF IInv, BehindRefused, ContextOfLast, Filled, Current
  <1>7. Named \subseteq DOMAIN returned
    BY <1>1, <1>3, OrderFacts DEF IInv, Trail, Named
  <1>8. AllAskedBeforeGivingUp'
    BY <1>1, <1>2, <1>7 DEF AllAskedBeforeGivingUp, Unready
  <1>9. QED
    BY <1>4, <1>5, <1>6, <1>8 DEF IInv

LEMMA UnregisteredIInv == IInv /\ Unregistered => IInv'
  <1> SUFFICES ASSUME IInv, Unregistered PROVE IInv'
    OBVIOUS
  <1>1. /\ UNCHANGED <<call, stage, returned, context>>
        /\ result = "running" /\ stage = 0
        /\ next \in 1 .. Len(Order) /\ Current \notin Registered
        /\ \/ call.dispatcher = "MM" /\ result' = "FAILED" /\ next' = next
           \/ next' = next + 1 /\ result' = result
    BY DEF Unregistered, Over
  <1>2. /\ Order' = Order /\ Registered' = Registered /\ Named' = Named
        /\ Stages' = Stages /\ Strict' = Strict
    BY <1>1, SameLoop
  <1>3. call \in Call /\ next \in 0 .. Len(Order) + 1
    BY DEF IInv, DispatchTypeOK
  <1>4. next \in 1 .. Len(Order)
    BY <1>1, <1>3, OrderFacts
  <1>5. DispatchTypeOK'
    BY <1>1, <1>2, <1>4, OrderFacts DEF IInv, DispatchTypeOK, Call, Maps, Ascending
  <1>6. Trail'
    BY <1>1, <1>2, <1>4, OrderFacts DEF IInv, Trail, Over, Current
  <1>7. BehindRefused'
    BY <1>1, <1>2, <1>3, <1>4, OrderFacts DEF IInv, BehindRefused, Trail, Current
  <1>8. ContextOfLast'
    BY <1>1, <1>2 DEF IInv, ContextOfLast
  <1>9. Current \in Range(Order)
    BY <1>3, <1>4, OrderFacts DEF Current
  <1>10. AllAskedBeforeGivingUp'
    BY <1>1, <1>2, <1>9 DEF AllAskedBeforeGivingUp, Unready
  <1>11. QED
    BY <1>5, <1>6, <1>7, <1>8, <1>10 DEF IInv

(* The template under way is a registered one, heard of by nobody yet.     *)
UnderWay ==
  /\ IInv /\ UNCHANGED call
  /\ result = "running"
  /\ next \in 1 .. Len(Order) /\ Current \in Registered

LEMMA UnderWayFacts ==
  ASSUME UnderWay
  PROVE  /\ call \in Call /\ Current = Order[next] /\ Current \in Named
         /\ Current \notin DOMAIN returned
         /\ \A w \in DOMAIN returned : returned[w] # "SUCCESS"
         /\ Order' = Order /\ Registered' = Registered /\ Named' = Named
         /\ Stages' = Stages /\ Strict' = Strict
         /\ (next' = next => Current' = Current)
  <1>1. call \in Call /\ Current = Order[next]
    BY DEF UnderWay, IInv, DispatchTypeOK, Current
  <1>2. Current \in Named
    BY <1>1, OrderFacts DEF UnderWay, Named
  <1>3. Current \notin DOMAIN returned
    BY <1>1, OrderFacts DEF UnderWay, IInv, Trail, Over
  <1>4. \A w \in DOMAIN returned : returned[w] # "SUCCESS"
    BY DEF UnderWay, IInv, ContextOfLast
  <1>5. /\ Order' = Order /\ Registered' = Registered /\ Named' = Named
        /\ Stages' = Stages /\ Strict' = Strict
    BY SameLoop DEF UnderWay
  <1>6. QED
    BY <1>1, <1>2, <1>3, <1>4, <1>5 DEF Current

LEMMA RecordFacts ==
  ASSUME UnderWay, NEW status, Record(status)
  PROVE  /\ DOMAIN returned' = DOMAIN returned \cup {Current}
         /\ returned'[Current] = status
         /\ \A w \in DOMAIN returned : w # Current /\ returned'[w] = returned[w]
  BY UnderWayFacts DEF Record

(* A template has been recorded with a status that does not end the loop.  *)
LEMMA AdvanceIInv ==
  ASSUME UnderWay, NEW status \in {"nullptr", "PARAM_INVALID", "FAILED"},
         status = "FAILED" => ~Strict,
         Record(status), next' = next + 1, stage' = 0, result' = result,
         DOMAIN context' = Field \cup {"mode"}, context'.mode \in BOOLEAN,
         call.update => context' = Blank,
         call.workspace => context'.mode = FALSE
  PROVE  IInv'
  <1>1. next \in 1 .. Len(Order) /\ Len(Order) \in Nat /\ result = "running"
        /\ DispatchTypeOK /\ Trail /\ BehindRefused /\ ContextOfLast
    BY UnderWayFacts, OrderFacts DEF UnderWay, IInv
  <1>2. returned' \in [DOMAIN returned' -> {"nullptr", "PARAM_INVALID", "FAILED", "SUCCESS"}]
    BY <1>1, RecordFacts DEF Record, DispatchTypeOK
  <1>3. DispatchTypeOK'
    <2>1. (next \in 0 .. Len(Order) + 1)' /\ (stage \in 0 .. Len(Stages))' /\ ~(stage' > 0)
      BY <1>1, UnderWayFacts, StagesFacts
    <2>2. (call \in Call)'
      BY UnderWayFacts, SameLoop DEF UnderWay
    <2>3. QED
      BY <1>1, <1>2, <2>1, <2>2 DEF DispatchTypeOK
  <1>4. Trail'
    <2>1. DOMAIN returned' \subseteq Named'
      BY <1>1, UnderWayFacts, RecordFacts DEF Trail
    <2>2. ASSUME NEW i \in 1 .. Len(Order)
          PROVE  Order[i] \in DOMAIN returned' <=> Order[i] \in Registered /\ i < next + 1
      <3>1. Order[i] = Current <=> i = next
        BY <1>1, UnderWayFacts, OrderFacts
      <3>2. Order[i] \in DOMAIN returned <=> Order[i] \in Registered /\ i < next
        BY <1>1 DEF Trail, Over
      <3>3. i < next + 1 <=> i < next \/ i = next
        BY <1>1
      <3>4. QED
        BY <3>1, <3>2, <3>3, RecordFacts DEF UnderWay
    <2>3. QED
      BY <1>1, <2>1, <2>2, UnderWayFacts DEF Trail, Over
  <1>5. BehindRefused'
    <2>1. ASSUME NEW i \in 1 .. next, Order[i] \in DOMAIN returned'
          PROVE  returned'[Order[i]] # "SUCCESS" /\ (Strict => returned'[Order[i]] # "FAILED")
      <3>1. CASE i = next
        BY <3>1, UnderWayFacts, RecordFacts
      <3>2. CASE i \in 1 .. next - 1
        <4>1. Order[i] # Current
          BY <1>1, <3>2, UnderWayFacts, OrderFacts
        <4>2. Order[i] \in DOMAIN returned
          BY <2>1, <4>1, RecordFacts
        <4>3. QED
          BY <1>1, <3>2, <4>2, RecordFacts DEF BehindRefused
      <3>3. QED
        BY <1>1, <3>1, <3>2
    <2>2. next' - 1 = next
      BY <1>1
    <2>3. QED
      BY <2>1, <2>2, UnderWayFacts DEF BehindRefused
  <1>6. ContextOfLast'
    <2>1. \A w \in DOMAIN returned' : returned'[w] # "SUCCESS"
      BY UnderWayFacts, RecordFacts
    <2>2. QED
      BY <1>1, <2>1 DEF ContextOfLast, Filled, UnderWay
  <1>7. AllAskedBeforeGivingUp'
    BY <1>1 DEF AllAskedBeforeGivingUp, Unready
  <1>8. QED
    BY <1>3, <1>4, <1>5, <1>6, <1>7 DEF IInv

(* A template has been recorded with a status that ends the loop.          *)
LEMMA EndIInv ==
  ASSUME UnderWay, NEW status \in {"FAILED", "SUCCESS"},
         Record(status), next' = next, stage' = stage, result' = status,
         DOMAIN context' = Field \cup {"mode"}, context'.mode \in BOOLEAN,
         call.update => context' = Blank,
         status = "FAILED" /\ call.workspace => context'.mode = FALSE,
         status = "SUCCESS" /\ ~call.update =>
                               /\ \A f \in Field : context'[f] = Current
                               /\ (context'.mode <=> Current \in Modal)
  PROVE  IInv'
  <1>1. next \in 1 .. Len(Order) /\ Len(Order) \in Nat /\ result = "running"
        /\ DispatchTypeOK /\ Trail /\ BehindRefused /\ ContextOfLast
    BY UnderWayFacts, OrderFacts DEF UnderWay, IInv
  <1>2. returned' \in [DOMAIN returned' -> {"nullptr", "PARAM_INVALID", "FAILED", "SUCCESS"}]
    BY <1>1, RecordFacts DEF Record, DispatchTypeOK
  <1>3. DispatchTypeOK'
    <2>1. (call \in Call)'
      BY UnderWayFacts, SameLoop DEF UnderWay
    <2>2. QED
      BY <1>1, <1>2, <2>1, UnderWayFacts DEF DispatchTypeOK, UnderWay
  <1>4. Trail'
    <2>1. DOMAIN returned' \subseteq Named'
      BY <1>1, UnderWayFacts, RecordFacts DEF Trail
    <2>2. ASSUME NEW i \in 1 .. Len(Order)
          PROVE  Order[i] \in DOMAIN returned' <=> Order[i] \in Registered /\ (i < next \/ i = next)
      <3>1. Order[i] = Current <=> i = next
        BY <1>1, UnderWayFacts, OrderFacts
      <3>2. Order[i] \in DOMAIN returned <=> Order[i] \in Registered /\ i < next
        BY <1>1 DEF Trail, Over
      <3>3. QED
        BY <3>1, <3>2, RecordFacts DEF UnderWay
    <2>3. QED
      BY <1>1, <2>1, <2>2, UnderWayFacts DEF Trail, Over
  <1>5. BehindRefused'
    <2>1. ASSUME NEW i \in 1 .. next - 1
          PROVE  Order[i] # Current
      BY <1>1, UnderWayFacts, OrderFacts
    <2>2. QED
      BY <1>1, <2>1, UnderWayFacts, RecordFacts DEF BehindRefused
  <1>6. ContextOfLast'
    <2>1. \A w \in DOMAIN returned' : returned'[w] = "SUCCESS" => status = "SUCCESS" /\ w = Current
      BY UnderWayFacts, RecordFacts
    <2>2. QED
      BY <1>1, <2>1, UnderWayFacts DEF ContextOfLast, Filled, UnderWay
  <1>7. AllAskedBeforeGivingUp'
    BY RecordFacts DEF AllAskedBeforeGivingUp, Unready
  <1>8. QED
    BY <1>3, <1>4, <1>5, <1>6, <1>7 DEF IInv

(* A template goes on to its next stage.                                   *)
LEMMA StageIInv ==
  ASSUME UnderWay, stage' \in 0 .. Len(Stages),
         UNCHANGED <<next, returned, context, result>>
  PROVE  IInv'
  <1>1. next \in 1 .. Len(Order) /\ Len(Order) \in Nat /\ result = "running"
        /\ DispatchTypeOK /\ Trail /\ BehindRefused /\ ContextOfLast
        /\ AllAskedBeforeGivingUp
    BY UnderWayFacts, OrderFacts DEF UnderWay, IInv
  <1>2. DispatchTypeOK'
    <2>1. (call \in Call)'
      BY UnderWayFacts, SameLoop DEF UnderWay
    <2>2. QED
      BY <1>1, <2>1, UnderWayFacts DEF DispatchTypeOK, UnderWay
  <1>3. Trail' /\ BehindRefused' /\ ContextOfLast'
    BY <1>1, UnderWayFacts DEF Trail, Over, BehindRefused, ContextOfLast, Filled, UnderWay
  <1>4. AllAskedBeforeGivingUp'
    BY <1>1 DEF AllAskedBeforeGivingUp, Unready
  <1>5. QED
    BY <1>1, <1>2, <1>3, <1>4 DEF IInv

LEMMA CreateIInv == IInv /\ Create => IInv'
  <1> SUFFICES ASSUME IInv, Create PROVE IInv'
    OBVIOUS
  <1>1. /\ UNCHANGED <<call, context, result>> /\ stage = 0
        /\ \/ stage' = 1 /\ UNCHANGED <<next, returned>>
           \/ next' = next + 1 /\ Record("nullptr") /\ stage' = stage
    BY DEF Create
  <1>2. UnderWay
    BY OrderFacts DEF Create, UnderWay, IInv, DispatchTypeOK, Over
  <1>3. DOMAIN context = Field \cup {"mode"} /\ context.mode \in BOOLEAN
        /\ (call.workspace => context.mode = FALSE) /\ (call.update => context = Blank)
    BY <1>2 DEF UnderWay, IInv, DispatchTypeOK, ContextOfLast
  <1>4. CASE stage' = 1 /\ UNCHANGED <<next, returned>>
    BY <1>1, <1>2, <1>4, StageIInv, StagesFacts
  <1>5. CASE next' = next + 1 /\ Record("nullptr") /\ stage' = stage
    BY <1>1, <1>2, <1>3, <1>5, AdvanceIInv
  <1>6. QED
    BY <1>1, <1>4, <1>5

(* What PARAM_INVALID, a failure and a success do to the loop.             *)
LEMMA ReturnIInv ==
  ASSUME UnderWay, NEW status \in {"PARAM_INVALID", "FAILED", "SUCCESS"}, Return(status),
         DOMAIN context' = Field \cup {"mode"}, context'.mode \in BOOLEAN,
         call.update => context' = Blank,
         status # "SUCCESS" /\ call.workspace => context'.mode = FALSE,
         status = "SUCCESS" /\ ~call.update =>
                               /\ \A f \in Field : context'[f] = Current
                               /\ (context'.mode <=> Current \in Modal)
  PROVE  IInv'
  <1>1. CASE Ends(status)
    BY <1>1, EndIInv DEF Return, Ends
  <1>2. CASE ~Ends(status)
    BY <1>2, AdvanceIInv DEF Return, Ends, Strict
  <1>3. QED
    BY <1>1, <1>2

LEMMA PrepareIInv == IInv /\ Prepare => IInv'
  <1> SUFFICES ASSUME IInv, Prepare PROVE IInv'
    OBVIOUS
  <1>1. /\ UNCHANGED <<call, context>> /\ stage \in 1 .. Len(Stages) - 1
        /\ \/ stage' = stage + 1 /\ UNCHANGED <<next, returned, result>>
           \/ Return("PARAM_INVALID")
           \/ Return("FAILED")
    BY DEF Prepare
  <1>2. UnderWay
    BY <1>1, OrderFacts, StagesFacts DEF Prepare, UnderWay, IInv, DispatchTypeOK, Over
  <1>3. DOMAIN context = Field \cup {"mode"} /\ context.mode \in BOOLEAN
        /\ (call.workspace => context.mode = FALSE) /\ (call.update => context = Blank)
    BY <1>2 DEF UnderWay, IInv, DispatchTypeOK, ContextOfLast
  <1>4. CASE stage' = stage + 1 /\ UNCHANGED <<next, returned, result>>
    <2>1. stage' \in 0 .. Len(Stages)
      BY <1>1, <1>4, StagesFacts
    <2>2. QED
      BY <1>1, <1>2, <1>4, <2>1, StageIInv
  <1>5. ASSUME NEW status \in {"PARAM_INVALID", "FAILED"}, Return(status) PROVE IInv'
    BY <1>1, <1>2, <1>3, <1>5, ReturnIInv
  <1>6. QED
    BY <1>1, <1>4, <1>5

(* What PostTiling writes keeps the schedule mode as it was, or sets it if *)
(* the template asks for it.                                               *)
LEMMA WrittenFacts ==
  ASSUME NEW fields, DOMAIN context = Field \cup {"mode"}, context.mode \in BOOLEAN
  PROVE  LET w == Written(fields) IN
         /\ DOMAIN w = Field \cup {"mode"} /\ w.mode \in BOOLEAN
         /\ "mode" \notin fields => w.mode = context.mode
         /\ "mode" \in fields => (w.mode <=> context.mode \/ Current \in Modal)
         /\ \A f \in Field \cap fields : w[f] = Current
  BY DEF Written, Field

LEMMA PostTilingIInv == IInv /\ PostTiling => IInv'
  <1> SUFFICES ASSUME IInv, PostTiling PROVE IInv'
    OBVIOUS
  <1>1. UNCHANGED call /\ stage = Len(Stages)
    BY DEF PostTiling
  <1>2. UnderWay
    BY <1>1, OrderFacts, StagesFacts DEF PostTiling, UnderWay, IInv, DispatchTypeOK, Over
  <1>3. DOMAIN context = Field \cup {"mode"} /\ context.mode \in BOOLEAN
        /\ (call.workspace => context.mode = FALSE) /\ (call.update => context = Blank)
    BY <1>2 DEF UnderWay, IInv, DispatchTypeOK, ContextOfLast
  <1>4. ASSUME ~call.update, NEW fields \in {{}, {"data"}}, context' = Written(fields), Return("FAILED")
        PROVE  IInv'
    BY <1>2, <1>3, <1>4, WrittenFacts, ReturnIInv
  <1>5. ASSUME ~call.update, ~call.workspace, NEW fields, context' = Written(fields), Return("FAILED")
        PROVE  IInv'
    BY <1>2, <1>3, <1>5, WrittenFacts, ReturnIInv
  <1>6. ASSUME ~call.update, call.workspace, context' = Written(DOMAIN context), Return("SUCCESS")
        PROVE  IInv'
    BY <1>2, <1>3, <1>6, WrittenFacts, ReturnIInv
  <1>7. ASSUME call.update, UNCHANGED context,
               NEW status \in {"FAILED", "SUCCESS"}, Return(status)
        PROVE  IInv'
    BY <1>1, <1>2, <1>3, <1>7, ReturnIInv
  <1>8. QED
    BY <1>4, <1>5, <1>6, <1>7 DEF PostTiling, HandOver, FillContext

LEMMA NextIInv == IInv /\ [Next]_vars => IInv'
  <1> SUFFICES ASSUME IInv, [Next]_vars PROVE IInv'
    OBVIOUS
  <1>1. CASE UNCHANGED vars
    <2>1. /\ UNCHANGED <<call, next, stage, returned, context, result>>
          /\ Order' = Order /\ Registered' = Registered /\ Named' = Named
          /\ Stages' = Stages /\ Strict' = Strict /\ (call \in Call)' = (call \in Call)
      BY <1>1, SameLoop DEF vars
    <2>2. DispatchTypeOK'
      BY <2>1 DEF IInv, DispatchTypeOK, Current
    <2>3. Trail' /\ BehindRefused' /\ ContextOfLast' /\ AllAskedBeforeGivingUp'
      BY <2>1 DEF IInv, Trail, BehindRefused, ContextOfLast, AllAskedBeforeGivingUp,
         Over, Current, Filled, Unready
    <2>4. QED
      BY <2>2, <2>3 DEF IInv
  <1>2. QED
    BY <1>1, EnterIInv, ExhaustedIInv, UnregisteredIInv, CreateIInv, PrepareIInv, PostTilingIInv DEF Next

-------------------------------------------------------------------------------
(* The theorems.                                                           *)

(* The inductive invariant holds in every reachable state.                 *)
THEOREM Invariance == Spec => []IInv
  BY InitIInv, NextIInv, PTL DEF Spec

(* In the dispatchers that tell failure from refusal, a failure is the     *)
(* last word: no template after the failed one is ever created.            *)
THEOREM FailureIsFinal == Spec => []StrictDispatchAborts
  <1>1. IInv => StrictDispatchAborts
    <2> SUFFICES ASSUME IInv, Strict,
                        NEW i \in 1 .. Len(Order), Order[i] \in DOMAIN returned,
                        returned[Order[i]] = "FAILED",
                        NEW j \in i + 1 .. Len(Order)
                 PROVE  Order[j] \notin DOMAIN returned
      BY DEF StrictDispatchAborts, FailureAborts, Strict
    <2>1. Len(Order) \in Nat /\ next \in 0 .. Len(Order) + 1
      BY OrderFacts DEF IInv, DispatchTypeOK
    <2>2. ~(i < next)
      BY <2>1 DEF IInv, BehindRefused
    <2>3. ~(j < next \/ j = next) /\ j \in 1 .. Len(Order)
      BY <2>1, <2>2 DEF IInv, Trail
    <2>4. QED
      BY <2>3 DEF IInv, Trail
  <1>2. QED
    BY <1>1, Invariance, PTL

(* The template chosen is the first in the order of priorities, or of the  *)
(* list, that did not refuse: every one before it was asked.               *)
THEOREM FirstWillingWins == Spec => []SmallestPriorityWins
  <1>1. IInv => SmallestPriorityWins
    <2> SUFFICES ASSUME IInv, NEW w \in DOMAIN returned, returned[w] = "SUCCESS",
                        NEW p \in Named, Before(p, w)
                 PROVE  p \in DOMAIN returned /\ returned[p] # "SUCCESS"
      BY DEF SmallestPriorityWins
    <2>1. call \in Call /\ Len(Order) \in Nat /\ next \in 0 .. Len(Order) + 1
      BY OrderFacts DEF IInv, DispatchTypeOK
    <2>2. w = Current /\ next \in 1 .. Len(Order)
      BY <2>1 DEF IInv, ContextOfLast
    <2>3. PICK i \in 1 .. Len(Order) : p = Order[i]
      BY <2>1, OrderFacts DEF Named
    <2>4. i < next
      <3>1. CASE call.list = << >>
        <4>1. Order[i] < Order[next]
          BY <2>2, <2>3, <3>1 DEF Before, Current
        <4>2. \A x, y \in 1 .. Len(Order) : x < y => Order[x] < Order[y]
          BY <2>1, <3>1, OrderFacts
        <4>3. Order[i] \in Nat /\ Order[next] \in Nat
          BY <2>1, <2>2, OrderFacts
        <4>4. ~(next < i) /\ i # next
          BY <2>2, <4>1, <4>2, <4>3
        <4>5. QED
          BY <2>2, <4>4
      <3>2. CASE call.list # << >>
        <4>1. Order = call.list /\ DOMAIN Order = 1 .. Len(Order)
          BY <2>1, <3>2, OrderFacts DEF Order
        <4>2. PICK x, y \in 1 .. Len(Order) : x < y /\ p = Order[x] /\ w = Order[y]
          BY <3>2, <4>1 DEF Before
        <4>3. x = i /\ y = next
          BY <2>1, <2>2, <2>3, <4>2, OrderFacts DEF Current
        <4>4. QED
          BY <4>2, <4>3
      <3>3. QED
        BY <3>1, <3>2
    <2>5. p \in DOMAIN returned
      BY <2>3, <2>4 DEF IInv, Trail, Named
    <2>6. returned[p] # "SUCCESS"
      BY <2>1, <2>3, <2>4, <2>5 DEF IInv, BehindRefused
    <2>7. QED
      BY <2>5, <2>6
  <1>2. QED
    BY <1>1, Invariance, PTL

(* What a successful tiling leaves in the context is all of the template   *)
(* that succeeded, whatever earlier ones wrote before they failed.         *)
THEOREM ContextIsPure == Spec => []ContextOfOneTemplate
  <1>1. IInv => ContextOfOneTemplate
    <2> SUFFICES ASSUME IInv, NEW w \in DOMAIN returned, returned[w] = "SUCCESS"
                 PROVE  IF call.update THEN context = Blank
                        ELSE (\A f \in Field : context[f] = w) /\ (context.mode <=> w \in Modal)
      BY DEF ContextOfOneTemplate
    <2>1. result = "SUCCESS" /\ w = Current
      BY DEF IInv, ContextOfLast
    <2>2. ContextOfLast
      BY DEF IInv
    <2>3. CASE call.update
      BY <2>2, <2>3 DEF ContextOfLast
    <2>4. CASE ~call.update
      <3>1. Filled
        BY <2>1, <2>2, <2>4 DEF ContextOfLast
      <3>2. \A f \in Field : context[f] = w
        BY <2>1, <3>1 DEF Filled
      <3>3. context.mode <=> w \in Modal
        BY <2>1, <3>1 DEF Filled
      <3>4. QED
        BY <2>4, <3>2, <3>3
    <2>5. QED
      BY <2>3, <2>4
  <1>2. QED
    BY <1>1, Invariance, PTL

(* No eligible template is forgotten before the tiling is given up.        *)
THEOREM NoneForgotten == Spec => []AllAskedBeforeGivingUp
  <1>1. IInv => AllAskedBeforeGivingUp
    BY DEF IInv
  <1>2. QED
    BY <1>1, Invariance, PTL
===============================================================================
