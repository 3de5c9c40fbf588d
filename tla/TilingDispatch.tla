----------------------------- MODULE TilingDispatch ----------------------------
(***************************************************************************)
(* How a tiling call finds its template: the five dispatchers of           *)
(* common/inc/tiling_base/tiling_templates_registry.h (TilingRegistryNew   *)
(* and TilingRegistry, each in priority order or along a list) and of      *)
(* mat_mul_v3/op_host/op_tiling/arch35/matmul_tiling_registry.h ("MM"),    *)
(* over the stages of TilingBaseClass::DoTiling and                        *)
(* MatMulBaseTiling::DoTiling, up to what they leave in the context.       *)
(* Templates are identified with the priorities they are registered with.  *)
(***************************************************************************)
EXTENDS Integers, FiniteSets, SequencesExt

CONSTANTS
  Dispatchers,  \* those considered, of AllDispatchers
  Priorities,   \* the priorities of an operator's templates
  Lists,        \* the priority lists that tiling functions pass
  Modal         \* templates that ask for SetScheduleMode(1): cores synchronise

AllDispatchers == {"New", "NewList", "Plain", "PlainList", "MM"}

(* No list of the repository names a template twice.                       *)
ASSUME DispatchAssumption ==
  /\ Dispatchers \subseteq AllDispatchers
  /\ Priorities \subseteq Nat /\ IsFiniteSet(Priorities)
  /\ Lists \subseteq Seq(Priorities)
  /\ \A l \in Lists : l # << >> /\ IsInjective(l)
  /\ Modal \subseteq Priorities

VARIABLES
  call,       \* the tiling call: dispatcher, list, the map of registered
              \* templates as it is iterated, what is known of the platform,
              \* whether the caller takes the tiling itself (cfg.needUpdate),
              \* whether the context has room for the workspace sizes
  next,       \* position of the template under way in Order, 0 before the loop
  stage,      \* position of that template in Stages, 0 before its constructor
  returned,   \* what the templates tried so far came to
  context,    \* the template that wrote each field last, mode: whether it is set
  result      \* what the tiling function returns

vars == <<call, next, stage, returned, context, result>>

None == -1          \* no template
Over == result # "running"

(***************************************************************************)
(* std::map iterates by ascending priority.  The loop takes this order, or *)
(* that of the list; MM does the former for an empty list.                 *)
(***************************************************************************)
Ascending(s) == \A i, j \in DOMAIN s : i < j => s[i] < s[j]

Maps ==
  {s \in UNION {[1 .. n -> Priorities] : n \in 0 .. Cardinality(Priorities)} : Ascending(s)}

Registered == Range(call.map)

\* broken variant: the map is iterated from its end
OrderDescending == IF call.list = << >> THEN Reverse(call.map) ELSE call.list
Order == IF call.list = << >> THEN call.map ELSE call.list

Current == Order[next]

(* The virtual calls of DoTiling; PostTiling fills the context in.         *)
Stages ==
  IF call.dispatcher = "MM"
    THEN <<"GetShapeAttrsInfo", "IsCapable", "DoOpTiling", "AdjustOpTiling", "PostTiling">>
    ELSE <<"GetShapeAttrsInfo", "GetPlatformInfo", "IsCapable", "DoOpTiling",
           "DoLibApiTiling", "GetWorkspaceSize", "PostTiling">>

Field == {"data", "block", "key", "workspace"}

(* TilingRegistry's list variant calls what the map yields for a priority, *)
(* unchecked: every list in the repository names registered templates.     *)
PassesList(d, list) ==
  CASE d \in {"New", "Plain"}         -> list = << >>
    [] d \in {"NewList", "PlainList"} -> list # << >>
    [] OTHER                          -> TRUE

(* New reads the version of the platform, or of the compile info: known,   *)
(* RESERVED_VERSION, or neither is there.  MM wants a context, a compile   *)
(* info and its arguments.  TilingRegistry looks at none of them.          *)
Platforms(d) ==
  CASE d \in {"New", "NewList"} -> {"known", "reserved", "missing"}
    [] d = "MM"                 -> {"known", "missing"}
    [] OTHER                    -> {"known"}

Blank == [f \in Field \cup {"mode"} |-> IF f = "mode" THEN FALSE ELSE None]

Init ==
  /\ call \in [dispatcher : Dispatchers, list : Lists \cup {<< >>}, map : Maps,
               platform : {"known", "reserved", "missing"},
               update : BOOLEAN, workspace : BOOLEAN]
  /\ PassesList(call.dispatcher, call.list)
  /\ call.dispatcher = "PlainList" => Range(call.list) \subseteq Registered
  /\ call.platform \in Platforms(call.dispatcher)
  /\ call.update => call.dispatcher = "MM"
  /\ next = 0
  /\ stage = 0
  /\ returned = [p \in {} |-> None]
  /\ context = Blank
  /\ result = "running"

-------------------------------------------------------------------------------
(* What a dispatcher refuses before it asks any template.                  *)
Unready ==
  \/ call.platform = "missing"
  \/ call.dispatcher = "New" /\ call.platform = "reserved"
  \/ call.dispatcher = "MM" /\ call.map = << >>

Enter ==
  /\ ~Over
  /\ next = 0
  /\ IF Unready THEN result' = "FAILED" /\ UNCHANGED next
                ELSE next' = 1 /\ UNCHANGED result
  /\ UNCHANGED <<call, stage, returned, context>>

(* Past the last template.                                                 *)
\* broken variant: the loop ends before the last template
ExhaustedEarly ==
  /\ ~Over /\ stage = 0
  /\ next > 0 /\ next >= Len(Order)
  /\ result' = "FAILED"
  /\ UNCHANGED <<call, next, stage, returned, context>>

Exhausted ==
  /\ ~Over /\ stage = 0
  /\ next > Len(Order)
  /\ result' = "FAILED"
  /\ UNCHANGED <<call, next, stage, returned, context>>

(* A priority of the list that nobody registered: passed over or refused.  *)
Unregistered ==
  /\ ~Over /\ stage = 0
  /\ next \in 1 .. Len(Order) /\ Current \notin Registered
  /\ IF call.dispatcher = "MM" THEN result' = "FAILED" /\ UNCHANGED next
                               ELSE next' = next + 1 /\ UNCHANGED result
  /\ UNCHANGED <<call, stage, returned, context>>

Record(status) ==
  returned' = [p \in DOMAIN returned \cup {Current} |->
                 IF p = Current THEN status ELSE returned[p]]

(* TILING_CLASS: new (std::nothrow) may come back with nothing.            *)
Create ==
  /\ ~Over /\ stage = 0
  /\ next \in 1 .. Len(Order) /\ Current \in Registered
  /\ \/ stage' = 1 /\ UNCHANGED <<next, returned>>
     \/ next' = next + 1 /\ Record("nullptr") /\ UNCHANGED stage
  /\ UNCHANGED <<call, context, result>>

(* The statuses that end the loop, in each dispatcher.                     *)
\* broken variant: every dispatcher goes on after a failure
EndsOnSuccess(status) == status = "SUCCESS"
Ends(status) ==
  \/ status = "SUCCESS"
  \/ status = "FAILED" /\ call.dispatcher \in {"New", "Plain", "PlainList"}

(* DoTiling is back in the dispatcher.                                     *)
Return(status) ==
  /\ Record(status)
  /\ IF Ends(status) THEN result' = status /\ UNCHANGED <<next, stage>>
                     ELSE next' = next + 1 /\ stage' = 0 /\ UNCHANGED result

(* A stage before PostTiling: it succeeds, refuses or fails.               *)
Prepare ==
  /\ ~Over
  /\ stage \in 1 .. Len(Stages) - 1
  /\ \/ stage' = stage + 1 /\ UNCHANGED <<next, returned, result>>
     \/ Return("PARAM_INVALID")
     \/ Stages[stage] # "IsCapable" /\ Return("FAILED")
  /\ UNCHANGED <<call, context>>

Written(fields) ==
  [f \in DOMAIN context |->
     IF f = "mode" /\ "mode" \in fields THEN context.mode \/ Current \in Modal
     ELSE IF f \in fields THEN Current
     ELSE context[f]]

(* PostTiling writes the tiling data (memcpy_s may fail, half done or not  *)
(* begun), the block dimension, the schedule mode and the workspace size,  *)
(* if the context has room for it: no template of MM comes without one.    *)
(* The key comes before the mode in MM, and after PostTiling, in DoTiling, *)
(* elsewhere.  With needUpdate, cfg.Update takes all this instead.         *)
\* broken variant: the mode is set before the data, and stays on failure
PostTilingModeFirst ==
  /\ ~Over
  /\ stage = Len(Stages)
  /\ \/ context' = Written({"mode"}) /\ Return("FAILED")
     \/ call.workspace /\ context' = Written(DOMAIN context) /\ Return("SUCCESS")
  /\ ~call.update
  /\ UNCHANGED call

HandOver ==
  /\ UNCHANGED context
  /\ Return("FAILED") \/ Return("SUCCESS")

FillContext ==
  \/ /\ \E fields \in {{}, {"data"}} : context' = Written(fields)
     /\ Return("FAILED")
  \/ /\ ~call.workspace
     /\ context' = Written({"data", "block", "mode"}
                             \cup (IF call.dispatcher = "MM" THEN {"key"} ELSE {}))
     /\ Return("FAILED")
  \/ /\ call.workspace
     /\ context' = Written(DOMAIN context)
     /\ Return("SUCCESS")

PostTiling ==
  /\ ~Over
  /\ stage = Len(Stages)
  /\ IF call.update THEN HandOver ELSE FillContext
  /\ UNCHANGED call

Next == Enter \/ Exhausted \/ Unregistered \/ Create \/ Prepare \/ PostTiling

Spec == Init /\ [][Next]_vars

-------------------------------------------------------------------------------
Named == Range(Order) \cap Registered

(* A failure, unlike a refusal, ends the whole tiling: no other template   *)
(* is asked (the comment on DoTiling in tiling_base.h).                    *)
FailureAborts ==
  \A i \in 1 .. Len(Order) :
     (Order[i] \in DOMAIN returned /\ returned[Order[i]] = "FAILED")
        => \A j \in i + 1 .. Len(Order) : Order[j] \notin DOMAIN returned

(* The same for the three dispatchers that tell failure from refusal.      *)
StrictDispatchAborts ==
  call.dispatcher \in {"New", "Plain", "PlainList"} => FailureAborts

(* The smaller priority wins, or the earlier template of a list: one is    *)
(* chosen only after each one that comes before it, among those eligible,  *)
(* has been tried and has not succeeded (the comment on the registration   *)
(* macros; FusedQuantMatMul lists its templates against their priorities). *)
Before(p, w) ==
  IF call.list = << >>
    THEN p < w
    ELSE \E i, j \in DOMAIN call.list : i < j /\ p = call.list[i] /\ w = call.list[j]

SmallestPriorityWins ==
  \A w \in DOMAIN returned : returned[w] = "SUCCESS" =>
     \A p \in Named : Before(p, w) => p \in DOMAIN returned /\ returned[p] # "SUCCESS"

(* A successful tiling is all of one template: nothing an earlier one left *)
(* in the context before it failed survives, the schedule mode included.   *)
(* The context of a caller that takes the tiling itself is left alone.     *)
ContextOfOneTemplate ==
  \A w \in DOMAIN returned : returned[w] = "SUCCESS" =>
     IF call.update THEN context = Blank
     ELSE /\ \A f \in Field : context[f] = w
          /\ (context.mode <=> w \in Modal)

(* A tiling without a failure is given up only when every eligible one has *)
(* been asked (or when MM is given a list that names no such template, or  *)
(* the dispatcher never came to its loop).                                 *)
AllAskedBeforeGivingUp ==
  result = "FAILED" =>
     \/ next = 0 /\ Unready
     \/ \E p \in DOMAIN returned : returned[p] = "FAILED"
     \/ Named \subseteq DOMAIN returned
     \/ call.dispatcher = "MM" /\ ~(Range(Order) \subseteq Registered)
===============================================================================
