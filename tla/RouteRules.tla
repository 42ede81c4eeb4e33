------------------------------ MODULE RouteRules ------------------------------
(***************************************************************************)
(* The rules by which an order is routed: precheck (main.py), the          *)
(* classifier of triage.py, the route they give, and the policy gate. None *)
(* of them has state; RoutedRun calls them.                                *)
(*                                                                         *)
(* An order is what the rules tell apart: whether the amount exceeds the   *)
(* budget, whether the vendor is complete ("blank": marked complete, but   *)
(* without an id), whether there is stock, the ERP status, and the         *)
(* exception text ("plain": text without any of the key words).            *)
(* "asked" is the business action the request may name itself.             *)
(***************************************************************************)
EXTENDS CapabilityEvolution

Exceptions ==
  {"none", "budget_exceeded", "vendor_info_missing", "inventory_shortage", "unknown_exception"}

RouteActions ==
  {"standard_purchase_order_processing", "request_purchase_order_approval",
   "handle_vendor_info_missing", "request_inventory_review", "manual_case_review"}

Order ==
  [over : BOOLEAN, vendor : {"complete", "blank", "incomplete"}, stock : BOOLEAN,
   status : {"normal", "exception", "other"}, text : {"none", "plain", "hint", "shortage"},
   asked : {"none"} \cup RouteActions]

ModelRoutes ==
  {"STANDARD_PROCESSING", "WAITING_VENDOR_INFO", "CAPABILITY_GAP_DETECTED",
   "WAITING_MANUAL_INVESTIGATION", "WAITING_FOR_HUMAN_APPROVAL"}

Routes == ModelRoutes \cup {"AGENT_SEMANTIC_ROUTING"}

Policies ==
  {"ALLOW_STANDARD_PROCESSING", "REQUIRE_HUMAN_APPROVAL", "WAIT_FOR_BUSINESS_DATA",
   "REQUIRE_CAPABILITY_REVIEW", "REQUIRE_MANUAL_INVESTIGATION"}

FieldException(order) == order.over \/ order.vendor = "incomplete" \/ ~order.stock

Hints(order) == order.text \in {"hint", "shortage"}

Ambiguous(order) ==
  \/ order.status = "other" /\ order.text # "none"
  \/ order.status = "exception" /\ ~FieldException(order) /\ ~Hints(order)

Precheck(order) ==
  IF Ambiguous(order) THEN "AMBIGUOUS"
  ELSE IF FieldException(order) \/ order.status = "exception" THEN "CLEAR_EXCEPTION"
  ELSE "NORMAL"

(* classify_exception: the first rule that applies.                        *)
Classified(order) ==
  IF order.over THEN "budget_exceeded"
  ELSE IF order.vendor # "complete" THEN "vendor_info_missing"
  ELSE IF ~order.stock \/ order.text = "shortage" THEN "inventory_shortage"
  ELSE IF order.status = "normal" /\ order.text = "none" THEN "none"
  ELSE "unknown_exception"

(* next_stage of a triage response, and its business_action.               *)
StageOf == [e \in Exceptions |->
  CASE e = "none"                -> "STANDARD_PROCESSING"
    [] e = "budget_exceeded"     -> "WAITING_FOR_HUMAN_APPROVAL"
    [] e = "vendor_info_missing" -> "WAITING_VENDOR_INFO"
    [] e = "inventory_shortage"  -> "CAPABILITY_GAP_DETECTED"
    [] e = "unknown_exception"   -> "WAITING_MANUAL_INVESTIGATION"]

TriageAction == [e \in Exceptions |->
  CASE e = "none"                -> "standard_purchase_order_processing"
    [] e = "budget_exceeded"     -> "request_purchase_order_approval"
    [] e = "vendor_info_missing" -> "collect_vendor_information"
    [] e = "inventory_shortage"  -> "resolve_inventory_shortage"
    [] e = "unknown_exception"   -> "manual_investigation"]

(* The route plan names other actions than the triage response does.       *)
RouteAction == [e \in Exceptions |->
  CASE e = "none"                -> "standard_purchase_order_processing"
    [] e = "budget_exceeded"     -> "request_purchase_order_approval"
    [] e = "vendor_info_missing" -> "handle_vendor_info_missing"
    [] e = "inventory_shortage"  -> "request_inventory_review"
    [] e = "unknown_exception"   -> "manual_case_review"]

(* What the plan calls the exception: nothing is triaged in a normal order. *)
Detected(order) == IF Precheck(order) = "NORMAL" THEN "none" ELSE Classified(order)

ActionOf(order) == IF order.asked # "none" THEN order.asked ELSE RouteAction[Detected(order)]

(* Only the classification as unknown has a confidence below 0.75.         *)
Doubtful(exception) == exception = "unknown_exception"

RuleRoute(order) ==
  CASE Precheck(order) = "NORMAL"          -> "STANDARD_PROCESSING"
    [] Precheck(order) = "CLEAR_EXCEPTION" -> StageOf[Classified(order)]
    [] Precheck(order) = "AMBIGUOUS"       ->
         IF Doubtful(Classified(order)) THEN "WAITING_MANUAL_INVESTIGATION"
         ELSE "AGENT_SEMANTIC_ROUTING"

(* Mutant: the gate opens whenever no evolution is required.               *)
GateAllows_AnyCase(order, label) == label = "NO_EVOLUTION_REQUIRED"

(* The one rule that lets an order be executed without a human.            *)
GateAllows(order, label) == Precheck(order) = "NORMAL" /\ label = "NO_EVOLUTION_REQUIRED"

(* _evaluate_policy_gate; "doubtful" is a confidence below 0.75.           *)
Gate(order, label, route, doubtful) ==
  LET exception == Detected(order) IN
  IF GateAllows(order, label) THEN "ALLOW_STANDARD_PROCESSING"
  ELSE IF doubtful \/ label = "MANUAL_INVESTIGATION" THEN "REQUIRE_MANUAL_INVESTIGATION"
  ELSE IF \/ label = "XAML_WORKFLOW_PROPOSAL" \/ exception = "inventory_shortage"
          \/ route = "CAPABILITY_GAP_DETECTED" THEN "REQUIRE_CAPABILITY_REVIEW"
  ELSE IF exception = "budget_exceeded" \/ route = "WAITING_FOR_HUMAN_APPROVAL"
    THEN "REQUIRE_HUMAN_APPROVAL"
  ELSE IF exception = "vendor_info_missing" \/ route = "WAITING_VENDOR_INFO"
    THEN "WAIT_FOR_BUSINESS_DATA"
  ELSE IF label \in ProposalLabels THEN "REQUIRE_CAPABILITY_REVIEW"
  ELSE "REQUIRE_MANUAL_INVESTIGATION"

RulePolicy(order, label) ==
  Gate(order, label, RuleRoute(order), Doubtful(Detected(order)))

(* _recommended_erp_action                                                 *)
ErpAction(route) ==
  CASE route = "STANDARD_PROCESSING"        -> "STANDARD_PROCESSING"
    [] route = "WAITING_VENDOR_INFO"        -> "MARK_WAITING_VENDOR"
    [] route = "CAPABILITY_GAP_DETECTED"    -> "FLAG_CAPABILITY_GAP"
    [] route = "WAITING_FOR_HUMAN_APPROVAL" -> "CREATE_WEB_APPROVAL_TASK"
    [] OTHER                                -> "SEND_MANUAL_INVESTIGATION"

=============================================================================
