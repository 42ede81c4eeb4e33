------------------------------ MODULE MC_Route ------------------------------
(* TLC instance of RoutedRun.                                               *)
EXTENDS RoutedRun, TLC

Clean == [over |-> FALSE, vendor |-> "complete", stock |-> TRUE, status |-> "normal",
          text |-> "none", asked |-> "none"]

(* A normal order, and every way it is not one.                             *)
MCOrders ==
  {Clean,
   [Clean EXCEPT !.text = "hint"],
   [Clean EXCEPT !.vendor = "blank", !.status = "other"],
   [Clean EXCEPT !.over = TRUE, !.status = "exception", !.text = "hint"],
   [Clean EXCEPT !.over = TRUE, !.status = "other", !.text = "plain"],
   [Clean EXCEPT !.over = TRUE, !.asked = "standard_purchase_order_processing"],
   [Clean EXCEPT !.vendor = "incomplete", !.stock = FALSE],
   [Clean EXCEPT !.stock = FALSE, !.status = "exception", !.text = "shortage"],
   [Clean EXCEPT !.status = "exception"],
   [Clean EXCEPT !.status = "exception", !.text = "hint"]}

(* One that follows the rules for an order over budget, one that does not.  *)
MCAnswers ==
  {[route |-> "WAITING_FOR_HUMAN_APPROVAL", policy |-> "REQUIRE_HUMAN_APPROVAL"],
   [route |-> "STANDARD_PROCESSING", policy |-> "ALLOW_STANDARD_PROCESSING"]}

(* As in memory/data/historical_patterns.json.                              *)
MCSeed == [e \in Exceptions |->
  CASE e = "budget_exceeded" ->
         [NoPattern EXCEPT !.observed = 18, !.passes = 12, !.value = 90, !.stability = 92]
    [] e = "inventory_shortage" -> [NoPattern EXCEPT !.observed = 9, !.gaps = 9, !.stability = 55]
    [] e = "vendor_info_missing" -> [NoPattern EXCEPT !.observed = 5, !.noApi = TRUE]
    [] OTHER -> NoPattern]

Symmetry == Permutations(Threads)

=============================================================================
