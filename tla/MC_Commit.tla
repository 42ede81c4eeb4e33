------------------------------ MODULE MC_Commit ------------------------------
(* TLC instance of RunCommit: a budget case whose runs took two routes, two *)
(* cases with history, and a run that recorded nothing to classify it by.   *)
EXTENDS RunCommit, TLC

Budget == [action |-> "request_purchase_order_approval", exception |-> "budget_exceeded"]
Stock  == [action |-> "request_inventory_review", exception |-> "inventory_shortage"]
Vendor == [action |-> "handle_vendor_info_missing", exception |-> "vendor_info_missing"]

Unclear == [action |-> "manual_investigation", exception |-> "unknown_exception"]

MCCases == {Budget, Stock, Vendor, Unclear}

MCSignatures == {"budget_manager", "budget_manual", "stock", "vendor", "unclear"}

MCCaseOf == [s \in MCSignatures |->
  CASE s \in {"budget_manager", "budget_manual"} -> Budget
    [] s = "stock" -> Stock
    [] s = "vendor" -> Vendor
    [] s = "unclear" -> Unclear]

MCShort == {"stock", "unclear"}

MCRuns == {"run1", "run2", "run3", "run4", "run5"}

MCSignatureOf == [r \in MCRuns |->
  CASE r = "run1" -> "budget_manager" [] r = "run2" -> "budget_manual"
    [] r = "run3" -> "stock" [] r = "run4" -> "vendor"
    [] r = "run5" -> "unclear"]

MCValidationOf == [r \in MCRuns |-> IF r = "run1" THEN "passed" ELSE "none"]

(* As in memory/data/historical_patterns.json, without its budget entry.    *)
MCSeed == [c \in MCCases |->
  CASE c \in {Budget, Unclear} -> NoPattern
    [] c = Stock -> [NoPattern EXCEPT !.observed = 9, !.gaps = 9, !.stability = 55]
    [] c = Vendor -> [NoPattern EXCEPT !.observed = 5, !.noApi = TRUE]]

ASSUME MCSeedWaits == NoApiEntriesWait

Symmetry == Permutations(Threads)

=============================================================================
