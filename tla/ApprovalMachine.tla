-------------------------- MODULE ApprovalMachine --------------------------
(***************************************************************************)
(* What the approval store promises: the status machine of its docstring   *)
(* (approval_store.py:15-22), with the second way into COMPLETED that the  *)
(* docstring of mark-writeback-completed adds. One status per id, one step *)
(* per transition; no request, await, thread or audit trail.               *)
(***************************************************************************)
CONSTANT Ids
VARIABLE status

Become(i, from, to) == status[i] \in from /\ status' = [status EXCEPT ![i] = to]

Create(i)   == Become(i, {"ABSENT"}, "PENDING")
Approve(i)  == Become(i, {"PENDING"}, "APPROVED_PENDING_ERP_WRITEBACK")
Reject(i)   == Become(i, {"PENDING"}, "REJECTED")
Start(i)    == Become(i, {"APPROVED_PENDING_ERP_WRITEBACK"}, "ERP_WRITEBACK_IN_PROGRESS")
Complete(i) == Become(i, {"APPROVED_PENDING_ERP_WRITEBACK", "ERP_WRITEBACK_IN_PROGRESS"},
                      "ERP_WRITEBACK_COMPLETED")

Init == status = [i \in Ids |-> "ABSENT"]
Next == \E i \in Ids : Create(i) \/ Approve(i) \/ Reject(i) \/ Start(i) \/ Complete(i)
Spec == Init /\ [][Next]_status

============================================================================
