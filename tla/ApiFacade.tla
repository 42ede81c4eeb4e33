------------------------------ MODULE ApiFacade ------------------------------
(***************************************************************************)
(* The generated API facade (generated-api-facade/app): one endpoint that  *)
(* creates the approval task of a purchase order, or answers with the one  *)
(* there is. The look-up is not part of the transaction of the insert; the *)
(* UNIQUE task id is what keeps a second task out. init_db empties the     *)
(* tables whenever the process starts; Automation Memory keeps its events. *)
(*                                                                         *)
(* Abstracted: the fields of a task that are constants. Every purchase     *)
(* order of Orders is seeded, so the 404 is left out.                      *)
(***************************************************************************)
EXTENDS ThreadPool, AutomationMemory

CONSTANTS
  SourceCases,  \* source_case_id of the requests
  NoCase        \* in place of one

ASSUME SourceCasesAssumption == NoCase \notin SourceCases

VARIABLES
  approvalTasks,  \* approval_tasks: the case that created each order's task
  audits,         \* audit_logs: rows per order
  request         \* per pool thread: the request it is serving

facadeVars == <<approvalTasks, audits, request>>

NoRequest(po) == [stage |-> "done", po |-> po, source |-> NoCase, found |-> FALSE]

Serving(t) == request[t].stage # "done"

FacadeInit ==
  /\ approvalTasks = [po \in Orders |-> NoCase]
  /\ audits = [po \in Orders |-> 0]
  /\ request = [t \in Threads |-> NoRequest(CHOOSE po \in Orders : TRUE)]

FinishRequest(t) == request' = [request EXCEPT ![t] = NoRequest(@.po)]

(* POST /api/purchase-orders/{po_id}/approval-request: look for the task.  *)
SelectTask(t, po, source) ==
  /\ ~Serving(t)
  /\ request' = [request EXCEPT ![t] =
       [stage |-> "selected", po |-> po, source |-> source,
        found |-> approvalTasks[po] # NoCase]]
  /\ UNCHANGED <<approvalTasks, audits>> /\ UNCHANGED memoryVars

(* Mutant: the task id is not UNIQUE.                                      *)
InsertTask_NotUnique(t) ==
  /\ request[t].stage = "selected"
  /\ LET r == request[t] IN
       IF r.found
         THEN UNCHANGED <<approvalTasks, audits>>
         ELSE /\ approvalTasks' = [approvalTasks EXCEPT ![r.po] = r.source]
              /\ audits' = [audits EXCEPT ![r.po] = @ + 1]
  /\ request' = [request EXCEPT ![t].stage = "created"]
  /\ UNCHANGED memoryVars

(* One transaction inserts the task and its audit log. When another        *)
(* request got there first, the insert breaks the constraint, the          *)
(* transaction is rolled back, and the request ends with an error.         *)
InsertTask(t) ==
  /\ request[t].stage = "selected"
  /\ LET r == request[t] IN
       \/ /\ r.found
          /\ request' = [request EXCEPT ![t].stage = "created"]
          /\ UNCHANGED <<approvalTasks, audits>>
       \/ /\ ~r.found /\ approvalTasks[r.po] = NoCase
          /\ approvalTasks' = [approvalTasks EXCEPT ![r.po] = r.source]
          /\ audits' = [audits EXCEPT ![r.po] = @ + 1]
          /\ request' = [request EXCEPT ![t].stage = "created"]
       \/ /\ ~r.found /\ approvalTasks[r.po] # NoCase
          /\ FinishRequest(t)
          /\ UNCHANGED <<approvalTasks, audits>>
  /\ UNCHANGED memoryVars

(* record_approval_task_memory, after the commit; then the 202.            *)
RecordTask(t) ==
  /\ request[t].stage = "created"
  /\ Record(TaskRequest(request[t].po)) \/ InsertFails
  /\ FinishRequest(t)
  /\ UNCHANGED <<approvalTasks, audits, capabilities>>

FacadeRestart ==
  /\ approvalTasks' = [po \in Orders |-> NoCase]
  /\ audits' = [po \in Orders |-> 0]
  /\ request' = [t \in Threads |-> NoRequest(request[t].po)]
  /\ UNCHANGED memoryVars

FacadeStep(t) == InsertTask(t) \/ RecordTask(t)

----------------------------------------------------------------------------
(* Properties.                                                             *)

FacadeTypeOK ==
  /\ approvalTasks \in [Orders -> SourceCases \cup {NoCase}]
  /\ audits \in [Orders -> Nat]
  /\ request \in [Threads -> [stage : {"done", "selected", "created"}, po : Orders,
                              source : SourceCases \cup {NoCase}, found : BOOLEAN]]

(* However requests race and wherever a restart cuts them off, an order    *)
(* has at most one task and exactly one audit log for it, and a request    *)
(* that is about to answer 202 answers for a task that exists, whoever     *)
(* created it (test_purchase_order_approval_is_idempotent).                *)
OneTaskPerOrder ==
  /\ \A po \in Orders : audits[po] = IF approvalTasks[po] = NoCase THEN 0 ELSE 1
  /\ \A t \in Threads : request[t].stage = "created" =>
       approvalTasks[request[t].po] # NoCase

=============================================================================
