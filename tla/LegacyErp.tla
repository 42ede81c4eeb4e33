------------------------------ MODULE LegacyErp ------------------------------
(***************************************************************************)
(* The mock legacy ERP (mock-legacy-erp/app): the write-back a robot makes *)
(* through the page of a purchase order, the tool registry in process      *)
(* memory, and the reset of the demo data.                                 *)
(*                                                                         *)
(* Endpoints run on pool threads. request_approval changes three tables in *)
(* one transaction, but the page reads the order before it, and the event  *)
(* is inserted after it. register_tool filters a list and then appends to  *)
(* it without a lock.                                                      *)
(*                                                                         *)
(* Abstracted: side-effect lists and trace ids, constants of the order;    *)
(* the order of the tools, which nothing reads; the read-only pages;       *)
(* requests register_tool and the modernization task refuse.               *)
(***************************************************************************)
EXTENDS ThreadPool, AutomationMemory

CONSTANTS
  Tools,     \* tool names registered
  MaxResets  \* bound: resets of the demo data

ASSUME ResetsAssumption == MaxResets \in Nat
ASSUME ToolsAssumption == Tools # {}

VARIABLES
  status,      \* purchase_orders.status
  logs,        \* audit_logs: rows per order
  traces,      \* side_effect_traces: whether the order has its row
  tools,       \* REGISTERED_TOOLS: how often each name is in the list
  job,         \* per pool thread: what it is doing
  resets,      \* how often the demo data was reset or the process restarted
  overlapping  \* history: two write-backs, or two changes of the tools, have
               \* overlapped

erpVars == <<status, logs, traces, tools, job, resets, overlapping>>

NoTools == [tool \in Tools |-> 0]

NoJob == [stage |-> "done", po |-> CHOOSE po \in Orders : TRUE,
          before |-> "Exception", tool |-> CHOOSE tool \in Tools : TRUE, list |-> NoTools]

WritebackStages == {"fetched", "requested"}
ToolStages      == {"filtered", "assigned", "reset"}

Busy(t) == job[t].stage # "done"

Overlaps(stages) == overlapping \/ \E t \in Threads : job[t].stage \in stages

LegacyInit ==
  /\ status = [po \in Orders |-> "Exception"]
  /\ logs = [po \in Orders |-> 0]
  /\ traces = [po \in Orders |-> FALSE]
  /\ tools = NoTools
  /\ job = [t \in Threads |-> NoJob]
  /\ resets = 0
  /\ overlapping = FALSE

(* Mutant: the status before is taken for granted.                         *)
FetchOrder_Constant(t, po) ==
  /\ ~Busy(t)
  /\ job' = [job EXCEPT ![t] = [NoJob EXCEPT !.stage = "fetched", !.po = po]]
  /\ overlapping' = Overlaps(WritebackStages \cup {"reset"})
  /\ UNCHANGED <<status, logs, traces, tools, resets>> /\ UNCHANGED memoryVars

(* POST /purchase-orders/{po_id}/request-approval: the status before.      *)
FetchOrder(t, po) ==
  /\ ~Busy(t)
  /\ job' = [job EXCEPT ![t] =
       [NoJob EXCEPT !.stage = "fetched", !.po = po, !.before = status[po]]]
  /\ overlapping' = Overlaps(WritebackStages \cup {"reset"})
  /\ UNCHANGED <<status, logs, traces, tools, resets>> /\ UNCHANGED memoryVars

(* request_approval, one transaction.                                      *)
RequestApproval(t) ==
  /\ job[t].stage = "fetched"
  /\ LET po == job[t].po IN
       /\ status' = [status EXCEPT ![po] = "PENDING_MANAGER_APPROVAL"]
       /\ logs' = [logs EXCEPT ![po] = @ + 1]
       /\ traces' = [traces EXCEPT ![po] = TRUE]
  /\ job' = [job EXCEPT ![t].stage = "requested"]
  /\ UNCHANGED <<tools, resets, overlapping>> /\ UNCHANGED memoryVars

(* record_rpa_writeback_memory                                             *)
RecordWriteback(t) ==
  /\ job[t].stage = "requested"
  /\ Record(Writeback(job[t].before, job[t].po)) \/ InsertFails
  /\ job' = [job EXCEPT ![t] = NoJob]
  /\ UNCHANGED <<status, logs, traces, tools, resets, overlapping, capabilities>>

(* Mutant: the tool is not filtered out.                                   *)
Others_All(tool) == tools

Others(tool) == [tools EXCEPT ![tool] = 0]

(* register_tool: the list without the tool, assigned, then appended to.   *)
FilterTools(t, tool) ==
  /\ ~Busy(t)
  /\ job' = [job EXCEPT ![t] =
       [NoJob EXCEPT !.stage = "filtered", !.tool = tool, !.list = Others(tool)]]
  /\ overlapping' = Overlaps(ToolStages)
  /\ UNCHANGED <<status, logs, traces, tools, resets>> /\ UNCHANGED memoryVars

AssignTools(t) ==
  /\ job[t].stage = "filtered"
  /\ tools' = job[t].list
  /\ job' = [job EXCEPT ![t].stage = "assigned", ![t].list = NoTools]
  /\ UNCHANGED <<status, logs, traces, resets, overlapping>> /\ UNCHANGED memoryVars

AppendTool(t) ==
  /\ job[t].stage = "assigned"
  /\ tools' = [tools EXCEPT ![job[t].tool] = @ + 1]
  /\ job' = [job EXCEPT ![t] = NoJob]
  /\ UNCHANGED <<status, logs, traces, resets, overlapping>> /\ UNCHANGED memoryVars

(* init_db: one transaction empties the logs and the traces and seeds the  *)
(* orders again.                                                           *)
Reseeded ==
  /\ status' = [po \in Orders |-> "Exception"]
  /\ logs' = [po \in Orders |-> 0]
  /\ traces' = [po \in Orders |-> FALSE]

(* POST /api/demo/reset: init_db, then the tools.                          *)
ResetOrders(t) ==
  /\ ~Busy(t) /\ resets < MaxResets
  /\ Reseeded
  /\ resets' = resets + 1
  /\ job' = [job EXCEPT ![t] = [NoJob EXCEPT !.stage = "reset"]]
  /\ overlapping' = Overlaps(WritebackStages \cup ToolStages)
  /\ UNCHANGED tools /\ UNCHANGED memoryVars

ClearTools(t) ==
  /\ job[t].stage = "reset"
  /\ tools' = NoTools
  /\ job' = [job EXCEPT ![t] = NoJob]
  /\ UNCHANGED <<status, logs, traces, resets, overlapping>> /\ UNCHANGED memoryVars

LegacyRestart ==
  /\ resets < MaxResets
  /\ Reseeded
  /\ tools' = NoTools
  /\ job' = [t \in Threads |-> NoJob]
  /\ resets' = resets + 1
  /\ UNCHANGED overlapping /\ UNCHANGED memoryVars

LegacyStep(t) ==
  \/ RequestApproval(t) \/ RecordWriteback(t)
  \/ AssignTools(t) \/ AppendTool(t)
  \/ ClearTools(t)

----------------------------------------------------------------------------
(* Properties.                                                             *)

LegacyTypeOK ==
  /\ status \in [Orders -> OrderStatuses]
  /\ logs \in [Orders -> Nat]
  /\ traces \in [Orders -> BOOLEAN]
  /\ tools \in [Tools -> Nat]
  /\ job \in [Threads -> [stage : {"done"} \cup WritebackStages \cup ToolStages,
                          po : Orders, before : OrderStatuses, tool : Tools,
                          list : [Tools -> Nat]]]
  /\ resets \in 0..MaxResets
  /\ overlapping \in BOOLEAN

(* The three tables of a write-back agree across resets and restarts: an   *)
(* order is pending exactly when it has a trace and at least one audit log.*)
WritebackTablesAgree ==
  \A po \in Orders :
    /\ status[po] = "PENDING_MANAGER_APPROVAL" <=> traces[po]
    /\ traces[po] <=> logs[po] > 0

(* The audit trail in Automation Memory reports the first write-back of an *)
(* order once: between resets only one event says the order was still in   *)
(* Exception before, unless two write-backs overlap and both read          *)
(* Exception. It takes the tables to agree on what was written back.       *)
FirstWritebackOnce ==
  /\ WritebackTablesAgree
  /\ ~overlapping => \A po \in Orders : events[Writeback("Exception", po)] <= resets + 1

(* Registering a tool replaces its registration. Two that overlap can both *)
(* filter before either appends, and leave the tool registered twice.      *)
ToolRegisteredOnce ==
  ~overlapping => \A tool \in Tools : tools[tool] <= 1

=============================================================================
