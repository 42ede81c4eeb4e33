-------------------------- MODULE AutomationMemory --------------------------
(***************************************************************************)
(* Automation Memory (shared/automation_memory): what the validation       *)
(* suite, the API facade and the mock legacy ERP, three processes, write   *)
(* and the reasoning agent reads.                                          *)
(*                                                                         *)
(*   - events.db: one SQLite insert per event, each atomic; nothing is     *)
(*     ever deleted. An insert may fail (a lock held too long, a full      *)
(*     disk), and every service goes on without the event.                 *)
(*   - capabilities.json: the trusted capabilities, in order. A service    *)
(*     reads the list, opens the file, which empties it, and writes the    *)
(*     new list; nothing locks. Unlike Run Memory's files, an unreadable   *)
(*     one raises (AutomationMemoryJsonError) instead of reading as empty. *)
(*                                                                         *)
(* Abstracted: ids, times, payload fields no query reads, and the          *)
(* migration and export scripts.                                           *)
(***************************************************************************)
EXTENDS Naturals, Sequences, SequencesExt, JsonFile

CONSTANTS
  Orders,      \* purchase orders
  MaxFaults    \* bound: event inserts that fail

ASSUME FaultsAssumption == MaxFaults \in Nat
ASSUME OrdersAssumption == Orders # {}

VARIABLES
  events,        \* events.db: how many events there are of each kind
  capabilities,  \* capabilities.json
  faults         \* how many inserts have failed

memoryVars == <<events, capabilities, faults>>

(* The two capabilities a passed validation makes trusted, both for the    *)
(* action request_purchase_order_approval.                                 *)
ApiTool   == "cap_api_request_po_approval_v1"
HumanTask == "cap_human_po_approval_v1"
Caps      == {ApiTool, HumanTask}

(* Kinds of events, each with what it is about where a property asks.      *)
Passed          == <<"VALIDATION_COMPLETED", "passed">>
NotPassed       == <<"VALIDATION_COMPLETED", "failed">>
Registered(cap) == <<"CAPABILITY_REGISTERED", cap>>
Gap             == <<"CAPABILITY_GAP_RECORDED", "resolve_inventory_shortage">>
HumanApproval   == <<"HUMAN_APPROVAL_COMPLETED", "validation-suite">>
TaskRequest(po) == <<"HUMAN_APPROVAL_COMPLETED", po>>
Writeback(before, po) == <<"RPA_WRITEBACK_COMPLETED", before, po>>

OrderStatuses == {"Exception", "PENDING_MANAGER_APPROVAL"}

EventKinds ==
  {Passed, NotPassed, Gap, HumanApproval}
    \cup {Registered(cap) : cap \in Caps}
    \cup {TaskRequest(po) : po \in Orders}
    \cup {Writeback(before, po) : before \in OrderStatuses, po \in Orders}

Happened(event) == events[event] > 0

(* insert_event                                                            *)
Record(event) ==
  /\ events' = [events EXCEPT ![event] = @ + 1]
  /\ UNCHANGED faults

InsertFails ==
  /\ faults < MaxFaults
  /\ faults' = faults + 1
  /\ UNCHANGED events

NoEvent == UNCHANGED <<events, faults>>

(* Mutant: the list that was read is not written back.                     *)
Upserted_Alone(list, cap) == <<cap>>

(* upsert_capability: the new entry goes to the end, and the entry it      *)
(* replaces is dropped; a list has one at most, as every list comes from   *)
(* here.                                                                   *)
Upserted(list, cap) == Append(RemoveFirst(list, cap), cap)

(* find_capability, for the one action that has any: the first entry.      *)
Found(list) == IF list = <<>> THEN "none" ELSE Head(list)

MemoryInit ==
  /\ events = [event \in EventKinds |-> 0]
  /\ capabilities = NoFile(<<>>)
  /\ faults = 0

MemoryTypeOK ==
  /\ events \in [EventKinds -> Nat]
  /\ capabilities \in File({capabilities.content})
  /\ faults \in 0..MaxFaults

=============================================================================
