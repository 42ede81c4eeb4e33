--------------------------- MODULE ApprovalStore ---------------------------
(***************************************************************************)
(* The human-approval tasks of the reasoning agent:                        *)
(* services/approval_store.py and the /approvals endpoints of main.py.     *)
(*                                                                         *)
(* Two kinds of request touch the store at the same time:                  *)
(*   - /approvals/create is a plain function, so it runs on a thread of    *)
(*     the pool: generating the id and inserting the task are two steps    *)
(*     that other threads can come between;                                *)
(*   - approve, reject and the two mark-writeback handlers are coroutines  *)
(*     of one event loop: each checks the status, awaits the request body, *)
(*     and only then writes. Between two awaits a coroutine is atomic for  *)
(*     the other coroutines.                                               *)
(*                                                                         *)
(* Abstracted: names, comments, amounts and timestamps; the date part of   *)
(* an id (the model is one day, the interval in which ids can clash); and  *)
(* the best-effort Run Memory event, which never raises and which no       *)
(* handler of this store reads back.                                       *)
(***************************************************************************)
EXTENDS Naturals, FiniteSets, Sequences, ThreadPool

CONSTANTS
  Requests,   \* coroutines in flight on the event loop
  Sims,       \* simulation case ids an approval can be linked to
  NoSim,      \* an approval that names no simulation case
  MaxTasks    \* bound: tasks created in a behaviour

ASSUME MaxTasksAssumption == MaxTasks \in Nat \ {0}
ASSUME NoSimAssumption == NoSim \notin Sims
ASSUME RequestsAssumption == IsFiniteSet(Requests)

VARIABLES
  tasks,      \* APPROVAL_TASKS: what the dict holds under each id
  created,    \* how many task objects were ever inserted; names the objects
  creating,   \* per thread: the id a create has generated but not inserted
  deciding    \* per coroutine: the task object it looked up before its await

approvalVars == <<tasks, created, creating, deciding>>

----------------------------------------------------------------------------
(* Values.                                                                 *)

Pending    == "PENDING"
Approved   == "APPROVED_PENDING_ERP_WRITEBACK"
Rejected   == "REJECTED"
InProgress == "ERP_WRITEBACK_IN_PROGRESS"
Completed  == "ERP_WRITEBACK_COMPLETED"
Absent     == "ABSENT"

ApprovalIds  == 1..MaxTasks
LinkedSims   == Sims \cup {NoSim}
Decisions    == {Approved, Rejected}
AuditActions == {Pending, Approved, Rejected, InProgress, Completed}

(* A task object. "serial" tells two objects stored under one id apart,   *)
(* "trail" is audit_trail: each entry is named by the status it announces. *)
Task == [serial : Nat, sim : LinkedSims,
         status : AuditActions \cup {Absent}, trail : Seq(AuditActions)]

NoTask == [serial |-> 0, sim |-> NoSim, status |-> Absent, trail |-> <<>>]

(* Mutant: a new task carries the audit trail but not yet a known status.  *)
NewTask_NoStatus(serial, sim) ==
  [serial |-> serial, sim |-> sim, status |-> "CREATED", trail |-> <<Pending>>]

NewTask(serial, sim) ==
  [serial |-> serial, sim |-> sim, status |-> Pending, trail |-> <<Pending>>]

NotCreating == [id |-> 0, sim |-> NoSim]

(* The four coroutine handlers, each named by the status it writes.       *)
Operations == {Approved, Rejected, InProgress, Completed}
NotDeciding == [op |-> Absent, id |-> 1, serial |-> 0, sim |-> NoSim]

(* Mutant: mark-writeback-completed forgets to ask for an approval.        *)
CheckedStatuses_NoApprovalAsked(op) ==
  CASE op \in Decisions  -> {Pending}
    [] op = InProgress   -> {Approved}
    [] op = Completed    -> {Pending, Approved, InProgress}

(* Mutant: approve and reject accept a task that is already decided.       *)
CheckedStatuses_DecideAgain(op) ==
  CASE op \in Decisions  -> {Pending, Approved, Rejected}
    [] op = InProgress   -> {Approved}
    [] op = Completed    -> {Approved, InProgress}

(* The status an endpoint demands before it awaits the body.              *)
CheckedStatuses(op) ==
  CASE op \in Decisions  -> {Pending}
    [] op = InProgress   -> {Approved}
    [] op = Completed    -> {Approved, InProgress}

(* Statuses that _active_approval_for_simulation_case still reuses.       *)
ActiveStatuses == {Pending, Approved, InProgress, Completed}

Stored == {i \in ApprovalIds : tasks[i].status # Absent}

(* Mutant: only open tasks are counted.                                    *)
NextApprovalId_OpenOnly == Cardinality({i \in ApprovalIds : tasks[i].status = Pending}) + 1

(* generate_approval_id: one more than the ids that exist.                *)
NextApprovalId == Cardinality(Stored) + 1

----------------------------------------------------------------------------
(* Creating a task: _create_approval_task on a pool thread.                *)

Generated == {t \in Threads : creating[t].id # 0}

CanCreate ==
  /\ NextApprovalId \in ApprovalIds
  /\ created + Cardinality(Generated) < MaxTasks

(* The thread has generated an id; nothing is stored yet.                  *)
GenerateId(t, sim) ==
  /\ creating[t].id = 0
  /\ CanCreate
  /\ creating' = [creating EXCEPT ![t] = [id |-> NextApprovalId, sim |-> sim]]
  /\ UNCHANGED <<tasks, created, deciding>>

(* _APPROVAL_TASKS[approval_id] = task: an existing entry is replaced.     *)
StoreTask(t) ==
  /\ creating[t].id # 0
  /\ created' = created + 1
  /\ tasks' = [tasks EXCEPT ![creating[t].id] = NewTask(created + 1, creating[t].sim)]

InsertTask(t) ==
  /\ StoreTask(t)
  /\ creating' = [creating EXCEPT ![t] = NotCreating]
  /\ UNCHANGED deciding

----------------------------------------------------------------------------
(* Deciding on a task: the coroutine handlers.                             *)

(* Up to the await: look the task up and check its status (404 and 400     *)
(* answers change nothing and are not steps).                              *)
CheckTask(r, op, id) ==
  /\ deciding[r] = NotDeciding
  /\ tasks[id].status \in CheckedStatuses(op)
  /\ deciding' = [deciding EXCEPT ![r] =
                    [op |-> op, id |-> id, serial |-> tasks[id].serial,
                     sim |-> tasks[id].sim]]
  /\ UNCHANGED <<tasks, created, creating>>

(* After the await: write the status and append the audit entry. The write *)
(* goes to the object looked up before; when the id now holds another      *)
(* object, nobody can see the one that was written.                        *)
WriteTask(r) ==
  LET d == deciding[r] IN
  /\ d # NotDeciding
  /\ tasks' = IF tasks[d.id].serial = d.serial
              THEN [tasks EXCEPT ![d.id].status = d.op,
                                 ![d.id].trail = Append(@, d.op)]
              ELSE tasks
  /\ deciding' = [deciding EXCEPT ![r] = NotDeciding]

ApplyDecision(r) ==
  /\ deciding[r].op \in Decisions
  /\ WriteTask(r)
  /\ UNCHANGED <<created, creating>>

MarkWritebackStarted(r) ==
  /\ deciding[r].op = InProgress
  /\ WriteTask(r)
  /\ UNCHANGED <<created, creating>>

MarkWritebackCompleted(r) ==
  /\ deciding[r].op = Completed
  /\ WriteTask(r)
  /\ UNCHANGED <<created, creating>>

(* No approver in the body, or the body never arrives: approve and reject  *)
(* answer with an error. The mark-writeback handlers swallow the same      *)
(* failure and go on.                                                      *)
AbandonDecision(r) ==
  /\ deciding[r].op \in Decisions
  /\ deciding' = [deciding EXCEPT ![r] = NotDeciding]
  /\ UNCHANGED <<tasks, created, creating>>

----------------------------------------------------------------------------
ApprovalInit ==
  /\ tasks = [i \in ApprovalIds |-> NoTask]
  /\ created = 0
  /\ creating = [t \in Threads |-> NotCreating]
  /\ deciding = [r \in Requests |-> NotDeciding]

ApprovalNext ==
  \/ \E t \in Threads, sim \in LinkedSims : GenerateId(t, sim)
  \/ \E t \in Threads : InsertTask(t)
  \/ \E r \in Requests, op \in Operations, id \in ApprovalIds : CheckTask(r, op, id)
  \/ \E r \in Requests :
       \/ ApplyDecision(r)
       \/ MarkWritebackStarted(r)
       \/ MarkWritebackCompleted(r)
       \/ AbandonDecision(r)

ApprovalSpec == ApprovalInit /\ [][ApprovalNext]_approvalVars

----------------------------------------------------------------------------
(* Properties.                                                             *)

(* Every variable has its type.                                            *)
ApprovalTypeOK ==
  /\ tasks \in [ApprovalIds -> Task]
  /\ created \in Nat
  /\ creating \in [Threads -> [id : {0} \cup ApprovalIds, sim : LinkedSims]]
  /\ deciding \in [Requests -> [op : Operations \cup {Absent},
                                id : ApprovalIds, serial : Nat, sim : LinkedSims]]

ApprovedBefore(trail, k) == \E j \in 1..(k - 1) : trail[j] = Approved

(* The audit trail never shows a writeback that no approval precedes, and  *)
(* a task is in (or past) writeback only with an approval on record: what  *)
(* the checks before the awaits are for, however the coroutines interleave *)
(* and even when create overwrites a task that is being decided.           *)
NoWritebackBeforeApproval ==
  \A i \in Stored :
    LET trail == tasks[i].trail IN
    /\ \A k \in DOMAIN trail :
         trail[k] \in {InProgress, Completed} => ApprovedBefore(trail, k)
    /\ tasks[i].status \in {Approved, InProgress, Completed} =>
         ApprovedBefore(trail, Len(trail) + 1)

DecisionsOn(task) == {k \in DOMAIN task.trail : task.trail[k] \in Decisions}

(* A task is decided at most once per request in flight: a coroutine that  *)
(* saw PENDING before its await may still decide, one that came later may  *)
(* not. With a single request in flight a task is decided once.            *)
DecisionsBoundedByRequests ==
  \A i \in Stored : Cardinality(DecisionsOn(tasks[i])) <= Cardinality(Requests)

(* The ids in the store are 1..n with no gap, also when racing creates     *)
(* overwrite each other: the next generated id is at most one beyond them. *)
ApprovalIdsDense == Stored = 1..Cardinality(Stored)

(* "PENDING is the only state that can transition via approve/reject"      *)
(* (approval_store.py:22): a decision is appended to a PENDING task only.  *)
OnlyPendingIsDecided ==
  [][\A i \in ApprovalIds :
       /\ tasks[i].serial = tasks'[i].serial
       /\ DecisionsOn(tasks'[i]) # DecisionsOn(tasks[i])
       => tasks[i].status = Pending]_approvalVars

(* "Generate a unique approval ID" (approval_store.py:59): storing a task  *)
(* never takes the place of another one.                                   *)
NoTaskReplaced ==
  [][\A i \in ApprovalIds :
       tasks[i].status # Absent => tasks'[i].serial = tasks[i].serial]_approvalVars

Machine == INSTANCE ApprovalMachine
             WITH Ids <- ApprovalIds, status <- [i \in ApprovalIds |-> tasks[i].status]

(* With one request in flight at a time the store implements the status    *)
(* machine of its docstring.                                               *)
ImplementsMachine == Machine!Spec

============================================================================
