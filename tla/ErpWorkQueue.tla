---------------------------- MODULE ErpWorkQueue ----------------------------
(***************************************************************************)
(* The ERP work queue: the simulation queue and the approval store joined  *)
(* by the two handlers that touch both.                                    *)
(*   - submit-approval-request (_process_erp_action in main.py) marks the  *)
(*     case, looks for an approval that is still active, creates one when  *)
(*     there is none, and writes its id into the case;                     *)
(*   - mark-writeback-completed writes the outcome back to the case that   *)
(*     the approval names.                                                 *)
(* A pool thread serves one request at a time, of either component.        *)
(***************************************************************************)
EXTENDS SimulationQueue, ApprovalStore

CONSTANT DirectSims  \* case ids (or NoSim) that /approvals/create is called with

ASSUME DirectSimsAssumption == DirectSims \subseteq LinkedSims
ASSUME SimsAssumption == 1..MaxCases \subseteq Sims

VARIABLES
  link,   \* per case object: case["approval_id"], 0 for none
  clerk,  \* per thread: the submit-approval-request it is in
  origin  \* per approval id: the case object its task was submitted for, 0 for
          \* none (history: no action reads it)

erpVars == <<simVars, approvalVars, link, clerk, origin>>

Resting == [pc |-> "rest", case |-> 1, sim |-> NoSim, id |-> 0]

Free(t) == thread[t] = Idle /\ creating[t] = NotCreating /\ clerk[t] = Resting

ActiveFor(sim, i) == tasks[i].sim = sim /\ tasks[i].status \in ActiveStatuses

FirstActive(sim, i) == ActiveFor(sim, i) /\ \A j \in 1..(i - 1) : ~ActiveFor(sim, j)

Advance(t, pc) == clerk' = [clerk EXCEPT ![t].pc = pc]

----------------------------------------------------------------------------
(* submit-approval-request.                                                *)

SubmitFind(t, o) ==
  /\ Free(t)
  /\ o \in Queued
  /\ Finds(cases[o].sim, o)
  /\ clerk' = [clerk EXCEPT ![t] = [pc |-> "mark", case |-> o, sim |-> cases[o].sim, id |-> 0]]
  /\ UNCHANGED <<simVars, approvalVars, link, origin>>

SubmitMark(t) ==
  /\ clerk[t].pc = "mark"
  /\ cases' = [cases EXCEPT ![clerk[t].case].action = Submit]
  /\ Advance(t, "scan")
  /\ UNCHANGED <<made, queue, generation, thread, approvalVars, link, origin>>

SubmitReuse(t) ==
  /\ clerk[t].pc = "scan"
  /\ \E i \in ApprovalIds :
       /\ FirstActive(clerk[t].sim, i)
       /\ clerk' = [clerk EXCEPT ![t].pc = "link", ![t].id = i]
  /\ UNCHANGED <<simVars, approvalVars, link, origin>>

(* Mutant: a new task is made although an active one exists.               *)
SubmitNew_NoScan(t) ==
  /\ clerk[t].pc = "scan"
  /\ Advance(t, "create")
  /\ UNCHANGED <<simVars, approvalVars, link, origin>>

SubmitNew(t) ==
  /\ clerk[t].pc = "scan"
  /\ \A i \in ApprovalIds : ~ActiveFor(clerk[t].sim, i)
  /\ Advance(t, "create")
  /\ UNCHANGED <<simVars, approvalVars, link, origin>>

SubmitGenerate(t) ==
  /\ clerk[t].pc = "create"
  /\ GenerateId(t, clerk[t].sim)
  /\ Advance(t, "insert")
  /\ UNCHANGED <<simVars, link, origin>>

SubmitInsert(t) ==
  /\ clerk[t].pc = "insert"
  /\ StoreTask(t)
  /\ creating' = [creating EXCEPT ![t] = NotCreating]
  /\ clerk' = [clerk EXCEPT ![t].pc = "link", ![t].id = creating[t].id]
  /\ origin' = [origin EXCEPT ![creating[t].id] = clerk[t].case]
  /\ UNCHANGED <<simVars, deciding, link>>

(* Mutant: the id is written to whatever case now stands first.            *)
SubmitLink_FirstCase(t) ==
  /\ clerk[t].pc = "link"
  /\ link' = [link EXCEPT ![queue[1]] = clerk[t].id]
  /\ clerk' = [clerk EXCEPT ![t] = Resting]
  /\ UNCHANGED <<simVars, approvalVars, origin>>

SubmitLink(t) ==
  /\ clerk[t].pc = "link"
  /\ link' = [link EXCEPT ![clerk[t].case] = clerk[t].id]
  /\ clerk' = [clerk EXCEPT ![t] = Resting]
  /\ UNCHANGED <<simVars, approvalVars, origin>>

----------------------------------------------------------------------------
(* mark-writeback-completed: the task, then the case its id leads to now.  *)

(* Mutant: the first case that was submitted is taken for the task's.      *)
ReachedBy_FirstSubmitted(r) ==
  {o \in Queued : IsFirst(o, LAMBDA c : cases[c].action = Submit)}

(* find_simulation_case of the task's id: at most one case.                *)
ReachedBy(r) == {o \in Queued : Finds(deciding[r].sim, o)}

WriteBack(r) ==
  /\ MarkWritebackCompleted(r)
  /\ cases' = [o \in Objects |->
                 IF o \in ReachedBy(r) THEN [cases[o] EXCEPT !.action = Submit] ELSE cases[o]]
  /\ UNCHANGED <<made, queue, generation, thread, link, clerk, origin>>

----------------------------------------------------------------------------
ErpInit ==
  /\ SimInit
  /\ ApprovalInit
  /\ link = [o \in Objects |-> 0]
  /\ clerk = [t \in Threads |-> Resting]
  /\ origin = [i \in ApprovalIds |-> 0]

QueueStep(t) ==
  /\ (Free(t) /\ StartRequest(t)) \/ ContinueRequest(t)
  /\ UNCHANGED <<approvalVars, link, clerk, origin>>

CreateStep(t) ==
  /\ clerk[t] = Resting
  /\ \/ Free(t) /\ (\E sim \in DirectSims : GenerateId(t, sim)) /\ UNCHANGED origin
     \/ /\ InsertTask(t)
        /\ origin' = [origin EXCEPT ![creating[t].id] = 0]
  /\ UNCHANGED <<simVars, link, clerk>>

SubmitStep(t) ==
  \/ \E o \in Objects : SubmitFind(t, o)
  \/ SubmitMark(t)
  \/ SubmitReuse(t)
  \/ SubmitNew(t)
  \/ SubmitGenerate(t)
  \/ SubmitInsert(t)
  \/ SubmitLink(t)

DecisionStep(r) ==
  /\ \/ \E op \in Operations, id \in ApprovalIds : CheckTask(r, op, id)
     \/ ApplyDecision(r)
     \/ MarkWritebackStarted(r)
     \/ AbandonDecision(r)
  /\ UNCHANGED <<simVars, link, clerk, origin>>

ErpNext ==
  \/ \E t \in Threads : QueueStep(t) \/ CreateStep(t) \/ SubmitStep(t)
  \/ \E r \in Requests : DecisionStep(r) \/ WriteBack(r)

ErpSpec == ErpInit /\ [][ErpNext]_erpVars

----------------------------------------------------------------------------
(* Properties.                                                             *)

(* Every variable has its type.                                            *)
ErpTypeOK ==
  /\ SimTypeOK
  /\ ApprovalTypeOK
  /\ link \in [Objects -> {0} \cup ApprovalIds]
  /\ clerk \in [Threads -> [pc : {"rest", "mark", "scan", "create", "insert", "link"},
                            case : Objects, sim : LinkedSims, id : {0} \cup ApprovalIds]]
  /\ origin \in [ApprovalIds -> {0} \cup Objects]

FinishesWriteback(r) ==
  deciding[r].op = Completed /\ deciding'[r] = NotDeciding

(* An approval comes home: when mark-writeback-completed is answered for a *)
(* task that submit-approval-request made, and the case it was made for is *)
(* still queued, the case written to is that one. The task keeps only an   *)
(* id, so this rests on ids that never clash, whatever was injected,       *)
(* enqueued, reset and stored between the submit and the write.            *)
WritesBackHome ==
  [][\A r \in Requests :
       FinishesWriteback(r) /\ origin[deciding[r].id] \in Queued
       => ReachedBy(r) = {origin[deciding[r].id]}]_erpVars

(* A reset does not withdraw the approvals of the old cases, so a late one *)
(* is written to the new case with its id (main.py:9658). It never comes   *)
(* beside an approval of that case's own: as long as the old one is active *)
(* submit-approval-request links the new case to it, and makes none.       *)
NoRivalWriteback ==
  [][\A r \in Requests :
       FinishesWriteback(r) /\ origin[deciding[r].id] # 0
       => \A o \in ReachedBy(r) :
            \/ link[o] \in {0, deciding[r].id}
            \/ tasks[link[o]].status \notin ActiveStatuses]_erpVars

(* submit-approval-request "creates/reuses" (main.py:9732): while a case   *)
(* has an active approval, submitting it again stores no second one.       *)
SubmitAddsNoSecondApproval ==
  [][\A t \in Threads :
       clerk[t].pc = "insert" /\ clerk'[t].pc = "link"
       => \A i \in ApprovalIds : ~ActiveFor(clerk[t].sim, i)]_erpVars

=============================================================================
