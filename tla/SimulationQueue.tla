--------------------------- MODULE SimulationQueue ---------------------------
(***************************************************************************)
(* The simulation work queue of the reasoning agent:                       *)
(* services/simulation_store.py, the /simulation endpoints of main.py and  *)
(* the four ERP buttons that only mark a case.                             *)
(*                                                                         *)
(* Every endpoint is a plain function on a thread of the pool, and nothing *)
(* is locked: each handler finds a case, tests it and writes it in steps   *)
(* that other threads can come between. A case is a Python dict: a handler *)
(* keeps the dict it found, also after a reset has put new dicts, with the *)
(* same ids, in a new list. The dicts are therefore named by objects       *)
(* (1..MaxCases), and the list by its generation.                          *)
(*                                                                         *)
(* Abstracted: the business fields of a case and the timestamps. Finding a *)
(* case in the list is one step: ids never change, and no case becomes     *)
(* pending again, so a scan answers as if it were made at its last test.   *)
(***************************************************************************)
EXTENDS Naturals, FiniteSets, Sequences, ThreadPool

CONSTANTS
  DefaultCases,  \* how many cases a reset makes (10 in the code)
  MaxInject,     \* bound: cases of one inject call (clamped to 100 in the code)
  ClientPOs,     \* purchase-order numbers that /simulation/enqueue is called with
  Buttons,       \* ERP buttons that only mark the case
  MaxCases       \* bound: case objects made in a behaviour

ASSUME SimulationBounds ==
  /\ DefaultCases \in Nat \ {0}
  /\ MaxInject \in Nat \ {0}
  /\ MaxCases \in Nat \ {0}
  /\ ClientPOs \subseteq Nat

VARIABLES
  cases,       \* every case object ever made
  made,        \* how many there are
  queue,       \* SIMULATION_QUEUE["cases"]: the objects of the current list
  generation,  \* which list that is; a reset makes a new one
  thread       \* per thread: the handler it is in and what that handler holds

simVars == <<cases, made, queue, generation, thread>>

----------------------------------------------------------------------------
(* Values.                                                                 *)

Objects  == 1..MaxCases
Statuses == {"pending", "in_progress", "completed", "failed"}
Outcomes == {"completed", "failed"}
NoAction == "none"
Submit   == "SUBMIT_APPROVAL_REQUEST"
Actions  == Buttons \cup {Submit}

(* "sim" stands for simulation_case_id and case_id, which carry the same   *)
(* number; "po" for the number in po_id. "action" is the last_action with  *)
(* its erp_status. "handed" counts the callers whose call took the case    *)
(* from pending (history).                                                 *)
Case == [sim : Nat, po : Nat, status : Statuses, action : Actions \cup {NoAction},
         handed : Nat]

FreshCase(sim, po) ==
  [sim |-> sim, po |-> po, status |-> "pending", action |-> NoAction, handed |-> 0]

(* Where a thread's handler stands. "case" is the object it found, "named" *)
(* the one the client meant, "gen" the list it looked in; "number", "po"   *)
(* and "left" belong to the appends, "arg" is the outcome or the button.   *)
Idle == [pc |-> "idle", case |-> 1, named |-> 1, gen |-> 0, number |-> 0, po |-> 0,
         left |-> 0, arg |-> NoAction]

Handler ==
  [pc : {"idle", "measure", "append", "claim", "check", "adopt", "finish", "press"},
   case : Objects, named : Objects, gen : Nat, number : Nat, po : Nat,
   left : 0..MaxInject, arg : Outcomes \cup Buttons \cup {NoAction}]

At(t, pc) == thread[t].pc = pc

Return(t) == thread' = [thread EXCEPT ![t] = Idle]

Hold(t, pc, o, named, arg) ==
  thread' = [thread EXCEPT ![t] =
    [Idle EXCEPT !.pc = pc, !.case = o, !.named = named, !.gen = generation, !.arg = arg]]

Queued == {queue[k] : k \in DOMAIN queue}

(* The first object of the list with property P: every "for c in cases".   *)
IsFirst(o, P(_)) ==
  \E k \in DOMAIN queue :
    /\ queue[k] = o
    /\ P(o)
    /\ \A j \in 1..(k - 1) : ~P(queue[j])

(* find_simulation_case.                                                   *)
Finds(sim, o) == IsFirst(o, LAMBDA c : cases[c].sim = sim)

----------------------------------------------------------------------------
(* Filling the queue.                                                      *)

(* Mutant: the new list is made of the old dicts, wiped in place.          *)
Reset_InPlace(t) ==
  /\ At(t, "idle")
  /\ made + DefaultCases <= MaxCases
  /\ cases' = [o \in Objects |-> IF o \in 1..DefaultCases THEN FreshCase(o, o) ELSE cases[o]]
  /\ made' = made + DefaultCases
  /\ queue' = [k \in 1..DefaultCases |-> k]
  /\ generation' = generation + 1
  /\ UNCHANGED thread

(* reset_simulation_queue: new objects in a new list, put in place by one  *)
(* assignment.                                                             *)
Reset(t) ==
  /\ At(t, "idle")
  /\ made + DefaultCases <= MaxCases
  /\ cases' = [o \in Objects |-> IF o \in (made + 1)..(made + DefaultCases)
                                 THEN FreshCase(o - made, o - made)
                                 ELSE cases[o]]
  /\ made' = made + DefaultCases
  /\ queue' = [k \in 1..DefaultCases |-> made + k]
  /\ generation' = generation + 1
  /\ UNCHANGED thread

(* enqueue (one case, a number the client chose) and _do_inject (n cases,  *)
(* po = 0: the number follows from the id) first take hold of the list.    *)
TakeList(t, n, po) ==
  /\ At(t, "idle")
  /\ thread' = [thread EXCEPT ![t] =
       [Idle EXCEPT !.pc = "measure", !.gen = generation, !.left = n, !.po = po]]
  /\ UNCHANGED <<cases, made, queue, generation>>

Enqueue(t) == \E po \in ClientPOs : TakeList(t, 1, po)
Inject(t)  == \E n \in 1..MaxInject : TakeList(t, n, 0)

(* Mutant: ids count from the last position plus two.                      *)
NextNumber_OffByOne == Len(queue) + 2

(* Mutant: the last position is taken again.                               *)
NextNumber_LastAgain == Len(queue)

(* idx = len(cases) + 1                                                    *)
NextNumber == Len(queue) + 1

MeasureList(t) ==
  /\ At(t, "measure")
  /\ thread[t].gen = generation
  /\ made < MaxCases
  /\ thread' = [thread EXCEPT ![t].pc = "append", ![t].number = NextNumber]
  /\ UNCHANGED <<cases, made, queue, generation>>

(* cases.append(case), and on to the next one of this inject.              *)
AppendCase(t) ==
  LET number == thread[t].number
      po     == IF thread[t].po = 0 THEN number ELSE thread[t].po IN
  /\ At(t, "append")
  /\ thread[t].gen = generation
  /\ made < MaxCases
  /\ cases' = [cases EXCEPT ![made + 1] = FreshCase(number, po)]
  /\ made' = made + 1
  /\ queue' = Append(queue, made + 1)
  /\ thread' = [thread EXCEPT ![t] =
                  IF @.left = 1 THEN Idle
                  ELSE [@ EXCEPT !.pc = "measure", !.left = thread[t].left - 1]]
  /\ UNCHANGED generation

(* The list was replaced meanwhile: the cases end up in the old list, and  *)
(* nobody finds them.                                                      *)
AppendToOldList(t) ==
  /\ thread[t].pc \in {"measure", "append"}
  /\ thread[t].gen # generation
  /\ Return(t)
  /\ UNCHANGED <<cases, made, queue, generation>>

----------------------------------------------------------------------------
(* Claiming a case.                                                        *)

IsPending(o) == cases[o].status = "pending"

(* /simulation/cases/next has found the first pending case.                *)
ChooseNext(t) ==
  /\ At(t, "idle")
  /\ \E o \in Queued : IsFirst(o, IsPending) /\ Hold(t, "claim", o, o, NoAction)
  /\ UNCHANGED <<cases, made, queue, generation>>

(* Mutant: a claim by id does not look at the status.                      *)
ChooseById_AnyStatus(t, o) ==
  /\ At(t, "idle")
  /\ o \in Queued
  /\ Finds(cases[o].sim, o)
  /\ Hold(t, "claim", o, o, NoAction)
  /\ UNCHANGED <<cases, made, queue, generation>>

(* claim_simulation_case - the claim endpoint and the ERP detail page - has *)
(* found the case pending. In any other status it changes nothing.         *)
ChooseById(t, o) ==
  /\ At(t, "idle")
  /\ o \in Queued
  /\ Finds(cases[o].sim, o)
  /\ IsPending(o)
  /\ Hold(t, "claim", o, o, NoAction)
  /\ UNCHANGED <<cases, made, queue, generation>>

Claim(t) ==
  /\ At(t, "claim")
  /\ cases' = [cases EXCEPT ![thread[t].case].status = "in_progress",
                            ![thread[t].case].handed = @ + 1]
  /\ Return(t)
  /\ UNCHANGED <<made, queue, generation>>

----------------------------------------------------------------------------
(* Completing a case.                                                      *)

(* The ids in a /simulation/cases/complete payload name any case the       *)
(* client has ever seen; the robot sends all of them.                      *)
Named(h, keys, c) ==
  \/ "sim" \in keys /\ cases[c].sim = cases[h].sim
  \/ "po" \in keys /\ cases[c].po = cases[h].po

(* A client that means a case of an older list cannot be told from one     *)
(* that means whatever case now has those ids.                             *)
Meant(h, found) == IF h \in Queued THEN h ELSE found

(* The handler has found the case it will complete.                        *)
ResolveCase(t, h, keys, outcome) ==
  /\ At(t, "idle")
  /\ \E o \in Queued :
       /\ IsFirst(o, LAMBDA c : Named(h, keys, c))
       /\ Hold(t, "check", o, Meant(h, o), outcome)
  /\ UNCHANGED <<cases, made, queue, generation>>

(* Mutant: the compatibility path takes pending cases nobody acted on, and *)
(* does not mark them in progress.                                         *)
CheckInProgress_AlsoPending(t) ==
  /\ At(t, "check")
  /\ cases[thread[t].case].status \in {"pending", "in_progress"}
  /\ thread' = [thread EXCEPT ![t].pc = "finish"]
  /\ UNCHANGED <<cases, made, queue, generation>>

CheckInProgress(t) ==
  /\ At(t, "check")
  /\ cases[thread[t].case].status = "in_progress"
  /\ thread' = [thread EXCEPT ![t].pc = "finish"]
  /\ UNCHANGED <<cases, made, queue, generation>>

(* Pending, but an ERP button was pressed for it and the payload names a   *)
(* run that exists: claimed here, before the check.                        *)
ChooseCompatible(t) ==
  /\ At(t, "check")
  /\ IsPending(thread[t].case)
  /\ cases[thread[t].case].action # NoAction
  /\ thread' = [thread EXCEPT ![t].pc = "adopt"]
  /\ UNCHANGED <<cases, made, queue, generation>>

Adopt(t) ==
  /\ At(t, "adopt")
  /\ cases' = [cases EXCEPT ![thread[t].case].status = "in_progress"]
  /\ thread' = [thread EXCEPT ![t].pc = "check"]
  /\ UNCHANGED <<made, queue, generation>>

(* 400: only in_progress cases can be completed.                           *)
RefuseComplete(t) ==
  /\ At(t, "check")
  /\ cases[thread[t].case].status # "in_progress"
  /\ Return(t)
  /\ UNCHANGED <<cases, made, queue, generation>>

Finish(t) ==
  /\ At(t, "finish")
  /\ cases' = [cases EXCEPT ![thread[t].case].status = thread[t].arg]
  /\ Return(t)
  /\ UNCHANGED <<made, queue, generation>>

----------------------------------------------------------------------------
(* The ERP buttons: _process_erp_action writes erp_status and last_action  *)
(* whatever status the case is in.                                         *)

FindForButton(t, o, button) ==
  /\ At(t, "idle")
  /\ o \in Queued
  /\ Finds(cases[o].sim, o)
  /\ Hold(t, "press", o, o, button)
  /\ UNCHANGED <<cases, made, queue, generation>>

MarkCase(t) ==
  cases' = [cases EXCEPT ![thread[t].case].action = thread[t].arg]

PressButton(t) ==
  /\ At(t, "press")
  /\ MarkCase(t)
  /\ Return(t)
  /\ UNCHANGED <<made, queue, generation>>

----------------------------------------------------------------------------
SimInit ==
  /\ cases = [o \in Objects |-> FreshCase(0, 0)]
  /\ made = 0
  /\ queue = <<>>
  /\ generation = 0
  /\ thread = [t \in Threads |-> Idle]

StartRequest(t) ==
  \/ Reset(t)
  \/ Enqueue(t)
  \/ Inject(t)
  \/ ChooseNext(t)
  \/ \E o \in Objects : ChooseById(t, o)
  \/ \E h \in 1..made, keys \in {{"sim"}, {"po"}, {"sim", "po"}}, outcome \in Outcomes :
       ResolveCase(t, h, keys, outcome)
  \/ \E o \in Objects, button \in Buttons : FindForButton(t, o, button)

ContinueRequest(t) ==
  \/ MeasureList(t)
  \/ AppendCase(t)
  \/ AppendToOldList(t)
  \/ Claim(t)
  \/ CheckInProgress(t)
  \/ ChooseCompatible(t)
  \/ Adopt(t)
  \/ RefuseComplete(t)
  \/ Finish(t)
  \/ PressButton(t)

SimNext == \E t \in Threads : StartRequest(t) \/ ContinueRequest(t)

SimSpec == SimInit /\ [][SimNext]_simVars

----------------------------------------------------------------------------
(* Properties.                                                             *)

(* Every variable has its type.                                            *)
SimTypeOK ==
  /\ cases \in [Objects -> Case]
  /\ made \in 0..MaxCases
  /\ queue \in Seq(1..made)
  /\ generation \in Nat
  /\ thread \in [Threads -> Handler]

(* "pending -> in_progress -> completed | failed" (simulation_store.py:16): *)
(* no step, of any thread in any order, closes a case that nobody claimed. *)
NeverSkipsInProgress ==
  [][\A o \in Objects :
       IsPending(o) => cases'[o].status \in {"pending", "in_progress"}]_simVars

(* A handler that looked at the list before a reset leaves the new list    *)
(* and its cases alone, whatever it still writes.                          *)
ResetIsolation ==
  [][\A t \in Threads :
       thread[t].pc # "idle" /\ thread[t].gen # generation /\ thread'[t] # thread[t]
       => /\ queue' = queue
          /\ \A o \in Queued : cases'[o] = cases[o]]_simVars

(* Appending threads that race give two cases the same id, but never an id *)
(* beyond the case's own position, so a later append cannot run into an id *)
(* handed out early.                                                       *)
IdsNeverRunAhead == \A k \in DOMAIN queue : cases[queue[k]].sim <= k

(* A case is handed to at most as many callers as there are threads: those *)
(* that saw it pending before the first of them took it. One thread: once. *)
HandOutsBoundedByThreads ==
  \A o \in Objects : cases[o].handed <= Cardinality(Threads)

(* "completed/failed are terminal" (simulation_store.py:19): a closed case *)
(* keeps its status.                                                       *)
TerminalIsFinal ==
  [][\A o \in Objects :
       cases[o].status \in Outcomes => cases'[o].status = cases[o].status]_simVars

(* Every queued case is the one its id leads to: claims, buttons and       *)
(* approvals that name the case reach it.                                  *)
EveryCaseReachable == \A o \in Queued : Finds(cases[o].sim, o)

(* A complete call that names a queued case closes that one, unless one of *)
(* the two has an order number that the client of /simulation/enqueue      *)
(* chose: "or" in the search (main.py:6770) takes the first case that      *)
(* agrees in any number. So the numbers the queue itself gives out never   *)
(* meet, over every reset, inject and enqueue before and during the call.  *)
ClosesTheNamedCase ==
  \A t \in Threads :
    LET found == thread[t].case
        named == thread[t].named IN
    /\ {found, named} \subseteq Queued
    /\ found # named
    => \E c \in {found, named} : cases[c].po # cases[c].sim

=============================================================================
