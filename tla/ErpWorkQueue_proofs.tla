------------------------- MODULE ErpWorkQueue_proofs -------------------------
(***************************************************************************)
(* Proofs about the ERP work queue, for every number of threads,           *)
(* coroutines, simulation cases and tasks: first about the approval store  *)
(* alone (ApprovalSpec), then about the store and the simulation queue     *)
(* joined (ErpSpec), where the facts of SimulationQueue_proofs come in.    *)
(***************************************************************************)
EXTENDS ErpWorkQueue, SimulationQueue_proofs

----------------------------------------------------------------------------
(* Type correctness.                                                       *)

(* The write after the await keeps the types, whatever operation it is.    *)
LEMMA WriteTaskType ==
  ASSUME ApprovalTypeOK, NEW r \in Requests, WriteTask(r), deciding[r].op \in Operations
  PROVE  /\ tasks' \in [ApprovalIds -> Task]
         /\ deciding' = [deciding EXCEPT ![r] = NotDeciding]
         /\ deciding' \in [Requests -> [op : Operations \cup {Absent}, id : ApprovalIds,
                                        serial : Nat, sim : LinkedSims]]
<1> DEFINE d == deciding[r]
<1>1. d.id \in ApprovalIds /\ d.op \in AuditActions
  BY DEF ApprovalTypeOK, Operations, AuditActions
<1>2. tasks[d.id] \in Task
  BY <1>1 DEF ApprovalTypeOK
<1>3. ASSUME NEW T \in Task, NEW a \in AuditActions
      PROVE  [T EXCEPT !.status = a, !.trail = Append(T.trail, a)] \in Task
  <2>1. Append(T.trail, a) \in Seq(AuditActions)
    BY DEF Task
  <2> QED
    BY <2>1 DEF Task
<1>4. tasks' \in [ApprovalIds -> Task]
  BY <1>1, <1>2, <1>3 DEF WriteTask, ApprovalTypeOK, Task
<1>5. NotDeciding \in [op : Operations \cup {Absent}, id : ApprovalIds,
                       serial : Nat, sim : LinkedSims]
  BY MaxTasksAssumption DEF NotDeciding, ApprovalIds, LinkedSims
<1> QED
  BY <1>4, <1>5 DEF WriteTask, ApprovalTypeOK

LEMMA ApprovalTypeInit == ApprovalInit => ApprovalTypeOK
<1> SUFFICES ASSUME ApprovalInit PROVE ApprovalTypeOK
  OBVIOUS
<1>1. NoTask \in Task
  BY DEF NoTask, Task, LinkedSims
<1>2. NotDeciding \in [op : Operations \cup {Absent}, id : ApprovalIds,
                       serial : Nat, sim : LinkedSims]
  BY MaxTasksAssumption DEF NotDeciding, ApprovalIds, LinkedSims
<1>3. NotCreating \in [id : {0} \cup ApprovalIds, sim : LinkedSims]
  BY DEF NotCreating, LinkedSims
<1> QED
  BY <1>1, <1>2, <1>3 DEF ApprovalInit, ApprovalTypeOK

LEMMA ApprovalTypeStep == ApprovalTypeOK /\ [ApprovalNext]_approvalVars => ApprovalTypeOK'
<1> SUFFICES ASSUME ApprovalTypeOK, [ApprovalNext]_approvalVars PROVE ApprovalTypeOK'
  OBVIOUS
<1>1. ASSUME NEW t \in Threads, NEW sim \in LinkedSims, GenerateId(t, sim)
      PROVE  ApprovalTypeOK'
  BY <1>1 DEF GenerateId, CanCreate, ApprovalTypeOK
<1>2. ASSUME NEW t \in Threads, InsertTask(t)
      PROVE  ApprovalTypeOK'
  <2>1. creating[t].id \in ApprovalIds /\ creating[t].sim \in LinkedSims
    BY <1>2 DEF InsertTask, StoreTask, ApprovalTypeOK
  <2>2. NewTask(created + 1, creating[t].sim) \in Task
    BY <2>1 DEF NewTask, Task, ApprovalTypeOK, AuditActions
  <2>3. NotCreating \in [id : {0} \cup ApprovalIds, sim : LinkedSims]
    BY DEF NotCreating, LinkedSims
  <2> QED
    BY <1>2, <2>1, <2>2, <2>3 DEF InsertTask, StoreTask, ApprovalTypeOK
<1>3. ASSUME NEW r \in Requests, NEW op \in Operations, NEW id \in ApprovalIds,
             CheckTask(r, op, id)
      PROVE  ApprovalTypeOK'
  <2>1. tasks[id].serial \in Nat /\ tasks[id].sim \in LinkedSims
    BY DEF ApprovalTypeOK, Task
  <2> QED
    BY <1>3, <2>1 DEF CheckTask, ApprovalTypeOK
<1>4. ASSUME NEW r \in Requests,
             ApplyDecision(r) \/ MarkWritebackStarted(r) \/ MarkWritebackCompleted(r)
      PROVE  ApprovalTypeOK'
  <2>1. /\ WriteTask(r)
        /\ deciding[r].op \in Operations
        /\ UNCHANGED <<created, creating>>
    BY <1>4 DEF ApplyDecision, MarkWritebackStarted, MarkWritebackCompleted,
                Operations, Decisions
  <2> QED
    BY <2>1, WriteTaskType DEF ApprovalTypeOK
<1>5. ASSUME NEW r \in Requests, AbandonDecision(r)
      PROVE  ApprovalTypeOK'
  <2>1. NotDeciding \in [op : Operations \cup {Absent}, id : ApprovalIds,
                         serial : Nat, sim : LinkedSims]
    BY MaxTasksAssumption DEF NotDeciding, ApprovalIds, LinkedSims
  <2> QED
    BY <1>5, <2>1 DEF AbandonDecision, ApprovalTypeOK
<1>6. CASE UNCHANGED approvalVars
  BY <1>6 DEF approvalVars, ApprovalTypeOK
<1> QED
  BY <1>1, <1>2, <1>3, <1>4, <1>5, <1>6 DEF ApprovalNext

(* Every reachable state of the store is well typed.                       *)
THEOREM ApprovalTypeCorrect == ApprovalSpec => []ApprovalTypeOK
  BY ApprovalTypeInit, ApprovalTypeStep, PTL DEF ApprovalSpec

----------------------------------------------------------------------------
(* No writeback without an approval, for any interleaving.                 *)

(* A trail is sound when every writeback in it has an approval before it,  *)
(* and a status past the approval has one anywhere in the trail.           *)
TrailSound(task) ==
  /\ \A k \in DOMAIN task.trail :
       task.trail[k] \in {InProgress, Completed} => ApprovedBefore(task.trail, k)
  /\ task.status \in {Approved, InProgress, Completed} =>
       ApprovedBefore(task.trail, Len(task.trail) + 1)

(* What the coroutines still to write rely on: the object that a writeback *)
(* handler looked up has been approved, and stays so whatever other        *)
(* coroutines do to it; objects are numbered by creation, so a task stored *)
(* later is never mistaken for it.                                         *)
WritebackJustified(r) ==
  LET d == deciding[r] IN
  /\ d.serial <= created
  /\ /\ d.op \in {InProgress, Completed}
     /\ tasks[d.id].serial = d.serial
     => ApprovedBefore(tasks[d.id].trail, Len(tasks[d.id].trail) + 1)

ApprovalIInv ==
  /\ ApprovalTypeOK
  /\ \A i \in ApprovalIds : tasks[i].serial <= created
  /\ \A i \in ApprovalIds : TrailSound(tasks[i])
  /\ \A r \in Requests : WritebackJustified(r)

(* Appending to a trail keeps every approval that was on it.               *)
LEMMA AppendKeepsApprovals ==
  ASSUME NEW trail \in Seq(AuditActions), NEW a \in AuditActions, NEW k \in Nat,
         k <= Len(trail) + 1, ApprovedBefore(trail, k)
  PROVE  /\ ApprovedBefore(Append(trail, a), k)
         /\ ApprovedBefore(Append(trail, a), Len(Append(trail, a)) + 1)
<1>1. PICK j \in 1..(k - 1) : trail[j] = Approved
  BY DEF ApprovedBefore
<1>2. j \in 1..Len(trail) /\ Append(trail, a)[j] = Approved /\ Len(Append(trail, a)) = Len(trail) + 1
  BY <1>1
<1> QED
  BY <1>1, <1>2 DEF ApprovedBefore

(* The write of one coroutine keeps a stored task's trail sound: what it   *)
(* appends is an approval, a rejection, or a writeback that is justified.  *)
LEMMA AppendKeepsSound ==
  ASSUME NEW T \in Task, NEW a \in Operations, TrailSound(T),
         a \in {InProgress, Completed} => ApprovedBefore(T.trail, Len(T.trail) + 1)
  PROVE  TrailSound([T EXCEPT !.status = a, !.trail = Append(@, a)])
<1> DEFINE old == T.trail
           new == Append(T.trail, a)
           N == [T EXCEPT !.status = a, !.trail = Append(@, a)]
<1>1. old \in Seq(AuditActions) /\ a \in AuditActions
  BY DEF Task, Operations, AuditActions
<1>2. N.status = a /\ N.trail = new
  BY DEF Task
<1>3. /\ Len(new) = Len(old) + 1
      /\ DOMAIN new = 1..Len(new)
      /\ new[Len(new)] = a
      /\ \A k \in 1..Len(old) : new[k] = old[k]
      /\ DOMAIN old = 1..Len(old)
      /\ Len(old) \in Nat
  BY <1>1
<1>4. ASSUME NEW k \in DOMAIN new, new[k] \in {InProgress, Completed}
      PROVE  ApprovedBefore(new, k)
  <2>1. CASE k \in 1..Len(old)
    <3>1. ApprovedBefore(old, k)
      BY <1>3, <1>4, <2>1 DEF TrailSound
    <3> QED
      BY <1>1, <1>3, <2>1, <3>1, AppendKeepsApprovals
  <2>2. CASE k = Len(old) + 1
    <3>1. ApprovedBefore(old, k)
      BY <1>3, <1>4, <2>2
    <3> QED
      BY <1>1, <1>3, <2>2, <3>1, AppendKeepsApprovals
  <2> QED
    BY <1>3, <2>1, <2>2
<1>5. a \in {Approved, InProgress, Completed} => ApprovedBefore(new, Len(new) + 1)
  <2>1. CASE a = Approved
    BY <1>3, <2>1 DEF ApprovedBefore
  <2>2. CASE a \in {InProgress, Completed}
    BY <1>1, <1>3, <2>2, AppendKeepsApprovals
  <2> QED
    BY <2>1, <2>2
<1> QED
  BY <1>2, <1>4, <1>5 DEF TrailSound

(* The three writing coroutines, reduced to what the proofs use of them.   *)
LEMMA WritersWrite ==
  ASSUME NEW r \in Requests,
         ApplyDecision(r) \/ MarkWritebackStarted(r) \/ MarkWritebackCompleted(r)
  PROVE  /\ WriteTask(r)
         /\ deciding[r].op \in Operations
         /\ UNCHANGED <<created, creating>>
  BY DEF ApplyDecision, MarkWritebackStarted, MarkWritebackCompleted, Operations, Decisions

(* A write by another coroutine keeps a justified handler justified.       *)
LEMMA WriteKeepsJustified ==
  ASSUME ApprovalIInv, NEW r \in Requests, WriteTask(r), deciding[r].op \in Operations,
         UNCHANGED created, NEW q \in Requests
  PROVE  WritebackJustified(q)'
<1> DEFINE d == deciding[r]
           e == deciding'[q]
<1>1. deciding' = [deciding EXCEPT ![r] = NotDeciding]
  BY WriteTaskType DEF ApprovalIInv
<1>2. CASE q = r
  <2>1. e = NotDeciding
    BY <1>1, <1>2 DEF ApprovalIInv, ApprovalTypeOK
  <2>2. e.op = Absent /\ e.serial = 0
    BY <2>1 DEF NotDeciding
  <2>3. created \in Nat
    BY DEF ApprovalIInv, ApprovalTypeOK
  <2> QED
    BY <2>2, <2>3 DEF WritebackJustified, Absent, InProgress, Completed
<1>3. CASE q # r
  <2>1. e = deciding[q] /\ WritebackJustified(q)
    BY <1>1, <1>3 DEF ApprovalIInv, ApprovalTypeOK
  <2>2. d.id \in ApprovalIds /\ e.id \in ApprovalIds /\ d.op \in AuditActions
    BY <2>1 DEF ApprovalIInv, ApprovalTypeOK, Operations, AuditActions
  <2>3. CASE e.id = d.id /\ tasks[d.id].serial = d.serial
    <3>1. tasks[e.id] \in Task
      BY <2>2 DEF ApprovalIInv, ApprovalTypeOK
    <3>2. /\ tasks'[e.id].trail = Append(tasks[e.id].trail, d.op)
          /\ tasks'[e.id].serial = tasks[e.id].serial
      BY <2>2, <2>3, <3>1 DEF WriteTask, ApprovalIInv, ApprovalTypeOK, Task
    <3>3. tasks[e.id].trail \in Seq(AuditActions)
      BY <3>1 DEF Task
    <3>4. ASSUME e.op \in {InProgress, Completed}, tasks'[e.id].serial = e.serial
          PROVE  ApprovedBefore(tasks'[e.id].trail, Len(tasks'[e.id].trail) + 1)
      <4>1. ApprovedBefore(tasks[e.id].trail, Len(tasks[e.id].trail) + 1)
        BY <2>1, <3>2, <3>4 DEF WritebackJustified
      <4>2. PICK old \in Seq(AuditActions), a \in AuditActions :
              old = tasks[e.id].trail /\ a = d.op
        BY <2>2, <3>3
      <4>3. ApprovedBefore(Append(old, a), Len(Append(old, a)) + 1)
        BY <4>1, <4>2, AppendKeepsApprovals
      <4> QED
        BY <3>2, <4>2, <4>3
    <3> QED
      BY <2>1, <3>4 DEF WritebackJustified
  <2>4. CASE ~(e.id = d.id /\ tasks[d.id].serial = d.serial)
    <3>1. tasks'[e.id] = tasks[e.id]
      BY <2>2, <2>4 DEF WriteTask, ApprovalIInv, ApprovalTypeOK
    <3> QED
      BY <2>1, <3>1 DEF WritebackJustified
  <2> QED
    BY <2>3, <2>4
<1> QED
  BY <1>2, <1>3

LEMMA ApprovalIInvInit == ApprovalInit => ApprovalIInv
<1> SUFFICES ASSUME ApprovalInit PROVE ApprovalIInv
  OBVIOUS
<1>1. \A i \in ApprovalIds : TrailSound(tasks[i])
  BY DEF ApprovalInit, TrailSound, NoTask, Absent, Approved, InProgress, Completed
<1>2. \A i \in ApprovalIds : tasks[i].serial = 0
  BY DEF ApprovalInit, NoTask
<1>3. ASSUME NEW r \in Requests
      PROVE  WritebackJustified(r)
  BY DEF ApprovalInit, WritebackJustified, NotDeciding, Absent, InProgress, Completed
<1> QED
  BY <1>1, <1>2, <1>3, ApprovalTypeInit DEF ApprovalIInv, ApprovalInit

LEMMA ApprovalIInvStep == ApprovalIInv /\ [ApprovalNext]_approvalVars => ApprovalIInv'
<1> SUFFICES ASSUME ApprovalIInv, [ApprovalNext]_approvalVars PROVE ApprovalIInv'
  OBVIOUS
<1>0. ApprovalTypeOK'
  BY ApprovalTypeStep DEF ApprovalIInv
<1>1. ASSUME NEW t \in Threads, NEW sim \in LinkedSims, GenerateId(t, sim)
      PROVE  ApprovalIInv'
  BY <1>0, <1>1 DEF GenerateId, ApprovalIInv, TrailSound, WritebackJustified
<1>2. ASSUME NEW t \in Threads, InsertTask(t)
      PROVE  ApprovalIInv'
  <2> DEFINE n == creating[t].id
             T == NewTask(created + 1, creating[t].sim)
  <2>1. n \in ApprovalIds /\ created \in Nat /\ created' = created + 1 /\ deciding' = deciding
    BY <1>2 DEF InsertTask, StoreTask, ApprovalIInv, ApprovalTypeOK
  <2>2. /\ tasks'[n] = T
        /\ \A i \in ApprovalIds : i # n => tasks'[i] = tasks[i]
    BY <1>2, <2>1 DEF InsertTask, StoreTask, ApprovalIInv, ApprovalTypeOK
  <2>3. \A i \in ApprovalIds : tasks'[i].serial <= created'
    <3>1. \A i \in ApprovalIds : tasks[i].serial \in Nat
      BY DEF ApprovalIInv, ApprovalTypeOK, Task
    <3> QED
      BY <2>1, <2>2, <3>1 DEF NewTask, ApprovalIInv
  <2>4. TrailSound(T)
    BY DEF TrailSound, NewTask, Pending, Approved, InProgress, Completed
  <2>5. \A i \in ApprovalIds : TrailSound(tasks'[i])
    BY <2>2, <2>4 DEF ApprovalIInv
  <2>6. ASSUME NEW r \in Requests
        PROVE  WritebackJustified(r)'
    <3>1. deciding[r].id \in ApprovalIds /\ deciding[r].serial \in Nat /\ WritebackJustified(r)
      BY DEF ApprovalIInv, ApprovalTypeOK
    <3>2. T.serial = created + 1 /\ deciding[r].serial <= created
      BY <3>1 DEF NewTask, WritebackJustified
    <3>3. CASE deciding[r].id = n
      <4>1. tasks'[n].serial # deciding[r].serial /\ deciding[r].serial <= created'
        BY <2>1, <2>2, <3>1, <3>2
      <4> QED
        BY <2>1, <3>3, <4>1 DEF WritebackJustified
    <3>4. CASE deciding[r].id # n
      <4>1. tasks'[deciding[r].id] = tasks[deciding[r].id] /\ deciding[r].serial <= created'
        BY <2>1, <2>2, <3>1, <3>2, <3>4
      <4> QED
        BY <2>1, <3>1, <4>1 DEF WritebackJustified
    <3> QED
      BY <3>3, <3>4
  <2> QED
    BY <1>0, <2>3, <2>5, <2>6 DEF ApprovalIInv, TrailSound
<1>3. ASSUME NEW r \in Requests, NEW op \in Operations, NEW id \in ApprovalIds,
             CheckTask(r, op, id)
      PROVE  ApprovalIInv'
  <2>1. tasks' = tasks /\ created' = created
    BY <1>3 DEF CheckTask
  <2>2. ASSUME NEW q \in Requests
        PROVE  WritebackJustified(q)'
    <3>1. CASE q = r
      <4>1. deciding'[q] = [op |-> op, id |-> id, serial |-> tasks[id].serial,
                            sim |-> tasks[id].sim]
        BY <1>3, <3>1 DEF CheckTask, ApprovalIInv, ApprovalTypeOK
      <4>2. op \in {InProgress, Completed} =>
              tasks[id].status \in {Approved, InProgress, Completed}
        BY <1>3 DEF CheckTask, CheckedStatuses, Decisions, Pending, Approved,
                    Rejected, InProgress, Completed, Absent
      <4>3. op \in {InProgress, Completed} =>
              ApprovedBefore(tasks[id].trail, Len(tasks[id].trail) + 1)
        BY <4>2 DEF ApprovalIInv, TrailSound
      <4> QED
        BY <2>1, <4>1, <4>3 DEF WritebackJustified, ApprovalIInv
    <3>2. CASE q # r
      BY <1>3, <2>1, <3>2 DEF CheckTask, WritebackJustified, ApprovalIInv, ApprovalTypeOK
    <3> QED
      BY <3>1, <3>2
  <2> QED
    BY <1>0, <2>1, <2>2 DEF ApprovalIInv, TrailSound
<1>4. ASSUME NEW r \in Requests,
             ApplyDecision(r) \/ MarkWritebackStarted(r) \/ MarkWritebackCompleted(r)
      PROVE  ApprovalIInv'
  <2> DEFINE d == deciding[r]
  <2>1. WriteTask(r) /\ d.op \in Operations /\ created' = created
    BY <1>4, WritersWrite
  <2>2. d.id \in ApprovalIds
    BY DEF ApprovalIInv, ApprovalTypeOK
  <2>3. CASE tasks[d.id].serial # d.serial
    <3>1. tasks' = tasks
      BY <2>1, <2>3 DEF WriteTask
    <3> QED
      BY <1>0, <2>1, <3>1, WriteKeepsJustified DEF ApprovalIInv, TrailSound
  <2>4. CASE tasks[d.id].serial = d.serial
    <3> DEFINE T == tasks[d.id]
               N == [T EXCEPT !.status = d.op, !.trail = Append(@, d.op)]
    <3>1. T \in Task /\ TrailSound(T)
      BY <2>2 DEF ApprovalIInv, ApprovalTypeOK
    <3>2. d.op \in {InProgress, Completed} => ApprovedBefore(T.trail, Len(T.trail) + 1)
      BY <2>4 DEF ApprovalIInv, WritebackJustified
    <3>3. TrailSound(N)
      BY <2>1, <3>1, <3>2, AppendKeepsSound
    <3>4. tasks'[d.id] = N /\ \A i \in ApprovalIds : i # d.id => tasks'[i] = tasks[i]
      BY <2>1, <2>2, <2>4, <3>1 DEF WriteTask, ApprovalIInv, ApprovalTypeOK, Task
    <3>5. N.serial = T.serial
      BY <3>1 DEF Task
    <3>6. \A i \in ApprovalIds : TrailSound(tasks'[i]) /\ tasks'[i].serial <= created'
      BY <2>1, <2>2, <3>3, <3>4, <3>5 DEF ApprovalIInv
    <3> QED
      BY <1>0, <2>1, <3>6, WriteKeepsJustified DEF ApprovalIInv, TrailSound
  <2> QED
    BY <2>3, <2>4
<1>5. ASSUME NEW r \in Requests, AbandonDecision(r)
      PROVE  ApprovalIInv'
  <2>1. ASSUME NEW q \in Requests
        PROVE  WritebackJustified(q)'
    <3>1. deciding'[q] = deciding[q] \/ deciding'[q] = NotDeciding
      BY <1>5 DEF AbandonDecision, ApprovalIInv, ApprovalTypeOK
    <3>2. tasks' = tasks /\ created' = created /\ created \in Nat
      BY <1>5 DEF AbandonDecision, ApprovalIInv, ApprovalTypeOK
    <3> QED
      BY <3>1, <3>2 DEF WritebackJustified, ApprovalIInv, NotDeciding, Absent, InProgress,
                        Completed
  <2> QED
    BY <1>0, <1>5, <2>1 DEF AbandonDecision, ApprovalIInv, TrailSound
<1>6. CASE UNCHANGED approvalVars
  BY <1>0, <1>6 DEF approvalVars, ApprovalIInv, TrailSound, WritebackJustified
<1> QED
  BY <1>1, <1>2, <1>3, <1>4, <1>5, <1>6 DEF ApprovalNext

(* In every reachable state a writeback on record has an approval before   *)
(* it, whatever the coroutines and the creating threads do.                *)
THEOREM WritebackNeedsApproval == ApprovalSpec => []NoWritebackBeforeApproval
<1>1. ApprovalIInv => NoWritebackBeforeApproval
  BY DEF ApprovalIInv, NoWritebackBeforeApproval, TrailSound, Stored
<1> QED
  BY <1>1, ApprovalIInvInit, ApprovalIInvStep, PTL DEF ApprovalSpec

----------------------------------------------------------------------------
(* Decisions per task.                                                     *)

(* The coroutines that will still decide the task an id holds.             *)
Deciders(i) ==
  {r \in Requests : /\ deciding[r].op \in Decisions
                    /\ deciding[r].id = i
                    /\ deciding[r].serial = tasks[i].serial}

(* Every decision on a trail was once a coroutine that saw PENDING, and a  *)
(* pending task has none: the two kinds together stay within Requests.     *)
DecidedWithin(i) ==
  /\ tasks[i].status = Pending => DecisionsOn(tasks[i]) = {}
  /\ Cardinality(DecisionsOn(tasks[i])) + Cardinality(Deciders(i)) <= Cardinality(Requests)

DecidedIInv ==
  /\ ApprovalIInv
  /\ \A i \in ApprovalIds : DecidedWithin(i)

LEMMA DecidersAreRequests ==
  ASSUME NEW D, D \subseteq Requests
  PROVE  /\ IsFiniteSet(D) /\ Cardinality(D) \in Nat /\ Cardinality(Requests) \in Nat
         /\ Cardinality(D) <= Cardinality(Requests)
<1>1. IsFiniteSet(D) /\ Cardinality(D) <= Cardinality(Requests)
  BY RequestsAssumption, FS_Subset
<1> QED
  BY <1>1, RequestsAssumption, FS_CardinalityType

LEMMA TrailDecisionsFinite ==
  ASSUME NEW T \in Task
  PROVE  IsFiniteSet(DecisionsOn(T)) /\ Cardinality(DecisionsOn(T)) \in Nat
<1>1. Len(T.trail) \in Nat /\ DOMAIN T.trail = 1..Len(T.trail)
  BY DEF Task
<1>2. IsFiniteSet(1..Len(T.trail))
  BY <1>1, FS_Interval
<1>3. DecisionsOn(T) \subseteq 1..Len(T.trail)
  BY <1>1 DEF DecisionsOn
<1>4. IsFiniteSet(DecisionsOn(T))
  BY <1>2, <1>3, FS_Subset
<1> QED
  BY <1>4, FS_CardinalityType

(* An empty trail of decisions leaves room for every request in flight.    *)
LEMMA UndecidedIsWithin ==
  ASSUME NEW i \in ApprovalIds, DecisionsOn(tasks[i]) = {}
  PROVE  DecidedWithin(i)
<1>1. Deciders(i) \subseteq Requests
  BY DEF Deciders
<1>2. Cardinality(DecisionsOn(tasks[i])) = 0
  BY FS_EmptySet
<1> QED
  BY <1>1, <1>2, DecidersAreRequests DEF DecidedWithin

(* A task that nobody decides stays within its bound when no decider joins. *)
LEMMA UndecidedStaysWithin ==
  ASSUME DecidedIInv, NEW i \in ApprovalIds, DecisionsOn(tasks'[i]) = DecisionsOn(tasks[i]),
         tasks'[i].status = Pending => tasks[i].status = Pending,
         Deciders(i)' \subseteq Deciders(i)
  PROVE  DecidedWithin(i)'
<1>1. DecidedWithin(i)
  BY DEF DecidedIInv
<1>2. Deciders(i) \subseteq Requests
  BY DEF Deciders
<1>3. /\ Cardinality(Deciders(i)) \in Nat
      /\ IsFiniteSet(Deciders(i))
      /\ Cardinality(Requests) \in Nat
  BY <1>2, DecidersAreRequests
<1>4. /\ Cardinality(Deciders(i)') \in Nat
      /\ Cardinality(Deciders(i)') <= Cardinality(Deciders(i))
  BY <1>3, FS_Subset, FS_CardinalityType
<1>5. tasks[i] \in Task
  BY DEF DecidedIInv, ApprovalIInv, ApprovalTypeOK
<1>6. Cardinality(DecisionsOn(tasks[i])) \in Nat
  BY <1>5, TrailDecisionsFinite
<1>7. Cardinality(DecisionsOn(tasks'[i])) = Cardinality(DecisionsOn(tasks[i]))
  OBVIOUS
<1> QED
  BY <1>1, <1>3, <1>4, <1>6, <1>7 DEF DecidedWithin

(* Appending an entry that is no decision adds none to the trail.          *)
LEMMA AppendNoDecision ==
  ASSUME NEW T \in Task, NEW a \in AuditActions \ Decisions, NEW N \in Task,
         N.trail = Append(T.trail, a)
  PROVE  DecisionsOn(N) = DecisionsOn(T)
<1>1. T.trail \in Seq(AuditActions)
  BY DEF Task
<1>2. /\ DOMAIN N.trail = 1..(Len(T.trail) + 1)
      /\ DOMAIN T.trail = 1..Len(T.trail)
      /\ N.trail[Len(T.trail) + 1] = a
      /\ \A k \in 1..Len(T.trail) : N.trail[k] = T.trail[k]
      /\ Len(T.trail) \in Nat
  BY <1>1
<1> QED
  BY <1>2 DEF DecisionsOn

(* Appending a decision to a trail adds one.                               *)
LEMMA AppendOneDecision ==
  ASSUME NEW T \in Task, NEW a \in Decisions, NEW N, N.trail = Append(T.trail, a)
  PROVE  Cardinality(DecisionsOn(N)) = Cardinality(DecisionsOn(T)) + 1
<1>1. PICK trail \in Seq(AuditActions), n \in Nat : trail = T.trail /\ n = Len(trail)
  BY DEF Task
<1>2. a \in AuditActions
  BY DEF Decisions, AuditActions
<1>3. /\ DOMAIN N.trail = 1..(n + 1)
      /\ N.trail[n + 1] = a
      /\ \A k \in 1..n : N.trail[k] = trail[k]
      /\ DOMAIN trail = 1..n
  BY <1>1, <1>2
<1>4. ASSUME NEW k PROVE k \in DecisionsOn(N) <=> k \in DecisionsOn(T) \cup {n + 1}
  BY <1>1, <1>3 DEF DecisionsOn
<1>5. DecisionsOn(N) = DecisionsOn(T) \cup {n + 1}
  BY <1>4
<1>6. n + 1 \notin DecisionsOn(T)
  BY <1>1, <1>3 DEF DecisionsOn
<1> QED
  BY <1>5, <1>6, TrailDecisionsFinite, FS_AddElement

(* A decision turns one decider into one entry of the trail.               *)
LEMMA DecidingStaysWithin ==
  ASSUME DecidedIInv, NEW r \in Requests, WriteTask(r), deciding[r].op \in Decisions,
         NEW i \in ApprovalIds, i = deciding[r].id, tasks[i].serial = deciding[r].serial
  PROVE  DecidedWithin(i)'
<1> DEFINE old == DecisionsOn(tasks[i])
           new == DecisionsOn(tasks'[i])
<1>0. /\ deciding' = [deciding EXCEPT ![r] = NotDeciding]
      /\ tasks[i] \in Task
      /\ deciding \in [Requests -> [op : Operations \cup {Absent}, id : ApprovalIds,
                                    serial : Nat, sim : LinkedSims]]
  BY DEF WriteTask, DecidedIInv, ApprovalIInv, ApprovalTypeOK
<1>1. /\ tasks'[i].trail = Append(tasks[i].trail, deciding[r].op)
      /\ tasks'[i].status = deciding[r].op
      /\ tasks'[i].serial = tasks[i].serial
  BY <1>0 DEF WriteTask, DecidedIInv, ApprovalIInv, ApprovalTypeOK, Task
<1>2. Cardinality(new) = Cardinality(old) + 1
  BY <1>0, <1>1, AppendOneDecision
<1>3. IsFiniteSet(old) /\ Cardinality(old) \in Nat
  BY <1>0, TrailDecisionsFinite
<1>5. r \in Deciders(i)
  BY DEF Deciders
<1>6. Deciders(i)' \subseteq Deciders(i) \ {r}
  BY <1>0, <1>1 DEF Deciders, NotDeciding, Decisions, Absent, Approved, Rejected
<1>7. Deciders(i) \subseteq Requests
  BY DEF Deciders
<1>8. /\ IsFiniteSet(Deciders(i)) /\ Cardinality(Deciders(i)) \in Nat
      /\ Cardinality(Requests) \in Nat
  BY <1>7, DecidersAreRequests
<1>9. IsFiniteSet(Deciders(i) \ {r}) /\ Cardinality(Deciders(i) \ {r}) = Cardinality(Deciders(i)) - 1
  BY <1>5, <1>8, FS_RemoveElement
<1>10. /\ Cardinality(Deciders(i)') \in Nat
       /\ Cardinality(Deciders(i)') <= Cardinality(Deciders(i)) - 1
  BY <1>6, <1>9, FS_Subset, FS_CardinalityType
<1>11. Cardinality(old) + Cardinality(Deciders(i)) <= Cardinality(Requests)
  BY DEF DecidedIInv, DecidedWithin
<1>12. tasks'[i].status # Pending
  BY <1>1 DEF Decisions, Approved, Rejected, Pending
<1>13. Cardinality(new) + Cardinality(Deciders(i)') <= Cardinality(Requests)
  <2> HIDE DEF old, new
  <2> QED
    BY <1>2, <1>3, <1>8, <1>10, <1>11
<1> QED
  BY <1>12, <1>13 DEF DecidedWithin

LEMMA DecidedInit == ApprovalInit => DecidedIInv
<1> SUFFICES ASSUME ApprovalInit, NEW i \in ApprovalIds PROVE DecidedWithin(i)
  BY ApprovalIInvInit DEF DecidedIInv
<1>1. DecisionsOn(tasks[i]) = {}
  BY DEF ApprovalInit, NoTask, DecisionsOn
<1> QED
  BY <1>1, UndecidedIsWithin

LEMMA DecidedStep == DecidedIInv /\ [ApprovalNext]_approvalVars => DecidedIInv'
<1> SUFFICES ASSUME DecidedIInv, [ApprovalNext]_approvalVars, NEW i \in ApprovalIds
             PROVE  DecidedWithin(i)'
  BY ApprovalIInvStep DEF DecidedIInv, ApprovalIds
<1>0. /\ tasks \in [ApprovalIds -> Task]
      /\ deciding \in [Requests -> [op : Operations \cup {Absent}, id : ApprovalIds,
                                    serial : Nat, sim : LinkedSims]]
      /\ created \in Nat
  BY DEF DecidedIInv, ApprovalIInv, ApprovalTypeOK
<1>1. ASSUME tasks' = tasks, deciding' = deciding
      PROVE  DecidedWithin(i)'
  BY <1>1, UndecidedStaysWithin DEF Deciders
<1>2. ASSUME NEW t \in Threads, InsertTask(t)
      PROVE  DecidedWithin(i)'
  <2> DEFINE n == creating[t].id
  <2>1. deciding' = deciding /\ created' = created + 1
    BY <1>2 DEF InsertTask, StoreTask
  <2>2. CASE i = n
    <3>1. tasks'[i] = NewTask(created + 1, creating[t].sim)
      BY <1>0, <1>2, <2>2 DEF InsertTask, StoreTask
    <3>2. DecisionsOn(tasks'[i]) = {}
      BY <3>1 DEF NewTask, DecisionsOn, Decisions, Pending, Approved, Rejected
    <3>3. Deciders(i)' \subseteq Requests
      BY DEF Deciders
    <3>4. /\ Cardinality(Deciders(i)') \in Nat /\ Cardinality(Requests) \in Nat
          /\ Cardinality(Deciders(i)') <= Cardinality(Requests)
      BY <3>3, DecidersAreRequests
    <3>5. Cardinality(DecisionsOn(tasks'[i])) = 0
      BY <3>2, FS_EmptySet
    <3> QED
      BY <3>2, <3>4, <3>5 DEF DecidedWithin
  <2>3. CASE i # n
    <3>1. tasks'[i] = tasks[i]
      BY <1>0, <1>2, <2>3 DEF InsertTask, StoreTask
    <3>2. Deciders(i)' \subseteq Deciders(i)
      BY <2>1, <3>1 DEF Deciders
    <3> QED
      BY <3>1, <3>2, UndecidedStaysWithin
  <2> QED
    BY <2>2, <2>3
<1>3. ASSUME NEW r \in Requests, NEW op \in Operations, NEW id \in ApprovalIds,
             CheckTask(r, op, id)
      PROVE  DecidedWithin(i)'
  <2>1. /\ tasks' = tasks
        /\ deciding'[r].op = op /\ deciding'[r].id = id
        /\ \A q \in Requests : q # r => deciding'[q] = deciding[q]
    BY <1>0, <1>3 DEF CheckTask
  <2>2. CASE op \in Decisions /\ id = i
    <3>1. tasks[i].status = Pending
      BY <1>3, <2>2 DEF CheckTask, CheckedStatuses, Decisions, Approved, Rejected, InProgress,
                        Completed
    <3>2. DecisionsOn(tasks'[i]) = {}
      BY <2>1, <3>1 DEF DecidedIInv, DecidedWithin
    <3>3. Deciders(i)' \subseteq Requests
      BY DEF Deciders
    <3>4. /\ Cardinality(Deciders(i)') \in Nat /\ Cardinality(Requests) \in Nat
          /\ Cardinality(Deciders(i)') <= Cardinality(Requests)
      BY <3>3, DecidersAreRequests
    <3>5. Cardinality(DecisionsOn(tasks'[i])) = 0
      BY <3>2, FS_EmptySet
    <3> QED
      BY <3>2, <3>4, <3>5 DEF DecidedWithin
  <2>3. CASE ~(op \in Decisions /\ id = i)
    <3>1. Deciders(i)' \subseteq Deciders(i)
      BY <2>1, <2>3 DEF Deciders
    <3> QED
      BY <2>1, <3>1, UndecidedStaysWithin
  <2> QED
    BY <2>2, <2>3
<1>4. ASSUME NEW r \in Requests,
             ApplyDecision(r) \/ MarkWritebackStarted(r) \/ MarkWritebackCompleted(r)
      PROVE  DecidedWithin(i)'
  <2>1. WriteTask(r) /\ deciding[r].op \in Operations
    BY <1>4, WritersWrite
  <2>2. /\ deciding'[r].op = Absent
        /\ \A q \in Requests : q # r => deciding'[q] = deciding[q]
    BY <1>0, <2>1 DEF WriteTask, NotDeciding
  <2>3. CASE i = deciding[r].id /\ tasks[i].serial = deciding[r].serial
    <3>1. /\ tasks'[i].trail = Append(tasks[i].trail, deciding[r].op)
          /\ tasks'[i].status = deciding[r].op
          /\ tasks'[i].serial = tasks[i].serial
      BY <1>0, <2>1, <2>3 DEF WriteTask, Task
    <3>2. CASE deciding[r].op \in Decisions
      BY <2>1, <2>3, <3>2, DecidingStaysWithin
    <3>3. CASE deciding[r].op \notin Decisions
      <4>1. tasks[i] \in Task /\ tasks'[i] \in Task
        BY <1>0, ApprovalIInvStep DEF DecidedIInv, ApprovalIInv, ApprovalTypeOK
      <4>2. deciding[r].op \in AuditActions \ Decisions /\ deciding[r].op # Pending
        BY <2>1, <3>3 DEF Operations, AuditActions, Pending, Approved, Rejected, InProgress,
                          Completed
      <4>3. DecisionsOn(tasks'[i]) = DecisionsOn(tasks[i])
        BY <3>1, <4>1, <4>2, AppendNoDecision
      <4>4. Deciders(i)' \subseteq Deciders(i)
        BY <2>2, <3>1 DEF Deciders, Decisions, Absent, Approved, Rejected
      <4> QED
        BY <3>1, <4>2, <4>3, <4>4, UndecidedStaysWithin
    <3> QED
      BY <3>2, <3>3
  <2>4. CASE ~(i = deciding[r].id /\ tasks[i].serial = deciding[r].serial)
    <3>1. tasks'[i] = tasks[i]
      BY <1>0, <2>1, <2>4 DEF WriteTask
    <3>2. Deciders(i)' \subseteq Deciders(i)
      BY <2>2, <3>1 DEF Deciders, Decisions, Absent, Approved, Rejected
    <3> QED
      BY <3>1, <3>2, UndecidedStaysWithin
  <2> QED
    BY <2>3, <2>4
<1>5. ASSUME NEW r \in Requests, AbandonDecision(r)
      PROVE  DecidedWithin(i)'
  <2>1. /\ tasks' = tasks /\ deciding'[r].op = Absent
        /\ \A q \in Requests : q # r => deciding'[q] = deciding[q]
    BY <1>0, <1>5 DEF AbandonDecision, NotDeciding
  <2>2. Deciders(i)' \subseteq Deciders(i)
    BY <2>1 DEF Deciders, Decisions, Absent, Approved, Rejected
  <2> QED
    BY <2>1, <2>2, UndecidedStaysWithin
<1> QED
  BY <1>1, <1>2, <1>3, <1>4, <1>5 DEF ApprovalNext, GenerateId, approvalVars

(* A task is decided at most as often as there are requests in flight,     *)
(* also when a create replaces it: each decision is of a coroutine that    *)
(* saw the task pending before its await (approve_task, reject_task).      *)
THEOREM DecisionsBounded == ApprovalSpec => []DecisionsBoundedByRequests
<1>1. DecidedIInv => DecisionsBoundedByRequests
  <2> SUFFICES ASSUME DecidedIInv, NEW i \in ApprovalIds
               PROVE  Cardinality(DecisionsOn(tasks[i])) <= Cardinality(Requests)
    BY DEF DecisionsBoundedByRequests, Stored
  <2>1. Deciders(i) \subseteq Requests /\ tasks[i] \in Task
    BY DEF Deciders, DecidedIInv, ApprovalIInv, ApprovalTypeOK
  <2>2. Cardinality(Deciders(i)) \in Nat /\ Cardinality(Requests) \in Nat
    BY <2>1, DecidersAreRequests
  <2>3. Cardinality(DecisionsOn(tasks[i])) \in Nat
    BY <2>1, TrailDecisionsFinite
  <2> QED
    BY <2>2, <2>3 DEF DecidedIInv, DecidedWithin
<1> QED
  BY <1>1, DecidedInit, DecidedStep, PTL DEF ApprovalSpec

----------------------------------------------------------------------------
(* Approval ids have no gaps.                                              *)

(* The store holds 1..n, every generated id is at most n + 1, and a        *)
(* coroutine only ever waits with an id that is in the store.              *)
DenseTo(n) ==
  /\ Stored = 1..n
  /\ \A t \in Threads : creating[t].id <= n + 1

DenseIInv ==
  /\ ApprovalTypeOK
  /\ \E n \in 0..MaxTasks : DenseTo(n)
  /\ \A r \in Requests : deciding[r].op \in Operations => deciding[r].id \in Stored

LEMMA CountOfInterval ==
  ASSUME NEW n \in Nat PROVE Cardinality(1..n) = n
  BY FS_Interval

LEMMA DenseInit == ApprovalInit => DenseIInv
<1> SUFFICES ASSUME ApprovalInit PROVE DenseIInv
  OBVIOUS
<1>1. Stored = 1..0
  BY DEF ApprovalInit, Stored, NoTask
<1>2. DenseTo(0)
  BY <1>1 DEF ApprovalInit, DenseTo, NotCreating
<1>3. 0 \in 0..MaxTasks
  BY MaxTasksAssumption
<1>4. \A r \in Requests : deciding[r].op \notin Operations
  BY DEF ApprovalInit, NotDeciding, Operations, Absent, Approved, Rejected, InProgress, Completed
<1> QED
  BY <1>2, <1>3, <1>4, ApprovalTypeInit DEF DenseIInv

(* A write keeps the set of stored ids: it gives a stored task another     *)
(* status, and no status it writes is ABSENT.                              *)
LEMMA WriteKeepsStored ==
  ASSUME DenseIInv, NEW r \in Requests, WriteTask(r), deciding[r].op \in Operations
  PROVE  Stored' = Stored
<1>1. deciding[r].id \in Stored /\ deciding[r].op # Absent
  BY DEF DenseIInv, Operations, Absent, Approved, Rejected, InProgress, Completed
<1>2. \A i \in ApprovalIds : tasks[i] \in Task
  BY DEF DenseIInv, ApprovalTypeOK
<1>3. \A i \in ApprovalIds : tasks'[i].status # Absent <=> tasks[i].status # Absent
  BY <1>1, <1>2 DEF WriteTask, DenseIInv, ApprovalTypeOK, Task, Stored
<1> QED
  BY <1>3 DEF Stored

LEMMA DenseStep == DenseIInv /\ [ApprovalNext]_approvalVars => DenseIInv'
<1> SUFFICES ASSUME DenseIInv, [ApprovalNext]_approvalVars PROVE DenseIInv'
  OBVIOUS
<1>0. ApprovalTypeOK'
  BY ApprovalTypeStep DEF DenseIInv
<1>n. PICK n \in 0..MaxTasks : DenseTo(n)
  BY DEF DenseIInv
<1>c. Cardinality(Stored) = n /\ n \in Nat
  BY <1>n, MaxTasksAssumption, CountOfInterval DEF DenseTo
<1>1. ASSUME NEW t \in Threads, NEW sim \in LinkedSims, GenerateId(t, sim)
      PROVE  DenseIInv'
  <2>1. Stored' = Stored /\ deciding' = deciding
    BY <1>1 DEF GenerateId, Stored
  <2>2. \A u \in Threads : creating'[u].id <= n + 1
    BY <1>1, <1>n, <1>c DEF GenerateId, NextApprovalId, DenseTo, DenseIInv, ApprovalTypeOK
  <2> QED
    BY <1>0, <1>n, <2>1, <2>2 DEF DenseIInv, DenseTo
<1>2. ASSUME NEW t \in Threads, InsertTask(t)
      PROVE  DenseIInv'
  <2> DEFINE i == creating[t].id
             m == IF i = n + 1 THEN n + 1 ELSE n
  <2>1. i \in ApprovalIds /\ i <= n + 1 /\ deciding' = deciding
    BY <1>2, <1>n DEF InsertTask, StoreTask, DenseIInv, ApprovalTypeOK, DenseTo
  <2>2. Stored' = Stored \cup {i}
    BY <1>2, <2>1 DEF InsertTask, StoreTask, Stored, NewTask, Pending, Absent, DenseIInv,
                      ApprovalTypeOK
  <2>3. Stored' = 1..m /\ m \in 0..MaxTasks
    BY <1>n, <1>c, <2>1, <2>2, MaxTasksAssumption DEF DenseTo, ApprovalIds
  <2>4. \A u \in Threads : creating'[u].id <= m + 1
    BY <1>2, <1>n, <1>c DEF InsertTask, DenseTo, NotCreating, DenseIInv, ApprovalTypeOK, ApprovalIds
  <2> QED
    BY <1>0, <2>1, <2>2, <2>3, <2>4 DEF DenseIInv, DenseTo
<1>3. ASSUME NEW r \in Requests, NEW op \in Operations, NEW id \in ApprovalIds,
             CheckTask(r, op, id)
      PROVE  DenseIInv'
  <2>1. Stored' = Stored /\ creating' = creating
    BY <1>3 DEF CheckTask, Stored
  <2>2. id \in Stored
    BY <1>3 DEF CheckTask, CheckedStatuses, Stored, Operations, Decisions, Pending, Approved,
                Rejected, InProgress, Completed, Absent
  <2>3. \A q \in Requests : deciding'[q].op \in Operations => deciding'[q].id \in Stored
    BY <1>3, <2>2 DEF CheckTask, DenseIInv, ApprovalTypeOK
  <2> QED
    BY <1>0, <1>n, <2>1, <2>3 DEF DenseIInv, DenseTo
<1>4. ASSUME NEW r \in Requests,
             ApplyDecision(r) \/ MarkWritebackStarted(r) \/ MarkWritebackCompleted(r)
      PROVE  DenseIInv'
  <2>1. Stored' = Stored /\ creating' = creating /\ WriteTask(r)
    BY <1>4, WritersWrite, WriteKeepsStored
  <2>2. \A q \in Requests : deciding'[q] = deciding[q] \/ deciding'[q].op \notin Operations
    BY <2>1 DEF WriteTask, DenseIInv, ApprovalTypeOK, NotDeciding, Operations, Absent, Approved,
                Rejected, InProgress, Completed
  <2> QED
    BY <1>0, <1>n, <2>1, <2>2 DEF DenseIInv, DenseTo
<1>5. ASSUME NEW r \in Requests, AbandonDecision(r)
      PROVE  DenseIInv'
  <2>1. Stored' = Stored /\ creating' = creating
    BY <1>5 DEF AbandonDecision, Stored
  <2>2. \A q \in Requests : deciding'[q] = deciding[q] \/ deciding'[q].op \notin Operations
    BY <1>5 DEF AbandonDecision, DenseIInv, ApprovalTypeOK, NotDeciding, Operations, Absent,
                Approved, Rejected, InProgress, Completed
  <2> QED
    BY <1>0, <1>n, <2>1, <2>2 DEF DenseIInv, DenseTo
<1>6. CASE UNCHANGED approvalVars
  BY <1>0, <1>n, <1>6 DEF approvalVars, DenseIInv, DenseTo, Stored
<1> QED
  BY <1>1, <1>2, <1>3, <1>4, <1>5, <1>6 DEF ApprovalNext

(* The ids in the store are always 1..n, even when creates overwrite each  *)
(* other.                                                                  *)
THEOREM ApprovalIdsStayDense == ApprovalSpec => []ApprovalIdsDense
<1>1. DenseIInv => ApprovalIdsDense
  BY CountOfInterval, MaxTasksAssumption DEF DenseIInv, DenseTo, ApprovalIdsDense
<1> QED
  BY <1>1, DenseInit, DenseStep, PTL DEF ApprovalSpec

----------------------------------------------------------------------------
(* One request in flight at a time.                                        *)

OneRequest == \A q, r \in Requests : q = r

(* What a coroutine has checked still holds when it writes, unless the id  *)
(* now holds another object.                                               *)
StillChecked(r) ==
  LET d == deciding[r] IN
  /\ d.serial <= created
  /\ /\ d.op \in Operations
     /\ tasks[d.id].serial = d.serial
     => tasks[d.id].status \in CheckedStatuses(d.op)

OneRequestIInv ==
  /\ ApprovalTypeOK
  /\ \A i \in ApprovalIds : tasks[i].serial <= created
  /\ \A r \in Requests : StillChecked(r)

LEMMA OneRequestInit == ApprovalInit => OneRequestIInv
<1> SUFFICES ASSUME ApprovalInit PROVE OneRequestIInv
  OBVIOUS
<1>1. \A i \in ApprovalIds : tasks[i].serial = 0
  BY DEF ApprovalInit, NoTask
<1>2. ASSUME NEW r \in Requests
      PROVE  StillChecked(r)
  BY DEF ApprovalInit, StillChecked, NotDeciding, Operations, Absent, Approved, Rejected,
         InProgress, Completed
<1> QED
  BY <1>1, <1>2, ApprovalTypeInit DEF OneRequestIInv, ApprovalInit

LEMMA OneRequestStep ==
  ASSUME OneRequest
  PROVE  OneRequestIInv /\ [ApprovalNext]_approvalVars => OneRequestIInv'
<1> SUFFICES ASSUME OneRequestIInv, [ApprovalNext]_approvalVars PROVE OneRequestIInv'
  OBVIOUS
<1>0. ApprovalTypeOK'
  BY ApprovalTypeStep DEF OneRequestIInv
<1>1. ASSUME NEW t \in Threads, NEW sim \in LinkedSims, GenerateId(t, sim)
      PROVE  OneRequestIInv'
  BY <1>0, <1>1 DEF GenerateId, OneRequestIInv, StillChecked
<1>2. ASSUME NEW t \in Threads, InsertTask(t)
      PROVE  OneRequestIInv'
  <2> DEFINE n == creating[t].id
  <2>1. n \in ApprovalIds /\ created \in Nat /\ created' = created + 1 /\ deciding' = deciding
    BY <1>2 DEF InsertTask, StoreTask, OneRequestIInv, ApprovalTypeOK
  <2>2. /\ tasks'[n].serial = created + 1
        /\ \A i \in ApprovalIds : i # n => tasks'[i] = tasks[i]
    BY <1>2, <2>1 DEF InsertTask, StoreTask, NewTask, OneRequestIInv, ApprovalTypeOK
  <2>3. \A i \in ApprovalIds : tasks'[i].serial <= created'
    <3>1. \A i \in ApprovalIds : tasks[i].serial \in Nat
      BY DEF OneRequestIInv, ApprovalTypeOK, Task
    <3> QED
      BY <2>1, <2>2, <3>1 DEF OneRequestIInv
  <2>4. ASSUME NEW r \in Requests
        PROVE  StillChecked(r)'
    <3>1. deciding[r].id \in ApprovalIds /\ deciding[r].serial \in Nat /\ StillChecked(r)
      BY DEF OneRequestIInv, ApprovalTypeOK
    <3>2. deciding[r].id = n => tasks'[n].serial # deciding[r].serial
      BY <2>1, <2>2, <3>1 DEF StillChecked
    <3> QED
      BY <2>1, <2>2, <3>1, <3>2 DEF StillChecked
  <2> QED
    BY <1>0, <2>3, <2>4 DEF OneRequestIInv
<1>3. ASSUME NEW r \in Requests, NEW op \in Operations, NEW id \in ApprovalIds,
             CheckTask(r, op, id)
      PROVE  OneRequestIInv'
  <2>1. \A q \in Requests : q = r
    BY DEF OneRequest
  <2>2. /\ deciding'[r].op = op /\ deciding'[r].id = id
        /\ deciding'[r].serial = tasks[id].serial
    BY <1>3 DEF CheckTask, OneRequestIInv, ApprovalTypeOK
  <2> QED
    BY <1>0, <1>3, <2>1, <2>2 DEF CheckTask, OneRequestIInv, StillChecked
<1>4. ASSUME NEW r \in Requests,
             ApplyDecision(r) \/ MarkWritebackStarted(r) \/ MarkWritebackCompleted(r)
      PROVE  OneRequestIInv'
  <2>1. \A q \in Requests : q = r
    BY DEF OneRequest
  <2>2. WriteTask(r) /\ created' = created /\ deciding'[r] = NotDeciding
    BY <1>4, WritersWrite DEF WriteTask, OneRequestIInv, ApprovalTypeOK
  <2>3. deciding[r].id \in ApprovalIds /\ \A i \in ApprovalIds : tasks[i] \in Task
    BY DEF OneRequestIInv, ApprovalTypeOK
  <2>4. \A i \in ApprovalIds : tasks'[i].serial = tasks[i].serial
    BY <2>2, <2>3 DEF WriteTask, OneRequestIInv, ApprovalTypeOK, Task
  <2>5. StillChecked(r)'
    BY <2>2, <1>0 DEF StillChecked, NotDeciding, Operations, Absent, Approved, Rejected,
                      InProgress, Completed, ApprovalTypeOK
  <2> QED
    BY <1>0, <2>1, <2>2, <2>4, <2>5 DEF OneRequestIInv
<1>5. ASSUME NEW r \in Requests, AbandonDecision(r)
      PROVE  OneRequestIInv'
  <2>1. deciding'[r] = NotDeciding /\ \A q \in Requests : q = r
    BY <1>5 DEF AbandonDecision, OneRequest, OneRequestIInv, ApprovalTypeOK
  <2> QED
    BY <1>0, <1>5, <2>1 DEF AbandonDecision, OneRequestIInv, StillChecked, NotDeciding,
       Operations, Absent, Approved, Rejected, InProgress, Completed, ApprovalTypeOK
<1>6. CASE UNCHANGED approvalVars
  BY <1>0, <1>6 DEF approvalVars, OneRequestIInv, StillChecked
<1> QED
  BY <1>1, <1>2, <1>3, <1>4, <1>5, <1>6 DEF ApprovalNext

(* With one request in flight, only a PENDING task is decided, as the      *)
(* docstring says; the run Race_Decision shows that two are enough to      *)
(* break it.                                                               *)
THEOREM OneRequestDecidesPending ==
  ASSUME OneRequest
  PROVE  ApprovalSpec => OnlyPendingIsDecided
<1> DEFINE A == \A i \in ApprovalIds :
                  /\ tasks[i].serial = tasks'[i].serial
                  /\ DecisionsOn(tasks'[i]) # DecisionsOn(tasks[i])
                  => tasks[i].status = Pending
<1>1. OneRequestIInv /\ [ApprovalNext]_approvalVars => [A]_approvalVars
  <2> SUFFICES ASSUME OneRequestIInv, ApprovalNext, NEW i \in ApprovalIds,
                      tasks[i].serial = tasks'[i].serial,
                      DecisionsOn(tasks'[i]) # DecisionsOn(tasks[i])
               PROVE  tasks[i].status = Pending
    OBVIOUS
  <2>0. ApprovalTypeOK'
    BY ApprovalTypeStep DEF OneRequestIInv
  <2>1. tasks'[i] # tasks[i]
    OBVIOUS
  <2>2. ASSUME NEW t \in Threads, InsertTask(t)
        PROVE  FALSE
    <3>1. i = creating[t].id /\ tasks'[i].serial = created + 1
      BY <2>1, <2>2 DEF InsertTask, StoreTask, NewTask, OneRequestIInv, ApprovalTypeOK
    <3>2. tasks[i].serial <= created /\ created \in Nat
      BY DEF OneRequestIInv, ApprovalTypeOK
    <3> QED
      BY <3>1, <3>2
  <2>3. ASSUME NEW r \in Requests,
               ApplyDecision(r) \/ MarkWritebackStarted(r) \/ MarkWritebackCompleted(r)
        PROVE  tasks[i].status = Pending
    <3> DEFINE d == deciding[r]
    <3>1. WriteTask(r) /\ d.op \in Operations
      BY <2>3, WritersWrite
    <3>2. d.id = i /\ tasks[i].serial = d.serial /\ tasks[i].status \in CheckedStatuses(d.op)
      BY <2>1, <3>1 DEF WriteTask, OneRequestIInv, ApprovalTypeOK, StillChecked
    <3>3. tasks[i] \in Task /\ tasks'[i] \in Task
      BY <2>0 DEF OneRequestIInv, ApprovalTypeOK
    <3>4. tasks'[i].trail = Append(tasks[i].trail, d.op)
      BY <3>1, <3>2, <3>3 DEF WriteTask, OneRequestIInv, ApprovalTypeOK, Task
    <3>5. d.op \in Decisions
      BY <3>1, <3>3, <3>4, AppendNoDecision DEF Operations, AuditActions
    <3> QED
      BY <3>2, <3>5
         DEF CheckedStatuses, Decisions, Approved, Rejected, InProgress, Completed
  <2> QED
    BY <2>1, <2>2, <2>3 DEF ApprovalNext, GenerateId, CheckTask, AbandonDecision
<1>2. ApprovalInit => OneRequestIInv
  BY OneRequestInit
<1>3. OneRequestIInv /\ [ApprovalNext]_approvalVars => OneRequestIInv'
  BY OneRequestStep
<1> QED
  BY <1>1, <1>2, <1>3, PTL DEF ApprovalSpec, OnlyPendingIsDecided

----------------------------------------------------------------------------
(* One creating thread at a time.                                          *)

(* The id a thread has generated is still free when it inserts the task.   *)
FreshIInv ==
  /\ DenseIInv
  /\ \A t \in Threads : creating[t].id # 0 => creating[t].id \notin Stored

LEMMA FreshInit == ApprovalInit => FreshIInv
  BY DenseInit DEF ApprovalInit, FreshIInv, NotCreating

LEMMA FreshStep ==
  ASSUME OneThread
  PROVE  FreshIInv /\ [ApprovalNext]_approvalVars => FreshIInv'
<1> SUFFICES ASSUME FreshIInv, [ApprovalNext]_approvalVars PROVE FreshIInv'
  OBVIOUS
<1>0. DenseIInv' /\ DenseIInv
  BY DenseStep DEF FreshIInv
<1>1. ASSUME NEW t \in Threads, NEW sim \in LinkedSims, GenerateId(t, sim)
      PROVE  FreshIInv'
  <2>1. PICK n \in 0..MaxTasks : DenseTo(n)
    BY <1>0 DEF DenseIInv
  <2>2. n \in Nat /\ Stored = 1..n /\ Cardinality(Stored) = n
    BY <2>1, MaxTasksAssumption, CountOfInterval DEF DenseTo
  <2>3. NextApprovalId = n + 1
    BY <2>2 DEF NextApprovalId
  <2>4. creating'[t].id = n + 1
    BY <1>0, <1>1, <2>3 DEF GenerateId, DenseIInv, ApprovalTypeOK
  <2>5. Stored' = Stored
    BY <1>1 DEF GenerateId, Stored
  <2> QED
    BY <1>0, <2>2, <2>4, <2>5 DEF FreshIInv, OneThread
<1>2. ASSUME NEW t \in Threads, InsertTask(t)
      PROVE  FreshIInv'
  <2>1. creating'[t].id = 0
    BY <1>0, <1>2 DEF InsertTask, NotCreating, DenseIInv, ApprovalTypeOK
  <2> QED
    BY <1>0, <2>1 DEF FreshIInv, OneThread
<1>3. ASSUME creating' = creating, Stored' = Stored
      PROVE  FreshIInv'
  BY <1>0, <1>3 DEF FreshIInv
<1>4. ASSUME NEW r \in Requests, NEW op \in Operations, NEW id \in ApprovalIds,
             CheckTask(r, op, id)
      PROVE  FreshIInv'
  BY <1>3, <1>4 DEF CheckTask, Stored
<1>5. ASSUME NEW r \in Requests,
             ApplyDecision(r) \/ MarkWritebackStarted(r) \/ MarkWritebackCompleted(r)
      PROVE  FreshIInv'
  <2>1. creating' = creating /\ Stored' = Stored
    BY <1>0, <1>5, WritersWrite, WriteKeepsStored
  <2> QED
    BY <1>3, <2>1
<1>6. ASSUME NEW r \in Requests, AbandonDecision(r)
      PROVE  FreshIInv'
  BY <1>3, <1>6 DEF AbandonDecision, Stored
<1>7. CASE UNCHANGED approvalVars
  BY <1>3, <1>7 DEF approvalVars, Stored
<1> QED
  BY <1>1, <1>2, <1>4, <1>5, <1>6, <1>7 DEF ApprovalNext

(* With one creating thread a new task takes the place of none; with two,  *)
(* both can generate the same id before either inserts.                    *)
THEOREM SerialCreatesReplaceNothing ==
  ASSUME OneThread
  PROVE  ApprovalSpec => NoTaskReplaced
<1>1. FreshIInv /\ [ApprovalNext]_approvalVars
      => [\A i \in ApprovalIds : tasks[i].status # Absent
                                 => tasks'[i].serial = tasks[i].serial]_approvalVars
  <2> SUFFICES ASSUME FreshIInv, ApprovalNext, NEW i \in ApprovalIds,
                      tasks[i].status # Absent
               PROVE  tasks'[i].serial = tasks[i].serial
    OBVIOUS
  <2>0. tasks \in [ApprovalIds -> Task] /\ creating \in [Threads -> [id : {0} \cup ApprovalIds, sim : LinkedSims]]
    BY DEF FreshIInv, DenseIInv, ApprovalTypeOK
  <2>1. ASSUME NEW t \in Threads, InsertTask(t)
        PROVE  tasks'[i].serial = tasks[i].serial
    <3>1. creating[t].id \in ApprovalIds /\ creating[t].id # i
      BY <2>0, <2>1 DEF InsertTask, StoreTask, FreshIInv, Stored
    <3> QED
      BY <2>0, <2>1, <3>1 DEF InsertTask, StoreTask
  <2>2. ASSUME NEW r \in Requests,
               ApplyDecision(r) \/ MarkWritebackStarted(r) \/ MarkWritebackCompleted(r)
        PROVE  tasks'[i].serial = tasks[i].serial
    <3>1. WriteTask(r) /\ deciding[r].id \in ApprovalIds
      BY <2>2, WritersWrite DEF FreshIInv, DenseIInv, ApprovalTypeOK
    <3> QED
      BY <2>0, <3>1 DEF WriteTask, Task
  <2> QED
    BY <2>1, <2>2 DEF ApprovalNext, GenerateId, CheckTask, AbandonDecision
<1>2. ApprovalInit => FreshIInv
  BY FreshInit
<1>3. FreshIInv /\ [ApprovalNext]_approvalVars => FreshIInv'
  BY FreshStep
<1> QED
  BY <1>1, <1>2, <1>3, PTL DEF ApprovalSpec, NoTaskReplaced

----------------------------------------------------------------------------
(* Refinement.                                                             *)

statusOf == [i \in ApprovalIds |-> tasks[i].status]

LEMMA TransitionIsNext ==
  ASSUME NEW i \in ApprovalIds,
         \/ Machine!Create(i) \/ Machine!Approve(i) \/ Machine!Reject(i)
         \/ Machine!Start(i) \/ Machine!Complete(i)
  PROVE  Machine!Next
BY DEF Machine!Next, Machine!Create, Machine!Approve, Machine!Reject, Machine!Start,
       Machine!Complete, Machine!Become

(* A write of a coroutine is one transition of the machine, or none when   *)
(* the id holds another task by now.                                       *)
LEMMA WriteIsTransition ==
  ASSUME OneRequest, OneRequestIInv, DenseIInv, NEW r \in Requests, WriteTask(r),
         deciding[r].op \in Operations
  PROVE  Machine!Next \/ statusOf' = statusOf
<1> DEFINE d == deciding[r]
<1>1. d.id \in ApprovalIds /\ tasks \in [ApprovalIds -> Task]
  BY DEF OneRequestIInv, ApprovalTypeOK
<1>i. PICK i \in ApprovalIds : i = d.id
  BY <1>1
<1>2. CASE tasks[d.id].serial # d.serial
  BY <1>2 DEF WriteTask, statusOf
<1>3. CASE tasks[d.id].serial = d.serial
  <2>1. statusOf[i] \in CheckedStatuses(d.op)
    BY <1>1, <1>i, <1>3 DEF OneRequestIInv, StillChecked, statusOf
  <2>2. statusOf' = [statusOf EXCEPT ![i] = d.op]
    BY <1>1, <1>i, <1>3 DEF WriteTask, statusOf, Task
  <2>3. CASE d.op \in Decisions
    <3>1. CheckedStatuses(d.op) = {Pending}
      BY <2>3 DEF CheckedStatuses, Decisions, Approved, Rejected, InProgress, Completed
    <3>2. Machine!Approve(i) \/ Machine!Reject(i)
      BY <2>1, <2>2, <2>3, <3>1 DEF Machine!Approve, Machine!Reject, Machine!Become, Decisions,
         Approved, Rejected, Pending, statusOf
    <3> QED
      BY <3>2, TransitionIsNext
  <2>4. CASE d.op = InProgress
    <3>1. CheckedStatuses(d.op) = {Approved}
      BY <2>4 DEF CheckedStatuses, Decisions, Approved, Rejected, InProgress, Completed
    <3>2. Machine!Start(i)
      BY <2>1, <2>2, <2>4, <3>1 DEF Machine!Start, Machine!Become, Approved, InProgress, statusOf
    <3> QED
      BY <3>2, TransitionIsNext
  <2>5. CASE d.op = Completed
    <3>1. CheckedStatuses(d.op) = {Approved, InProgress}
      BY <2>5 DEF CheckedStatuses, Decisions, Approved, Rejected, InProgress, Completed
    <3>2. Machine!Complete(i)
      BY <2>1, <2>2, <2>5, <3>1 DEF Machine!Complete, Machine!Become, Approved, InProgress,
         Completed, statusOf
    <3> QED
      BY <3>2, TransitionIsNext
  <2> QED
    BY <2>3, <2>4, <2>5 DEF Operations, Decisions
<1> QED
  BY <1>2, <1>3

(* One request and one creating thread at a time: the store implements the *)
(* status machine of its docstring.                                        *)
THEOREM SerialStoreImplementsMachine ==
  ASSUME OneRequest, OneThread
  PROVE  ApprovalSpec => ImplementsMachine
<1> DEFINE Inv == OneRequestIInv /\ FreshIInv
<1>1. ApprovalInit => Machine!Init
  BY DEF ApprovalInit, Machine!Init, NoTask, Absent
<1>2. Inv /\ [ApprovalNext]_approvalVars => [Machine!Next]_[i \in ApprovalIds |-> tasks[i].status]
  <2> SUFFICES ASSUME Inv, ApprovalNext PROVE Machine!Next \/ statusOf' = statusOf
    BY DEF approvalVars, statusOf
  <2>1. ASSUME NEW t \in Threads, InsertTask(t)
        PROVE  Machine!Next
    <3>n. PICK n \in ApprovalIds : n = creating[t].id
      BY <2>1 DEF InsertTask, StoreTask, OneRequestIInv, ApprovalTypeOK
    <3>1. tasks \in [ApprovalIds -> Task] /\ statusOf[n] = Absent
      BY <2>1, <3>n DEF InsertTask, StoreTask, FreshIInv, Stored, statusOf, OneRequestIInv, ApprovalTypeOK
    <3>2. statusOf' = [statusOf EXCEPT ![n] = Pending]
      BY <2>1, <3>n, <3>1 DEF InsertTask, StoreTask, NewTask, statusOf
    <3>3. Machine!Create(n)
      BY <3>1, <3>2 DEF Machine!Create, Machine!Become, Absent, Pending, statusOf
    <3> QED
      BY <3>3, TransitionIsNext
  <2>2. ASSUME NEW r \in Requests,
               ApplyDecision(r) \/ MarkWritebackStarted(r) \/ MarkWritebackCompleted(r)
        PROVE  Machine!Next \/ statusOf' = statusOf
    BY <2>2, WritersWrite, WriteIsTransition DEF FreshIInv
  <2>3. ASSUME tasks' = tasks
        PROVE  statusOf' = statusOf
    BY <2>3 DEF statusOf
  <2> QED
    BY <2>1, <2>2, <2>3 DEF ApprovalNext, GenerateId, CheckTask, AbandonDecision
<1>3. ApprovalInit => Inv
  BY OneRequestInit, FreshInit
<1>4. Inv /\ [ApprovalNext]_approvalVars => Inv'
  BY OneRequestStep, FreshStep
<1> QED
  BY <1>1, <1>2, <1>3, <1>4, PTL DEF ApprovalSpec, ImplementsMachine, Machine!Spec

----------------------------------------------------------------------------
(* The store and the queue joined: type correctness, and the store's part. *)

ErpTypeIInv == SimIInv /\ ErpTypeOK

Clerks == [pc : {"rest", "mark", "scan", "create", "insert", "link"},
           case : Objects, sim : LinkedSims, id : {0} \cup ApprovalIds]

(* What the two joined handlers do to the queue: they mark cases, and no   *)
(* more.                                                                   *)
Marks ==
  /\ cases' \in [Objects -> Case]
  /\ \A o \in Objects : /\ cases'[o].sim = cases[o].sim
                        /\ cases'[o].po = cases[o].po
                        /\ cases'[o].status = cases[o].status
                        /\ cases'[o].handed = cases[o].handed
  /\ UNCHANGED <<made, queue, generation, thread>>

LEMMA MarksKeepSound ==
  ASSUME SimIInv, Marks
  PROVE  SimIInv'
<1>1. SimTypeOK'
  BY DEF SimIInv, SimTypeOK, Marks
<1>2. \A o \in 1..made : IsPending(o) <=> IsPending(o)'
  BY QueuedAreMade DEF SimIInv, Marks, IsPending
<1>3. Frame
  BY <1>2, QueuedAreMade DEF SimIInv, Marks, Frame, Queued
<1>4. IdsAtPositions'
  BY QueuedAreMade DEF SimIInv, Marks, IdsAtPositions
<1>5. \A t \in Threads : HandlerSound(t)'
  BY <1>1, <1>3, FrameKeepsSound DEF Marks
<1> QED
  BY <1>1, <1>4, <1>5 DEF SimIInv

LEMMA MarkedIsCase ==
  ASSUME NEW c \in Case
  PROVE  LET m == [c EXCEPT !.action = Submit]
         IN  m \in Case /\ m.sim = c.sim /\ m.po = c.po /\ m.status = c.status
             /\ m.handed = c.handed
BY DEF Case, Actions

(* A step of the joined system is a step of the queue, or marks cases.     *)
LEMMA QueueSide ==
  ASSUME ErpTypeIInv, ErpNext
  PROVE  SimNext \/ Marks
<1>0. /\ cases \in [Objects -> Case]
      /\ clerk \in [Threads -> Clerks]
  BY DEF ErpTypeIInv, ErpTypeOK, SimTypeOK, Clerks
<1>1. ASSUME UNCHANGED simVars PROVE Marks
  BY <1>0, <1>1 DEF simVars, Marks
<1>2. ASSUME NEW t \in Threads, QueueStep(t) PROVE SimNext
  BY <1>2 DEF QueueStep, SimNext
<1>3. ASSUME NEW t \in Threads, SubmitMark(t) PROVE Marks
  <2>1. PICK p \in Objects : p = clerk[t].case
    BY <1>0 DEF Clerks
  <2>2. PICK m : m = [cases[p] EXCEPT !.action = Submit]
    OBVIOUS
  <2>3. m \in Case /\ m.sim = cases[p].sim /\ m.po = cases[p].po
        /\ m.status = cases[p].status /\ m.handed = cases[p].handed
    BY <1>0, <2>2, MarkedIsCase
  <2>4. cases' = [cases EXCEPT ![p] = m]
    BY <1>0, <1>3, <2>1, <2>2 DEF SubmitMark
  <2> QED
    BY <1>0, <1>3, <2>3, <2>4 DEF SubmitMark, Marks
<1>4. ASSUME NEW r \in Requests, WriteBack(r) PROVE Marks
  <2>1. \A o \in Objects : cases'[o] \in {cases[o], [cases[o] EXCEPT !.action = Submit]}
    BY <1>4 DEF WriteBack
  <2>2. DOMAIN cases' = Objects /\ cases' = [o \in Objects |-> cases'[o]]
    BY <1>4 DEF WriteBack
  <2>3. \A o \in Objects : /\ cases'[o] \in Case
                           /\ cases'[o].sim = cases[o].sim
                           /\ cases'[o].po = cases[o].po
                           /\ cases'[o].status = cases[o].status
                           /\ cases'[o].handed = cases[o].handed
    <3> TAKE o \in Objects
    <3>1. cases[o] \in Case
      BY <1>0
    <3>2. PICK c \in Case : c = cases[o]
      BY <3>1
    <3>3. CASE cases'[o] = c
      BY <3>2, <3>3
    <3>4. CASE cases'[o] = [c EXCEPT !.action = Submit]
      BY <3>2, <3>4, MarkedIsCase
    <3> QED
      BY <2>1, <3>2, <3>3, <3>4
  <2>4. cases' \in [Objects -> Case]
    BY <2>2, <2>3
  <2> QED
    BY <1>4, <2>3, <2>4 DEF WriteBack, Marks
<1>5. ASSUME NEW t \in Threads, CreateStep(t) PROVE UNCHANGED simVars
  BY <1>5 DEF CreateStep
<1>6. ASSUME NEW t \in Threads, SubmitStep(t) PROVE SubmitMark(t) \/ UNCHANGED simVars
  BY <1>6 DEF SubmitStep, SubmitFind, SubmitReuse, SubmitNew, SubmitGenerate, SubmitInsert, SubmitLink
<1>7. ASSUME NEW r \in Requests, DecisionStep(r) PROVE UNCHANGED simVars
  BY <1>7 DEF DecisionStep
<1> QED
  BY <1>1, <1>2, <1>3, <1>4, <1>5, <1>6, <1>7 DEF ErpNext

(* And it is a step of the store, or leaves the store alone.               *)
LEMMA StoreSide ==
  ASSUME ErpTypeIInv, ErpNext
  PROVE  [ApprovalNext]_approvalVars
<1>1. ASSUME NEW t \in Threads, CreateStep(t) PROVE ApprovalNext
  <2>1. PICK sim \in LinkedSims : GenerateId(t, sim) \/ InsertTask(t)
    BY <1>1, DirectSimsAssumption DEF CreateStep, LinkedSims
  <2> QED
    BY <2>1 DEF ApprovalNext
<1>2. ASSUME NEW t \in Threads, SubmitGenerate(t) PROVE ApprovalNext
  <2>1. PICK sim \in LinkedSims : sim = clerk[t].sim
    BY DEF ErpTypeIInv, ErpTypeOK
  <2>2. GenerateId(t, sim)
    BY <1>2, <2>1 DEF SubmitGenerate
  <2> QED
    BY <2>2 DEF ApprovalNext
<1>3. ASSUME NEW t \in Threads, SubmitInsert(t) PROVE ApprovalNext
  <2>1. InsertTask(t)
    BY <1>3 DEF SubmitInsert, InsertTask
  <2> QED
    BY <2>1 DEF ApprovalNext
<1>4. ASSUME NEW t \in Threads, SubmitStep(t)
      PROVE  SubmitGenerate(t) \/ SubmitInsert(t) \/ UNCHANGED approvalVars
  BY <1>4 DEF SubmitStep, SubmitFind, SubmitMark, SubmitReuse, SubmitNew, SubmitLink
<1>5. ASSUME NEW r \in Requests, DecisionStep(r) \/ WriteBack(r) PROVE ApprovalNext
  BY <1>5 DEF DecisionStep, WriteBack, ApprovalNext
<1>6. ASSUME NEW t \in Threads, QueueStep(t) PROVE UNCHANGED approvalVars
  BY <1>6 DEF QueueStep
<1> QED
  BY <1>1, <1>2, <1>3, <1>4, <1>5, <1>6 DEF ErpNext

(* A queued case carries a number some approval can be linked to.          *)
LEMMA QueuedSimIsLinked ==
  ASSUME SimIInv, NEW o \in Queued
  PROVE  cases[o].sim \in LinkedSims
<1>1. PICK k \in DOMAIN queue : o = queue[k]
  BY DEF Queued
<1>2. k \in Nat /\ o \in 1..made /\ made \in 0..MaxCases /\ MaxCases \in Nat
  BY <1>1, QueuedAreMade, SimulationBounds DEF SimIInv, SimTypeOK
<1>3. k <= o /\ cases[o].sim \in 1..k
  BY <1>1 DEF SimIInv, IdsAtPositions
<1>4. cases[o].sim \in 1..MaxCases
  BY <1>2, <1>3
<1> QED
  BY <1>4, SimsAssumption DEF LinkedSims

(* Only submit-approval-request moves a clerk or links a case, and only an *)
(* insert tells what a task was made for.                                  *)
LEMMA ClerkStep ==
  ASSUME ErpTypeIInv, ErpNext
  PROVE  /\ link' \in [Objects -> {0} \cup ApprovalIds]
         /\ clerk' \in [Threads -> Clerks]
         /\ origin' \in [ApprovalIds -> {0} \cup Objects]
<1>0. /\ link \in [Objects -> {0} \cup ApprovalIds]
      /\ clerk \in [Threads -> Clerks]
      /\ creating \in [Threads -> [id : {0} \cup ApprovalIds, sim : LinkedSims]]
      /\ SimIInv
  BY DEF ErpTypeIInv, ErpTypeOK, ApprovalTypeOK, Clerks
<1>1. Resting \in Clerks
  BY SimulationBounds DEF Resting, Clerks, Objects, LinkedSims
<1>2. ASSUME NEW t \in Threads, NEW o \in Objects, SubmitFind(t, o)
      PROVE  link' = link /\ clerk' \in [Threads -> Clerks]
  <2>1. PICK sim \in LinkedSims : sim = cases[o].sim
    BY <1>0, <1>2, QueuedSimIsLinked DEF SubmitFind
  <2>2. [pc |-> "mark", case |-> o, sim |-> sim, id |-> 0] \in Clerks
    BY DEF Clerks
  <2> QED
    BY <1>0, <1>2, <2>1, <2>2 DEF SubmitFind
<1>3. ASSUME NEW t \in Threads, NEW pc \in {"scan", "create", "insert"}, Advance(t, pc)
      PROVE  clerk' \in [Threads -> Clerks]
  BY <1>0, <1>3 DEF Advance, Clerks
<1>4. ASSUME NEW t \in Threads, SubmitReuse(t) \/ SubmitInsert(t)
      PROVE  link' = link /\ clerk' \in [Threads -> Clerks]
  <2>1. PICK i \in {0} \cup ApprovalIds : clerk' = [clerk EXCEPT ![t].pc = "link", ![t].id = i]
    BY <1>0, <1>4 DEF SubmitReuse, SubmitInsert
  <2>2. PICK c : c = [clerk[t] EXCEPT !.pc = "link", !.id = i]
    OBVIOUS
  <2>3. c \in Clerks
    BY <1>0, <2>2 DEF Clerks
  <2>4. clerk' = [clerk EXCEPT ![t] = c]
    BY <1>0, <2>1, <2>2
  <2>5. clerk' \in [Threads -> Clerks]
    BY <1>0, <2>3, <2>4
  <2> QED
    BY <1>4, <2>5 DEF SubmitReuse, SubmitInsert
<1>5. ASSUME NEW t \in Threads, SubmitLink(t)
      PROVE  /\ link' \in [Objects -> {0} \cup ApprovalIds]
             /\ clerk' \in [Threads -> Clerks]
  <2>1. PICK o \in Objects, i \in {0} \cup ApprovalIds : o = clerk[t].case /\ i = clerk[t].id
    BY <1>0 DEF Clerks
  <2> QED
    BY <1>0, <1>1, <1>5, <2>1 DEF SubmitLink
<1>6. ASSUME NEW t \in Threads, SubmitStep(t)
      PROVE  /\ link' \in [Objects -> {0} \cup ApprovalIds]
             /\ clerk' \in [Threads -> Clerks]
  BY <1>0, <1>2, <1>3, <1>4, <1>5, <1>6 DEF SubmitStep, SubmitMark, SubmitNew, SubmitGenerate
<1>7. ASSUME ~ \E t \in Threads : SubmitStep(t)
      PROVE  UNCHANGED <<link, clerk>>
  BY <1>7 DEF ErpNext, QueueStep, CreateStep, DecisionStep, WriteBack
<1>8. origin' \in [ApprovalIds -> {0} \cup Objects]
  <2>0. origin \in [ApprovalIds -> {0} \cup Objects]
    BY DEF ErpTypeIInv, ErpTypeOK
  <2>1. ASSUME NEW t \in Threads, SubmitInsert(t)
        PROVE  origin' \in [ApprovalIds -> {0} \cup Objects]
    <3>1. clerk[t].case \in Objects
      BY <1>0 DEF Clerks
    <3> QED
      BY <2>0, <2>1, <3>1 DEF SubmitInsert
  <2>2. ASSUME NEW t \in Threads, CreateStep(t)
        PROVE  origin' \in [ApprovalIds -> {0} \cup Objects]
    BY <2>0, <2>2 DEF CreateStep
  <2>3. ASSUME NEW t \in Threads, SubmitStep(t)
        PROVE  SubmitInsert(t) \/ origin' = origin
    BY <2>3 DEF SubmitStep, SubmitFind, SubmitMark, SubmitReuse, SubmitNew, SubmitGenerate, SubmitLink
  <2> QED
    BY <2>0, <2>1, <2>2, <2>3 DEF ErpNext, QueueStep, DecisionStep, WriteBack
<1> QED
  BY <1>0, <1>6, <1>7, <1>8

LEMMA ErpTypeInit == ErpInit => ErpTypeIInv
<1> SUFFICES ASSUME ErpInit PROVE ErpTypeIInv
  OBVIOUS
<1>1. Resting \in Clerks
  BY SimulationBounds DEF Resting, Clerks, Objects, LinkedSims
<1>2. SimIInv /\ SimTypeOK /\ ApprovalTypeOK
  BY SimInitSound, ApprovalTypeInit DEF ErpInit, SimIInv
<1> QED
  BY <1>1, <1>2 DEF ErpInit, ErpTypeIInv, ErpTypeOK, Clerks

LEMMA ErpTypeStep == ErpTypeIInv /\ [ErpNext]_erpVars => ErpTypeIInv'
<1> SUFFICES ASSUME ErpTypeIInv, [ErpNext]_erpVars PROVE ErpTypeIInv'
  OBVIOUS
<1>1. CASE ErpNext
  <2>1. SimIInv'
    BY <1>1, QueueSide, SimStepSound, MarksKeepSound DEF ErpTypeIInv
  <2>2. ApprovalTypeOK'
    BY <1>1, StoreSide, ApprovalTypeStep DEF ErpTypeIInv, ErpTypeOK
  <2> QED
    BY <1>1, <2>1, <2>2, ClerkStep DEF ErpTypeIInv, ErpTypeOK, SimIInv, Clerks
<1>2. CASE UNCHANGED erpVars
  <2>1. SimIInv' /\ ApprovalTypeOK'
    BY <1>2, SimStepSound, ApprovalTypeStep DEF ErpTypeIInv, ErpTypeOK, erpVars
  <2> QED
    BY <1>2, <2>1 DEF ErpTypeIInv, ErpTypeOK, erpVars, SimIInv
<1> QED
  BY <1>1, <1>2

(* Every reachable state of the joined queue is well typed; in particular  *)
(* submit-approval-request only ever looks for the number of a case that   *)
(* an approval can name.                                                   *)
THEOREM ErpTypeCorrect == ErpSpec => []ErpTypeOK
<1>1. ErpTypeIInv => ErpTypeOK
  BY DEF ErpTypeIInv
<1> QED
  BY <1>1, ErpTypeInit, ErpTypeStep, PTL DEF ErpSpec

(* Seen from the store, the joined queue is nothing but the store: every   *)
(* property above of ApprovalSpec holds with _process_erp_action and       *)
(* mark-writeback-completed acting on the cases as well.                   *)
THEOREM JoinedStoreIsTheStore == ErpSpec => ApprovalSpec
<1>1. ErpTypeIInv /\ [ErpNext]_erpVars => [ApprovalNext]_approvalVars
  BY StoreSide DEF erpVars
<1>2. ErpInit => ApprovalInit
  BY DEF ErpInit
<1> QED
  BY <1>1, <1>2, ErpTypeInit, ErpTypeStep, PTL DEF ErpSpec, ApprovalSpec

(* With one request and one thread at a time the joined store implements   *)
(* the status machine, and no submit replaces a stored task.               *)
THEOREM JoinedStoreImplementsMachine ==
  ASSUME OneRequest, OneThread
  PROVE  ErpSpec => ImplementsMachine /\ NoTaskReplaced
<1>1. ErpSpec => ApprovalSpec
  BY JoinedStoreIsTheStore
<1>2. ApprovalSpec => ImplementsMachine
  BY SerialStoreImplementsMachine
<1>3. ApprovalSpec => NoTaskReplaced
  BY SerialCreatesReplaceNothing
<1> QED
  BY <1>1, <1>2, <1>3

----------------------------------------------------------------------------
(* Any number of threads: what the queue promises, it promises in the ERP. *)

LEMMA MarksKeepHanded ==
  ASSUME HandedIInv, Marks
  PROVE  HandedIInv'
<1>1. SimIInv'
  BY MarksKeepSound DEF HandedIInv
<1>2. ASSUME NEW o \in Objects
      PROVE  /\ IsPending(o)' <=> IsPending(o)
             /\ cases'[o].handed = cases[o].handed
             /\ Claimants(o)' = Claimants(o)
  BY DEF Marks, IsPending, Claimants
<1> QED
  BY <1>1, <1>2 DEF HandedIInv

LEMMA JoinedHandedStep ==
  ErpTypeIInv /\ HandedIInv /\ [ErpNext]_erpVars => HandedIInv'
<1> SUFFICES ASSUME ErpTypeIInv, HandedIInv, [ErpNext]_erpVars PROVE HandedIInv'
  OBVIOUS
<1>1. CASE ErpNext
  BY <1>1, QueueSide, HandedStep, MarksKeepHanded
<1>2. CASE UNCHANGED erpVars
  BY <1>2, HandedStep DEF erpVars
<1> QED
  BY <1>1, <1>2

(* A case is handed to no more callers than there are threads, whatever    *)
(* the approval handlers write to it between a look at its status and the  *)
(* claim.                                                                  *)
THEOREM JoinedHandOutsBounded == ErpSpec => []HandOutsBoundedByThreads
<1>1. ErpInit => HandedIInv
  BY HandedInit DEF ErpInit
<1> QED
  BY <1>1, HandedIsBounded, JoinedHandedStep, ErpTypeInit, ErpTypeStep, PTL DEF ErpSpec

(* No thread closes a case that nobody claimed: a submitted approval makes *)
(* a pending case ready for the compatibility path of complete, and that   *)
(* path still claims it first; the write-back of an outcome closes none.   *)
THEOREM JoinedNeverClosedUnclaimed == ErpSpec => NeverSkipsInProgress
<1>1. ErpTypeIInv /\ [ErpNext]_erpVars
      => [\A o \in Objects :
            IsPending(o) => cases'[o].status \in {"pending", "in_progress"}]_simVars
  <2> SUFFICES ASSUME ErpTypeIInv, [ErpNext]_erpVars, NEW o \in Objects, IsPending(o)
               PROVE  UNCHANGED simVars \/ cases'[o].status \in {"pending", "in_progress"}
    OBVIOUS
  <2>1. CASE SimNext
    BY <2>1, PendingIsNotClosed DEF ErpTypeIInv
  <2>2. CASE Marks
    BY <2>2 DEF Marks, IsPending
  <2>3. CASE UNCHANGED erpVars
    BY <2>3 DEF erpVars
  <2> QED
    BY <2>1, <2>2, <2>3, QueueSide
<1> QED
  BY <1>1, ErpTypeInit, ErpTypeStep, PTL DEF ErpSpec, NeverSkipsInProgress

(* A queue handler that a reset overtook leaves the new list alone, also   *)
(* when submits and write-backs come between its steps.                    *)
THEOREM JoinedResetIsolates == ErpSpec => ResetIsolation
<1>1. ErpTypeIInv /\ [ErpNext]_erpVars
      => [\A t \in Threads : thread[t].pc # "idle" /\ thread[t].gen # generation
                             /\ thread'[t] # thread[t]
            => /\ queue' = queue
               /\ \A o \in Queued : cases'[o] = cases[o]]_simVars
  <2> SUFFICES ASSUME ErpTypeIInv, [ErpNext]_erpVars, NEW t \in Threads,
                      thread[t].pc # "idle", thread[t].gen # generation,
                      thread'[t] # thread[t]
               PROVE  queue' = queue /\ \A o \in Queued : cases'[o] = cases[o]
    OBVIOUS
  <2>1. SimNext
    BY QueueSide DEF Marks, erpVars, simVars
  <2> QED
    BY <2>1, OvertakenStaysApart DEF ErpTypeIInv
<1> QED
  BY <1>1, ErpTypeInit, ErpTypeStep, PTL DEF ErpSpec, ResetIsolation

----------------------------------------------------------------------------
(* One thread: a closed case stays closed, marks or no marks.              *)

LEMMA MarksKeepSerial ==
  ASSUME SerialIInv, Marks
  PROVE  SerialIInv'
<1>1. SimIInv' /\ SimIInv
  BY MarksKeepSound DEF SerialIInv
<1>2. \A t \in Threads : thread[t].case \in Objects
  BY <1>1 DEF SimIInv, SimTypeOK, Handler
<1> QED
  BY <1>1, <1>2 DEF SerialIInv, Marks, IsPending

(* submit-approval-request and the write-back of an outcome write a case   *)
(* whatever its status is, but not its status: with one thread a closed    *)
(* case keeps it.                                                          *)
THEOREM JoinedTerminalIsFinal ==
  ASSUME OneThread
  PROVE  ErpSpec => TerminalIsFinal
<1> DEFINE Inv == ErpTypeIInv /\ SerialIInv
<1>1. ErpInit => Inv
  BY ErpTypeInit, SerialInit DEF ErpInit
<1>2. Inv /\ [ErpNext]_erpVars => Inv'
  <2> SUFFICES ASSUME Inv, [ErpNext]_erpVars PROVE SerialIInv'
    BY ErpTypeStep
  <2>1. CASE ErpNext
    BY <2>1, QueueSide, MarksKeepSerial, SerialStep
  <2>2. CASE UNCHANGED erpVars
    BY <2>2, SerialStep DEF erpVars
  <2> QED
    BY <2>1, <2>2
<1>3. Inv /\ [ErpNext]_erpVars
      => [\A o \in Objects : cases[o].status \in Outcomes
                             => cases'[o].status = cases[o].status]_simVars
  <2> SUFFICES ASSUME Inv, [ErpNext]_erpVars, NEW o \in Objects, cases[o].status \in Outcomes
               PROVE  cases'[o].status = cases[o].status
    OBVIOUS
  <2>1. CASE SimNext
    BY <2>1, SerialKeepsClosed
  <2>2. CASE Marks
    BY <2>2 DEF Marks
  <2>3. CASE UNCHANGED erpVars
    BY <2>3 DEF erpVars, simVars
  <2> QED
    BY <2>1, <2>2, <2>3, QueueSide
<1> QED
  BY <1>1, <1>2, <1>3, PTL DEF ErpSpec, TerminalIsFinal

----------------------------------------------------------------------------
(* One thread: names lead home.                                            *)

LEMMA MarksKeepExact ==
  ASSUME ExactIInv, Marks
  PROVE  ExactIInv'
<1>1. SimIInv'
  BY MarksKeepSound DEF ExactIInv
<1>2. \A k \in DOMAIN queue' : cases'[queue'[k]].sim = k
  BY QueuedAreMade, ExactKept DEF Marks, ExactIInv, SimIInv
<1> QED
  BY <1>1, <1>2 DEF ExactIInv, Marks

LEMMA MarksKeepNamed ==
  ASSUME NamedInv, Marks
  PROVE  NamedInv'
<1>1. SimIInv'
  BY MarksKeepSound DEF NamedInv
<1>2. \A t \in Threads : thread[t].case \in Objects /\ thread[t].named \in Objects
  BY DEF NamedInv, SimIInv, SimTypeOK, Handler
<1>3. \A o \in Objects : cases'[o].sim = cases[o].sim /\ cases'[o].po = cases[o].po
  BY DEF Marks
<1> QED
  BY <1>1, <1>2, <1>3 DEF NamedInv, Marks

(* With one thread a complete call closes the case it names, unless a      *)
(* client chose the order number of one of the two, also when submits and  *)
(* write-backs come between its search and its last step.                  *)
THEOREM JoinedClosesTheNamedCase ==
  ASSUME OneThread
  PROVE  ErpSpec => []ClosesTheNamedCase
<1> DEFINE Inv == ErpTypeIInv /\ ExactIInv /\ NamedInv
<1>1. ErpInit => Inv
  BY ErpTypeInit, ExactInit, SimInitSound DEF ErpInit, SimInit, NamedInv, Idle
<1>2. Inv /\ [ErpNext]_erpVars => Inv'
  <2> SUFFICES ASSUME Inv, [ErpNext]_erpVars PROVE ExactIInv' /\ NamedInv'
    BY ErpTypeStep
  <2>1. SimIInv
    BY DEF ErpTypeIInv
  <2>2. CASE ErpNext
    BY <2>1, <2>2, QueueSide, MarksKeepExact, MarksKeepNamed, ExactStep, NamedStep
  <2>3. CASE UNCHANGED erpVars
    BY <2>1, <2>3, SimStepSound DEF erpVars, simVars, ExactIInv, NamedInv
  <2> QED
    BY <2>2, <2>3
<1> QED
  BY <1>1, <1>2, ExactClosesNamed, PTL DEF ErpSpec

(* An approval id leads home when the task stored under it was made for    *)
(* the case's number.                                                      *)
LeadsHome(o, i) == i \in Stored /\ tasks[i].sim = cases[o].sim

(* What a clerk has in hand at each step of submit-approval-request.       *)
ClerkHome(t) ==
  LET c == clerk[t] IN
  /\ c.pc # "rest" => c.case <= made /\ c.sim = cases[c.case].sim
  /\ c.pc = "insert" => creating[t].id # 0 /\ creating[t].sim = c.sim
  /\ c.pc = "link" => LeadsHome(c.case, c.id)

LinksHome == \A o \in Objects : link[o] # 0 => o <= made /\ LeadsHome(o, link[o])

HomeIInv ==
  /\ ErpTypeIInv
  /\ FreshIInv
  /\ ExactIInv
  /\ LinksHome
  /\ \A t \in Threads : ClerkHome(t)

(* With one creating thread a stored task stays, and stays with its case.  *)
LEMMA TasksStay ==
  ASSUME FreshIInv, [ApprovalNext]_approvalVars, NEW i \in Stored
  PROVE  /\ i \in Stored'
         /\ tasks'[i].sim = tasks[i].sim /\ tasks'[i].serial = tasks[i].serial
<1> DEFINE Stays == /\ i \in Stored'
                    /\ tasks'[i].sim = tasks[i].sim /\ tasks'[i].serial = tasks[i].serial
<1>0. /\ tasks \in [ApprovalIds -> Task] /\ i \in ApprovalIds /\ DenseIInv
      /\ creating \in [Threads -> [id : {0} \cup ApprovalIds, sim : LinkedSims]]
  BY DEF FreshIInv, DenseIInv, ApprovalTypeOK, Stored
<1>1. ASSUME NEW t \in Threads, InsertTask(t)
      PROVE  tasks'[i] = tasks[i]
  <2>1. creating[t].id \in ApprovalIds /\ creating[t].id # i
    BY <1>0, <1>1 DEF InsertTask, StoreTask, FreshIInv
  <2> QED
    BY <1>0, <1>1, <2>1 DEF InsertTask, StoreTask
<1>2. ASSUME NEW r \in Requests,
             ApplyDecision(r) \/ MarkWritebackStarted(r) \/ MarkWritebackCompleted(r)
      PROVE  Stays
  <2>1. WriteTask(r) /\ Stored' = Stored
    BY <1>0, <1>2, WritersWrite, WriteKeepsStored
  <2> QED
    BY <1>0, <2>1 DEF WriteTask, Task
<1>3. ASSUME tasks' = tasks
      PROVE  Stays
  BY <1>3 DEF Stored
<1>4. ASSUME tasks'[i] = tasks[i]
      PROVE  Stays
  BY <1>4 DEF Stored
<1> QED
  BY <1>1, <1>2, <1>3, <1>4 DEF ApprovalNext, GenerateId, CheckTask, AbandonDecision, approvalVars

(* What every step leaves intact for those who hold names.                 *)
LEMMA NamesStay ==
  ASSUME HomeIInv, ErpNext
  PROVE  /\ made \in Nat /\ made' \in Nat /\ made' >= made
         /\ \A o \in 1..made : cases'[o].sim = cases[o].sim
         /\ \A o \in 1..made, i \in ApprovalIds : LeadsHome(o, i) => LeadsHome(o, i)'
<1>1. ErpTypeIInv' /\ SimIInv /\ SimIInv'
  BY ErpTypeStep DEF HomeIInv, ErpTypeIInv
<1>2. made \in Nat /\ made' \in Nat
  BY <1>1, SimulationBounds DEF SimIInv, SimTypeOK
<1>3. 1..made \subseteq Objects
  BY <1>1, QueuedAreMade DEF SimIInv
<1>4. made' >= made /\ \A o \in 1..made : cases'[o].sim = cases[o].sim
  <2>1. CASE SimNext
    <3>1. 1..made \subseteq 1..made' /\ \A o \in 1..made : cases'[o].sim = cases[o].sim
      BY <1>1, <2>1, IdsStay
    <3>2. made >= 1 => made \in 1..made'
      BY <1>2, <3>1
    <3> QED
      BY <1>2, <3>1, <3>2
  <2>2. CASE Marks
    BY <1>2, <1>3, <2>2 DEF Marks
  <2> QED
    BY <2>1, <2>2, QueueSide DEF HomeIInv
<1>5. \A i \in Stored : i \in Stored' /\ tasks'[i].sim = tasks[i].sim
  BY StoreSide, TasksStay DEF HomeIInv
<1> QED
  BY <1>2, <1>4, <1>5 DEF LeadsHome

LEMMA LinksStayHome ==
  ASSUME HomeIInv, ErpNext
  PROVE  LinksHome'
<1>1. /\ made \in Nat /\ made' \in Nat /\ made' >= made
      /\ \A o \in 1..made, i \in ApprovalIds : LeadsHome(o, i) => LeadsHome(o, i)'
  BY NamesStay
<1>2. ErpTypeOK /\ \A o \in Objects : o \in Nat /\ o >= 1
  BY SimulationBounds DEF HomeIInv, ErpTypeIInv, Objects
<1>3. ASSUME NEW o \in Objects, NEW i, i = link[o], i # 0
      PROVE  o <= made' /\ LeadsHome(o, i)'
  <2>1. o <= made /\ LeadsHome(o, i)
    BY <1>3 DEF HomeIInv, LinksHome
  <2>2. o \in 1..made /\ i \in ApprovalIds
    BY <1>1, <1>2, <1>3, <2>1 DEF ErpTypeOK
  <2> QED
    BY <1>1, <1>2, <2>1, <2>2
<1>4. (\E t \in Threads : SubmitLink(t)) \/ link' = link
  BY DEF ErpNext, QueueStep, CreateStep, SubmitStep, SubmitFind, SubmitMark, SubmitReuse, SubmitNew,
         SubmitGenerate, SubmitInsert, DecisionStep, WriteBack
<1>5. ASSUME NEW o \in Objects, NEW i, i = link'[o], i # 0
      PROVE  o <= made' /\ LeadsHome(o, i)'
  <2>1. CASE link' = link
    BY <1>3, <1>5, <2>1
  <2>2. ASSUME NEW t \in Threads, SubmitLink(t)
        PROVE  o <= made' /\ LeadsHome(o, i)'
    <3>1. CASE o = clerk[t].case
      <4>1. i = clerk[t].id /\ UNCHANGED <<made, tasks, cases>>
        BY <1>2, <1>5, <2>2, <3>1 DEF SubmitLink, simVars, approvalVars, ErpTypeOK
      <4>2. o <= made /\ LeadsHome(o, i)
        BY <2>2, <3>1, <4>1 DEF SubmitLink, HomeIInv, ClerkHome
      <4> QED
        BY <4>1, <4>2 DEF LeadsHome, Stored
    <3>2. CASE o # clerk[t].case
      <4>1. i = link[o]
        BY <1>2, <1>5, <2>2, <3>2 DEF SubmitLink, ErpTypeOK
      <4> QED
        BY <1>3, <1>5, <4>1
    <3> QED
      BY <3>1, <3>2
  <2> QED
    BY <1>4, <2>1, <2>2
<1>6. \A o \in Objects : link'[o] # 0 => o <= made' /\ link'[o] \in Stored' /\ tasks'[link'[o]].sim = cases'[o].sim
  <2> SUFFICES ASSUME NEW o \in Objects, link'[o] # 0
               PROVE  o <= made' /\ link'[o] \in Stored' /\ tasks'[link'[o]].sim = cases'[o].sim
    OBVIOUS
  <2>1. PICK i : i = link'[o]
    OBVIOUS
  <2>2. o <= made' /\ LeadsHome(o, i)'
    BY <1>5, <2>1
  <2> QED
    BY <2>1, <2>2 DEF LeadsHome
<1> QED
  BY <1>6 DEF LinksHome, LeadsHome, Objects

(* Each step of submit-approval-request hands the next one a name that     *)
(* leads home.                                                             *)
LEMMA ClerkMovesHome ==
  ASSUME HomeIInv, ErpNext, NEW t \in Threads, SubmitStep(t)
  PROVE  ClerkHome(t)'
<1> DEFINE c == clerk[t]
<1>1. /\ clerk \in [Threads -> Clerks]
      /\ creating \in [Threads -> [id : {0} \cup ApprovalIds, sim : LinkedSims]]
      /\ cases \in [Objects -> Case] /\ tasks \in [ApprovalIds -> Task]
      /\ SimIInv /\ ClerkHome(t)
      /\ \A o \in Objects : o \in Nat /\ o >= 1
  BY SimulationBounds DEF HomeIInv, ErpTypeIInv, ErpTypeOK, SimTypeOK, ApprovalTypeOK, Clerks, Objects
<1>2. /\ made \in Nat /\ made' \in Nat /\ made' >= made
      /\ \A o \in 1..made : cases'[o].sim = cases[o].sim
      /\ \A o \in 1..made, i \in ApprovalIds : LeadsHome(o, i) => LeadsHome(o, i)'
  BY NamesStay
<1>3. ASSUME NEW o \in Objects, SubmitFind(t, o)
      PROVE  ClerkHome(t)'
  <2>1. clerk'[t].pc = "mark" /\ clerk'[t].case = o /\ clerk'[t].sim = cases[o].sim
    BY <1>1, <1>3 DEF SubmitFind
  <2>2. o <= made /\ cases' = cases /\ made' = made
    BY <1>1, <1>3, QueuedAreMade DEF SubmitFind, simVars, SimIInv
  <2> QED
    BY <2>1, <2>2 DEF ClerkHome
<1>4. ASSUME NEW pc, clerk' = [clerk EXCEPT ![t].pc = pc], c.pc # "rest", pc \notin {"link", "insert"}
      PROVE  ClerkHome(t)'
  <2>1. clerk'[t].pc = pc /\ clerk'[t].case = c.case /\ clerk'[t].sim = c.sim
    BY <1>1, <1>4 DEF Clerks
  <2>2. c.case \in 1..made /\ c.sim = cases[c.case].sim
    BY <1>1, <1>2, <1>4 DEF ClerkHome, Clerks
  <2>3. PICK o \in 1..made : o = c.case
    BY <2>2
  <2>4. c.sim = cases'[o].sim
    BY <1>2, <2>2, <2>3
  <2> QED
    BY <1>2, <1>4, <2>1, <2>3, <2>4 DEF ClerkHome
<1>5. ASSUME SubmitReuse(t)
      PROVE  ClerkHome(t)'
  <2>1. PICK i \in ApprovalIds : /\ FirstActive(c.sim, i)
                                 /\ clerk' = [clerk EXCEPT ![t].pc = "link", ![t].id = i]
    BY <1>5 DEF SubmitReuse
  <2>2. /\ clerk'[t].pc = "link" /\ clerk'[t].case = c.case /\ clerk'[t].sim = c.sim
        /\ clerk'[t].id = i
    BY <1>1, <2>1 DEF Clerks
  <2>3. c.case <= made /\ c.sim = cases[c.case].sim
    BY <1>1, <1>5 DEF ClerkHome, SubmitReuse
  <2>4. i \in Stored /\ tasks[i].sim = c.sim
    BY <2>1 DEF FirstActive, ActiveFor, ActiveStatuses, Stored, Pending, Approved, InProgress,
                Completed, Absent
  <2>5. UNCHANGED <<made, cases, tasks>>
    BY <1>5 DEF SubmitReuse, simVars, approvalVars
  <2> QED
    BY <2>2, <2>3, <2>4, <2>5 DEF ClerkHome, LeadsHome, Stored
<1>6. ASSUME SubmitGenerate(t)
      PROVE  ClerkHome(t)'
  <2>1. clerk'[t].pc = "insert" /\ clerk'[t].case = c.case /\ clerk'[t].sim = c.sim
    BY <1>1, <1>6 DEF SubmitGenerate, Advance, Clerks
  <2>2. PICK n \in ApprovalIds : n = NextApprovalId
    BY <1>6 DEF SubmitGenerate, GenerateId, CanCreate
  <2>3. creating'[t].id = n /\ creating'[t].sim = c.sim /\ n # 0
    BY <1>1, <1>6, <2>2 DEF SubmitGenerate, GenerateId, ApprovalIds
  <2>4. c.case <= made /\ c.sim = cases[c.case].sim /\ cases' = cases /\ made' = made
    BY <1>1, <1>6 DEF ClerkHome, SubmitGenerate, simVars
  <2> QED
    BY <2>1, <2>3, <2>4 DEF ClerkHome
<1>7. ASSUME SubmitInsert(t)
      PROVE  ClerkHome(t)'
  <2>1. PICK i \in ApprovalIds, sim \in LinkedSims : i = creating[t].id /\ sim = creating[t].sim
    BY <1>1, <1>7 DEF SubmitInsert, StoreTask
  <2>2. clerk' = [clerk EXCEPT ![t].pc = "link", ![t].id = i]
    BY <1>7, <2>1 DEF SubmitInsert
  <2>3. /\ clerk'[t].pc = "link" /\ clerk'[t].case = c.case /\ clerk'[t].sim = c.sim
        /\ clerk'[t].id = i
    BY <1>1, <2>2 DEF Clerks
  <2>4. c.case <= made /\ c.sim = cases[c.case].sim /\ sim = c.sim
    BY <1>1, <1>7, <2>1 DEF ClerkHome, SubmitInsert
  <2>5. tasks'[i] = NewTask(created + 1, sim) /\ cases' = cases /\ made' = made
    BY <1>1, <1>7, <2>1 DEF SubmitInsert, StoreTask, simVars
  <2>6. tasks'[i].status # Absent /\ tasks'[i].sim = c.sim
    BY <2>4, <2>5 DEF NewTask, Pending, Absent
  <2> QED
    BY <2>3, <2>4, <2>5, <2>6 DEF ClerkHome, LeadsHome, Stored
<1>8. ASSUME SubmitLink(t)
      PROVE  ClerkHome(t)'
  <2>1. clerk'[t].pc = "rest"
    BY <1>1, <1>8 DEF SubmitLink, Resting
  <2> QED
    BY <2>1 DEF ClerkHome
<1>9. ASSUME SubmitMark(t) \/ SubmitNew(t)
      PROVE  ClerkHome(t)'
  BY <1>4, <1>9 DEF SubmitMark, SubmitNew, Advance
<1> QED
  BY <1>3, <1>5, <1>6, <1>7, <1>8, <1>9 DEF SubmitStep

(* The steps of others leave a clerk with what it has.                     *)
LEMMA ClerkStaysHome ==
  ASSUME HomeIInv, ErpNext, NEW t \in Threads, clerk'[t] = clerk[t],
         clerk[t].pc = "insert" => creating'[t] = creating[t]
  PROVE  ClerkHome(t)'
<1> DEFINE c == clerk[t]
<1>1. c \in Clerks /\ ClerkHome(t) /\ \A o \in Objects : o \in Nat /\ o >= 1
  BY SimulationBounds DEF HomeIInv, ErpTypeIInv, ErpTypeOK, Clerks, Objects
<1>2. /\ made \in Nat /\ made' \in Nat /\ made' >= made
      /\ \A o \in 1..made : cases'[o].sim = cases[o].sim
      /\ \A o \in 1..made, i \in ApprovalIds : LeadsHome(o, i) => LeadsHome(o, i)'
  BY NamesStay
<1>3. CASE c.pc = "rest"
  BY <1>3 DEF ClerkHome
<1>4. CASE c.pc # "rest"
  <2>1. PICK o \in 1..made, i \in {0} \cup ApprovalIds : o = c.case /\ i = c.id
    <3>1. c.case \in Objects /\ c.id \in {0} \cup ApprovalIds
      BY <1>1 DEF Clerks
    <3>2. c.case <= made
      BY <1>1, <1>4 DEF ClerkHome
    <3>3. c.case \in 1..made
      BY <1>1, <1>2, <3>1, <3>2
    <3> QED
      BY <3>1, <3>3
  <2>2. c.sim = cases'[o].sim /\ o <= made'
    BY <1>1, <1>2, <1>4, <2>1 DEF ClerkHome
  <2>3. c.pc = "link" => i \in ApprovalIds /\ LeadsHome(o, i)
    BY <1>1, <2>1 DEF ClerkHome, LeadsHome, Stored
  <2>4. c.pc = "link" => LeadsHome(o, i)'
    BY <1>2, <2>3
  <2> QED
    BY <1>1, <2>1, <2>2, <2>4 DEF ClerkHome, LeadsHome
<1> QED
  BY <1>3, <1>4

LEMMA HomeInit == ErpInit => HomeIInv
<1> SUFFICES ASSUME ErpInit PROVE HomeIInv
  OBVIOUS
<1>1. ErpTypeIInv /\ FreshIInv /\ ExactIInv
  BY ErpTypeInit, FreshInit, ExactInit DEF ErpInit
<1>2. LinksHome /\ \A t \in Threads : ClerkHome(t)
  BY DEF ErpInit, LinksHome, ClerkHome, Resting
<1> QED
  BY <1>1, <1>2 DEF HomeIInv

LEMMA HomeStep ==
  ASSUME OneThread
  PROVE  HomeIInv /\ [ErpNext]_erpVars => HomeIInv'
<1> SUFFICES ASSUME HomeIInv, [ErpNext]_erpVars PROVE HomeIInv'
  OBVIOUS
<1>1. ErpTypeIInv /\ ErpTypeIInv'
  BY ErpTypeStep DEF HomeIInv
<1>2. CASE ErpNext
  <2>1. FreshIInv'
    BY <1>1, <1>2, StoreSide, FreshStep DEF HomeIInv
  <2>2. ExactIInv'
    BY <1>1, <1>2, QueueSide, ExactStep, MarksKeepExact DEF HomeIInv
  <2>3. LinksHome'
    BY <1>2, LinksStayHome
  <2>4. ASSUME NEW t \in Threads
        PROVE  ClerkHome(t)'
    <3>1. CASE SubmitStep(t)
      BY <1>2, <3>1, ClerkMovesHome
    <3>2. CASE CreateStep(t)
      <4>1. clerk'[t] = clerk[t] /\ clerk[t].pc = "rest"
        BY <3>2 DEF CreateStep, Resting
      <4> QED
        BY <1>2, <4>1, ClerkStaysHome
    <3>3. CASE UNCHANGED <<clerk, creating>>
      BY <1>2, <3>3, ClerkStaysHome
    <3>4. SubmitStep(t) \/ CreateStep(t) \/ UNCHANGED <<clerk, creating>>
      BY <1>2 DEF OneThread, ErpNext, QueueStep, DecisionStep, WriteBack, CheckTask, ApplyDecision,
         MarkWritebackStarted, MarkWritebackCompleted, AbandonDecision, approvalVars
    <3> QED
      BY <3>1, <3>2, <3>3, <3>4
  <2> QED
    BY <1>1, <2>1, <2>2, <2>3, <2>4 DEF HomeIInv
<1>3. CASE UNCHANGED erpVars
  <2>1. FreshIInv'
    BY <1>3, FreshStep DEF HomeIInv, erpVars
  <2>2. UNCHANGED <<cases, made, queue, generation, thread, tasks, creating, link, clerk>>
    BY <1>3 DEF erpVars, simVars, approvalVars
  <2> QED
    BY <1>1, <2>1, <2>2 DEF HomeIInv, ErpTypeIInv, ExactIInv, LinksHome, ClerkHome, LeadsHome, Stored
<1> QED
  BY <1>2, <1>3

(* A submit-made task keeps the number of the case it was made for, and a  *)
(* request that waits for its body holds the task that is still stored.    *)
HeldTask(r) ==
  LET d == deciding[r] IN
  d.op \in Operations => /\ d.id \in Stored
                         /\ tasks[d.id].serial = d.serial
                         /\ tasks[d.id].sim = d.sim

OriginIInv ==
  /\ HomeIInv
  /\ \A i \in ApprovalIds : origin[i] # 0 => origin[i] <= made /\ LeadsHome(origin[i], i)
  /\ \A r \in Requests : HeldTask(r)

LEMMA NotDecidingIsNoOperation == NotDeciding.op \notin Operations
  BY DEF NotDeciding, Operations, Absent, Approved, Rejected, InProgress, Completed

LEMMA OriginInit == ErpInit => OriginIInv
<1> SUFFICES ASSUME ErpInit PROVE OriginIInv
  OBVIOUS
<1>1. \A r \in Requests : HeldTask(r)
  BY NotDecidingIsNoOperation DEF ErpInit, ApprovalInit, HeldTask
<1> QED
  BY <1>1, HomeInit DEF ErpInit, OriginIInv

LEMMA HeldTaskStep ==
  ASSUME OriginIInv, [ApprovalNext]_approvalVars, NEW r \in Requests
  PROVE  HeldTask(r)'
<1> DEFINE d == deciding[r]
<1>0. /\ FreshIInv
      /\ tasks \in [ApprovalIds -> Task]
      /\ deciding \in [Requests -> [op : Operations \cup {Absent},
                                     id : ApprovalIds, serial : Nat, sim : LinkedSims]]
  BY DEF OriginIInv, HomeIInv, FreshIInv, DenseIInv, ApprovalTypeOK
<1>1. ASSUME deciding'[r] = d
      PROVE  HeldTask(r)'
  <2> SUFFICES ASSUME d.op \in Operations
               PROVE  /\ d.id \in Stored'
                      /\ tasks'[d.id].serial = d.serial
                      /\ tasks'[d.id].sim = d.sim
    BY <1>1 DEF HeldTask
  <2>1. PICK i \in Stored : i = d.id
    BY DEF OriginIInv, HeldTask
  <2>2. tasks[i].serial = d.serial /\ tasks[i].sim = d.sim
    BY <2>1 DEF OriginIInv, HeldTask
  <2> QED
    BY <1>0, <2>1, <2>2, TasksStay
<1>2. ASSUME deciding'[r] = NotDeciding
      PROVE  HeldTask(r)'
  BY <1>2, NotDecidingIsNoOperation DEF HeldTask
<1>3. ASSUME NEW op \in Operations, NEW id \in ApprovalIds, CheckTask(r, op, id)
      PROVE  HeldTask(r)'
  <2>1. deciding'[r] = [op |-> op, id |-> id, serial |-> tasks[id].serial, sim |-> tasks[id].sim]
    BY <1>0, <1>3 DEF CheckTask
  <2>2. tasks' = tasks /\ tasks[id].status # Absent
    BY <1>3 DEF CheckTask, CheckedStatuses, Operations, Decisions, Pending, Absent, Approved,
       Rejected, InProgress, Completed
  <2> QED
    BY <2>1, <2>2 DEF HeldTask, Stored
<1>4. deciding'[r] = d \/ deciding'[r] = NotDeciding
      \/ \E op \in Operations, id \in ApprovalIds : CheckTask(r, op, id)
  BY <1>0 DEF ApprovalNext, GenerateId, InsertTask, CheckTask, ApplyDecision, MarkWritebackStarted,
     MarkWritebackCompleted, WriteTask, AbandonDecision, approvalVars
<1> QED
  BY <1>1, <1>2, <1>3, <1>4

LEMMA OriginStep ==
  ASSUME OneThread
  PROVE  OriginIInv /\ [ErpNext]_erpVars => OriginIInv'
<1> SUFFICES ASSUME OriginIInv, [ErpNext]_erpVars PROVE OriginIInv'
  OBVIOUS
<1>0. HomeIInv /\ HomeIInv'
  BY HomeStep DEF OriginIInv
<1>1. \A r \in Requests : HeldTask(r)'
  <2>1. [ApprovalNext]_approvalVars
    BY <1>0, StoreSide DEF HomeIInv, erpVars
  <2> QED
    BY <2>1, HeldTaskStep
<1>2. CASE ErpNext
  <2>0. /\ made \in Nat /\ made' \in Nat /\ made' >= made
        /\ \A o \in 1..made, i \in ApprovalIds : LeadsHome(o, i) => LeadsHome(o, i)'
    BY <1>0, <1>2, NamesStay
  <2>1. /\ origin \in [ApprovalIds -> {0} \cup Objects]
        /\ clerk \in [Threads -> Clerks]
        /\ creating \in [Threads -> [id : {0} \cup ApprovalIds, sim : LinkedSims]]
        /\ tasks \in [ApprovalIds -> Task]
        /\ \A o \in Objects : o \in Nat /\ o >= 1
    BY <1>0, SimulationBounds
       DEF HomeIInv, ErpTypeIInv, ErpTypeOK, ApprovalTypeOK, Clerks, Objects
  <2>2. ASSUME NEW i \in ApprovalIds, NEW o, o = origin'[i], o # 0
        PROVE  o <= made' /\ LeadsHome(o, i)'
    <3>1. CASE o = origin[i]
      <4>1. o \in 1..made /\ LeadsHome(o, i)
        BY <2>0, <2>1, <2>2, <3>1 DEF OriginIInv
      <4> QED
        BY <2>0, <2>1, <4>1
    <3>2. ASSUME NEW t \in Threads, SubmitInsert(t), o # origin[i]
          PROVE  o <= made' /\ LeadsHome(o, i)'
      <4>1. o = clerk[t].case /\ i = creating[t].id
        BY <2>1, <2>2, <3>2 DEF SubmitInsert
      <4>2. PICK sim \in LinkedSims : sim = creating[t].sim
        BY <2>1
      <4>3. o <= made /\ sim = cases[o].sim /\ made' = made /\ cases' = cases
        BY <1>0, <3>2, <4>1, <4>2 DEF SubmitInsert, HomeIInv, ClerkHome, simVars
      <4>4. tasks'[i] = NewTask(created + 1, sim)
        BY <2>1, <3>2, <4>1, <4>2 DEF SubmitInsert, StoreTask
      <4>5. tasks'[i].status # Absent /\ tasks'[i].sim = sim
        BY <4>4 DEF NewTask, Pending, Absent
      <4> QED
        BY <4>3, <4>5 DEF LeadsHome, Stored
    <3>3. ASSUME NEW t \in Threads, CreateStep(t)
          PROVE  o = origin[i]
      BY <2>1, <2>2, <3>3 DEF CreateStep
    <3>4. ASSUME NEW t \in Threads, SubmitStep(t)
          PROVE  SubmitInsert(t) \/ origin' = origin
      BY <3>4 DEF SubmitStep, SubmitFind, SubmitMark, SubmitReuse, SubmitNew, SubmitGenerate,
                  SubmitLink
    <3> QED
      BY <1>2, <2>2, <3>1, <3>2, <3>3, <3>4 DEF ErpNext, QueueStep, DecisionStep, WriteBack
  <2>3. ASSUME NEW i \in ApprovalIds, origin'[i] # 0
        PROVE  /\ origin'[i] <= made'
               /\ i \in Stored' /\ tasks'[i].sim = cases'[origin'[i]].sim
    <3>1. PICK o : o = origin'[i]
      OBVIOUS
    <3>2. o <= made' /\ LeadsHome(o, i)'
      BY <2>2, <2>3, <3>1
    <3> QED
      BY <3>1, <3>2 DEF LeadsHome
  <2> QED
    BY <1>0, <1>1, <2>3 DEF OriginIInv, LeadsHome
<1>3. CASE UNCHANGED erpVars
  <2>1. UNCHANGED <<origin, made, tasks, cases>>
    BY <1>3 DEF erpVars, simVars, approvalVars
  <2> QED
    BY <1>0, <1>1, <2>1 DEF OriginIInv, LeadsHome, Stored
<1> QED
  BY <1>2, <1>3

(* A number leads to one queued case at most.                              *)
LEMMA FoundIsOne ==
  ASSUME ExactIInv, NEW o \in Queued, NEW p \in Queued, cases[o].sim = cases[p].sim
  PROVE  o = p
<1>1. PICK j \in DOMAIN queue, k \in DOMAIN queue : queue[j] = o /\ queue[k] = p
  BY DEF Queued
<1>2. cases[o].sim = j /\ cases[p].sim = k
  BY <1>1 DEF ExactIInv
<1> QED
  BY <1>1, <1>2

(* With one thread mark-writeback-completed writes to the case that the    *)
(* task was submitted for, as long as that case is queued: a number leads  *)
(* to one case, no task takes another one's id, and the task that was      *)
(* looked up before the await is the one stored after it.                  *)
THEOREM SerialWritesBackHome ==
  ASSUME OneThread
  PROVE  ErpSpec => WritesBackHome
<1>1. OriginIInv => \A r \in Requests :
        FinishesWriteback(r) /\ origin[deciding[r].id] \in Queued
        => ReachedBy(r) = {origin[deciding[r].id]}
  <2> SUFFICES ASSUME OriginIInv, NEW r \in Requests, FinishesWriteback(r),
                      NEW o \in Queued, o = origin[deciding[r].id]
               PROVE  ReachedBy(r) = {o}
    OBVIOUS
  <2>0. ExactIInv /\ EveryCaseReachable /\ HeldTask(r)
    BY ExactIsReachable DEF OriginIInv, HomeIInv
  <2>1. PICK i \in Stored : i = deciding[r].id /\ tasks[i].sim = deciding[r].sim
    BY <2>0 DEF HeldTask, FinishesWriteback, Operations
  <2>2. i \in ApprovalIds /\ o # 0
    BY <2>0, QueuedAreMade DEF ExactIInv, SimIInv, Stored
  <2>3. deciding[r].sim = cases[o].sim
    BY <2>1, <2>2 DEF OriginIInv, LeadsHome
  <2>4. Finds(deciding[r].sim, o)
    BY <2>0, <2>3 DEF EveryCaseReachable
  <2>5. ASSUME NEW p \in Queued, Finds(deciding[r].sim, p)
        PROVE  p = o
    <3>1. cases[p].sim = deciding[r].sim
      BY <2>5 DEF Finds, IsFirst
    <3> QED
      BY <2>0, <2>3, <3>1, FoundIsOne
  <2> QED
    BY <2>4, <2>5 DEF ReachedBy
<1> QED
  BY <1>1, OriginInit, OriginStep, PTL DEF ErpSpec, WritesBackHome

----------------------------------------------------------------------------
(* One thread and one request: submitting again adds no second approval.   *)

(* Between the scan that found no active approval and the insert of a new  *)
(* one, none becomes active.                                               *)
SoleIInv ==
  /\ HomeIInv
  /\ OneRequestIInv
  /\ \A t \in Threads : clerk[t].pc \in {"create", "insert"}
                        => \A i \in ApprovalIds : ~ActiveFor(clerk[t].sim, i)

(* With one request in flight a handler writes a task that is active, so   *)
(* it brings no rejected one back.                                         *)
LEMMA WriteActivatesNone ==
  ASSUME OneRequestIInv, NEW r \in Requests, WriteTask(r), deciding[r].op \in Operations,
         NEW sim, NEW i \in ApprovalIds, ~ActiveFor(sim, i)
  PROVE  ~ActiveFor(sim, i)'
<1> DEFINE d == deciding[r]
<1>0. tasks \in [ApprovalIds -> Task]
  BY DEF OneRequestIInv, ApprovalTypeOK
<1>1. CASE i = d.id /\ tasks[i].serial = d.serial
  <2>1. tasks[i].status \in CheckedStatuses(d.op)
    BY <1>1 DEF OneRequestIInv, StillChecked
  <2>2. CheckedStatuses(d.op) \in {{Pending}, {Approved}, {Approved, InProgress}}
    BY DEF CheckedStatuses, Operations, Decisions, Approved, Rejected, InProgress, Completed
  <2>3. tasks[i].status \in ActiveStatuses
    BY <2>1, <2>2 DEF ActiveStatuses
  <2>4. tasks[i].sim # sim
    BY <2>3 DEF ActiveFor
  <2>5. tasks'[i].sim = tasks[i].sim
    BY <1>0 DEF WriteTask, Task
  <2> QED
    BY <2>4, <2>5 DEF ActiveFor
<1>2. CASE ~(i = d.id /\ tasks[i].serial = d.serial)
  <2>1. tasks'[i] = tasks[i]
    BY <1>0, <1>2 DEF WriteTask
  <2> QED
    BY <2>1 DEF ActiveFor
<1> QED
  BY <1>1, <1>2

LEMMA SoleStep ==
  ASSUME OneThread, OneRequest
  PROVE  SoleIInv /\ [ErpNext]_erpVars => SoleIInv'
<1> SUFFICES ASSUME SoleIInv, [ErpNext]_erpVars PROVE SoleIInv'
  OBVIOUS
<1>0. /\ HomeIInv' /\ OneRequestIInv' /\ ErpTypeIInv
      /\ clerk \in [Threads -> Clerks]
  <2>1. [ApprovalNext]_approvalVars
    BY StoreSide DEF SoleIInv, HomeIInv, erpVars
  <2> QED
    BY <2>1, HomeStep, OneRequestStep DEF SoleIInv, HomeIInv, ErpTypeIInv, ErpTypeOK, Clerks
<1> SUFFICES ASSUME NEW t \in Threads, clerk'[t].pc \in {"create", "insert"},
                    NEW sim, sim = clerk'[t].sim, NEW i \in ApprovalIds
             PROVE  ~ActiveFor(sim, i)'
  BY <1>0 DEF SoleIInv, ActiveFor, ApprovalIds
<1>1. ASSUME tasks' = tasks, clerk'[t] = clerk[t]
      PROVE  ~ActiveFor(sim, i)'
  BY <1>1 DEF SoleIInv, ActiveFor
<1>2. ASSUME SubmitStep(t)
      PROVE  ~ActiveFor(sim, i)'
  <2>1. SubmitNew(t) \/ SubmitGenerate(t)
    BY <1>0, <1>2 DEF SubmitStep, SubmitFind, SubmitMark, SubmitReuse, SubmitInsert, SubmitLink,
                      Advance, Resting, Clerks
  <2>2. tasks' = tasks /\ sim = clerk[t].sim
    BY <1>0, <2>1 DEF SubmitNew, SubmitGenerate, GenerateId, Advance, approvalVars, Clerks
  <2>3. ~ActiveFor(sim, i)
    BY <2>1, <2>2 DEF SubmitNew, SubmitGenerate, SoleIInv
  <2> QED
    BY <2>2, <2>3 DEF ActiveFor
<1>3. ASSUME QueueStep(t) \/ UNCHANGED erpVars
      PROVE  ~ActiveFor(sim, i)'
  BY <1>1, <1>3 DEF QueueStep, erpVars, approvalVars
<1>4. ASSUME CreateStep(t)
      PROVE  FALSE
  BY <1>4 DEF CreateStep, Resting
<1>5. ASSUME NEW r \in Requests, DecisionStep(r) \/ WriteBack(r)
      PROVE  ~ActiveFor(sim, i)'
  <2>1. clerk' = clerk
    BY <1>5 DEF DecisionStep, WriteBack
  <2>2. ~ActiveFor(sim, i)
    BY <2>1 DEF SoleIInv
  <2>3. CASE tasks' = tasks
    BY <1>1, <2>1, <2>3
  <2>4. CASE ApplyDecision(r) \/ MarkWritebackStarted(r) \/ MarkWritebackCompleted(r)
    <3>1. WriteTask(r) /\ deciding[r].op \in Operations
      BY <2>4, WritersWrite
    <3> QED
      BY <2>2, <3>1, WriteActivatesNone DEF SoleIInv
  <2> QED
    BY <1>5, <2>3, <2>4 DEF DecisionStep, WriteBack, CheckTask, AbandonDecision
<1> QED
  BY <1>2, <1>3, <1>4, <1>5 DEF OneThread, ErpNext

(* One thread and one request at a time: while a case has an active        *)
(* approval, submit-approval-request stores no second one for it.          *)
THEOREM SerialSubmitAddsNone ==
  ASSUME OneThread, OneRequest
  PROVE  ErpSpec => SubmitAddsNoSecondApproval
<1>1. ErpInit => SoleIInv
  BY HomeInit, OneRequestInit DEF ErpInit, SoleIInv, Resting
<1>2. SoleIInv /\ [ErpNext]_erpVars => SoleIInv'
  BY SoleStep
<1>3. SoleIInv => \A t \in Threads :
                    clerk[t].pc = "insert" /\ clerk'[t].pc = "link"
                    => \A i \in ApprovalIds : ~ActiveFor(clerk[t].sim, i)
  BY DEF SoleIInv
<1> QED
  BY <1>1, <1>2, <1>3, PTL DEF ErpSpec, SubmitAddsNoSecondApproval
----------------------------------------------------------------------------
(* One thread and one request: no write-back beside a rival approval.      *)

(* No task stored before this one is active for the same case id. A task   *)
(* is that when submit makes it or links it, and it remains it: ids go up, *)
(* and nothing brings a rejected task back.                                *)
NoElder(j) ==
  /\ j \in Stored
  /\ \A i \in 1..(j - 1) : ~ActiveFor(tasks[j].sim, i)

RivalIInv ==
  /\ OriginIInv
  /\ SoleIInv
  /\ \A i \in ApprovalIds : origin[i] # 0 => NoElder(i)
  /\ \A o \in Objects : link[o] # 0 => NoElder(link[o])
  /\ \A t \in Threads : clerk[t].pc = "link" => NoElder(clerk[t].id)

LEMMA RivalInit == ErpInit => RivalIInv
<1>1. ErpInit => SoleIInv
  BY HomeInit, OneRequestInit DEF ErpInit, SoleIInv, Resting
<1> QED
  BY <1>1, OriginInit DEF ErpInit, RivalIInv, Resting

(* A task that no step of the store makes active stays inactive.           *)
LEMMA InactiveStays ==
  ASSUME SoleIInv, [ApprovalNext]_approvalVars, NEW i \in Stored, NEW sim, ~ActiveFor(sim, i)
  PROVE  ~ActiveFor(sim, i)'
<1>0. /\ FreshIInv /\ OneRequestIInv /\ i \in ApprovalIds
      /\ tasks \in [ApprovalIds -> Task]
      /\ creating \in [Threads -> [id : {0} \cup ApprovalIds, sim : LinkedSims]]
  BY DEF SoleIInv, HomeIInv, FreshIInv, DenseIInv, ApprovalTypeOK, Stored
<1>1. ASSUME NEW t \in Threads, InsertTask(t)
      PROVE  tasks'[i] = tasks[i]
  <2>1. creating[t].id \in ApprovalIds /\ creating[t].id # i
    BY <1>0, <1>1 DEF InsertTask, StoreTask, FreshIInv
  <2> QED
    BY <1>0, <1>1, <2>1 DEF InsertTask, StoreTask
<1>2. ASSUME NEW r \in Requests,
             ApplyDecision(r) \/ MarkWritebackStarted(r) \/ MarkWritebackCompleted(r)
      PROVE  ~ActiveFor(sim, i)'
  <2>1. WriteTask(r) /\ deciding[r].op \in Operations
    BY <1>2, WritersWrite
  <2> QED
    BY <1>0, <2>1, WriteActivatesNone
<1>3. ASSUME tasks'[i] = tasks[i]
      PROVE  ~ActiveFor(sim, i)'
  BY <1>3 DEF ActiveFor
<1> QED
  BY <1>1, <1>2, <1>3 DEF ApprovalNext, GenerateId, CheckTask, AbandonDecision, approvalVars

(* Ids have no gaps: whatever is stored has all the smaller ids before it. *)
LEMMA EldersAreStored ==
  ASSUME FreshIInv, NEW j \in Stored, NEW i \in 1..(j - 1)
  PROVE  i \in Stored
<1>1. PICK n \in 0..MaxTasks : Stored = 1..n
  BY DEF FreshIInv, DenseIInv, DenseTo
<1>2. n \in Nat
  BY MaxTasksAssumption
<1> QED
  BY <1>1, <1>2

LEMMA NoElderStays ==
  ASSUME SoleIInv, [ApprovalNext]_approvalVars, NEW j, NoElder(j)
  PROVE  NoElder(j)'
<1>0. FreshIInv /\ j \in Stored
  BY DEF SoleIInv, HomeIInv, NoElder
<1>1. j \in Stored' /\ tasks'[j].sim = tasks[j].sim
  BY <1>0, TasksStay
<1>2. PICK sim : sim = tasks[j].sim
  OBVIOUS
<1>3. ASSUME NEW i \in 1..(j - 1)
      PROVE  ~ActiveFor(sim, i)'
  <2>1. i \in Stored /\ ~ActiveFor(sim, i)
    BY <1>0, <1>2, <1>3, EldersAreStored DEF NoElder
  <2> QED
    BY <2>1, InactiveStays
<1>4. \A i \in 1..(j - 1) : ~(tasks'[i].sim = sim /\ tasks'[i].status \in ActiveStatuses)
  BY <1>3 DEF ActiveFor
<1> QED
  BY <1>1, <1>2, <1>4 DEF NoElder, ActiveFor

(* The scan of submit-approval-request found no active task for the case,  *)
(* so the one it stores has no elder.                                      *)
LEMMA InsertedHasNoElder ==
  ASSUME SoleIInv, NEW t \in Threads, SubmitInsert(t), NEW n, n = creating[t].id
  PROVE  n \in ApprovalIds /\ NoElder(n)'
<1>0. /\ tasks \in [ApprovalIds -> Task] /\ ErpTypeIInv /\ FreshIInv
      /\ creating \in [Threads -> [id : {0} \cup ApprovalIds, sim : LinkedSims]]
      /\ clerk \in [Threads -> Clerks]
      /\ ApprovalIds = 1..MaxTasks /\ MaxTasks \in Nat
  BY MaxTasksAssumption DEF SoleIInv, HomeIInv, ErpTypeIInv, ErpTypeOK, ApprovalTypeOK, Clerks,
                            ApprovalIds
<1>1. n \in ApprovalIds
  BY <1>0 DEF SubmitInsert, StoreTask
<1>2. PICK sim \in LinkedSims : sim = creating[t].sim
  BY <1>0
<1>3. sim = clerk[t].sim
  BY <1>2 DEF SoleIInv, HomeIInv, ClerkHome, SubmitInsert
<1>4. tasks' = [tasks EXCEPT ![n] = NewTask(created + 1, sim)]
  BY <1>2 DEF SubmitInsert, StoreTask
<1>5. n \in Stored' /\ tasks'[n].sim = sim
  BY <1>0, <1>1, <1>4 DEF NewTask, Stored, Pending, Absent
<1>6. \A i \in ApprovalIds : ~ActiveFor(sim, i)
  BY <1>3 DEF SoleIInv, SubmitInsert
<1>7. \A i \in 1..(n - 1) : i \in ApprovalIds /\ tasks'[i] = tasks[i]
  BY <1>0, <1>1, <1>4
<1>8. \A i \in 1..(n - 1) : ~(tasks'[i].sim = sim /\ tasks'[i].status \in ActiveStatuses)
  BY <1>6, <1>7 DEF ActiveFor
<1> QED
  BY <1>1, <1>5, <1>8 DEF NoElder, ActiveFor

(* The task that submit-approval-request reuses is the first active one.   *)
LEMMA ReusedHasNoElder ==
  ASSUME SoleIInv, NEW i \in ApprovalIds, NEW sim, FirstActive(sim, i)
  PROVE  NoElder(i)
BY DEF FirstActive, ActiveFor, ActiveStatuses, NoElder, Stored, Pending, Approved, InProgress,
       Completed, Absent

LEMMA RivalStep ==
  ASSUME OneThread, OneRequest
  PROVE  RivalIInv /\ [ErpNext]_erpVars => RivalIInv'
<1> SUFFICES ASSUME RivalIInv, [ErpNext]_erpVars PROVE RivalIInv'
  OBVIOUS
<1>0. /\ OriginIInv' /\ SoleIInv' /\ SoleIInv
      /\ [ApprovalNext]_approvalVars
  BY OriginStep, SoleStep, StoreSide DEF RivalIInv, SoleIInv, HomeIInv, erpVars
<1>1. \A j : NoElder(j) => NoElder(j)'
  BY <1>0, NoElderStays
<1>2. /\ origin \in [ApprovalIds -> {0} \cup Objects]
      /\ link \in [Objects -> {0} \cup ApprovalIds]
      /\ clerk \in [Threads -> Clerks]
  BY <1>0 DEF SoleIInv, HomeIInv, ErpTypeIInv, ErpTypeOK, Clerks
<1>3. ASSUME NEW i \in ApprovalIds, origin'[i] # 0
      PROVE  NoElder(i)'
  <2>1. CASE origin'[i] = origin[i]
    BY <1>1, <1>3, <2>1 DEF RivalIInv
  <2>2. ASSUME NEW t \in Threads, SubmitInsert(t), origin'[i] # origin[i]
        PROVE  NoElder(i)'
    <3>1. i = creating[t].id
      BY <1>2, <2>2 DEF SubmitInsert
    <3> QED
      BY <1>0, <2>2, <3>1, InsertedHasNoElder
  <2>3. ASSUME NEW t \in Threads, CreateStep(t)
        PROVE  origin'[i] = origin[i]
    BY <1>2, <1>3, <2>3 DEF CreateStep
  <2>4. ASSUME NEW t \in Threads, SubmitStep(t)
        PROVE  SubmitInsert(t) \/ origin' = origin
    BY <2>4 DEF SubmitStep, SubmitFind, SubmitMark, SubmitReuse, SubmitNew, SubmitGenerate, SubmitLink
  <2> QED
    BY <2>1, <2>2, <2>3, <2>4 DEF ErpNext, QueueStep, DecisionStep, WriteBack, erpVars
<1>4. ASSUME NEW o \in Objects, NEW j, j = link'[o], j # 0
      PROVE  NoElder(j)'
  <2>1. CASE j = link[o]
    BY <1>1, <1>4, <2>1 DEF RivalIInv
  <2>2. ASSUME NEW t \in Threads, SubmitLink(t), j # link[o]
        PROVE  NoElder(j)'
    <3>1. j = clerk[t].id /\ clerk[t].pc = "link"
      BY <1>2, <1>4, <2>2 DEF SubmitLink
    <3> QED
      BY <1>1, <3>1 DEF RivalIInv
  <2>3. (\E t \in Threads : SubmitLink(t)) \/ link' = link
    BY DEF ErpNext, QueueStep, CreateStep, SubmitStep, SubmitFind, SubmitMark, SubmitReuse,
           SubmitNew, SubmitGenerate, SubmitInsert, DecisionStep, WriteBack, erpVars
  <2> QED
    BY <1>4, <2>1, <2>2, <2>3
<1>5. ASSUME NEW t \in Threads, NEW j, j = clerk'[t].id, clerk'[t].pc = "link"
      PROVE  NoElder(j)'
  <2>1. CASE clerk'[t] = clerk[t]
    BY <1>1, <1>5, <2>1 DEF RivalIInv
  <2>2. CASE SubmitReuse(t)
    <3>1. PICK i \in ApprovalIds : /\ FirstActive(clerk[t].sim, i)
                                   /\ clerk' = [clerk EXCEPT ![t].pc = "link", ![t].id = i]
      BY <2>2 DEF SubmitReuse
    <3>2. j = i
      BY <1>2, <1>5, <3>1 DEF Clerks
    <3>3. NoElder(i)
      BY <1>0, <3>1, ReusedHasNoElder
    <3> QED
      BY <1>1, <3>2, <3>3
  <2>3. CASE SubmitInsert(t)
    <3>1. PICK n : n = creating[t].id
      OBVIOUS
    <3>2. clerk' = [clerk EXCEPT ![t].pc = "link", ![t].id = n]
      BY <2>3, <3>1 DEF SubmitInsert
    <3>3. j = n
      BY <1>2, <1>5, <3>2 DEF Clerks
    <3> QED
      BY <1>0, <2>3, <3>1, <3>3, InsertedHasNoElder
  <2>4. ASSUME SubmitStep(t)
        PROVE  SubmitReuse(t) \/ SubmitInsert(t)
    BY <1>2, <1>5, <2>4 DEF SubmitStep, SubmitFind, SubmitMark, SubmitNew, SubmitGenerate, SubmitLink,
       Advance, Resting, Clerks
  <2>5. SubmitStep(t) \/ clerk' = clerk
    BY DEF OneThread, ErpNext, QueueStep, CreateStep, DecisionStep, WriteBack, erpVars
  <2> QED
    BY <2>1, <2>2, <2>3, <2>4, <2>5
<1>6. /\ \A i \in ApprovalIds : origin'[i] # 0 => NoElder(i)'
      /\ \A o \in Objects : link'[o] # 0 =>
           link'[o] \in Stored' /\ \A i \in 1..(link'[o] - 1) : ~ActiveFor(tasks[link[o]].sim, i)'
      /\ \A t \in Threads : clerk'[t].pc = "link" =>
           clerk'[t].id \in Stored' /\ \A i \in 1..(clerk'[t].id - 1) : ~ActiveFor(tasks[clerk[t].id].sim, i)'
  BY <1>3, <1>4, <1>5 DEF NoElder, ActiveFor
<1> QED
  BY <1>0, <1>6 DEF RivalIInv, NoElder, ActiveFor

(* One thread and one request: an approval that outlived its case is never *)
(* written to a new case beside an active approval of that case's own,     *)
(* since submit-approval-request would have linked the new case to it      *)
(* (_active_approval_for_simulation_case).                                 *)
THEOREM SerialNoRivalWriteback ==
  ASSUME OneThread, OneRequest
  PROVE  ErpSpec => NoRivalWriteback
<1>1. RivalIInv => \A r \in Requests :
        FinishesWriteback(r) /\ origin[deciding[r].id] # 0
        => \A o \in ReachedBy(r) : \/ link[o] \in {0, deciding[r].id}
                                   \/ tasks[link[o]].status \notin ActiveStatuses
  <2> SUFFICES ASSUME RivalIInv, NEW r \in Requests, FinishesWriteback(r),
                      NEW i, i = deciding[r].id, origin[i] # 0,
                      NEW o \in ReachedBy(r), NEW j, j = link[o], j # 0,
                      tasks[j].status \in ActiveStatuses
               PROVE  j = i
    OBVIOUS
  <2>1. /\ i \in Stored /\ tasks[i].serial = deciding[r].serial /\ tasks[i].sim = deciding[r].sim
        /\ deciding[r].op \in Operations
    BY DEF RivalIInv, OriginIInv, HeldTask, FinishesWriteback, Operations
  <2>2. tasks[i].status \in CheckedStatuses(Completed)
    BY <2>1 DEF RivalIInv, SoleIInv, OneRequestIInv, StillChecked, FinishesWriteback
  <2>3. tasks[i].status \in ActiveStatuses
    BY <2>2 DEF CheckedStatuses, ActiveStatuses, Decisions, Approved, Rejected, InProgress, Completed
  <2>4. o \in Objects /\ cases[o].sim = deciding[r].sim
    BY QueuedAreMade DEF ReachedBy, Finds, IsFirst, RivalIInv, SoleIInv, HomeIInv, ErpTypeIInv, SimIInv
  <2>5. tasks[j].sim = cases[o].sim /\ j \in Stored
    BY <2>4 DEF RivalIInv, SoleIInv, HomeIInv, LinksHome, LeadsHome
  <2>6. NoElder(i) /\ NoElder(j)
    BY <2>1, <2>4 DEF RivalIInv, Stored
  <2>7. ActiveFor(tasks[j].sim, i) /\ ActiveFor(tasks[i].sim, j)
    BY <2>1, <2>3, <2>4, <2>5 DEF ActiveFor
  <2>8. i \in Nat /\ j \in Nat /\ i >= 1 /\ j >= 1
    BY <2>1, <2>5, MaxTasksAssumption DEF Stored, ApprovalIds
  <2>9. i \notin 1..(j - 1) /\ j \notin 1..(i - 1)
    BY <2>6, <2>7 DEF NoElder
  <2> QED
    BY <2>8, <2>9
<1> QED
  BY <1>1, RivalInit, RivalStep, PTL DEF ErpSpec, NoRivalWriteback

============================================================================
