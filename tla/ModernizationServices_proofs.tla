--------------------- MODULE ModernizationServices_proofs ---------------------
(***************************************************************************)
(* Theorems about the three services and their Automation Memory, for any  *)
(* number of threads, orders, tools, calls, resets and failing inserts.    *)
(***************************************************************************)
EXTENDS ModernizationServices, SequenceTheorems, TLAPS

----------------------------------------------------------------------------
(* The steps of each service.                                              *)

SuiteAct ==
  /\ UNCHANGED <<facadeVars, erpVars>>
  /\ \/ \E t \in Threads : ValidationStep(t) \/ \E passes \in BOOLEAN : Validate(t, passes)
     \/ RecordGap \/ RecordApproval \/ SuiteRestart

FacadeAct ==
  /\ UNCHANGED <<suiteVars, erpVars>>
  /\ \/ \E t \in Threads :
          \/ FacadeStep(t)
          \/ \E po \in Orders, source \in SourceCases : SelectTask(t, po, source)
     \/ FacadeRestart

ErpAct ==
  /\ UNCHANGED <<suiteVars, facadeVars>>
  /\ \/ \E t \in Threads :
          \/ LegacyStep(t)
          \/ \E po \in Orders : FetchOrder(t, po)
          \/ \E tool \in Tools : FilterTools(t, tool)
          \/ ResetOrders(t)
     \/ LegacyRestart

(* Every step is one of one service.                                       *)
LEMMA StepOfOneService == ServicesNext => SuiteAct \/ FacadeAct \/ ErpAct
<1> SUFFICES ASSUME ServicesNext PROVE SuiteAct \/ FacadeAct \/ ErpAct
    OBVIOUS
<1>1. ASSUME NEW t \in Threads, Arrives(t) PROVE SuiteAct \/ FacadeAct \/ ErpAct
      BY <1>1 DEF Arrives, Suite, Facade, Erp, SuiteAct, FacadeAct, ErpAct
<1>2. ASSUME NEW t \in Threads, Continues(t) PROVE SuiteAct \/ FacadeAct \/ ErpAct
      BY <1>2 DEF Continues, Suite, Facade, Erp, SuiteAct, FacadeAct, ErpAct
<1>3. ASSUME Restarts PROVE SuiteAct \/ FacadeAct \/ ErpAct
      BY <1>3 DEF Restarts, Suite, Facade, Erp, SuiteAct, FacadeAct, ErpAct
<1>4. QED BY <1>1, <1>2, <1>3 DEF ServicesNext

----------------------------------------------------------------------------
(* Events.                                                                 *)

SuiteEvents == {Passed, NotPassed, Gap, HumanApproval} \cup {Registered(cap) : cap \in Caps}
TaskEvents  == {TaskRequest(po) : po \in Orders}
WritebackEvents == {Writeback(before, po) : before \in OrderStatuses, po \in Orders}

LEMMA EventKindsOfServices == EventKinds = SuiteEvents \cup TaskEvents \cup WritebackEvents
BY DEF EventKinds, SuiteEvents, TaskEvents, WritebackEvents

(* A service's step inserts at most one event, of one of its kinds.        *)
Inserts(kinds) ==
  UNCHANGED events \/ \E event \in kinds : events' = [events EXCEPT ![event] = @ + 1]

LEMMA InsertsTyped ==
  ASSUME NEW kinds \in SUBSET EventKinds, events \in [EventKinds -> Nat], Inserts(kinds)
  PROVE  /\ events' \in [EventKinds -> Nat]
         /\ \A event \in EventKinds : events'[event] >= events[event]
         /\ \A event \in EventKinds \ kinds : events'[event] = events[event]
BY DEF Inserts

LEMMA WritebackIsDistinct ==
  /\ \A e \in SuiteEvents \cup TaskEvents : e[1] # "RPA_WRITEBACK_COMPLETED"
  /\ \A e \in WritebackEvents : e[1] = "RPA_WRITEBACK_COMPLETED"
BY DEF SuiteEvents, TaskEvents, WritebackEvents, Passed, NotPassed, Gap, HumanApproval,
       Registered, TaskRequest, Writeback

LEMMA WritebackInjective ==
  ASSUME NEW b, NEW c, NEW po, NEW qo, Writeback(b, po) = Writeback(c, qo)
  PROVE  b = c /\ po = qo
BY DEF Writeback

----------------------------------------------------------------------------
(* Type correctness.                                                       *)

ServicesTypeOK == MemoryTypeOK /\ SuiteTypeOK /\ FacadeTypeOK /\ LegacyTypeOK

LEMMA WrittenIs ==
  ASSUME NEW file, NEW value, NEW nothing, NEW f \in Written(file, value, nothing)
  PROVE  f = WholeFile(value) \/ f = [state |-> "mixed", content |-> nothing]
BY Zenon DEF Written

LEMMA BooleanFile ==
  ASSUME NEW file \in File(BOOLEAN), NEW value \in BOOLEAN
  PROVE  /\ NoFile(value) \in File(BOOLEAN)
         /\ Truncated(file) \in File(BOOLEAN)
         /\ Written(file, value, FALSE) \subseteq File(BOOLEAN)
<1>1. NoFile(value) \in File(BOOLEAN) /\ Truncated(file) \in File(BOOLEAN)
      BY DEF File, FileStates, NoFile, Truncated
<1>2. ASSUME NEW f \in Written(file, value, FALSE) PROVE f \in File(BOOLEAN)
  <2>1. WholeFile(value) \in File(BOOLEAN) BY DEF File, FileStates, WholeFile
  <2>2. [state |-> "mixed", content |-> FALSE] \in File(BOOLEAN) BY DEF File, FileStates
  <2>3. QED BY <1>2, <2>1, <2>2, WrittenIs
<1>3. QED BY <1>1, <1>2

(* A file of whatever content.                                             *)
IsFile(file) == file \in File({file.content})

LEMMA SomeFile ==
  ASSUME NEW file, IsFile(file), NEW value, NEW nothing
  PROVE  /\ IsFile(NoFile(value)) /\ IsFile(Truncated(file))
         /\ Truncated(file).content = file.content
         /\ \A f \in Written(file, value, nothing) : IsFile(f)
         /\ Exists(file) => Exists(Truncated(file))
<1>1. IsFile(NoFile(value)) BY DEF IsFile, File, FileStates, NoFile
<1>2. /\ IsFile(Truncated(file))
      /\ Exists(file) => Exists(Truncated(file))
      /\ Truncated(file).content = file.content
      BY DEF IsFile, File, FileStates, Truncated, Exists
<1>3. ASSUME NEW f \in Written(file, value, nothing) PROVE IsFile(f)
  <2>1. IsFile(WholeFile(value)) BY DEF IsFile, File, FileStates, WholeFile
  <2>2. IsFile([state |-> "mixed", content |-> nothing]) BY DEF IsFile, File, FileStates
  <2>3. QED BY <1>3, <2>1, <2>2, WrittenIs
<1>4. QED BY <1>1, <1>2, <1>3

LEMMA SomeOrder == (CHOOSE po \in Orders : TRUE) \in Orders
BY OrdersAssumption

LEMMA SomeTool == (CHOOSE tool \in Tools : TRUE) \in Tools
BY ToolsAssumption

Jobs == [stage : {"done"} \cup WritebackStages \cup ToolStages, po : Orders,
         before : OrderStatuses, tool : Tools, list : [Tools -> Nat]]

LEMMA NoJobTyped == NoJob \in Jobs /\ NoTools \in [Tools -> Nat]
<1>1. NoTools \in [Tools -> Nat] BY DEF NoTools
<1>2. "Exception" \in OrderStatuses BY DEF OrderStatuses
<1>3. QED BY <1>1, <1>2, SomeOrder, SomeTool DEF NoJob, Jobs

LEMMA LegacyInitTyped == LegacyInit => LegacyTypeOK
<1> SUFFICES ASSUME LegacyInit PROVE LegacyTypeOK
    OBVIOUS
<1>1. job \in [Threads -> Jobs] BY NoJobTyped DEF LegacyInit
<1>2. 0 \in 0..MaxResets BY ResetsAssumption
<1>3. QED BY <1>1, <1>2, NoJobTyped DEF LegacyInit, LegacyTypeOK, OrderStatuses, Jobs

LEMMA LegacyKept ==
  ASSUME LegacyTypeOK, ErpAct
  PROVE  LegacyTypeOK'
<1>0. /\ job \in [Threads -> Jobs] /\ tools \in [Tools -> Nat] /\ resets \in 0..MaxResets
      /\ status \in [Orders -> OrderStatuses] /\ logs \in [Orders -> Nat]
      /\ traces \in [Orders -> BOOLEAN] /\ overlapping \in BOOLEAN
      BY DEF LegacyTypeOK, Jobs
<1>a. \A stages : Overlaps(stages) \in BOOLEAN BY <1>0 DEF Overlaps
<1>b. Reseeded => /\ status' \in [Orders -> OrderStatuses] /\ logs' \in [Orders -> Nat]
                  /\ traces' \in [Orders -> BOOLEAN]
      BY DEF Reseeded, OrderStatuses
<1>c. SUFFICES /\ job' \in [Threads -> Jobs] /\ tools' \in [Tools -> Nat]
               /\ resets' \in 0..MaxResets
               /\ status' \in [Orders -> OrderStatuses] /\ logs' \in [Orders -> Nat]
               /\ traces' \in [Orders -> BOOLEAN] /\ overlapping' \in BOOLEAN
      BY DEF LegacyTypeOK, Jobs
<1>1. ASSUME NEW t \in Threads, NEW po \in Orders, FetchOrder(t, po)
      PROVE  job' \in [Threads -> Jobs] /\ overlapping' \in BOOLEAN
  <2>1. [NoJob EXCEPT !.stage = "fetched", !.po = po, !.before = status[po]] \in Jobs
        BY <1>0, NoJobTyped DEF Jobs, WritebackStages
  <2>2. QED BY <1>0, <1>a, <1>1, <2>1 DEF FetchOrder
<1>2. ASSUME NEW t \in Threads, NEW tool \in Tools, FilterTools(t, tool)
      PROVE  job' \in [Threads -> Jobs] /\ overlapping' \in BOOLEAN
  <2>1. Others(tool) \in [Tools -> Nat] BY <1>0 DEF Others
  <2>2. [NoJob EXCEPT !.stage = "filtered", !.tool = tool, !.list = Others(tool)] \in Jobs
        BY <2>1, NoJobTyped DEF Jobs, ToolStages
  <2>3. QED BY <1>0, <1>a, <1>2, <2>2 DEF FilterTools
<1>3. ASSUME NEW t \in Threads, ResetOrders(t)
      PROVE  job' \in [Threads -> Jobs] /\ overlapping' \in BOOLEAN /\ resets' \in 0..MaxResets
  <2>1. [NoJob EXCEPT !.stage = "reset"] \in Jobs BY NoJobTyped DEF Jobs, ToolStages
  <2>2. QED BY <1>0, <1>a, <1>3, <2>1, ResetsAssumption DEF ResetOrders
<1>4. ASSUME NEW t \in Threads, RequestApproval(t)
      PROVE  /\ job' \in [Threads -> Jobs]
             /\ status' \in [Orders -> OrderStatuses] /\ logs' \in [Orders -> Nat]
             /\ traces' \in [Orders -> BOOLEAN]
  <2>1. [job[t] EXCEPT !.stage = "requested"] \in Jobs BY <1>0 DEF Jobs, WritebackStages
  <2>2. job[t].po \in Orders BY <1>0 DEF Jobs
  <2>3. QED BY <1>0, <1>4, <2>1, <2>2 DEF RequestApproval, OrderStatuses
<1>5. ASSUME NEW t \in Threads, AssignTools(t)
      PROVE  job' \in [Threads -> Jobs] /\ tools' \in [Tools -> Nat]
  <2>1. [job[t] EXCEPT !.stage = "assigned", !.list = NoTools] \in Jobs
        BY <1>0, NoJobTyped DEF Jobs, ToolStages
  <2>2. QED BY <1>0, <1>5, <2>1 DEF AssignTools, Jobs
<1>6. ASSUME NEW t \in Threads, AppendTool(t)
      PROVE  job' \in [Threads -> Jobs] /\ tools' \in [Tools -> Nat]
  <2>1. job[t].tool \in Tools BY <1>0 DEF Jobs
  <2>2. QED BY <1>0, <1>6, <2>1, NoJobTyped DEF AppendTool
<1>7. CASE LegacyRestart
      BY <1>0, <1>b, <1>7, NoJobTyped, ResetsAssumption DEF LegacyRestart
<1>8. ASSUME NEW t \in Threads, LegacyStep(t)
      PROVE  /\ job' \in [Threads -> Jobs] /\ tools' \in [Tools -> Nat]
             /\ resets' \in 0..MaxResets
             /\ status' \in [Orders -> OrderStatuses] /\ logs' \in [Orders -> Nat]
             /\ traces' \in [Orders -> BOOLEAN] /\ overlapping' \in BOOLEAN
  <2>1. CASE RequestApproval(t) BY <1>0, <1>4, <2>1 DEF RequestApproval
  <2>2. CASE RecordWriteback(t) BY <1>0, <2>2, NoJobTyped DEF RecordWriteback
  <2>3. CASE AssignTools(t) BY <1>0, <1>5, <2>3 DEF AssignTools
  <2>4. CASE AppendTool(t) BY <1>0, <1>6, <2>4 DEF AppendTool
  <2>5. CASE ClearTools(t) BY <1>0, <2>5, NoJobTyped DEF ClearTools
  <2>6. QED BY <1>8, <2>1, <2>2, <2>3, <2>4, <2>5 DEF LegacyStep
<1>9. ASSUME NEW t \in Threads, NEW po \in Orders, FetchOrder(t, po)
      PROVE  LegacyTypeOK'
      BY <1>0, <1>1, <1>9 DEF FetchOrder, LegacyTypeOK, Jobs
<1>10. ASSUME NEW t \in Threads, NEW tool \in Tools, FilterTools(t, tool)
       PROVE  LegacyTypeOK'
       BY <1>0, <1>2, <1>10 DEF FilterTools, LegacyTypeOK, Jobs
<1>11. ASSUME NEW t \in Threads, ResetOrders(t)
       PROVE  LegacyTypeOK'
       BY <1>0, <1>b, <1>3, <1>11 DEF ResetOrders, LegacyTypeOK, Jobs
<1>12. QED BY <1>7, <1>8, <1>9, <1>10, <1>11 DEF ErpAct, LegacyTypeOK, Jobs

LEMMA FacadeKept ==
  ASSUME FacadeTypeOK, FacadeAct
  PROVE  FacadeTypeOK'
<1> DEFINE Requests == [stage : {"done", "selected", "created"}, po : Orders,
                        source : SourceCases \cup {NoCase}, found : BOOLEAN]
<1>0. /\ approvalTasks \in [Orders -> SourceCases \cup {NoCase}] /\ audits \in [Orders -> Nat]
      /\ request \in [Threads -> Requests]
      BY DEF FacadeTypeOK
<1>a. \A po \in Orders : NoRequest(po) \in Requests BY DEF NoRequest
<1>b. \A t \in Threads : request[t].po \in Orders /\ request[t].source \in SourceCases \cup {NoCase}
      BY <1>0
<1>1. ASSUME NEW t \in Threads, NEW po \in Orders, NEW source \in SourceCases,
             SelectTask(t, po, source)
      PROVE  FacadeTypeOK'
      BY <1>0, <1>1 DEF SelectTask, FacadeTypeOK
<1>2. ASSUME NEW t \in Threads, FacadeStep(t) PROVE FacadeTypeOK'
  <2>1. [request[t] EXCEPT !.stage = "created"] \in Requests BY <1>0
  <2>2. NoRequest(request[t].po) \in Requests BY <1>a, <1>b
  <2>3. request' \in [Threads -> Requests]
        BY <1>0, <1>2, <2>1, <2>2 DEF FacadeStep, InsertTask, RecordTask, FinishRequest
  <2>4. /\ approvalTasks' \in [Orders -> SourceCases \cup {NoCase}]
        /\ audits' \in [Orders -> Nat]
        BY <1>0, <1>b, <1>2 DEF FacadeStep, InsertTask, RecordTask
  <2>5. QED BY <2>3, <2>4 DEF FacadeTypeOK
<1>3. CASE FacadeRestart BY <1>a, <1>b, <1>3 DEF FacadeRestart, FacadeTypeOK
<1>4. QED BY <1>1, <1>2, <1>3 DEF FacadeAct

(* A validation: its record, and the numbers each of its loops runs over.  *)
SoundValidation(v) ==
  /\ DOMAIN v = DOMAIN NoValidation
  /\ v.stage \in Stages /\ v.passes \in BOOLEAN
  /\ v.next \in IF v.stage \in TimelineStages THEN 1..TimelineLength ELSE {1, 2}

LEMMA TrustedOrder ==
  /\ DOMAIN TrustedCapabilities = {1, 2} /\ Len(TrustedCapabilities) = 2
  /\ \A i \in {1, 2} : TrustedCapabilities[i] \in Caps
<1>1. Len(TrustedCapabilities) = 2 /\ DOMAIN TrustedCapabilities = 1..2
      BY DEF TrustedCapabilities
<1>2. 1..2 = {1, 2} OBVIOUS
<1>3. TrustedCapabilities[1] = ApiTool /\ TrustedCapabilities[2] = HumanTask
      BY DEF TrustedCapabilities
<1>4. QED BY <1>1, <1>2, <1>3 DEF Caps

HistoryTypeOK ==
  disturbed \in BOOLEAN /\ alone \in [Threads -> BOOLEAN] /\ settled \in BOOLEAN

LEMMA SuiteTypeUnfolded ==
  SuiteTypeOK <=>
    /\ IsFile(timeline) /\ registry \in File(BOOLEAN)
    /\ DOMAIN validation = Threads
    /\ \A t \in Threads : SoundValidation(validation[t])
    /\ HistoryTypeOK
BY TrustedOrder DEF HistoryTypeOK, SuiteTypeOK, SoundValidation, IsFile

LEMMA NoValidationSound == SoundValidation(NoValidation)
<1>1. DOMAIN NoValidation = {"stage", "passes", "next", "seen", "list"} BY DEF NoValidation
<1>2. NoValidation.stage = "done" /\ NoValidation.passes = FALSE /\ NoValidation.next = 1
      BY DEF NoValidation
<1>3. QED BY <1>1, <1>2 DEF SoundValidation, Stages, TimelineStages

(* A step of a thread's validation.                                        *)
LEMMA ValidationTyped ==
  ASSUME SuiteTypeOK, NEW t \in Threads, NEW v, SoundValidation(v),
         validation' = [validation EXCEPT ![t] = v]
  PROVE  /\ DOMAIN validation' = Threads
         /\ \A u \in Threads : SoundValidation(validation'[u])
         /\ validation'[t] = v /\ \A u \in Threads \ {t} : validation'[u] = validation[u]
BY SuiteTypeUnfolded

LEMMA StepSound ==
  ASSUME NEW v, SoundValidation(v), NEW stage \in Stages, NEW list,
         (stage \in TimelineStages) <=> (v.stage \in TimelineStages)
  PROVE  /\ SoundValidation([v EXCEPT !.stage = stage])
         /\ SoundValidation([v EXCEPT !.stage = stage, !.seen = list])
         /\ SoundValidation([v EXCEPT !.stage = stage, !.list = list])
<1>1. DOMAIN v = {"stage", "passes", "next", "seen", "list"}
      BY DEF SoundValidation, NoValidation
<1>2. QED BY <1>1 DEF SoundValidation

(* The stage a step of the suite leads to.                                 *)
LEMMA StepsSound ==
  ASSUME SuiteTypeOK, NEW t \in Threads,
         ValidationStep(t) \/ \E passes \in BOOLEAN : Validate(t, passes)
  PROVE  \E v : SoundValidation(v) /\ validation' = [validation EXCEPT ![t] = v]
<1> DEFINE v == validation[t]
<1>0. SoundValidation(v) /\ DOMAIN v = {"stage", "passes", "next", "seen", "list"}
      BY SuiteTypeUnfolded DEF SoundValidation, NoValidation
<1>a. ASSUME End(t) PROVE \E w : SoundValidation(w) /\ validation' = [validation EXCEPT ![t] = w]
      BY <1>a, NoValidationSound DEF End
<1>b. ASSUME NEW stage \in Stages, Step(t, stage),
             (stage \in TimelineStages) <=> (v.stage \in TimelineStages)
      PROVE  \E w : SoundValidation(w) /\ validation' = [validation EXCEPT ![t] = w]
      BY <1>0, <1>b, StepSound DEF Step
<1>1. ASSUME NEW passes \in BOOLEAN, Validate(t, passes)
      PROVE  \E w : SoundValidation(w) /\ validation' = [validation EXCEPT ![t] = w]
  <2> DEFINE w == [NoValidation EXCEPT !.stage = IF passes THEN "read_timeline" ELSE "record",
                                       !.passes = passes]
  <2>1. DOMAIN w = DOMAIN NoValidation /\ w.passes = passes /\ w.next = 1
        /\ w.stage = IF passes THEN "read_timeline" ELSE "record"
        BY DEF NoValidation
  <2>2. 1 \in 1..TimelineLength BY TimelineAssumption
  <2> HIDE DEF w
  <2>3. SoundValidation(w) BY <2>1, <2>2 DEF SoundValidation, Stages, TimelineStages
  <2>4. validation' = [validation EXCEPT ![t] = w] BY <1>1 DEF Validate, w
  <2>5. QED BY <2>3, <2>4
<1>2. CASE ReadTimeline(t)
  <2>1. CASE Exists(timeline) /\ ~Readable(timeline) BY <1>2, <1>a, <2>1 DEF ReadTimeline
  <2>2. CASE ~(Exists(timeline) /\ ~Readable(timeline))
    <3>1. PICK list : validation' = [validation EXCEPT ![t].stage = "open_timeline",
                                                       ![t].seen = list]
          BY <1>2, <2>2 DEF ReadTimeline
    <3>2. /\ "open_timeline" \in Stages /\ v.stage \in TimelineStages
          /\ "open_timeline" \in TimelineStages
          BY <1>2 DEF ReadTimeline, Stages, TimelineStages
    <3>3. SoundValidation([v EXCEPT !.stage = "open_timeline", !.seen = list])
          BY <1>0, <3>2, StepSound
    <3>4. QED BY <3>1, <3>3
  <2>3. QED BY <2>1, <2>2
<1>3. CASE OpenTimeline(t)
      BY <1>3, <1>b DEF OpenTimeline, Stages, TimelineStages
<1>4. CASE FillTimeline(t)
  <2>1. v.next \in 1..TimelineLength
        BY <1>0, <1>4 DEF FillTimeline, SoundValidation, TimelineStages
  <2> DEFINE more == v.next < TimelineLength
             w == [v EXCEPT !.stage = IF more THEN "read_timeline" ELSE "open_registry",
                            !.next = IF more THEN v.next + 1 ELSE 1, !.seen = <<>>]
  <2>2. DOMAIN w = DOMAIN v /\ w.passes = v.passes
        /\ w.stage = (IF more THEN "read_timeline" ELSE "open_registry")
        /\ w.next = (IF more THEN v.next + 1 ELSE 1)
        BY <1>0
  <2>3. validation' = [validation EXCEPT ![t] = w] BY <1>4 DEF FillTimeline
  <2>4. more => v.next + 1 \in 1..TimelineLength BY <2>1, TimelineAssumption
  <2> HIDE DEF w
  <2>5. CASE more
    <3>1. SoundValidation(w) BY <1>0, <2>2, <2>4, <2>5 DEF SoundValidation, Stages, TimelineStages
    <3>2. QED BY <2>3, <3>1
  <2>6. CASE ~more
    <3>1. SoundValidation(w) BY <1>0, <2>2, <2>6 DEF SoundValidation, Stages, TimelineStages
    <3>2. QED BY <2>3, <3>1
  <2>7. QED BY <2>5, <2>6
<1>5. CASE OpenRegistry(t)
      BY <1>5, <1>b DEF OpenRegistry, Stages, TimelineStages
<1>6. CASE FillRegistry(t)
      BY <1>6, <1>b DEF FillRegistry, Stages, TimelineStages
<1>7. CASE RecordResult(t)
  <2>1. Step(t, "read") \/ End(t) BY <1>7 DEF RecordResult
  <2>2. v.stage = "record" BY <1>7 DEF RecordResult
  <2>3. QED BY <1>a, <1>b, <2>1, <2>2 DEF Stages, TimelineStages
<1>8. CASE ReadCapabilities(t)
  <2>1. CASE Exists(capabilities) /\ ~Readable(capabilities)
        BY <1>8, <1>a, <2>1 DEF ReadCapabilities
  <2>2. CASE ~(Exists(capabilities) /\ ~Readable(capabilities))
    <3>1. PICK list : validation' = [validation EXCEPT ![t].stage = "open", ![t].list = list]
          BY <1>8, <2>2 DEF ReadCapabilities
    <3>2. "open" \in Stages /\ v.stage \notin TimelineStages /\ "open" \notin TimelineStages
          BY <1>8 DEF ReadCapabilities, Stages, TimelineStages
    <3>3. SoundValidation([v EXCEPT !.stage = "open", !.list = list])
          BY <1>0, <3>2, StepSound
    <3>4. QED BY <3>1, <3>3
  <2>3. QED BY <2>1, <2>2
<1>9. CASE OpenCapabilities(t)
      BY <1>9, <1>b DEF OpenCapabilities, Stages, TimelineStages
<1>10. CASE FillCapabilities(t)
  <2>1. "announce" \in Stages /\ v.stage \notin TimelineStages /\ "announce" \notin TimelineStages
        BY <1>10 DEF FillCapabilities, Stages, TimelineStages
  <2>2. SoundValidation([v EXCEPT !.stage = "announce", !.list = <<>>])
        BY <1>0, <2>1, StepSound
  <2>3. QED BY <1>10, <2>2 DEF FillCapabilities
<1>11. CASE Announce(t)
  <2>1. v.next \in {1, 2} /\ v.stage = "announce"
        BY <1>0, <1>11 DEF Announce, SoundValidation, TimelineStages
  <2>2. CASE End(t) BY <1>a, <2>2
  <2>3. CASE /\ v.next < Len(TrustedCapabilities)
             /\ validation' = [validation EXCEPT ![t].stage = "read", ![t].next = @ + 1]
    <3> DEFINE w == [v EXCEPT !.stage = "read", !.next = v.next + 1]
    <3>1. DOMAIN w = DOMAIN v /\ w.stage = "read" /\ w.next = v.next + 1 /\ w.passes = v.passes
          BY <1>0
    <3>2. v.next + 1 \in {1, 2} BY <2>1, <2>3, TrustedOrder
    <3>3. validation' = [validation EXCEPT ![t] = w] BY <2>3
    <3> HIDE DEF w
    <3>4. SoundValidation(w) BY <1>0, <3>1, <3>2 DEF SoundValidation, Stages, TimelineStages
    <3>5. QED BY <3>3, <3>4
  <2>4. QED BY <1>11, <2>2, <2>3 DEF Announce
<1>12. QED BY <1>1, <1>2, <1>3, <1>4, <1>5, <1>6, <1>7, <1>8, <1>9, <1>10, <1>11
           DEF ValidationStep

LEMMA SuiteKept ==
  ASSUME SuiteTypeOK, SuiteAct
  PROVE  SuiteTypeOK'
<1>1. ASSUME NEW t \in Threads,
             ValidationStep(t) \/ \E passes \in BOOLEAN : Validate(t, passes)
      PROVE  SuiteTypeOK'
  <2>1. DOMAIN validation' = Threads /\ \A u \in Threads : SoundValidation(validation'[u])
        BY <1>1, StepsSound, ValidationTyped
  <2>2. IsFile(timeline')
        BY <1>1, SomeFile, SuiteTypeUnfolded
           DEF ValidationStep, Validate, ReadTimeline, OpenTimeline, FillTimeline, OpenRegistry,
               FillRegistry, RecordResult, ReadCapabilities, OpenCapabilities, FillCapabilities,
               Announce
  <2>3. registry' \in File(BOOLEAN)
        BY <1>1, BooleanFile, SuiteTypeUnfolded
           DEF ValidationStep, Validate, ReadTimeline, OpenTimeline, FillTimeline, OpenRegistry,
               FillRegistry, RecordResult, ReadCapabilities, OpenCapabilities, FillCapabilities,
               Announce
  <2>4. HistoryTypeOK'
        BY <1>1, SuiteTypeUnfolded
           DEF HistoryTypeOK, history, ValidationStep, Validate, ReadTimeline, OpenTimeline,
               FillTimeline, OpenRegistry, FillRegistry, RecordResult, ReadCapabilities,
               OpenCapabilities, FillCapabilities, Announce
  <2>5. QED BY <2>1, <2>2, <2>3, <2>4, TrustedOrder
            DEF SuiteTypeOK, SoundValidation, IsFile, HistoryTypeOK
<1>2. CASE RecordGap \/ RecordApproval
      BY <1>2 DEF RecordGap, RecordApproval, RecordOnly, suiteVars, SuiteTypeOK
<1>3. CASE SuiteRestart
  <2>1. DOMAIN validation' = Threads /\ \A u \in Threads : SoundValidation(validation'[u])
        BY <1>3, NoValidationSound DEF SuiteRestart
  <2>2. HistoryTypeOK' BY <1>3, SuiteTypeUnfolded DEF SuiteRestart, HistoryTypeOK
  <2>3. timeline' = timeline /\ registry' = registry BY <1>3 DEF SuiteRestart
  <2>4. QED BY <2>1, <2>2, <2>3, SuiteTypeUnfolded, TrustedOrder
            DEF SuiteTypeOK, SoundValidation, IsFile, HistoryTypeOK
<1>4. QED BY <1>1, <1>2, <1>3 DEF SuiteAct

(* What a step leaves of Automation Memory.                                *)
MemoryStep(kinds) ==
  /\ Inserts(kinds)
  /\ faults' \in 0..MaxFaults
  /\ IsFile(capabilities')

LEMMA OneInsert ==
  ASSUME MemoryTypeOK, NEW kinds, NEW event \in kinds,
         \/ Record(event)
         \/ InsertFails
         \/ NoEvent
  PROVE  Inserts(kinds) /\ faults' \in 0..MaxFaults
BY FaultsAssumption DEF Record, InsertFails, NoEvent, Inserts, MemoryTypeOK

LEMMA SuiteMemory ==
  ASSUME MemoryTypeOK, SuiteTypeOK, SuiteAct
  PROVE  MemoryStep(SuiteEvents)
<1>0. IsFile(capabilities) BY DEF MemoryTypeOK, IsFile
<1>a. /\ Passed \in SuiteEvents /\ NotPassed \in SuiteEvents
      /\ Gap \in SuiteEvents /\ HumanApproval \in SuiteEvents
      /\ \A cap \in Caps : Registered(cap) \in SuiteEvents
      BY DEF SuiteEvents
<1>1. ASSUME UNCHANGED memoryVars PROVE MemoryStep(SuiteEvents)
      BY <1>0, <1>1, <1>a, OneInsert DEF memoryVars, MemoryStep, NoEvent
<1>2. ASSUME NEW event \in SuiteEvents, Record(event) \/ InsertFails, UNCHANGED capabilities
      PROVE  MemoryStep(SuiteEvents)
      BY <1>0, <1>2, OneInsert DEF MemoryStep
<1>3. ASSUME NoEvent, IsFile(capabilities') PROVE MemoryStep(SuiteEvents)
      BY <1>3, <1>a, OneInsert DEF MemoryStep
<1>4. ASSUME NEW t \in Threads, ValidationStep(t) PROVE MemoryStep(SuiteEvents)
  <2>1. CASE ReadTimeline(t) \/ OpenTimeline(t) \/ FillTimeline(t) \/ OpenRegistry(t)
               \/ FillRegistry(t) \/ ReadCapabilities(t)
        BY <1>1, <2>1
           DEF ReadTimeline, OpenTimeline, FillTimeline, OpenRegistry, FillRegistry,
               ReadCapabilities
  <2>2. CASE RecordResult(t)
    <3>1. (IF validation[t].passes THEN Passed ELSE NotPassed) \in SuiteEvents BY <1>a
    <3>2. QED BY <1>2, <2>2, <3>1 DEF RecordResult
  <2>3. CASE OpenCapabilities(t)
        BY <1>0, <1>3, <2>3, SomeFile DEF OpenCapabilities
  <2>4. CASE FillCapabilities(t)
        BY <1>0, <1>3, <2>4, SomeFile DEF FillCapabilities
  <2>5. CASE Announce(t)
    <3>1. validation[t].stage \notin TimelineStages BY <2>5 DEF Announce, TimelineStages
    <3>2. validation[t].next \in {1, 2} BY <3>1, SuiteTypeUnfolded DEF SoundValidation
    <3>3. Registered(TrustedCapabilities[validation[t].next]) \in SuiteEvents
          BY <1>a, <3>2, TrustedOrder
    <3>4. QED BY <1>2, <2>5, <3>3 DEF Announce
  <2>6. QED BY <1>4, <2>1, <2>2, <2>3, <2>4, <2>5 DEF ValidationStep
<1>5. ASSUME NEW t \in Threads, NEW passes \in BOOLEAN, Validate(t, passes)
      PROVE  MemoryStep(SuiteEvents)
      BY <1>1, <1>5 DEF Validate
<1>6. CASE RecordGap \/ RecordApproval
      BY <1>2, <1>6, <1>a DEF RecordGap, RecordApproval, RecordOnly
<1>7. CASE SuiteRestart BY <1>1, <1>7 DEF SuiteRestart
<1>8. QED BY <1>4, <1>5, <1>6, <1>7 DEF SuiteAct

LEMMA FacadeMemory ==
  ASSUME MemoryTypeOK, FacadeTypeOK, FacadeAct
  PROVE  MemoryStep(TaskEvents) /\ UNCHANGED capabilities
<1>0. IsFile(capabilities) BY DEF MemoryTypeOK, IsFile
<1>1. ASSUME UNCHANGED memoryVars PROVE MemoryStep(TaskEvents) /\ UNCHANGED capabilities
      BY <1>0, <1>1, FaultsAssumption DEF memoryVars, MemoryStep, Inserts, MemoryTypeOK
<1>2. ASSUME NEW t \in Threads, RecordTask(t)
      PROVE  MemoryStep(TaskEvents) /\ UNCHANGED capabilities
  <2>1. TaskRequest(request[t].po) \in TaskEvents
        BY DEF FacadeTypeOK, TaskEvents
  <2>2. QED BY <1>0, <1>2, <2>1, OneInsert DEF RecordTask, MemoryStep
<1>3. QED BY <1>1, <1>2 DEF FacadeAct, FacadeStep, InsertTask, SelectTask, FacadeRestart

LEMMA ErpMemory ==
  ASSUME MemoryTypeOK, LegacyTypeOK, ErpAct
  PROVE  MemoryStep(WritebackEvents) /\ UNCHANGED capabilities
<1>0. IsFile(capabilities) BY DEF MemoryTypeOK, IsFile
<1>1. ASSUME UNCHANGED memoryVars PROVE MemoryStep(WritebackEvents) /\ UNCHANGED capabilities
      BY <1>0, <1>1, FaultsAssumption DEF memoryVars, MemoryStep, Inserts, MemoryTypeOK
<1>2. ASSUME NEW t \in Threads, RecordWriteback(t)
      PROVE  MemoryStep(WritebackEvents) /\ UNCHANGED capabilities
  <2>1. job[t].before \in OrderStatuses /\ job[t].po \in Orders BY DEF LegacyTypeOK
  <2>2. Writeback(job[t].before, job[t].po) \in WritebackEvents
        BY <2>1 DEF WritebackEvents
  <2>3. QED BY <1>0, <1>2, <2>2, OneInsert DEF RecordWriteback, MemoryStep
<1>3. QED BY <1>1, <1>2
          DEF ErpAct, LegacyStep, RequestApproval, AssignTools, AppendTool, ClearTools,
              FetchOrder, FilterTools, ResetOrders, LegacyRestart

LEMMA MemoryKept ==
  ASSUME MemoryTypeOK, NEW kinds \in SUBSET EventKinds, MemoryStep(kinds)
  PROVE  MemoryTypeOK'
BY InsertsTyped DEF MemoryTypeOK, MemoryStep, IsFile

LEMMA ServicesInitTyped == ServicesInit => ServicesTypeOK
<1> SUFFICES ASSUME ServicesInit PROVE ServicesTypeOK
    OBVIOUS
<1>1. MemoryTypeOK
  <2>1. IsFile(NoFile(<<>>)) BY DEF IsFile, File, FileStates, NoFile
  <2>2. QED BY <2>1, FaultsAssumption DEF ServicesInit, MemoryInit, MemoryTypeOK, IsFile
<1>2. SuiteTypeOK
  <2>1. IsFile(NoFile(<<>>)) /\ NoFile(FALSE) \in File(BOOLEAN)
        BY DEF IsFile, File, FileStates, NoFile
  <2>2. \A t \in Threads : SoundValidation(validation[t])
        BY NoValidationSound DEF ServicesInit, SuiteInit
  <2>3. QED BY <2>1, <2>2, SuiteTypeUnfolded DEF ServicesInit, SuiteInit, HistoryTypeOK
<1>3. FacadeTypeOK
      BY SomeOrder DEF ServicesInit, FacadeInit, FacadeTypeOK, NoRequest
<1>4. LegacyTypeOK BY LegacyInitTyped DEF ServicesInit
<1>5. QED BY <1>1, <1>2, <1>3, <1>4 DEF ServicesTypeOK

LEMMA ServicesTypeKept == ServicesTypeOK /\ [ServicesNext]_servicesVars => ServicesTypeOK'
<1> SUFFICES ASSUME ServicesTypeOK, [ServicesNext]_servicesVars PROVE ServicesTypeOK'
    OBVIOUS
<1>0. MemoryTypeOK /\ SuiteTypeOK /\ FacadeTypeOK /\ LegacyTypeOK BY DEF ServicesTypeOK
<1>a. /\ SuiteEvents \in SUBSET EventKinds /\ TaskEvents \in SUBSET EventKinds
      /\ WritebackEvents \in SUBSET EventKinds
      BY EventKindsOfServices
<1>b. UNCHANGED suiteVars => SuiteTypeOK' BY <1>0 DEF suiteVars, SuiteTypeOK
<1>c. UNCHANGED facadeVars => FacadeTypeOK' BY <1>0 DEF facadeVars, FacadeTypeOK
<1>d. UNCHANGED erpVars => LegacyTypeOK' BY <1>0 DEF erpVars, LegacyTypeOK
<1>1. CASE SuiteAct
      BY <1>0, <1>1, <1>a, <1>c, <1>d, SuiteMemory, SuiteKept, MemoryKept
         DEF ServicesTypeOK, SuiteAct
<1>2. CASE FacadeAct
      BY <1>0, <1>2, <1>a, <1>b, <1>d, FacadeMemory, FacadeKept, MemoryKept
         DEF ServicesTypeOK, FacadeAct
<1>3. CASE ErpAct
      BY <1>0, <1>3, <1>a, <1>b, <1>c, ErpMemory, LegacyKept, MemoryKept
         DEF ServicesTypeOK, ErpAct
<1>4. CASE UNCHANGED servicesVars
      BY <1>0, <1>4, <1>b, <1>c, <1>d DEF servicesVars, memoryVars, MemoryTypeOK, ServicesTypeOK
<1>5. QED BY <1>1, <1>2, <1>3, <1>4, StepOfOneService

(* Whatever the services do, their tables, files and events keep their     *)
(* types; in particular a step inserts only events of its own service.     *)
THEOREM ServicesTypeCorrect == ServicesSpec => []ServicesTypeOK
<1>1. ServicesInit => ServicesTypeOK BY ServicesInitTyped
<1>2. ServicesTypeOK /\ [ServicesNext]_servicesVars => ServicesTypeOK' BY ServicesTypeKept
<1>3. QED BY <1>1, <1>2, PTL DEF ServicesSpec

----------------------------------------------------------------------------
(* Trusted capabilities rest on a validation.                              *)

Registering == {"read", "open", "fill", "announce"}

(* Before the first recorded success no validation has come as far as the  *)
(* registry, and the registry is empty.                                    *)
TrustInv ==
  \/ Happened(Passed)
  \/ /\ capabilities.content = <<>>
     /\ \A t \in Threads : validation[t].stage \notin Registering

LEMMA TrustHolds == TrustInv => TrustRestsOnValidation
<1>1. Range(<<>>) = {} BY DEF Range
<1>2. QED BY <1>1 DEF TrustInv, TrustRestsOnValidation

LEMMA TrustStart == ServicesInit => TrustInv
BY DEF ServicesInit, MemoryInit, SuiteInit, NoFile, NoValidation, TrustInv, Registering

LEMMA TrustOfSuite ==
  ASSUME ServicesTypeOK, TrustInv, ~Happened(Passed), SuiteAct
  PROVE  TrustInv'
<1>0. /\ capabilities.content = <<>>
      /\ \A t \in Threads : validation[t].stage \notin Registering
      BY DEF TrustInv
<1>a. SuiteTypeOK /\ DOMAIN validation = Threads /\ events \in [EventKinds -> Nat]
      BY SuiteTypeUnfolded DEF ServicesTypeOK, MemoryTypeOK
<1>b. ASSUME UNCHANGED capabilities,
             \A t \in Threads : validation'[t].stage \notin Registering
      PROVE  TrustInv'
      BY <1>0, <1>b DEF TrustInv
<1>c. ASSUME NEW t \in Threads, NEW v, v.stage \notin Registering,
             validation' = [validation EXCEPT ![t] = v], UNCHANGED capabilities
      PROVE  TrustInv'
      BY <1>0, <1>a, <1>b, <1>c
<1>d. NoValidation.stage = "done" BY DEF NoValidation
<1>e. ASSUME NEW t \in Threads, End(t), UNCHANGED capabilities PROVE TrustInv'
      BY <1>c, <1>d, <1>e DEF End, Registering
<1>f. ASSUME NEW t \in Threads, NEW stage, stage \notin Registering, Step(t, stage),
             UNCHANGED capabilities
      PROVE  TrustInv'
  <2>1. \A u \in Threads : validation'[u].stage \notin Registering
        BY <1>0, <1>a, <1>f DEF Step
  <2>2. QED BY <1>b, <1>f, <2>1
<1>1. ASSUME NEW t \in Threads, NEW passes \in BOOLEAN, Validate(t, passes) PROVE TrustInv'
  <2>1. \A u \in Threads : validation'[u].stage \notin Registering
        BY <1>0, <1>1, <1>a DEF Validate, Registering, NoValidation
  <2>2. QED BY <1>1, <1>b, <2>1 DEF Validate, memoryVars
<1>2. ASSUME NEW t \in Threads, ValidationStep(t) PROVE TrustInv'
  <2>1. CASE ReadTimeline(t)
    <3>0. UNCHANGED capabilities BY <2>1 DEF ReadTimeline, memoryVars
    <3>1. CASE End(t) BY <1>e, <3>0, <3>1
    <3>2. CASE ~End(t)
      <4>1. PICK list : validation' = [validation EXCEPT ![t].stage = "open_timeline",
                                                         ![t].seen = list]
            BY <2>1, <3>2 DEF ReadTimeline
      <4>2. \A u \in Threads : validation'[u].stage \notin Registering
            BY <1>0, <1>a, <4>1 DEF Registering
      <4>3. QED BY <1>b, <3>0, <4>2
    <3>3. QED BY <3>1, <3>2
  <2>2. CASE OpenTimeline(t) \/ OpenRegistry(t) \/ FillRegistry(t)
        BY <1>f, <2>2 DEF OpenTimeline, OpenRegistry, FillRegistry, Registering, memoryVars
  <2>3. CASE FillTimeline(t)
    <3>1. \A u \in Threads : validation'[u].stage \notin Registering
          BY <1>0, <1>a, <2>3 DEF FillTimeline, Registering
    <3>2. QED BY <1>b, <2>3, <3>1 DEF FillTimeline, memoryVars
  <2>4. CASE RecordResult(t)
    <3>1. CASE validation[t].passes /\ Record(Passed)
      <4>1. Passed \in EventKinds BY DEF EventKinds
      <4>2. events'[Passed] > 0 BY <1>a, <3>1, <4>1 DEF Record
      <4>3. QED BY <4>2 DEF TrustInv, Happened
    <3>2. CASE ~validation[t].passes \/ InsertFails
      <4>1. End(t) \/ (validation[t].passes /\ Record(Passed)) BY <2>4, <3>2 DEF RecordResult
      <4>2. QED BY <1>e, <2>4, <3>1, <4>1 DEF RecordResult
    <3>3. QED BY <2>4, <3>1, <3>2 DEF RecordResult
  <2>5. ~(ReadCapabilities(t) \/ OpenCapabilities(t) \/ FillCapabilities(t) \/ Announce(t))
        BY <1>0 DEF ReadCapabilities, OpenCapabilities, FillCapabilities, Announce, Registering
  <2>6. QED BY <1>2, <2>1, <2>2, <2>3, <2>4, <2>5 DEF ValidationStep
<1>3. CASE RecordGap \/ RecordApproval
      BY <1>0, <1>3 DEF RecordGap, RecordApproval, RecordOnly, suiteVars, TrustInv
<1>4. CASE SuiteRestart
      BY <1>b, <1>d, <1>4 DEF SuiteRestart, memoryVars, Registering
<1>5. QED BY <1>1, <1>2, <1>3, <1>4 DEF SuiteAct

LEMMA EventsGrow ==
  ASSUME ServicesTypeOK, [ServicesNext]_servicesVars
  PROVE  \A event \in EventKinds : events'[event] >= events[event]
<1>0. /\ MemoryTypeOK /\ SuiteTypeOK /\ FacadeTypeOK /\ LegacyTypeOK
      /\ events \in [EventKinds -> Nat]
      BY DEF ServicesTypeOK, MemoryTypeOK
<1>a. /\ SuiteEvents \in SUBSET EventKinds /\ TaskEvents \in SUBSET EventKinds
      /\ WritebackEvents \in SUBSET EventKinds
      BY EventKindsOfServices
<1>1. CASE SuiteAct BY <1>0, <1>1, <1>a, SuiteMemory, InsertsTyped DEF MemoryStep
<1>2. CASE FacadeAct BY <1>0, <1>2, <1>a, FacadeMemory, InsertsTyped DEF MemoryStep
<1>3. CASE ErpAct BY <1>0, <1>3, <1>a, ErpMemory, InsertsTyped DEF MemoryStep
<1>4. CASE UNCHANGED servicesVars BY <1>0, <1>4 DEF servicesVars, memoryVars
<1>5. QED BY <1>1, <1>2, <1>3, <1>4, StepOfOneService

LEMMA TrustStep == ServicesTypeOK /\ TrustInv /\ [ServicesNext]_servicesVars => TrustInv'
<1> SUFFICES ASSUME ServicesTypeOK, TrustInv, [ServicesNext]_servicesVars PROVE TrustInv'
    OBVIOUS
<1>1. CASE Happened(Passed)
  <2>1. Passed \in EventKinds BY DEF EventKinds
  <2>2. events[Passed] \in Nat BY <2>1 DEF ServicesTypeOK, MemoryTypeOK
  <2>3. events' \in [EventKinds -> Nat] BY ServicesTypeKept DEF ServicesTypeOK, MemoryTypeOK
  <2>4. events'[Passed] > 0 BY <1>1, <2>1, <2>2, <2>3, EventsGrow DEF Happened
  <2>5. QED BY <2>4 DEF TrustInv, Happened
<1>2. CASE ~Happened(Passed)
  <2>1. CASE SuiteAct BY <1>2, <2>1, TrustOfSuite
  <2>2. ASSUME UNCHANGED capabilities, UNCHANGED suiteVars PROVE TrustInv'
        BY <1>2, <2>2 DEF TrustInv, suiteVars
  <2>3. CASE FacadeAct
        BY <2>2, <2>3, FacadeMemory DEF FacadeAct, ServicesTypeOK
  <2>4. CASE ErpAct
        BY <2>2, <2>4, ErpMemory DEF ErpAct, ServicesTypeOK
  <2>5. CASE UNCHANGED servicesVars BY <2>2, <2>5 DEF servicesVars, memoryVars
  <2>6. QED BY <2>1, <2>3, <2>4, <2>5, StepOfOneService
<1>3. QED BY <1>1, <1>2

(* However validations overlap, fail half-way or are cut off by a restart: *)
(* capabilities.json names a capability only after a validation passed and *)
(* its result was recorded, because record_validation_memory registers     *)
(* only after its first insert.                                            *)
THEOREM TrustIsValidated == ServicesSpec => []TrustRestsOnValidation
<1>1. ServicesInit => TrustInv BY TrustStart
<1>2. ServicesTypeOK /\ TrustInv /\ [ServicesNext]_servicesVars => TrustInv' BY TrustStep
<1>3. QED BY <1>1, <1>2, ServicesTypeCorrect, TrustHolds, PTL DEF ServicesSpec

----------------------------------------------------------------------------
(* One approval task per order.                                            *)

(* A request that has looked for the task asks for a case, and the task it *)
(* found is still there: only a restart, which ends the request, takes a   *)
(* task away.                                                              *)
LookedUp ==
  \A t \in Threads : request[t].stage = "selected" =>
    /\ request[t].source \in SourceCases
    /\ request[t].found => approvalTasks[request[t].po] # NoCase

LEMMA TaskStart == ServicesInit => OneTaskPerOrder /\ LookedUp
BY DEF ServicesInit, FacadeInit, NoRequest, OneTaskPerOrder, LookedUp

LEMMA TaskOfFacade ==
  ASSUME FacadeTypeOK, OneTaskPerOrder, LookedUp, FacadeAct
  PROVE  OneTaskPerOrder' /\ LookedUp'
<1>0. /\ approvalTasks \in [Orders -> SourceCases \cup {NoCase}] /\ audits \in [Orders -> Nat]
      /\ DOMAIN request = Threads
      /\ \A t \in Threads : request[t].po \in Orders
      BY DEF FacadeTypeOK
<1>1. ASSUME NEW t \in Threads, NEW po \in Orders, NEW source \in SourceCases,
             SelectTask(t, po, source)
      PROVE  OneTaskPerOrder' /\ LookedUp'
      BY <1>0, <1>1 DEF SelectTask, OneTaskPerOrder, LookedUp
<1>2. ASSUME NEW t \in Threads, InsertTask(t)
      PROVE  OneTaskPerOrder' /\ LookedUp'
  <2> DEFINE r == request[t]
  <2>0. r.stage = "selected" /\ r.po \in Orders /\ r.source \in SourceCases /\ r.source # NoCase
        BY <1>0, <1>2, SourceCasesAssumption DEF InsertTask, LookedUp
  <2>1. CASE /\ r.found
             /\ request' = [request EXCEPT ![t].stage = "created"]
             /\ UNCHANGED <<approvalTasks, audits>>
        BY <1>0, <2>0, <2>1 DEF OneTaskPerOrder, LookedUp
  <2>2. CASE /\ ~r.found /\ approvalTasks[r.po] = NoCase
             /\ approvalTasks' = [approvalTasks EXCEPT ![r.po] = r.source]
             /\ audits' = [audits EXCEPT ![r.po] = @ + 1]
             /\ request' = [request EXCEPT ![t].stage = "created"]
    <3>1. audits[r.po] = 0 BY <2>0, <2>2 DEF OneTaskPerOrder
    <3>2. \A po \in Orders : audits'[po] = IF approvalTasks'[po] = NoCase THEN 0 ELSE 1
          BY <1>0, <2>0, <2>2, <3>1 DEF OneTaskPerOrder
    <3>3. \A po \in Orders : approvalTasks[po] # NoCase => approvalTasks'[po] # NoCase
          BY <1>0, <2>0, <2>2
    <3>4. approvalTasks'[r.po] # NoCase BY <1>0, <2>0, <2>2
    <3>5. \A u \in Threads : /\ request'[u].po = request[u].po
                             /\ request'[u].found = request[u].found
                             /\ request'[u].source = request[u].source
                             /\ u # t => request'[u].stage = request[u].stage
          BY <1>0, <2>2
    <3>6. request'[t].stage = "created" BY <1>0, <2>2
    <3>7. OneTaskPerOrder' BY <1>0, <3>2, <3>3, <3>4, <3>5 DEF OneTaskPerOrder
    <3>8. LookedUp' BY <1>0, <3>3, <3>5, <3>6 DEF LookedUp
    <3>9. QED BY <3>7, <3>8
  <2>3. CASE FinishRequest(t) /\ UNCHANGED <<approvalTasks, audits>>
        BY <1>0, <2>3 DEF FinishRequest, NoRequest, OneTaskPerOrder, LookedUp
  <2>4. QED BY <1>2, <2>1, <2>2, <2>3 DEF InsertTask
<1>3. ASSUME NEW t \in Threads, RecordTask(t)
      PROVE  OneTaskPerOrder' /\ LookedUp'
      BY <1>0, <1>3 DEF RecordTask, FinishRequest, NoRequest, OneTaskPerOrder, LookedUp
<1>4. CASE FacadeRestart
      BY <1>0, <1>4 DEF FacadeRestart, NoRequest, OneTaskPerOrder, LookedUp
<1>5. QED BY <1>1, <1>2, <1>3, <1>4 DEF FacadeAct, FacadeStep

LEMMA TaskStep ==
  ServicesTypeOK /\ OneTaskPerOrder /\ LookedUp /\ [ServicesNext]_servicesVars
    => OneTaskPerOrder' /\ LookedUp'
<1> SUFFICES ASSUME ServicesTypeOK, OneTaskPerOrder, LookedUp, [ServicesNext]_servicesVars
             PROVE  OneTaskPerOrder' /\ LookedUp'
    OBVIOUS
<1>1. UNCHANGED facadeVars => OneTaskPerOrder' /\ LookedUp'
      BY DEF facadeVars, OneTaskPerOrder, LookedUp
<1>2. CASE FacadeAct BY <1>2, TaskOfFacade DEF ServicesTypeOK
<1>3. QED BY <1>1, <1>2, StepOfOneService DEF SuiteAct, ErpAct, servicesVars

(* Requests for the same order may race, because the look-up is outside    *)
(* the transaction, and a restart empties the tables under them: an order  *)
(* has one audit log exactly when it has a task, and a 202 is for a task   *)
(* that exists.                                                            *)
THEOREM TasksAreUnique == ServicesSpec => []OneTaskPerOrder
<1>1. ServicesInit => OneTaskPerOrder /\ LookedUp BY TaskStart
<1>2. ServicesTypeOK /\ OneTaskPerOrder /\ LookedUp /\ [ServicesNext]_servicesVars
        => OneTaskPerOrder' /\ LookedUp'
      BY TaskStep
<1>3. QED BY <1>1, <1>2, ServicesTypeCorrect, PTL DEF ServicesSpec

----------------------------------------------------------------------------
(* A tool is registered once.                                              *)

(* As long as no two changes of the tools have overlapped, a thread that   *)
(* changes them is alone: the list it has filtered is the whole truth, and *)
(* between assigning and appending its tool is in no entry.                *)
ToolInv ==
  \/ overlapping
  \/ /\ \A tool \in Tools : tools[tool] <= 1
     /\ \A t, u \in Threads :
          job[t].stage \in ToolStages /\ job[u].stage \in ToolStages => t = u
     /\ \A t \in Threads : job[t].stage = "filtered" =>
          /\ job[t].list[job[t].tool] = 0
          /\ \A tool \in Tools : job[t].list[tool] <= 1
     /\ \A t \in Threads : job[t].stage = "assigned" => tools[job[t].tool] = 0

LEMMA JobFacts ==
  ASSUME LegacyTypeOK
  PROVE  /\ DOMAIN job = Threads /\ DOMAIN tools = Tools /\ DOMAIN status = Orders
         /\ \A tool \in Tools : tools[tool] \in Nat
         /\ \A t \in Threads : /\ job[t].po \in Orders /\ job[t].tool \in Tools
                               /\ job[t].before \in OrderStatuses
                               /\ job[t].list \in [Tools -> Nat]
         /\ resets \in Nat /\ overlapping \in BOOLEAN
BY ResetsAssumption DEF LegacyTypeOK

LEMMA NoJobDone == NoJob.stage = "done"
BY DEF NoJob

LEMMA ToolStart == ServicesInit => ToolInv
BY NoJobDone DEF ServicesInit, LegacyInit, ToolInv, ToolStages, NoTools

(* A step of the ERP's that leaves the tools, and whatever threads are     *)
(* changing them, alone.                                                   *)
LEMMA ToolsLeftAlone ==
  ASSUME ToolInv, overlapping => overlapping', UNCHANGED tools,
         \A t \in Threads : job'[t].stage \in ToolStages => job'[t] = job[t]
  PROVE  ToolInv'
BY DEF ToolInv, ToolStages

LEMMA ToolOfErp ==
  ASSUME LegacyTypeOK, ToolInv, ErpAct
  PROVE  ToolInv'
<1>0. /\ DOMAIN job = Threads /\ DOMAIN tools = Tools
      /\ \A tool \in Tools : tools[tool] \in Nat
      /\ \A t \in Threads : job[t].tool \in Tools
      BY JobFacts
<1>1. ASSUME NEW t \in Threads, NEW po \in Orders, FetchOrder(t, po) PROVE ToolInv'
  <2>1. [NoJob EXCEPT !.stage = "fetched", !.po = po, !.before = status[po]].stage = "fetched"
        BY DEF NoJob
  <2>2. \A u \in Threads : job'[u].stage \in ToolStages => job'[u] = job[u]
        BY <1>0, <1>1, <2>1 DEF FetchOrder, ToolStages
  <2>3. QED BY <1>1, <2>2, ToolsLeftAlone DEF FetchOrder, Overlaps
<1>2. ASSUME NEW t \in Threads, NEW tool \in Tools, FilterTools(t, tool) PROVE ToolInv'
  <2> DEFINE j == [NoJob EXCEPT !.stage = "filtered", !.tool = tool, !.list = Others(tool)]
  <2>1. j.stage = "filtered" /\ j.tool = tool /\ j.list = Others(tool) BY DEF NoJob
  <2>2. job'[t] = j /\ \A u \in Threads \ {t} : job'[u] = job[u]
        BY <1>0, <1>2 DEF FilterTools
  <2> HIDE DEF j
  <2>3. CASE Overlaps(ToolStages) BY <1>2, <2>3 DEF FilterTools, ToolInv
  <2>4. CASE ~Overlaps(ToolStages)
    <3>1. ~overlapping /\ \A u \in Threads : job[u].stage \notin ToolStages
          BY <2>4 DEF Overlaps
    <3>2. \A x \in Tools : tools[x] <= 1 BY <3>1 DEF ToolInv
    <3>3. Others(tool)[tool] = 0 /\ \A x \in Tools : Others(tool)[x] <= 1
          BY <1>0, <3>2 DEF Others
    <3>4. \A u \in Threads \ {t} : job'[u].stage \notin ToolStages BY <2>2, <3>1
    <3>5. UNCHANGED tools BY <1>2 DEF FilterTools
    <3>6. QED BY <2>1, <2>2, <3>2, <3>3, <3>4, <3>5 DEF ToolInv, ToolStages
  <2>5. QED BY <2>3, <2>4
<1>3. ASSUME NEW t \in Threads, ResetOrders(t) PROVE ToolInv'
  <2>1. [NoJob EXCEPT !.stage = "reset"].stage = "reset" BY DEF NoJob
  <2>2. job'[t].stage = "reset" /\ \A u \in Threads \ {t} : job'[u] = job[u]
        BY <1>0, <1>3, <2>1 DEF ResetOrders
  <2>3. CASE overlapping' BY <2>3 DEF ToolInv
  <2>4. CASE ~overlapping'
    <3>1. ~overlapping /\ \A u \in Threads : job[u].stage \notin ToolStages
          BY <1>3, <2>4 DEF ResetOrders, Overlaps
    <3>2. UNCHANGED tools BY <1>3 DEF ResetOrders
    <3>3. QED BY <2>2, <3>1, <3>2 DEF ToolInv, ToolStages
  <2>5. QED BY <2>3, <2>4
<1>4. ASSUME NEW t \in Threads, RequestApproval(t) PROVE ToolInv'
  <2>1. job'[t].stage = "requested" /\ \A u \in Threads \ {t} : job'[u] = job[u]
        BY <1>0, <1>4 DEF RequestApproval
  <2>2. \A u \in Threads : job'[u].stage \in ToolStages => job'[u] = job[u]
        BY <2>1 DEF ToolStages
  <2>3. QED BY <1>4, <2>2, ToolsLeftAlone DEF RequestApproval
<1>5. ASSUME NEW t \in Threads, RecordWriteback(t) PROVE ToolInv'
  <2>1. job'[t].stage = "done" /\ \A u \in Threads \ {t} : job'[u] = job[u]
        BY <1>0, <1>5, NoJobDone DEF RecordWriteback
  <2>2. \A u \in Threads : job'[u].stage \in ToolStages => job'[u] = job[u]
        BY <2>1 DEF ToolStages
  <2>3. QED BY <1>5, <2>2, ToolsLeftAlone DEF RecordWriteback
<1>6. ASSUME NEW t \in Threads, AssignTools(t) PROVE ToolInv'
  <2>0. job[t].stage = "filtered" /\ job[t].stage \in ToolStages
        BY <1>6 DEF AssignTools, ToolStages
  <2>1. /\ job'[t].stage = "assigned" /\ job'[t].tool = job[t].tool
        /\ \A u \in Threads \ {t} : job'[u] = job[u]
        BY <1>0, <1>6 DEF AssignTools
  <2>2. tools' = job[t].list /\ overlapping' = overlapping BY <1>6 DEF AssignTools
  <2>3. QED BY <2>0, <2>1, <2>2 DEF ToolInv, ToolStages
<1>7. ASSUME NEW t \in Threads, AppendTool(t) PROVE ToolInv'
  <2>0. job[t].stage = "assigned" /\ job[t].stage \in ToolStages
        BY <1>7 DEF AppendTool, ToolStages
  <2>1. job'[t].stage = "done" /\ \A u \in Threads \ {t} : job'[u] = job[u]
        BY <1>0, <1>7, NoJobDone DEF AppendTool
  <2>2. overlapping' = overlapping BY <1>7 DEF AppendTool
  <2>3. CASE overlapping BY <2>2, <2>3 DEF ToolInv
  <2>4. CASE ~overlapping
    <3>1. tools[job[t].tool] = 0 /\ \A x \in Tools : tools[x] <= 1
          BY <2>0, <2>4 DEF ToolInv
    <3>2. \A x \in Tools : tools'[x] <= 1 BY <1>0, <1>7, <3>1 DEF AppendTool
    <3>3. \A u \in Threads : job'[u].stage \notin ToolStages
          BY <2>0, <2>1, <2>4 DEF ToolInv, ToolStages
    <3>4. QED BY <3>2, <3>3 DEF ToolInv, ToolStages
  <2>5. QED BY <2>3, <2>4
<1>8. ASSUME NEW t \in Threads, ClearTools(t) PROVE ToolInv'
  <2>0. job[t].stage = "reset" /\ job[t].stage \in ToolStages
        BY <1>8 DEF ClearTools, ToolStages
  <2>1. job'[t].stage = "done" /\ \A u \in Threads \ {t} : job'[u] = job[u]
        BY <1>0, <1>8, NoJobDone DEF ClearTools
  <2>2. overlapping' = overlapping /\ tools' = NoTools BY <1>8 DEF ClearTools
  <2>3. \A x \in Tools : tools'[x] <= 1 BY <2>2 DEF NoTools
  <2>4. overlapping \/ \A u \in Threads : job'[u].stage \notin ToolStages
        BY <2>0, <2>1 DEF ToolInv, ToolStages
  <2>5. QED BY <2>2, <2>3, <2>4 DEF ToolInv, ToolStages
<1>9. CASE LegacyRestart
  <2>1. \A u \in Threads : job'[u].stage = "done" BY <1>9, NoJobDone DEF LegacyRestart
  <2>2. \A x \in Tools : tools'[x] <= 1 BY <1>9 DEF LegacyRestart, NoTools
  <2>3. QED BY <2>1, <2>2 DEF ToolInv, ToolStages
<1>10. QED BY <1>1, <1>2, <1>3, <1>4, <1>5, <1>6, <1>7, <1>8, <1>9 DEF ErpAct, LegacyStep

LEMMA ToolStep == ServicesTypeOK /\ ToolInv /\ [ServicesNext]_servicesVars => ToolInv'
<1> SUFFICES ASSUME ServicesTypeOK, ToolInv, [ServicesNext]_servicesVars PROVE ToolInv'
    OBVIOUS
<1>1. UNCHANGED erpVars => ToolInv' BY DEF erpVars, ToolInv
<1>2. CASE ErpAct BY <1>2, ToolOfErp DEF ServicesTypeOK
<1>3. QED BY <1>1, <1>2, StepOfOneService DEF SuiteAct, FacadeAct, servicesVars

(* register_tool assigns a filtered list and then appends to it: unless    *)
(* two changes of the tools have overlapped, whatever resets and restarts  *)
(* come between, no tool is registered twice.                              *)
THEOREM ToolsRegisteredOnce == ServicesSpec => []ToolRegisteredOnce
<1>1. ServicesInit => ToolInv BY ToolStart
<1>2. ServicesTypeOK /\ ToolInv /\ [ServicesNext]_servicesVars => ToolInv' BY ToolStep
<1>3. ToolInv => ToolRegisteredOnce BY DEF ToolInv, ToolRegisteredOnce
<1>4. QED BY <1>1, <1>2, <1>3, ServicesTypeCorrect, PTL DEF ServicesSpec

----------------------------------------------------------------------------
(* The first write-back is reported once.                                  *)

LEMMA TablesStart == ServicesInit => WritebackTablesAgree
BY DEF ServicesInit, LegacyInit, WritebackTablesAgree

LEMMA TablesOfErp ==
  ASSUME LegacyTypeOK, WritebackTablesAgree, ErpAct
  PROVE  WritebackTablesAgree'
<1>0. /\ status \in [Orders -> OrderStatuses] /\ logs \in [Orders -> Nat]
      /\ traces \in [Orders -> BOOLEAN]
      BY DEF LegacyTypeOK
<1>1. ASSUME NEW t \in Threads, RequestApproval(t) PROVE WritebackTablesAgree'
      BY <1>0, <1>1, JobFacts DEF RequestApproval, WritebackTablesAgree
<1>2. Reseeded => WritebackTablesAgree' BY DEF Reseeded, WritebackTablesAgree
<1>3. UNCHANGED <<status, logs, traces>> => WritebackTablesAgree' BY DEF WritebackTablesAgree
<1>4. QED BY <1>1, <1>2, <1>3
          DEF ErpAct, LegacyStep, RecordWriteback, AssignTools, AppendTool, ClearTools,
              FetchOrder, FilterTools, ResetOrders, LegacyRestart

(* As long as no two write-backs have overlapped, a thread with one is     *)
(* alone, knows the order's status, and an order that is in Exception, or  *)
(* was when this thread read it, has had at most one report per reset.     *)
Reports(inserted, po) == inserted[Writeback("Exception", po)]

ReportInv ==
  \/ overlapping
  \/ /\ \A t, u \in Threads :
          job[t].stage \in WritebackStages /\ job[u].stage \in WritebackStages => t = u
     /\ \A t \in Threads : job[t].stage = "fetched" => job[t].before = status[job[t].po]
     /\ \A t \in Threads : job[t].stage = "requested" =>
          /\ status[job[t].po] = "PENDING_MANAGER_APPROVAL"
          /\ job[t].before = "Exception" => Reports(events, job[t].po) <= resets
     /\ \A po \in Orders : /\ status[po] = "Exception" => Reports(events, po) <= resets
                           /\ Reports(events, po) <= resets + 1

LEMMA ReportsTyped ==
  ASSUME MemoryTypeOK, NEW po \in Orders
  PROVE  /\ Writeback("Exception", po) \in EventKinds /\ Reports(events, po) \in Nat
         /\ Writeback("Exception", po) \notin SuiteEvents \cup TaskEvents
<1>1. Writeback("Exception", po) \in WritebackEvents
      BY DEF WritebackEvents, OrderStatuses
<1>2. Writeback("Exception", po) \in EventKinds BY <1>1, EventKindsOfServices
<1>3. QED BY <1>1, <1>2, WritebackIsDistinct DEF MemoryTypeOK, Reports

LEMMA ReportStart == ServicesInit => ReportInv
<1> SUFFICES ASSUME ServicesInit PROVE ReportInv
    OBVIOUS
<1>1. resets = 0 /\ \A t \in Threads : job[t].stage = "done"
      BY NoJobDone DEF ServicesInit, LegacyInit
<1>2. \A po \in Orders : Reports(events, po) = 0
  <2> TAKE po \in Orders
  <2>1. Writeback("Exception", po) \in EventKinds
        BY EventKindsOfServices DEF WritebackEvents, OrderStatuses
  <2>2. QED BY <2>1 DEF ServicesInit, MemoryInit, Reports
<1>3. QED BY <1>1, <1>2 DEF ReportInv, WritebackStages

(* A step that leaves the orders, and whatever threads are writing back,   *)
(* alone.                                                                  *)
LEMMA OrdersLeftAlone ==
  ASSUME LegacyTypeOK, ReportInv, overlapping => overlapping', UNCHANGED <<status, resets>>,
         \A po \in Orders : Reports(events', po) = Reports(events, po),
         \A t \in Threads : job'[t].stage \in WritebackStages => job'[t] = job[t]
  PROVE  ReportInv'
BY JobFacts DEF ReportInv, WritebackStages

LEMMA ReportOfErp ==
  ASSUME MemoryTypeOK, LegacyTypeOK, ReportInv, ErpAct
  PROVE  ReportInv'
<1>0. /\ DOMAIN job = Threads /\ DOMAIN status = Orders /\ resets \in Nat
      /\ \A t \in Threads : job[t].po \in Orders
      /\ \A po \in Orders : Reports(events, po) \in Nat
      BY JobFacts, ReportsTyped
<1>a. ASSUME UNCHANGED memoryVars
      PROVE  \A po \in Orders : Reports(events', po) = Reports(events, po)
      BY <1>a DEF memoryVars, Reports
<1>1. ASSUME NEW t \in Threads, NEW po \in Orders, FetchOrder(t, po) PROVE ReportInv'
  <2> DEFINE j == [NoJob EXCEPT !.stage = "fetched", !.po = po, !.before = status[po]]
  <2>1. j.stage = "fetched" /\ j.po = po /\ j.before = status[po] BY DEF NoJob
  <2>2. job'[t] = j /\ \A u \in Threads \ {t} : job'[u] = job[u]
        BY <1>0, <1>1 DEF FetchOrder
  <2> HIDE DEF j
  <2>3. CASE overlapping' BY <2>3 DEF ReportInv
  <2>4. CASE ~overlapping'
    <3>1. ~overlapping /\ \A u \in Threads : job[u].stage \notin WritebackStages
          BY <1>1, <2>4 DEF FetchOrder, Overlaps
    <3>2. /\ status' = status /\ resets' = resets
          /\ \A qo \in Orders : Reports(events', qo) = Reports(events, qo)
          BY <1>1, <1>a DEF FetchOrder
    <3>3. \A qo \in Orders : /\ status[qo] = "Exception" => Reports(events, qo) <= resets
                             /\ Reports(events, qo) <= resets + 1
          BY <3>1 DEF ReportInv
    <3>4. \A qo \in Orders : /\ status'[qo] = "Exception" => Reports(events', qo) <= resets'
                             /\ Reports(events', qo) <= resets' + 1
          BY <3>2, <3>3
    <3>5. \A u \in Threads : job'[u].stage \in WritebackStages => u = t BY <2>2, <3>1
    <3>6. job'[t].stage = "fetched" /\ job'[t].before = status'[job'[t].po]
          BY <2>1, <2>2, <3>2
    <3>7. QED BY <3>4, <3>5, <3>6 DEF ReportInv, WritebackStages
  <2>5. QED BY <2>3, <2>4
<1>2. ASSUME NEW t \in Threads, RequestApproval(t) PROVE ReportInv'
  <2> DEFINE po == job[t].po
  <2>0. job[t].stage = "fetched" /\ job[t].stage \in WritebackStages
        BY <1>2 DEF RequestApproval, WritebackStages
  <2>1. /\ job'[t].stage = "requested" /\ job'[t].po = po /\ job'[t].before = job[t].before
        /\ \A u \in Threads \ {t} : job'[u] = job[u]
        BY <1>0, <1>2 DEF RequestApproval
  <2>2. /\ status' = [status EXCEPT ![po] = "PENDING_MANAGER_APPROVAL"]
        /\ resets' = resets /\ overlapping' = overlapping
        /\ \A qo \in Orders : Reports(events', qo) = Reports(events, qo)
        BY <1>2, <1>a DEF RequestApproval
  <2>3. CASE overlapping BY <2>2, <2>3 DEF ReportInv
  <2>4. CASE ~overlapping
    <3>1. /\ \A u \in Threads : job[u].stage \in WritebackStages => u = t
          /\ job[t].before = status[po]
          /\ \A qo \in Orders : /\ status[qo] = "Exception" => Reports(events, qo) <= resets
                                /\ Reports(events, qo) <= resets + 1
          BY <2>0, <2>4 DEF ReportInv
    <3>2. po \in Orders BY <1>0
    <3>3. job[t].before = "Exception" => Reports(events, po) <= resets BY <3>1, <3>2
    <3>4. status'[po] = "PENDING_MANAGER_APPROVAL" BY <1>0, <2>2, <3>2
    <3>5. \A qo \in Orders : /\ status'[qo] = "Exception" => Reports(events', qo) <= resets'
                             /\ Reports(events', qo) <= resets' + 1
          BY <1>0, <2>2, <3>1, <3>2, <3>4
    <3>6. \A u \in Threads : job'[u].stage \in WritebackStages => u = t BY <2>1, <3>1
    <3>7. job'[t].before = "Exception" => Reports(events', job'[t].po) <= resets'
          BY <2>1, <2>2, <3>2, <3>3 DEF Reports
    <3>8. QED BY <2>1, <3>4, <3>5, <3>6, <3>7 DEF ReportInv, WritebackStages
  <2>5. QED BY <2>3, <2>4
<1>4. ASSUME NEW t \in Threads, NEW tool \in Tools, FilterTools(t, tool) PROVE ReportInv'
  <2>1. [NoJob EXCEPT !.stage = "filtered", !.tool = tool, !.list = Others(tool)].stage = "filtered"
        BY DEF NoJob
  <2>2. \A u \in Threads : job'[u].stage \in WritebackStages => job'[u] = job[u]
        BY <1>0, <1>4, <2>1 DEF FilterTools, WritebackStages
  <2>3. QED BY <1>4, <1>a, <2>2, OrdersLeftAlone DEF FilterTools, Overlaps
<1>5. ASSUME NEW t \in Threads, AssignTools(t) \/ AppendTool(t) \/ ClearTools(t) PROVE ReportInv'
  <2>0. job'[t].stage \in {"assigned", "done"} /\ \A u \in Threads \ {t} : job'[u] = job[u]
    <3>1. CASE AssignTools(t) BY <1>0, <3>1 DEF AssignTools
    <3>2. CASE AppendTool(t) BY <1>0, <3>2, NoJobDone DEF AppendTool
    <3>3. CASE ClearTools(t) BY <1>0, <3>3, NoJobDone DEF ClearTools
    <3>4. QED BY <1>5, <3>1, <3>2, <3>3
  <2>1. \A u \in Threads : job'[u].stage \in WritebackStages => job'[u] = job[u]
        BY <2>0 DEF WritebackStages
  <2>2. QED BY <1>5, <1>a, <2>1, OrdersLeftAlone DEF AssignTools, AppendTool, ClearTools
<1>6. ASSUME resets' = resets + 1, UNCHANGED memoryVars,
             overlapping' \/ \A u \in Threads : job'[u].stage \notin WritebackStages,
             overlapping => overlapping'
      PROVE  ReportInv'
  <2>1. CASE overlapping' BY <2>1 DEF ReportInv
  <2>2. CASE ~overlapping'
    <3>1. \A po \in Orders : Reports(events', po) <= resets'
      <4> TAKE po \in Orders
      <4>1. Reports(events, po) <= resets + 1 BY <1>6, <2>2 DEF ReportInv
      <4>2. Reports(events', po) = Reports(events, po) BY <1>6, <1>a
      <4>3. QED BY <1>6, <4>1, <4>2
    <3>2. \A po \in Orders : Reports(events', po) <= resets' + 1
      <4> TAKE po \in Orders
      <4>1. Reports(events', po) <= resets' /\ Reports(events', po) = Reports(events, po)
            BY <1>6, <1>a, <3>1
      <4>2. QED BY <1>0, <1>6, <4>1
    <3>3. QED BY <1>6, <2>2, <3>1, <3>2 DEF ReportInv, WritebackStages
  <2>3. QED BY <2>1, <2>2
<1>7. ASSUME NEW t \in Threads, ResetOrders(t) PROVE ReportInv'
  <2>1. [NoJob EXCEPT !.stage = "reset"].stage = "reset" BY DEF NoJob
  <2>2. job'[t].stage = "reset" /\ \A u \in Threads \ {t} : job'[u] = job[u]
        BY <1>0, <1>7, <2>1 DEF ResetOrders
  <2>3. overlapping' \/ \A u \in Threads : job[u].stage \notin WritebackStages
        BY <1>7 DEF ResetOrders, Overlaps
  <2>4. overlapping' \/ \A u \in Threads : job'[u].stage \notin WritebackStages
        BY <2>2, <2>3 DEF WritebackStages
  <2>5. QED BY <1>6, <1>7, <2>4 DEF ResetOrders, Overlaps
<1>8. CASE LegacyRestart
  <2>1. \A u \in Threads : job'[u].stage = "done" BY <1>8, NoJobDone DEF LegacyRestart
  <2>2. QED BY <1>6, <1>8, <2>1 DEF LegacyRestart, WritebackStages
<1>9. ASSUME NEW t \in Threads, RecordWriteback(t) PROVE ReportInv'
  <2> DEFINE po == job[t].po
             before == job[t].before
  <2>0. job[t].stage = "requested" /\ job[t].stage \in WritebackStages
        BY <1>9 DEF RecordWriteback, WritebackStages
  <2>1. job'[t].stage = "done" /\ \A u \in Threads \ {t} : job'[u] = job[u]
        BY <1>0, <1>9, NoJobDone DEF RecordWriteback
  <2>2. UNCHANGED <<status, resets, overlapping>> BY <1>9 DEF RecordWriteback
  <2>3. CASE overlapping BY <2>2, <2>3 DEF ReportInv
  <2>4. CASE ~overlapping
    <3>1. /\ \A u \in Threads : job[u].stage \in WritebackStages => u = t
          /\ status[po] = "PENDING_MANAGER_APPROVAL"
          /\ before = "Exception" => Reports(events, po) <= resets
          /\ \A qo \in Orders : /\ status[qo] = "Exception" => Reports(events, qo) <= resets
                                /\ Reports(events, qo) <= resets + 1
          BY <2>0, <2>4 DEF ReportInv
    <3>2. ASSUME NEW qo \in Orders
          PROVE  \/ Reports(events', qo) = Reports(events, qo)
                 \/ /\ qo = po /\ before = "Exception"
                    /\ Reports(events', qo) = Reports(events, qo) + 1
      <4>1. UNCHANGED events \/ events' = [events EXCEPT ![Writeback(before, po)] = @ + 1]
            BY <1>9 DEF RecordWriteback, Record, InsertFails
      <4>2. events \in [EventKinds -> Nat] /\ Writeback("Exception", qo) \in EventKinds
            BY ReportsTyped DEF MemoryTypeOK
      <4>3. CASE Writeback("Exception", qo) = Writeback(before, po)
        <5>1. before = "Exception" /\ qo = po BY <4>3, WritebackInjective
        <5>2. QED BY <4>1, <4>2, <4>3, <5>1 DEF Reports
      <4>4. CASE Writeback("Exception", qo) # Writeback(before, po)
            BY <4>1, <4>2, <4>4 DEF Reports
      <4>5. QED BY <4>3, <4>4
    <3>3. \A qo \in Orders : /\ status'[qo] = "Exception" => Reports(events', qo) <= resets'
                             /\ Reports(events', qo) <= resets' + 1
      <4> TAKE qo \in Orders
      <4>1. CASE Reports(events', qo) = Reports(events, qo) BY <2>2, <3>1, <4>1
      <4>2. CASE qo = po /\ before = "Exception" /\ Reports(events', qo) = Reports(events, qo) + 1
        <5>1. Reports(events, po) <= resets /\ status'[qo] # "Exception" BY <2>2, <3>1, <4>2
        <5>2. Reports(events', qo) <= resets' + 1 BY <1>0, <2>2, <4>2, <5>1
        <5>3. QED BY <5>1, <5>2
      <4>3. QED BY <3>2, <4>1, <4>2
    <3>4. \A u \in Threads : job'[u].stage \notin WritebackStages
          BY <2>1, <3>1 DEF WritebackStages
    <3>5. QED BY <3>3, <3>4 DEF ReportInv, WritebackStages
  <2>5. QED BY <2>3, <2>4
<1>10. QED BY <1>1, <1>2, <1>4, <1>5, <1>7, <1>8, <1>9 DEF ErpAct, LegacyStep

LEMMA ReportStep ==
  ServicesTypeOK /\ ReportInv /\ WritebackTablesAgree /\ [ServicesNext]_servicesVars
    => ReportInv' /\ WritebackTablesAgree'
<1> SUFFICES ASSUME ServicesTypeOK, ReportInv, WritebackTablesAgree, [ServicesNext]_servicesVars
             PROVE  ReportInv' /\ WritebackTablesAgree'
    OBVIOUS
<1>0. MemoryTypeOK /\ SuiteTypeOK /\ FacadeTypeOK /\ LegacyTypeOK BY DEF ServicesTypeOK
<1>1. ASSUME UNCHANGED erpVars, \A po \in Orders : Reports(events', po) = Reports(events, po)
      PROVE  ReportInv' /\ WritebackTablesAgree'
  <2>1. WritebackTablesAgree' BY <1>1 DEF erpVars, WritebackTablesAgree
  <2>2. ReportInv' BY <1>0, <1>1, OrdersLeftAlone DEF erpVars
  <2>3. QED BY <2>1, <2>2
<1>2. ASSUME NEW kinds, kinds = SuiteEvents \/ kinds = TaskEvents, MemoryStep(kinds)
      PROVE  \A po \in Orders : Reports(events', po) = Reports(events, po)
  <2> TAKE po \in Orders
  <2>1. /\ Writeback("Exception", po) \in EventKinds \ kinds
        /\ kinds \in SUBSET EventKinds /\ events \in [EventKinds -> Nat]
        BY <1>0, <1>2, ReportsTyped, EventKindsOfServices DEF MemoryTypeOK
  <2>2. QED BY <1>2, <2>1, InsertsTyped DEF MemoryStep, Reports
<1>3. CASE SuiteAct BY <1>0, <1>1, <1>2, <1>3, SuiteMemory DEF SuiteAct
<1>4. CASE FacadeAct BY <1>0, <1>1, <1>2, <1>4, FacadeMemory DEF FacadeAct
<1>5. CASE ErpAct BY <1>0, <1>5, ReportOfErp, TablesOfErp
<1>6. CASE UNCHANGED servicesVars
      BY <1>1, <1>6 DEF servicesVars, memoryVars, Reports
<1>7. QED BY <1>3, <1>4, <1>5, <1>6, StepOfOneService

LEMMA ReportHolds == ServicesTypeOK /\ ReportInv /\ WritebackTablesAgree => FirstWritebackOnce
BY DEF ReportInv, Reports, FirstWritebackOnce

(* The page reads the order before the transaction and reports after it:   *)
(* still the audit trail says at most once between resets that an order    *)
(* was in Exception, unless two write-backs have overlapped; and the three *)
(* tables of a write-back always agree.                                    *)
THEOREM WritebacksReportedOnce == ServicesSpec => []FirstWritebackOnce
<1>1. ServicesInit => ReportInv /\ WritebackTablesAgree BY ReportStart, TablesStart
<1>2. ServicesTypeOK /\ ReportInv /\ WritebackTablesAgree /\ [ServicesNext]_servicesVars
        => ReportInv' /\ WritebackTablesAgree'
      BY ReportStep
<1>3. QED BY <1>1, <1>2, ServicesTypeCorrect, ReportHolds, PTL DEF ServicesSpec

----------------------------------------------------------------------------
(* The files of the validation suite.                                      *)

(* The lists a registration makes out of each other, in this order: none,  *)
(* then one capability, then both; afterwards the two change places.       *)
None(list)   == list = <<>>
One(list)    == list \in Seq(Caps) /\ Len(list) = 1 /\ list[1] = ApiTool
Both(list)   == list \in Seq(Caps) /\ Len(list) = 2 /\ list[1] = ApiTool /\ list[2] = HumanTask
Turned(list) == list \in Seq(Caps) /\ Len(list) = 2 /\ list[1] = HumanTask /\ list[2] = ApiTool

LEMMA CapsDiffer == ApiTool \in Caps /\ HumanTask \in Caps /\ ApiTool # HumanTask
BY DEF Caps, ApiTool, HumanTask

LEMMA AppendedCap ==
  ASSUME NEW list \in Seq(Caps), NEW cap \in Caps
  PROVE  /\ Append(list, cap) \in Seq(Caps)
         /\ Len(Append(list, cap)) = Len(list) + 1
         /\ \A i \in 1..Len(list) : Append(list, cap)[i] = list[i]
         /\ Append(list, cap)[Len(list) + 1] = cap
BY AppendProperties

LEMMA AppendedToOne ==
  ASSUME NEW list \in Seq(Caps), Len(list) = 1, NEW cap \in Caps
  PROVE  /\ Append(list, cap) \in Seq(Caps) /\ Len(Append(list, cap)) = 2
         /\ Append(list, cap)[1] = list[1] /\ Append(list, cap)[2] = cap
<1>1. 1 \in 1..Len(list) /\ Len(list) + 1 = 2 OBVIOUS
<1>2. Append(list, cap)[1] = list[1] BY <1>1, AppendedCap
<1>3. Append(list, cap)[Len(list) + 1] = cap BY AppendedCap
<1>4. Append(list, cap)[2] = cap BY <1>1, <1>3
<1>5. Append(list, cap) \in Seq(Caps) /\ Len(Append(list, cap)) = 2 BY <1>1, AppendedCap
<1>6. QED BY <1>2, <1>4, <1>5

LEMMA FirstRemoved ==
  ASSUME NEW list \in Seq(Caps), NEW a, NEW b, Len(list) = 2, list[1] = a, list[2] = b, a # b
  PROVE  LET rest == RemoveFirst(list, a)
         IN  rest \in Seq(Caps) /\ Len(rest) = 1 /\ rest[1] = b
<1>1. \E i \in 1..Len(list) : list[i] = a OBVIOUS
<1>2. {i \in 1..Len(list) : list[i] = a} = {1} OBVIOUS
<1>3. Min({1}) = 1 BY DEF Min
<1>4. SelectInSeq(list, LAMBDA v : v = a) = 1 BY <1>2, <1>3, Zenon DEF SelectInSeq
<1>5. SubSeq(list, 1, 0) \in Seq(Caps) /\ Len(SubSeq(list, 1, 0)) = 0 OBVIOUS
<1>6. SubSeq(list, 2, 2) \in Seq(Caps) /\ Len(SubSeq(list, 2, 2)) = 1 OBVIOUS
<1>a. SubSeq(list, 2, 2)[1] = b OBVIOUS
<1>7. LET rest == RemoveAt(list, 1)
      IN  rest \in Seq(Caps) /\ Len(rest) = 1 /\ rest[1] = b
      BY <1>5, <1>6, <1>a DEF RemoveAt
<1>8. QED BY <1>1, <1>4, <1>7 DEF RemoveFirst

LEMMA SecondRemoved ==
  ASSUME NEW list \in Seq(Caps), NEW a, NEW b, Len(list) = 2, list[1] = a, list[2] = b, a # b
  PROVE  LET rest == RemoveFirst(list, b)
         IN  rest \in Seq(Caps) /\ Len(rest) = 1 /\ rest[1] = a
<1>1. \E i \in 1..Len(list) : list[i] = b OBVIOUS
<1>2. {i \in 1..Len(list) : list[i] = b} = {2} OBVIOUS
<1>3. Min({2}) = 2 BY DEF Min
<1>4. SelectInSeq(list, LAMBDA v : v = b) = 2 BY <1>2, <1>3, Zenon DEF SelectInSeq
<1>5. SubSeq(list, 1, 1) \in Seq(Caps) /\ Len(SubSeq(list, 1, 1)) = 1 OBVIOUS
<1>6. SubSeq(list, 3, 2) \in Seq(Caps) /\ Len(SubSeq(list, 3, 2)) = 0 OBVIOUS
<1>a. SubSeq(list, 1, 1)[1] = a OBVIOUS
<1>7. LET rest == RemoveAt(list, 2)
      IN  rest \in Seq(Caps) /\ Len(rest) = 1 /\ rest[1] = a
      BY <1>5, <1>6, <1>a DEF RemoveAt
<1>8. QED BY <1>1, <1>4, <1>7 DEF RemoveFirst

LEMMA OnlyRemoved ==
  ASSUME NEW list \in Seq(Caps), NEW a, Len(list) = 1, list[1] = a
  PROVE  RemoveFirst(list, a) \in Seq(Caps) /\ Len(RemoveFirst(list, a)) = 0
<1>1. \E i \in 1..Len(list) : list[i] = a OBVIOUS
<1>2. {i \in 1..Len(list) : list[i] = a} = {1} OBVIOUS
<1>3. Min({1}) = 1 BY DEF Min
<1>4. SelectInSeq(list, LAMBDA v : v = a) = 1 BY <1>2, <1>3, Zenon DEF SelectInSeq
<1>5. SubSeq(list, 1, 0) \in Seq(Caps) /\ Len(SubSeq(list, 1, 0)) = 0 OBVIOUS
<1>6. SubSeq(list, 2, 1) \in Seq(Caps) /\ Len(SubSeq(list, 2, 1)) = 0 OBVIOUS
<1>7. RemoveAt(list, 1) \in Seq(Caps) /\ Len(RemoveAt(list, 1)) = 0
      BY <1>5, <1>6 DEF RemoveAt
<1>8. QED BY <1>1, <1>4, <1>7 DEF RemoveFirst

(* What upsert_capability makes of a list.                                 *)
LEMMA UpsertedLists ==
  ASSUME NEW list
  PROVE  /\ None(list) \/ One(list) => One(Upserted(list, ApiTool))
         /\ Both(list) \/ Turned(list) => Turned(Upserted(list, ApiTool))
         /\ One(list) \/ Turned(list) \/ Both(list) => Both(Upserted(list, HumanTask))
<1>1. ASSUME None(list) PROVE One(Upserted(list, ApiTool))
  <2>1. list \in Seq(Caps) /\ Len(list) = 0 BY <1>1 DEF None
  <2>2. RemoveFirst(list, ApiTool) = list BY <2>1 DEF RemoveFirst
  <2>3. Len(Append(list, ApiTool)) = 1 BY <2>1, AppendedCap, CapsDiffer
  <2>4. Append(list, ApiTool)[1] = ApiTool BY <2>1, AppendedCap, CapsDiffer
  <2>5. Append(list, ApiTool) \in Seq(Caps) BY <2>1, AppendedCap, CapsDiffer
  <2>6. QED BY <2>2, <2>3, <2>4, <2>5 DEF Upserted, One
<1>2. ASSUME Both(list) PROVE Turned(Upserted(list, ApiTool))
  <2>1. PICK rest \in Seq(Caps) :
          rest = RemoveFirst(list, ApiTool) /\ Len(rest) = 1 /\ rest[1] = HumanTask
        BY <1>2, FirstRemoved, CapsDiffer DEF Both
  <2>2. QED BY <2>1, AppendedToOne, CapsDiffer DEF Upserted, Turned
<1>3. ASSUME One(list) PROVE Both(Upserted(list, HumanTask))
  <2>1. list \in Seq(Caps) /\ Len(list) = 1 /\ list[1] = ApiTool BY <1>3 DEF One
  <2>2. RemoveFirst(list, HumanTask) = list BY <2>1, CapsDiffer DEF RemoveFirst
  <2>3. QED BY <2>1, <2>2, AppendedToOne, CapsDiffer DEF Upserted, Both
<1>4. ASSUME Turned(list) PROVE Both(Upserted(list, HumanTask))
  <2>1. PICK rest \in Seq(Caps) :
          rest = RemoveFirst(list, HumanTask) /\ Len(rest) = 1 /\ rest[1] = ApiTool
        BY <1>4, FirstRemoved, CapsDiffer DEF Turned
  <2>2. QED BY <2>1, AppendedToOne, CapsDiffer DEF Upserted, Both
<1>5. ASSUME One(list) PROVE One(Upserted(list, ApiTool))
  <2>1. list \in Seq(Caps) /\ Len(list) = 1 /\ list[1] = ApiTool BY <1>5 DEF One
  <2>2. RemoveFirst(list, ApiTool) \in Seq(Caps) /\ Len(RemoveFirst(list, ApiTool)) = 0
        BY <2>1, OnlyRemoved, CapsDiffer
  <2>3. Append(RemoveFirst(list, ApiTool), ApiTool)[0 + 1] = ApiTool
        BY <2>2, AppendedCap, CapsDiffer
  <2>4. QED BY <2>2, <2>3, AppendedCap, CapsDiffer DEF Upserted, One
<1>6. ASSUME Turned(list) PROVE Turned(Upserted(list, ApiTool))
  <2>1. PICK rest \in Seq(Caps) :
          rest = RemoveFirst(list, ApiTool) /\ Len(rest) = 1 /\ rest[1] = HumanTask
        BY <1>6, SecondRemoved, CapsDiffer DEF Turned
  <2>2. QED BY <2>1, AppendedToOne, CapsDiffer DEF Upserted, Turned
<1>7. ASSUME Both(list) PROVE Both(Upserted(list, HumanTask))
  <2>1. PICK rest \in Seq(Caps) :
          rest = RemoveFirst(list, HumanTask) /\ Len(rest) = 1 /\ rest[1] = ApiTool
        BY <1>7, SecondRemoved, CapsDiffer DEF Both
  <2>2. QED BY <2>1, AppendedToOne, CapsDiffer DEF Upserted, Both
<1>8. QED BY <1>1, <1>2, <1>3, <1>4, <1>5, <1>6, <1>7

LEMMA ListsHold ==
  ASSUME NEW list
  PROVE  /\ None(list) => Range(list) = {}
         /\ One(list) => Range(list) = {ApiTool} /\ ~None(list) /\ Found(list) = ApiTool
         /\ Both(list) => Range(list) = Caps /\ ~None(list) /\ Found(list) = ApiTool
         /\ Turned(list) => Range(list) = Caps /\ ~None(list)
<1>1. None(list) => Range(list) = {} BY DEF None, Range
<1>2. ASSUME One(list) PROVE Range(list) = {ApiTool}
  <2>1. DOMAIN list = {1} BY <1>2 DEF One
  <2>2. QED BY <1>2, <2>1 DEF One, Range
<1>3. ASSUME Both(list) \/ Turned(list) PROVE Range(list) = Caps
  <2>1. DOMAIN list = {1, 2} BY <1>3 DEF Both, Turned
  <2>2. CASE Both(list) BY <2>1, <2>2 DEF Both, Range, Caps
  <2>3. CASE Turned(list) BY <2>1, <2>3 DEF Turned, Range, Caps
  <2>4. QED BY <1>3, <2>2, <2>3
<1>4. One(list) \/ Both(list) \/ Turned(list) => ~None(list) BY DEF One, Both, Turned, None
<1>5. One(list) \/ Both(list) => Found(list) = ApiTool
      BY <1>4 DEF One, Both, None, Found
<1>6. QED BY <1>1, <1>2, <1>3, <1>4, <1>5

(* The timeline as far as event n.                                         *)
UpTo(n) == [i \in 1..n |-> i]

LEMMA UpToGrows ==
  ASSUME NEW n \in Nat
  PROVE  /\ Append(UpTo(n), n + 1) = UpTo(n + 1)
         /\ Range(UpTo(n)) = 1..n
         /\ UpTo(0) = <<>>
<1>1. UpTo(n) \in Seq(Nat) /\ Len(UpTo(n)) = n BY DEF UpTo
<1>2. UpTo(n + 1) \in Seq(Nat) /\ Len(UpTo(n + 1)) = n + 1 BY DEF UpTo
<1>3. Append(UpTo(n), n + 1) = UpTo(n + 1) BY <1>1, <1>2 DEF UpTo
<1>4. Range(UpTo(n)) = 1..n BY DEF UpTo, Range
<1>5. UpTo(0) = <<>>
  <2>1. UpTo(0) \in Seq(Nat) /\ Len(UpTo(0)) = 0 BY DEF UpTo
  <2>2. QED BY <2>1
<1>6. QED BY <1>3, <1>4, <1>5

(* The timeline while a validation v is where it is: as many events as it  *)
(* has told, at least, and whole unless v has just emptied it.             *)
TimelinePart(v, tl) ==
  \E n \in 0..TimelineLength :
    /\ tl.content = UpTo(n)
    /\ IF v.stage = "fill_timeline" THEN tl.state = "empty"
       ELSE Readable(tl) \/ (~Exists(tl) /\ n = 0)
    /\ v.stage \in TimelineStages => v.next <= n + 1
    /\ v.stage \in {"open_timeline", "fill_timeline"} =>
         \E m \in v.next..TimelineLength : v.seen = UpTo(m)

(* The two registries, r the older one.                                    *)
Names(r)   == Readable(r) /\ r.content
Before(c)  == (~Exists(c) /\ None(c.content)) \/ (Readable(c) /\ Both(c.content))
Between(c) == Readable(c) /\ (One(c.content) \/ Turned(c.content))
Agree(r, c) ==
  (~Exists(r) /\ ~Exists(c) /\ None(c.content)) \/ (Names(r) /\ Readable(c) /\ Both(c.content))

(* The list that v is about to write over the list in the file.            *)
Replaces(v, list) ==
  IF v.next = 1
    THEN (None(list) /\ One(v.list)) \/ (Both(list) /\ Turned(v.list))
    ELSE (One(list) \/ Turned(list)) /\ Both(v.list)

RegistryPart(v, r, c) ==
  /\ v.stage \in TimelineStages \cup {"open_registry", "fill_registry"} => v.passes
  /\ v.stage \in {"open_registry", "fill_registry", "record"} => v.next = 1
  /\ v.stage \in TimelineStages \cup {"done", "open_registry"} => Agree(r, c)
  /\ v.stage = "fill_registry" => r.state = "empty" /\ Before(c)
  /\ v.stage = "record" => IF v.passes THEN Names(r) /\ Before(c) ELSE Agree(r, c)
  /\ v.stage \in Registering => Names(r)
  /\ v.stage \in {"read", "open"} => IF v.next = 1 THEN Before(c) ELSE Between(c)
  /\ v.stage \in {"open", "fill"} => Replaces(v, c.content)
  /\ v.stage = "fill" => c.state = "empty"
  /\ v.stage = "announce" =>
       Readable(c) /\ IF v.next = 1 THEN One(c.content) \/ Turned(c.content) ELSE Both(c.content)

(* What was announced stays in the file.                                   *)
Announced(told, cap) == told[Registered(cap)] > 0
KeptPart(told, list) ==
  /\ Announced(told, ApiTool) => One(list) \/ Both(list) \/ Turned(list)
  /\ Announced(told, HumanTask) => Both(list) \/ Turned(list)

(* The only validation there is, if any, is that of t.                     *)
OnlyValidation(t) ==
  /\ \A u \in Threads : u # t => ~Running(u)
  /\ TimelinePart(validation[t], timeline)
  /\ RegistryPart(validation[t], registry, capabilities)

(* As long as nothing has disturbed them the files are where the one       *)
(* validation that runs has brought them.                                  *)
FilesInv ==
  ~disturbed => /\ KeptPart(events, capabilities.content)
                /\ \E t \in Threads : OnlyValidation(t)

LEMMA FilesAgree == SuiteTypeOK /\ FilesInv => UndisturbedFilesAgree
<1> SUFFICES ASSUME SuiteTypeOK, FilesInv, ~disturbed
             PROVE  /\ RegistrationsKept /\ RegistriesAgree
                    /\ UnreadableOnlyWhileOpen /\ TimelineInOrder
    BY DEF UndisturbedFilesAgree
<1>1. PICK t \in Threads : OnlyValidation(t) BY DEF FilesInv
<1>2. PICK v : v = validation[t] OBVIOUS
<1>3. TimelinePart(v, timeline) /\ RegistryPart(v, registry, capabilities)
      BY <1>1, <1>2 DEF OnlyValidation
<1>4. RegistrationsKept
  <2>1. KeptPart(events, capabilities.content) BY DEF FilesInv
  <2>2. ASSUME NEW cap \in Caps, Happened(Registered(cap))
        PROVE  cap \in Range(capabilities.content)
    <3>1. Announced(events, cap) BY <2>2 DEF Happened, Announced
    <3>2. CASE cap = ApiTool BY <2>1, <3>1, <3>2, ListsHold, CapsDiffer DEF KeptPart
    <3>3. CASE cap = HumanTask BY <2>1, <3>1, <3>3, ListsHold, CapsDiffer DEF KeptPart
    <3>4. QED BY <3>2, <3>3 DEF Caps
  <2>3. QED BY <2>2 DEF RegistrationsKept
<1>5. RegistriesAgree
  <2>1. ASSUME \A u \in Threads : ~Running(u) PROVE Agree(registry, capabilities)
    <3>1. v.stage = "done" BY <1>2, <2>1 DEF Running
    <3>2. QED BY <1>3, <3>1 DEF RegistryPart
  <2>2. QED BY <2>1, ListsHold DEF RegistriesAgree, Agree, Names, Readable, Exists
<1>6. Readable(capabilities) \/ ~Exists(capabilities) \/ v.stage = "fill"
  <2>1. v.stage \in Stages BY <1>2, SuiteTypeUnfolded DEF SoundValidation
  <2>2. CASE v.stage \in TimelineStages \cup {"done", "open_registry"}
        BY <1>3, <2>2 DEF RegistryPart, Agree
  <2>3. CASE v.stage \in {"fill_registry", "record"}
        BY <1>3, <2>3 DEF RegistryPart, Agree, Before
  <2>4. CASE v.stage \in {"read", "open", "announce"}
        BY <1>3, <2>4 DEF RegistryPart, Before, Between
  <2>5. QED BY <2>1, <2>2, <2>3, <2>4 DEF Stages
<1>7. Readable(timeline) \/ ~Exists(timeline) \/ v.stage = "fill_timeline"
      BY <1>3 DEF TimelinePart
<1>8. TimelineInOrder BY <1>3 DEF TimelinePart, TimelineInOrder, UpTo
<1>9. QED BY <1>2, <1>4, <1>5, <1>6, <1>7, <1>8 DEF UnreadableOnlyWhileOpen

LEMMA FilesStart == ServicesInit => FilesInv
<1> SUFFICES ASSUME ServicesInit PROVE FilesInv
    OBVIOUS
<1>1. PICK t \in Threads : TRUE BY ThreadsAssumption
<1>2. /\ \A u \in Threads : validation[u] = NoValidation
      /\ timeline = NoFile(<<>>) /\ registry = NoFile(FALSE) /\ capabilities = NoFile(<<>>)
      /\ events = [event \in EventKinds |-> 0]
      BY DEF ServicesInit, MemoryInit, SuiteInit
<1>3. NoValidation.stage = "done" /\ "done" \notin TimelineStages
      BY DEF NoValidation, TimelineStages
<1>4. timeline.content = UpTo(0) /\ 0 \in 0..TimelineLength
      BY <1>2, UpToGrows, TimelineAssumption DEF NoFile
<1>5. ~Exists(timeline) /\ ~Exists(registry) /\ ~Exists(capabilities)
      /\ None(capabilities.content)
      BY <1>2 DEF NoFile, Exists, None
<1>6. TimelinePart(NoValidation, timeline) BY <1>3, <1>4, <1>5 DEF TimelinePart
<1>7. RegistryPart(NoValidation, registry, capabilities)
      BY <1>3, <1>5 DEF RegistryPart, Registering, Agree
<1>8. \A cap \in Caps : ~Announced(events, cap)
      BY <1>2 DEF Announced, EventKinds
<1>9. KeptPart(events, capabilities.content) BY <1>8, CapsDiffer DEF KeptPart
<1>10. \A u \in Threads : ~Running(u) BY <1>2, <1>3 DEF Running
<1>11. QED BY <1>1, <1>2, <1>6, <1>7, <1>9, <1>10 DEF FilesInv, OnlyValidation

(* Other steps leave the files, the validations and the announcements.     *)
LEMMA FilesLeftAlone ==
  ASSUME FilesInv, UNCHANGED <<timeline, registry, validation, capabilities>>,
         disturbed => disturbed',
         \A cap \in Caps : events'[Registered(cap)] = events[Registered(cap)]
  PROVE  FilesInv'
<1> SUFFICES ASSUME ~disturbed'
             PROVE  /\ KeptPart(events', capabilities'.content)
                    /\ \E t \in Threads : OnlyValidation(t)'
    BY DEF FilesInv
<1>1. KeptPart(events, capabilities.content) /\ \E t \in Threads : OnlyValidation(t)
      BY DEF FilesInv
<1>2. KeptPart(events', capabilities'.content) BY <1>1, CapsDiffer DEF KeptPart, Announced
<1>3. \E t \in Threads : OnlyValidation(t)' BY <1>1 DEF OnlyValidation, Running
<1>4. QED BY <1>2, <1>3

LEMMA OneRunning ==
  ASSUME FilesInv, ~disturbed, NEW t \in Threads, Running(t)
  PROVE  OnlyValidation(t) /\ KeptPart(events, capabilities.content)
BY DEF FilesInv, OnlyValidation

(* The running validation takes a step and becomes w.                      *)
LEMMA OneStepped ==
  ASSUME SuiteTypeOK, NEW t \in Threads, \A u \in Threads : u # t => ~Running(u),
         NEW w, validation' = [validation EXCEPT ![t] = w],
         TimelinePart(w, timeline'), RegistryPart(w, registry', capabilities'),
         KeptPart(events', capabilities'.content)
  PROVE  FilesInv'
<1>1. DOMAIN validation = Threads BY SuiteTypeUnfolded
<1>2. validation'[t] = w /\ \A u \in Threads : u # t => validation'[u] = validation[u] BY <1>1
<1>3. \A u \in Threads : u # t => ~Running(u)' BY <1>2 DEF Running
<1>4. OnlyValidation(t)' BY <1>2, <1>3 DEF OnlyValidation
<1>5. QED BY <1>4 DEF FilesInv

(* The fields of a validation after an update.                             *)
LEMMA StepFields ==
  ASSUME NEW v, SoundValidation(v), NEW stage, NEW list, NEW n
  PROVE  /\ LET w == [v EXCEPT !.stage = stage] IN
              /\ w.stage = stage /\ w.next = v.next /\ w.passes = v.passes
              /\ w.seen = v.seen /\ w.list = v.list
         /\ LET w == [v EXCEPT !.stage = stage, !.seen = list] IN
              /\ w.stage = stage /\ w.next = v.next /\ w.passes = v.passes
              /\ w.seen = list /\ w.list = v.list
         /\ LET w == [v EXCEPT !.stage = stage, !.list = list] IN
              /\ w.stage = stage /\ w.next = v.next /\ w.passes = v.passes
              /\ w.seen = v.seen /\ w.list = list
         /\ LET w == [v EXCEPT !.stage = stage, !.next = n, !.seen = list] IN
              w.stage = stage /\ w.next = n /\ w.passes = v.passes
         /\ LET w == [v EXCEPT !.stage = stage, !.next = n] IN
              w.stage = stage /\ w.next = n /\ w.passes = v.passes
BY DEF SoundValidation, NoValidation

LEMMA ValidateFiles ==
  ASSUME SuiteTypeOK, FilesInv, NEW t \in Threads, NEW passes \in BOOLEAN, Validate(t, passes)
  PROVE  FilesInv'
<1> SUFFICES ASSUME ~disturbed' PROVE FilesInv'
    BY DEF FilesInv
<1> DEFINE w == [NoValidation EXCEPT !.stage = IF passes THEN "read_timeline" ELSE "record",
                                     !.passes = passes]
<1>1. /\ ~disturbed /\ \A u \in Threads : ~Running(u)
      /\ UNCHANGED <<timeline, registry, events, capabilities>>
      BY DEF Validate, memoryVars
<1>2. validation' = [validation EXCEPT ![t] = w] BY DEF Validate
<1>3. w.stage = (IF passes THEN "read_timeline" ELSE "record") /\ w.passes = passes /\ w.next = 1
      BY DEF NoValidation
<1> HIDE DEF w
<1>4. PICK u \in Threads : OnlyValidation(u) BY <1>1 DEF FilesInv
<1>5. validation[u].stage = "done" BY <1>1 DEF Running
<1>6. TimelinePart(w, timeline)
  <2>1. PICK n \in 0..TimelineLength :
          timeline.content = UpTo(n) /\ (Readable(timeline) \/ (~Exists(timeline) /\ n = 0))
        BY <1>4, <1>5 DEF OnlyValidation, TimelinePart
  <2>2. w.stage \notin {"open_timeline", "fill_timeline"} /\ w.next <= n + 1 BY <1>3
  <2>3. QED BY <2>1, <2>2 DEF TimelinePart
<1>7. RegistryPart(w, registry, capabilities)
  <2>1. Agree(registry, capabilities) BY <1>4, <1>5 DEF OnlyValidation, RegistryPart
  <2>2. CASE passes
    <3>1. w.stage = "read_timeline" /\ w.passes BY <1>3, <2>2
    <3>2. QED BY <2>1, <3>1 DEF RegistryPart, Registering
  <2>3. CASE ~passes
    <3>1. w.stage = "record" /\ ~w.passes /\ w.next = 1 BY <1>3, <2>3
    <3>2. QED BY <2>1, <3>1 DEF RegistryPart, Registering, TimelineStages
  <2>4. QED BY <2>2, <2>3
<1>8. KeptPart(events, capabilities.content) BY <1>1 DEF FilesInv
<1>9. QED BY <1>1, <1>2, <1>6, <1>7, <1>8, OneStepped

LEMMA ReadTimelineFiles ==
  ASSUME SuiteTypeOK, FilesInv, NEW t \in Threads, ReadTimeline(t), ~disturbed'
  PROVE  FilesInv'
<1>1. PICK v : v = validation[t] OBVIOUS
<1>2. /\ v.stage = "read_timeline" /\ ~disturbed
      /\ UNCHANGED <<timeline, registry, events, capabilities>>
      BY <1>1 DEF ReadTimeline, memoryVars, history
<1>3. OnlyValidation(t) /\ KeptPart(events, capabilities.content)
      BY <1>1, <1>2, OneRunning DEF Running
<1>4. PICK n \in 0..TimelineLength :
        /\ timeline.content = UpTo(n) /\ v.next <= n + 1
        /\ Readable(timeline) \/ (~Exists(timeline) /\ n = 0)
      BY <1>1, <1>2, <1>3 DEF OnlyValidation, TimelinePart, TimelineStages
<1>5. SoundValidation(v) /\ v.next \in 1..TimelineLength
      BY <1>1, <1>2, SuiteTypeUnfolded DEF SoundValidation, TimelineStages
<1>6. Load(timeline, <<>>) = UpTo(n) BY <1>4, UpToGrows DEF Load, Readable, Exists
<1>7. PICK w : /\ validation' = [validation EXCEPT ![t] = w]
               /\ w.stage = "open_timeline" /\ w.next = v.next /\ w.passes = v.passes
               /\ \E m \in v.next..TimelineLength : w.seen = UpTo(m)
  <2> DEFINE seen == IF v.next \in Range(UpTo(n)) THEN UpTo(n) ELSE Append(UpTo(n), v.next)
             w == [v EXCEPT !.stage = "open_timeline", !.seen = seen]
  <2>1. validation' = [validation EXCEPT ![t] = w]
        BY <1>1, <1>2, <1>4, <1>6 DEF ReadTimeline
  <2>2. /\ w.stage = "open_timeline" /\ w.next = v.next /\ w.passes = v.passes
        /\ w.seen = seen
        BY <1>5, StepFields
  <2>3. \E m \in v.next..TimelineLength : seen = UpTo(m)
    <3>0. n \in Nat BY TimelineAssumption
    <3>1. v.next \in Range(UpTo(n)) <=> v.next <= n
      <4>1. Range(UpTo(n)) = 1..n BY <3>0, UpToGrows
      <4>2. QED BY <1>5, <3>0, <4>1
    <3>2. CASE v.next <= n
      <4>1. seen = UpTo(n) BY <3>1, <3>2
      <4>2. n \in v.next..TimelineLength BY <1>5, <3>2, TimelineAssumption
      <4>3. QED BY <4>1, <4>2
    <3>3. CASE v.next = n + 1
      <4>1. ~(v.next <= n) BY <3>3
      <4>2. seen = Append(UpTo(n), n + 1) BY <3>1, <3>3, <4>1
      <4>3. seen = UpTo(v.next) BY <3>0, <3>3, <4>2, UpToGrows
      <4>4. v.next \in v.next..TimelineLength BY <1>5, TimelineAssumption
      <4>5. QED BY <4>3, <4>4
    <3>4. QED BY <1>4, <1>5, <3>2, <3>3
  <2> HIDE DEF w, seen
  <2>4. QED BY <2>1, <2>2, <2>3
<1>8. TimelinePart(w, timeline) BY <1>4, <1>7 DEF TimelinePart
<1>9. RegistryPart(w, registry, capabilities)
  <2>1. Agree(registry, capabilities) /\ v.passes
        BY <1>1, <1>2, <1>3 DEF OnlyValidation, RegistryPart, TimelineStages
  <2>2. QED BY <1>7, <2>1 DEF RegistryPart, Registering
<1>10. QED BY <1>2, <1>3, <1>7, <1>8, <1>9, OneStepped DEF OnlyValidation

LEMMA OpenTimelineFiles ==
  ASSUME SuiteTypeOK, FilesInv, NEW t \in Threads, OpenTimeline(t), ~disturbed'
  PROVE  FilesInv'
<1>1. PICK v : v = validation[t] OBVIOUS
<1>2. /\ v.stage = "open_timeline" /\ ~disturbed
      /\ UNCHANGED <<registry, events, capabilities>> /\ timeline' = Truncated(timeline)
      BY <1>1 DEF OpenTimeline, memoryVars, history
<1>3. OnlyValidation(t) /\ KeptPart(events, capabilities.content)
      BY <1>1, <1>2, OneRunning DEF Running
<1>4. PICK w : w = [v EXCEPT !.stage = "fill_timeline"] OBVIOUS
<1>5. validation' = [validation EXCEPT ![t] = w] BY <1>1, <1>4 DEF OpenTimeline, Step
<1>6. SoundValidation(v) /\ IsFile(timeline) BY <1>1, SuiteTypeUnfolded
<1>7. w.stage = "fill_timeline" /\ w.next = v.next /\ w.passes = v.passes /\ w.seen = v.seen
      BY <1>4, <1>6, StepFields
<1>8. TimelinePart(w, timeline')
  <2>1. PICK n \in 0..TimelineLength :
          /\ timeline.content = UpTo(n) /\ v.next <= n + 1
          /\ \E m \in v.next..TimelineLength : v.seen = UpTo(m)
        BY <1>1, <1>2, <1>3 DEF OnlyValidation, TimelinePart, TimelineStages
  <2>2. timeline'.content = UpTo(n) /\ timeline'.state = "empty"
        BY <1>2, <1>6, <2>1 DEF Truncated, IsFile, File
  <2>3. QED BY <1>7, <2>1, <2>2 DEF TimelinePart
<1>9. RegistryPart(w, registry, capabilities)
  <2>1. Agree(registry, capabilities) /\ v.passes
        BY <1>1, <1>2, <1>3 DEF OnlyValidation, RegistryPart, TimelineStages
  <2>2. QED BY <1>7, <2>1 DEF RegistryPart, Registering
<1>10. QED BY <1>2, <1>3, <1>5, <1>8, <1>9, OneStepped DEF OnlyValidation

LEMMA FillTimelineFiles ==
  ASSUME SuiteTypeOK, FilesInv, NEW t \in Threads, FillTimeline(t), ~disturbed'
  PROVE  FilesInv'
<1>1. PICK v : v = validation[t] OBVIOUS
<1>2. /\ v.stage = "fill_timeline" /\ ~disturbed
      /\ UNCHANGED <<registry, events, capabilities>>
      /\ timeline' \in Written(timeline, v.seen, <<>>)
      BY <1>1 DEF FillTimeline, memoryVars, history
<1>3. OnlyValidation(t) /\ KeptPart(events, capabilities.content)
      BY <1>1, <1>2, OneRunning DEF Running
<1>4. SoundValidation(v) /\ v.next \in 1..TimelineLength
      BY <1>1, <1>2, SuiteTypeUnfolded DEF SoundValidation, TimelineStages
<1>5. PICK m \in v.next..TimelineLength : v.seen = UpTo(m)
      BY <1>1, <1>2, <1>3 DEF OnlyValidation, TimelinePart
<1>6. timeline' = WholeFile(UpTo(m))
  <2>1. timeline.state = "empty" BY <1>1, <1>2, <1>3 DEF OnlyValidation, TimelinePart
  <2>2. QED BY <1>2, <1>5, <2>1 DEF Written
<1>7. PICK more \in BOOLEAN : more <=> v.next < TimelineLength OBVIOUS
<1>8. PICK w : /\ validation' = [validation EXCEPT ![t] = w]
               /\ w.stage = (IF more THEN "read_timeline" ELSE "open_registry")
               /\ w.next = (IF more THEN v.next + 1 ELSE 1) /\ w.passes = v.passes
  <2> DEFINE w == [v EXCEPT !.stage = IF more THEN "read_timeline" ELSE "open_registry",
                            !.next = IF more THEN v.next + 1 ELSE 1, !.seen = <<>>]
  <2>1. validation' = [validation EXCEPT ![t] = w] BY <1>1, <1>7 DEF FillTimeline
  <2>2. /\ w.stage = (IF more THEN "read_timeline" ELSE "open_registry")
        /\ w.next = (IF more THEN v.next + 1 ELSE 1) /\ w.passes = v.passes
        BY <1>4 DEF SoundValidation, NoValidation
  <2> HIDE DEF w
  <2>3. QED BY <2>1, <2>2
<1>9. TimelinePart(w, timeline')
  <2>1. m \in 0..TimelineLength /\ v.next <= m BY <1>4, <1>5, TimelineAssumption
  <2>2. timeline'.content = UpTo(m) /\ Readable(timeline') BY <1>6 DEF WholeFile, Readable
  <2>3. w.stage \notin {"open_timeline", "fill_timeline"} BY <1>8
  <2>4. w.stage \in TimelineStages => w.next <= m + 1
    <3>1. CASE more
      <4>1. w.next = v.next + 1 BY <1>8, <3>1
      <4>2. QED BY <1>4, <1>5, <2>1, <4>1
    <3>2. CASE ~more BY <1>8, <3>2 DEF TimelineStages
    <3>3. QED BY <3>1, <3>2
  <2>5. QED BY <2>1, <2>2, <2>3, <2>4 DEF TimelinePart
<1>10. RegistryPart(w, registry, capabilities)
  <2>1. Agree(registry, capabilities) /\ v.passes
        BY <1>1, <1>2, <1>3 DEF OnlyValidation, RegistryPart, TimelineStages
  <2>2. /\ w.stage \in {"read_timeline", "open_registry"} /\ w.passes = v.passes
        /\ w.stage = "open_registry" => w.next = 1
        BY <1>8
  <2>3. QED BY <2>1, <2>2 DEF RegistryPart, Registering
<1>11. QED BY <1>2, <1>3, <1>8, <1>9, <1>10, OneStepped DEF OnlyValidation

(* After its timeline a validation leaves that file as it is.              *)
LEMMA TimelineStays ==
  ASSUME NEW v, NEW w, NEW tl, TimelinePart(v, tl), v.stage \notin TimelineStages,
         w.stage \notin TimelineStages
  PROVE  TimelinePart(w, tl)
<1>1. v.stage # "fill_timeline" /\ w.stage \notin {"open_timeline", "fill_timeline"}
      BY DEF TimelineStages
<1>2. QED BY <1>1 DEF TimelinePart

LEMMA NoValidationAt == NoValidation.stage = "done" /\ NoValidation.stage \notin TimelineStages
BY DEF NoValidation, TimelineStages

LEMMA OpenRegistryFiles ==
  ASSUME SuiteTypeOK, FilesInv, NEW t \in Threads, OpenRegistry(t), ~disturbed'
  PROVE  FilesInv'
<1>1. PICK v : v = validation[t] OBVIOUS
<1>2. /\ v.stage = "open_registry" /\ ~disturbed
      /\ UNCHANGED <<timeline, events, capabilities>> /\ registry' = Truncated(registry)
      BY <1>1 DEF OpenRegistry, memoryVars, history
<1>3. OnlyValidation(t) /\ KeptPart(events, capabilities.content)
      BY <1>1, <1>2, OneRunning DEF Running
<1>4. PICK w : w = [v EXCEPT !.stage = "fill_registry"] OBVIOUS
<1>5. validation' = [validation EXCEPT ![t] = w] BY <1>1, <1>4 DEF OpenRegistry, Step
<1>6. SoundValidation(v) /\ registry \in File(BOOLEAN) BY <1>1, SuiteTypeUnfolded
<1>7. w.stage = "fill_registry" /\ w.passes = v.passes /\ w.next = v.next
      BY <1>4, <1>6, StepFields
<1>8. TimelinePart(w, timeline)
      BY <1>1, <1>2, <1>3, <1>7, TimelineStays DEF OnlyValidation, TimelineStages
<1>9. RegistryPart(w, registry', capabilities)
  <2>1. Before(capabilities) /\ v.passes /\ v.next = 1
        BY <1>1, <1>2, <1>3 DEF OnlyValidation, RegistryPart, Agree, Before
  <2>2. registry'.state = "empty" BY <1>2, <1>6 DEF Truncated, File
  <2>3. QED BY <1>7, <2>1, <2>2 DEF RegistryPart, Registering, TimelineStages
<1>10. QED BY <1>2, <1>3, <1>5, <1>8, <1>9, OneStepped DEF OnlyValidation

LEMMA FillRegistryFiles ==
  ASSUME SuiteTypeOK, FilesInv, NEW t \in Threads, FillRegistry(t), ~disturbed'
  PROVE  FilesInv'
<1>1. PICK v : v = validation[t] OBVIOUS
<1>2. /\ v.stage = "fill_registry" /\ ~disturbed
      /\ UNCHANGED <<timeline, events, capabilities>>
      /\ registry' \in Written(registry, TRUE, FALSE)
      BY <1>1 DEF FillRegistry, memoryVars, history
<1>3. OnlyValidation(t) /\ KeptPart(events, capabilities.content)
      BY <1>1, <1>2, OneRunning DEF Running
<1>4. PICK w : w = [v EXCEPT !.stage = "record"] OBVIOUS
<1>5. validation' = [validation EXCEPT ![t] = w] BY <1>1, <1>4 DEF FillRegistry, Step
<1>6. SoundValidation(v) BY <1>1, SuiteTypeUnfolded
<1>7. w.stage = "record" /\ w.passes /\ w.next = 1
  <2>1. v.passes /\ v.next = 1 BY <1>1, <1>2, <1>3 DEF OnlyValidation, RegistryPart
  <2>2. QED BY <1>4, <1>6, <2>1, StepFields
<1>8. TimelinePart(w, timeline)
      BY <1>1, <1>2, <1>3, <1>7, TimelineStays DEF OnlyValidation, TimelineStages
<1>9. RegistryPart(w, registry', capabilities)
  <2>1. Before(capabilities) /\ registry.state = "empty"
        BY <1>1, <1>2, <1>3 DEF OnlyValidation, RegistryPart
  <2>2. Names(registry') BY <1>2, <2>1 DEF Written, WholeFile, Names, Readable
  <2>3. QED BY <1>7, <2>1, <2>2 DEF RegistryPart, Registering, TimelineStages
<1>10. QED BY <1>2, <1>3, <1>5, <1>8, <1>9, OneStepped DEF OnlyValidation

(* An event that registers nothing leaves what was announced.              *)
LEMMA OtherEvent ==
  ASSUME MemoryTypeOK, NEW event \in {Passed, NotPassed, Gap, HumanApproval},
         Record(event) \/ InsertFails
  PROVE  \A cap \in Caps : events'[Registered(cap)] = events[Registered(cap)]
<1>1. \A cap \in Caps : event # Registered(cap)
      BY DEF Passed, NotPassed, Gap, HumanApproval, Registered
<1>2. QED BY <1>1 DEF MemoryTypeOK, Record, InsertFails, EventKinds

LEMMA RecordResultFiles ==
  ASSUME MemoryTypeOK, SuiteTypeOK, FilesInv, NEW t \in Threads, RecordResult(t), ~disturbed'
  PROVE  FilesInv'
<1>1. PICK v : v = validation[t] OBVIOUS
<1>2. /\ v.stage = "record" /\ SuiteTypeOK
      /\ UNCHANGED <<timeline, registry, capabilities>>
      /\ IF v.passes THEN Step(t, "read") ELSE End(t)
      BY <1>1 DEF RecordResult
<1>3. ~disturbed /\ Record(IF v.passes THEN Passed ELSE NotPassed)
      BY <1>1 DEF RecordResult
<1>4. OnlyValidation(t) /\ KeptPart(events, capabilities.content)
      BY <1>1, <1>2, <1>3, OneRunning DEF Running
<1>5. SoundValidation(v) /\ v.next \in {1, 2}
      BY <1>1, <1>2, SuiteTypeUnfolded DEF SoundValidation, TimelineStages
<1>6. KeptPart(events', capabilities'.content)
  <2>1. PICK event \in {Passed, NotPassed, Gap, HumanApproval} : Record(event) BY <1>3
  <2>2. \A cap \in Caps : events'[Registered(cap)] = events[Registered(cap)]
        BY <2>1, OtherEvent
  <2>3. QED BY <1>2, <1>4, <2>2, CapsDiffer DEF KeptPart, Announced
<1>7. PICK w : /\ validation' = [validation EXCEPT ![t] = w]
               /\ IF v.passes THEN w.stage = "read" /\ w.next = v.next ELSE w = NoValidation
  <2>1. CASE v.passes
    <3> DEFINE w == [v EXCEPT !.stage = "read"]
    <3>1. w.stage = "read" /\ w.next = v.next BY <1>5, StepFields
    <3>2. validation' = [validation EXCEPT ![t] = w] BY <1>1, <1>2, <2>1 DEF Step
    <3> HIDE DEF w
    <3>3. QED BY <2>1, <3>1, <3>2
  <2>2. CASE ~v.passes BY <1>2, <2>2 DEF End
  <2>3. QED BY <2>1, <2>2
<1>8. TimelinePart(w, timeline)
  <2>1. w.stage \notin TimelineStages BY <1>7, NoValidationAt DEF TimelineStages
  <2>2. v.stage \notin TimelineStages BY <1>2 DEF TimelineStages
  <2>3. QED BY <1>1, <1>4, <2>1, <2>2, TimelineStays DEF OnlyValidation
<1>9. RegistryPart(w, registry, capabilities)
  <2>1. IF v.passes THEN Names(registry) /\ Before(capabilities)
        ELSE Agree(registry, capabilities)
        BY <1>1, <1>2, <1>4 DEF OnlyValidation, RegistryPart
  <2>2. CASE v.passes
    <3>1. w.stage = "read" /\ w.next = v.next BY <1>7, <2>2
    <3>2. v.next = 1 BY <1>1, <1>2, <1>4 DEF OnlyValidation, RegistryPart
    <3>3. QED BY <2>1, <2>2, <3>1, <3>2 DEF RegistryPart, Registering, TimelineStages
  <2>3. CASE ~v.passes
    <3>1. w.stage = "done" BY <1>7, <2>3, NoValidationAt
    <3>2. QED BY <2>1, <2>3, <3>1 DEF RegistryPart, Registering, TimelineStages
  <2>4. QED BY <2>2, <2>3
<1>10. QED BY <1>2, <1>4, <1>6, <1>7, <1>8, <1>9, OneStepped DEF OnlyValidation

LEMMA ReadCapabilitiesFiles ==
  ASSUME SuiteTypeOK, FilesInv, NEW t \in Threads, ReadCapabilities(t), ~disturbed'
  PROVE  FilesInv'
<1>1. PICK v : v = validation[t] OBVIOUS
<1>2. /\ v.stage = "read" /\ ~disturbed
      /\ UNCHANGED <<timeline, registry, events, capabilities>>
      BY <1>1 DEF ReadCapabilities, memoryVars, history
<1>3. OnlyValidation(t) /\ KeptPart(events, capabilities.content)
      BY <1>1, <1>2, OneRunning DEF Running
<1>4. SoundValidation(v) /\ v.next \in {1, 2}
      BY <1>1, <1>2, SuiteTypeUnfolded DEF SoundValidation, TimelineStages
<1>5. /\ Names(registry)
      /\ IF v.next = 1 THEN Before(capabilities) ELSE Between(capabilities)
      BY <1>1, <1>2, <1>3 DEF OnlyValidation, RegistryPart, Registering
<1>6. PICK list : list = Upserted(capabilities.content, TrustedCapabilities[v.next]) OBVIOUS
<1>7. /\ Exists(capabilities) => Readable(capabilities)
      /\ Load(capabilities, <<>>) = capabilities.content
      BY <1>5 DEF Before, Between, None, Load, Readable, Exists
<1>8. PICK w : /\ validation' = [validation EXCEPT ![t] = w]
               /\ w.stage = "open" /\ w.next = v.next /\ w.list = list
  <2> DEFINE w == [v EXCEPT !.stage = "open", !.list = list]
  <2>1. validation' = [validation EXCEPT ![t] = w]
        BY <1>1, <1>6, <1>7 DEF ReadCapabilities
  <2>2. w.stage = "open" /\ w.next = v.next /\ w.list = list BY <1>4, StepFields
  <2> HIDE DEF w
  <2>3. QED BY <2>1, <2>2
<1>9. TimelinePart(w, timeline)
      BY <1>1, <1>2, <1>3, <1>8, TimelineStays DEF OnlyValidation, TimelineStages
<1>10. Replaces(w, capabilities.content)
  <2>1. TrustedCapabilities[1] = ApiTool /\ TrustedCapabilities[2] = HumanTask
        BY DEF TrustedCapabilities
  <2>2. CASE v.next = 1
    <3>1. list = Upserted(capabilities.content, ApiTool) BY <1>6, <2>1, <2>2
    <3>2. None(capabilities.content) \/ Both(capabilities.content) BY <1>5, <2>2 DEF Before
    <3>3. QED BY <1>8, <2>2, <3>1, <3>2, UpsertedLists DEF Replaces
  <2>3. CASE v.next = 2
    <3>1. list = Upserted(capabilities.content, HumanTask) BY <1>6, <2>1, <2>3
    <3>2. One(capabilities.content) \/ Turned(capabilities.content) BY <1>5, <2>3 DEF Between
    <3>3. QED BY <1>8, <2>3, <3>1, <3>2, UpsertedLists DEF Replaces
  <2>4. QED BY <1>4, <2>2, <2>3
<1>11. RegistryPart(w, registry, capabilities)
       BY <1>5, <1>8, <1>10 DEF RegistryPart, Registering, TimelineStages
<1>12. QED BY <1>2, <1>3, <1>8, <1>9, <1>11, OneStepped DEF OnlyValidation

LEMMA OpenCapabilitiesFiles ==
  ASSUME MemoryTypeOK, SuiteTypeOK, FilesInv, NEW t \in Threads, OpenCapabilities(t), ~disturbed'
  PROVE  FilesInv'
<1>1. PICK v : v = validation[t] OBVIOUS
<1>2. /\ v.stage = "open" /\ ~disturbed
      /\ UNCHANGED <<timeline, registry, events>> /\ capabilities' = Truncated(capabilities)
      BY <1>1 DEF OpenCapabilities, NoEvent, history
<1>3. OnlyValidation(t) /\ KeptPart(events, capabilities.content)
      BY <1>1, <1>2, OneRunning DEF Running
<1>4. SoundValidation(v) /\ IsFile(capabilities)
      BY <1>1, SuiteTypeUnfolded DEF MemoryTypeOK, IsFile
<1>5. PICK w : w = [v EXCEPT !.stage = "fill"] OBVIOUS
<1>6. validation' = [validation EXCEPT ![t] = w] BY <1>1, <1>5 DEF OpenCapabilities, Step
<1>7. w.stage = "fill" /\ w.next = v.next /\ w.list = v.list BY <1>4, <1>5, StepFields
<1>8. TimelinePart(w, timeline)
      BY <1>1, <1>2, <1>3, <1>7, TimelineStays DEF OnlyValidation, TimelineStages
<1>9. capabilities'.content = capabilities.content /\ capabilities'.state = "empty"
      BY <1>2, <1>4 DEF Truncated, IsFile, File
<1>10. RegistryPart(w, registry, capabilities')
  <2>1. Names(registry) /\ Replaces(v, capabilities.content)
        BY <1>1, <1>2, <1>3 DEF OnlyValidation, RegistryPart, Registering
  <2>2. Replaces(w, capabilities'.content) BY <1>7, <1>9, <2>1 DEF Replaces
  <2>3. QED BY <1>7, <1>9, <2>1, <2>2 DEF RegistryPart, Registering, TimelineStages
<1>11. QED BY <1>2, <1>3, <1>6, <1>8, <1>9, <1>10, OneStepped DEF OnlyValidation

LEMMA FillCapabilitiesFiles ==
  ASSUME SuiteTypeOK, FilesInv, NEW t \in Threads, FillCapabilities(t), ~disturbed'
  PROVE  FilesInv'
<1>1. PICK v : v = validation[t] OBVIOUS
<1>2. /\ v.stage = "fill" /\ ~disturbed
      /\ UNCHANGED <<timeline, registry, events>>
      /\ capabilities' \in Written(capabilities, v.list, <<>>)
      BY <1>1 DEF FillCapabilities, NoEvent, history
<1>3. OnlyValidation(t) /\ KeptPart(events, capabilities.content)
      BY <1>1, <1>2, OneRunning DEF Running
<1>4. SoundValidation(v) BY <1>1, SuiteTypeUnfolded
<1>5. /\ Names(registry) /\ Replaces(v, capabilities.content)
      /\ capabilities.state = "empty"
      BY <1>1, <1>2, <1>3 DEF OnlyValidation, RegistryPart, Registering
<1>6. capabilities'.content = v.list /\ Readable(capabilities')
      BY <1>2, <1>5 DEF Written, WholeFile, Readable
<1>7. PICK w : w = [v EXCEPT !.stage = "announce", !.list = <<>>] OBVIOUS
<1>8. validation' = [validation EXCEPT ![t] = w] BY <1>1, <1>7 DEF FillCapabilities
<1>9. w.stage = "announce" /\ w.next = v.next BY <1>4, <1>7, StepFields
<1>10. TimelinePart(w, timeline)
       BY <1>1, <1>2, <1>3, <1>9, TimelineStays DEF OnlyValidation, TimelineStages
<1>11. RegistryPart(w, registry, capabilities')
  <2>1. IF w.next = 1 THEN One(capabilities'.content) \/ Turned(capabilities'.content)
        ELSE Both(capabilities'.content)
        BY <1>5, <1>6, <1>9 DEF Replaces
  <2>2. QED BY <1>5, <1>6, <1>9, <2>1 DEF RegistryPart, Registering, TimelineStages
<1>12. KeptPart(events', capabilities'.content)
  <2>1. \/ None(capabilities.content) /\ One(v.list)
        \/ Both(capabilities.content) /\ Turned(v.list)
        \/ (One(capabilities.content) \/ Turned(capabilities.content)) /\ Both(v.list)
        BY <1>5 DEF Replaces
  <2>2. None(capabilities.content) => ~Announced(events, ApiTool) /\ ~Announced(events, HumanTask)
        BY <1>3 DEF KeptPart, None, One, Both, Turned
  <2>3. KeptPart(events, v.list) BY <2>1, <2>2 DEF KeptPart
  <2>4. QED BY <1>2, <1>6, <2>3
<1>13. QED BY <1>2, <1>3, <1>8, <1>10, <1>11, <1>12, OneStepped DEF OnlyValidation

LEMMA AnnounceFiles ==
  ASSUME MemoryTypeOK, SuiteTypeOK, FilesInv, NEW t \in Threads, Announce(t), ~disturbed'
  PROVE  FilesInv'
<1>1. PICK v : v = validation[t] OBVIOUS
<1>2. /\ v.stage = "announce" /\ UNCHANGED <<timeline, registry, capabilities>>
      /\ ~disturbed /\ Record(Registered(TrustedCapabilities[v.next]))
      BY <1>1 DEF Announce
<1>3. OnlyValidation(t) /\ KeptPart(events, capabilities.content)
      BY <1>1, <1>2, OneRunning DEF Running
<1>4. SoundValidation(v) /\ v.next \in {1, 2}
      BY <1>1, <1>2, SuiteTypeUnfolded DEF SoundValidation, TimelineStages
<1>5. /\ Names(registry) /\ Readable(capabilities)
      /\ IF v.next = 1 THEN One(capabilities.content) \/ Turned(capabilities.content)
         ELSE Both(capabilities.content)
      BY <1>1, <1>2, <1>3 DEF OnlyValidation, RegistryPart, Registering
<1>6. /\ TrustedCapabilities[1] = ApiTool /\ TrustedCapabilities[2] = HumanTask
      /\ Len(TrustedCapabilities) = 2
      BY DEF TrustedCapabilities
<1>7. PICK w : /\ validation' = [validation EXCEPT ![t] = w]
               /\ v.next = 1 => w.stage = "read" /\ w.next = 2
               /\ v.next = 2 => w.stage = "done"
  <2>1. CASE v.next = 1
    <3> DEFINE w == [v EXCEPT !.stage = "read", !.next = v.next + 1]
    <3>1. w.stage = "read" /\ w.next = v.next + 1 BY <1>4, StepFields
    <3>2. validation' = [validation EXCEPT ![t].stage = "read", ![t].next = @ + 1]
          BY <1>1, <1>6, <2>1 DEF Announce
    <3>3. validation' = [validation EXCEPT ![t] = w] BY <1>1, <3>2
    <3>4. v.next + 1 = 2 /\ v.next # 2 BY <2>1
    <3> HIDE DEF w
    <3>5. w.stage = "read" /\ w.next = 2 BY <3>1, <3>4
    <3>6. QED BY <3>3, <3>4, <3>5
  <2>2. CASE v.next = 2
    <3>1. validation' = [validation EXCEPT ![t] = NoValidation]
          BY <1>1, <1>6, <2>2 DEF Announce, End
    <3>2. v.next # 1 BY <2>2
    <3>3. QED BY <3>1, <3>2, NoValidationAt
  <2>3. QED BY <1>4, <2>1, <2>2
<1>8. TimelinePart(w, timeline)
  <2>1. w.stage \notin TimelineStages BY <1>4, <1>7 DEF TimelineStages
  <2>2. v.stage \notin TimelineStages BY <1>2 DEF TimelineStages
  <2>3. QED BY <1>1, <1>3, <2>1, <2>2, TimelineStays DEF OnlyValidation
<1>9. RegistryPart(w, registry, capabilities)
  <2>1. CASE v.next = 1
    <3>1. w.stage = "read" /\ w.next = 2 /\ Between(capabilities)
          BY <1>5, <1>7, <2>1 DEF Between
    <3>2. QED BY <1>5, <3>1 DEF RegistryPart, Registering, TimelineStages
  <2>2. CASE v.next = 2
    <3>1. w.stage = "done" /\ Agree(registry, capabilities) BY <1>5, <1>7, <2>2 DEF Agree
    <3>2. QED BY <3>1 DEF RegistryPart, Registering, TimelineStages
  <2>3. QED BY <1>4, <2>1, <2>2
<1>10. KeptPart(events', capabilities'.content)
  <2>1. CASE v.next = 1
    <3>1. Registered(ApiTool) # Registered(HumanTask) BY CapsDiffer DEF Registered
    <3>2. events' = [events EXCEPT ![Registered(ApiTool)] = @ + 1]
          BY <1>2, <1>6, <2>1 DEF Record
    <3>3. Announced(events', HumanTask) => Announced(events, HumanTask)
          BY <3>1, <3>2, CapsDiffer DEF Announced, MemoryTypeOK, EventKinds
    <3>4. QED BY <1>2, <1>3, <1>5, <2>1, <3>3 DEF KeptPart
  <2>2. CASE v.next = 2 BY <1>2, <1>5, <2>2 DEF KeptPart
  <2>3. QED BY <1>4, <2>1, <2>2
<1>11. QED BY <1>2, <1>3, <1>7, <1>8, <1>9, <1>10, OneStepped DEF OnlyValidation

LEMMA FilesOfSuite ==
  ASSUME MemoryTypeOK, SuiteTypeOK, FilesInv, SuiteAct
  PROVE  FilesInv'
<1> SUFFICES ASSUME ~disturbed' PROVE FilesInv'
    BY DEF FilesInv
<1>1. ASSUME NEW t \in Threads, ValidationStep(t) PROVE FilesInv'
  <2>1. CASE ReadTimeline(t) BY <2>1, ReadTimelineFiles
  <2>2. CASE OpenTimeline(t) BY <2>2, OpenTimelineFiles
  <2>3. CASE FillTimeline(t) BY <2>3, FillTimelineFiles
  <2>4. CASE OpenRegistry(t) BY <2>4, OpenRegistryFiles
  <2>5. CASE FillRegistry(t) BY <2>5, FillRegistryFiles
  <2>6. CASE RecordResult(t) BY <2>6, RecordResultFiles
  <2>7. CASE ReadCapabilities(t) BY <2>7, ReadCapabilitiesFiles
  <2>8. CASE OpenCapabilities(t) BY <2>8, OpenCapabilitiesFiles
  <2>9. CASE FillCapabilities(t) BY <2>9, FillCapabilitiesFiles
  <2>10. CASE Announce(t) BY <2>10, AnnounceFiles
  <2>11. QED BY <1>1, <2>1, <2>2, <2>3, <2>4, <2>5, <2>6, <2>7, <2>8, <2>9, <2>10
             DEF ValidationStep
<1>2. ASSUME NEW t \in Threads, NEW passes \in BOOLEAN, Validate(t, passes) PROVE FilesInv'
      BY <1>2, ValidateFiles
<1>3. ASSUME RecordGap \/ RecordApproval PROVE FilesInv'
  <2>1. \A cap \in Caps : events'[Registered(cap)] = events[Registered(cap)]
        BY <1>3, OtherEvent DEF RecordGap, RecordApproval, RecordOnly
  <2>2. UNCHANGED <<timeline, registry, validation, disturbed, capabilities>>
        BY <1>3 DEF RecordGap, RecordApproval, RecordOnly, suiteVars
  <2>3. QED BY <2>1, <2>2, FilesLeftAlone
<1>4. ASSUME SuiteRestart PROVE FilesInv'
  <2>1. ~disturbed /\ \A t \in Threads : ~Running(t) BY <1>4 DEF SuiteRestart
  <2>2. UNCHANGED <<timeline, registry, events, capabilities>>
        /\ \A t \in Threads : validation'[t] = NoValidation
        BY <1>4 DEF SuiteRestart, memoryVars
  <2>3. PICK t \in Threads : OnlyValidation(t) BY <2>1 DEF FilesInv
  <2>4. validation[t].stage = "done" BY <2>1 DEF Running
  <2>5. TimelinePart(NoValidation, timeline)
        BY <2>3, <2>4, NoValidationAt, TimelineStays DEF OnlyValidation, TimelineStages
  <2>6. RegistryPart(NoValidation, registry, capabilities)
    <3>1. Agree(registry, capabilities) BY <2>3, <2>4 DEF OnlyValidation, RegistryPart
    <3>2. QED BY <3>1, NoValidationAt DEF RegistryPart, Registering
  <2>7. \A u \in Threads : ~Running(u)' BY <2>2, NoValidationAt DEF Running
  <2>8. OnlyValidation(t)' BY <2>2, <2>5, <2>6, <2>7 DEF OnlyValidation
  <2>9. KeptPart(events, capabilities.content) BY <2>1 DEF FilesInv
  <2>10. QED BY <2>2, <2>8, <2>9 DEF FilesInv
<1>5. QED BY <1>1, <1>2, <1>3, <1>4 DEF SuiteAct

LEMMA RegistrationIsDistinct ==
  \A cap : Registered(cap) \notin TaskEvents \cup WritebackEvents
<1>1. \A cap : Registered(cap)[1] = "CAPABILITY_REGISTERED" BY DEF Registered
<1>2. \A event \in TaskEvents \cup WritebackEvents :
        event[1] \in {"HUMAN_APPROVAL_COMPLETED", "RPA_WRITEBACK_COMPLETED"}
      BY DEF TaskEvents, WritebackEvents, TaskRequest, Writeback
<1>3. QED BY <1>1, <1>2

LEMMA FilesStep == ServicesTypeOK /\ FilesInv /\ [ServicesNext]_servicesVars => FilesInv'
<1> SUFFICES ASSUME ServicesTypeOK, FilesInv, [ServicesNext]_servicesVars PROVE FilesInv'
    OBVIOUS
<1>0. MemoryTypeOK /\ SuiteTypeOK /\ FacadeTypeOK /\ LegacyTypeOK BY DEF ServicesTypeOK
<1>1. ASSUME NEW kinds, kinds = TaskEvents \/ kinds = WritebackEvents, MemoryStep(kinds),
             UNCHANGED <<capabilities, suiteVars>>
      PROVE  FilesInv'
  <2>1. ASSUME NEW cap \in Caps PROVE events'[Registered(cap)] = events[Registered(cap)]
    <3>1. Registered(cap) \in EventKinds \ kinds
      <4>1. Registered(cap) \in EventKinds BY DEF EventKinds
      <4>2. Registered(cap) \notin TaskEvents /\ Registered(cap) \notin WritebackEvents
            BY RegistrationIsDistinct
      <4>3. QED BY <1>1, <4>1, <4>2
    <3>2. kinds \subseteq EventKinds BY <1>1, EventKindsOfServices
    <3>3. Inserts(kinds) BY <1>1 DEF MemoryStep
    <3>4. events \in [EventKinds -> Nat] BY <1>0 DEF MemoryTypeOK
    <3>5. QED BY <3>1, <3>2, <3>3, <3>4, InsertsTyped
  <2>2. QED BY <1>1, <2>1, FilesLeftAlone DEF suiteVars
<1>2. CASE SuiteAct BY <1>0, <1>2, FilesOfSuite
<1>3. CASE FacadeAct BY <1>0, <1>1, <1>3, FacadeMemory DEF FacadeAct
<1>4. CASE ErpAct BY <1>0, <1>1, <1>4, ErpMemory DEF ErpAct
<1>5. CASE UNCHANGED servicesVars
      BY <1>5, FilesLeftAlone DEF servicesVars, suiteVars, memoryVars
<1>6. QED BY <1>2, <1>3, <1>4, <1>5, StepOfOneService

(* As long as no two validations overlap, no insert fails and no restart   *)
(* cuts one off, the registries stay whole and agree between validations,  *)
(* keep every capability that was announced, and the timeline tells its    *)
(* events in their order, however often the suite validates.               *)
THEOREM UndisturbedFilesStay == ServicesSpec => []UndisturbedFilesAgree
<1>1. ServicesInit => FilesInv BY FilesStart
<1>2. ServicesTypeOK /\ FilesInv /\ [ServicesNext]_servicesVars => FilesInv' BY FilesStep
<1>3. ServicesTypeOK /\ FilesInv => UndisturbedFilesAgree BY FilesAgree DEF ServicesTypeOK
<1>4. QED BY <1>1, <1>2, <1>3, ServicesTypeCorrect, PTL DEF ServicesSpec

----------------------------------------------------------------------------
(* A validation that ran alone leaves the registries in agreement.         *)

Listed(list) == One(list) \/ Both(list) \/ Turned(list)

(* Nobody but a validation writes capabilities.json: whatever overlaps, it *)
(* is one of these lists, or unreadable.                                   *)
SoundList(file) ==
  /\ Readable(file) => Listed(file.content)
  /\ ~Exists(file) => None(file.content)

(* What a validation is about to write, with its first entry and then with *)
(* its second.                                                             *)
Upserts(next, list) == IF next = 1 THEN One(list) \/ Turned(list) ELSE Both(list)

(* The first of its two entries is put at the end of what was there, the   *)
(* second behind it; by then the file exists.                              *)
Registers(v, file) ==
  /\ v.stage \in {"open_registry", "fill_registry", "record"} => v.next = 1
  /\ v.stage \in {"open", "fill"} => Upserts(v.next, v.list)
  /\ v.stage = "announce" \/ (v.stage \in Registering /\ v.next = 2) => Exists(file)

(* How far a validation that nobody disturbs has brought the two files.    *)
BroughtFar(v, older, newer) ==
  /\ v.stage = "fill_registry" => older.state = "empty"
  /\ v.stage \in Registering \/ (v.stage = "record" /\ v.passes) => older = WholeFile(TRUE)
  /\ v.stage = "fill" => newer.state = "empty"
  /\ v.stage = "announce" /\ v.next = 2 => Readable(newer) /\ Both(newer.content)

SettledFiles ==
  registry = WholeFile(TRUE) /\ Readable(capabilities) /\ Both(capabilities.content)

SettleInv ==
  /\ SoundList(capabilities)
  /\ \A t \in Threads : Registers(validation[t], capabilities)
  /\ \A t \in Threads : alone[t] /\ Running(t) =>
       /\ BroughtFar(validation[t], registry, capabilities)
       /\ \A u \in Threads \ {t} : ~Running(u)
  /\ settled =>
       /\ SettledFiles
       /\ \A t \in Threads :
            Running(t) => validation[t].stage = "record" /\ ~validation[t].passes

LEMMA IdleFacts ==
  /\ NoValidation.stage = "done" /\ NoValidation.next = 1 /\ NoValidation.passes = FALSE
  /\ \A file : Registers(NoValidation, file)
<1>1. NoValidation.stage = "done" /\ NoValidation.next = 1 /\ NoValidation.passes = FALSE
      BY DEF NoValidation
<1>2. QED BY <1>1 DEF Registers, Registering

LEMMA SettleStart == ServicesInit => SettleInv
<1> SUFFICES ASSUME ServicesInit PROVE SettleInv
    OBVIOUS
<1>1. \A t \in Threads : validation[t] = NoValidation /\ ~Running(t)
      BY IdleFacts DEF ServicesInit, SuiteInit, Running
<1>2. SoundList(capabilities)
      BY DEF ServicesInit, MemoryInit, NoFile, SoundList, Readable, Exists, None
<1>3. ~settled BY DEF ServicesInit, SuiteInit
<1>4. QED BY <1>1, <1>2, <1>3, IdleFacts DEF SettleInv

LEMMA SettleHolds == SettleInv => SettledRegistriesAgree
BY ListsHold DEF SettleInv, SettledFiles, SettledRegistriesAgree

(* A step of a running validation, which turns it into w.                  *)
LEMMA SettleByStep ==
  ASSUME SettleInv, DOMAIN validation = Threads,
         NEW t \in Threads, Running(t), NEW w,
         validation' = [validation EXCEPT ![t] = w], UNCHANGED alone,
         SoundList(capabilities'), Exists(capabilities) => Exists(capabilities'),
         Registers(w, capabilities'),
         alone[t] /\ w.stage # "done" => BroughtFar(w, registry', capabilities'),
         settled' => /\ SettledFiles'
                     /\ w.stage = "done"
                     /\ \A u \in Threads \ {t} :
                          Running(u) => validation[u].stage = "record" /\ ~validation[u].passes
  PROVE  SettleInv'
<1>1. validation'[t] = w /\ \A u \in Threads \ {t} : validation'[u] = validation[u]
      OBVIOUS
<1>2. \A u \in Threads : Registers(validation'[u], capabilities')
      BY <1>1 DEF SettleInv, Registers
<1>3. ASSUME NEW u \in Threads, alone'[u], Running(u)'
      PROVE  /\ BroughtFar(validation'[u], registry', capabilities')
             /\ \A x \in Threads \ {u} : ~Running(x)'
  <2>1. u = t
        BY <1>1, <1>3 DEF SettleInv, Running
  <2>2. QED BY <1>1, <1>3, <2>1 DEF SettleInv, Running
<1>4. settled' => \A u \in Threads :
        Running(u)' => validation'[u].stage = "record" /\ ~validation'[u].passes
      BY <1>1 DEF Running
<1>5. QED BY <1>2, <1>3, <1>4 DEF SettleInv

(* A step of a running validation while the files do not agree for good.   *)
LEMMA UnsettledStep ==
  ASSUME SettleInv, NEW t \in Threads, Running(t),
         validation[t].stage # "record" \/ validation[t].passes
  PROVE  ~settled
BY DEF SettleInv

LEMMA FilledList ==
  ASSUME NEW file, NEW list, Listed(list), NEW f \in Written(file, list, <<>>)
  PROVE  /\ SoundList(f) /\ Exists(f)
         /\ file.state = "empty" => Readable(f) /\ f.content = list
<1>1. /\ SoundList(WholeFile(list)) /\ Exists(WholeFile(list))
      /\ Readable(WholeFile(list)) /\ WholeFile(list).content = list
      BY DEF SoundList, WholeFile, Readable, Exists
<1>2. /\ SoundList([state |-> "mixed", content |-> <<>>])
      /\ Exists([state |-> "mixed", content |-> <<>>])
      BY DEF SoundList, Readable, Exists
<1>3. file.state = "empty" => f = WholeFile(list) BY Zenon DEF Written
<1>4. QED BY <1>1, <1>2, <1>3, WrittenIs

LEMMA OpenedList ==
  ASSUME NEW file, IsFile(file), SoundList(file)
  PROVE  SoundList(Truncated(file)) /\ Exists(Truncated(file)) /\ Truncated(file).state = "empty"
BY DEF IsFile, File, FileStates, SoundList, Truncated, Readable, Exists

LEMMA SettleOfSuite ==
  ASSUME ServicesTypeOK, SettleInv, SuiteAct
  PROVE  SettleInv'
<1>0. /\ SuiteTypeOK /\ DOMAIN validation = Threads /\ IsFile(capabilities)
      /\ alone \in [Threads -> BOOLEAN] /\ registry \in File(BOOLEAN)
      /\ \A t \in Threads : SoundValidation(validation[t])
      BY SuiteTypeUnfolded DEF ServicesTypeOK, MemoryTypeOK, HistoryTypeOK, IsFile
<1>1. ASSUME NEW t \in Threads, NEW passes \in BOOLEAN, Validate(t, passes) PROVE SettleInv'
  <2> DEFINE w == [NoValidation EXCEPT !.stage = IF passes THEN "read_timeline" ELSE "record",
                                       !.passes = passes]
  <2>1. w.stage = (IF passes THEN "read_timeline" ELSE "record") /\ w.passes = passes /\ w.next = 1
        BY DEF NoValidation
  <2>2. validation'[t] = w /\ \A u \in Threads \ {t} : validation'[u] = validation[u]
        BY <1>0, <1>1 DEF Validate
  <2>3. /\ UNCHANGED <<registry, capabilities>>
        /\ \A u \in Threads : alone'[u] => u = t /\ \A x \in Threads : ~Running(x)
        /\ settled' => settled /\ ~passes
        BY <1>1 DEF Validate, memoryVars
  <2> HIDE DEF w
  <2>4. \A u \in Threads : Registers(validation'[u], capabilities')
    <3>1. Registers(w, capabilities) BY <2>1 DEF Registers, Registering
    <3>2. QED BY <2>2, <2>3, <3>1 DEF SettleInv
  <2>5. BroughtFar(w, registry', capabilities')
        BY <2>1 DEF BroughtFar, Registering
  <2>6. settled' => /\ SettledFiles'
                    /\ \A u \in Threads :
                         Running(u)' => validation'[u].stage = "record" /\ ~validation'[u].passes
        BY <2>1, <2>2, <2>3 DEF SettleInv, SettledFiles, Running
  <2>7. \A u \in Threads : alone'[u] /\ Running(u)' =>
          /\ BroughtFar(validation'[u], registry', capabilities')
          /\ \A x \in Threads \ {u} : ~Running(x)'
        BY <2>2, <2>3, <2>5 DEF Running
  <2>8. QED BY <2>3, <2>4, <2>6, <2>7 DEF SettleInv
<1>2. ASSUME NEW t \in Threads, ValidationStep(t) PROVE SettleInv'
  <2> DEFINE v == validation[t]
  <2>0. /\ DOMAIN v = {"stage", "passes", "next", "seen", "list"}
        /\ v.next \in IF v.stage \in TimelineStages THEN 1..TimelineLength ELSE {1, 2}
        BY <1>0 DEF SoundValidation, NoValidation
  <2>a. /\ SoundList(capabilities) /\ Registers(v, capabilities)
        /\ alone[t] /\ Running(t) => BroughtFar(v, registry, capabilities)
        BY DEF SettleInv
  <2>b. /\ Running(t) /\ (v.stage # "record" \/ v.passes) => ~settled
        BY UnsettledStep
  <2>e. ASSUME Running(t), End(t), UNCHANGED <<alone, settled, registry, capabilities>>,
               v.stage # "record" \/ v.passes
        PROVE  SettleInv'
    <3>1. NoValidation.stage = "done" /\ Registers(NoValidation, capabilities') BY IdleFacts
    <3>2. ~settled' BY <2>b, <2>e
    <3>3. QED BY <1>0, <2>a, <2>e, <3>1, <3>2, SettleByStep DEF End
  <2>1. CASE ReadTimeline(t)
    <3>0. /\ v.stage = "read_timeline" /\ UNCHANGED <<registry, capabilities, alone, settled>>
          BY <2>1 DEF ReadTimeline, memoryVars, history
    <3>r. Running(t) /\ ~settled' BY <2>b, <3>0 DEF Running
    <3>1. CASE End(t) BY <2>e, <3>0, <3>1, <3>r
    <3>2. CASE ~End(t)
      <4>1. PICK list : validation' = [validation EXCEPT ![t].stage = "open_timeline",
                                                         ![t].seen = list]
            BY <2>1, <3>2 DEF ReadTimeline
      <4> DEFINE w == [v EXCEPT !.stage = "open_timeline", !.seen = list]
      <4>2. w.stage = "open_timeline" BY <2>0
      <4>3. validation' = [validation EXCEPT ![t] = w] BY <4>1
      <4> HIDE DEF w
      <4>4. Registers(w, capabilities') /\ BroughtFar(w, registry', capabilities')
            BY <4>2 DEF Registers, BroughtFar, Registering
      <4>5. QED BY <1>0, <2>a, <3>0, <3>r, <4>3, <4>4, SettleByStep
    <3>3. QED BY <3>1, <3>2
  <2>2. CASE OpenTimeline(t)
    <3>0. /\ v.stage = "open_timeline" /\ UNCHANGED <<registry, capabilities, alone, settled>>
          BY <2>2 DEF OpenTimeline, memoryVars, history
    <3>r. Running(t) /\ ~settled' BY <2>b, <3>0 DEF Running
    <3> DEFINE w == [v EXCEPT !.stage = "fill_timeline"]
    <3>1. w.stage = "fill_timeline" BY <2>0
    <3>2. validation' = [validation EXCEPT ![t] = w] BY <2>2 DEF OpenTimeline, Step
    <3> HIDE DEF w
    <3>3. Registers(w, capabilities') /\ BroughtFar(w, registry', capabilities')
          BY <3>1 DEF Registers, BroughtFar, Registering
    <3>4. QED BY <1>0, <2>a, <3>0, <3>r, <3>2, <3>3, SettleByStep
  <2>3. CASE FillTimeline(t)
    <3>0. /\ v.stage = "fill_timeline" /\ UNCHANGED <<registry, capabilities, alone, settled>>
          BY <2>3 DEF FillTimeline, memoryVars, history
    <3>r. Running(t) /\ ~settled' BY <2>b, <3>0 DEF Running
    <3> DEFINE more == v.next < TimelineLength
               w == [v EXCEPT !.stage = IF more THEN "read_timeline" ELSE "open_registry",
                              !.next = IF more THEN v.next + 1 ELSE 1, !.seen = <<>>]
    <3>1. /\ w.stage = (IF more THEN "read_timeline" ELSE "open_registry")
          /\ w.next = (IF more THEN v.next + 1 ELSE 1)
          BY <2>0
    <3>2. validation' = [validation EXCEPT ![t] = w] BY <2>3 DEF FillTimeline
    <3> HIDE DEF w
    <3>3. Registers(w, capabilities') /\ BroughtFar(w, registry', capabilities')
          BY <3>1 DEF Registers, BroughtFar, Registering
    <3>4. QED BY <1>0, <2>a, <3>0, <3>r, <3>2, <3>3, SettleByStep
  <2>4. CASE OpenRegistry(t)
    <3>0. /\ v.stage = "open_registry" /\ UNCHANGED <<capabilities, alone, settled>>
          /\ registry' = Truncated(registry)
          BY <2>4 DEF OpenRegistry, memoryVars, history
    <3>r. Running(t) /\ ~settled' BY <2>b, <3>0 DEF Running
    <3> DEFINE w == [v EXCEPT !.stage = "fill_registry"]
    <3>1. w.stage = "fill_registry" /\ w.next = v.next BY <2>0
    <3>2. validation' = [validation EXCEPT ![t] = w] BY <2>4 DEF OpenRegistry, Step
    <3>3. registry'.state = "empty" BY <1>0, <3>0 DEF File, FileStates, Truncated
    <3> HIDE DEF w
    <3>4. Registers(w, capabilities') BY <2>a, <3>0, <3>1 DEF Registers, Registering
    <3>5. BroughtFar(w, registry', capabilities') BY <3>1, <3>3 DEF BroughtFar, Registering
    <3>6. QED BY <1>0, <2>a, <3>0, <3>r, <3>2, <3>4, <3>5, SettleByStep
  <2>5. CASE FillRegistry(t)
    <3>0. /\ v.stage = "fill_registry" /\ UNCHANGED <<capabilities, alone, settled>>
          /\ registry' \in Written(registry, TRUE, FALSE)
          BY <2>5 DEF FillRegistry, memoryVars, history
    <3>r. Running(t) /\ ~settled' BY <2>b, <3>0 DEF Running
    <3> DEFINE w == [v EXCEPT !.stage = "record"]
    <3>1. w.stage = "record" /\ w.next = v.next BY <2>0
    <3>2. validation' = [validation EXCEPT ![t] = w] BY <2>5 DEF FillRegistry, Step
    <3>3. registry.state = "empty" => registry' = WholeFile(TRUE) BY <3>0, Zenon DEF Written
    <3> HIDE DEF w
    <3>4. Registers(w, capabilities') BY <2>a, <3>0, <3>1 DEF Registers, Registering
    <3>5. alone[t] => BroughtFar(w, registry', capabilities')
          BY <2>a, <3>0, <3>r, <3>1, <3>3 DEF BroughtFar, Registering
    <3>6. QED BY <1>0, <2>a, <3>0, <3>r, <3>2, <3>4, <3>5, SettleByStep
  <2>6. CASE RecordResult(t)
    <3>0. /\ v.stage = "record" /\ UNCHANGED <<registry, capabilities, alone, settled>>
          BY <2>6 DEF RecordResult
    <3>r. Running(t) BY <3>0 DEF Running
    <3>1. CASE v.passes
      <4>1. CASE End(t) BY <2>e, <3>0, <3>r, <3>1, <4>1
      <4>2. CASE Step(t, "read")
        <5> DEFINE w == [v EXCEPT !.stage = "read"]
        <5>1. w.stage = "read" /\ w.next = v.next BY <2>0
        <5>2. validation' = [validation EXCEPT ![t] = w] BY <4>2 DEF Step
        <5> HIDE DEF w
        <5>3. Registers(w, capabilities') BY <2>a, <3>0, <5>1 DEF Registers, Registering
        <5>4. alone[t] => BroughtFar(w, registry', capabilities')
              BY <2>a, <3>0, <3>r, <3>1, <5>1 DEF BroughtFar, Registering
        <5>5. ~settled' BY <2>b, <3>0, <3>r, <3>1
        <5>6. QED BY <1>0, <2>a, <3>0, <3>r, <5>2, <5>3, <5>4, <5>5, SettleByStep
      <4>3. QED BY <2>6, <4>1, <4>2 DEF RecordResult
    <3>2. CASE ~v.passes
      <4>1. End(t) BY <2>6, <3>2 DEF RecordResult
      <4>2. NoValidation.stage = "done" /\ Registers(NoValidation, capabilities') BY IdleFacts
      <4>3. settled' => /\ SettledFiles'
                        /\ \A u \in Threads \ {t} :
                             Running(u) => validation[u].stage = "record" /\ ~validation[u].passes
            BY <3>0 DEF SettleInv, SettledFiles
      <4>4. QED BY <1>0, <2>a, <3>0, <3>r, <4>1, <4>2, <4>3, SettleByStep DEF End
    <3>3. QED BY <3>1, <3>2
  <2>7. CASE ReadCapabilities(t)
    <3>0. /\ v.stage = "read" /\ UNCHANGED <<registry, capabilities, alone, settled>>
          BY <2>7 DEF ReadCapabilities, memoryVars, history
    <3>r. Running(t) /\ ~settled' BY <2>b, <3>0 DEF Running
    <3>n. v.next \in {1, 2} BY <2>0, <3>0 DEF TimelineStages
    <3>1. CASE Exists(capabilities) /\ ~Readable(capabilities)
          BY <2>7, <2>e, <3>0, <3>1, <3>r DEF ReadCapabilities
    <3>2. CASE ~(Exists(capabilities) /\ ~Readable(capabilities))
      <4> DEFINE list == Upserted(Load(capabilities, <<>>), TrustedCapabilities[v.next])
                 w == [v EXCEPT !.stage = "open", !.list = list]
      <4>1. w.stage = "open" /\ w.next = v.next /\ w.list = list BY <2>0
      <4>2. validation' = [validation EXCEPT ![t] = w] BY <2>7, <3>2 DEF ReadCapabilities
      <4>3. TrustedCapabilities[1] = ApiTool /\ TrustedCapabilities[2] = HumanTask
            BY DEF TrustedCapabilities
      <4>4. v.next = 2 => Exists(capabilities) BY <2>a, <3>0 DEF Registers, Registering
      <4>5. None(Load(capabilities, <<>>)) \/ Listed(Load(capabilities, <<>>))
            BY <2>a DEF SoundList, Load, None
      <4>6. v.next = 2 => Listed(Load(capabilities, <<>>))
            BY <2>a, <3>2, <4>4 DEF SoundList, Load
      <4>7. Upserts(v.next, list)
        <5>1. CASE v.next = 1
              BY <4>3, <4>5, <5>1, UpsertedLists DEF Listed, Upserts
        <5>2. CASE v.next = 2
              BY <4>3, <4>6, <5>2, UpsertedLists DEF Listed, Upserts
        <5>3. QED BY <3>n, <5>1, <5>2
      <4> HIDE DEF w, list
      <4>8. Registers(w, capabilities')
            BY <2>a, <3>0, <4>1, <4>4, <4>7 DEF Registers, Registering
      <4>9. alone[t] => BroughtFar(w, registry', capabilities')
            BY <2>a, <3>0, <3>r, <4>1 DEF BroughtFar, Registering
      <4>10. QED BY <1>0, <2>a, <3>0, <3>r, <4>2, <4>8, <4>9, SettleByStep
    <3>3. QED BY <3>1, <3>2
  <2>8. CASE OpenCapabilities(t)
    <3>0. /\ v.stage = "open" /\ UNCHANGED <<registry, alone, settled>>
          /\ capabilities' = Truncated(capabilities)
          BY <2>8 DEF OpenCapabilities, history
    <3>r. Running(t) /\ ~settled' BY <2>b, <3>0 DEF Running
    <3> DEFINE w == [v EXCEPT !.stage = "fill"]
    <3>1. w.stage = "fill" /\ w.next = v.next /\ w.list = v.list BY <2>0
    <3>2. validation' = [validation EXCEPT ![t] = w] BY <2>8 DEF OpenCapabilities, Step
    <3>3. SoundList(capabilities') /\ Exists(capabilities') /\ capabilities'.state = "empty"
          BY <1>0, <2>a, <3>0, OpenedList
    <3> HIDE DEF w
    <3>4. Registers(w, capabilities')
          BY <2>a, <3>0, <3>1, <3>3 DEF Registers, Registering
    <3>5. alone[t] => BroughtFar(w, registry', capabilities')
          BY <2>a, <3>0, <3>r, <3>1, <3>3 DEF BroughtFar, Registering
    <3>6. QED BY <1>0, <2>a, <3>0, <3>r, <3>2, <3>3, <3>4, <3>5, SettleByStep
  <2>9. CASE FillCapabilities(t)
    <3>0. /\ v.stage = "fill" /\ UNCHANGED <<registry, alone, settled>>
          /\ capabilities' \in Written(capabilities, v.list, <<>>)
          BY <2>9 DEF FillCapabilities, history
    <3>r. Running(t) /\ ~settled' BY <2>b, <3>0 DEF Running
    <3> DEFINE w == [v EXCEPT !.stage = "announce", !.list = <<>>]
    <3>1. w.stage = "announce" /\ w.next = v.next BY <2>0
    <3>2. validation' = [validation EXCEPT ![t] = w] BY <2>9 DEF FillCapabilities
    <3>3. Upserts(v.next, v.list) BY <2>a, <3>0 DEF Registers
    <3>4. Listed(v.list) BY <3>3 DEF Listed, Upserts
    <3>5. /\ SoundList(capabilities') /\ Exists(capabilities')
          /\ capabilities.state = "empty" =>
               Readable(capabilities') /\ capabilities'.content = v.list
          BY <3>0, <3>4, FilledList
    <3> HIDE DEF w
    <3>6. Registers(w, capabilities') BY <3>1, <3>5 DEF Registers, Registering
    <3>7. alone[t] => BroughtFar(w, registry', capabilities')
      <4>1. alone[t] => capabilities.state = "empty" /\ registry = WholeFile(TRUE)
            BY <2>a, <3>0, <3>r DEF BroughtFar, Registering
      <4>2. v.next = 2 => Both(v.list) BY <3>3 DEF Upserts
      <4>3. QED BY <3>0, <3>1, <3>5, <4>1, <4>2 DEF BroughtFar, Registering
    <3>8. QED BY <1>0, <2>a, <3>0, <3>r, <3>2, <3>5, <3>6, <3>7, SettleByStep
  <2>10. CASE Announce(t)
    <3>0. /\ v.stage = "announce" /\ UNCHANGED <<registry, capabilities, alone>>
          /\ settled' = IF v.next = 2 THEN alone[t] ELSE settled
          BY <2>10, TrustedOrder DEF Announce
    <3>r. Running(t) /\ ~settled BY <2>b, <3>0 DEF Running
    <3>n. v.next \in {1, 2} BY <2>0, <3>0 DEF TimelineStages
    <3>1. CASE v.next = 2
      <4>1. End(t) BY <2>10, <3>1, TrustedOrder DEF Announce
      <4>2. NoValidation.stage = "done" /\ Registers(NoValidation, capabilities') BY IdleFacts
      <4>3. alone[t] => /\ BroughtFar(v, registry, capabilities)
                        /\ \A u \in Threads \ {t} : ~Running(u)
            BY <3>r DEF SettleInv
      <4>4. alone[t] => SettledFiles'
            BY <3>0, <3>1, <4>3 DEF BroughtFar, Registering, SettledFiles
      <4>5. QED BY <1>0, <2>a, <3>0, <3>r, <3>1, <4>1, <4>2, <4>3, <4>4, SettleByStep DEF End
    <3>2. CASE v.next = 1
      <4>0. ~settled' BY <3>0, <3>r, <3>2
      <4>1. CASE End(t)
        <5>1. NoValidation.stage = "done" /\ Registers(NoValidation, capabilities') BY IdleFacts
        <5>2. QED BY <1>0, <2>a, <3>0, <3>r, <4>0, <4>1, <5>1, SettleByStep DEF End
      <4>2. CASE ~End(t)
        <5> DEFINE w == [v EXCEPT !.stage = "read", !.next = v.next + 1]
        <5>1. w.stage = "read" /\ w.next = 2 BY <2>0, <3>2
        <5>2. validation' = [validation EXCEPT ![t] = w] BY <2>10, <4>2 DEF Announce
        <5>3. Exists(capabilities) BY <2>a, <3>0 DEF Registers
        <5> HIDE DEF w
        <5>4. Registers(w, capabilities') BY <3>0, <5>1, <5>3 DEF Registers, Registering
        <5>5. alone[t] => BroughtFar(w, registry', capabilities')
              BY <2>a, <3>0, <3>r, <5>1 DEF BroughtFar, Registering
        <5>6. QED BY <1>0, <2>a, <3>0, <3>r, <4>0, <5>2, <5>4, <5>5, SettleByStep
      <4>3. QED BY <4>1, <4>2
    <3>3. QED BY <3>n, <3>1, <3>2
  <2>11. QED BY <1>2, <2>1, <2>2, <2>3, <2>4, <2>5, <2>6, <2>7, <2>8, <2>9, <2>10 DEF ValidationStep
<1>3. CASE RecordGap \/ RecordApproval
  <2>1. UNCHANGED suiteVars /\ UNCHANGED capabilities
        BY <1>3 DEF RecordGap, RecordApproval, RecordOnly
  <2>2. QED BY <2>1 DEF suiteVars, SettleInv, SettledFiles, Running
<1>4. CASE SuiteRestart
  <2>1. \A u \in Threads : validation'[u] = NoValidation /\ ~Running(u)'
        BY <1>4, IdleFacts DEF SuiteRestart, Running
  <2>2. UNCHANGED <<registry, capabilities, settled>> BY <1>4 DEF SuiteRestart, memoryVars
  <2>3. QED BY <2>1, <2>2, IdleFacts DEF SettleInv, SettledFiles
<1>5. QED BY <1>1, <1>2, <1>3, <1>4 DEF SuiteAct

LEMMA SettleStep == ServicesTypeOK /\ SettleInv /\ [ServicesNext]_servicesVars => SettleInv'
<1> SUFFICES ASSUME ServicesTypeOK, SettleInv, [ServicesNext]_servicesVars PROVE SettleInv'
    OBVIOUS
<1>1. CASE SuiteAct BY <1>1, SettleOfSuite
<1>2. ASSUME UNCHANGED capabilities, UNCHANGED suiteVars PROVE SettleInv'
      BY <1>2 DEF SettleInv, SettledFiles, Running, suiteVars
<1>3. CASE FacadeAct BY <1>2, <1>3, FacadeMemory DEF FacadeAct, ServicesTypeOK
<1>4. CASE ErpAct BY <1>2, <1>4, ErpMemory DEF ErpAct, ServicesTypeOK
<1>5. CASE UNCHANGED servicesVars BY <1>2, <1>5 DEF servicesVars, memoryVars
<1>6. QED BY <1>1, <1>3, <1>4, <1>5, StepOfOneService

(* Whatever validations did to each other's files before, failed half-way  *)
(* or left behind at a restart: once one has passed and run alone to its   *)
(* last step, both registries are whole, name both capabilities, and make  *)
(* triage find the API tool, until the next one begins to write.           *)
THEOREM RegistriesSettle == ServicesSpec => []SettledRegistriesAgree
<1>1. ServicesInit => SettleInv BY SettleStart
<1>2. ServicesTypeOK /\ SettleInv /\ [ServicesNext]_servicesVars => SettleInv' BY SettleStep
<1>3. QED BY <1>1, <1>2, ServicesTypeCorrect, SettleHolds, PTL DEF ServicesSpec

=============================================================================
