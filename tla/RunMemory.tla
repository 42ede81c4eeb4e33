------------------------------ MODULE RunMemory ------------------------------
(***************************************************************************)
(* The run records of memory/run_memory.py: start_run, append_event and    *)
(* complete_run, called by the /memory/runs endpoints on pool threads.     *)
(*                                                                         *)
(* A run is a directory with an append-only stream of events. The other    *)
(* files (timelines, states, the list of a case's runs) are JSON that each *)
(* call rewrites after it has appended its event: read, opened and written *)
(* in steps that other threads, and a restart, can come between. Only the  *)
(* numbering of runs is locked, by a lock of each process.                 *)
(*                                                                         *)
(* Abstracted: payloads and times; the date in a run id (one day); the     *)
(* artifact files, which nothing here reads; an append to the stream, one  *)
(* short line, is one step. Clients send events to runs whose start was    *)
(* answered, with the case they started.                                   *)
(***************************************************************************)
EXTENDS Integers, FiniteSets, Sequences, ThreadPool, JsonFile

CONSTANTS
  Processes,  \* processes that share one memory directory
  ProcessOf,  \* the process of a thread
  Cases,      \* case ids
  MaxRuns,    \* bound: runs started
  MaxCalls,   \* bound: events appended
  MaxDisturbances  \* bound: overlaps of calls and restarts in the middle of one

ASSUME RunMemoryAssumptions ==
  /\ ProcessOf \in [Threads -> Processes]
  /\ Cases # {}
  /\ MaxRuns \in Nat \ {0}
  /\ MaxCalls \in Nat
  /\ MaxDisturbances \in Nat

VARIABLES
  dirs,      \* run directories, by sequence number
  stream,    \* raw/uipath_execution_events.jsonl of each run
  files,     \* the JSON files, by name
  lock,      \* _RUN_ID_LOCK of each process: its holder
  thread,    \* per thread: the call it runs and what that call holds
  calls,     \* events appended so far: the last one's number
  answered,  \* history: calls that have returned to their client
  disturbances  \* history: how often a call met another, or a restart cut calls off

runVars == <<dirs, stream, files, lock, thread, calls, answered, disturbances>>

----------------------------------------------------------------------------
(* Values.                                                                 *)

Runs     == 1..MaxRuns
Free     == "free"
Ops      == {"start", "complete", "plain", "key", "keyInCase"}
Recorded == Ops \ {"plain"}  \* the kinds in TIMELINE_EVENT_TYPES

(* "key" is an event of those types sent without a case id.                *)
Event == [call : Nat, op : Ops, case : Cases]

Timeline(r)     == <<"timeline", r>>
State(r)        == <<"state", r>>
CaseTimeline(c) == <<"caseTimeline", c>>
CaseState(c)    == <<"caseState", c>>
LatestRun(c)    == <<"latestRun", c>>
Related(c)      == <<"relatedRuns", c>>

FileNames ==
  ({"timeline", "state"} \X Runs)
    \cup ({"caseTimeline", "caseState", "latestRun", "relatedRuns"} \X Cases)

(* related_runs.json: the runs it lists and those it shows as completed.   *)
NoRelated == [listed |-> {}, done |-> {}]

(* What _read_json answers with when there is nothing to read.             *)
Nothing(name) ==
  CASE name[1] \in {"timeline", "caseTimeline"} -> << >>
    [] name[1] = "state" -> "none"
    [] name[1] \in {"caseState", "latestRun"} -> 0
    [] name[1] = "relatedRuns" -> NoRelated

Contents(name) ==
  CASE name[1] \in {"timeline", "caseTimeline"} -> Seq(Nat)
    [] name[1] = "state" -> {"none", "RUN_STARTED", "RUN_COMPLETED"}
    [] name[1] \in {"caseState", "latestRun"} -> {0} \cup Runs
    [] name[1] = "relatedRuns" -> [listed : SUBSET Runs, done : SUBSET Runs]

(* What a call does once its event is in the stream: the files it rewrites *)
(* in order, those it reads first as "update" and the others as "replace". *)
Task == [how : {"update", "replace"}, name : FileNames]
Update(name)  == [how |-> "update", name |-> name]
Replace(name) == [how |-> "replace", name |-> name]

Tasks(op, r, c) ==
  CASE op = "start" -> <<Update(Related(c)), Replace(State(r)), Replace(Timeline(r))>>
    [] op = "plain" -> << >>
    [] op = "key" -> <<Update(Timeline(r))>>
    [] op = "keyInCase" -> <<Update(Timeline(r)), Update(CaseTimeline(c))>>
    [] op = "complete" ->
         <<Update(Timeline(r)), Update(CaseTimeline(c)), Update(State(r)),
           Replace(CaseState(c)), Replace(LatestRun(c)), Update(Related(c))>>

IdleThread == [pc |-> "idle", op |-> "plain", run |-> 0, case |-> CHOOSE c \in Cases : TRUE,
               call |-> 0, todo |-> << >>, seen |-> << >>]
Busy == {t \in Threads : thread[t].pc # "idle"}

Go(t, pc) == thread' = [thread EXCEPT ![t].pc = pc]

RunInit ==
  /\ dirs = {}
  /\ stream = [r \in Runs |-> << >>]
  /\ files = [name \in FileNames |-> NoFile(Nothing(name))]
  /\ lock = [p \in Processes |-> Free]
  /\ thread = [t \in Threads |-> IdleThread]
  /\ calls = 0
  /\ answered = {}
  /\ disturbances = 0

----------------------------------------------------------------------------
(* Calls.                                                                  *)

Disturb ==
  /\ disturbances < MaxDisturbances
  /\ disturbances' = disturbances + 1

Begin(t, op, r, c, pc) ==
  /\ thread[t].pc = "idle"
  /\ thread' = [thread EXCEPT ![t] = [IdleThread EXCEPT !.pc = pc, !.op = op, !.run = r,
                                                        !.case = c]]
  /\ IF Busy = {} THEN UNCHANGED disturbances ELSE Disturb

NextSequence == 1 + (IF dirs = {} THEN 0 ELSE CHOOSE r \in dirs : \A q \in dirs : q <= r)

(* generate_run_id: under the lock of its process, the first number after  *)
(* all directories there are.                                              *)
ScanRuns(t, c) ==
  /\ lock[ProcessOf[t]] = Free
  /\ NextSequence \in Runs
  /\ Begin(t, "start", NextSequence, c, "reserve")
  /\ lock' = [lock EXCEPT ![ProcessOf[t]] = t]
  /\ UNCHANGED <<dirs, stream, files, calls, answered>>

Reserve_ExistOk(t) ==
  /\ thread[t].pc = "reserve"
  /\ dirs' = dirs \cup {thread[t].run}
  /\ lock' = [lock EXCEPT ![ProcessOf[t]] = Free]
  /\ Go(t, "append")
  /\ UNCHANGED <<stream, files, calls, answered, disturbances>>

(* mkdir(exist_ok=False): another process may have taken the number.       *)
Reserve(t) ==
  /\ thread[t].pc = "reserve"
  /\ \/ /\ thread[t].run \in dirs
        /\ thread[t].run + 1 \in Runs
        /\ thread' = [thread EXCEPT ![t].run = thread[t].run + 1]
        /\ UNCHANGED <<dirs, lock>>
     \/ /\ thread[t].run \notin dirs
        /\ dirs' = dirs \cup {thread[t].run}
        /\ lock' = [lock EXCEPT ![ProcessOf[t]] = Free]
        /\ Go(t, "append")
  /\ UNCHANGED <<stream, files, calls, answered, disturbances>>

(* A run that a client knows: its start event's call was answered.         *)
Known(r) == stream[r] # << >> /\ stream[r][1].call \in answered

(* append_event and complete_run begin at a run that exists.               *)
SendEvent(t, r, op) ==
  /\ Known(r)
  /\ r \in dirs
  /\ Begin(t, op, r, stream[r][1].case, "append")
  /\ UNCHANGED <<dirs, stream, files, lock, calls, answered>>

AppendEvent_Rewrites(t) ==
  LET w == thread[t] IN
  /\ w.pc = "append"
  /\ calls < MaxCalls
  /\ calls' = calls + 1
  /\ stream' = [stream EXCEPT ![w.run] =
                 <<[call |-> calls + 1, op |-> w.op, case |-> w.case]>>]
  /\ thread' = [thread EXCEPT ![t].pc = "next", ![t].call = calls + 1,
                              ![t].todo = Tasks(w.op, w.run, w.case)]
  /\ UNCHANGED <<dirs, files, lock, answered, disturbances>>

AppendEvent(t) ==
  LET w == thread[t] IN
  /\ w.pc = "append"
  /\ calls < MaxCalls
  /\ calls' = calls + 1
  /\ stream' = [stream EXCEPT ![w.run] =
                 Append(stream[w.run], [call |-> calls + 1, op |-> w.op, case |-> w.case])]
  /\ thread' = [thread EXCEPT ![t].pc = "next", ![t].call = calls + 1,
                              ![t].todo = Tasks(w.op, w.run, w.case)]
  /\ UNCHANGED <<dirs, files, lock, answered, disturbances>>

(* The rewrites, one file after the other.                                 *)
File1(t) == Head(thread[t].todo).name

ReadFile_Default(t) ==
  /\ thread[t].pc = "next"
  /\ thread[t].todo # << >>
  /\ Head(thread[t].todo).how = "update"
  /\ thread' = [thread EXCEPT ![t].pc = "open", ![t].seen = Nothing(File1(t))]
  /\ UNCHANGED <<dirs, stream, files, lock, calls, answered, disturbances>>

ReadFile(t) ==
  /\ thread[t].pc = "next"
  /\ thread[t].todo # << >>
  /\ Head(thread[t].todo).how = "update"
  /\ thread' = [thread EXCEPT ![t].pc = "open",
                              ![t].seen = Load(files[File1(t)], Nothing(File1(t)))]
  /\ UNCHANGED <<dirs, stream, files, lock, calls, answered, disturbances>>

OpenFile(t) ==
  /\ \/ thread[t].pc = "open"
     \/ /\ thread[t].pc = "next"
        /\ thread[t].todo # << >>
        /\ Head(thread[t].todo).how = "replace"
  /\ files' = [files EXCEPT ![File1(t)] = Truncated(files[File1(t)])]
  /\ Go(t, "write")
  /\ UNCHANGED <<dirs, stream, lock, calls, answered, disturbances>>

NewContent_EveryEntry(t) ==
  LET w == thread[t]
      kind == File1(t)[1]
  IN CASE kind = "timeline" /\ w.op = "start" -> <<w.call>>
       [] kind = "timeline" /\ w.op # "start" -> Append(w.seen, w.call)
       [] kind = "caseTimeline" -> Append(w.seen, w.call)
       [] kind = "state" /\ w.op = "start" -> "RUN_STARTED"
       [] kind = "state" /\ w.op # "start" -> "RUN_COMPLETED"
       [] kind \in {"caseState", "latestRun"} -> w.run
       [] kind = "relatedRuns" /\ w.op = "start" ->
            [w.seen EXCEPT !.listed = w.seen.listed \cup {w.run}]
       [] kind = "relatedRuns" /\ w.op # "start" ->
            [w.seen EXCEPT !.done = w.seen.listed]

(* A related_runs.json that could not be read is written back without the  *)
(* runs it listed, and a run it does not list cannot be shown completed.   *)
NewContent(t) ==
  LET w == thread[t]
      kind == File1(t)[1]
  IN CASE kind = "timeline" /\ w.op = "start" -> <<w.call>>
       [] kind = "timeline" /\ w.op # "start" -> Append(w.seen, w.call)
       [] kind = "caseTimeline" -> Append(w.seen, w.call)
       [] kind = "state" /\ w.op = "start" -> "RUN_STARTED"
       [] kind = "state" /\ w.op # "start" -> "RUN_COMPLETED"
       [] kind \in {"caseState", "latestRun"} -> w.run
       [] kind = "relatedRuns" /\ w.op = "start" ->
            [w.seen EXCEPT !.listed = w.seen.listed \cup {w.run}]
       [] kind = "relatedRuns" /\ w.op # "start" ->
            [w.seen EXCEPT !.done = w.seen.done \cup ({w.run} \cap w.seen.listed)]

WriteFile(t) ==
  /\ thread[t].pc = "write"
  /\ \E file \in Written(files[File1(t)], NewContent(t), Nothing(File1(t))) :
       files' = [files EXCEPT ![File1(t)] = file]
  /\ thread' = [thread EXCEPT ![t].pc = "next", ![t].seen = << >>,
                              ![t].todo = Tail(thread[t].todo)]
  /\ UNCHANGED <<dirs, stream, lock, calls, answered, disturbances>>

Answer(t) ==
  /\ thread[t].pc = "next"
  /\ thread[t].todo = << >>
  /\ answered' = answered \cup {thread[t].call}
  /\ thread' = [thread EXCEPT ![t] = IdleThread]
  /\ UNCHANGED <<dirs, stream, files, lock, calls, disturbances>>

Restart(p) ==
  /\ \E t \in Busy : ProcessOf[t] = p
  /\ thread' = [t \in Threads |-> IF ProcessOf[t] = p THEN IdleThread ELSE thread[t]]
  /\ lock' = [lock EXCEPT ![p] = Free]
  /\ Disturb
  /\ UNCHANGED <<dirs, stream, files, calls, answered>>

RunNext ==
  \/ \E t \in Threads :
       \/ \E c \in Cases : ScanRuns(t, c)
       \/ Reserve(t)
       \/ \E r \in Runs, op \in Ops \ {"start"} : SendEvent(t, r, op)
       \/ AppendEvent(t)
       \/ ReadFile(t) \/ OpenFile(t) \/ WriteFile(t)
       \/ Answer(t)
  \/ \E p \in Processes : Restart(p)

RunSpec == RunInit /\ [][RunNext]_runVars

----------------------------------------------------------------------------
(* Properties.                                                             *)

(* Type: every file holds what its writers put there.                      *)
RunTypeOK ==
  /\ dirs \subseteq Runs
  /\ stream \in [Runs -> Seq(Event)]
  /\ DOMAIN files = FileNames
  /\ \A name \in FileNames : files[name] \in File(Contents(name))
  /\ lock \in [Processes -> Threads \cup {Free}]
  /\ \A t \in Threads :
       /\ thread[t].pc \in {"idle", "reserve", "append", "next", "open", "write"}
       /\ thread[t].op \in Ops
       /\ thread[t].run \in {0} \cup Runs
       /\ thread[t].case \in Cases
       /\ thread[t].call \in 0..calls
       /\ thread[t].todo \in Seq(Task)
  /\ calls \in 0..MaxCalls
  /\ answered \subseteq 1..calls
  /\ disturbances \in 0..MaxDisturbances

HasEvent(r, op) == \E i \in DOMAIN stream[r] : stream[r][i].op = op

EventsOf(r) == {stream[r][i].call : i \in {j \in DOMAIN stream[r] : stream[r][j].op \in Recorded}}

(* No two starts share a run, whatever threads and processes race and      *)
(* wherever a restart drops a lock: a run has one start event, which is    *)
(* its first (generate_run_id).                                            *)
OneStartPerRun ==
  /\ \A r \in Runs : \A i \in DOMAIN stream[r] : stream[r][i].op = "start" <=> i = 1
  /\ \A t, u \in Threads :
       /\ t # u
       /\ \A x \in {t, u} : thread[x].pc = "append" /\ thread[x].op = "start"
       => thread[t].run # thread[u].run

(* The event of a call that was answered stays in the stream of its run,   *)
(* also when racing calls lose it in every timeline (append_event: "Never  *)
(* overwrites prior events").                                              *)
AnsweredEventsAreKept ==
  \A call \in answered : \E r \in Runs : \E i \in DOMAIN stream[r] : stream[r][i].call = call

(* No file tells of something that the streams do not: the event comes     *)
(* first, so a call that a restart cuts off can leave the other files      *)
(* behind the stream but never ahead of it (start_run, append_event,       *)
(* complete_run).                                                          *)
FilesFollowStreams ==
  /\ \A r \in Runs :
       /\ \A i \in DOMAIN files[Timeline(r)].content :
            files[Timeline(r)].content[i] \in EventsOf(r)
       /\ files[State(r)].content = "RUN_COMPLETED" => HasEvent(r, "complete")
  /\ \A c \in Cases :
       LET related == files[Related(c)].content
           latest  == {files[CaseState(c)].content, files[LatestRun(c)].content} \ {0}
       IN /\ \A i \in DOMAIN files[CaseTimeline(c)].content :
               \E r \in Runs : files[CaseTimeline(c)].content[i] \in EventsOf(r)
          /\ \A r \in related.listed : HasEvent(r, "start")
          /\ \A r \in related.done \cup latest : HasEvent(r, "complete")

Quiet == disturbances = 0 /\ Busy = {}

InOrder(events) == \A i, j \in DOMAIN events : i < j => events[i] < events[j]

(* The timelines have every event of theirs, once and in order             *)
(* (_append_timeline_step, _append_case_timeline).                         *)
TimelinesComplete ==
  /\ \A r \in dirs : LET events == files[Timeline(r)].content IN
       InOrder(events) /\ {events[i] : i \in DOMAIN events} = EventsOf(r)
  /\ \A c \in Cases : LET events == files[CaseTimeline(c)].content IN
       /\ InOrder(events)
       /\ {events[i] : i \in DOMAIN events} =
            UNION {{stream[r][i].call : i \in {j \in DOMAIN stream[r] :
                      stream[r][j].op \in {"keyInCase", "complete"}}} :
                   r \in {q \in dirs : stream[q][1].case = c}}

(* The four places that speak of a case's runs agree: every run of the     *)
(* case is listed, the completed ones are shown as completed, and the      *)
(* latest run is the one whose completion came last.                       *)
CaseViewsAgree ==
  \A c \in Cases :
    LET runs == {r \in dirs : stream[r][1].case = c}
        done == {r \in runs : HasEvent(r, "complete")}
        last == {r \in done : \E i \in DOMAIN stream[r] :
                   /\ stream[r][i].op = "complete"
                   /\ \A q \in done : \A j \in DOMAIN stream[q] :
                        stream[q][j].op = "complete" => stream[q][j].call <= stream[r][i].call}
    IN /\ files[Related(c)].content = [listed |-> runs, done |-> done]
       /\ \A r \in runs : files[State(r)].content = "RUN_COMPLETED" <=> r \in done
       /\ done # {} => {files[CaseState(c)].content, files[LatestRun(c)].content} = last

(* When calls come one at a time and none is cut off, everything that is   *)
(* derived from the event streams tells all that the streams do.           *)
DerivedFilesComplete == Quiet => TimelinesComplete /\ CaseViewsAgree

=============================================================================
