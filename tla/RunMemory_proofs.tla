-------------------------- MODULE RunMemory_proofs --------------------------
(***************************************************************************)
(* Proofs about RunMemory for any number of processes, threads, cases,     *)
(* runs and calls, with calls that overlap and restarts anywhere.          *)
(***************************************************************************)
EXTENDS RunMemory, TLAPS

----------------------------------------------------------------------------
(* The streams. What a thread at each of its steps may rely on: a number   *)
(* it reserved is a directory of its own until its start event is in it,   *)
(* and once its event is in the stream it stays there.                     *)

Steps == {"idle", "reserve", "append", "next", "open", "write"}
Told  == {"next", "open", "write"}  \* the event is in the stream

Seen == {<< >>} \cup UNION {Contents(name) : name \in FileNames}

Call == [pc : Steps, op : Ops, run : {0} \cup Runs, case : Cases, call : Nat,
         todo : Seq(Task), seen : Seen]

InStream(r, event) == \E i \in DOMAIN stream[r] : stream[r][i] = event

EventOf(w) == [call |-> w.call, op |-> w.op, case |-> w.case]

StreamTypeOK ==
  /\ dirs \subseteq Runs
  /\ stream \in [Runs -> Seq(Event)]
  /\ lock \in [Processes -> Threads \cup {Free}]
  /\ thread \in [Threads -> Call]
  /\ calls \in Nat
  /\ answered \subseteq 1..calls
  /\ disturbances \in Nat

OnlyInDirs == \A r \in Runs : stream[r] # << >> => r \in dirs

CallSound(w) ==
  /\ w.pc = "reserve" => w.op = "start" /\ w.run \in Runs
  /\ w.pc = "append" =>
       /\ w.run \in dirs
       /\ w.op = "start" <=> stream[w.run] = << >>
  /\ w.pc \in Told =>
       /\ w.run \in Runs
       /\ w.call \in 1..calls
       /\ InStream(w.run, EventOf(w))
  /\ w.call \in 0..calls

CallsSound == \A t \in Threads : CallSound(thread[t])

StreamInv ==
  /\ StreamTypeOK
  /\ OnlyInDirs
  /\ CallsSound
  /\ OneStartPerRun
  /\ AnsweredEventsAreKept

LEMMA IdleIsCall == IdleThread \in Call
<1>1. (CHOOSE c \in Cases : TRUE) \in Cases
  BY RunMemoryAssumptions
<1>2. << >> \in Seq(Task) /\ << >> \in Seen
  BY DEF Seen
<1> QED
  BY <1>1, <1>2 DEF IdleThread, Call, Steps, Ops

(* What a call is told to rewrite are files of its run and its case.       *)
LEMMA TasksType ==
  ASSUME NEW op \in Ops, NEW r \in Runs, NEW c \in Cases
  PROVE  Tasks(op, r, c) \in Seq(Task)
<1>1. /\ Timeline(r) \in FileNames
      /\ State(r) \in FileNames
      /\ CaseTimeline(c) \in FileNames
      /\ CaseState(c) \in FileNames
      /\ LatestRun(c) \in FileNames
      /\ Related(c) \in FileNames
  BY DEF FileNames, Timeline, State, CaseTimeline, CaseState, LatestRun, Related
<1>2. \A name \in FileNames : Update(name) \in Task /\ Replace(name) \in Task
  BY DEF Update, Replace, Task
<1> HIDE DEF Task
<1> QED
  BY <1>1, <1>2 DEF Tasks, Ops

LEMMA StreamInit == RunInit => StreamInv
<1> SUFFICES ASSUME RunInit PROVE StreamInv
  OBVIOUS
<1> USE DEF RunInit
<1>1. StreamTypeOK
  BY IdleIsCall, RunMemoryAssumptions DEF StreamTypeOK
<1>2. OnlyInDirs
  BY DEF OnlyInDirs
<1>3. CallsSound
  BY DEF CallsSound, CallSound, IdleThread, Told
<1>4. OneStartPerRun
  BY DEF OneStartPerRun, IdleThread
<1>5. AnsweredEventsAreKept
  BY DEF AnsweredEventsAreKept
<1> QED
  BY <1>1, <1>2, <1>3, <1>4, <1>5 DEF StreamInv

(* A step of one thread that leaves the streams alone.                     *)
LEMMA OneThread ==
  ASSUME StreamInv, NEW t \in Threads, NEW w \in Call,
         thread' = [thread EXCEPT ![t] = w],
         UNCHANGED <<stream, calls>>,
         dirs \subseteq dirs', dirs' \subseteq Runs,
         lock' \in [Processes -> Threads \cup {Free}],
         disturbances' \in Nat,
         \A c \in answered' \ answered : c \in 1..calls
           /\ \E r \in Runs : \E i \in DOMAIN stream[r] : stream[r][i].call = c,
         CallSound(w)',
         \A u \in Threads \ {t} : /\ w.pc = "append"
                                  /\ w.op = "start"
                                  /\ thread[u].pc = "append"
                                  /\ thread[u].op = "start"
                                  => thread[u].run # w.run
  PROVE  StreamInv'
<1> USE DEF StreamInv
<1>1. StreamTypeOK'
  BY DEF StreamTypeOK
<1>2. OnlyInDirs'
  BY DEF OnlyInDirs
<1>3. /\ thread'[t] = w
      /\ \A u \in Threads \ {t} : thread'[u] = thread[u]
  BY DEF StreamTypeOK
<1>4. ASSUME NEW u \in Threads PROVE CallSound(thread[u])'
  <2>1. CASE u = t
    BY <2>1, <1>3 DEF CallSound, InStream, EventOf
  <2>2. CASE u # t
    <3>1. CallSound(thread[u]) /\ thread'[u] = thread[u]
      BY <2>2, <1>3 DEF CallsSound
    <3> QED
      BY <3>1 DEF CallSound, InStream, EventOf
  <2> QED
    BY <2>1, <2>2
<1>5. OneStartPerRun'
  BY <1>3 DEF OneStartPerRun
<1>6. AnsweredEventsAreKept'
  BY DEF AnsweredEventsAreKept
<1> QED
  BY <1>1, <1>2, <1>4, <1>5, <1>6 DEF CallsSound

(* A thread goes on to another file: its call and its event stay.          *)
LEMMA GoesOn ==
  ASSUME StreamInv, NEW t \in Threads, NEW w \in Call,
         thread[t].pc \in Told, w.pc \in Told,
         w.run = thread[t].run, w.op = thread[t].op,
         w.case = thread[t].case, w.call = thread[t].call,
         thread' = [thread EXCEPT ![t] = w],
         UNCHANGED <<dirs, stream, lock, calls, answered, disturbances>>
  PROVE  StreamInv'
<1>1. CallSound(thread[t])
  BY DEF StreamInv, CallsSound
<1>2. w.pc # "reserve" /\ w.pc # "append"
  BY DEF Told
<1>3. EventOf(w) = EventOf(thread[t])
  BY DEF EventOf
<1>4. CallSound(w)
  BY <1>1, <1>2, <1>3 DEF CallSound
<1>5. CallSound(w)'
  BY <1>4 DEF CallSound, InStream
<1> QED
  BY <1>2, <1>5, OneThread DEF StreamInv, StreamTypeOK

LEMMA ScanRunsKeepsStreams ==
  ASSUME StreamInv, NEW t \in Threads, NEW c \in Cases, ScanRuns(t, c)
  PROVE  StreamInv'
<1>0. PICK w : w = [IdleThread EXCEPT !.pc = "reserve", !.op = "start",
                                      !.run = NextSequence, !.case = c]
  OBVIOUS
<1>1. NextSequence \in Runs
  BY DEF ScanRuns
<1>2. /\ thread' = [thread EXCEPT ![t] = w]
      /\ disturbances' \in Nat
  BY <1>0 DEF ScanRuns, Begin, Disturb, StreamInv, StreamTypeOK
<1>3. /\ w \in Call
      /\ w.pc = "reserve"
      /\ w.op = "start"
      /\ w.run = NextSequence
      /\ w.call = 0
  <2>1. IdleThread.call = 0
    BY DEF IdleThread
  <2> QED
    BY <1>0, <1>1, <2>1, IdleIsCall DEF Call, Steps, Ops
<1>4. lock' \in [Processes -> Threads \cup {Free}]
  BY DEF ScanRuns, StreamInv, StreamTypeOK
<1>5. CallSound(w)'
  BY <1>1, <1>3 DEF CallSound, Told, ScanRuns, StreamInv, StreamTypeOK
<1> QED
  BY <1>2, <1>3, <1>4, <1>5, OneThread DEF ScanRuns, StreamInv, StreamTypeOK

(* Only an unused number is reserved, so no thread has it that has yet to  *)
(* append its start event.                                                 *)
LEMMA ReserveKeepsStreams ==
  ASSUME StreamInv, NEW t \in Threads, Reserve(t)
  PROVE  StreamInv'
<1>1. /\ thread[t] \in Call
      /\ CallSound(thread[t])
      /\ thread[t].pc = "reserve"
  BY DEF Reserve, StreamInv, StreamTypeOK, CallsSound
<1>2. CASE thread[t].run \in dirs
  <2>0. PICK w : w = [thread[t] EXCEPT !.run = thread[t].run + 1]
    OBVIOUS
  <2>1. /\ thread[t].run + 1 \in Runs
        /\ thread' = [thread EXCEPT ![t] = w]
        /\ UNCHANGED dirs
        /\ UNCHANGED lock
    BY <1>2, <2>0 DEF Reserve
  <2>2. /\ w \in Call
        /\ w.pc = "reserve"
        /\ w.op = thread[t].op
        /\ w.run = thread[t].run + 1
        /\ w.call = thread[t].call
    BY <1>1, <2>0, <2>1 DEF Call
  <2>3. CallSound(w)'
    BY <1>1, <2>1, <2>2 DEF CallSound, Told, Reserve
  <2> QED
    BY <2>1, <2>2, <2>3, OneThread DEF Reserve, StreamInv, StreamTypeOK
<1>3. CASE thread[t].run \notin dirs
  <2>0. PICK w : w = [thread[t] EXCEPT !.pc = "append"]
    OBVIOUS
  <2>1. /\ dirs' = dirs \cup {thread[t].run}
        /\ thread' = [thread EXCEPT ![t] = w]
        /\ lock' = [lock EXCEPT ![ProcessOf[t]] = Free]
    BY <1>3, <2>0 DEF Reserve, Go
  <2>2. /\ w \in Call
        /\ w.pc = "append"
        /\ w.op = thread[t].op
        /\ w.run = thread[t].run
        /\ w.call = thread[t].call
    BY <1>1, <2>0 DEF Call, Steps
  <2>3. thread[t].run \in Runs /\ stream[thread[t].run] = << >>
    BY <1>1, <1>3 DEF CallSound, StreamInv, OnlyInDirs
  <2>4. CallSound(w)'
    BY <1>1, <2>1, <2>2, <2>3 DEF CallSound, Told, Reserve
  <2>5. \A u \in Threads : thread[u].pc = "append" => thread[u].run \in dirs
    BY DEF StreamInv, CallsSound, CallSound
  <2>6. \A u \in Threads : thread[u].pc = "append" => thread[u].run # w.run
    BY <1>3, <2>2, <2>5
  <2>7. lock' \in [Processes -> Threads \cup {Free}]
    BY <2>1 DEF StreamInv, StreamTypeOK
  <2>8. /\ dirs \subseteq dirs'
        /\ dirs' \subseteq Runs
        /\ disturbances' \in Nat
        /\ UNCHANGED <<stream, calls, answered>>
    BY <2>1, <2>3 DEF Reserve, StreamInv, StreamTypeOK
  <2>9. \A u \in Threads \ {t} : /\ w.pc = "append"
                                  /\ w.op = "start"
                                  /\ thread[u].pc = "append"
                                  /\ thread[u].op = "start"
                                  => thread[u].run # w.run
    BY <2>6
  <2>10. \A c \in answered' \ answered : c \in 1..calls
           /\ \E r \in Runs : \E i \in DOMAIN stream[r] : stream[r][i].call = c
    BY <2>8
  <2>11. thread' = [thread EXCEPT ![t] = w] /\ w \in Call
    BY <2>1, <2>2
  <2> QED
    BY <2>4, <2>7, <2>8, <2>9, <2>10, <2>11, OneThread
<1> QED
  BY <1>2, <1>3

LEMMA SendEventKeepsStreams ==
  ASSUME StreamInv, NEW t \in Threads, NEW r \in Runs, NEW op \in Ops \ {"start"},
         SendEvent(t, r, op)
  PROVE  StreamInv'
<1>0. PICK c : c = stream[r][1].case
  OBVIOUS
<1>w. PICK w : w = [IdleThread EXCEPT !.pc = "append", !.op = op, !.run = r, !.case = c]
  OBVIOUS
<1>1. /\ r \in dirs
      /\ stream[r] # << >>
      /\ c \in Cases
  <2>1. /\ r \in dirs
        /\ stream[r] # << >>
        /\ stream[r] \in Seq(Event)
    BY DEF SendEvent, Known, StreamInv, StreamTypeOK
  <2>2. stream[r][1] \in Event
    BY <2>1
  <2> QED
    BY <1>0, <2>1, <2>2 DEF Event
<1>2. /\ thread' = [thread EXCEPT ![t] = w]
      /\ disturbances' \in Nat
  BY <1>0, <1>w DEF SendEvent, Begin, Disturb, StreamInv, StreamTypeOK
<1>3. /\ w \in Call
      /\ w.pc = "append"
      /\ w.op = op
      /\ w.run = r
      /\ w.call = 0
  <2>1. IdleThread.call = 0
    BY DEF IdleThread
  <2> QED
    BY <1>w, <1>1, <2>1, IdleIsCall DEF Call, Steps
<1>4. CallSound(w)'
  BY <1>1, <1>3 DEF CallSound, Told, SendEvent, StreamInv, StreamTypeOK
<1> QED
  BY <1>2, <1>3, <1>4, OneThread DEF SendEvent, StreamInv, StreamTypeOK

LEMMA AnswerKeepsStreams ==
  ASSUME StreamInv, NEW t \in Threads, Answer(t)
  PROVE  StreamInv'
<1>1. CallSound(thread[t]) /\ thread[t].pc \in Told
  BY DEF Answer, StreamInv, CallsSound, Told
<1>2. /\ IdleThread.pc = "idle"
      /\ IdleThread.call = 0
  BY DEF IdleThread
<1>3. CallSound(IdleThread)'
  BY <1>2 DEF CallSound, Told, Answer, StreamInv, StreamTypeOK
<1>4. thread[t].run \in Runs /\ InStream(thread[t].run, EventOf(thread[t]))
  BY <1>1 DEF CallSound
<1>5. \E i \in DOMAIN stream[thread[t].run] : stream[thread[t].run][i].call = thread[t].call
  BY <1>4 DEF InStream, EventOf
<1>6. thread[t].call \in 1..calls
  BY <1>1 DEF CallSound
<1> QED
  BY <1>2, <1>3, <1>4, <1>5, <1>6, IdleIsCall, OneThread DEF Answer, StreamInv, StreamTypeOK

(* A restart loses calls and locks, never events.                          *)
LEMMA RestartKeepsStreams ==
  ASSUME StreamInv, NEW p \in Processes, Restart(p)
  PROVE  StreamInv'
<1> USE DEF StreamInv
<1>1. \A u \in Threads : thread'[u] = IdleThread \/ thread'[u] = thread[u]
  BY DEF Restart
<1>2. /\ IdleThread.pc = "idle"
      /\ IdleThread.call = 0
  BY DEF IdleThread
<1>3. thread' \in [Threads -> Call]
  BY IdleIsCall DEF Restart, StreamTypeOK
<1>4. StreamTypeOK'
  BY <1>3 DEF Restart, Disturb, StreamTypeOK
<1>5. OnlyInDirs'
  BY DEF OnlyInDirs, Restart
<1>6. ASSUME NEW u \in Threads PROVE CallSound(thread[u])'
  <2>1. CASE thread'[u] = IdleThread
    BY <2>1, <1>2 DEF CallSound, Told, Restart, StreamTypeOK
  <2>2. CASE thread'[u] = thread[u]
    <3>1. CallSound(thread[u])
      BY DEF CallsSound
    <3> QED
      BY <2>2, <3>1 DEF CallSound, InStream, EventOf, Restart
  <2> QED
    BY <2>1, <2>2, <1>1
<1>7. OneStartPerRun'
  BY <1>1, <1>2 DEF OneStartPerRun, Restart
<1>8. AnsweredEventsAreKept'
  BY DEF AnsweredEventsAreKept, Restart
<1> QED
  BY <1>4, <1>5, <1>6, <1>7, <1>8 DEF CallsSound

(* The streams only grow.                                                  *)
LEMMA Grown ==
  ASSUME NEW t \in Threads, AppendEvent(t), StreamInv
  PROVE  LET w == thread[t]
             event == [call |-> calls + 1, op |-> w.op, case |-> w.case]
         IN /\ event \in Event
            /\ w.run \in Runs
            /\ \A r \in Runs \ {w.run} : stream'[r] = stream[r]
            /\ stream'[w.run] \in Seq(Event)
            /\ Len(stream'[w.run]) = Len(stream[w.run]) + 1
            /\ stream'[w.run][Len(stream[w.run]) + 1] = event
            /\ \A i \in DOMAIN stream[w.run] : stream'[w.run][i] = stream[w.run][i]
<1> DEFINE w == thread[t]
           event == [call |-> calls + 1, op |-> w.op, case |-> w.case]
<1>1. /\ w \in Call
      /\ w.run \in dirs
      /\ calls \in Nat
      /\ stream \in [Runs -> Seq(Event)]
      /\ dirs \subseteq Runs
  BY DEF AppendEvent, StreamInv, StreamTypeOK, CallsSound, CallSound
<1>2. event \in Event
  BY <1>1 DEF Event, Call
<1>3. stream' = [stream EXCEPT ![w.run] = Append(stream[w.run], event)]
  BY DEF AppendEvent
<1> HIDE DEF w, event
<1>4. w.run \in Runs /\ stream[w.run] \in Seq(Event)
  BY <1>1
<1>5. stream'[w.run] = Append(stream[w.run], event)
  BY <1>1, <1>3, <1>4
<1>6. \A r \in Runs \ {w.run} : stream'[r] = stream[r]
  BY <1>1, <1>3
<1>7. /\ stream'[w.run] \in Seq(Event)
      /\ Len(stream'[w.run]) = Len(stream[w.run]) + 1
      /\ stream'[w.run][Len(stream[w.run]) + 1] = event
      /\ \A i \in DOMAIN stream[w.run] : stream'[w.run][i] = stream[w.run][i]
  BY <1>2, <1>4, <1>5
<1> QED
  BY <1>2, <1>4, <1>6, <1>7 DEF w, event

LEMMA OthersStay ==
  ASSUME NEW t \in Threads, AppendEvent(t), StreamInv,
         NEW r \in Runs, r # thread[t].run
  PROVE  stream'[r] = stream[r]
<1>1. stream \in [Runs -> Seq(Event)]
  BY DEF StreamInv, StreamTypeOK
<1>2. PICK new : stream' = [stream EXCEPT ![thread[t].run] = new]
  BY DEF AppendEvent
<1> QED
  BY <1>1, <1>2

LEMMA StillInStream ==
  ASSUME NEW t \in Threads, AppendEvent(t), StreamInv,
         NEW r \in Runs, NEW event, InStream(r, event)
  PROVE  InStream(r, event)'
<1>1. CASE r # thread[t].run
  <2>1. stream'[r] = stream[r]
    BY <1>1, OthersStay
  <2> QED
    BY <2>1 DEF InStream
<1>2. CASE r = thread[t].run
  <2>1. PICK i \in DOMAIN stream[r] : stream[r][i] = event
    BY DEF InStream
  <2>2. stream[r] \in Seq(Event)
    BY DEF StreamInv, StreamTypeOK
  <2>3. /\ stream'[r] \in Seq(Event)
        /\ Len(stream'[r]) = Len(stream[r]) + 1
        /\ stream'[r][i] = event
    BY <1>2, <2>1, Grown
  <2>4. i \in DOMAIN stream'[r]
    BY <2>1, <2>2, <2>3
  <2> QED
    BY <2>3, <2>4 DEF InStream
<1> QED
  BY <1>1, <1>2

LEMMA AppendEventKeepsStreams ==
  ASSUME StreamInv, NEW t \in Threads, AppendEvent(t)
  PROVE  StreamInv'
<1> USE DEF StreamInv
<1>0. PICK v : v = thread[t]
  OBVIOUS
<1>e. PICK event : event = [call |-> calls + 1, op |-> v.op, case |-> v.case]
  OBVIOUS
<1>w. PICK w : w = [v EXCEPT !.pc = "next", !.call = calls + 1,
                             !.todo = Tasks(v.op, v.run, v.case)]
  OBVIOUS
<1>1. /\ v \in Call
      /\ v.pc = "append"
      /\ v.run \in dirs
      /\ v.op = "start" <=> stream[v.run] = << >>
      /\ calls \in Nat
      /\ stream \in [Runs -> Seq(Event)]
  BY <1>0 DEF AppendEvent, StreamTypeOK, CallsSound, CallSound
<1>2. /\ event \in Event
      /\ v.run \in Runs
      /\ \A r \in Runs \ {v.run} : stream'[r] = stream[r]
      /\ stream'[v.run] \in Seq(Event)
      /\ Len(stream'[v.run]) = Len(stream[v.run]) + 1
      /\ stream'[v.run][Len(stream[v.run]) + 1] = event
      /\ \A i \in DOMAIN stream[v.run] : stream'[v.run][i] = stream[v.run][i]
  BY <1>0, <1>e, Grown
<1>3. /\ w \in Call
      /\ w.pc = "next"
      /\ w.run = v.run
      /\ w.op = v.op
      /\ w.case = v.case
      /\ w.call = calls + 1
  <2>1. Tasks(v.op, v.run, v.case) \in Seq(Task)
    BY <1>1, <1>2, TasksType DEF Call
  <2>2. v \in Call /\ calls + 1 \in Nat
    BY <1>1
  <2>3. DOMAIN v = {"pc", "op", "run", "case", "call", "todo", "seen"}
    BY <2>2 DEF Call
  <2> QED
    BY <1>w, <2>1, <2>2, <2>3 DEF Call, Steps
<1>4. /\ thread' = [thread EXCEPT ![t] = w]
      /\ thread'[t] = w
      /\ \A u \in Threads \ {t} : thread'[u] = thread[u]
      /\ calls' = calls + 1
      /\ UNCHANGED <<dirs, lock, answered, disturbances>>
  BY <1>0, <1>w DEF AppendEvent, StreamTypeOK
<1>5. StreamTypeOK'
  <2>1. stream' \in [Runs -> Seq(Event)]
    <3>1. stream' = [stream EXCEPT ![v.run] = Append(stream[v.run], event)]
      BY <1>0, <1>e DEF AppendEvent
    <3>2. Append(stream[v.run], event) \in Seq(Event)
      BY <1>1, <1>2
    <3> QED
      BY <1>1, <1>2, <3>1, <3>2
  <2>2. thread' \in [Threads -> Call]
    BY <1>3, <1>4 DEF StreamTypeOK
  <2> QED
    BY <1>1, <1>4, <2>1, <2>2 DEF StreamTypeOK
<1>6. OnlyInDirs'
  BY <1>1, <1>2, <1>4 DEF OnlyInDirs
<1>7. ASSUME NEW u \in Threads \ {t}, thread[u].pc = "append"
      PROVE  thread[u].op = "start" => thread[u].run # v.run
  <2>1. CallSound(thread[u])
    BY DEF CallsSound
  <2> QED
    BY <1>0, <1>1, <1>7, <2>1 DEF CallSound, OneStartPerRun
<1>8. ASSUME NEW u \in Threads PROVE CallSound(thread[u])'
  <2>1. CASE u = t
    <3>1. \E i \in DOMAIN stream'[v.run] : stream'[v.run][i] = event
      BY <1>1, <1>2
    <3>2. EventOf(w) = event
      BY <1>3, <1>e DEF EventOf
    <3>3. InStream(w.run, EventOf(w))'
      BY <1>3, <3>1, <3>2 DEF InStream
    <3>4. CallSound(w)'
      BY <1>1, <1>2, <1>3, <1>4, <3>3 DEF CallSound
    <3> QED
      BY <1>4, <2>1, <3>4 DEF CallSound, InStream, EventOf
  <2>2. CASE u # t
    <3>0. PICK x : x = thread[u]
      OBVIOUS
    <3>1. CallSound(x)
      BY <3>0 DEF CallsSound
    <3>2. thread'[u] = x
      BY <1>4, <2>2, <3>0
    <3>3. x.pc \in Told => InStream(x.run, EventOf(x))'
      BY <3>1, StillInStream DEF CallSound
    <3>4. ASSUME x.pc = "append"
          PROVE  x.op = "start" <=> stream'[x.run] = << >>
      <4>1. CASE x.run = v.run
        BY <1>2, <1>7, <2>2, <3>0, <3>4, <4>1
      <4>2. CASE x.run # v.run
        <5>1. x.run \in Runs
          BY <3>1, <3>4 DEF CallSound, StreamTypeOK
        <5> QED
          BY <1>2, <3>1, <3>4, <4>2, <5>1 DEF CallSound
      <4> QED
        BY <4>1, <4>2
    <3>5. CallSound(x)'
      BY <1>1, <1>4, <3>1, <3>3, <3>4 DEF CallSound
    <3> QED
      BY <3>2, <3>5 DEF CallSound, InStream, EventOf
  <2> QED
    BY <2>1, <2>2
<1>9. OneStartPerRun'
  <2>1. ASSUME NEW r \in Runs, NEW i \in DOMAIN stream'[r]
        PROVE  stream'[r][i].op = "start" <=> i = 1
    <3>1. CASE r # v.run
      BY <1>2, <2>1, <3>1 DEF OneStartPerRun
    <3>2. CASE r = v.run
      <4>1. CASE i \in DOMAIN stream[r]
        BY <1>2, <3>2, <4>1 DEF OneStartPerRun
      <4>2. CASE i \notin DOMAIN stream[r]
        <5>1. stream[r] \in Seq(Event)
          BY <1>1, <3>2, <1>2
        <5>2. i = Len(stream[r]) + 1
          BY <1>2, <2>1, <3>2, <4>2, <5>1
        <5>3. stream'[r][i].op = v.op
          BY <1>2, <1>e, <3>2, <5>2
        <5>4. i = 1 <=> stream[r] = << >>
          BY <5>1, <5>2
        <5> QED
          BY <1>1, <3>2, <5>3, <5>4
      <4> QED
        BY <4>1, <4>2
    <3> QED
      BY <3>1, <3>2
  <2>2. \A u, x \in Threads :
          /\ u # x
          /\ \A y \in {u, x} : thread'[y].pc = "append" /\ thread'[y].op = "start"
          => thread'[u].run # thread'[x].run
    <3>1. \A u \in Threads : thread'[u].pc = "append" => u # t /\ thread'[u] = thread[u]
      BY <1>3, <1>4
    <3> QED
      BY <3>1 DEF OneStartPerRun
  <2> QED
    BY <2>1, <2>2 DEF OneStartPerRun
<1>10. AnsweredEventsAreKept'
  <2>1. ASSUME NEW c \in answered
        PROVE  \E r \in Runs : \E i \in DOMAIN stream'[r] : stream'[r][i].call = c
    <3>0. PICK r \in Runs : \E i \in DOMAIN stream[r] : stream[r][i].call = c
      BY DEF AnsweredEventsAreKept
    <3>1. PICK i \in DOMAIN stream[r] : stream[r][i].call = c
      BY <3>0
    <3>2. InStream(r, stream[r][i])
      BY DEF InStream
    <3>3. PICK e : e = stream[r][i]
      OBVIOUS
    <3>4. InStream(r, e)'
      BY <3>2, <3>3, StillInStream
    <3> QED
      BY <3>1, <3>3, <3>4 DEF InStream
  <2> QED
    BY <1>4, <2>1 DEF AnsweredEventsAreKept
<1> QED
  BY <1>5, <1>6, <1>8, <1>9, <1>10 DEF CallsSound

----------------------------------------------------------------------------
(* The files. A thread that is about to write a file holds a content that  *)
(* the streams bear out, and so every file is borne out by them.           *)

(* The rewrites of a call, without their order.                            *)
Duties(op, r, c) ==
  CASE op = "start" -> {Update(Related(c)), Replace(State(r)), Replace(Timeline(r))}
    [] op = "plain" -> {}
    [] op = "key" -> {Update(Timeline(r))}
    [] op = "keyInCase" -> {Update(Timeline(r)), Update(CaseTimeline(c))}
    [] op = "complete" ->
         {Update(Timeline(r)), Update(CaseTimeline(c)), Update(State(r)),
          Replace(CaseState(c)), Replace(LatestRun(c)), Update(Related(c))}

Follows(name, content) ==
  /\ name[1] = "timeline" => \A i \in DOMAIN content : content[i] \in EventsOf(name[2])
  /\ name[1] = "caseTimeline" =>
       \A i \in DOMAIN content : \E r \in Runs : content[i] \in EventsOf(r)
  /\ name[1] = "state" /\ content = "RUN_COMPLETED" => HasEvent(name[2], "complete")
  /\ name[1] \in {"caseState", "latestRun"} /\ content # 0 => HasEvent(content, "complete")
  /\ name[1] = "relatedRuns" =>
       /\ \A r \in content.listed : HasEvent(r, "start")
       /\ \A r \in content.done : HasEvent(r, "complete")

Honest(name, content) == content \in Contents(name) /\ Follows(name, content)

FilesHonest ==
  /\ DOMAIN files = FileNames
  /\ \A name \in FileNames :
       /\ files[name] \in File(Contents(name))
       /\ Follows(name, files[name].content)

DutySound(w) ==
  /\ w.pc \in Told => w.todo \in Seq(Duties(w.op, w.run, w.case))
  /\ w.pc \in {"open", "write"} =>
       /\ w.todo # << >>
       /\ Head(w.todo).how = "update" => Honest(Head(w.todo).name, w.seen)
  /\ w.pc = "open" => Head(w.todo).how = "update"

ThreadSound(t) == \A w \in {thread[t]} : DutySound(w)

Bounded == calls <= MaxCalls /\ disturbances <= MaxDisturbances

FilesInv ==
  /\ FilesHonest
  /\ \A t \in Threads : ThreadSound(t)
  /\ Bounded

RunInv == StreamInv /\ FilesInv

LEMMA TasksAreDuties ==
  ASSUME NEW op \in Ops, NEW r, NEW c
  PROVE  Tasks(op, r, c) \in Seq(Duties(op, r, c))
<1>1. CASE op = "start"
  BY <1>1 DEF Tasks, Duties
<1>2. CASE op = "plain"
  BY <1>2 DEF Tasks, Duties
<1>3. CASE op = "key"
  BY <1>3 DEF Tasks, Duties
<1>4. CASE op = "keyInCase"
  BY <1>4 DEF Tasks, Duties
<1>5. CASE op = "complete"
  BY <1>5 DEF Tasks, Duties
<1> QED
  BY <1>1, <1>2, <1>3, <1>4, <1>5 DEF Ops

(* Every duty is one of these, with the calls that have it.                *)
LEMMA DutyKinds ==
  ASSUME NEW op \in Ops, NEW r \in Runs, NEW c \in Cases, NEW d \in Duties(op, r, c)
  PROVE  /\ op # "plain"
         /\ \/ d = Replace(Timeline(r)) /\ op = "start"
            \/ d = Update(Timeline(r)) /\ op # "start"
            \/ d = Update(CaseTimeline(c)) /\ op # "start"
            \/ d = Replace(State(r)) /\ op = "start"
            \/ d = Update(State(r)) /\ op = "complete"
            \/ d \in {Replace(CaseState(c)), Replace(LatestRun(c))} /\ op = "complete"
            \/ d = Update(Related(c)) /\ op \in {"start", "complete"}
<1>1. CASE op = "start"
  BY <1>1 DEF Duties
<1>2. CASE op = "plain"
  BY <1>2 DEF Duties
<1>3. CASE op = "key"
  BY <1>3 DEF Duties
<1>4. CASE op = "keyInCase"
  BY <1>4 DEF Duties
<1>5. CASE op = "complete"
  BY <1>5 DEF Duties
<1> QED
  BY <1>1, <1>2, <1>3, <1>4, <1>5 DEF Ops

LEMMA DutyNames ==
  ASSUME NEW op \in Ops, NEW r \in Runs, NEW c \in Cases, NEW d \in Duties(op, r, c)
  PROVE  d.name \in FileNames /\ d.how \in {"update", "replace"}
<1>1. /\ Timeline(r) \in FileNames
      /\ State(r) \in FileNames
      /\ CaseTimeline(c) \in FileNames
      /\ CaseState(c) \in FileNames
      /\ LatestRun(c) \in FileNames
      /\ Related(c) \in FileNames
  BY DEF FileNames, Timeline, State, CaseTimeline, CaseState, LatestRun, Related
<1>2. \A name : /\ Update(name).name = name
                /\ Replace(name).name = name
                /\ Update(name).how = "update"
                /\ Replace(name).how = "replace"
  BY DEF Update, Replace
<1> QED
  BY <1>1, <1>2, DutyKinds

LEMMA NothingIsHonest ==
  ASSUME NEW name \in FileNames
  PROVE  Honest(name, Nothing(name))
<1>1. CASE name[1] = "timeline"
  BY <1>1 DEF Honest, Follows, Nothing, Contents
<1>2. CASE name[1] = "caseTimeline"
  BY <1>2 DEF Honest, Follows, Nothing, Contents
<1>3. CASE name[1] = "state"
  BY <1>3 DEF Honest, Follows, Nothing, Contents
<1>4. CASE name[1] \in {"caseState", "latestRun"}
  BY <1>4 DEF Honest, Follows, Nothing, Contents
<1>5. CASE name[1] = "relatedRuns"
  BY <1>5 DEF Honest, Follows, Nothing, Contents, NoRelated
<1>6. name[1] \in {"timeline", "state", "caseTimeline", "caseState", "latestRun", "relatedRuns"}
  BY DEF FileNames
<1> QED
  BY <1>1, <1>2, <1>3, <1>4, <1>5, <1>6

Grows ==
  \A r \in Runs : \A i \in DOMAIN stream[r] :
    i \in DOMAIN stream'[r] /\ stream'[r][i] = stream[r][i]

LEMMA EventsStay ==
  ASSUME Grows
  PROVE  /\ \A r \in Runs : \A e \in EventsOf(r) : e \in EventsOf(r)'
         /\ \A r \in Runs, op \in Ops : HasEvent(r, op) => HasEvent(r, op)'
<1>1. ASSUME NEW r \in Runs, NEW e \in EventsOf(r) PROVE e \in EventsOf(r)'
  <2>1. PICK i \in DOMAIN stream[r] : stream[r][i].op \in Recorded /\ e = stream[r][i].call
    BY DEF EventsOf
  <2>2. i \in DOMAIN stream'[r] /\ stream'[r][i] = stream[r][i]
    BY DEF Grows
  <2> QED
    BY <2>1, <2>2 DEF EventsOf
<1>2. ASSUME NEW r \in Runs, NEW op \in Ops, HasEvent(r, op) PROVE HasEvent(r, op)'
  BY <1>2 DEF HasEvent, Grows
<1> QED
  BY <1>1, <1>2

(* What the streams have borne out they bear out for ever.                 *)
LEMMA HonestStays ==
  ASSUME Grows, NEW name \in FileNames, NEW content, Honest(name, content)
  PROVE  Honest(name, content)'
<1>1. CASE name[1] = "timeline"
  <2>1. name[2] \in Runs
    BY <1>1 DEF FileNames
  <2> QED
    BY <1>1, <2>1, EventsStay DEF Honest, Follows
<1>2. CASE name[1] = "caseTimeline"
  BY <1>2, EventsStay DEF Honest, Follows
<1>3. CASE name[1] = "state"
  <2>1. name[2] \in Runs /\ "complete" \in Ops
    BY <1>3 DEF FileNames, Ops
  <2> QED
    BY <1>3, <2>1, EventsStay DEF Honest, Follows
<1>4. CASE name[1] \in {"caseState", "latestRun"}
  <2>1. content \in {0} \cup Runs /\ "complete" \in Ops
    BY <1>4 DEF Honest, Contents, Ops
  <2> QED
    BY <1>4, <2>1, EventsStay DEF Honest, Follows
<1>5. CASE name[1] = "relatedRuns"
  <2>1. /\ content.listed \subseteq Runs
        /\ content.done \subseteq Runs
        /\ "complete" \in Ops
        /\ "start" \in Ops
    BY <1>5 DEF Honest, Contents, Ops
  <2> QED
    BY <1>5, <2>1, EventsStay DEF Honest, Follows
<1>6. name[1] \in {"timeline", "state", "caseTimeline", "caseState", "latestRun", "relatedRuns"}
  BY DEF FileNames
<1> QED
  BY <1>1, <1>2, <1>3, <1>4, <1>5, <1>6

(* A step that leaves the files honest and gives no thread a dishonest     *)
(* content to write.                                                       *)
LEMMA FilesStep ==
  ASSUME StreamInv, FilesInv, Grows, FilesHonest', Bounded',
         \A u \in Threads : thread'[u] = thread[u] \/ ThreadSound(u)'
  PROVE  FilesInv'
<1>1. ASSUME NEW u \in Threads, thread'[u] = thread[u]
      PROVE  ThreadSound(u)'
  <2>0. PICK w : w = thread[u]
    OBVIOUS
  <2>1. DutySound(w) /\ w \in Call
    BY <2>0 DEF ThreadSound, FilesInv, StreamInv, StreamTypeOK
  <2>2. CallSound(w)
    BY <2>0 DEF StreamInv, CallsSound
  <2>3. ASSUME w.pc \in {"open", "write"}, Head(w.todo).how = "update"
        PROVE  Honest(Head(w.todo).name, w.seen)'
    <3>1. /\ w.run \in Runs
          /\ w.todo \in Seq(Duties(w.op, w.run, w.case))
          /\ w.todo # << >>
          /\ Honest(Head(w.todo).name, w.seen)
      BY <2>1, <2>2, <2>3 DEF DutySound, CallSound, Told
    <3>2. Head(w.todo) \in Duties(w.op, w.run, w.case)
      BY <3>1
    <3>3. Head(w.todo).name \in FileNames
      BY <2>1, <3>1, <3>2, DutyNames DEF Call
    <3> QED
      BY <3>1, <3>3, HonestStays
  <2>4. DutySound(w)'
    BY <2>1, <2>3 DEF DutySound
  <2>5. thread'[u] = w
    BY <1>1, <2>0
  <2> QED
    BY <2>4, <2>5 DEF ThreadSound
<1> QED
  BY <1>1 DEF FilesInv

LEMMA UntouchedStayHonest ==
  ASSUME FilesHonest, Grows, UNCHANGED files
  PROVE  FilesHonest'
<1>1. ASSUME NEW name \in FileNames PROVE Follows(name, files[name].content)'
  <2>0. PICK x : x = files[name].content
    OBVIOUS
  <2>1. Honest(name, x)
    BY <2>0 DEF FilesHonest, Honest, File
  <2>2. Honest(name, x)'
    BY <2>1, HonestStays
  <2>3. Follows(name, x)' /\ files'[name].content = x
    BY <2>0, <2>2 DEF Honest
  <2> QED
    BY <2>3 DEF Follows, EventsOf, HasEvent
<1> QED
  BY <1>1 DEF FilesHonest

(* Calls that begin, number their run, are answered or are cut off.        *)
LEMMA NoFileTouched ==
  ASSUME StreamInv, FilesInv, UNCHANGED <<stream, files>>, Bounded',
         \A u \in Threads : thread'[u] = thread[u] \/ thread'[u].pc \in {"idle", "reserve", "append"}
  PROVE  FilesInv'
<1>1. Grows
  BY DEF Grows
<1>2. FilesHonest'
  BY <1>1, UntouchedStayHonest DEF FilesInv
<1>3. ASSUME NEW u \in Threads, thread'[u].pc \in {"idle", "reserve", "append"}
      PROVE  ThreadSound(u)'
  BY <1>3 DEF ThreadSound, DutySound, Told
<1> QED
  BY <1>1, <1>2, <1>3, FilesStep

(* A thread that rewrites a file has a duty to.                            *)
LEMMA OnDuty ==
  ASSUME StreamInv, FilesInv, NEW t \in Threads, thread[t].pc \in Told, thread[t].todo # << >>
  PROVE  LET w == thread[t] IN
         /\ w \in Call
         /\ w.run \in Runs
         /\ InStream(w.run, EventOf(w))
         /\ DutySound(w)
         /\ Head(w.todo) \in Duties(w.op, w.run, w.case)
         /\ File1(t) = Head(w.todo).name
         /\ File1(t) \in FileNames
         /\ Head(w.todo).how \in {"update", "replace"}
<1> DEFINE w == thread[t]
<1>1. w \in Call /\ DutySound(w) /\ CallSound(w)
  BY DEF StreamInv, StreamTypeOK, CallsSound, FilesInv, ThreadSound
<1> HIDE DEF w
<1>2. w.pc \in Told /\ w.todo # << >> /\ File1(t) = Head(w.todo).name
  BY DEF w, File1
<1>3. /\ w.run \in Runs
      /\ InStream(w.run, EventOf(w))
      /\ w.todo \in Seq(Duties(w.op, w.run, w.case))
  BY <1>1, <1>2 DEF CallSound, DutySound
<1>4. Head(w.todo) \in Duties(w.op, w.run, w.case)
  BY <1>2, <1>3
<1>5. Head(w.todo).name \in FileNames /\ Head(w.todo).how \in {"update", "replace"}
  BY <1>1, <1>3, <1>4, DutyNames DEF Call
<1> QED
  BY <1>1, <1>2, <1>3, <1>4, <1>5 DEF w

(* What is read is borne out: it is in a file, or it is nothing.           *)
LEMMA LoadedIsHonest ==
  ASSUME FilesHonest, NEW name \in FileNames
  PROVE  Honest(name, Load(files[name], Nothing(name)))
BY NothingIsHonest DEF FilesHonest, Honest, Load, Readable, File

LEMMA ReadFileKeepsInv ==
  ASSUME RunInv, NEW t \in Threads, ReadFile(t)
  PROVE  RunInv'
<1>0. PICK v : v = thread[t]
  OBVIOUS
<1>c. PICK content : content = Load(files[File1(t)], Nothing(File1(t)))
  OBVIOUS
<1>w. PICK w : w = [v EXCEPT !.pc = "open", !.seen = content]
  OBVIOUS
<1>1. /\ v.pc = "next"
      /\ v.pc \in Told
      /\ v.todo # << >>
      /\ Head(v.todo).how = "update"
      /\ UNCHANGED <<dirs, stream, files, lock, calls, answered, disturbances>>
      /\ thread' = [thread EXCEPT ![t] = w]
  BY <1>0, <1>c, <1>w DEF ReadFile, Told
<1>2. /\ v \in Call
      /\ DutySound(v)
      /\ File1(t) = Head(v.todo).name
      /\ File1(t) \in FileNames
  BY <1>0, <1>1, OnDuty DEF RunInv
<1>3. Honest(Head(v.todo).name, content)
  BY <1>c, <1>2, LoadedIsHonest DEF RunInv, FilesInv
<1>4. content \in Seen
  BY <1>2, <1>3 DEF Honest, Seen
<1>5. /\ w \in Call
      /\ w.pc = "open"
      /\ w.seen = content
      /\ w.run = v.run
      /\ w.op = v.op
      /\ w.case = v.case
      /\ w.call = v.call
      /\ w.todo = v.todo
  BY <1>w, <1>2, <1>4 DEF Call, Steps
<1>6. StreamInv'
  <2>1. w.pc \in Told
    BY <1>5 DEF Told
  <2> QED
    BY <1>0, <1>1, <1>5, <2>1, GoesOn DEF RunInv
<1>7. Grows
  BY <1>1 DEF Grows
<1>8. FilesHonest'
  BY <1>1, <1>7, UntouchedStayHonest DEF RunInv, FilesInv
<1>9. thread'[t] = w /\ \A u \in Threads \ {t} : thread'[u] = thread[u]
  BY <1>1 DEF RunInv, StreamInv, StreamTypeOK
<1>10. ThreadSound(t)'
  <2>1. Honest(Head(v.todo).name, content)'
    BY <1>2, <1>3, <1>7, HonestStays
  <2>2. DutySound(w)'
    BY <1>1, <1>2, <1>5, <2>1 DEF DutySound
  <2> QED
    BY <1>9, <2>2 DEF ThreadSound
<1>11. Bounded'
  BY <1>1 DEF RunInv, FilesInv, Bounded
<1>12. FilesInv'
  BY <1>7, <1>8, <1>9, <1>10, <1>11, FilesStep DEF RunInv
<1> QED
  BY <1>6, <1>12 DEF RunInv

LEMMA OpenFileKeepsInv ==
  ASSUME RunInv, NEW t \in Threads, OpenFile(t)
  PROVE  RunInv'
<1>0. PICK v : v = thread[t]
  OBVIOUS
<1>w. PICK w : w = [v EXCEPT !.pc = "write"]
  OBVIOUS
<1>1. /\ v.pc \in {"next", "open"}
      /\ v.pc \in Told
      /\ v.pc = "next" => v.todo # << >> /\ Head(v.todo).how = "replace"
      /\ UNCHANGED <<dirs, stream, lock, calls, answered, disturbances>>
      /\ files' = [files EXCEPT ![File1(t)] = Truncated(files[File1(t)])]
      /\ thread' = [thread EXCEPT ![t] = w]
  BY <1>0, <1>w DEF OpenFile, Go, Told
<1>2. v.todo # << >>
  <2>1. DutySound(v)
    BY <1>0 DEF RunInv, FilesInv, ThreadSound
  <2> QED
    BY <1>1, <2>1 DEF DutySound
<1>3. /\ v \in Call
      /\ DutySound(v)
      /\ File1(t) = Head(v.todo).name
      /\ File1(t) \in FileNames
  BY <1>0, <1>1, <1>2, OnDuty DEF RunInv
<1>5. /\ w \in Call
      /\ w.pc = "write"
      /\ w.seen = v.seen
      /\ w.run = v.run
      /\ w.op = v.op
      /\ w.case = v.case
      /\ w.call = v.call
      /\ w.todo = v.todo
  BY <1>w, <1>3 DEF Call, Steps
<1>6. StreamInv'
  <2>1. w.pc \in Told
    BY <1>5 DEF Told
  <2> QED
    BY <1>0, <1>1, <1>5, <2>1, GoesOn DEF RunInv
<1>7. Grows
  BY <1>1 DEF Grows
<1>8. FilesHonest'
  <2>1. FilesHonest
    BY DEF RunInv, FilesInv
  <2>2. DOMAIN files' = FileNames
    BY <1>1, <2>1 DEF FilesHonest
  <2>3. ASSUME NEW name \in FileNames
        PROVE  /\ files'[name] \in File(Contents(name))
               /\ files'[name].content = files[name].content
    BY <1>1, <1>3, <2>1 DEF FilesHonest, Truncated, File, FileStates
  <2>4. ASSUME NEW name \in FileNames PROVE Follows(name, files[name].content)'
    <3>0. PICK x : x = files[name].content
      OBVIOUS
    <3>1. Honest(name, x)
      BY <2>1, <3>0 DEF FilesHonest, Honest, File
    <3>2. Follows(name, x)' /\ files'[name].content = x
      BY <1>7, <2>3, <3>0, <3>1, HonestStays DEF Honest
    <3> QED
      BY <3>2 DEF Follows, EventsOf, HasEvent
  <2> QED
    BY <2>2, <2>3, <2>4 DEF FilesHonest
<1>9. thread'[t] = w /\ \A u \in Threads \ {t} : thread'[u] = thread[u]
  BY <1>1 DEF RunInv, StreamInv, StreamTypeOK
<1>10. ThreadSound(t)'
  <2>1. ASSUME Head(v.todo).how = "update"
        PROVE  Honest(Head(v.todo).name, v.seen)'
    BY <1>1, <1>3, <1>7, <2>1, HonestStays DEF DutySound
  <2>2. DutySound(w)'
    BY <1>1, <1>2, <1>3, <1>5, <2>1 DEF DutySound
  <2> QED
    BY <1>9, <2>2 DEF ThreadSound
<1>11. Bounded'
  BY <1>1 DEF RunInv, FilesInv, Bounded
<1>12. FilesInv'
  BY <1>7, <1>8, <1>9, <1>10, <1>11, FilesStep DEF RunInv
<1> QED
  BY <1>6, <1>12 DEF RunInv

(* What is written is borne out: it adds to what was read the call's own   *)
(* event, which is in the stream.                                          *)
LEMMA NewContentIsHonest ==
  ASSUME StreamInv, FilesInv, NEW t \in Threads, thread[t].pc = "write"
  PROVE  /\ thread[t].todo # << >>
         /\ File1(t) \in FileNames
         /\ Honest(File1(t), NewContent(t))
<1> DEFINE w == thread[t]
           d == Head(w.todo)
<1>1. w.pc \in Told /\ w.todo # << >>
  BY DEF Told, FilesInv, ThreadSound, DutySound
<1>2. /\ w \in Call
      /\ w.run \in Runs
      /\ w.op \in Ops
      /\ w.case \in Cases
      /\ w.call \in Nat
      /\ InStream(w.run, EventOf(w))
      /\ d.how = "update" => Honest(d.name, w.seen)
      /\ d \in Duties(w.op, w.run, w.case)
      /\ File1(t) = d.name
      /\ File1(t) \in FileNames
  BY <1>1, OnDuty DEF DutySound, Call
<1>3. HasEvent(w.run, w.op)
  BY <1>2 DEF HasEvent, InStream, EventOf
<1>4. w.op # "plain" => w.call \in EventsOf(w.run)
  <2>1. PICK i \in DOMAIN stream[w.run] : stream[w.run][i] = EventOf(w)
    BY <1>2 DEF InStream
  <2>2. stream[w.run][i].call = w.call /\ stream[w.run][i].op = w.op
    BY <2>1 DEF EventOf
  <2> QED
    BY <1>2, <2>1, <2>2 DEF EventsOf, Recorded
<1>5. NewContent(t) =
        LET kind == d.name[1] IN
        CASE kind = "timeline" /\ w.op = "start" -> <<w.call>>
          [] kind = "timeline" /\ w.op # "start" -> Append(w.seen, w.call)
          [] kind = "caseTimeline" -> Append(w.seen, w.call)
          [] kind = "state" /\ w.op = "start" -> "RUN_STARTED"
          [] kind = "state" /\ w.op # "start" -> "RUN_COMPLETED"
          [] kind \in {"caseState", "latestRun"} -> w.run
          [] kind = "relatedRuns" /\ w.op = "start" ->
               [w.seen EXCEPT !.listed = w.seen.listed \cup {w.run}]
          [] kind = "relatedRuns" /\ w.op # "start" ->
               [w.seen EXCEPT !.done = w.seen.done \cup ({w.run} \cap w.seen.listed)]
  BY <1>2 DEF NewContent
<1>6. PICK new : new = NewContent(t)
  OBVIOUS
<1> HIDE DEF w, d
<1>7. ASSUME d = Replace(Timeline(w.run)), w.op = "start"
      PROVE  Honest(d.name, new)
  <2>1. d.name = <<"timeline", w.run>>
    BY <1>7 DEF Replace, Timeline
  <2>2. new = <<w.call>>
    BY <1>5, <1>6, <1>7, <2>1
  <2> QED
    BY <1>2, <1>4, <1>7, <2>1, <2>2 DEF Honest, Follows, Contents
<1>8. ASSUME d = Update(Timeline(w.run)), w.op \notin {"start", "plain"}
      PROVE  Honest(d.name, new)
  <2>1. d.name = <<"timeline", w.run>> /\ d.how = "update"
    BY <1>8 DEF Update, Timeline
  <2>2. new = Append(w.seen, w.call)
    BY <1>5, <1>6, <1>8, <2>1
  <2>3. /\ w.seen \in Seq(Nat)
        /\ \A i \in DOMAIN w.seen : w.seen[i] \in EventsOf(w.run)
    BY <1>2, <2>1 DEF Honest, Follows, Contents
  <2>4. /\ new \in Seq(Nat)
        /\ \A i \in DOMAIN new : new[i] \in EventsOf(w.run)
    BY <1>2, <1>4, <1>8, <2>2, <2>3
  <2> QED
    BY <1>2, <2>1, <2>4 DEF Honest, Follows, Contents
<1>9. ASSUME d = Update(CaseTimeline(w.case)), w.op # "plain"
      PROVE  Honest(d.name, new)
  <2>1. d.name = <<"caseTimeline", w.case>> /\ d.how = "update"
    BY <1>9 DEF Update, CaseTimeline
  <2>2. new = Append(w.seen, w.call)
    BY <1>5, <1>6, <1>9, <2>1
  <2>3. /\ w.seen \in Seq(Nat)
        /\ \A i \in DOMAIN w.seen : \E r \in Runs : w.seen[i] \in EventsOf(r)
    BY <1>2, <2>1 DEF Honest, Follows, Contents
  <2>4. /\ new \in Seq(Nat)
        /\ \A i \in DOMAIN new : \E r \in Runs : new[i] \in EventsOf(r)
    BY <1>2, <1>4, <1>9, <2>2, <2>3
  <2> QED
    BY <1>2, <2>1, <2>4 DEF Honest, Follows, Contents
<1>10. ASSUME d = Replace(State(w.run)), w.op = "start"
      PROVE  Honest(d.name, new)
  <2>1. d.name = <<"state", w.run>>
    BY <1>10 DEF Replace, State
  <2>2. new = "RUN_STARTED"
    BY <1>5, <1>6, <1>10, <2>1
  <2> QED
    BY <1>2, <2>1, <2>2 DEF Honest, Follows, Contents
<1>11. ASSUME d = Update(State(w.run)), w.op = "complete"
      PROVE  Honest(d.name, new)
  <2>1. d.name = <<"state", w.run>>
    BY <1>11 DEF Update, State
  <2>2. new = "RUN_COMPLETED"
    BY <1>5, <1>6, <1>11, <2>1
  <2> QED
    BY <1>2, <1>3, <1>11, <2>1, <2>2 DEF Honest, Follows, Contents
<1>12. ASSUME d \in {Replace(CaseState(w.case)), Replace(LatestRun(w.case))}, w.op = "complete"
      PROVE  Honest(d.name, new)
  <2>1. d.name[1] \in {"caseState", "latestRun"}
    BY <1>12 DEF Replace, CaseState, LatestRun
  <2>2. new = w.run
    BY <1>5, <1>6, <1>12, <2>1
  <2> QED
    BY <1>2, <1>3, <1>12, <2>1, <2>2 DEF Honest, Follows, Contents
<1>13. ASSUME d = Update(Related(w.case)), w.op \in {"start", "complete"}
      PROVE  Honest(d.name, new)
  <2>1. d.name = <<"relatedRuns", w.case>> /\ d.how = "update"
    BY <1>13 DEF Update, Related
  <2>2. /\ w.seen \in [listed : SUBSET Runs, done : SUBSET Runs]
        /\ \A r \in w.seen.listed : HasEvent(r, "start")
        /\ \A r \in w.seen.done : HasEvent(r, "complete")
    BY <1>2, <2>1 DEF Honest, Follows, Contents
  <2>3. CASE w.op = "start"
    <3>1. new = [w.seen EXCEPT !.listed = w.seen.listed \cup {w.run}]
      BY <1>5, <1>6, <2>1, <2>3
    <3>2. /\ new \in [listed : SUBSET Runs, done : SUBSET Runs]
          /\ new.listed = w.seen.listed \cup {w.run}
          /\ new.done = w.seen.done
      BY <1>2, <2>2, <3>1
    <3> QED
      BY <1>2, <1>3, <2>1, <2>2, <2>3, <3>2 DEF Honest, Follows, Contents
  <2>4. CASE w.op = "complete"
    <3>1. new = [w.seen EXCEPT !.done = w.seen.done \cup ({w.run} \cap w.seen.listed)]
      BY <1>5, <1>6, <2>1, <2>4
    <3>2. /\ new \in [listed : SUBSET Runs, done : SUBSET Runs]
          /\ new.listed = w.seen.listed
          /\ new.done \subseteq w.seen.done \cup {w.run}
      BY <1>2, <2>2, <3>1
    <3> QED
      BY <1>2, <1>3, <2>1, <2>2, <2>4, <3>2 DEF Honest, Follows, Contents
  <2> QED
    BY <1>13, <2>3, <2>4
<1>14. Honest(d.name, new)
  BY <1>2, <1>7, <1>8, <1>9, <1>10, <1>11, <1>12, <1>13, DutyKinds
<1>15. thread[t].todo # << >>
  BY <1>1 DEF w
<1> QED
  BY <1>2, <1>6, <1>14, <1>15

LEMMA TailType ==
  ASSUME NEW S, NEW s \in Seq(S), s # << >>
  PROVE  Tail(s) \in Seq(S)
OBVIOUS

LEMMA WriteFileKeepsInv ==
  ASSUME RunInv, NEW t \in Threads, WriteFile(t)
  PROVE  RunInv'
<1>0. PICK v : v = thread[t]
  OBVIOUS
<1>n. PICK name : name = File1(t)
  OBVIOUS
<1>w. PICK w : w = [v EXCEPT !.pc = "next", !.seen = << >>, !.todo = Tail(v.todo)]
  OBVIOUS
<1>f. PICK file \in Written(files[name], NewContent(t), Nothing(name)) :
        files' = [files EXCEPT ![name] = file]
  BY <1>n DEF WriteFile
<1>1. /\ v.pc = "write"
      /\ v.pc \in Told
      /\ UNCHANGED <<dirs, stream, lock, calls, answered, disturbances>>
      /\ thread' = [thread EXCEPT ![t] = w]
  BY <1>0, <1>w DEF WriteFile, Told
<1>2. /\ v.todo # << >>
      /\ name \in FileNames
      /\ Honest(name, NewContent(t))
  BY <1>0, <1>1, <1>n, NewContentIsHonest DEF RunInv
<1>3. v \in Call /\ DutySound(v)
  BY <1>0 DEF RunInv, StreamInv, StreamTypeOK, FilesInv, ThreadSound
<1>4. /\ Tail(v.todo) \in Seq(Task)
      /\ Tail(v.todo) \in Seq(Duties(v.op, v.run, v.case))
  <2>1. /\ v.todo \in Seq(Task)
        /\ v.todo \in Seq(Duties(v.op, v.run, v.case))
    BY <1>1, <1>3 DEF Call, DutySound
  <2> QED
    BY <1>2, <2>1, TailType
<1>5. /\ w \in Call
      /\ w.pc = "next"
      /\ w.run = v.run
      /\ w.op = v.op
      /\ w.case = v.case
      /\ w.call = v.call
      /\ w.todo = Tail(v.todo)
  <2>1. << >> \in Seen
    BY DEF Seen
  <2> QED
    BY <1>w, <1>3, <1>4, <2>1 DEF Call, Steps
<1>6. StreamInv'
  <2>1. w.pc \in Told
    BY <1>5 DEF Told
  <2> QED
    BY <1>0, <1>1, <1>5, <2>1, GoesOn DEF RunInv
<1>7. Grows
  BY <1>1 DEF Grows
<1>8. FilesHonest'
  <2>1. FilesHonest
    BY DEF RunInv, FilesInv
  <2>2. /\ DOMAIN files' = FileNames
        /\ files'[name] = file
        /\ \A other \in FileNames \ {name} : files'[other] = files[other]
    BY <1>2, <1>f, <2>1 DEF FilesHonest
  <2>3. file \in File(Contents(name)) /\ Honest(name, file.content)
    <3>1. CASE file = WholeFile(NewContent(t))
      BY <1>2, <3>1 DEF WholeFile, File, FileStates, Honest
    <3>2. CASE file = [state |-> "mixed", content |-> Nothing(name)]
      BY <1>2, <3>2, NothingIsHonest DEF File, FileStates, Honest
    <3> QED
      BY <1>f, <3>1, <3>2 DEF Written
  <2>4. ASSUME NEW other \in FileNames
        PROVE  files'[other] \in File(Contents(other)) /\ Follows(other, files[other].content)'
    <3>0. PICK x : x = files'[other].content
      OBVIOUS
    <3>1. files'[other] \in File(Contents(other)) /\ Honest(other, x)
      BY <2>1, <2>2, <2>3, <3>0 DEF FilesHonest, Honest, File
    <3>2. Follows(other, x)'
      BY <1>7, <3>1, HonestStays DEF Honest
    <3> QED
      BY <3>0, <3>1, <3>2 DEF Follows, EventsOf, HasEvent
  <2> QED
    BY <2>2, <2>4 DEF FilesHonest
<1>9. thread'[t] = w /\ \A u \in Threads \ {t} : thread'[u] = thread[u]
  BY <1>1 DEF RunInv, StreamInv, StreamTypeOK
<1>10. ThreadSound(t)'
  <2>1. DutySound(w)'
    BY <1>4, <1>5 DEF DutySound
  <2> QED
    BY <1>9, <2>1 DEF ThreadSound
<1>11. Bounded'
  BY <1>1 DEF RunInv, FilesInv, Bounded
<1>12. FilesInv'
  BY <1>7, <1>8, <1>9, <1>10, <1>11, FilesStep DEF RunInv
<1> QED
  BY <1>6, <1>12 DEF RunInv

LEMMA AppendEventKeepsInv ==
  ASSUME RunInv, NEW t \in Threads, AppendEvent(t)
  PROVE  RunInv'
<1>1. StreamInv'
  BY AppendEventKeepsStreams DEF RunInv
<1>2. Grows
  <2>1. ASSUME NEW r \in Runs, NEW i \in DOMAIN stream[r]
        PROVE  i \in DOMAIN stream'[r] /\ stream'[r][i] = stream[r][i]
    <3>1. stream[r] \in Seq(Event) /\ stream'[r] \in Seq(Event)
      BY <1>1 DEF RunInv, StreamInv, StreamTypeOK
    <3>2. CASE r = thread[t].run
      <4>1. /\ Len(stream'[r]) = Len(stream[r]) + 1
            /\ stream'[r][i] = stream[r][i]
        BY <2>1, <3>2, Grown DEF RunInv
      <4>2. i \in 1..Len(stream[r]) /\ Len(stream[r]) \in Nat
        BY <2>1, <3>1
      <4>3. i \in 1..Len(stream'[r])
        BY <4>1, <4>2
      <4> QED
        BY <3>1, <4>1, <4>3
    <3>3. CASE r # thread[t].run
      <4>1. stream'[r] = stream[r]
        BY <3>3, OthersStay DEF RunInv
      <4> QED
        BY <2>1, <4>1
    <3> QED
      BY <3>2, <3>3
  <2> QED
    BY <2>1 DEF Grows
<1>3. FilesHonest'
  BY <1>2, UntouchedStayHonest DEF RunInv, FilesInv, AppendEvent
<1>4. Bounded'
  <2>1. calls < MaxCalls /\ calls' = calls + 1 /\ UNCHANGED disturbances
    BY DEF AppendEvent
  <2> QED
    BY <2>1, RunMemoryAssumptions DEF RunInv, FilesInv, StreamInv, StreamTypeOK, Bounded
<1>5. ThreadSound(t)'
  <2>0. PICK v : v = thread[t]
    OBVIOUS
  <2>1. PICK w : w = [v EXCEPT !.pc = "next", !.call = calls + 1,
                               !.todo = Tasks(v.op, v.run, v.case)]
    OBVIOUS
  <2>2. v \in Call
    BY <2>0 DEF RunInv, StreamInv, StreamTypeOK
  <2>3. /\ w.pc = "next"
        /\ w.todo = Tasks(v.op, v.run, v.case)
        /\ w.op = v.op
        /\ w.run = v.run
        /\ w.case = v.case
    BY <2>1, <2>2 DEF Call
  <2>4. w.todo \in Seq(Duties(w.op, w.run, w.case))
    BY <2>2, <2>3, TasksAreDuties DEF Call
  <2>5. DutySound(w)'
    BY <2>3, <2>4 DEF DutySound
  <2>6. thread'[t] = w
    BY <2>0, <2>1 DEF AppendEvent, RunInv, StreamInv, StreamTypeOK
  <2> QED
    BY <2>5, <2>6 DEF ThreadSound
<1>6. \A u \in Threads \ {t} : thread'[u] = thread[u]
  BY DEF AppendEvent, RunInv, StreamInv, StreamTypeOK
<1>7. FilesInv'
  BY <1>2, <1>3, <1>4, <1>5, <1>6, FilesStep DEF RunInv
<1> QED
  BY <1>1, <1>7 DEF RunInv

LEMMA RunInitInv == RunInit => RunInv
<1> SUFFICES ASSUME RunInit PROVE RunInv
  OBVIOUS
<1>1. StreamInv
  BY StreamInit
<1>2. FilesHonest
  <2>1. files = [name \in FileNames |-> NoFile(Nothing(name))]
    BY DEF RunInit
  <2>2. ASSUME NEW name \in FileNames
        PROVE  /\ files[name] \in File(Contents(name))
               /\ Follows(name, files[name].content)
    BY <2>1, NothingIsHonest DEF NoFile, File, FileStates, Honest
  <2> QED
    BY <2>1, <2>2 DEF FilesHonest
<1>3. \A t \in Threads : ThreadSound(t)
  BY DEF RunInit, ThreadSound, DutySound, IdleThread, Told
<1>4. Bounded
  BY RunMemoryAssumptions DEF RunInit, Bounded
<1> QED
  BY <1>1, <1>2, <1>3, <1>4 DEF RunInv, FilesInv

LEMMA DisturbBounded ==
  ASSUME RunInv, UNCHANGED calls, UNCHANGED disturbances \/ Disturb
  PROVE  Bounded'
BY RunMemoryAssumptions DEF RunInv, StreamInv, StreamTypeOK, FilesInv, Bounded, Disturb

LEMMA RunStep == RunInv /\ [RunNext]_runVars => RunInv'
<1> SUFFICES ASSUME RunInv, [RunNext]_runVars PROVE RunInv'
  OBVIOUS
<1>1. ASSUME NEW t \in Threads, NEW c \in Cases, ScanRuns(t, c) PROVE RunInv'
  <2>1. UNCHANGED calls /\ (UNCHANGED disturbances \/ Disturb)
    BY <1>1 DEF ScanRuns, Begin
  <2>2. \A u \in Threads : thread'[u] = thread[u] \/ thread'[u].pc = "reserve"
    BY <1>1 DEF ScanRuns, Begin, IdleThread, RunInv, StreamInv, StreamTypeOK
  <2>3. FilesInv'
    BY <1>1, <2>1, <2>2, DisturbBounded, NoFileTouched DEF RunInv, ScanRuns
  <2> QED
    BY <1>1, <2>3, ScanRunsKeepsStreams DEF RunInv
<1>2. ASSUME NEW t \in Threads, Reserve(t) PROVE RunInv'
  <2>1. \A u \in Threads : thread'[u] = thread[u] \/ thread'[u].pc \in {"reserve", "append"}
    <3>1. thread \in [Threads -> Call]
      BY DEF RunInv, StreamInv, StreamTypeOK
    <3> QED
      BY <1>2, <3>1 DEF Reserve, Go, Call
  <2>2. FilesInv'
    BY <1>2, <2>1, DisturbBounded, NoFileTouched DEF RunInv, Reserve
  <2> QED
    BY <1>2, <2>2, ReserveKeepsStreams DEF RunInv
<1>3. ASSUME NEW t \in Threads, NEW r \in Runs, NEW op \in Ops \ {"start"},
             SendEvent(t, r, op)
      PROVE  RunInv'
  <2>1. UNCHANGED calls /\ (UNCHANGED disturbances \/ Disturb)
    BY <1>3 DEF SendEvent, Begin
  <2>2. \A u \in Threads : thread'[u] = thread[u] \/ thread'[u].pc = "append"
    BY <1>3 DEF SendEvent, Begin, IdleThread, RunInv, StreamInv, StreamTypeOK
  <2>3. FilesInv'
    BY <1>3, <2>1, <2>2, DisturbBounded, NoFileTouched DEF RunInv, SendEvent
  <2> QED
    BY <1>3, <2>3, SendEventKeepsStreams DEF RunInv
<1>4. ASSUME NEW t \in Threads, AppendEvent(t) PROVE RunInv'
  BY <1>4, AppendEventKeepsInv
<1>5. ASSUME NEW t \in Threads, ReadFile(t) PROVE RunInv'
  BY <1>5, ReadFileKeepsInv
<1>6. ASSUME NEW t \in Threads, OpenFile(t) PROVE RunInv'
  BY <1>6, OpenFileKeepsInv
<1>7. ASSUME NEW t \in Threads, WriteFile(t) PROVE RunInv'
  BY <1>7, WriteFileKeepsInv
<1>8. ASSUME NEW t \in Threads, Answer(t) PROVE RunInv'
  <2>1. \A u \in Threads : thread'[u] = thread[u] \/ thread'[u].pc = "idle"
    BY <1>8 DEF Answer, IdleThread, RunInv, StreamInv, StreamTypeOK
  <2>2. FilesInv'
    BY <1>8, <2>1, DisturbBounded, NoFileTouched DEF RunInv, Answer
  <2> QED
    BY <1>8, <2>2, AnswerKeepsStreams DEF RunInv
<1>9. ASSUME NEW p \in Processes, Restart(p) PROVE RunInv'
  <2>1. \A u \in Threads : thread'[u] = thread[u] \/ thread'[u].pc = "idle"
    BY <1>9 DEF Restart, IdleThread
  <2>2. FilesInv'
    BY <1>9, <2>1, DisturbBounded, NoFileTouched DEF RunInv, Restart
  <2> QED
    BY <1>9, <2>2, RestartKeepsStreams DEF RunInv
<1>10. CASE UNCHANGED runVars
  <2>1. StreamInv'
    BY <1>10 DEF runVars, RunInv, StreamInv, StreamTypeOK, OnlyInDirs, CallsSound, CallSound,
                 InStream, EventOf, OneStartPerRun, AnsweredEventsAreKept
  <2>2. FilesInv'
    BY <1>10, DisturbBounded, UntouchedStayHonest, FilesStep DEF runVars, RunInv, FilesInv, Grows
  <2> QED
    BY <2>1, <2>2 DEF RunInv
<1> QED
  BY <1>1, <1>2, <1>3, <1>4, <1>5, <1>6, <1>7, <1>8, <1>9, <1>10 DEF RunNext

(* The inductive invariant holds whatever calls overlap and are cut off.   *)
THEOREM RunInvariant == RunSpec => []RunInv
BY RunInitInv, RunStep, PTL DEF RunSpec

----------------------------------------------------------------------------
(* What follows.                                                           *)

(* Every variable of Run Memory has its type, and every file holds what    *)
(* its writers put there, whatever calls race and are cut off.             *)
THEOREM RunTypeCorrect == RunSpec => []RunTypeOK
<1>1. RunInv => RunTypeOK
  <2> SUFFICES ASSUME RunInv PROVE RunTypeOK
    OBVIOUS
  <2>1. StreamTypeOK /\ CallsSound
    BY DEF RunInv, StreamInv
  <2>2. FilesHonest /\ Bounded
    BY DEF RunInv, FilesInv
  <2>3. ASSUME NEW t \in Threads
        PROVE  /\ thread[t].pc \in Steps
               /\ thread[t].op \in Ops
               /\ thread[t].run \in {0} \cup Runs
               /\ thread[t].case \in Cases
               /\ thread[t].call \in 0..calls
               /\ thread[t].todo \in Seq(Task)
    <3>1. thread[t] \in Call /\ thread[t].call \in 0..calls
      BY <2>1 DEF StreamTypeOK, CallsSound, CallSound
    <3> QED
      BY <3>1 DEF Call
  <2>4. calls \in 0..MaxCalls /\ disturbances \in 0..MaxDisturbances
    BY <2>1, <2>2, RunMemoryAssumptions DEF StreamTypeOK, Bounded
  <2> QED
    BY <2>1, <2>2, <2>3, <2>4 DEF RunTypeOK, StreamTypeOK, FilesHonest, Steps
<1> QED
  BY <1>1, RunInvariant, PTL

(* However many processes number their runs at once, and wherever a        *)
(* restart drops a lock, no two starts share a run directory               *)
(* (generate_run_id).                                                      *)
THEOREM StartsAreSeparate == RunSpec => []OneStartPerRun
<1>1. RunInv => OneStartPerRun
  BY DEF RunInv, StreamInv
<1> QED
  BY <1>1, RunInvariant, PTL

(* An answered event is in the stream of its run for ever (append_event).  *)
THEOREM AnswersAreKept == RunSpec => []AnsweredEventsAreKept
<1>1. RunInv => AnsweredEventsAreKept
  BY DEF RunInv, StreamInv
<1> QED
  BY <1>1, RunInvariant, PTL

(* However reads and writes of the derived files race, and wherever a      *)
(* restart cuts a call off, no file tells of an event, a start or a        *)
(* completion that no stream has.                                          *)
THEOREM FilesStayBehindStreams == RunSpec => []FilesFollowStreams
<1>1. RunInv => FilesFollowStreams
  <2> SUFFICES ASSUME RunInv PROVE FilesFollowStreams
    OBVIOUS
  <2>1. \A name \in FileNames : Follows(name, files[name].content)
    BY DEF RunInv, FilesInv, FilesHonest
  <2>2. ASSUME NEW r \in Runs
        PROVE  /\ \A i \in DOMAIN files[Timeline(r)].content :
                    files[Timeline(r)].content[i] \in EventsOf(r)
               /\ files[State(r)].content = "RUN_COMPLETED" => HasEvent(r, "complete")
    <3>1. Timeline(r) \in FileNames /\ State(r) \in FileNames
      BY DEF FileNames, Timeline, State
    <3>2. /\ Timeline(r)[1] = "timeline"
          /\ Timeline(r)[2] = r
          /\ State(r)[1] = "state"
          /\ State(r)[2] = r
      BY DEF Timeline, State
    <3>3. /\ Follows(Timeline(r), files[Timeline(r)].content)
          /\ Follows(State(r), files[State(r)].content)
      BY <2>1, <3>1
    <3> QED
      BY <3>2, <3>3 DEF Follows
  <2>3. ASSUME NEW c \in Cases
        PROVE  LET related == files[Related(c)].content
                   latest  == {files[CaseState(c)].content, files[LatestRun(c)].content} \ {0}
               IN /\ \A i \in DOMAIN files[CaseTimeline(c)].content :
                       \E r \in Runs : files[CaseTimeline(c)].content[i] \in EventsOf(r)
                  /\ \A r \in related.listed : HasEvent(r, "start")
                  /\ \A r \in related.done \cup latest : HasEvent(r, "complete")
    <3>1. /\ CaseTimeline(c) \in FileNames
          /\ Related(c) \in FileNames
          /\ CaseState(c) \in FileNames
          /\ LatestRun(c) \in FileNames
      BY DEF FileNames, CaseTimeline, Related, CaseState, LatestRun
    <3>2. /\ CaseTimeline(c)[1] = "caseTimeline"
          /\ Related(c)[1] = "relatedRuns"
          /\ CaseState(c)[1] = "caseState"
          /\ LatestRun(c)[1] = "latestRun"
      BY DEF CaseTimeline, Related, CaseState, LatestRun
    <3>3. /\ Follows(CaseTimeline(c), files[CaseTimeline(c)].content)
          /\ Follows(Related(c), files[Related(c)].content)
          /\ Follows(CaseState(c), files[CaseState(c)].content)
          /\ Follows(LatestRun(c), files[LatestRun(c)].content)
      BY <2>1, <3>1
    <3> QED
      BY <3>2, <3>3 DEF Follows
  <2> QED
    BY <2>2, <2>3 DEF FilesFollowStreams
<1> QED
  BY <1>1, RunInvariant, PTL

----------------------------------------------------------------------------
(* Calls that come one at a time. What the streams say is a set of facts,  *)
(* and each of the other files is about some of them. A file tells all     *)
(* that it is about but, as long as a call has yet to rewrite it, the      *)
(* event of that call. To say so for all kinds of files at once is what    *)
(* makes the invariant inductive: a call reads a file, empties it and      *)
(* writes back what it read with its own event added.                      *)

Fact == [run : Runs, op : Ops, call : Nat]

FactOf(w) == [run |-> w.run, op |-> w.op, call |-> w.call]

Recalled(s, f) == \E i \in DOMAIN s[f.run] : s[f.run][i].op = f.op /\ s[f.run][i].call = f.call

Concerns(s, name, f) ==
  CASE name[1] = "timeline" -> f.run = name[2] /\ f.op \in Recorded
    [] name[1] = "state" -> f.run = name[2] /\ f.op = "complete"
    [] name[1] = "caseTimeline" ->
         s[f.run][1].case = name[2] /\ f.op \in {"keyInCase", "complete"}
    [] name[1] \in {"caseState", "latestRun"} ->
         s[f.run][1].case = name[2] /\ f.op = "complete"
    [] name[1] = "relatedRuns" ->
         s[f.run][1].case = name[2] /\ f.op \in {"start", "complete"}

About(s, name) == {f \in Fact : Recalled(s, f) /\ Concerns(s, name, f)}

Lists(content, facts) ==
  InOrder(content) /\ {content[i] : i \in DOMAIN content} = {f.call : f \in facts}

Tells(name, content, facts) ==
  CASE name[1] \in {"timeline", "caseTimeline"} -> Lists(content, facts)
    [] name[1] = "state" -> content = "RUN_COMPLETED" <=> facts # {}
    [] name[1] \in {"caseState", "latestRun"} ->
         facts # {} => \E f \in facts : content = f.run /\ \A g \in facts : g.call <= f.call
    [] name[1] = "relatedRuns" ->
         /\ content.listed = {f.run : f \in {g \in facts : g.op = "start"}}
         /\ content.done = {f.run : f \in {g \in facts : g.op = "complete"}}

(* No two events have one number, and the numbers are those given out.     *)
Numbered(s, n) ==
  \A f, g \in Fact : Recalled(s, f) /\ Recalled(s, g) =>
    f.call \in 1..n /\ (f.call = g.call => f = g)

(* The files that a call has yet to rewrite, and what a file tells then.   *)
Pending(w) == IF w.pc \in Told THEN {w.todo[i].name : i \in DOMAIN w.todo} ELSE {}

Due(s, w, name) == About(s, name) \ {f \in {FactOf(w)} : name \in Pending(w)}

(* A call that meets no other.                                             *)
CallTidy(w, s, D, n) ==
  /\ \A r \in D : s[r] = << >> => w.pc = "append" /\ w.run = r
  /\ w.pc = "append" /\ w.op # "start" => s[w.run][1].case = w.case
  /\ w.pc \in Told =>
       /\ w.call = n
       /\ s[w.run][1].case = w.case
       /\ w.op = "start" => Len(s[w.run]) = 1
       /\ \A i, j \in DOMAIN w.todo : w.todo[i].name = w.todo[j].name => i = j

Intact(file, nothing) == file.state = "whole" \/ file = NoFile(nothing)

FileTidy(w, s, name, file) ==
  /\ Tells(name, file.content, Due(s, w, name))
  /\ IF w.pc = "write" /\ name = Head(w.todo).name
     THEN file.state = "empty"
     ELSE Intact(file, Nothing(name))
  /\ w.pc \in {"open", "write"} /\ name = Head(w.todo).name /\ Head(w.todo).how = "update"
       => w.seen = file.content

Tidy(w, s, D, n, fs) ==
  /\ CallTidy(w, s, D, n)
  /\ \A name \in FileNames : FileTidy(w, s, name, fs[name])

TidyInv ==
  /\ Numbered(stream, calls)
  /\ disturbances = 0 =>
       \E t \in Threads :
         /\ \A u \in Threads \ {t} : thread[u].pc = "idle"
         /\ Tidy(thread[t], stream, dirs, calls, files)

(* What "tells" means for each kind of file.                               *)
LEMMA TellsTimeline ==
  ASSUME NEW name, NEW content, NEW facts, name[1] \in {"timeline", "caseTimeline"}
  PROVE  Tells(name, content, facts) <=> Lists(content, facts)
BY DEF Tells

LEMMA TellsState ==
  ASSUME NEW name, NEW content, NEW facts, name[1] = "state"
  PROVE  Tells(name, content, facts) <=> (content = "RUN_COMPLETED" <=> facts # {})
BY DEF Tells

LEMMA TellsLast ==
  ASSUME NEW name, NEW content, NEW facts, name[1] \in {"caseState", "latestRun"},
         \E f \in facts : content = f.run /\ \A g \in facts : g.call <= f.call
  PROVE  Tells(name, content, facts)
BY DEF Tells

LEMMA TellsRelated ==
  ASSUME NEW name, NEW content, NEW facts, name[1] = "relatedRuns"
  PROVE  Tells(name, content, facts) <=>
           /\ content.listed = {f.run : f \in {g \in facts : g.op = "start"}}
           /\ content.done = {f.run : f \in {g \in facts : g.op = "complete"}}
BY DEF Tells

(* One event more is one fact more, and no run changes its case.           *)
LEMMA FactsGrow ==
  ASSUME StreamInv, NEW t \in Threads, AppendEvent(t),
         NEW new, new = [run |-> thread[t].run, op |-> thread[t].op, call |-> calls + 1]
  PROVE  /\ new \in Fact
         /\ \A f \in Fact : Recalled(stream', f) <=> Recalled(stream, f) \/ f = new
         /\ \A r \in Runs : stream[r] # << >> => stream'[r][1] = stream[r][1]
<1>0. PICK w : w = thread[t]
  OBVIOUS
<1>e. PICK event : event = [call |-> calls + 1, op |-> w.op, case |-> w.case]
  OBVIOUS
<1>1. /\ event \in Event
      /\ w.run \in Runs
      /\ \A r \in Runs \ {w.run} : stream'[r] = stream[r]
      /\ stream'[w.run] \in Seq(Event)
      /\ Len(stream'[w.run]) = Len(stream[w.run]) + 1
      /\ stream'[w.run][Len(stream[w.run]) + 1] = event
      /\ \A i \in DOMAIN stream[w.run] : stream'[w.run][i] = stream[w.run][i]
  BY <1>0, <1>e, Grown
<1>2. /\ w \in Call
      /\ calls \in Nat
      /\ stream[w.run] \in Seq(Event)
  BY <1>0, <1>1 DEF StreamInv, StreamTypeOK
<1>3. /\ new \in Fact
      /\ new.run = w.run
      /\ new.op = w.op
      /\ new.call = calls + 1
  BY <1>0, <1>1, <1>2 DEF Fact, Call
<1>4. event.op = w.op /\ event.call = calls + 1
  BY <1>e
<1>5. ASSUME NEW f \in Fact, f.run # w.run
      PROVE  Recalled(stream', f) <=> Recalled(stream, f) \/ f = new
  <2>1. f.run \in Runs /\ f # new
    BY <1>3, <1>5 DEF Fact
  <2>2. stream'[f.run] = stream[f.run]
    BY <1>1, <1>5, <2>1
  <2> QED
    BY <2>1, <2>2 DEF Recalled
<1>6. ASSUME NEW f \in Fact, f.run = w.run
      PROVE  Recalled(stream', f) <=> Recalled(stream, f) \/ f = new
  <2>1. ASSUME Recalled(stream, f) PROVE Recalled(stream', f)
    <3>1. PICK i \in DOMAIN stream[w.run] :
            stream[w.run][i].op = f.op /\ stream[w.run][i].call = f.call
      BY <1>6, <2>1 DEF Recalled
    <3>2. i \in DOMAIN stream'[w.run] /\ stream'[w.run][i] = stream[w.run][i]
      BY <1>1, <1>2
    <3> QED
      BY <1>6, <3>1, <3>2 DEF Recalled
  <2>2. ASSUME f = new PROVE Recalled(stream', f)
    <3>1. Len(stream[w.run]) + 1 \in DOMAIN stream'[w.run]
      BY <1>1, <1>2
    <3> QED
      BY <1>1, <1>3, <1>4, <2>2, <3>1 DEF Recalled
  <2>3. ASSUME Recalled(stream', f) PROVE Recalled(stream, f) \/ f = new
    <3>1. PICK i \in DOMAIN stream'[w.run] :
            stream'[w.run][i].op = f.op /\ stream'[w.run][i].call = f.call
      BY <1>6, <2>3 DEF Recalled
    <3>2. CASE i \in DOMAIN stream[w.run]
      <4>1. stream'[w.run][i] = stream[w.run][i]
        BY <1>1, <3>2
      <4> QED
        BY <1>6, <3>1, <3>2, <4>1 DEF Recalled
    <3>3. CASE i \notin DOMAIN stream[w.run]
      <4>1. i = Len(stream[w.run]) + 1
        BY <1>1, <1>2, <3>1, <3>3
      <4>2. f.op = w.op /\ f.call = calls + 1
        BY <1>1, <1>4, <3>1, <4>1
      <4> QED
        BY <1>3, <1>6, <4>2 DEF Fact
    <3> QED
      BY <3>2, <3>3
  <2> QED
    BY <2>1, <2>2, <2>3
<1>7. ASSUME NEW r \in Runs, stream[r] # << >> PROVE stream'[r][1] = stream[r][1]
  <2>1. CASE r = w.run
    <3>1. 1 \in DOMAIN stream[r]
      BY <1>2, <1>7, <2>1
    <3> QED
      BY <1>1, <2>1, <3>1
  <2>2. CASE r # w.run
    BY <1>1, <2>2
  <2> QED
    BY <2>1, <2>2
<1> QED
  BY <1>3, <1>5, <1>6, <1>7

LEMMA NumberedStays ==
  ASSUME StreamInv, NEW t \in Threads, AppendEvent(t), Numbered(stream, calls)
  PROVE  Numbered(stream', calls')
<1>0. PICK new : new = [run |-> thread[t].run, op |-> thread[t].op, call |-> calls + 1]
  OBVIOUS
<1>1. /\ new \in Fact
      /\ \A f \in Fact : Recalled(stream', f) <=> Recalled(stream, f) \/ f = new
  BY <1>0, FactsGrow
<1>2. calls \in Nat /\ calls' = calls + 1
  BY DEF AppendEvent, StreamInv, StreamTypeOK
<1>3. \A f \in Fact : Recalled(stream, f) => f.call \in 1..calls
  BY DEF Numbered
<1>4. new.call = calls + 1
  BY <1>0
<1>5. ASSUME NEW f \in Fact, NEW g \in Fact, Recalled(stream', f), Recalled(stream', g)
      PROVE  f.call \in 1..calls + 1 /\ (f.call = g.call => f = g)
  <2>1. f.call \in 1..calls + 1
    BY <1>1, <1>2, <1>3, <1>4, <1>5
  <2>2. CASE f = new \/ g = new
    BY <1>1, <1>2, <1>3, <1>4, <1>5, <2>2
  <2>3. CASE Recalled(stream, f) /\ Recalled(stream, g)
    BY <2>1, <2>3 DEF Numbered
  <2> QED
    BY <1>1, <1>5, <2>1, <2>2, <2>3
<1> QED
  BY <1>2, <1>5 DEF Numbered

(* But for the new event, each file is about what it was about.            *)
LEMMA AboutGrows ==
  ASSUME StreamInv, NEW t \in Threads, AppendEvent(t), Numbered(stream, calls),
         NEW new, new = [run |-> thread[t].run, op |-> thread[t].op, call |-> calls + 1],
         NEW name \in FileNames
  PROVE  About(stream', name) \ {new} = About(stream, name)
<1>1. /\ new \in Fact
      /\ \A f \in Fact : Recalled(stream', f) <=> Recalled(stream, f) \/ f = new
      /\ \A r \in Runs : stream[r] # << >> => stream'[r][1] = stream[r][1]
  BY FactsGrow
<1>2. ~Recalled(stream, new)
  <2>1. calls \in Nat /\ new.call = calls + 1
    BY DEF StreamInv, StreamTypeOK
  <2>2. Recalled(stream, new) => new.call \in 1..calls
    BY <1>1 DEF Numbered
  <2> QED
    BY <2>1, <2>2
<1>3. ASSUME NEW f \in Fact, Recalled(stream, f)
      PROVE  Concerns(stream', name, f) <=> Concerns(stream, name, f)
  <2>1. f.run \in Runs /\ stream[f.run] # << >>
    BY <1>3 DEF Recalled, Fact
  <2>2. stream'[f.run][1] = stream[f.run][1]
    BY <1>1, <2>1
  <2> QED
    BY <2>2 DEF Concerns
<1> QED
  BY <1>1, <1>2, <1>3 DEF About

(* A call rewrites every file that its event is about.                     *)
LEMMA TasksReach ==
  ASSUME NEW s, NEW op \in Ops, NEW r \in Runs, NEW c \in Cases, s[r][1].case = c,
         NEW name \in FileNames, NEW f, f.run = r, f.op = op, Concerns(s, name, f)
  PROVE  \E i \in DOMAIN Tasks(op, r, c) : Tasks(op, r, c)[i].name = name
<1> USE DEF Update, Replace
<1> PICK todo : todo = Tasks(op, r, c)
  OBVIOUS
<1>1. CASE name[1] = "timeline"
  <2>1. name = Timeline(r) /\ op \in Recorded
    BY <1>1 DEF Concerns, FileNames, Timeline
  <2>2. CASE op = "start"
    <3>1. 3 \in DOMAIN todo /\ todo[3].name = name
      BY <2>1, <2>2 DEF Tasks
    <3> QED
      BY <3>1
  <2>3. CASE op \in {"key", "keyInCase", "complete"}
    <3>1. 1 \in DOMAIN todo /\ todo[1].name = name
      BY <2>1, <2>3 DEF Tasks
    <3> QED
      BY <3>1
  <2> QED
    BY <2>1, <2>2, <2>3 DEF Recorded, Ops
<1>2. CASE name[1] = "state"
  <2>1. name = State(r) /\ op = "complete"
    BY <1>2 DEF Concerns, FileNames, State
  <2>2. 3 \in DOMAIN todo /\ todo[3].name = name
    BY <2>1 DEF Tasks
  <2> QED
    BY <2>2
<1>3. CASE name[1] = "caseTimeline"
  <2>1. name = CaseTimeline(c) /\ op \in {"keyInCase", "complete"}
    BY <1>3 DEF Concerns, FileNames, CaseTimeline
  <2>2. 2 \in DOMAIN todo /\ todo[2].name = name
    BY <2>1 DEF Tasks
  <2> QED
    BY <2>2
<1>4. CASE name[1] = "caseState"
  <2>1. name = CaseState(c) /\ op = "complete"
    BY <1>4 DEF Concerns, FileNames, CaseState
  <2>2. 4 \in DOMAIN todo /\ todo[4].name = name
    BY <2>1 DEF Tasks
  <2> QED
    BY <2>2
<1>5. CASE name[1] = "latestRun"
  <2>1. name = LatestRun(c) /\ op = "complete"
    BY <1>5 DEF Concerns, FileNames, LatestRun
  <2>2. 5 \in DOMAIN todo /\ todo[5].name = name
    BY <2>1 DEF Tasks
  <2> QED
    BY <2>2
<1>6. CASE name[1] = "relatedRuns"
  <2>1. name = Related(c) /\ op \in {"start", "complete"}
    BY <1>6 DEF Concerns, FileNames, Related
  <2>2. CASE op = "start"
    <3>1. 1 \in DOMAIN todo /\ todo[1].name = name
      BY <2>1, <2>2 DEF Tasks
    <3> QED
      BY <3>1
  <2>3. CASE op = "complete"
    <3>1. 6 \in DOMAIN todo /\ todo[6].name = name
      BY <2>1, <2>3 DEF Tasks
    <3> QED
      BY <3>1
  <2> QED
    BY <2>1, <2>2, <2>3
<1> QED
  BY <1>1, <1>2, <1>3, <1>4, <1>5, <1>6 DEF FileNames

(* A call rewrites no file twice.                                          *)
LEMMA TasksDiffer ==
  ASSUME NEW op \in Ops, NEW r, NEW c,
         NEW i \in DOMAIN Tasks(op, r, c), NEW j \in DOMAIN Tasks(op, r, c),
         Tasks(op, r, c)[i].name = Tasks(op, r, c)[j].name
  PROVE  i = j
<1> USE DEF Update, Replace, Timeline, State, CaseTimeline, CaseState, LatestRun, Related
<1> PICK todo : todo = Tasks(op, r, c)
  OBVIOUS
<1>1. CASE op = "start"
  <2>1. /\ DOMAIN todo = 1..3
        /\ todo[1].name[1] = "relatedRuns"
        /\ todo[2].name[1] = "state"
        /\ todo[3].name[1] = "timeline"
    BY <1>1 DEF Tasks
  <2> QED
    BY <2>1
<1>2. CASE op = "plain"
  <2>1. DOMAIN todo = {}
    BY <1>2 DEF Tasks
  <2> QED
    BY <2>1
<1>3. CASE op = "key"
  <2>1. DOMAIN todo = {1}
    BY <1>3 DEF Tasks
  <2> QED
    BY <2>1
<1>4. CASE op = "keyInCase"
  <2>1. /\ DOMAIN todo = 1..2
        /\ todo[1].name[1] = "timeline"
        /\ todo[2].name[1] = "caseTimeline"
    BY <1>4 DEF Tasks
  <2> QED
    BY <2>1
<1>5. CASE op = "complete"
  <2>1. /\ DOMAIN todo = 1..6
        /\ todo[1].name[1] = "timeline"
        /\ todo[2].name[1] = "caseTimeline"
        /\ todo[3].name[1] = "state"
        /\ todo[4].name[1] = "caseState"
        /\ todo[5].name[1] = "latestRun"
        /\ todo[6].name[1] = "relatedRuns"
    BY <1>5 DEF Tasks
  <2> QED
    BY <2>1
<1> QED
  BY <1>1, <1>2, <1>3, <1>4, <1>5 DEF Ops

(* An entry added at the end, with a number above all others.              *)
LEMMA OneMoreEntry ==
  ASSUME NEW content \in Seq(Nat), NEW before, NEW new, NEW after,
         after = before \cup {new}, new.call \in Nat,
         \A f \in before : f.call \in Nat /\ f.call < new.call,
         Lists(content, before)
  PROVE  Lists(Append(content, new.call), after)
<1> PICK next : next = Append(content, new.call)
  OBVIOUS
<1>0. InOrder(content) /\ {content[i] : i \in DOMAIN content} = {f.call : f \in before}
  BY DEF Lists
<1>1. /\ next \in Seq(Nat)
      /\ Len(next) = Len(content) + 1
      /\ \A i \in DOMAIN content : next[i] = content[i]
      /\ next[Len(content) + 1] = new.call
  OBVIOUS
<1>2. /\ DOMAIN next = 1..Len(content) + 1
      /\ DOMAIN content = 1..Len(content)
      /\ Len(content) \in Nat
  BY <1>1
<1>3. \A i \in DOMAIN content : content[i] \in Nat /\ content[i] < new.call
  <2>1. ASSUME NEW i \in DOMAIN content PROVE content[i] \in {f.call : f \in before}
    BY <1>0
  <2> QED
    BY <2>1
<1>4. ASSUME NEW i \in DOMAIN next, NEW j \in DOMAIN next, i < j PROVE next[i] < next[j]
  <2>1. i \in DOMAIN content
    BY <1>2, <1>4
  <2>2. CASE j \in DOMAIN content
    BY <1>0, <1>1, <1>4, <2>1, <2>2 DEF InOrder
  <2>3. CASE j \notin DOMAIN content
    <3>1. j = Len(content) + 1
      BY <1>2, <1>4, <2>3
    <3> QED
      BY <1>1, <1>3, <2>1, <3>1
  <2> QED
    BY <2>2, <2>3
<1>5. ASSUME NEW i \in DOMAIN next PROVE next[i] \in {f.call : f \in after}
  <2>1. CASE i \in DOMAIN content
    <3>1. next[i] \in {f.call : f \in before}
      BY <1>0, <1>1, <2>1
    <3> QED
      BY <3>1
  <2>2. CASE i \notin DOMAIN content
    <3>1. next[i] = new.call
      BY <1>1, <1>2, <1>5, <2>2
    <3> QED
      BY <3>1
  <2> QED
    BY <2>1, <2>2
<1>6. ASSUME NEW f \in after PROVE \E i \in DOMAIN next : next[i] = f.call
  <2>1. CASE f \in before
    <3>1. f.call \in {content[i] : i \in DOMAIN content}
      BY <1>0, <2>1
    <3>2. PICK i \in DOMAIN content : content[i] = f.call
      BY <3>1
    <3>3. i \in DOMAIN next /\ next[i] = f.call
      BY <1>1, <1>2, <3>2
    <3> QED
      BY <3>3
  <2>2. CASE f = new
    <3>1. Len(content) + 1 \in DOMAIN next
      BY <1>2
    <3> QED
      BY <1>1, <2>2, <3>1
  <2> QED
    BY <1>6, <2>1, <2>2
<1>7. InOrder(next)
  BY <1>4 DEF InOrder
<1>8. {next[i] : i \in DOMAIN next} = {f.call : f \in after}
  <2>1. ASSUME NEW x \in {next[i] : i \in DOMAIN next} PROVE x \in {f.call : f \in after}
    BY <1>5
  <2>2. ASSUME NEW x \in {f.call : f \in after} PROVE x \in {next[i] : i \in DOMAIN next}
    <3>1. PICK f \in after : x = f.call
      OBVIOUS
    <3> QED
      BY <1>6, <3>1
  <2> QED
    BY <2>1, <2>2, Zenon
<1> QED
  BY <1>7, <1>8 DEF Lists

(* What a call writes, duty by duty.                                       *)
LEMMA Rewritten ==
  ASSUME NEW t \in Threads, NEW w, w = thread[t], NEW name, name = File1(t)
  PROVE  /\ name = Timeline(w.run) /\ w.op = "start" => NewContent(t) = <<w.call>>
         /\ name = Timeline(w.run) /\ w.op # "start" => NewContent(t) = Append(w.seen, w.call)
         /\ name = CaseTimeline(w.case) => NewContent(t) = Append(w.seen, w.call)
         /\ name = State(w.run) /\ w.op = "start" => NewContent(t) = "RUN_STARTED"
         /\ name = State(w.run) /\ w.op # "start" => NewContent(t) = "RUN_COMPLETED"
         /\ name \in {CaseState(w.case), LatestRun(w.case)} => NewContent(t) = w.run
         /\ name = Related(w.case) /\ w.op = "start" =>
              NewContent(t) = [w.seen EXCEPT !.listed = w.seen.listed \cup {w.run}]
         /\ name = Related(w.case) /\ w.op # "start" =>
              NewContent(t) =
                [w.seen EXCEPT !.done = w.seen.done \cup ({w.run} \cap w.seen.listed)]
<1>1. CASE name = Timeline(w.run)
  <2>1. name[1] = "timeline"
    BY <1>1 DEF Timeline
  <2> QED
    BY <2>1 DEF NewContent, Timeline, CaseTimeline, State, CaseState, LatestRun, Related
<1>2. CASE name = CaseTimeline(w.case)
  <2>1. name[1] = "caseTimeline"
    BY <1>2 DEF CaseTimeline
  <2> QED
    BY <2>1 DEF NewContent, Timeline, CaseTimeline, State, CaseState, LatestRun, Related
<1>3. CASE name = State(w.run)
  <2>1. name[1] = "state"
    BY <1>3 DEF State
  <2> QED
    BY <2>1 DEF NewContent, Timeline, CaseTimeline, State, CaseState, LatestRun, Related
<1>4. CASE name \in {CaseState(w.case), LatestRun(w.case)}
  <2>1. CASE name = CaseState(w.case)
    <3>1. name[1] = "caseState"
      BY <2>1 DEF CaseState
    <3> QED
      BY <3>1 DEF NewContent, Timeline, CaseTimeline, State, CaseState, LatestRun, Related
  <2>2. CASE name = LatestRun(w.case)
    <3>1. name[1] = "latestRun"
      BY <2>2 DEF LatestRun
    <3> QED
      BY <3>1 DEF NewContent, Timeline, CaseTimeline, State, CaseState, LatestRun, Related
  <2> QED
    BY <1>4, <2>1, <2>2
<1>5. CASE name = Related(w.case)
  <2>1. name[1] = "relatedRuns"
    BY <1>5 DEF Related
  <2> QED
    BY <2>1 DEF NewContent, Timeline, CaseTimeline, State, CaseState, LatestRun, Related
<1> QED
  BY <1>1, <1>2, <1>3, <1>4, <1>5

(* Of the events of a call in the stream and of the others, the call's is  *)
(* the last.                                                               *)
LEMMA LastFact ==
  ASSUME RunInv, Numbered(stream, calls), NEW t \in Threads, NEW w, w = thread[t],
         w.pc \in Told, CallTidy(w, stream, dirs, calls)
  PROVE  /\ FactOf(w) \in Fact
         /\ Recalled(stream, FactOf(w))
         /\ \A f \in Fact : Recalled(stream, f) =>
              /\ f.call <= w.call
              /\ f # FactOf(w) => f.call < w.call
<1> DEFINE new == FactOf(w)
<1>1. /\ w \in Call
      /\ w.run \in Runs
      /\ InStream(w.run, EventOf(w))
      /\ calls \in Nat
  BY DEF RunInv, StreamInv, StreamTypeOK, CallsSound, CallSound
<1>2. /\ new \in Fact
      /\ new.run = w.run
      /\ new.op = w.op
      /\ new.call = w.call
  BY <1>1 DEF FactOf, Fact, Call
<1>3. Recalled(stream, new)
  <2>1. PICK i \in DOMAIN stream[w.run] : stream[w.run][i] = EventOf(w)
    BY <1>1 DEF InStream
  <2>2. stream[w.run][i].op = w.op /\ stream[w.run][i].call = w.call
    BY <2>1 DEF EventOf
  <2> QED
    BY <1>2, <2>2 DEF Recalled
<1> HIDE DEF new
<1>4. w.call = calls
  BY DEF CallTidy
<1>5. ASSUME NEW f \in Fact, Recalled(stream, f)
      PROVE  f.call <= w.call /\ (f # new => f.call < w.call)
  <2>1. f.call \in 1..calls /\ (f.call = new.call => f = new)
    BY <1>2, <1>3, <1>5 DEF Numbered
  <2> QED
    BY <1>1, <1>2, <1>4, <2>1
<1> QED
  BY <1>2, <1>3, <1>5 DEF new

(* A rewritten file tells of the call's event as well.                     *)
LEMMA ToldAnew ==
  ASSUME RunInv, Numbered(stream, calls), NEW t \in Threads, NEW w, w = thread[t],
         w.pc = "write", CallTidy(w, stream, dirs, calls),
         NEW name, name = File1(t), FileTidy(w, stream, name, files[name])
  PROVE  Tells(name, NewContent(t), About(stream, name))
<1> PICK d : d = Head(w.todo)
  OBVIOUS
<1> PICK new : new = FactOf(w)
  OBVIOUS
<1> PICK after : after = About(stream, name)
  OBVIOUS
<1> PICK before : before = after \ {new}
  OBVIOUS
<1>1. /\ w.todo # << >>
      /\ w.pc \in Told
  BY NewContentIsHonest DEF RunInv, Told
<1>2. /\ w \in Call
      /\ w.run \in Runs
      /\ w.op \in Ops
      /\ w.case \in Cases
      /\ w.call \in Nat
      /\ d \in Duties(w.op, w.run, w.case)
      /\ name = d.name
      /\ name \in FileNames
      /\ d.how = "update" => Honest(name, w.seen)
  BY <1>1, OnDuty DEF RunInv, DutySound, Call
<1>3. /\ new \in Fact
      /\ Recalled(stream, new)
      /\ new.run = w.run
      /\ new.op = w.op
      /\ new.call = w.call
  BY <1>1, LastFact DEF FactOf
<1>4. \A f \in after : /\ f \in Fact
                       /\ Recalled(stream, f)
                       /\ Concerns(stream, name, f)
                       /\ f.run \in Runs
                       /\ f.op \in Ops
                       /\ f.call \in Nat
                       /\ f.call <= new.call
  BY <1>1, <1>3, LastFact DEF About, Fact
<1>5. \A f \in before : f.call \in Nat /\ f.call < new.call
  BY <1>1, <1>3, <1>4, LastFact
<1>6. d.how = "update" => Tells(name, w.seen, before)
  <2>1. name \in Pending(w)
    <3>1. w.todo \in Seq(Task) /\ w.todo # << >>
      BY <1>1, <1>2 DEF Call
    <3>2. 1 \in DOMAIN w.todo /\ w.todo[1].name = name
      BY <1>2, <3>1
    <3> QED
      BY <1>1, <3>2 DEF Pending
  <2>2. Due(stream, w, name) = before
    BY <2>1 DEF Due
  <2> QED
    BY <1>2, <2>2 DEF FileTidy
<1>7. Concerns(stream, name, new) => after = before \cup {new}
  BY <1>2, <1>3 DEF About
<1>8. stream[w.run][1].case = w.case
  BY <1>1 DEF CallTidy
<1>9. /\ stream[w.run] \in Seq(Event)
      /\ stream[w.run] # << >>
  BY <1>2, <1>3 DEF RunInv, StreamInv, StreamTypeOK, Recalled
<1>10. ASSUME w.op = "start", NEW f \in Fact, Recalled(stream, f), f.run = w.run
       PROVE  f = new
  <2>1. Len(stream[w.run]) = 1
    BY <1>1, <1>10 DEF CallTidy
  <2>2. DOMAIN stream[w.run] = {1}
    BY <1>9, <2>1
  <2>3. f.op = new.op /\ f.call = new.call
    BY <1>3, <1>10, <2>2 DEF Recalled
  <2> QED
    BY <1>3, <1>10, <2>3 DEF Fact
<1>19. /\ name = Timeline(w.run) /\ w.op = "start" => NewContent(t) = <<w.call>>
       /\ name = Timeline(w.run) /\ w.op # "start" => NewContent(t) = Append(w.seen, w.call)
       /\ name = CaseTimeline(w.case) => NewContent(t) = Append(w.seen, w.call)
       /\ name = State(w.run) /\ w.op = "start" => NewContent(t) = "RUN_STARTED"
       /\ name = State(w.run) /\ w.op # "start" => NewContent(t) = "RUN_COMPLETED"
       /\ name \in {CaseState(w.case), LatestRun(w.case)} => NewContent(t) = w.run
       /\ name = Related(w.case) /\ w.op = "start" =>
            NewContent(t) = [w.seen EXCEPT !.listed = w.seen.listed \cup {w.run}]
       /\ name = Related(w.case) /\ w.op # "start" =>
            NewContent(t) =
              [w.seen EXCEPT !.done = w.seen.done \cup ({w.run} \cap w.seen.listed)]
  BY Rewritten
<1>11. ASSUME d = Replace(Timeline(w.run)), w.op = "start"
       PROVE  Tells(name, NewContent(t), after)
  <2>1. name = Timeline(w.run) /\ name[1] = "timeline" /\ name[2] = w.run
    BY <1>2, <1>11 DEF Replace, Timeline
  <2>2. NewContent(t) = <<w.call>>
    BY <1>11, <2>1, <1>19
  <2>3. Concerns(stream, name, new)
    BY <1>3, <1>11, <2>1 DEF Concerns, Recorded, Ops
  <2>4. after = {new}
    <3>1. new \in after
      BY <1>7, <2>3
    <3>2. \A f \in after : f.run = w.run
      BY <1>4, <2>1 DEF Concerns
    <3>3. \A f \in after : f = new
      BY <1>4, <1>10, <1>11, <3>2
    <3> QED
      BY <3>1, <3>3
  <2>5. InOrder(<<w.call>>)
    BY DEF InOrder
  <2>6. {<<w.call>>[i] : i \in DOMAIN <<w.call>>} = {f.call : f \in after}
    BY <1>3, <2>4
  <2>7. Lists(<<w.call>>, after)
    BY <2>5, <2>6 DEF Lists
  <2> QED
    BY <2>1, <2>2, <2>7, TellsTimeline
<1>12. ASSUME d = Update(Timeline(w.run)), w.op \notin {"start", "plain"}
       PROVE  Tells(name, NewContent(t), after)
  <2>1. name = Timeline(w.run) /\ name[1] = "timeline" /\ name[2] = w.run /\ d.how = "update"
    BY <1>2, <1>12 DEF Update, Timeline
  <2>2. NewContent(t) = Append(w.seen, new.call)
    BY <1>3, <1>12, <2>1, <1>19
  <2>3. Concerns(stream, name, new)
    BY <1>2, <1>3, <1>12, <2>1 DEF Concerns, Recorded
  <2>4. w.seen \in Seq(Nat)
    BY <1>2, <2>1 DEF Honest, Contents
  <2>5. Lists(w.seen, before)
    BY <1>6, <2>1, TellsTimeline
  <2>6. after = before \cup {new}
    BY <1>7, <2>3
  <2>7. new.call \in Nat
    BY <1>2, <1>3
  <2>8. Lists(Append(w.seen, new.call), after)
    BY <1>5, <2>4, <2>5, <2>6, <2>7, OneMoreEntry
  <2> QED
    BY <2>1, <2>2, <2>8, TellsTimeline
<1>13. ASSUME d = Update(CaseTimeline(w.case)), w.op \in {"keyInCase", "complete"}
       PROVE  Tells(name, NewContent(t), after)
  <2>1. name = CaseTimeline(w.case) /\ name[1] = "caseTimeline" /\ name[2] = w.case /\ d.how = "update"
    BY <1>2, <1>13 DEF Update, CaseTimeline
  <2>2. NewContent(t) = Append(w.seen, new.call)
    BY <1>3, <2>1, <1>19
  <2>3. Concerns(stream, name, new)
    BY <1>3, <1>8, <1>13, <2>1 DEF Concerns
  <2>4. w.seen \in Seq(Nat)
    BY <1>2, <2>1 DEF Honest, Contents
  <2>5. Lists(w.seen, before)
    BY <1>6, <2>1, TellsTimeline
  <2>6. after = before \cup {new}
    BY <1>7, <2>3
  <2>7. new.call \in Nat
    BY <1>2, <1>3
  <2>8. Lists(Append(w.seen, new.call), after)
    BY <1>5, <2>4, <2>5, <2>6, <2>7, OneMoreEntry
  <2> QED
    BY <2>1, <2>2, <2>8, TellsTimeline
<1>14. ASSUME d = Replace(State(w.run)), w.op = "start"
       PROVE  Tells(name, NewContent(t), after)
  <2>1. name = State(w.run) /\ name[1] = "state" /\ name[2] = w.run
    BY <1>2, <1>14 DEF Replace, State
  <2>2. NewContent(t) = "RUN_STARTED"
    BY <1>14, <2>1, <1>19
  <2>3. \A f \in after : f.run = w.run /\ f.op = "complete"
    BY <1>4, <2>1 DEF Concerns
  <2>4. after = {}
    BY <1>3, <1>4, <1>10, <1>14, <2>3
  <2> QED
    BY <2>1, <2>2, <2>4, TellsState
<1>15. ASSUME d = Update(State(w.run)), w.op = "complete"
       PROVE  Tells(name, NewContent(t), after)
  <2>1. name = State(w.run) /\ name[1] = "state" /\ name[2] = w.run
    BY <1>2, <1>15 DEF Update, State
  <2>2. NewContent(t) = "RUN_COMPLETED"
    BY <1>15, <2>1, <1>19
  <2>3. Concerns(stream, name, new)
    BY <1>3, <1>15, <2>1 DEF Concerns
  <2>4. after # {}
    BY <1>7, <2>3
  <2> QED
    BY <2>1, <2>2, <2>4, TellsState
<1>16. ASSUME d \in {Replace(CaseState(w.case)), Replace(LatestRun(w.case))}, w.op = "complete"
       PROVE  Tells(name, NewContent(t), after)
  <2>1. /\ name \in {CaseState(w.case), LatestRun(w.case)}
        /\ name[1] \in {"caseState", "latestRun"}
        /\ name[2] = w.case
    <3>1. CASE d = Replace(CaseState(w.case))
      <4>1. name = CaseState(w.case)
        BY <1>2, <3>1 DEF Replace
      <4>2. CaseState(w.case)[1] = "caseState" /\ CaseState(w.case)[2] = w.case
        BY DEF CaseState
      <4> QED
        BY <4>1, <4>2
    <3>2. CASE d = Replace(LatestRun(w.case))
      <4>1. name = LatestRun(w.case)
        BY <1>2, <3>2 DEF Replace
      <4>2. LatestRun(w.case)[1] = "latestRun" /\ LatestRun(w.case)[2] = w.case
        BY DEF LatestRun
      <4> QED
        BY <4>1, <4>2
    <3> QED
      BY <1>16, <3>1, <3>2
  <2>2. NewContent(t) = new.run
    BY <1>3, <1>16, <2>1, <1>19
  <2>3. Concerns(stream, name, new)
    BY <1>3, <1>8, <1>16, <2>1 DEF Concerns
  <2>4. new \in after
    BY <1>7, <2>3
  <2>5. \E f \in after : NewContent(t) = f.run /\ \A g \in after : g.call <= f.call
    BY <1>4, <2>2, <2>4
  <2> QED
    BY <2>1, <2>5, TellsLast
<1>17. ASSUME d = Update(Related(w.case)), w.op \in {"start", "complete"}
       PROVE  Tells(name, NewContent(t), after)
  <2>1. name = Related(w.case) /\ name[1] = "relatedRuns" /\ name[2] = w.case /\ d.how = "update"
    BY <1>2, <1>17 DEF Update, Related
  <2>2. Concerns(stream, name, new)
    BY <1>3, <1>8, <1>17, <2>1 DEF Concerns
  <2>3. after = before \cup {new}
    BY <1>7, <2>2
  <2>4. w.seen \in [listed : SUBSET Runs, done : SUBSET Runs]
    BY <1>2, <2>1 DEF Honest, Contents
  <2>5. /\ w.seen.listed = {f.run : f \in {g \in before : g.op = "start"}}
        /\ w.seen.done = {f.run : f \in {g \in before : g.op = "complete"}}
    BY <1>6, <2>1, TellsRelated
  <2>6. CASE w.op = "start"
    <3>1. NewContent(t) = [w.seen EXCEPT !.listed = w.seen.listed \cup {w.run}]
      BY <2>1, <2>6, <1>19
    <3>2. /\ NewContent(t).listed = w.seen.listed \cup {w.run}
          /\ NewContent(t).done = w.seen.done
      BY <2>4, <3>1
    <3>3. {g \in after : g.op = "start"} = {g \in before : g.op = "start"} \cup {new}
      BY <1>3, <2>3, <2>6
    <3>4. {g \in after : g.op = "complete"} = {g \in before : g.op = "complete"}
      BY <1>3, <2>3, <2>6
    <3>5. {f.run : f \in {g \in after : g.op = "start"}} = w.seen.listed \cup {w.run}
      BY <1>3, <2>5, <3>3
    <3>6. /\ NewContent(t).listed = {f.run : f \in {g \in after : g.op = "start"}}
          /\ NewContent(t).done = {f.run : f \in {g \in after : g.op = "complete"}}
      BY <2>5, <3>2, <3>4, <3>5
    <3> QED
      BY <2>1, <3>6, TellsRelated
  <2>7. CASE w.op = "complete"
    <3>1. NewContent(t) =
            [w.seen EXCEPT !.done = w.seen.done \cup ({w.run} \cap w.seen.listed)]
      BY <2>1, <2>7, <1>19
    <3>2. /\ NewContent(t).listed = w.seen.listed
          /\ NewContent(t).done = w.seen.done \cup ({w.run} \cap w.seen.listed)
      BY <2>4, <3>1
    <3>3. w.run \in w.seen.listed
      <4>1. PICK g : g = [run |-> w.run, op |-> "start", call |-> stream[w.run][1].call]
        OBVIOUS
      <4>2. 1 \in DOMAIN stream[w.run] /\ stream[w.run][1] \in Event
        BY <1>9
      <4>3. stream[w.run][1].op = "start"
        BY <1>2, <4>2 DEF RunInv, StreamInv, OneStartPerRun
      <4>4. g \in Fact /\ g.run = w.run /\ g.op = "start"
        BY <1>2, <4>1, <4>2 DEF Fact, Ops, Event
      <4>5. Recalled(stream, g)
        BY <4>1, <4>2, <4>3 DEF Recalled
      <4>6. Concerns(stream, name, g)
        BY <1>8, <2>1, <4>4 DEF Concerns
      <4>7. g \in before
        BY <1>3, <2>7, <4>4, <4>5, <4>6 DEF About
      <4> QED
        BY <2>5, <4>4, <4>7
    <3>4. {g \in after : g.op = "complete"} = {g \in before : g.op = "complete"} \cup {new}
      BY <1>3, <2>3, <2>7
    <3>5. {g \in after : g.op = "start"} = {g \in before : g.op = "start"}
      BY <1>3, <2>3, <2>7
    <3>6. {f.run : f \in {g \in after : g.op = "complete"}} = w.seen.done \cup {w.run}
      BY <1>3, <2>5, <3>4
    <3>7. NewContent(t).done = w.seen.done \cup {w.run}
      BY <3>2, <3>3
    <3>8. /\ NewContent(t).listed = {f.run : f \in {g \in after : g.op = "start"}}
          /\ NewContent(t).done = {f.run : f \in {g \in after : g.op = "complete"}}
      BY <2>5, <3>2, <3>5, <3>6, <3>7
    <3> QED
      BY <2>1, <3>8, TellsRelated
  <2> QED
    BY <1>17, <2>6, <2>7
<1>18. d = Update(CaseTimeline(w.case)) => w.op \in {"keyInCase", "complete"}
  <2>1. CASE w.op = "start"
    BY <1>2, <2>1 DEF Duties, Update, Replace, CaseTimeline, Timeline, State, Related
  <2>2. CASE w.op = "key"
    BY <1>2, <2>2 DEF Duties, Update, CaseTimeline, Timeline
  <2>3. CASE w.op = "plain"
    BY <1>2, <2>3 DEF Duties
  <2> QED
    BY <1>2, <2>1, <2>2, <2>3 DEF Ops
<1>20. /\ w.op # "plain"
       /\ \/ d = Replace(Timeline(w.run)) /\ w.op = "start"
          \/ d = Update(Timeline(w.run)) /\ w.op # "start"
          \/ d = Update(CaseTimeline(w.case)) /\ w.op # "start"
          \/ d = Replace(State(w.run)) /\ w.op = "start"
          \/ d = Update(State(w.run)) /\ w.op = "complete"
          \/ d \in {Replace(CaseState(w.case)), Replace(LatestRun(w.case))}
             /\ w.op = "complete"
          \/ d = Update(Related(w.case)) /\ w.op \in {"start", "complete"}
  BY <1>2, DutyKinds
<1> QED
  BY <1>11, <1>12, <1>13, <1>14, <1>15, <1>16, <1>17, <1>18, <1>20

(* A call that is under way is the only one.                               *)
LEMMA TheOnlyCall ==
  ASSUME TidyInv, disturbances = 0, NEW t \in Threads, thread[t].pc # "idle"
  PROVE  /\ \A u \in Threads \ {t} : thread[u].pc = "idle"
         /\ Tidy(thread[t], stream, dirs, calls, files)
<1>1. PICK u \in Threads :
        /\ \A x \in Threads \ {u} : thread[x].pc = "idle"
        /\ Tidy(thread[u], stream, dirs, calls, files)
  BY DEF TidyInv
<1>2. u = t
  BY <1>1
<1> QED
  BY <1>1, <1>2

LEMMA TheCallGoesOn ==
  ASSUME RunInv, NEW t \in Threads, NEW w,
         thread' = [thread EXCEPT ![t] = w],
         Numbered(stream', calls'),
         disturbances' = 0 =>
           /\ \A u \in Threads \ {t} : thread[u].pc = "idle"
           /\ Tidy(w, stream', dirs', calls', files')
  PROVE  TidyInv'
<1>1. thread'[t] = w /\ \A u \in Threads \ {t} : thread'[u] = thread[u]
  BY DEF RunInv, StreamInv, StreamTypeOK
<1>2. ASSUME disturbances' = 0
      PROVE  /\ \A u \in Threads \ {t} : thread'[u].pc = "idle"
             /\ Tidy(thread'[t], stream', dirs', calls', files')
  BY <1>1, <1>2
<1> QED
  BY <1>2 DEF TidyInv

(* Before its event is in the stream a call has no file to rewrite.        *)
LEMMA NothingPending ==
  ASSUME NEW v, v.pc \notin Told \/ v.todo = << >>, v.pc \notin {"open", "write"},
         NEW w, w.pc \notin Told,
         NEW s, NEW name, NEW file, FileTidy(v, s, name, file)
  PROVE  FileTidy(w, s, name, file)
<1>1. Pending(v) = {} /\ Pending(w) = {}
  BY DEF Pending
<1>2. Due(s, v, name) = Due(s, w, name)
  BY <1>1 DEF Due
<1>3. w.pc # "write" /\ w.pc # "open"
  BY DEF Told
<1> QED
  BY <1>2, <1>3 DEF FileTidy

(* A call that meets no other begins when no thread has one.               *)
LEMMA BeginsAlone ==
  ASSUME RunInv, TidyInv, NEW t \in Threads, NEW op, NEW r, NEW c, NEW pc,
         Begin(t, op, r, c, pc), disturbances' = 0
  PROVE  /\ disturbances = 0
         /\ \A u \in Threads : thread[u].pc = "idle"
         /\ \A q \in dirs : stream[q] # << >>
         /\ \A w : w.pc \notin Told =>
              \A name \in FileNames : FileTidy(w, stream, name, files[name])
<1>1. disturbances \in Nat
  BY DEF RunInv, StreamInv, StreamTypeOK
<1>2. Busy = {} /\ disturbances = 0
  BY <1>1 DEF Begin, Disturb
<1>3. \A u \in Threads : thread[u].pc = "idle"
  BY <1>2 DEF Busy
<1>4. PICK u \in Threads : Tidy(thread[u], stream, dirs, calls, files)
  BY <1>2 DEF TidyInv
<1>5. thread[u].pc = "idle"
  BY <1>3
<1>6. \A q \in dirs : stream[q] # << >>
  BY <1>4, <1>5 DEF Tidy, CallTidy
<1>7. ASSUME NEW w, NEW name \in FileNames, w.pc \notin Told
      PROVE  FileTidy(w, stream, name, files[name])
  <2>1. FileTidy(thread[u], stream, name, files[name])
    BY <1>4 DEF Tidy
  <2>2. thread[u].pc \notin Told /\ thread[u].pc \notin {"open", "write"}
    BY <1>5 DEF Told
  <2> QED
    BY <1>7, <2>1, <2>2, NothingPending
<1> QED
  BY <1>2, <1>3, <1>6, <1>7

LEMMA ScanRunsKeepsTidy ==
  ASSUME RunInv, TidyInv, NEW t \in Threads, NEW c \in Cases, ScanRuns(t, c)
  PROVE  TidyInv'
<1>0. PICK w : w = [IdleThread EXCEPT !.pc = "reserve", !.op = "start",
                                      !.run = NextSequence, !.case = c]
  OBVIOUS
<1>1. /\ Begin(t, "start", NextSequence, c, "reserve")
      /\ thread' = [thread EXCEPT ![t] = w]
      /\ UNCHANGED <<dirs, stream, files, calls>>
  BY <1>0 DEF ScanRuns, Begin
<1>2. w.pc = "reserve"
  BY <1>0 DEF IdleThread
<1>3. Numbered(stream', calls')
  BY <1>1 DEF TidyInv
<1>4. ASSUME disturbances' = 0
      PROVE  /\ \A u \in Threads \ {t} : thread[u].pc = "idle"
             /\ Tidy(w, stream', dirs', calls', files')
  <2>1. /\ \A u \in Threads : thread[u].pc = "idle"
        /\ \A q \in dirs : stream[q] # << >>
        /\ \A name \in FileNames : w.pc \notin Told => FileTidy(w, stream, name, files[name])
    BY <1>1, <1>4, BeginsAlone
  <2>2. w.pc \notin Told /\ w.pc # "append"
    BY <1>2 DEF Told
  <2>3. CallTidy(w, stream, dirs, calls)
    BY <2>1, <2>2 DEF CallTidy
  <2>4. Tidy(w, stream, dirs, calls, files)
    BY <2>1, <2>2, <2>3 DEF Tidy
  <2> QED
    BY <1>1, <2>1, <2>4
<1> QED
  BY <1>1, <1>3, <1>4, TheCallGoesOn

LEMMA SendEventKeepsTidy ==
  ASSUME RunInv, TidyInv, NEW t \in Threads, NEW r \in Runs, NEW op \in Ops \ {"start"},
         SendEvent(t, r, op)
  PROVE  TidyInv'
<1>0. PICK c : c = stream[r][1].case
  OBVIOUS
<1>w. PICK w : w = [IdleThread EXCEPT !.pc = "append", !.op = op, !.run = r, !.case = c]
  OBVIOUS
<1>1. /\ Begin(t, op, r, c, "append")
      /\ thread' = [thread EXCEPT ![t] = w]
      /\ UNCHANGED <<dirs, stream, files, calls>>
  BY <1>0, <1>w DEF SendEvent, Begin
<1>2. /\ w.pc = "append"
      /\ w.run = r
      /\ w.case = c
  BY <1>w DEF IdleThread
<1>3. Numbered(stream', calls')
  BY <1>1 DEF TidyInv
<1>4. ASSUME disturbances' = 0
      PROVE  /\ \A u \in Threads \ {t} : thread[u].pc = "idle"
             /\ Tidy(w, stream', dirs', calls', files')
  <2>1. /\ \A u \in Threads : thread[u].pc = "idle"
        /\ \A q \in dirs : stream[q] # << >>
        /\ \A name \in FileNames : w.pc \notin Told => FileTidy(w, stream, name, files[name])
    BY <1>1, <1>4, BeginsAlone
  <2>2. w.pc \notin Told
    BY <1>2 DEF Told
  <2>3. CallTidy(w, stream, dirs, calls)
    BY <1>0, <1>2, <2>1, <2>2 DEF CallTidy
  <2>4. Tidy(w, stream, dirs, calls, files)
    BY <2>1, <2>2, <2>3 DEF Tidy
  <2> QED
    BY <1>1, <2>1, <2>4
<1> QED
  BY <1>1, <1>3, <1>4, TheCallGoesOn

LEMMA ReserveKeepsTidy ==
  ASSUME RunInv, TidyInv, NEW t \in Threads, Reserve(t)
  PROVE  TidyInv'
<1>0. PICK v : v = thread[t]
  OBVIOUS
<1>1. /\ v.pc = "reserve"
      /\ v \in Call
      /\ CallSound(v)
      /\ UNCHANGED <<stream, files, calls, disturbances>>
  BY <1>0 DEF Reserve, RunInv, StreamInv, StreamTypeOK, CallsSound
<1>2. v.op = "start"
  BY <1>1 DEF CallSound
<1>3. PICK w : /\ thread' = [thread EXCEPT ![t] = w]
               /\ w.op = v.op
               /\ \/ w.pc = "reserve" /\ dirs' = dirs
                  \/ w.pc = "append" /\ w.run = v.run /\ dirs' = dirs \cup {v.run}
  <2>1. CASE v.run \in dirs
    <3>1. PICK w : w = [v EXCEPT !.run = v.run + 1]
      OBVIOUS
    <3>2. thread' = [thread EXCEPT ![t] = w] /\ dirs' = dirs
      BY <1>0, <2>1, <3>1 DEF Reserve
    <3>3. w.op = v.op /\ w.pc = "reserve"
      BY <1>1, <3>1 DEF Call
    <3> QED
      BY <3>2, <3>3
  <2>2. CASE v.run \notin dirs
    <3>1. PICK w : w = [v EXCEPT !.pc = "append"]
      OBVIOUS
    <3>2. thread' = [thread EXCEPT ![t] = w] /\ dirs' = dirs \cup {v.run}
      BY <1>0, <2>2, <3>1 DEF Reserve, Go
    <3>3. w.op = v.op /\ w.pc = "append" /\ w.run = v.run
      BY <1>1, <3>1 DEF Call
    <3> QED
      BY <3>2, <3>3
  <2> QED
    BY <2>1, <2>2
<1>4. Numbered(stream', calls')
  BY <1>1 DEF TidyInv
<1>5. ASSUME disturbances' = 0
      PROVE  /\ \A u \in Threads \ {t} : thread[u].pc = "idle"
             /\ Tidy(w, stream', dirs', calls', files')
  <2>1. /\ \A u \in Threads \ {t} : thread[u].pc = "idle"
        /\ Tidy(v, stream, dirs, calls, files)
    BY <1>0, <1>1, <1>5, TheOnlyCall
  <2>2. /\ v.pc \notin Told
        /\ v.pc \notin {"open", "write"}
        /\ w.pc \notin Told
    BY <1>1, <1>3 DEF Told
  <2>3. \A q \in dirs : stream[q] # << >>
    BY <1>1, <2>1 DEF Tidy, CallTidy
  <2>4. CallTidy(w, stream, dirs', calls)
    BY <1>2, <1>3, <2>2, <2>3 DEF CallTidy
  <2>5. \A name \in FileNames : FileTidy(w, stream, name, files[name])
    BY <2>1, <2>2, NothingPending DEF Tidy
  <2>6. Tidy(w, stream, dirs', calls, files)
    BY <2>4, <2>5 DEF Tidy
  <2> QED
    BY <1>1, <2>1, <2>6
<1> QED
  BY <1>3, <1>4, <1>5, TheCallGoesOn

(* The event comes first, and every file it is about is yet to be          *)
(* rewritten.                                                              *)
LEMMA AppendEventKeepsTidy ==
  ASSUME RunInv, TidyInv, NEW t \in Threads, AppendEvent(t)
  PROVE  TidyInv'
<1>0. PICK v : v = thread[t]
  OBVIOUS
<1>n. PICK new : new = [run |-> v.run, op |-> v.op, call |-> calls + 1]
  OBVIOUS
<1>w. PICK w : w = [v EXCEPT !.pc = "next", !.call = calls + 1,
                             !.todo = Tasks(v.op, v.run, v.case)]
  OBVIOUS
<1>1. /\ v.pc = "append"
      /\ v \in Call
      /\ v.run \in dirs
      /\ v.run \in Runs
      /\ v.op \in Ops
      /\ v.case \in Cases
      /\ v.op = "start" <=> stream[v.run] = << >>
      /\ stream[v.run] \in Seq(Event)
      /\ calls' = calls + 1
      /\ thread' = [thread EXCEPT ![t] = w]
      /\ UNCHANGED <<dirs, files, disturbances>>
  BY <1>0, <1>w DEF AppendEvent, RunInv, StreamInv, StreamTypeOK, CallsSound, CallSound, Call
<1>2. /\ w.pc = "next"
      /\ w.run = v.run
      /\ w.op = v.op
      /\ w.case = v.case
      /\ w.call = calls + 1
      /\ w.todo = Tasks(v.op, v.run, v.case)
  BY <1>w, <1>1 DEF Call
<1>3. Numbered(stream, calls) /\ Numbered(stream', calls')
  BY NumberedStays DEF RunInv, TidyInv
<1>4. /\ stream'[v.run] \in Seq(Event)
      /\ Len(stream'[v.run]) = Len(stream[v.run]) + 1
      /\ stream'[v.run][Len(stream[v.run]) + 1] =
           [call |-> calls + 1, op |-> v.op, case |-> v.case]
      /\ \A i \in DOMAIN stream[v.run] : stream'[v.run][i] = stream[v.run][i]
  BY <1>0, Grown DEF RunInv
<1>5. /\ new \in Fact
      /\ new.run = v.run
      /\ new.op = v.op
      /\ FactOf(w) = new
  <2>1. new \in Fact
    BY <1>0, <1>n, FactsGrow DEF RunInv
  <2> QED
    BY <1>n, <1>2, <2>1 DEF FactOf
<1>6. ASSUME disturbances' = 0
      PROVE  /\ \A u \in Threads \ {t} : thread[u].pc = "idle"
             /\ Tidy(w, stream', dirs', calls', files')
  <2>1. /\ \A u \in Threads \ {t} : thread[u].pc = "idle"
        /\ CallTidy(v, stream, dirs, calls)
        /\ \A name \in FileNames : FileTidy(v, stream, name, files[name])
    BY <1>0, <1>1, <1>6, TheOnlyCall DEF Tidy
  <2>2. stream'[v.run][1].case = v.case
    <3>1. CASE v.op = "start"
      <4>1. Len(stream[v.run]) = 0
        BY <1>1, <3>1
      <4> QED
        BY <1>4, <4>1
    <3>2. CASE v.op # "start"
      <4>1. 1 \in DOMAIN stream[v.run]
        BY <1>1, <3>2
      <4>2. stream[v.run][1].case = v.case
        BY <1>1, <2>1, <3>2 DEF CallTidy
      <4> QED
        BY <1>4, <4>1, <4>2
    <3> QED
      BY <3>1, <3>2
  <2>3. CallTidy(w, stream', dirs, calls')
    <3>1. ASSUME NEW r \in dirs PROVE stream'[r] # << >>
      <4>1. CASE r = v.run
        BY <1>1, <1>4, <4>1
      <4>2. CASE r # v.run
        <5>1. r \in Runs /\ stream[r] # << >>
          BY <1>1, <2>1, <4>2 DEF CallTidy, RunInv, StreamInv, StreamTypeOK
        <5>2. stream'[r] = stream[r]
          BY <1>0, <4>2, <5>1, OthersStay DEF RunInv
        <5> QED
          BY <5>1, <5>2
      <4> QED
        BY <4>1, <4>2
    <3>2. w.op = "start" => Len(stream'[w.run]) = 1
      BY <1>1, <1>2, <1>4
    <3>3. \A i, j \in DOMAIN w.todo : w.todo[i].name = w.todo[j].name => i = j
      BY <1>1, <1>2, TasksDiffer
    <3>4. w.call = calls' /\ stream'[w.run][1].case = w.case
      BY <1>1, <1>2, <2>2
    <3> QED
      BY <1>2, <3>1, <3>2, <3>3, <3>4 DEF CallTidy
  <2>4. ASSUME NEW name \in FileNames PROVE FileTidy(w, stream', name, files[name])
    <3>1. FileTidy(v, stream, name, files[name])
      BY <2>1
    <3>2. Pending(v) = {}
      BY <1>1 DEF Pending, Told
    <3>3. Tells(name, files[name].content, About(stream, name))
      BY <3>1, <3>2 DEF FileTidy, Due
    <3>4. Intact(files[name], Nothing(name))
      BY <1>1, <3>1 DEF FileTidy
    <3>5. About(stream', name) \ {new} = About(stream, name)
      BY <1>0, <1>3, <1>n, AboutGrows DEF RunInv
    <3>6. Due(stream', w, name) = About(stream, name)
      <4>1. CASE name \in Pending(w)
        <5>1. Due(stream', w, name) = About(stream', name) \ {new}
          BY <1>5, <4>1 DEF Due
        <5> QED
          BY <3>5, <5>1
      <4>2. CASE name \notin Pending(w)
        <5>1. \A i \in DOMAIN w.todo : w.todo[i].name # name
          BY <1>2, <4>2 DEF Pending, Told
        <5>2. ~ Concerns(stream', name, new)
          <6>1. /\ v.op \in Ops /\ v.run \in Runs /\ v.case \in Cases
                /\ w.todo = Tasks(v.op, v.run, v.case)
            BY <1>1, <1>2
          <6>2. ~ \E i \in DOMAIN Tasks(v.op, v.run, v.case) :
                    Tasks(v.op, v.run, v.case)[i].name = name
            BY <5>1, <6>1
          <6> QED
            BY <1>5, <2>2, <6>1, <6>2, TasksReach
        <5>3. new \notin About(stream', name)
          BY <5>2 DEF About
        <5>4. Due(stream', w, name) = About(stream', name)
          BY <4>2 DEF Due
        <5> QED
          BY <3>5, <5>3, <5>4
      <4> QED
        BY <4>1, <4>2
    <3> QED
      BY <1>2, <3>3, <3>4, <3>6 DEF FileTidy
  <2>5. Tidy(w, stream', dirs, calls', files)
    BY <2>3, <2>4 DEF Tidy
  <2> QED
    BY <1>1, <2>1, <2>5
<1> QED
  BY <1>1, <1>3, <1>6, TheCallGoesOn

(* Going on to another step of the same rewrite.                           *)
LEMMA SameDues ==
  ASSUME NEW v, v.pc \in Told, NEW w, w.pc \in Told,
         w.run = v.run, w.op = v.op, w.case = v.case, w.call = v.call, w.todo = v.todo
  PROVE  /\ \A s, D, n : CallTidy(v, s, D, n) => CallTidy(w, s, D, n)
         /\ \A s, name : Due(s, w, name) = Due(s, v, name)
<1>1. Pending(w) = Pending(v) /\ FactOf(w) = FactOf(v)
  BY DEF Pending, FactOf
<1>2. v.pc # "append" /\ w.pc # "append"
  BY DEF Told
<1> QED
  BY <1>1, <1>2 DEF CallTidy, Due

LEMMA ReadFileKeepsTidy ==
  ASSUME RunInv, TidyInv, NEW t \in Threads, ReadFile(t)
  PROVE  TidyInv'
<1>0. PICK v : v = thread[t]
  OBVIOUS
<1>n. PICK own : own = Head(v.todo).name
  OBVIOUS
<1>c. PICK content : content = Load(files[own], Nothing(own))
  OBVIOUS
<1>w. PICK w : w = [v EXCEPT !.pc = "open", !.seen = content]
  OBVIOUS
<1>1. /\ v.pc = "next"
      /\ v \in Call
      /\ thread' = [thread EXCEPT ![t] = w]
      /\ UNCHANGED <<dirs, stream, files, calls, disturbances>>
  BY <1>0, <1>n, <1>c, <1>w DEF ReadFile, File1, RunInv, StreamInv, StreamTypeOK
<1>2. /\ w.pc = "open"
      /\ w.run = v.run
      /\ w.op = v.op
      /\ w.case = v.case
      /\ w.call = v.call
      /\ w.todo = v.todo
      /\ w.seen = content
  BY <1>w, <1>1 DEF Call
<1>3. v.pc \in Told /\ w.pc \in Told
  BY <1>1, <1>2 DEF Told
<1>4. Numbered(stream', calls')
  BY <1>1 DEF TidyInv
<1>5. ASSUME disturbances' = 0
      PROVE  /\ \A u \in Threads \ {t} : thread[u].pc = "idle"
             /\ Tidy(w, stream', dirs', calls', files')
  <2>1. /\ \A u \in Threads \ {t} : thread[u].pc = "idle"
        /\ CallTidy(v, stream, dirs, calls)
        /\ \A name \in FileNames : FileTidy(v, stream, name, files[name])
    BY <1>0, <1>1, <1>5, TheOnlyCall DEF Tidy
  <2>2. CallTidy(w, stream, dirs, calls)
    BY <1>2, <1>3, <2>1, SameDues
  <2>3. ASSUME NEW name \in FileNames PROVE FileTidy(w, stream, name, files[name])
    <3>1. Due(stream, w, name) = Due(stream, v, name)
      BY <1>2, <1>3, SameDues
    <3>2. /\ Tells(name, files[name].content, Due(stream, v, name))
          /\ Intact(files[name], Nothing(name))
      BY <1>1, <2>1 DEF FileTidy
    <3>3. name = own => content = files[name].content
      BY <1>c, <3>2 DEF Intact, Load, Readable, NoFile
    <3> QED
      BY <1>n, <1>2, <3>1, <3>2, <3>3 DEF FileTidy
  <2>4. Tidy(w, stream, dirs, calls, files)
    BY <2>2, <2>3 DEF Tidy
  <2> QED
    BY <1>1, <2>1, <2>4
<1> QED
  BY <1>1, <1>4, <1>5, TheCallGoesOn

LEMMA OpenFileKeepsTidy ==
  ASSUME RunInv, TidyInv, NEW t \in Threads, OpenFile(t)
  PROVE  TidyInv'
<1>0. PICK v : v = thread[t]
  OBVIOUS
<1>n. PICK own : own = Head(v.todo).name
  OBVIOUS
<1>w. PICK w : w = [v EXCEPT !.pc = "write"]
  OBVIOUS
<1>1. /\ v.pc \in {"next", "open"}
      /\ v.pc = "next" => Head(v.todo).how = "replace"
      /\ v \in Call
      /\ thread' = [thread EXCEPT ![t] = w]
      /\ files' = [files EXCEPT ![own] = Truncated(files[own])]
      /\ UNCHANGED <<dirs, stream, calls, disturbances>>
  BY <1>0, <1>n, <1>w DEF OpenFile, File1, Go, RunInv, StreamInv, StreamTypeOK
<1>2. /\ w.pc = "write"
      /\ w.run = v.run
      /\ w.op = v.op
      /\ w.case = v.case
      /\ w.call = v.call
      /\ w.todo = v.todo
      /\ w.seen = v.seen
  BY <1>w, <1>1 DEF Call
<1>3. v.pc \in Told /\ w.pc \in Told
  BY <1>1, <1>2 DEF Told
<1>4. Numbered(stream', calls')
  BY <1>1 DEF TidyInv
<1>5. ASSUME NEW name \in FileNames
      PROVE  /\ files'[name].content = files[name].content
             /\ name = own => files'[name].state = "empty"
             /\ name # own => files'[name] = files[name]
  BY <1>1 DEF Truncated, RunInv, FilesInv, FilesHonest, File
<1>6. ASSUME disturbances' = 0
      PROVE  /\ \A u \in Threads \ {t} : thread[u].pc = "idle"
             /\ Tidy(w, stream', dirs', calls', files')
  <2>1. /\ \A u \in Threads \ {t} : thread[u].pc = "idle"
        /\ CallTidy(v, stream, dirs, calls)
        /\ \A name \in FileNames : FileTidy(v, stream, name, files[name])
    BY <1>0, <1>1, <1>6, TheOnlyCall DEF Tidy
  <2>2. CallTidy(w, stream, dirs, calls)
    BY <1>2, <1>3, <2>1, SameDues
  <2>3. ASSUME NEW name \in FileNames PROVE FileTidy(w, stream, name, files'[name])
    <3>1. Due(stream, w, name) = Due(stream, v, name)
      BY <1>2, <1>3, SameDues
    <3>2. /\ Tells(name, files[name].content, Due(stream, v, name))
          /\ Intact(files[name], Nothing(name))
          /\ v.pc = "open" /\ name = own /\ Head(v.todo).how = "update" =>
               v.seen = files[name].content
      BY <1>1, <1>n, <2>1 DEF FileTidy
    <3> QED
      BY <1>n, <1>1, <1>2, <1>5, <3>1, <3>2 DEF FileTidy
  <2>4. Tidy(w, stream, dirs, calls, files')
    BY <2>2, <2>3 DEF Tidy
  <2> QED
    BY <1>1, <2>1, <2>4
<1> QED
  BY <1>1, <1>4, <1>6, TheCallGoesOn

(* A written file tells of the call's event, and no later rewrite of the   *)
(* call is of that file.                                                   *)
LEMMA WriteFileKeepsTidy ==
  ASSUME RunInv, TidyInv, NEW t \in Threads, WriteFile(t)
  PROVE  TidyInv'
<1>0. PICK v : v = thread[t]
  OBVIOUS
<1>n. PICK own : own = File1(t)
  OBVIOUS
<1>w. PICK w : w = [v EXCEPT !.pc = "next", !.seen = << >>, !.todo = Tail(v.todo)]
  OBVIOUS
<1>f. PICK file \in Written(files[own], NewContent(t), Nothing(own)) :
        files' = [files EXCEPT ![own] = file]
  BY <1>n DEF WriteFile
<1>1. /\ v.pc = "write"
      /\ v \in Call
      /\ own = Head(v.todo).name
      /\ thread' = [thread EXCEPT ![t] = w]
      /\ UNCHANGED <<dirs, stream, calls, disturbances>>
  BY <1>0, <1>n, <1>w DEF WriteFile, File1, RunInv, StreamInv, StreamTypeOK
<1>2. v.todo # << >> /\ own \in FileNames /\ v.todo \in Seq(Task)
  BY <1>0, <1>1, <1>n, NewContentIsHonest DEF RunInv, Call
<1>3. /\ w.pc = "next"
      /\ w.run = v.run
      /\ w.op = v.op
      /\ w.case = v.case
      /\ w.call = v.call
      /\ w.todo = Tail(v.todo)
  BY <1>w, <1>1 DEF Call
<1>4. /\ DOMAIN v.todo = 1..Len(v.todo)
      /\ Len(v.todo) \in Nat
      /\ DOMAIN w.todo = 1..(Len(v.todo) - 1)
      /\ \A i \in DOMAIN w.todo : w.todo[i] = v.todo[i + 1]
      /\ 1 \in DOMAIN v.todo
      /\ v.todo[1].name = own
  BY <1>1, <1>2, <1>3
<1>5. v.pc \in Told /\ w.pc \in Told
  BY <1>1, <1>3 DEF Told
<1>6. Numbered(stream, calls) /\ Numbered(stream', calls')
  BY <1>1 DEF TidyInv
<1>7. /\ files'[own] = file
      /\ \A name \in FileNames \ {own} : files'[name] = files[name]
  BY <1>2, <1>f DEF RunInv, FilesInv, FilesHonest
<1>8. ASSUME disturbances' = 0
      PROVE  /\ \A u \in Threads \ {t} : thread[u].pc = "idle"
             /\ Tidy(w, stream', dirs', calls', files')
  <2>1. /\ \A u \in Threads \ {t} : thread[u].pc = "idle"
        /\ CallTidy(v, stream, dirs, calls)
        /\ \A name \in FileNames : FileTidy(v, stream, name, files[name])
    BY <1>0, <1>1, <1>8, TheOnlyCall DEF Tidy
  <2>2. \A i, j \in DOMAIN v.todo : v.todo[i].name = v.todo[j].name => i = j
    BY <1>5, <2>1 DEF CallTidy
  <2>3. CallTidy(w, stream, dirs, calls)
    <3>1. ASSUME NEW i \in DOMAIN w.todo, NEW j \in DOMAIN w.todo,
                 w.todo[i].name = w.todo[j].name
          PROVE  i = j
      <4>1. i + 1 \in DOMAIN v.todo /\ j + 1 \in DOMAIN v.todo
        BY <1>4
      <4>2. v.todo[i + 1].name = v.todo[j + 1].name
        BY <1>4, <3>1
      <4>3. i + 1 = j + 1
        BY <2>2, <4>1, <4>2
      <4> QED
        BY <1>4, <4>3
    <3>2. v.pc # "append" /\ w.pc # "append"
      BY <1>5 DEF Told
    <3>3. \A r \in dirs : stream[r] # << >>
      BY <2>1, <3>2 DEF CallTidy
    <3>4. /\ w.call = calls
          /\ stream[w.run][1].case = w.case
          /\ w.op = "start" => Len(stream[w.run]) = 1
      BY <1>3, <1>5, <2>1 DEF CallTidy
    <3> QED
      BY <3>1, <3>2, <3>3, <3>4 DEF CallTidy
  <2>4. own \notin Pending(w)
    <3>1. ASSUME NEW i \in DOMAIN w.todo, w.todo[i].name = own
          PROVE  FALSE
      <4>1. i + 1 \in DOMAIN v.todo /\ v.todo[i + 1].name = v.todo[1].name
        BY <1>4, <3>1
      <4>2. i + 1 = 1
        BY <1>4, <2>2, <4>1
      <4> QED
        BY <1>4, <4>2
    <3> QED
      BY <3>1 DEF Pending
  <2>5. ASSUME NEW name \in FileNames, name # own
        PROVE  name \in Pending(w) <=> name \in Pending(v)
    <3>1. ASSUME NEW i \in DOMAIN w.todo, w.todo[i].name = name
          PROVE  \E j \in DOMAIN v.todo : v.todo[j].name = name
      <4>1. i + 1 \in DOMAIN v.todo /\ v.todo[i + 1].name = name
        BY <1>4, <3>1
      <4> QED
        BY <4>1
    <3>2. ASSUME NEW j \in DOMAIN v.todo, v.todo[j].name = name
          PROVE  \E i \in DOMAIN w.todo : w.todo[i].name = name
      <4>1. j # 1
        BY <1>4, <2>5, <3>2
      <4>2. /\ j - 1 \in DOMAIN w.todo
            /\ (j - 1) + 1 = j
        BY <1>4, <4>1
      <4>3. w.todo[j - 1] = v.todo[j]
        BY <1>4, <4>2
      <4> QED
        BY <3>2, <4>2, <4>3
    <3> QED
      BY <1>5, <3>1, <3>2 DEF Pending
  <2>6. FileTidy(w, stream, own, files'[own])
    <3>1. FileTidy(v, stream, own, files[own])
      BY <1>2, <2>1
    <3>2. Tells(own, NewContent(t), About(stream, own))
      BY <1>0, <1>1, <1>6, <1>n, <2>1, <3>1, ToldAnew
    <3>3. files[own].state = "empty"
      BY <1>1, <3>1 DEF FileTidy
    <3>4. file = WholeFile(NewContent(t))
      BY <1>f, <3>3 DEF Written
    <3>5. file.state = "whole" /\ file.content = NewContent(t)
      BY <3>4 DEF WholeFile
    <3>6. Due(stream, w, own) = About(stream, own)
      BY <2>4 DEF Due
    <3> QED
      BY <1>3, <1>7, <3>2, <3>5, <3>6 DEF FileTidy, Intact
  <2>7. ASSUME NEW name \in FileNames, name # own
        PROVE  FileTidy(w, stream, name, files'[name])
    <3>1. FileTidy(v, stream, name, files[name]) /\ files'[name] = files[name]
      BY <1>7, <2>1, <2>7
    <3>2. FactOf(w) = FactOf(v)
      BY <1>3 DEF FactOf
    <3>3. Due(stream, w, name) = Due(stream, v, name)
      BY <2>5, <2>7, <3>2 DEF Due
    <3> QED
      BY <1>1, <1>3, <2>7, <3>1, <3>3 DEF FileTidy
  <2>8. Tidy(w, stream, dirs, calls, files')
    BY <2>3, <2>6, <2>7 DEF Tidy
  <2> QED
    BY <1>1, <2>1, <2>8
<1> QED
  BY <1>1, <1>6, <1>8, TheCallGoesOn

LEMMA AnswerKeepsTidy ==
  ASSUME RunInv, TidyInv, NEW t \in Threads, Answer(t)
  PROVE  TidyInv'
<1>0. PICK v : v = thread[t]
  OBVIOUS
<1>1. /\ v.pc = "next"
      /\ v.todo = << >>
      /\ thread' = [thread EXCEPT ![t] = IdleThread]
      /\ UNCHANGED <<dirs, stream, files, calls, disturbances>>
  BY <1>0 DEF Answer
<1>2. IdleThread.pc = "idle"
  BY DEF IdleThread
<1>3. Numbered(stream', calls')
  BY <1>1 DEF TidyInv
<1>4. ASSUME disturbances' = 0
      PROVE  /\ \A u \in Threads \ {t} : thread[u].pc = "idle"
             /\ Tidy(IdleThread, stream', dirs', calls', files')
  <2>1. /\ \A u \in Threads \ {t} : thread[u].pc = "idle"
        /\ CallTidy(v, stream, dirs, calls)
        /\ \A name \in FileNames : FileTidy(v, stream, name, files[name])
    BY <1>0, <1>1, <1>4, TheOnlyCall DEF Tidy
  <2>2. IdleThread.pc \notin Told
    BY <1>2 DEF Told
  <2>3. \A name \in FileNames : FileTidy(IdleThread, stream, name, files[name])
    BY <1>1, <2>1, <2>2, NothingPending
  <2>4. CallTidy(IdleThread, stream, dirs, calls)
    BY <1>1, <1>2, <2>1, <2>2 DEF CallTidy
  <2>5. Tidy(IdleThread, stream, dirs, calls, files)
    BY <2>3, <2>4 DEF Tidy
  <2> QED
    BY <1>1, <2>1, <2>5
<1> QED
  BY <1>1, <1>3, <1>4, TheCallGoesOn

LEMMA RunInitTidy == RunInit => TidyInv
<1> SUFFICES ASSUME RunInit PROVE TidyInv
  OBVIOUS
<1>1. PICK t \in Threads : TRUE
  BY ThreadsAssumption
<1>2. \A u \in Threads : thread[u] = IdleThread
  BY DEF RunInit
<1>3. IdleThread.pc = "idle"
  BY DEF IdleThread
<1>4. \A r \in Runs : stream[r] = << >>
  BY DEF RunInit
<1>5. \A f \in Fact : ~ Recalled(stream, f)
  BY <1>4 DEF Recalled, Fact
<1>6. Numbered(stream, calls)
  BY <1>5 DEF Numbered
<1>7. CallTidy(IdleThread, stream, dirs, calls)
  BY <1>3 DEF CallTidy, RunInit, Told
<1>8. ASSUME NEW name \in FileNames PROVE FileTidy(IdleThread, stream, name, files[name])
  <2>1. files[name] = NoFile(Nothing(name))
    BY DEF RunInit
  <2>2. PICK none : none = Due(stream, IdleThread, name)
    OBVIOUS
  <2>3. none = {}
    BY <1>5, <2>2 DEF Due, About
  <2>4. Tells(name, Nothing(name), none)
    <3>1. CASE name[1] \in {"timeline", "caseTimeline"}
      <4>1. Nothing(name) = << >>
        BY <3>1 DEF Nothing
      <4>2. Lists(<< >>, {})
        BY DEF Lists, InOrder
      <4> QED
        BY <2>3, <3>1, <4>1, <4>2 DEF Tells
    <3>2. CASE name[1] = "state"
      BY <2>3, <3>2 DEF Tells, Nothing
    <3>3. CASE name[1] \in {"caseState", "latestRun"}
      BY <2>3, <3>3 DEF Tells, Nothing
    <3>4. CASE name[1] = "relatedRuns"
      BY <2>3, <3>4 DEF Tells, Nothing, NoRelated
    <3> QED
      BY <3>1, <3>2, <3>3, <3>4 DEF FileNames
  <2>5. files[name].content = Nothing(name)
    BY <2>1 DEF NoFile
  <2> QED
    BY <1>3, <2>1, <2>2, <2>4, <2>5 DEF FileTidy, Intact
<1>9. Tidy(IdleThread, stream, dirs, calls, files)
  BY <1>7, <1>8 DEF Tidy
<1> QED
  BY <1>1, <1>2, <1>3, <1>6, <1>9 DEF TidyInv

LEMMA TidyStep == RunInv /\ TidyInv /\ [RunNext]_runVars => TidyInv'
<1> SUFFICES ASSUME RunInv, TidyInv, [RunNext]_runVars PROVE TidyInv'
  OBVIOUS
<1>1. ASSUME NEW p \in Processes, Restart(p) PROVE TidyInv'
  <2>1. disturbances' # 0
    BY <1>1 DEF Restart, Disturb, RunInv, StreamInv, StreamTypeOK
  <2>2. UNCHANGED <<stream, calls>>
    BY <1>1 DEF Restart
  <2> QED
    BY <2>1, <2>2 DEF TidyInv
<1>2. CASE UNCHANGED runVars
  BY <1>2 DEF runVars, TidyInv
<1> QED
  BY <1>1, <1>2, ScanRunsKeepsTidy, ReserveKeepsTidy, SendEventKeepsTidy, AppendEventKeepsTidy,
     ReadFileKeepsTidy, OpenFileKeepsTidy, WriteFileKeepsTidy, AnswerKeepsTidy DEF RunNext

(* As long as no two calls overlap and none is cut off, every file that a  *)
(* call has no rewrite of pending tells all that it is about.              *)
THEOREM CallsStayTidy == RunSpec => []TidyInv
BY RunInitInv, RunInitTidy, RunStep, TidyStep, PTL DEF RunSpec

(* Every event is a fact, and every fact an event.                         *)
FactAt(r, i) == [run |-> r, op |-> stream[r][i].op, call |-> stream[r][i].call]

LEMMA EventsAreFacts ==
  ASSUME RunInv, NEW r \in Runs, NEW i \in DOMAIN stream[r]
  PROVE  /\ FactAt(r, i) \in Fact
         /\ Recalled(stream, FactAt(r, i))
         /\ FactAt(r, i).run = r
         /\ FactAt(r, i).op = stream[r][i].op
         /\ FactAt(r, i).call = stream[r][i].call
<1>1. stream[r] \in Seq(Event)
  BY DEF RunInv, StreamInv, StreamTypeOK
<1>2. stream[r][i] \in Event
  BY <1>1
<1>3. /\ FactAt(r, i).run = r
      /\ FactAt(r, i).op = stream[r][i].op
      /\ FactAt(r, i).call = stream[r][i].call
  BY DEF FactAt
<1>4. FactAt(r, i) \in Fact
  BY <1>2 DEF Fact, FactAt, Event
<1> QED
  BY <1>3, <1>4 DEF Recalled

LEMMA QuietFilesTell ==
  ASSUME RunInv, TidyInv, Quiet
  PROVE  /\ \A r \in dirs : stream[r] # << >>
         /\ \A name \in FileNames : Tells(name, files[name].content, About(stream, name))
<1>1. PICK t \in Threads : Tidy(thread[t], stream, dirs, calls, files)
  BY DEF TidyInv, Quiet
<1>2. thread[t].pc = "idle"
  BY DEF Quiet, Busy
<1>3. Pending(thread[t]) = {}
  BY <1>2 DEF Pending, Told
<1>4. \A r \in dirs : stream[r] # << >>
  BY <1>1, <1>2 DEF Tidy, CallTidy
<1>5. ASSUME NEW name \in FileNames
      PROVE  Tells(name, files[name].content, About(stream, name))
  <2>1. FileTidy(thread[t], stream, name, files[name])
    BY <1>1 DEF Tidy
  <2>2. Due(stream, thread[t], name) = About(stream, name)
    BY <1>3 DEF Due
  <2> QED
    BY <2>1, <2>2 DEF FileTidy
<1> QED
  BY <1>4, <1>5

LEMMA TidyTimelines ==
  ASSUME RunInv, TidyInv, Quiet
  PROVE  TimelinesComplete
<1>1. \A name \in FileNames : Tells(name, files[name].content, About(stream, name))
  BY QuietFilesTell
<1>2. dirs \subseteq Runs /\ \A r \in Runs : stream[r] # << >> => r \in dirs
  BY DEF RunInv, StreamInv, StreamTypeOK, OnlyInDirs
<1>3. ASSUME NEW r \in dirs
      PROVE  LET events == files[Timeline(r)].content IN
             InOrder(events) /\ {events[i] : i \in DOMAIN events} = EventsOf(r)
  <2>0. PICK name : name = Timeline(r)
    OBVIOUS
  <2>1. /\ name \in FileNames
        /\ name[1] = "timeline"
        /\ name[2] = r
        /\ r \in Runs
    BY <1>2, <2>0 DEF Timeline, FileNames
  <2>2. Lists(files[name].content, About(stream, name))
    BY <1>1, <2>1 DEF Tells
  <2>3. ASSUME NEW x \in {f.call : f \in About(stream, name)} PROVE x \in EventsOf(r)
    <3>1. PICK f \in About(stream, name) : x = f.call
      OBVIOUS
    <3>2. f.run = r /\ f.op \in Recorded
      BY <2>1 DEF About, Concerns
    <3>3. PICK i \in DOMAIN stream[r] : stream[r][i].op = f.op /\ stream[r][i].call = f.call
      BY <3>2 DEF About, Recalled
    <3> QED
      BY <3>1, <3>2, <3>3 DEF EventsOf
  <2>4. ASSUME NEW x \in EventsOf(r) PROVE x \in {f.call : f \in About(stream, name)}
    <3>1. PICK i \in DOMAIN stream[r] : stream[r][i].op \in Recorded /\ x = stream[r][i].call
      BY DEF EventsOf
    <3>2. FactAt(r, i) \in About(stream, name) /\ FactAt(r, i).call = x
      BY <2>1, <3>1, EventsAreFacts DEF About, Concerns
    <3> QED
      BY <3>2
  <2>5. {f.call : f \in About(stream, name)} = EventsOf(r)
    BY <2>3, <2>4, Zenon
  <2> QED
    BY <2>0, <2>2, <2>5 DEF Lists
<1>4. ASSUME NEW c \in Cases
      PROVE  LET events == files[CaseTimeline(c)].content IN
             /\ InOrder(events)
             /\ {events[i] : i \in DOMAIN events} =
                  UNION {{stream[r][i].call : i \in {j \in DOMAIN stream[r] :
                            stream[r][j].op \in {"keyInCase", "complete"}}} :
                         r \in {q \in dirs : stream[q][1].case = c}}
  <2>0. PICK name : name = CaseTimeline(c)
    OBVIOUS
  <2>1. /\ name \in FileNames
        /\ name[1] = "caseTimeline"
        /\ name[2] = c
    BY <2>0 DEF CaseTimeline, FileNames
  <2>2. Lists(files[name].content, About(stream, name))
    BY <1>1, <2>1 DEF Tells
  <2> DEFINE InRun(r) == {stream[r][i].call : i \in {j \in DOMAIN stream[r] :
                            stream[r][j].op \in {"keyInCase", "complete"}}}
             all == UNION {InRun(r) : r \in {q \in dirs : stream[q][1].case = c}}
  <2>3. ASSUME NEW x \in {f.call : f \in About(stream, name)} PROVE x \in all
    <3>1. PICK f \in About(stream, name) : x = f.call
      OBVIOUS
    <3>2. /\ f.run \in Runs
          /\ stream[f.run][1].case = c
          /\ f.op \in {"keyInCase", "complete"}
      BY <2>1 DEF About, Concerns, Fact
    <3>3. PICK i \in DOMAIN stream[f.run] :
            stream[f.run][i].op = f.op /\ stream[f.run][i].call = f.call
      BY DEF About, Recalled
    <3>4. f.run \in dirs
      BY <1>2, <3>2, <3>3
    <3>5. x \in InRun(f.run)
      BY <3>1, <3>2, <3>3
    <3> HIDE DEF InRun
    <3> QED
      BY <3>2, <3>4, <3>5
  <2>4. ASSUME NEW x \in all PROVE x \in {f.call : f \in About(stream, name)}
    <3>1. PICK r \in dirs : stream[r][1].case = c /\ x \in InRun(r)
      OBVIOUS
    <3>2. PICK i \in DOMAIN stream[r] :
            stream[r][i].op \in {"keyInCase", "complete"} /\ x = stream[r][i].call
      BY <3>1
    <3>3. /\ FactAt(r, i) \in About(stream, name)
          /\ FactAt(r, i).call = x
      BY <1>2, <2>1, <3>1, <3>2, EventsAreFacts DEF About, Concerns
    <3> QED
      BY <3>3
  <2> HIDE DEF all
  <2>5. {f.call : f \in About(stream, name)} = all
    BY <2>3, <2>4, Zenon
  <2> QED
    BY <2>0, <2>2, <2>5 DEF Lists, all
<1> QED
  BY <1>3, <1>4 DEF TimelinesComplete

LEMMA TidyCaseViews ==
  ASSUME RunInv, TidyInv, Quiet
  PROVE  CaseViewsAgree
<1>1. /\ \A r \in dirs : stream[r] # << >>
      /\ \A name \in FileNames : Tells(name, files[name].content, About(stream, name))
  BY QuietFilesTell
<1>2. dirs \subseteq Runs /\ \A r \in Runs : stream[r] # << >> => r \in dirs
  BY DEF RunInv, StreamInv, StreamTypeOK, OnlyInDirs
<1> DEFINE RunsOf(c) == {r \in dirs : stream[r][1].case = c}
           DoneOf(c) == {r \in RunsOf(c) : HasEvent(r, "complete")}
           LastOf(c) == {r \in DoneOf(c) : \E i \in DOMAIN stream[r] :
              /\ stream[r][i].op = "complete"
              /\ \A q \in DoneOf(c) : \A j \in DOMAIN stream[q] :
                   stream[q][j].op = "complete" => stream[q][j].call <= stream[r][i].call}
<1> SUFFICES ASSUME NEW c \in Cases
             PROVE  /\ files[Related(c)].content = [listed |-> RunsOf(c), done |-> DoneOf(c)]
                    /\ \A r \in RunsOf(c) :
                         files[State(r)].content = "RUN_COMPLETED" <=> r \in DoneOf(c)
                    /\ DoneOf(c) # {} =>
                         {files[CaseState(c)].content, files[LatestRun(c)].content} = LastOf(c)
  BY DEF CaseViewsAgree
<1>r. PICK runs : runs = RunsOf(c)
  OBVIOUS
<1>d. PICK done : done = DoneOf(c)
  OBVIOUS
<1>l. PICK last : last = LastOf(c)
  OBVIOUS
<1>m. /\ runs = {r \in dirs : stream[r][1].case = c}
      /\ done = {r \in runs : HasEvent(r, "complete")}
      /\ last = {r \in done : \E i \in DOMAIN stream[r] :
            /\ stream[r][i].op = "complete"
            /\ \A q \in done : \A j \in DOMAIN stream[q] :
                 stream[q][j].op = "complete" => stream[q][j].call <= stream[r][i].call}
  BY <1>r, <1>d, <1>l
<1>3. files[Related(c)].content = [listed |-> runs, done |-> done]
  <2>0. PICK name : name = Related(c)
    OBVIOUS
  <2>1. /\ name \in FileNames
        /\ name[1] = "relatedRuns"
        /\ name[2] = c
    BY <2>0 DEF Related, FileNames
  <2>2. PICK facts : facts = About(stream, name)
    OBVIOUS
  <2>3. PICK x : x = files[name].content
    OBVIOUS
  <2>4. /\ x.listed = {f.run : f \in {g \in facts : g.op = "start"}}
        /\ x.done = {f.run : f \in {g \in facts : g.op = "complete"}}
    BY <1>1, <2>1, <2>2, <2>3 DEF Tells
  <2>5. x \in [listed : SUBSET Runs, done : SUBSET Runs]
    BY <2>1, <2>3 DEF RunInv, FilesInv, FilesHonest, File, Contents
  <2>6. ASSUME NEW f \in facts
        PROVE  /\ f.run \in runs
               /\ f.op = "complete" => f.run \in done
    <3>1. /\ f.run \in Runs
          /\ stream[f.run][1].case = c
          /\ \E i \in DOMAIN stream[f.run] : stream[f.run][i].op = f.op
      BY <2>1, <2>2 DEF About, Concerns, Fact, Recalled
    <3>2. f.run \in dirs
      BY <1>2, <3>1
    <3> QED
      BY <1>m, <3>1, <3>2 DEF HasEvent
  <2>7. ASSUME NEW r \in runs PROVE \E f \in facts : f.run = r /\ f.op = "start"
    <3>1. r \in Runs /\ stream[r] # << >> /\ stream[r] \in Seq(Event) /\ stream[r][1].case = c
      BY <1>m, <1>1, <1>2 DEF RunInv, StreamInv, StreamTypeOK
    <3>2. 1 \in DOMAIN stream[r]
      BY <3>1
    <3>3. stream[r][1].op = "start"
      BY <3>1, <3>2 DEF RunInv, StreamInv, OneStartPerRun
    <3>4. FactAt(r, 1) \in facts
      BY <2>1, <2>2, <3>1, <3>2, <3>3, EventsAreFacts DEF About, Concerns
    <3> QED
      BY <3>1, <3>2, <3>3, <3>4, EventsAreFacts
  <2>8. ASSUME NEW r \in done PROVE \E f \in facts : f.run = r /\ f.op = "complete"
    <3>1. r \in Runs /\ stream[r][1].case = c
      BY <1>m, <1>2
    <3>2. PICK i \in DOMAIN stream[r] : stream[r][i].op = "complete"
      BY <1>m DEF HasEvent
    <3>3. FactAt(r, i) \in facts
      BY <2>1, <2>2, <3>1, <3>2, EventsAreFacts DEF About, Concerns
    <3> QED
      BY <3>1, <3>2, <3>3, EventsAreFacts
  <2>9. x.listed = runs
    BY <2>4, <2>6, <2>7
  <2>10. x.done = done
    BY <2>4, <2>6, <2>8
  <2> QED
    BY <2>0, <2>3, <2>5, <2>9, <2>10
<1>4. ASSUME NEW r \in runs PROVE files[State(r)].content = "RUN_COMPLETED" <=> r \in done
  <2>0. PICK name : name = State(r)
    OBVIOUS
  <2>1. /\ name \in FileNames
        /\ name[1] = "state"
        /\ name[2] = r
        /\ r \in Runs
    BY <1>m, <1>2, <2>0 DEF State, FileNames
  <2>2. files[name].content = "RUN_COMPLETED" <=> About(stream, name) # {}
    BY <1>1, <2>1 DEF Tells
  <2>3. ASSUME NEW f \in About(stream, name) PROVE HasEvent(r, "complete")
    BY <2>1 DEF About, Concerns, Recalled, HasEvent
  <2>4. ASSUME HasEvent(r, "complete") PROVE About(stream, name) # {}
    <3>1. PICK i \in DOMAIN stream[r] : stream[r][i].op = "complete"
      BY <2>4 DEF HasEvent
    <3>2. FactAt(r, i) \in About(stream, name)
      BY <2>1, <3>1, EventsAreFacts DEF About, Concerns
    <3> QED
      BY <3>2
  <2> QED
    BY <1>m, <2>0, <2>2, <2>3, <2>4
<1>5. ASSUME done # {}, NEW name \in {CaseState(c), LatestRun(c)}
      PROVE  last = {files[name].content}
  <2>1. /\ name \in FileNames
        /\ name[1] \in {"caseState", "latestRun"}
        /\ name[2] = c
    BY DEF CaseState, LatestRun, FileNames
  <2>2. PICK facts : facts = About(stream, name)
    OBVIOUS
  <2>3. PICK x : x = files[name].content
    OBVIOUS
  <2>4. ASSUME NEW r \in done, NEW i \in DOMAIN stream[r], stream[r][i].op = "complete"
        PROVE  /\ FactAt(r, i) \in facts
               /\ FactAt(r, i).call = stream[r][i].call
               /\ FactAt(r, i).run = r
    <3>1. r \in Runs /\ stream[r][1].case = c
      BY <1>m, <1>2
    <3> QED
      BY <2>1, <2>2, <2>4, <3>1, EventsAreFacts DEF About, Concerns
  <2>5. facts # {}
    <3>1. PICK r \in done : TRUE
      BY <1>5
    <3>2. PICK i \in DOMAIN stream[r] : stream[r][i].op = "complete"
      BY <1>m DEF HasEvent
    <3> QED
      BY <2>4, <3>2
  <2>6. PICK f \in facts : x = f.run /\ \A g \in facts : g.call <= f.call
    BY <1>1, <2>1, <2>2, <2>3, <2>5 DEF Tells
  <2>7. ASSUME NEW g \in facts
        PROVE  /\ g.run \in done
               /\ g.op = "complete"
               /\ g.call \in Nat
               /\ \E i \in DOMAIN stream[g.run] :
                    stream[g.run][i].op = "complete" /\ stream[g.run][i].call = g.call
    <3>1. /\ g.run \in Runs
          /\ g.call \in Nat
          /\ stream[g.run][1].case = c
          /\ g.op = "complete"
      BY <2>1, <2>2 DEF About, Concerns, Fact
    <3>2. PICK i \in DOMAIN stream[g.run] :
            stream[g.run][i].op = "complete" /\ stream[g.run][i].call = g.call
      BY <2>2, <3>1 DEF About, Recalled
    <3>3. g.run \in dirs
      BY <1>2, <3>1, <3>2
    <3>4. HasEvent(g.run, "complete")
      BY <3>2 DEF HasEvent
    <3> QED
      BY <1>m, <3>1, <3>2, <3>3, <3>4
  <2>8. x \in last
    <3>1. PICK i \in DOMAIN stream[x] :
            stream[x][i].op = "complete" /\ stream[x][i].call = f.call
      BY <2>6, <2>7
    <3>2. ASSUME NEW q \in done, NEW j \in DOMAIN stream[q], stream[q][j].op = "complete"
          PROVE  stream[q][j].call <= stream[x][i].call
      BY <2>4, <2>6, <3>1, <3>2
    <3>3. x \in done
      BY <2>6, <2>7
    <3> QED
      BY <1>m, <3>1, <3>2, <3>3
  <2>9. ASSUME NEW r \in last PROVE r = x
    <3>1. PICK i \in DOMAIN stream[r] :
            /\ stream[r][i].op = "complete"
            /\ \A q \in done : \A j \in DOMAIN stream[q] :
                 stream[q][j].op = "complete" => stream[q][j].call <= stream[r][i].call
      BY <1>m
    <3>2. r \in done
      BY <1>m
    <3>3. PICK g : g = FactAt(r, i)
      OBVIOUS
    <3>4. /\ g \in facts
          /\ g.call = stream[r][i].call
          /\ g.run = r
      BY <2>4, <3>1, <3>2, <3>3
    <3>5. f.call <= g.call
      BY <2>7, <3>1, <3>4
    <3>6. g.call <= f.call
      BY <2>6, <3>4
    <3>7. f.call = g.call
      <4>1. f.call \in Nat /\ g.call \in Nat
        BY <2>7, <3>4
      <4> QED
        BY <3>5, <3>6, <4>1
    <3>8. f = g
      <4>1. /\ f \in Fact
            /\ g \in Fact
            /\ Recalled(stream, f)
            /\ Recalled(stream, g)
        BY <2>2, <3>4 DEF About
      <4> QED
        BY <3>7, <4>1 DEF TidyInv, Numbered
    <3> QED
      BY <2>6, <3>4, <3>8
  <2> QED
    BY <2>3, <2>8, <2>9
<1>6. ASSUME done # {}
      PROVE  {files[CaseState(c)].content, files[LatestRun(c)].content} = last
  <2>1. last = {files[CaseState(c)].content}
    BY <1>5, <1>6
  <2>2. last = {files[LatestRun(c)].content}
    BY <1>5, <1>6
  <2> QED
    BY <2>1, <2>2
<1> QED
  BY <1>r, <1>d, <1>l, <1>3, <1>4, <1>6

(* As long as no two calls overlap and none is cut off, everything that    *)
(* is derived from the event streams tells all that they do once the       *)
(* calls are answered: the timelines list every event once and in order,   *)
(* and the four views of a case agree on its runs, the completed ones and  *)
(* the latest.                                                             *)
THEOREM DerivedFilesTellAll == RunSpec => []DerivedFilesComplete
<1>1. RunInv /\ TidyInv => DerivedFilesComplete
  BY TidyTimelines, TidyCaseViews DEF DerivedFilesComplete
<1> QED
  BY <1>1, RunInvariant, CallsStayTidy, PTL

=============================================================================
