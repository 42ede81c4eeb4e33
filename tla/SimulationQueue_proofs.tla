----------------------- MODULE SimulationQueue_proofs -----------------------
(***************************************************************************)
(* Proofs about SimulationQueue: for any number of threads, cases and      *)
(* bounds.                                                                 *)
(***************************************************************************)
EXTENDS SimulationQueue, FiniteSetTheorems, TLAPS

(* The places where a handler holds on to a case it found.                 *)
HoldsCase == {"claim", "check", "adopt", "finish", "press"}
Arguments == Outcomes \cup Buttons \cup {NoAction}

----------------------------------------------------------------------------
(* What the handlers of the helpers do to the acting thread.               *)

LEMMA IdleIsHandler == Idle \in Handler
  BY SimulationBounds DEF Idle, Handler, Objects, NoAction

LEMMA HoldEffect ==
  ASSUME SimTypeOK, NEW t \in Threads, NEW pc \in HoldsCase, NEW o \in Objects,
         NEW n \in Objects, NEW a \in Arguments, Hold(t, pc, o, n, a)
  PROVE  /\ thread' \in [Threads -> Handler]
         /\ \A u \in Threads : u # t => thread'[u] = thread[u]
         /\ thread'[t].pc = pc /\ thread'[t].case = o /\ thread'[t].arg = a
         /\ thread'[t].gen = generation
<1> DEFINE h == [Idle EXCEPT !.pc = pc, !.case = o, !.named = n, !.gen = generation, !.arg = a]
<1>1. h \in Handler
  BY IdleIsHandler DEF SimTypeOK, Handler, HoldsCase, Arguments
<1>2. h.pc = pc /\ h.case = o /\ h.arg = a /\ h.gen = generation
  BY IdleIsHandler DEF Handler
<1>3. thread' = [thread EXCEPT ![t] = h]
  BY DEF Hold
<1> HIDE DEF h
<1> QED
  BY <1>1, <1>2, <1>3 DEF SimTypeOK

LEMMA ReturnEffect ==
  ASSUME SimTypeOK, NEW t \in Threads, Return(t)
  PROVE  /\ thread' \in [Threads -> Handler]
         /\ \A u \in Threads : u # t => thread'[u] = thread[u]
         /\ thread'[t] = Idle
BY IdleIsHandler DEF SimTypeOK, Return

LEMMA QueuedAreMade ==
  ASSUME SimTypeOK
  PROVE  /\ Queued \subseteq 1..made /\ 1..made \subseteq Objects
         /\ made \in Nat /\ Len(queue) \in Nat /\ MaxCases \in Nat
         /\ DOMAIN queue = 1..Len(queue)
         /\ \A k \in DOMAIN queue : queue[k] \in 1..made
BY SimulationBounds DEF SimTypeOK, Queued, Objects

----------------------------------------------------------------------------
(* Type correctness needs to know what a waiting handler holds.            *)

(* A handler holds a case that exists, one of the current list unless a    *)
(* reset came in between; what it will write fits; the case it will close  *)
(* is not pending; an append has something left to append, under an id     *)
(* that does not run ahead and is not 0.                                   *)
HandlerSound(t) ==
  LET h == thread[t] IN
  /\ h.gen <= generation
  /\ h.pc \in HoldsCase => h.case <= made
  /\ h.pc \in HoldsCase /\ h.gen # generation => h.case \notin Queued
  /\ h.pc \in {"check", "adopt", "finish"} => h.arg \in Outcomes
  /\ h.pc = "press" => h.arg \in Buttons
  /\ h.pc = "finish" => ~IsPending(h.case)
  /\ h.pc \in {"measure", "append"} => h.left >= 1
  /\ h.pc = "append" => h.number >= 1
  /\ h.pc = "append" /\ h.gen = generation => h.number <= Len(queue) + 1

(* The case at a position carries a number up to that position, and was    *)
(* made no earlier than those before it.                                   *)
IdsAtPositions ==
  \A k \in DOMAIN queue : k <= queue[k] /\ cases[queue[k]].sim \in 1..k

SimIInv ==
  /\ SimTypeOK
  /\ \A t \in Threads : HandlerSound(t)
  /\ IdsAtPositions

LEMMA SimInitSound == SimInit => SimIInv
<1> SUFFICES ASSUME SimInit PROVE SimIInv
  OBVIOUS
<1>1. FreshCase(0, 0) \in Case
  BY DEF FreshCase, Case, Statuses
<1>2. SimTypeOK
  BY <1>1, IdleIsHandler, SimulationBounds DEF SimInit, SimTypeOK
<1>3. \A t \in Threads : HandlerSound(t)
  BY DEF SimInit, HandlerSound, Idle, HoldsCase
<1> QED
  BY <1>2, <1>3 DEF SimIInv, SimInit, IdsAtPositions

(* What every step leaves intact for the handlers that do not act.         *)
Frame ==
  /\ made' >= made
  /\ \/ /\ generation' = generation
        /\ \A o \in Queued' : o \in Queued \/ o > made
        /\ Len(queue') >= Len(queue)
     \/ /\ generation' = generation + 1
        /\ \A o \in Queued' : o > made
  /\ \A o \in 1..made : ~IsPending(o) => ~IsPending(o)'

LEMMA FrameKeepsSound ==
  ASSUME SimIInv, SimTypeOK', Frame, NEW u \in Threads, thread'[u] = thread[u]
  PROVE  HandlerSound(u)'
<1>1. thread[u] \in Handler /\ generation \in Nat /\ made \in Nat /\ made' \in Nat
      /\ Len(queue) \in Nat /\ Len(queue') \in Nat
  BY SimulationBounds, QueuedAreMade DEF SimIInv, SimTypeOK
<1>2. HandlerSound(u)
  BY DEF SimIInv
<1>3. thread[u].case \in Objects /\ thread[u].gen \in Nat /\ thread[u].number \in Nat
  BY <1>1 DEF Handler
<1>4. thread[u].case \in Nat /\ thread[u].case >= 1
  BY <1>3, SimulationBounds DEF Objects
<1> QED
  BY SMTT(30), <1>1, <1>2, <1>3, <1>4 DEF HandlerSound, Frame, IsPending, HoldsCase

LEMMA IdleIsSound ==
  ASSUME SimTypeOK', NEW t \in Threads, thread'[t] = Idle
  PROVE  HandlerSound(t)'
BY DEF HandlerSound, Idle, HoldsCase, SimTypeOK

LEMMA StepIsSound ==
  ASSUME SimIInv, SimTypeOK', Frame, IdsAtPositions', NEW t \in Threads, HandlerSound(t)',
         \A u \in Threads : u # t => thread'[u] = thread[u]
  PROVE  SimIInv'
BY FrameKeepsSound DEF SimIInv

(* A step that only moves a handler on.                                    *)
LEMMA MoveKeepsSound ==
  ASSUME SimIInv, NEW t \in Threads, UNCHANGED <<cases, made, queue, generation>>,
         thread' \in [Threads -> Handler], HandlerSound(t)',
         \A u \in Threads : u # t => thread'[u] = thread[u]
  PROVE  SimIInv'
<1>1. SimTypeOK'
  BY DEF SimIInv, SimTypeOK
<1>2. Frame
  BY QueuedAreMade DEF SimIInv, SimTypeOK, Frame, Queued, IsPending
<1>3. IdsAtPositions'
  BY DEF SimIInv, IdsAtPositions
<1> QED
  BY <1>1, <1>2, <1>3, StepIsSound

LEMMA ReturnKeepsSound ==
  ASSUME SimIInv, NEW t \in Threads, Return(t), UNCHANGED <<cases, made, queue, generation>>
  PROVE  SimIInv'
<1>1. /\ thread' \in [Threads -> Handler] /\ thread'[t] = Idle
      /\ \A u \in Threads : u # t => thread'[u] = thread[u]
  BY ReturnEffect DEF SimIInv
<1>2. SimTypeOK'
  BY <1>1 DEF SimIInv, SimTypeOK
<1>3. HandlerSound(t)'
  BY <1>1, <1>2, IdleIsSound
<1> QED
  BY <1>1, <1>3, MoveKeepsSound

(* A step in which a handler takes hold of a queued case.                  *)
LEMMA HoldKeepsSound ==
  ASSUME SimIInv, NEW t \in Threads, NEW pc \in {"claim", "check", "press"}, NEW o \in Queued,
         NEW n \in Objects, NEW a \in Arguments, Hold(t, pc, o, n, a),
         pc = "check" => a \in Outcomes, pc = "press" => a \in Buttons,
         UNCHANGED <<cases, made, queue, generation>>
  PROVE  SimIInv'
<1>1. o \in Objects /\ o <= made /\ pc \in HoldsCase
  BY QueuedAreMade DEF SimIInv, HoldsCase
<1>2. /\ thread' \in [Threads -> Handler]
      /\ \A u \in Threads : u # t => thread'[u] = thread[u]
      /\ thread'[t].pc = pc /\ thread'[t].case = o /\ thread'[t].arg = a
      /\ thread'[t].gen = generation
  BY <1>1, HoldEffect DEF SimIInv
<1>3. HandlerSound(t)'
  BY <1>1, <1>2 DEF HandlerSound, SimIInv, SimTypeOK
<1> QED
  BY <1>2, <1>3, MoveKeepsSound

(* A step in which a handler writes the case it holds.                     *)
LEMMA WriteKeepsSound ==
  ASSUME SimIInv, NEW t \in Threads, NEW o \in Objects, o <= made, NEW c \in Case,
         c.sim = cases[o].sim, IsPending(o) \/ c.status # "pending",
         cases' = [cases EXCEPT ![o] = c],
         UNCHANGED <<made, queue, generation>>,
         thread' \in [Threads -> Handler], HandlerSound(t)',
         \A u \in Threads : u # t => thread'[u] = thread[u]
  PROVE  SimIInv'
<1>1. SimTypeOK'
  BY DEF SimIInv, SimTypeOK
<1>2. \A p \in Objects : ~IsPending(p) => ~IsPending(p)'
  BY DEF SimIInv, SimTypeOK, IsPending
<1>3. Frame
  BY <1>2, QueuedAreMade DEF SimIInv, SimTypeOK, Frame, Queued
<1>4. \A p \in Objects : cases'[p].sim = cases[p].sim
  BY DEF SimIInv, SimTypeOK
<1>5. IdsAtPositions'
  BY <1>4, QueuedAreMade DEF SimIInv, IdsAtPositions
<1> QED
  BY <1>1, <1>3, <1>5, StepIsSound

(* The same, when the write is the last thing the handler does.            *)
LEMMA LastWriteKeepsSound ==
  ASSUME SimIInv, NEW t \in Threads, NEW o \in Objects, o <= made, NEW c \in Case,
         c.sim = cases[o].sim, IsPending(o) \/ c.status # "pending",
         cases' = [cases EXCEPT ![o] = c],
         UNCHANGED <<made, queue, generation>>, Return(t)
  PROVE  SimIInv'
<1>1. /\ thread' \in [Threads -> Handler] /\ thread'[t] = Idle
      /\ \A u \in Threads : u # t => thread'[u] = thread[u]
  BY ReturnEffect DEF SimIInv
<1>2. SimTypeOK'
  BY <1>1 DEF SimIInv, SimTypeOK
<1>3. HandlerSound(t)'
  BY <1>1, <1>2, IdleIsSound
<1> QED
  BY <1>1, <1>3, WriteKeepsSound

----------------------------------------------------------------------------
(* One lemma per group of actions.                                         *)

LEMMA ResetSound ==
  ASSUME SimIInv, NEW t \in Threads, Reset(t)
  PROVE  SimIInv'
<1>1. /\ made' = made + DefaultCases /\ made \in Nat /\ made' \in 0..MaxCases
      /\ DefaultCases \in Nat /\ generation \in Nat /\ generation' = generation + 1
      /\ thread' = thread
  BY QueuedAreMade, SimulationBounds DEF Reset, SimIInv, SimTypeOK
<1>2. /\ queue' \in Seq(1..made') /\ Len(queue') = DefaultCases
      /\ \A k \in 1..DefaultCases : queue'[k] = made + k
  BY <1>1 DEF Reset
<1>3. \A s \in 1..DefaultCases : FreshCase(s, s) \in Case
  BY DEF FreshCase, Case, Statuses
<1>4. \A o \in Objects : o > made /\ o <= made' => o - made \in 1..DefaultCases
  BY <1>1 DEF Objects
<1>5. cases' \in [Objects -> Case]
  BY <1>1, <1>3, <1>4 DEF Reset, SimIInv, SimTypeOK, Objects
<1>6. SimTypeOK'
  BY <1>1, <1>2, <1>5 DEF SimIInv, SimTypeOK
<1>7. \A o \in 1..made : cases'[o] = cases[o]
  BY <1>1, QueuedAreMade DEF Reset, SimIInv
<1>8. \A o \in Queued' : o > made
  BY <1>1, <1>2 DEF Queued
<1>9. Frame
  BY <1>1, <1>7, <1>8 DEF Frame, IsPending
<1>10. \A k \in 1..DefaultCases : cases'[made + k].sim = k
  BY <1>1, SimulationBounds DEF Reset, FreshCase, Objects
<1>11. IdsAtPositions'
  <2>1. DOMAIN queue' = 1..DefaultCases
    BY <1>2
  <2> QED
    BY <1>1, <1>2, <1>10, <2>1 DEF IdsAtPositions
<1>12. HandlerSound(t)'
  BY <1>1, <1>6, <1>9, FrameKeepsSound
<1> QED
  BY <1>1, <1>6, <1>9, <1>11, <1>12, StepIsSound

LEMMA TakeListSound ==
  ASSUME SimIInv, NEW t \in Threads, Enqueue(t) \/ Inject(t)
  PROVE  SimIInv'
<1>1. PICK n \in 1..MaxInject, po \in Nat : TakeList(t, n, po)
  BY SimulationBounds DEF Enqueue, Inject
<1>g. PICK g \in Nat : g = generation
  BY DEF SimIInv, SimTypeOK
<1>h. PICK h : h = [Idle EXCEPT !.pc = "measure", !.gen = g, !.left = n, !.po = po]
  OBVIOUS
<1>2. h \in Handler /\ h.pc = "measure" /\ h.gen = generation /\ h.left = n
  <2>1. n \in 0..MaxInject
    BY SimulationBounds
  <2> QED
    BY <1>g, <1>h, <2>1, IdleIsHandler DEF Handler
<1>3. thread' = [thread EXCEPT ![t] = h] /\ UNCHANGED <<cases, made, queue, generation>>
  BY <1>1, <1>g, <1>h DEF TakeList
<1>4. /\ thread' \in [Threads -> Handler] /\ thread'[t] = h
      /\ \A u \in Threads : u # t => thread'[u] = thread[u]
  BY <1>2, <1>3 DEF SimIInv, SimTypeOK
<1>5. HandlerSound(t)'
  BY <1>2, <1>3, <1>4 DEF HandlerSound, SimIInv, SimTypeOK, HoldsCase
<1> QED
  BY <1>3, <1>4, <1>5, MoveKeepsSound

LEMMA MeasureListSound ==
  ASSUME SimIInv, NEW t \in Threads, MeasureList(t)
  PROVE  SimIInv'
<1>x. PICK x \in Handler, n \in Nat : x = thread[t] /\ n = Len(queue) + 1
  BY QueuedAreMade DEF SimIInv, SimTypeOK
<1>h. PICK h : h = [x EXCEPT !.pc = "append", !.number = n]
  OBVIOUS
<1>1. thread[t] \in Handler /\ HandlerSound(t) /\ Len(queue) \in Nat
  BY QueuedAreMade DEF SimIInv, SimTypeOK
<1>2. /\ h \in Handler /\ h.pc = "append" /\ h.gen = thread[t].gen /\ h.left = thread[t].left
      /\ h.number = Len(queue) + 1
  BY <1>x, <1>h DEF Handler
<1>3. thread' = [thread EXCEPT ![t] = h] /\ UNCHANGED <<cases, made, queue, generation>>
  BY <1>1, <1>x, <1>h DEF MeasureList, NextNumber, SimIInv, SimTypeOK, Handler
<1>4. thread[t].left >= 1 /\ thread[t].gen <= generation
  BY <1>1 DEF MeasureList, At, HandlerSound
<1>5. /\ thread' \in [Threads -> Handler] /\ thread'[t] = h
      /\ \A u \in Threads : u # t => thread'[u] = thread[u]
  BY <1>2, <1>3 DEF SimIInv, SimTypeOK
<1>6. HandlerSound(t)'
  BY <1>1, <1>2, <1>3, <1>4, <1>5 DEF HandlerSound, HoldsCase
<1> QED
  BY <1>3, <1>5, <1>6, MoveKeepsSound

LEMMA AppendCaseSound ==
  ASSUME SimIInv, NEW t \in Threads, AppendCase(t)
  PROVE  SimIInv'
<1> DEFINE number == thread[t].number
           po == IF thread[t].po = 0 THEN number ELSE thread[t].po
<1>x. PICK x \in Handler : x = thread[t]
  BY DEF SimIInv, SimTypeOK
<1>l. PICK l : l = x.left - 1
  OBVIOUS
<1>h. PICK h : h = IF x.left = 1 THEN Idle ELSE [x EXCEPT !.pc = "measure", !.left = l]
  OBVIOUS
<1>1. /\ thread[t] \in Handler /\ HandlerSound(t) /\ Len(queue) \in Nat /\ made \in Nat
      /\ MaxCases \in Nat /\ generation \in Nat
  BY QueuedAreMade DEF SimIInv, SimTypeOK
<1>2. /\ thread[t].pc = "append" /\ thread[t].gen = generation /\ made < MaxCases
      /\ made' = made + 1 /\ generation' = generation /\ queue' = Append(queue, made + 1)
      /\ cases' = [cases EXCEPT ![made + 1] = FreshCase(number, po)]
  BY DEF AppendCase, At
<1>3. number \in Nat /\ po \in Nat /\ number <= Len(queue) + 1
      /\ thread[t].left \in 1..MaxInject
  BY <1>1, <1>2, SimulationBounds DEF Handler, HandlerSound
<1>4. h \in Handler /\ (h = Idle \/ (h.pc = "measure" /\ h.gen = generation /\ h.left >= 1))
  <2>1. x.left # 1 => l \in 0..MaxInject /\ l >= 1
    BY <1>3, <1>x, <1>l, SimulationBounds
  <2>2. x.gen = generation
    BY <1>2, <1>x
  <2> QED
    BY <1>h, <2>1, <2>2, IdleIsHandler DEF Handler
<1>5. thread' = [thread EXCEPT ![t] = h]
  BY <1>x, <1>l, <1>h DEF AppendCase
<1>6. /\ thread' \in [Threads -> Handler] /\ thread'[t] = h
      /\ \A u \in Threads : u # t => thread'[u] = thread[u]
  BY <1>4, <1>5 DEF SimIInv, SimTypeOK
<1>7. FreshCase(number, po) \in Case
  BY <1>3 DEF FreshCase, Case, Statuses
<1>8. made + 1 \in Objects
  BY <1>1, <1>2 DEF Objects
<1>9. /\ queue' \in Seq(1..made') /\ Len(queue') = Len(queue) + 1
      /\ queue'[Len(queue) + 1] = made + 1
      /\ \A k \in 1..Len(queue) : queue'[k] = queue[k]
  BY <1>1, <1>2 DEF SimIInv, SimTypeOK
<1>10. SimTypeOK'
  BY <1>1, <1>2, <1>6, <1>7, <1>8, <1>9 DEF SimIInv, SimTypeOK
<1>11. \A o \in 1..made : cases'[o] = cases[o]
  BY <1>1, <1>2, QueuedAreMade DEF SimIInv, SimTypeOK
<1>12. \A o \in Queued' : o \in Queued \/ o > made
  BY <1>1, <1>9 DEF Queued
<1>13. Frame
  BY <1>1, <1>2, <1>9, <1>11, <1>12 DEF Frame, IsPending
<1>14. cases'[made + 1].sim = number /\ number >= 1
  BY <1>1, <1>2, <1>3, <1>7, <1>8 DEF SimIInv, SimTypeOK, FreshCase, HandlerSound
<1>15. IdsAtPositions'
  <2>1. DOMAIN queue' = 1..(Len(queue) + 1) /\ DOMAIN queue = 1..Len(queue)
    BY <1>1, <1>9, QueuedAreMade DEF SimIInv
  <2>2. Len(queue) <= made
    <3>1. PICK n \in Nat : n = Len(queue)
      BY <1>1
    <3>2. n >= 1 => n <= queue[n] /\ queue[n] \in 1..made
      BY <2>1, <3>1, QueuedAreMade DEF SimIInv, IdsAtPositions
    <3> QED
      BY <1>1, <3>1, <3>2
  <2>3. \A k \in 1..Len(queue) : k <= queue'[k] /\ cases'[queue'[k]].sim \in 1..k
    BY <1>9, <1>11, <2>1, QueuedAreMade DEF SimIInv, IdsAtPositions
  <2>4. LET k == Len(queue) + 1 IN k <= queue'[k] /\ cases'[queue'[k]].sim \in 1..k
    BY <1>1, <1>3, <1>9, <1>14, <2>2
  <2> QED
    BY <1>1, <2>1, <2>3, <2>4 DEF IdsAtPositions
<1>16. HandlerSound(t)'
  <2>1. CASE h = Idle
    BY <1>6, <1>10, <2>1, IdleIsSound
  <2>2. CASE h # Idle
    BY <1>1, <1>2, <1>4, <1>6, <2>2 DEF HandlerSound, HoldsCase
  <2> QED
    BY <2>1, <2>2
<1> QED
  BY <1>6, <1>10, <1>13, <1>15, <1>16, StepIsSound

LEMMA ChooseSound ==
  ASSUME SimIInv, NEW t \in Threads, ChooseNext(t) \/ \E o \in Objects : ChooseById(t, o)
  PROVE  SimIInv'
<1>1. PICK o \in Queued : Hold(t, "claim", o, o, NoAction)
  BY DEF ChooseNext, ChooseById
<1>2. UNCHANGED <<cases, made, queue, generation>>
  BY DEF ChooseNext, ChooseById
<1>3. o \in Objects /\ NoAction \in Arguments
  BY QueuedAreMade DEF SimIInv, Arguments
<1> QED
  BY <1>1, <1>2, <1>3, HoldKeepsSound

LEMMA FindForButtonSound ==
  ASSUME SimIInv, NEW t \in Threads, NEW o \in Objects, NEW button \in Buttons,
         FindForButton(t, o, button)
  PROVE  SimIInv'
<1>1. o \in Queued /\ Hold(t, "press", o, o, button) /\ UNCHANGED <<cases, made, queue, generation>>
  BY DEF FindForButton
<1>2. button \in Arguments
  BY DEF Arguments
<1> QED
  BY <1>1, <1>2, HoldKeepsSound

LEMMA ResolveCaseSound ==
  ASSUME SimIInv, NEW t \in Threads, NEW h \in 1..made,
         NEW keys \in {{"sim"}, {"po"}, {"sim", "po"}}, NEW outcome \in Outcomes,
         ResolveCase(t, h, keys, outcome)
  PROVE  SimIInv'
<1>1. PICK o \in Queued : Hold(t, "check", o, Meant(h, o), outcome)
  BY DEF ResolveCase
<1>2. UNCHANGED <<cases, made, queue, generation>>
  BY DEF ResolveCase
<1>3. PICK n \in Objects : n = Meant(h, o)
  BY QueuedAreMade DEF SimIInv, Meant
<1>4. outcome \in Arguments
  BY DEF Arguments
<1> QED
  BY <1>1, <1>2, <1>3, <1>4, HoldKeepsSound

(* A handler goes on to the next of its steps and keeps what it holds.     *)
LEMMA AdvanceKeepsSound ==
  ASSUME SimIInv, NEW t \in Threads, At(t, "check"), NEW pc \in {"finish", "adopt"},
         pc = "finish" => ~IsPending(thread[t].case),
         thread' = [thread EXCEPT ![t].pc = pc], UNCHANGED <<cases, made, queue, generation>>
  PROVE  SimIInv'
<1>1. thread[t] \in Handler /\ HandlerSound(t) /\ thread[t].pc = "check"
  BY DEF SimIInv, SimTypeOK, At
<1>2. /\ thread' \in [Threads -> Handler]
      /\ \A u \in Threads : u # t => thread'[u] = thread[u]
      /\ thread'[t].pc = pc /\ thread'[t].case = thread[t].case
      /\ thread'[t].arg = thread[t].arg /\ thread'[t].gen = thread[t].gen
  BY <1>1 DEF SimIInv, SimTypeOK, Handler
<1>3. HandlerSound(t)'
  BY <1>1, <1>2 DEF HandlerSound, HoldsCase, IsPending, Queued
<1> QED
  BY <1>2, <1>3, MoveKeepsSound

LEMMA CheckSound ==
  ASSUME SimIInv, NEW t \in Threads, CheckInProgress(t) \/ ChooseCompatible(t)
  PROVE  SimIInv'
<1>1. CASE CheckInProgress(t)
  <2>1. ~IsPending(thread[t].case)
    BY <1>1 DEF CheckInProgress, IsPending
  <2> QED
    BY <1>1, <2>1, AdvanceKeepsSound DEF CheckInProgress
<1>2. CASE ChooseCompatible(t)
  BY <1>2, AdvanceKeepsSound DEF ChooseCompatible
<1> QED
  BY <1>1, <1>2

(* The case a handler holds, as the steps that write it need it.           *)
LEMMA HeldCase ==
  ASSUME SimIInv, NEW t \in Threads, thread[t].pc \in HoldsCase
  PROVE  \E o \in Objects : /\ o = thread[t].case /\ o <= made /\ cases[o] \in Case
                            /\ thread[t].gen # generation => o \notin Queued
BY DEF SimIInv, SimTypeOK, HandlerSound, Handler

LEMMA ClaimSound ==
  ASSUME SimIInv, NEW t \in Threads, Claim(t)
  PROVE  SimIInv'
<1>1. PICK o \in Objects : o = thread[t].case /\ o <= made /\ cases[o] \in Case
  BY HeldCase DEF Claim, At, HoldsCase
<1>x. PICK x \in Case : x = cases[o]
  BY <1>1
<1>k. PICK k \in Nat : k = x.handed + 1
  BY DEF Case
<1>c. PICK c : c = [x EXCEPT !.status = "in_progress", !.handed = k]
  OBVIOUS
<1>2. c \in Case /\ c.sim = cases[o].sim /\ c.status = "in_progress"
  BY <1>x, <1>c DEF Case, Statuses
<1>3. cases' = [cases EXCEPT ![o] = c]
  BY <1>1, <1>x, <1>k, <1>c, <1>2 DEF Claim, SimIInv, SimTypeOK, Case
<1> QED
  BY <1>1, <1>2, <1>3, LastWriteKeepsSound DEF Claim

LEMMA FinishSound ==
  ASSUME SimIInv, NEW t \in Threads, Finish(t)
  PROVE  SimIInv'
<1>1. PICK o \in Objects : o = thread[t].case /\ o <= made /\ cases[o] \in Case
  BY HeldCase DEF Finish, At, HoldsCase
<1>2. PICK a \in Outcomes : a = thread[t].arg
  BY DEF SimIInv, HandlerSound, Finish, At
<1>x. PICK x \in Case : x = cases[o]
  BY <1>1
<1>c. PICK c : c = [x EXCEPT !.status = a]
  OBVIOUS
<1>3. c \in Case /\ c.sim = cases[o].sim /\ c.status = a
  BY <1>x, <1>c, <1>2 DEF Case, Statuses, Outcomes
<1>4. cases' = [cases EXCEPT ![o] = c]
  BY <1>1, <1>2, <1>x, <1>c, <1>3 DEF Finish, SimIInv, SimTypeOK, Case
<1>5. a # "pending"
  BY DEF Outcomes
<1> QED
  BY <1>1, <1>3, <1>4, <1>5, LastWriteKeepsSound DEF Finish

LEMMA PressButtonSound ==
  ASSUME SimIInv, NEW t \in Threads, PressButton(t)
  PROVE  SimIInv'
<1>1. PICK o \in Objects : o = thread[t].case /\ o <= made /\ cases[o] \in Case
  BY HeldCase DEF PressButton, At, HoldsCase
<1>2. PICK a \in Buttons : a = thread[t].arg
  BY DEF SimIInv, HandlerSound, PressButton, At
<1>x. PICK x \in Case : x = cases[o]
  BY <1>1
<1>c. PICK c : c = [x EXCEPT !.action = a]
  OBVIOUS
<1>3. c \in Case /\ c.sim = cases[o].sim /\ c.status = cases[o].status
  BY <1>x, <1>c, <1>2 DEF Case, Actions
<1>4. cases' = [cases EXCEPT ![o] = c]
  BY <1>1, <1>2, <1>x, <1>c, <1>3 DEF PressButton, MarkCase, SimIInv, SimTypeOK, Case
<1>5. IsPending(o) \/ c.status # "pending"
  BY <1>3 DEF IsPending
<1> QED
  BY <1>1, <1>3, <1>4, <1>5, LastWriteKeepsSound DEF PressButton

LEMMA AdoptSound ==
  ASSUME SimIInv, NEW t \in Threads, Adopt(t)
  PROVE  SimIInv'
<1>1. PICK o \in Objects : o = thread[t].case /\ o <= made /\ cases[o] \in Case
  BY HeldCase DEF Adopt, At, HoldsCase
<1>x. PICK x \in Case : x = cases[o]
  BY <1>1
<1>c. PICK c : c = [x EXCEPT !.status = "in_progress"]
  OBVIOUS
<1>2. c \in Case /\ c.sim = cases[o].sim /\ c.status = "in_progress"
  BY <1>x, <1>c DEF Case, Statuses
<1>3. cases' = [cases EXCEPT ![o] = c]
  BY <1>1, <1>x, <1>c, <1>2 DEF Adopt, SimIInv, SimTypeOK, Case
<1>4. thread[t] \in Handler /\ HandlerSound(t) /\ thread[t].pc = "adopt"
  BY DEF SimIInv, SimTypeOK, Adopt, At
<1>5. /\ thread' \in [Threads -> Handler]
      /\ \A u \in Threads : u # t => thread'[u] = thread[u]
      /\ thread'[t].pc = "check" /\ thread'[t].case = thread[t].case
      /\ thread'[t].arg = thread[t].arg /\ thread'[t].gen = thread[t].gen
  BY <1>4 DEF Adopt, SimIInv, SimTypeOK, Handler
<1>6. HandlerSound(t)'
  BY <1>4, <1>5 DEF Adopt, HandlerSound, HoldsCase, Queued
<1> QED
  BY <1>1, <1>2, <1>3, <1>5, <1>6, WriteKeepsSound DEF Adopt

LEMMA SimStepSound == SimIInv /\ [SimNext]_simVars => SimIInv'
<1> SUFFICES ASSUME SimIInv, [SimNext]_simVars PROVE SimIInv'
  OBVIOUS
<1>1. ASSUME NEW t \in Threads, StartRequest(t)
      PROVE  SimIInv'
  BY <1>1, ResetSound, TakeListSound, ChooseSound, ResolveCaseSound, FindForButtonSound
     DEF StartRequest
<1>2. ASSUME NEW t \in Threads, ContinueRequest(t)
      PROVE  SimIInv'
  <2>1. CASE AppendToOldList(t) \/ RefuseComplete(t)
    BY <2>1, ReturnKeepsSound DEF AppendToOldList, RefuseComplete
  <2> QED
    BY <1>2, <2>1, MeasureListSound, AppendCaseSound, ClaimSound, CheckSound, AdoptSound,
       FinishSound, PressButtonSound DEF ContinueRequest
<1>3. CASE UNCHANGED simVars
  BY <1>3 DEF simVars, SimIInv, SimTypeOK, HandlerSound, IsPending, Queued, IdsAtPositions
<1> QED
  BY <1>1, <1>2, <1>3 DEF SimNext

(* Every variable of the queue has its type in every reachable state.      *)
THEOREM SimTypeCorrect == SimSpec => []SimTypeOK
<1>1. SimIInv => SimTypeOK
  BY DEF SimIInv
<1> QED
  BY <1>1, SimInitSound, SimStepSound, PTL DEF SimSpec

(* However appending threads race, no id runs ahead of its position.       *)
THEOREM IdsStayBehind == SimSpec => []IdsNeverRunAhead
<1>1. SimIInv => IdsNeverRunAhead
  BY QueuedAreMade DEF SimIInv, IdsAtPositions, IdsNeverRunAhead
<1> QED
  BY <1>1, SimInitSound, SimStepSound, PTL DEF SimSpec

----------------------------------------------------------------------------
(* What a step may do to one case.                                         *)

WritesCase(t, o) ==
  /\ thread[t].case = o
  /\ \/ /\ Claim(t)
        /\ cases'[o].status = "in_progress" /\ cases'[o].handed = cases[o].handed + 1
     \/ /\ Adopt(t)
        /\ cases'[o].status = "in_progress" /\ cases'[o].handed = cases[o].handed
     \/ /\ Finish(t) /\ thread[t].pc = "finish"
        /\ cases'[o].status \in Outcomes /\ cases'[o].handed = cases[o].handed
     \/ /\ PressButton(t)
        /\ cases'[o].status = cases[o].status /\ cases'[o].handed = cases[o].handed

LEMMA CaseWrites ==
  ASSUME SimIInv, SimNext, NEW o \in Objects, cases'[o] # cases[o]
  PROVE  \/ o > made /\ cases'[o].status = "pending" /\ cases'[o].handed = 0
         \/ \E t \in Threads : WritesCase(t, o)
<1>0. cases \in [Objects -> Case] /\ made \in Nat
  BY QueuedAreMade DEF SimIInv, SimTypeOK
<1>1. ASSUME NEW t \in Threads, Reset(t)
      PROVE  o > made /\ cases'[o].status = "pending" /\ cases'[o].handed = 0
  BY <1>0, <1>1, SimulationBounds DEF Reset, FreshCase, Objects
<1>2. ASSUME NEW t \in Threads, AppendCase(t)
      PROVE  o > made /\ cases'[o].status = "pending" /\ cases'[o].handed = 0
  <2>1. PICK n, po : cases' = [cases EXCEPT ![made + 1] = FreshCase(n, po)]
    BY <1>2 DEF AppendCase
  <2> QED
    BY <1>0, <2>1 DEF FreshCase
<1>3. ASSUME NEW t \in Threads, Claim(t) \/ Adopt(t) \/ Finish(t) \/ PressButton(t)
      PROVE  WritesCase(t, o)
  <2>1. thread[t].pc \in HoldsCase
    BY <1>3 DEF Claim, Adopt, Finish, PressButton, At, HoldsCase
  <2>2. PICK p \in Objects : p = thread[t].case
    BY <2>1, HeldCase
  <2>3. CASE Claim(t)
    BY <1>0, <2>2, <2>3 DEF Claim, WritesCase, Case
  <2>4. CASE Adopt(t)
    BY <1>0, <2>2, <2>4 DEF Adopt, WritesCase, Case
  <2>5. CASE Finish(t)
    <3>1. thread[t].arg \in Outcomes /\ thread[t].pc = "finish"
      BY <2>5 DEF Finish, At, SimIInv, HandlerSound
    <3> QED
      BY <1>0, <2>2, <2>5, <3>1 DEF Finish, WritesCase, Case
  <2>6. CASE PressButton(t)
    BY <1>0, <2>2, <2>6 DEF PressButton, MarkCase, WritesCase, Case
  <2> QED
    BY <1>3, <2>3, <2>4, <2>5, <2>6
<1> QED
  BY <1>1, <1>2, <1>3
     DEF SimNext, StartRequest, ContinueRequest, Enqueue, Inject, TakeList, ChooseNext,
         ChooseById, ResolveCase, FindForButton, MeasureList, AppendToOldList, CheckInProgress,
         ChooseCompatible, RefuseComplete

(* No step closes a case that is still pending.                            *)
LEMMA PendingIsNotClosed ==
  ASSUME SimIInv, SimNext, NEW o \in Objects, IsPending(o)
  PROVE  cases'[o].status \in {"pending", "in_progress"}
<1>1. CASE cases'[o] = cases[o]
  BY <1>1 DEF IsPending
<1>2. ASSUME NEW t \in Threads, WritesCase(t, o)
      PROVE  cases'[o].status \in {"pending", "in_progress"}
  BY <1>2 DEF WritesCase, SimIInv, HandlerSound, IsPending
<1> QED
  BY <1>1, <1>2, CaseWrites

(* For any number of racing threads, no case is closed that nobody claimed. *)
THEOREM NeverClosedUnclaimed == SimSpec => NeverSkipsInProgress
<1>1. SimIInv /\ [SimNext]_simVars
      => [\A o \in Objects :
            IsPending(o) => cases'[o].status \in {"pending", "in_progress"}]_simVars
  BY PendingIsNotClosed
<1> QED
  BY <1>1, SimInitSound, SimStepSound, PTL DEF SimSpec, NeverSkipsInProgress

(* The step of a handler that a reset overtook stays with the old list.    *)
LEMMA OvertakenStaysApart ==
  ASSUME SimIInv, SimNext, NEW t \in Threads,
         thread[t].pc # "idle", thread[t].gen # generation, thread'[t] # thread[t]
  PROVE  queue' = queue /\ \A o \in Queued : cases'[o] = cases[o]
<1>1. PICK u \in Threads : StartRequest(u) \/ ContinueRequest(u)
  BY DEF SimNext
<1>2. u = t
  BY <1>1 DEF StartRequest, ContinueRequest, Reset, Enqueue, Inject, TakeList, ChooseNext,
     ChooseById, ResolveCase, FindForButton, Hold, Return, MeasureList, AppendCase,
     AppendToOldList, Claim, CheckInProgress, ChooseCompatible, Adopt, RefuseComplete, Finish,
     PressButton, SimIInv, SimTypeOK
<1>3. ~StartRequest(t)
  BY DEF StartRequest, Reset, Enqueue, Inject, TakeList, ChooseNext, ChooseById, ResolveCase,
     FindForButton, At
<1>4. ~MeasureList(t) /\ ~AppendCase(t)
  BY DEF MeasureList, AppendCase
<1>5. queue' = queue
  BY <1>1, <1>2, <1>3, <1>4 DEF ContinueRequest, AppendToOldList, Claim, CheckInProgress,
     ChooseCompatible, Adopt, RefuseComplete, Finish, PressButton
<1>6. ASSUME Claim(t) \/ Adopt(t) \/ Finish(t) \/ PressButton(t), NEW o \in Queued
      PROVE  cases'[o] = cases[o]
  <2>1. thread[t].pc \in HoldsCase
    BY <1>6 DEF Claim, Adopt, Finish, PressButton, At, HoldsCase
  <2>2. PICK p \in Objects : p = thread[t].case /\ p \notin Queued
    BY <2>1, HeldCase
  <2>3. o \in Objects /\ o # p
    BY <2>2, QueuedAreMade DEF SimIInv
  <2> QED
    BY <1>6, <2>2, <2>3 DEF Claim, Adopt, Finish, PressButton, MarkCase, SimIInv, SimTypeOK
<1>7. ASSUME NEW o \in Queued
      PROVE  cases'[o] = cases[o]
  BY <1>1, <1>2, <1>3, <1>4, <1>6 DEF ContinueRequest, AppendToOldList, CheckInProgress,
     ChooseCompatible, RefuseComplete
<1> QED
  BY <1>5, <1>7

(* A handler that a reset overtook never touches the new list.             *)
THEOREM ResetIsolates == SimSpec => ResetIsolation
<1>1. SimIInv /\ [SimNext]_simVars
      => [\A t \in Threads : thread[t].pc # "idle" /\ thread[t].gen # generation
                             /\ thread'[t] # thread[t]
            => /\ queue' = queue
               /\ \A o \in Queued : cases'[o] = cases[o]]_simVars
  BY OvertakenStaysApart
<1> QED
  BY <1>1, SimInitSound, SimStepSound, PTL DEF SimSpec, ResetIsolation

----------------------------------------------------------------------------
(* How often a case is handed out.                                         *)

(* The threads that have seen the case pending and not yet taken it.       *)
Claimants(o) == {t \in Threads : thread[t].pc = "claim" /\ thread[t].case = o}

(* A pending case was handed to nobody; callers that have it and threads   *)
(* about to take it are together no more than the threads.                 *)
HandedIInv ==
  /\ SimIInv
  /\ \A o \in Objects :
       /\ IsPending(o) => cases[o].handed = 0
       /\ cases[o].handed + Cardinality(Claimants(o)) <= Cardinality(Threads)

LEMMA ClaimantsAreThreads ==
  ASSUME NEW o
  PROVE  /\ IsFiniteSet(Claimants(o)) /\ Cardinality(Claimants(o)) \in Nat
         /\ Cardinality(Threads) \in Nat
         /\ Cardinality(Claimants(o)) <= Cardinality(Threads)
<1>1. Claimants(o) \subseteq Threads
  BY DEF Claimants
<1> QED
  BY <1>1, ThreadsAssumption, FS_Subset, FS_CardinalityType

LEMMA ClaimantsAreThreadsNext ==
  ASSUME NEW o
  PROVE  /\ IsFiniteSet(Claimants(o)') /\ Cardinality(Claimants(o)') \in Nat
         /\ Cardinality(Claimants(o)') <= Cardinality(Threads)
<1>1. Claimants(o)' \subseteq Threads
  BY DEF Claimants
<1> QED
  BY <1>1, ThreadsAssumption, FS_Subset, FS_CardinalityType

(* Only a case that is pending, and stays so in this step, finds another   *)
(* thread that wants to take it.                                           *)
LEMMA ClaimantsSawPending ==
  ASSUME SimIInv, SimNext, NEW o \in Objects, ~IsPending(o)'
  PROVE  Claimants(o)' \subseteq Claimants(o)
<1> SUFFICES ASSUME NEW u \in Threads, thread'[u].pc = "claim", thread'[u].case = o,
                    thread'[u] # thread[u]
             PROVE  FALSE
  BY DEF Claimants
<1>1. PICK t \in Threads : StartRequest(t) \/ ContinueRequest(t)
  BY DEF SimNext
<1>2. ASSUME NEW p \in Queued, NEW n \in Objects, NEW pc \in HoldsCase, NEW a \in Arguments,
             Hold(t, pc, p, n, a)
      PROVE  pc = "claim" /\ p = o
  BY <1>2, HoldEffect, QueuedAreMade DEF SimIInv
<1>3. ~ (Return(t) \/ Reset(t))
  BY ReturnEffect DEF Idle, Reset, SimIInv
<1>4. ASSUME ChooseNext(t) \/ \E p \in Objects : ChooseById(t, p)
      PROVE  FALSE
  <2>1. PICK p \in Queued : Hold(t, "claim", p, p, NoAction) /\ IsPending(p) /\ cases' = cases
    BY <1>4 DEF ChooseNext, ChooseById, IsFirst
  <2>2. p = o
    BY <2>1, <1>2, QueuedAreMade DEF SimIInv, HoldsCase, Arguments
  <2> QED
    BY <2>1, <2>2 DEF IsPending
<1>5. ~ (Enqueue(t) \/ Inject(t))
  <2>1. ASSUME NEW n, NEW po, TakeList(t, n, po) PROVE FALSE
    <3>1. DOMAIN thread = Threads BY DEF SimIInv, SimTypeOK
    <3>2. [Idle EXCEPT !.pc = "measure", !.gen = generation, !.left = n, !.po = po].pc = "measure"
      BY DEF Idle
    <3>3. thread'[t].pc = "measure" /\ \A v \in Threads \ {t} : thread'[v] = thread[v]
      BY <2>1, <3>1, <3>2 DEF TakeList
    <3> QED
      BY <3>3
  <2> QED
    BY <2>1 DEF Enqueue, Inject
<1>6. ASSUME NEW h \in 1..made, NEW keys \in {{"sim"}, {"po"}, {"sim", "po"}},
             NEW outcome \in Outcomes, ResolveCase(t, h, keys, outcome)
      PROVE  FALSE
  <2>1. PICK p \in Queued : Hold(t, "check", p, Meant(h, p), outcome)
    BY <1>6 DEF ResolveCase
  <2>2. PICK n \in Objects : n = Meant(h, p)
    BY QueuedAreMade DEF SimIInv, Meant
  <2> QED
    BY <2>1, <2>2, <1>2 DEF HoldsCase, Arguments
<1>7. ASSUME NEW p \in Objects, NEW button \in Buttons, FindForButton(t, p, button)
      PROVE  FALSE
  BY <1>7, <1>2 DEF FindForButton, HoldsCase, Arguments
<1>8. ~ (MeasureList(t) \/ AppendCase(t) \/ CheckInProgress(t) \/ ChooseCompatible(t) \/ Adopt(t))
  <2>1. ASSUME MeasureList(t) \/ CheckInProgress(t) \/ ChooseCompatible(t) \/ Adopt(t)
        PROVE  FALSE
    BY <2>1 DEF MeasureList, CheckInProgress, ChooseCompatible, Adopt, SimIInv, SimTypeOK, Handler
  <2>2. ASSUME AppendCase(t)
        PROVE  FALSE
    <3>1. PICK x \in Handler : x = thread[t]
      BY DEF SimIInv, SimTypeOK
    <3>l. PICK l : l = thread[t].left - 1
      OBVIOUS
    <3>2. PICK h : h = IF x.left = 1 THEN Idle ELSE [x EXCEPT !.pc = "measure", !.left = l]
      OBVIOUS
    <3>3. h.pc # "claim"
      BY <3>2 DEF Idle, Handler
    <3>4. thread' = [thread EXCEPT ![t] = h]
      BY <2>2, <3>1, <3>l, <3>2 DEF AppendCase
    <3> QED
      BY <3>3, <3>4 DEF SimIInv, SimTypeOK
  <2> QED
    BY <2>1, <2>2
<1> QED
  BY <1>1, <1>3, <1>4, <1>5, <1>6, <1>7, <1>8 DEF StartRequest, ContinueRequest,
     AppendToOldList, Claim, RefuseComplete, Finish, PressButton

LEMMA HandedInit == SimInit => HandedIInv
<1> SUFFICES ASSUME SimInit PROVE HandedIInv
  OBVIOUS
<1>1. ASSUME NEW o \in Objects
      PROVE  cases[o].handed = 0
  BY DEF SimInit, FreshCase
<1> QED
  BY <1>1, ClaimantsAreThreads, SimInitSound DEF HandedIInv

LEMMA HandedStep == HandedIInv /\ [SimNext]_simVars => HandedIInv'
<1> SUFFICES ASSUME HandedIInv, [SimNext]_simVars PROVE HandedIInv'
  OBVIOUS
<1>0. SimIInv /\ SimIInv'
  BY SimStepSound DEF HandedIInv
<1>1. ASSUME SimNext, NEW o \in Objects, IsPending(o)'
      PROVE  cases'[o].handed = 0
  <2>1. CASE cases'[o] = cases[o]
    BY <1>1, <2>1 DEF HandedIInv, IsPending
  <2>2. ASSUME NEW t \in Threads, WritesCase(t, o)
        PROVE  cases'[o].handed = 0
    BY <1>1, <2>2 DEF WritesCase, IsPending, Outcomes, HandedIInv
  <2> QED
    BY <1>0, <1>1, <2>1, <2>2, CaseWrites
<1>2. ASSUME SimNext, NEW o \in Objects, ~IsPending(o)'
      PROVE  cases'[o].handed + Cardinality(Claimants(o)') <= Cardinality(Threads)
  <2>0. /\ cases[o].handed \in Nat /\ cases'[o].handed \in Nat
        /\ cases[o].handed + Cardinality(Claimants(o)) <= Cardinality(Threads)
        /\ IsFiniteSet(Claimants(o)) /\ Cardinality(Claimants(o)) \in Nat
        /\ Cardinality(Claimants(o)') \in Nat /\ Cardinality(Threads) \in Nat
    BY <1>0, ClaimantsAreThreads, ClaimantsAreThreadsNext DEF HandedIInv, SimIInv, SimTypeOK, Case
  <2>1. Claimants(o)' \subseteq Claimants(o)
    BY <1>0, <1>2, ClaimantsSawPending
  <2>2. Cardinality(Claimants(o)') <= Cardinality(Claimants(o))
    BY <2>0, <2>1, FS_Subset
  <2>3. CASE cases'[o].handed = cases[o].handed
    BY <2>0, <2>2, <2>3
  <2>4. ASSUME NEW t \in Threads, Claim(t), thread[t].case = o,
               cases'[o].handed = cases[o].handed + 1
        PROVE  cases'[o].handed + Cardinality(Claimants(o)') <= Cardinality(Threads)
    <3>1. t \in Claimants(o)
      BY <2>4 DEF Claim, At, Claimants
    <3>2. t \notin Claimants(o)'
      BY <1>0, <2>4, ReturnEffect DEF Claim, Claimants, Idle, SimIInv
    <3>3. Cardinality(Claimants(o) \ {t}) = Cardinality(Claimants(o)) - 1
          /\ IsFiniteSet(Claimants(o) \ {t})
      BY <2>0, <3>1, FS_RemoveElement
    <3>4. Cardinality(Claimants(o)') <= Cardinality(Claimants(o) \ {t})
      BY <2>1, <3>2, <3>3, FS_Subset
    <3> QED
      BY <2>0, <2>4, <3>3, <3>4
  <2> QED
    BY <1>0, <1>2, <2>3, <2>4, CaseWrites DEF WritesCase, IsPending
<1>3. ASSUME NEW o \in Objects, IsPending(o)', cases'[o].handed = 0
      PROVE  cases'[o].handed + Cardinality(Claimants(o)') <= Cardinality(Threads)
  BY <1>3, ClaimantsAreThreadsNext
<1>4. CASE SimNext
  BY <1>0, <1>1, <1>2, <1>3, <1>4 DEF HandedIInv
<1>5. CASE UNCHANGED simVars
  BY <1>0, <1>5 DEF simVars, HandedIInv, Claimants, IsPending
<1> QED
  BY <1>4, <1>5

LEMMA HandedIsBounded == HandedIInv => HandOutsBoundedByThreads
<1> SUFFICES ASSUME HandedIInv, NEW o \in Objects
             PROVE  cases[o].handed <= Cardinality(Threads)
  BY DEF HandOutsBoundedByThreads
<1>1. cases[o].handed \in Nat
  BY DEF HandedIInv, SimIInv, SimTypeOK, Case
<1> QED
  BY <1>1, ClaimantsAreThreads DEF HandedIInv

(* For any number of threads, no case is handed to more callers than there *)
(* are threads; with one thread it is handed out once.                     *)
THEOREM HandOutsBounded == SimSpec => []HandOutsBoundedByThreads
  BY HandedIsBounded, HandedInit, HandedStep, PTL DEF SimSpec

----------------------------------------------------------------------------
(* One thread: a closed case stays closed.                                 *)

OneThread == \A t, u \in Threads : t = u

(* What the thread tested still holds when it writes.                      *)
SerialIInv ==
  /\ SimIInv
  /\ \A o \in Objects : o > made => IsPending(o)
  /\ \A t \in Threads :
       /\ thread[t].pc \in {"claim", "adopt"} => cases[thread[t].case].status = "pending"
       /\ thread[t].pc = "finish" => cases[thread[t].case].status = "in_progress"

LEMMA SerialInit == SimInit => SerialIInv
  BY SimInitSound DEF SimInit, SerialIInv, IsPending, FreshCase, Idle

(* Only a test lets the thread go on to a write of the status.             *)
LEMMA SerialWritesWereTested ==
  ASSUME OneThread, SerialIInv, NEW t \in Threads, StartRequest(t) \/ ContinueRequest(t)
  PROVE  \/ thread'[t].pc \notin {"claim", "adopt", "finish"}
         \/ /\ cases' = cases
            /\ thread'[t].pc \in {"claim", "adopt"} => cases[thread'[t].case].status = "pending"
            /\ thread'[t].pc = "finish" => cases[thread'[t].case].status = "in_progress"
<1>0. SimIInv /\ SimTypeOK /\ thread[t] \in Handler
  BY DEF SerialIInv, SimIInv, SimTypeOK
<1>1. ASSUME NEW p \in Queued, NEW n \in Objects, NEW pc \in HoldsCase, NEW a \in Arguments,
             Hold(t, pc, p, n, a)
      PROVE  thread'[t].pc = pc /\ thread'[t].case = p
  BY <1>0, <1>1, HoldEffect, QueuedAreMade
<1>2. ASSUME Return(t)
      PROVE  thread'[t].pc = "idle"
  BY <1>0, <1>2, ReturnEffect DEF Idle
<1>3. ASSUME Reset(t)
      PROVE  thread'[t].pc = "idle"
  BY <1>3 DEF Reset, At
<1>4. ASSUME ChooseNext(t) \/ \E p \in Objects : ChooseById(t, p)
      PROVE  cases' = cases /\ thread'[t].pc = "claim" /\ cases[thread'[t].case].status = "pending"
  <2>1. PICK p \in Queued : Hold(t, "claim", p, p, NoAction) /\ IsPending(p) /\ cases' = cases
    BY <1>4 DEF ChooseNext, ChooseById, IsFirst
  <2> QED
    BY <2>1, <1>1, <1>0, QueuedAreMade DEF HoldsCase, Arguments, IsPending
<1>5. ASSUME Enqueue(t) \/ Inject(t)
      PROVE  thread'[t].pc = "measure"
  <2>1. PICK n, po : TakeList(t, n, po)
    BY <1>5 DEF Enqueue, Inject
  <2>2. PICK g : g = generation
    OBVIOUS
  <2>3. PICK h : h = [Idle EXCEPT !.pc = "measure", !.gen = g, !.left = n, !.po = po]
    OBVIOUS
  <2>4. h.pc = "measure"
    BY <2>3, IdleIsHandler DEF Handler
  <2>5. thread' = [thread EXCEPT ![t] = h]
    BY <2>1, <2>2, <2>3 DEF TakeList
  <2> QED
    BY <1>0, <2>4, <2>5 DEF SimTypeOK
<1>6. ASSUME NEW h \in 1..made, NEW keys \in {{"sim"}, {"po"}, {"sim", "po"}},
             NEW outcome \in Outcomes, ResolveCase(t, h, keys, outcome)
      PROVE  thread'[t].pc = "check"
  <2>1. PICK p \in Queued : Hold(t, "check", p, Meant(h, p), outcome)
    BY <1>6 DEF ResolveCase
  <2>2. PICK n \in Objects : n = Meant(h, p)
    BY <1>0, QueuedAreMade DEF Meant
  <2> QED
    BY <2>1, <2>2, <1>1 DEF HoldsCase, Arguments
<1>7. ASSUME NEW p \in Objects, NEW button \in Buttons, FindForButton(t, p, button)
      PROVE  thread'[t].pc = "press"
  BY <1>7, <1>1, <1>0, QueuedAreMade DEF FindForButton, HoldsCase, Arguments
<1>8. ASSUME MeasureList(t) \/ Adopt(t)
      PROVE  thread'[t].pc \in {"append", "check"}
  BY <1>0, <1>8 DEF MeasureList, Adopt, SimTypeOK, Handler
<1>9. ASSUME AppendCase(t)
      PROVE  thread'[t].pc \in {"idle", "measure"}
  <2>1. PICK x \in Handler : x = thread[t]
    BY <1>0
  <2>l. PICK l : l = thread[t].left - 1
    OBVIOUS
  <2>2. PICK h : h = IF x.left = 1 THEN Idle ELSE [x EXCEPT !.pc = "measure", !.left = l]
    OBVIOUS
  <2>3. h.pc \in {"idle", "measure"}
    BY <2>2 DEF Idle, Handler
  <2>4. thread' = [thread EXCEPT ![t] = h]
    BY <1>9, <2>1, <2>l, <2>2 DEF AppendCase
  <2> QED
    BY <1>0, <2>3, <2>4 DEF SimTypeOK
<1>10. ASSUME CheckInProgress(t)
       PROVE  /\ cases' = cases /\ thread'[t].pc = "finish"
              /\ cases[thread'[t].case].status = "in_progress"
  BY <1>0, <1>10 DEF CheckInProgress, SimTypeOK, Handler
<1>11. ASSUME ChooseCompatible(t)
       PROVE  /\ cases' = cases /\ thread'[t].pc = "adopt"
              /\ cases[thread'[t].case].status = "pending"
  BY <1>0, <1>11 DEF ChooseCompatible, IsPending, SimTypeOK, Handler
<1>12. CASE StartRequest(t)
  BY <1>12, <1>3, <1>4, <1>5, <1>6, <1>7 DEF StartRequest
<1>13. CASE ContinueRequest(t)
  BY <1>13, <1>2, <1>8, <1>9, <1>10, <1>11
     DEF ContinueRequest, AppendToOldList, Claim, RefuseComplete, Finish, PressButton
<1> QED
  BY <1>12, <1>13

LEMMA SerialStep ==
  ASSUME OneThread
  PROVE  SerialIInv /\ [SimNext]_simVars => SerialIInv'
<1> SUFFICES ASSUME SerialIInv, [SimNext]_simVars PROVE SerialIInv'
  OBVIOUS
<1>0. SimIInv /\ SimIInv'
  BY SimStepSound DEF SerialIInv
<1>1. CASE SimNext
  <2>1. PICK t \in Threads : StartRequest(t) \/ ContinueRequest(t)
    BY <1>1 DEF SimNext
  <2>2. \A u \in Threads :
          /\ thread'[u].pc \in {"claim", "adopt"} => cases'[thread'[u].case].status = "pending"
          /\ thread'[u].pc = "finish" => cases'[thread'[u].case].status = "in_progress"
    BY <2>1, SerialWritesWereTested DEF OneThread
  <2>3. made' >= made
    <3>1. made \in Nat
      BY <1>0, QueuedAreMade DEF SimIInv
    <3>2. Reset(t) \/ AppendCase(t) => made' >= made
      BY <3>1, SimulationBounds DEF Reset, AppendCase
    <3>3. Reset(t) \/ AppendCase(t) \/ made' = made
      BY <2>1 DEF StartRequest, ContinueRequest, Enqueue, Inject, TakeList, ChooseNext, ChooseById,
         ResolveCase, FindForButton, MeasureList, AppendToOldList, Claim, CheckInProgress,
         ChooseCompatible, Adopt, RefuseComplete, Finish, PressButton
    <3> QED
      BY <3>1, <3>2, <3>3
  <2>4. ASSUME NEW o \in Objects, o > made'
        PROVE  IsPending(o)'
    <3>1. o > made /\ made \in Nat /\ made' \in Nat /\ o \in Nat
      BY <1>0, <2>3, <2>4, QueuedAreMade DEF Objects, SimIInv, SimTypeOK
    <3>2. ~ \E u \in Threads : WritesCase(u, o)
      <4> SUFFICES ASSUME NEW u \in Threads, WritesCase(u, o) PROVE FALSE
        OBVIOUS
      <4>1. thread[u].pc \in HoldsCase
        BY DEF WritesCase, Claim, Adopt, Finish, PressButton, At, HoldsCase
      <4>2. thread[u].case <= made
        BY <1>0, <4>1 DEF SimIInv, HandlerSound
      <4> QED
        BY <3>1, <4>2 DEF WritesCase
    <3> QED
      BY <1>0, <1>1, <3>1, <3>2, CaseWrites DEF IsPending, SerialIInv
  <2> QED
    BY <1>0, <2>2, <2>4 DEF SerialIInv
<1>2. CASE UNCHANGED simVars
  BY <1>0, <1>2 DEF simVars, SerialIInv, IsPending
<1> QED
  BY <1>1, <1>2

LEMMA SerialKeepsClosed ==
  ASSUME SerialIInv, SimNext, NEW o \in Objects, cases[o].status \in Outcomes
  PROVE  cases'[o].status = cases[o].status
<1>1. SimIInv /\ made \in Nat /\ o \in Nat
  BY QueuedAreMade DEF SerialIInv, SimIInv, Objects
<1>2. ~ (o > made)
  BY DEF SerialIInv, IsPending, Outcomes
<1>3. ASSUME NEW t \in Threads, WritesCase(t, o)
      PROVE  cases'[o].status = cases[o].status
  BY <1>3 DEF WritesCase, SerialIInv, Claim, Adopt, Finish, At, Outcomes
<1> QED
  BY <1>1, <1>2, <1>3, CaseWrites

(* With one thread a closed case keeps its status, as the docstring says;  *)
(* with two, the second can write a status it tested before the first did. *)
THEOREM SerialTerminalIsFinal ==
  ASSUME OneThread
  PROVE  SimSpec => TerminalIsFinal
<1>1. SerialIInv /\ [SimNext]_simVars
      => [\A o \in Objects : cases[o].status \in Outcomes
                             => cases'[o].status = cases[o].status]_simVars
  BY SerialKeepsClosed
<1>2. SimInit => SerialIInv
  BY SerialInit
<1>3. SerialIInv /\ [SimNext]_simVars => SerialIInv'
  BY SerialStep
<1> QED
  BY <1>1, <1>2, <1>3, PTL DEF SimSpec, TerminalIsFinal

----------------------------------------------------------------------------
(* Closing the case that was named.                                        *)

(* A handler that holds another case than its client named found it under  *)
(* an id or a purchase-order number of the named one, and neither changes. *)
NamedInv ==
  /\ SimIInv
  /\ \A t \in Threads :
       LET found == thread[t].case
           named == thread[t].named IN
       found # named =>
         /\ {found, named} \subseteq 1..made
         /\ cases[found].sim = cases[named].sim \/ cases[found].po = cases[named].po

LEMMA IdsStay ==
  ASSUME SimIInv, SimNext
  PROVE  /\ 1..made \subseteq 1..made'
         /\ \A o \in 1..made : cases'[o].sim = cases[o].sim /\ cases'[o].po = cases[o].po
<1>1. PICK t \in Threads : StartRequest(t) \/ ContinueRequest(t)
  BY DEF SimNext
<1>2. /\ made \in Nat
      /\ 1..made \subseteq Objects
      /\ cases \in [Objects -> Case]
  BY QueuedAreMade DEF SimIInv, SimTypeOK
<1>3. CASE Reset(t)
  <2>1. made' = made + DefaultCases /\ DefaultCases \in Nat
    BY <1>3, SimulationBounds DEF Reset
  <2>2. \A o \in 1..made : cases'[o] = cases[o]
    BY <1>2, <1>3, <2>1 DEF Reset
  <2> QED
    BY <1>2, <2>1, <2>2
<1>4. CASE AppendCase(t)
  <2>1. PICK n, po : cases' = [cases EXCEPT ![made + 1] = FreshCase(n, po)]
    BY <1>4 DEF AppendCase
  <2>2. made' = made + 1
    BY <1>4 DEF AppendCase
  <2>3. \A o \in 1..made : cases'[o] = cases[o]
    BY <1>2, <2>1
  <2> QED
    BY <1>2, <2>2, <2>3
<1>5. CASE Claim(t) \/ Adopt(t) \/ Finish(t) \/ PressButton(t)
  <2>1. made' = made
    BY <1>5 DEF Claim, Adopt, Finish, PressButton
  <2>2. \A o \in 1..made : cases'[o].sim = cases[o].sim /\ cases'[o].po = cases[o].po
    BY <1>2, <1>5 DEF Claim, Adopt, Finish, PressButton, MarkCase, Case
  <2> QED
    BY <2>1, <2>2
<1>6. CASE UNCHANGED <<cases, made>>
  BY <1>6
<1> QED
  BY <1>1, <1>3, <1>4, <1>5, <1>6
     DEF StartRequest, ContinueRequest, Enqueue, Inject, TakeList, ChooseNext, ChooseById,
         ResolveCase, FindForButton, MeasureList, AppendToOldList, CheckInProgress,
         ChooseCompatible, RefuseComplete

LEMMA HeldAndNamed ==
  ASSUME SimTypeOK, NEW t \in Threads, NEW pc, NEW o, NEW n, NEW a, Hold(t, pc, o, n, a)
  PROVE  thread'[t].case = o /\ thread'[t].named = n
<1>1. PICK h : h = [Idle EXCEPT !.pc = pc, !.case = o, !.named = n, !.gen = generation, !.arg = a]
  OBVIOUS
<1>2. h.case = o /\ h.named = n
  BY <1>1 DEF Idle
<1>3. thread' = [thread EXCEPT ![t] = h]
  BY <1>1 DEF Hold
<1> QED
  BY <1>2, <1>3 DEF SimTypeOK

(* Only the search of a complete call can find another case than it names. *)
LEMMA WhatIsHeld ==
  ASSUME SimIInv, NEW t \in Threads, StartRequest(t) \/ ContinueRequest(t)
  PROVE  \/ thread'[t].case = thread'[t].named
         \/ thread'[t].case = thread[t].case /\ thread'[t].named = thread[t].named
         \/ /\ {thread'[t].case, thread'[t].named} \subseteq 1..made
            /\ \/ cases[thread'[t].case].sim = cases[thread'[t].named].sim
               \/ cases[thread'[t].case].po = cases[thread'[t].named].po
<1> DEFINE Same  == thread'[t].case = thread'[t].named
           Kept  == thread'[t].case = thread[t].case /\ thread'[t].named = thread[t].named
           Alike == /\ {thread'[t].case, thread'[t].named} \subseteq 1..made
                    /\ \/ cases[thread'[t].case].sim = cases[thread'[t].named].sim
                       \/ cases[thread'[t].case].po = cases[thread'[t].named].po
<1>0. SimTypeOK /\ thread[t] \in Handler
  BY DEF SimIInv, SimTypeOK
<1>1. ASSUME Return(t) PROVE Same
  BY <1>0, <1>1, ReturnEffect DEF Idle
<1>2. ASSUME Reset(t) PROVE Kept
  BY <1>2 DEF Reset
<1>3. ASSUME Enqueue(t) \/ Inject(t) PROVE Same
  <2>1. PICK n, po : TakeList(t, n, po)
    BY <1>3 DEF Enqueue, Inject
  <2>2. PICK h : h = [Idle EXCEPT !.pc = "measure", !.gen = generation, !.left = n, !.po = po]
    OBVIOUS
  <2>3. h.case = 1 /\ h.named = 1
    BY <2>2 DEF Idle
  <2>4. thread' = [thread EXCEPT ![t] = h]
    BY <2>1, <2>2 DEF TakeList
  <2> QED
    BY <1>0, <2>3, <2>4 DEF SimTypeOK
<1>4. ASSUME ChooseNext(t) \/ \E o \in Objects : ChooseById(t, o) PROVE Same
  <2>1. PICK o : Hold(t, "claim", o, o, NoAction)
    BY <1>4 DEF ChooseNext, ChooseById
  <2> QED
    BY <1>0, <2>1, HeldAndNamed
<1>5. ASSUME NEW o \in Objects, NEW button \in Buttons, FindForButton(t, o, button) PROVE Same
  BY <1>0, <1>5, HeldAndNamed DEF FindForButton
<1>6. ASSUME NEW h \in 1..made, NEW keys \in {{"sim"}, {"po"}, {"sim", "po"}},
             NEW outcome \in Outcomes, ResolveCase(t, h, keys, outcome)
      PROVE  Same \/ Alike
  <2>1. PICK o \in Queued : /\ IsFirst(o, LAMBDA c : Named(h, keys, c))
                            /\ Hold(t, "check", o, Meant(h, o), outcome)
    BY <1>6 DEF ResolveCase
  <2>2. Named(h, keys, o)
    BY <2>1 DEF IsFirst
  <2>3. cases[o].sim = cases[h].sim \/ cases[o].po = cases[h].po
    BY <2>2 DEF Named
  <2>4. PICK n : n = Meant(h, o)
    OBVIOUS
  <2>5. thread'[t].case = o /\ thread'[t].named = n
    BY <1>0, <2>1, <2>4, HeldAndNamed
  <2>6. n \in {h, o}
    BY <2>4 DEF Meant
  <2>7. o \in 1..made
    BY <1>0, QueuedAreMade
  <2> QED
    BY <2>3, <2>5, <2>6, <2>7
<1>7. ASSUME MeasureList(t) \/ CheckInProgress(t) \/ ChooseCompatible(t) \/ Adopt(t) PROVE Kept
  BY <1>0, <1>7 DEF MeasureList, CheckInProgress, ChooseCompatible, Adopt, SimTypeOK, Handler
<1>8. ASSUME AppendCase(t) PROVE Same \/ Kept
  <2>1. PICK x \in Handler : x = thread[t]
    BY <1>0
  <2>2. PICK l : l = thread[t].left - 1
    OBVIOUS
  <2>3. PICK h : h = IF x.left = 1 THEN Idle ELSE [x EXCEPT !.pc = "measure", !.left = l]
    OBVIOUS
  <2>4. h.case = h.named \/ (h.case = x.case /\ h.named = x.named)
    BY <2>3 DEF Idle, Handler
  <2>5. thread' = [thread EXCEPT ![t] = h]
    BY <1>8, <2>1, <2>2, <2>3 DEF AppendCase
  <2> QED
    BY <1>0, <2>1, <2>4, <2>5 DEF SimTypeOK
<1> HIDE DEF Same, Kept, Alike
<1>9. Same \/ Kept \/ Alike
  BY <1>1, <1>2, <1>3, <1>4, <1>5, <1>6, <1>7, <1>8
     DEF StartRequest, ContinueRequest, AppendToOldList, Claim, RefuseComplete, Finish, PressButton
<1> QED
  BY <1>9 DEF Same, Kept, Alike

LEMMA NamedStep == NamedInv /\ [SimNext]_simVars => NamedInv'
<1> SUFFICES ASSUME NamedInv, [SimNext]_simVars PROVE NamedInv'
  OBVIOUS
<1>1. SimIInv /\ SimIInv'
  BY SimStepSound DEF NamedInv
<1>2. CASE SimNext
  <2>1. PICK t \in Threads : StartRequest(t) \/ ContinueRequest(t)
    BY <1>2 DEF SimNext
  <2>2. /\ 1..made \subseteq 1..made'
        /\ \A o \in 1..made : cases'[o].sim = cases[o].sim /\ cases'[o].po = cases[o].po
    BY <1>1, <1>2, IdsStay
  <2>3. \A u \in Threads \ {t} : thread'[u] = thread[u]
    BY <1>1, <2>1 DEF StartRequest, ContinueRequest, Reset, Enqueue, Inject, TakeList, ChooseNext,
       ChooseById, ResolveCase, FindForButton, Hold, Return, MeasureList, AppendCase,
       AppendToOldList, Claim, CheckInProgress, ChooseCompatible, Adopt, RefuseComplete, Finish,
       PressButton, SimIInv, SimTypeOK
  <2>4. ASSUME NEW u \in Threads, NEW found, NEW named, found # named,
               found = thread'[u].case, named = thread'[u].named
        PROVE  /\ {found, named} \subseteq 1..made
               /\ cases[found].sim = cases[named].sim \/ cases[found].po = cases[named].po
    <3>1. CASE u = t
      BY <1>1, <2>1, <2>4, <3>1, WhatIsHeld DEF NamedInv
    <3>2. CASE u # t
      BY <2>3, <2>4, <3>2 DEF NamedInv
    <3> QED
      BY <3>1, <3>2
  <2> QED
    BY <1>1, <2>2, <2>4 DEF NamedInv
<1>3. CASE UNCHANGED simVars
  BY <1>1, <1>3 DEF simVars, NamedInv
<1> QED
  BY <1>2, <1>3

----------------------------------------------------------------------------
(* One thread: the numbers the queue gives out are positions in it.        *)

(* A thread comes to an append only by measuring the list.                 *)
LEMMA AppendsAreMeasured ==
  ASSUME SimIInv, NEW t \in Threads, StartRequest(t) \/ ContinueRequest(t)
  PROVE  MeasureList(t) \/ thread'[t].pc # "append"
<1>0. SimTypeOK /\ thread[t] \in Handler
  BY DEF SimIInv, SimTypeOK
<1>1. ASSUME NEW p \in Queued, NEW n \in Objects, NEW pc \in HoldsCase, NEW a \in Arguments,
             Hold(t, pc, p, n, a)
      PROVE  thread'[t].pc # "append"
  <2>1. thread'[t].pc = pc
    BY <1>0, <1>1, HoldEffect, QueuedAreMade
  <2> QED
    BY <2>1 DEF HoldsCase
<1>2. ASSUME Return(t)
      PROVE  thread'[t].pc # "append"
  BY <1>0, <1>2, ReturnEffect DEF Idle
<1>3. ASSUME Reset(t)
      PROVE  thread'[t].pc # "append"
  BY <1>3 DEF Reset, At
<1>4. ASSUME ChooseNext(t) \/ \E p \in Objects : ChooseById(t, p)
      PROVE  thread'[t].pc # "append"
  <2>1. PICK p \in Queued : Hold(t, "claim", p, p, NoAction)
    BY <1>4 DEF ChooseNext, ChooseById
  <2> QED
    BY <2>1, <1>1, <1>0, QueuedAreMade DEF HoldsCase, Arguments
<1>5. ASSUME Enqueue(t) \/ Inject(t)
      PROVE  thread'[t].pc # "append"
  <2>1. PICK n, po : TakeList(t, n, po)
    BY <1>5 DEF Enqueue, Inject
  <2>2. PICK h : h = [Idle EXCEPT !.pc = "measure", !.gen = generation, !.left = n, !.po = po]
    OBVIOUS
  <2>3. h.pc = "measure"
    BY <2>2 DEF Idle
  <2>4. thread' = [thread EXCEPT ![t] = h]
    BY <2>1, <2>2 DEF TakeList
  <2> QED
    BY <1>0, <2>3, <2>4 DEF SimTypeOK
<1>6. ASSUME NEW h \in 1..made, NEW keys \in {{"sim"}, {"po"}, {"sim", "po"}},
             NEW outcome \in Outcomes, ResolveCase(t, h, keys, outcome)
      PROVE  thread'[t].pc # "append"
  <2>1. PICK p \in Queued : Hold(t, "check", p, Meant(h, p), outcome)
    BY <1>6 DEF ResolveCase
  <2>2. PICK n \in Objects : n = Meant(h, p)
    BY <1>0, QueuedAreMade DEF Meant
  <2> QED
    BY <2>1, <2>2, <1>1 DEF HoldsCase, Arguments
<1>7. ASSUME NEW p \in Objects, NEW button \in Buttons, FindForButton(t, p, button)
      PROVE  thread'[t].pc # "append"
  BY <1>7, <1>1, <1>0, QueuedAreMade DEF FindForButton, HoldsCase, Arguments
<1>8. ASSUME AppendCase(t)
      PROVE  thread'[t].pc # "append"
  <2>1. PICK l : l = thread[t].left - 1
    OBVIOUS
  <2>2. PICK h : h = IF thread[t].left = 1 THEN Idle ELSE [thread[t] EXCEPT !.pc = "measure", !.left = l]
    OBVIOUS
  <2>3. h.pc \in {"idle", "measure"}
    BY <1>0, <2>2 DEF Idle, Handler
  <2>4. thread' = [thread EXCEPT ![t] = h]
    BY <1>0, <1>8, <2>1, <2>2 DEF AppendCase, SimTypeOK
  <2> QED
    BY <1>0, <2>3, <2>4 DEF SimTypeOK
<1>9. ASSUME CheckInProgress(t) \/ ChooseCompatible(t) \/ Adopt(t)
      PROVE  thread'[t].pc # "append"
  BY <1>0, <1>9 DEF CheckInProgress, ChooseCompatible, Adopt, SimTypeOK, Handler
<1> QED
  BY <1>2, <1>3, <1>4, <1>5, <1>6, <1>7, <1>8, <1>9
     DEF StartRequest, ContinueRequest, AppendToOldList, Claim, RefuseComplete, Finish, PressButton

(* With nobody to race, an append takes the next position's number, and    *)
(* the number of a case is its position.                                   *)
ExactIInv ==
  /\ SimIInv
  /\ \A k \in DOMAIN queue : cases[queue[k]].sim = k
  /\ \A t \in Threads : thread[t].pc = "append" /\ thread[t].gen = generation
                        => thread[t].number = Len(queue) + 1

LEMMA ExactInit == SimInit => ExactIInv
  BY SimInitSound DEF SimInit, ExactIInv, Idle

LEMMA ExactReset ==
  ASSUME ExactIInv, NEW t \in Threads, Reset(t)
  PROVE  \A k \in DOMAIN queue' : cases'[queue'[k]].sim = k
<1>1. /\ made' = made + DefaultCases /\ made \in Nat /\ made' \in 0..MaxCases
      /\ DefaultCases \in Nat
  BY QueuedAreMade, SimulationBounds DEF Reset, ExactIInv, SimIInv, SimTypeOK
<1>2. DOMAIN queue' = 1..DefaultCases /\ \A k \in 1..DefaultCases : queue'[k] = made + k
  BY <1>1 DEF Reset
<1>3. \A k \in 1..DefaultCases : cases'[made + k].sim = k
  BY <1>1, SimulationBounds DEF Reset, FreshCase, Objects
<1> QED
  BY <1>2, <1>3

LEMMA ExactAppend ==
  ASSUME ExactIInv, NEW t \in Threads, AppendCase(t)
  PROVE  \A k \in DOMAIN queue' : cases'[queue'[k]].sim = k
<1>1. PICK n \in Nat : n = Len(queue)
  BY QueuedAreMade DEF ExactIInv, SimIInv
<1>2. /\ thread[t].number = n + 1 /\ made < MaxCases
      /\ made \in Nat /\ MaxCases \in Nat /\ queue \in Seq(1..made) /\ cases \in [Objects -> Case]
  BY <1>1, QueuedAreMade DEF AppendCase, At, ExactIInv, SimIInv, SimTypeOK
<1>3. PICK po : cases' = [cases EXCEPT ![made + 1] = FreshCase(n + 1, po)]
  BY <1>2 DEF AppendCase
<1>4. /\ DOMAIN queue' = 1..(n + 1) /\ DOMAIN queue = 1..n
      /\ queue'[n + 1] = made + 1
      /\ \A k \in 1..n : queue'[k] = queue[k] /\ queue[k] \in 1..made
  BY <1>1, <1>2 DEF AppendCase
<1>5. cases'[made + 1].sim = n + 1
  BY <1>2, <1>3 DEF FreshCase, Objects
<1>6. \A k \in 1..n : cases'[queue'[k]].sim = k
  BY <1>2, <1>3, <1>4 DEF ExactIInv
<1> QED
  BY <1>1, <1>4, <1>5, <1>6

(* A step that leaves the list alone leaves the numbers of its cases.      *)
LEMMA ExactKept ==
  ASSUME ExactIInv, queue' = queue,
         \A o \in 1..made : cases'[o].sim = cases[o].sim
  PROVE  \A k \in DOMAIN queue' : cases'[queue'[k]].sim = k
BY QueuedAreMade DEF ExactIInv, SimIInv

LEMMA ExactStep ==
  ASSUME OneThread, ExactIInv, SimNext
  PROVE  ExactIInv'
<1>1. PICK t \in Threads : StartRequest(t) \/ ContinueRequest(t)
  BY DEF SimNext
<1>2. SimIInv /\ SimIInv'
  BY SimStepSound DEF ExactIInv
<1>3. Reset(t) \/ AppendCase(t) \/ queue' = queue
  BY <1>1 DEF StartRequest, ContinueRequest, Enqueue, Inject, TakeList, ChooseNext, ChooseById,
     ResolveCase, FindForButton, MeasureList, AppendToOldList, Claim, CheckInProgress,
     ChooseCompatible, Adopt, RefuseComplete, Finish, PressButton
<1>4. \A k \in DOMAIN queue' : cases'[queue'[k]].sim = k
  BY <1>2, <1>3, IdsStay, ExactReset, ExactAppend, ExactKept
<1>5. ASSUME NEW u \in Threads, thread'[u].pc = "append"
      PROVE  thread'[u].number = Len(queue') + 1
  <2>1. u = t /\ MeasureList(t)
    BY <1>1, <1>2, <1>5, AppendsAreMeasured DEF OneThread
  <2>2. PICK n \in Nat : n = Len(queue) + 1
    BY <1>2, QueuedAreMade DEF SimIInv
  <2>3. thread' = [thread EXCEPT ![t].pc = "append", ![t].number = n] /\ queue' = queue
    BY <2>1, <2>2 DEF MeasureList, NextNumber
  <2>4. thread'[t].number = n
    BY <1>2, <2>3 DEF SimIInv, SimTypeOK, Handler
  <2> QED
    BY <2>1, <2>2, <2>3, <2>4
<1> QED
  BY <1>2, <1>4, <1>5 DEF ExactIInv

LEMMA ExactIsReachable ==
  ASSUME ExactIInv
  PROVE  EveryCaseReachable
<1> SUFFICES ASSUME NEW o \in Queued PROVE Finds(cases[o].sim, o)
  BY DEF EveryCaseReachable
<1>1. PICK k \in DOMAIN queue : queue[k] = o
  BY DEF Queued
<1>2. DOMAIN queue = 1..Len(queue) /\ Len(queue) \in Nat
  BY QueuedAreMade DEF ExactIInv, SimIInv
<1>3. cases[o].sim = k
  BY <1>1 DEF ExactIInv
<1>4. \A j \in 1..(k - 1) : cases[queue[j]].sim # k
  BY <1>2 DEF ExactIInv
<1> QED
  BY <1>1, <1>3, <1>4 DEF Finds, IsFirst

(* With one thread every queued case is found under its own id: a claim,   *)
(* a button or an approval that names it does not reach another one        *)
(* (find_simulation_case), whatever was injected, enqueued and reset.      *)
THEOREM SerialCaseIsReachable ==
  ASSUME OneThread
  PROVE  SimSpec => []EveryCaseReachable
<1>1. ExactIInv /\ [SimNext]_simVars => ExactIInv'
  BY ExactStep, SimStepSound, QueuedAreMade DEF ExactIInv, simVars, SimIInv
<1> QED
  BY <1>1, ExactInit, ExactIsReachable, PTL DEF SimSpec

(* Two queued cases that carry no number of a client's agree in none.      *)
LEMMA OwnNumbersDiffer ==
  ASSUME ExactIInv, NEW c \in Queued, NEW d \in Queued, c # d,
         cases[c].po = cases[c].sim, cases[d].po = cases[d].sim
  PROVE  cases[c].sim # cases[d].sim /\ cases[c].po # cases[d].po
<1>1. PICK j \in DOMAIN queue, k \in DOMAIN queue : queue[j] = c /\ queue[k] = d
  BY DEF Queued
<1>2. cases[c].sim = j /\ cases[d].sim = k /\ j # k
  BY <1>1 DEF ExactIInv
<1> QED
  BY <1>2

LEMMA ExactClosesNamed ==
  ASSUME NamedInv, ExactIInv
  PROVE  ClosesTheNamedCase
<1> SUFFICES ASSUME NEW t \in Threads, NEW found \in Queued, NEW named \in Queued,
                    found = thread[t].case, named = thread[t].named, found # named,
                    \A c \in {found, named} : cases[c].po = cases[c].sim
             PROVE  FALSE
  BY DEF ClosesTheNamedCase
<1>1. cases[found].sim = cases[named].sim \/ cases[found].po = cases[named].po
  BY DEF NamedInv
<1> QED
  BY <1>1, OwnNumbersDiffer

(* With one thread a complete call that names a queued case closes it,     *)
(* unless a client chose the order number of that case or of the one it    *)
(* finds: ids count the positions of one list, so those that the queue     *)
(* gives out never meet, also when the list changes during the call        *)
(* (_find_simulation_case_by_payload).                                     *)
THEOREM SerialClosesTheNamedCase ==
  ASSUME OneThread
  PROVE  SimSpec => []ClosesTheNamedCase
<1> DEFINE Inv == NamedInv /\ ExactIInv
<1>1. SimInit => Inv
  BY SimInitSound, ExactInit DEF SimInit, NamedInv, Idle
<1>2. Inv /\ [SimNext]_simVars => Inv'
  BY NamedStep, ExactStep, SimStepSound, QueuedAreMade DEF ExactIInv, simVars, SimIInv
<1> QED
  BY <1>1, <1>2, ExactClosesNamed, PTL DEF SimSpec

=============================================================================
