------------------------ MODULE CodexSessions_proofs ------------------------
(***************************************************************************)
(* Proofs about CodexSessions for any number of threads, proposals and     *)
(* sessions, any limit on activities, and restarts anywhere; the last      *)
(* theorem is for one thread and no restart.                               *)
(***************************************************************************)
EXTENDS CodexSessions, FiniteSetTheorems, SequenceTheorems, TLAPS

----------------------------------------------------------------------------
(* The inductive invariant. A number that an approval has counted follows  *)
(* an existing session for ever, because sessions are never removed; once  *)
(* the session is made, the proposal may link to it.                       *)

StarterSound(v) ==
  /\ v.pc \in {"number", "openSession", "fillSession", "spawn"} => v.starts
  /\ v.pc = "openSession" =>
       /\ v.number \in Numbers
       /\ v.number = 1 \/ v.number - 1 \in SessionsOf(v.proposal)
  /\ v.pc \in {"fillSession", "spawn"} => v.number \in SessionsOf(v.proposal)
  /\ v.pc \in {"openProposal", "fillProposal"} =>
       v.number \in SessionsOf(v.proposal) \/ (v.number = 0 /\ ~v.starts)

WorkerSound(h) ==
  /\ h.pc \in {"run", "stream", "report"} => h.left >= 1
  /\ h.section # "outside" => h.pc \in {"run", "stream", "complete", "fail", "report"}
  /\ Len(h.seen.events) <= MaxEvents /\ Len(h.own.events) <= MaxEvents
  /\ h.pc # "gone" => Exists(sessions[h.id])

SessionsTyped ==
  /\ sessions \in [SessionIds -> File(Session)]
  /\ \A id \in SessionIds : Len(sessions[id].content.events) <= MaxEvents

ThreadsTyped ==
  /\ lock \in {0} \cup Numbers
  /\ starter \in [Threads -> Starter]
  /\ worker \in [Numbers -> Worker]
  /\ started \in 0..MaxStarts
  /\ restarts \in 0..MaxRestarts

ProposalsTyped == proposals \in [Proposals -> File(Proposal)]

Dense == \A p \in Proposals : SessionsOf(p) = 1..Cardinality(SessionsOf(p))

Linked ==
  \A p \in Proposals :
    Readable(proposals[p]) /\ proposals[p].content.session # 0
      => proposals[p].content.session \in SessionsOf(p)

Room == started + Cardinality(InFlight) <= MaxStarts

StartersSound == \A t \in Threads : \A v \in {starter[t]} : StarterSound(v)
WorkersSound  == \A w \in Numbers : \A h \in {worker[w]} : WorkerSound(h)

CodexInv ==
  /\ ProposalsTyped
  /\ SessionsTyped
  /\ ThreadsTyped
  /\ Dense
  /\ Linked
  /\ Room
  /\ StartersSound
  /\ WorkersSound

----------------------------------------------------------------------------
(* Values.                                                                 *)

LEMMA SomeSession ==
  /\ (CHOOSE p \in Proposals : TRUE) \in Proposals
  /\ (CHOOSE id \in SessionIds : TRUE) \in SessionIds
<1>1. (CHOOSE p \in Proposals : TRUE) \in Proposals
  BY CodexBounds
<1>2. 1 \in Numbers
  BY CodexBounds DEF Numbers
<1>3. <<CHOOSE p \in Proposals : TRUE, 1>> \in SessionIds
  BY <1>1, <1>2 DEF SessionIds
<1> QED
  BY <1>1, <1>3

LEMMA IdleIsStarter ==
  /\ IdleStarter \in Starter
  /\ IdleStarter.pc = "idle"
BY SomeSession DEF IdleStarter, Starter

LEMMA NoSessionType ==
  /\ NoSession \in Session
  /\ NoSession.events = << >>
BY DEF NoSession, Session

LEMMA NoWorkerType ==
  /\ NoWorker \in Worker
  /\ NoWorker.pc = "gone"
  /\ NoWorker.section = "outside"
  /\ NoWorker.seen = NoSession /\ NoWorker.own = NoSession
<1>1. 0 \in 0..(MaxStream + 2)
  BY CodexBounds
<1> QED
  BY <1>1, SomeSession, NoSessionType DEF NoWorker, Worker

LEMMA SomeNumbers ==
  ASSUME NEW S \in SUBSET Numbers
  PROVE  IsFiniteSet(S)
<1>1. MaxStarts \in Int
  BY CodexBounds
<1>2. IsFiniteSet(Numbers)
  BY <1>1, FS_Interval DEF Numbers
<1> QED
  BY <1>2, FS_Subset

(* A number that follows a session extends a dense set or is in it.        *)
LEMMA DenseAdd ==
  ASSUME NEW S \in SUBSET Numbers, S = 1..Cardinality(S),
         NEW n \in Numbers, n = 1 \/ n - 1 \in S
  PROVE  S \cup {n} = 1..Cardinality(S \cup {n})
<1>1. IsFiniteSet(S)
  BY SomeNumbers
<1>2. PICK k : k = Cardinality(S)
  OBVIOUS
<1>3. k \in Nat
  BY <1>1, <1>2, FS_CardinalityType
<1>4. n \in Nat /\ n >= 1 /\ n <= k + 1
  BY <1>2, <1>3 DEF Numbers
<1>5. CASE n \in S
  <2>1. S \cup {n} = S
    BY <1>5
  <2> QED
    BY <2>1
<1>6. CASE n \notin S
  <2>1. n = k + 1
    BY <1>2, <1>3, <1>4, <1>6
  <2>2. Cardinality(S \cup {n}) = k + 1
    BY <1>1, <1>2, <1>6, FS_AddElement
  <2>3. S = 1..k
    BY <1>2
  <2>4. S \cup {n} = 1..(k + 1)
    BY <1>3, <2>1, <2>3
  <2> QED
    BY <2>2, <2>4
<1> QED
  BY <1>5, <1>6

LEMMA NextNumber ==
  ASSUME Dense, NEW p \in Proposals, NextSession(p) \in Numbers
  PROVE  NextSession(p) = 1 \/ NextSession(p) - 1 \in SessionsOf(p)
<1>1. PICK k : k = Cardinality(SessionsOf(p))
  OBVIOUS
<1>2. IsFiniteSet(SessionsOf(p))
  BY SomeNumbers DEF SessionsOf
<1>3. k \in Nat
  BY <1>1, <1>2, FS_CardinalityType
<1>4. SessionsOf(p) = 1..k
  BY <1>1 DEF Dense
<1>5. NextSession(p) = k + 1
  BY <1>1 DEF NextSession
<1> QED
  BY <1>3, <1>4, <1>5

LEMMA InFlightFinite ==
  /\ IsFiniteSet(InFlight)
  /\ Cardinality(InFlight) \in Nat
<1>1. InFlight \in SUBSET Threads
  BY DEF InFlight
<1> QED
  BY <1>1, ThreadsAssumption, FS_Subset, FS_CardinalityType

----------------------------------------------------------------------------
(* Sessions are never removed.                                             *)

SessionsGrow == \A id \in SessionIds : Exists(sessions[id]) => Exists(sessions'[id])

LEMMA SessionsStay ==
  ASSUME SessionsGrow, NEW p \in Proposals
  PROVE  SessionsOf(p) \subseteq SessionsOf(p)'
BY DEF SessionsGrow, SessionsOf, SessionIds

LEMMA StarterStays ==
  ASSUME SessionsGrow, NEW v \in Starter, StarterSound(v)
  PROVE  StarterSound(v)'
<1>1. v.proposal \in Proposals
  BY DEF Starter
<1>2. SessionsOf(v.proposal) \subseteq SessionsOf(v.proposal)'
  BY <1>1, SessionsStay
<1> QED
  BY <1>2 DEF StarterSound

LEMMA WorkerStays ==
  ASSUME SessionsGrow, NEW h \in Worker, WorkerSound(h)
  PROVE  WorkerSound(h)'
<1>1. h.id \in SessionIds
  BY DEF Worker
<1> QED
  BY <1>1 DEF WorkerSound, SessionsGrow

LEMMA LinkedStays ==
  ASSUME SessionsGrow, UNCHANGED proposals, Linked
  PROVE  Linked'
<1>1. ASSUME NEW p \in Proposals,
             Readable(proposals[p])', (proposals[p].content.session # 0)'
      PROVE  (proposals[p].content.session \in SessionsOf(p))'
  <2>1. proposals[p].content.session \in SessionsOf(p)
    BY <1>1 DEF Linked, Readable
  <2> QED
    BY <2>1, SessionsStay
<1> QED
  BY <1>1 DEF Linked

(* A step of one approval.                                                 *)
LEMMA ApprovalStep ==
  ASSUME CodexInv, NEW t \in Threads, NEW v \in Starter,
         starter' = [starter EXCEPT ![t] = v],
         UNCHANGED <<lock, worker, started, restarts>>,
         SessionsGrow, ProposalsTyped', SessionsTyped', Dense', Linked', Room',
         StarterSound(v)'
  PROVE  CodexInv'
<1> USE DEF CodexInv
<1>1. ThreadsTyped'
  BY DEF ThreadsTyped
<1>2. ASSUME NEW u \in Threads PROVE \A x \in {starter'[u]} : StarterSound(x)'
  <2>1. CASE u = t
    BY <2>1 DEF ThreadsTyped
  <2>2. CASE u # t
    <3>1. PICK x : x = starter[u]
      OBVIOUS
    <3>2. x \in Starter /\ StarterSound(x) /\ starter'[u] = x
      BY <2>2, <3>1 DEF ThreadsTyped, StartersSound
    <3>3. StarterSound(x)'
      BY <3>2, StarterStays
    <3> QED
      BY <3>2, <3>3
  <2> QED
    BY <2>1, <2>2
<1>3. ASSUME NEW w \in Numbers PROVE \A h \in {worker'[w]} : WorkerSound(h)'
  <2>1. PICK h : h = worker[w]
    OBVIOUS
  <2>2. h \in Worker /\ WorkerSound(h) /\ worker'[w] = h
    BY <2>1 DEF ThreadsTyped, WorkersSound
  <2>3. WorkerSound(h)'
    BY <2>2, WorkerStays
  <2> QED
    BY <2>2, <2>3
<1> QED
  BY <1>1, <1>2, <1>3 DEF StartersSound, WorkersSound

(* An approval that goes on, or returns, takes no more room.               *)
LEMMA RoomStays ==
  ASSUME CodexInv, NEW t \in Threads, NEW v \in Starter,
         starter' = [starter EXCEPT ![t] = v],
         UNCHANGED started,
         v.pc # "idle" /\ v.starts => starter[t].pc # "idle" /\ starter[t].starts
  PROVE  Room'
<1>1. InFlight' \in SUBSET InFlight
  BY DEF InFlight, CodexInv, ThreadsTyped
<1>2. IsFiniteSet(InFlight) /\ Cardinality(InFlight) \in Nat
  BY InFlightFinite
<1>3. Cardinality(InFlight') <= Cardinality(InFlight) /\ IsFiniteSet(InFlight')
  BY <1>1, <1>2, FS_Subset
<1>4. Cardinality(InFlight') \in Nat
  BY <1>3, FS_CardinalityType
<1>5. started \in Nat /\ MaxStarts \in Nat
  BY CodexBounds DEF CodexInv, ThreadsTyped
<1> QED
  BY <1>2, <1>3, <1>4, <1>5 DEF CodexInv, Room

LEMMA ReadProposalKeepsInv ==
  ASSUME CodexInv, NEW t \in Threads, NEW p \in Proposals, NEW starts \in Approvals,
         ReadProposal(t, p, starts)
  PROVE  CodexInv'
<1>1. PICK seen : seen = Load(proposals[p], NoProposal)
  OBVIOUS
<1>2. PICK v : v = [pc |-> IF starts THEN "number" ELSE "openProposal", proposal |-> p,
                    starts |-> starts, prompt |-> seen.prompt, number |-> seen.session]
  OBVIOUS
<1>3. seen \in Proposal /\ (seen.session = 0 \/ seen.session \in SessionsOf(p))
  BY <1>1 DEF Load, NoProposal, Proposal, File, CodexInv, ProposalsTyped, Linked
<1>4. starts \in BOOLEAN
  BY CodexBounds
<1>5. v \in Starter
  BY <1>2, <1>3, <1>4 DEF Starter, Proposal
<1>6. /\ starter' = [starter EXCEPT ![t] = v]
      /\ starter[t].pc = "idle"
      /\ starts => started + Cardinality(InFlight) < MaxStarts
      /\ UNCHANGED <<proposals, sessions, lock, worker, started, restarts>>
  BY <1>1, <1>2 DEF ReadProposal
<1>7. SessionsGrow /\ \A q \in Proposals : SessionsOf(q)' = SessionsOf(q)
  BY <1>6 DEF SessionsGrow, SessionsOf
<1>8. StarterSound(v)'
  <2>1. seen.session = 0 \/ seen.session \in SessionsOf(p)'
    BY <1>3, <1>7
  <2> QED
    BY <1>2, <1>4, <2>1 DEF StarterSound
<1>9. Room'
  <2>1. CASE starts = TRUE
    <3>1. InFlight' = InFlight \cup {t}
      BY <1>2, <1>6, <2>1 DEF InFlight, CodexInv, ThreadsTyped
    <3>2. t \notin InFlight
      BY <1>6 DEF InFlight
    <3>3. Cardinality(InFlight') = Cardinality(InFlight) + 1
      BY <3>1, <3>2, InFlightFinite, FS_AddElement
    <3>4. Cardinality(InFlight) \in Nat /\ started \in Nat /\ MaxStarts \in Nat
      BY InFlightFinite, CodexBounds DEF CodexInv, ThreadsTyped
    <3> QED
      BY <1>6, <2>1, <3>3, <3>4 DEF Room
  <2>2. CASE starts = FALSE
    BY <1>2, <1>5, <1>6, <2>2, RoomStays
  <2> QED
    BY <1>4, <2>1, <2>2
<1>10. ProposalsTyped' /\ SessionsTyped'
  BY <1>6 DEF CodexInv, ProposalsTyped, SessionsTyped
<1>11. Dense'
  BY <1>7 DEF CodexInv, Dense
<1>12. Linked'
  BY <1>6, <1>7, LinkedStays DEF CodexInv
<1> QED
  BY <1>5, <1>6, <1>7, <1>8, <1>9, <1>10, <1>11, <1>12, ApprovalStep

LEMMA NumberSessionKeepsInv ==
  ASSUME CodexInv, NEW t \in Threads, NumberSession(t)
  PROVE  CodexInv'
<1>0. PICK s : s = starter[t]
  OBVIOUS
<1>1. PICK n : n = NextSession(s.proposal)
  OBVIOUS
<1>2. PICK v : v = [s EXCEPT !.pc = "openSession", !.number = n]
  OBVIOUS
<1>3. /\ s \in Starter
      /\ StarterSound(s)
      /\ s.pc = "number"
  BY <1>0 DEF NumberSession, CodexInv, ThreadsTyped, StartersSound
<1>4. /\ starter' = [starter EXCEPT ![t] = v]
      /\ n \in Numbers
      /\ UNCHANGED <<proposals, sessions, lock, worker, started, restarts>>
  BY <1>0, <1>1, <1>2 DEF NumberSession
<1>5. /\ v \in Starter
      /\ v.pc = "openSession"
      /\ v.number = n
      /\ v.proposal = s.proposal
      /\ v.starts = s.starts
  BY <1>2, <1>3, <1>4 DEF Starter
<1>6. n = 1 \/ n - 1 \in SessionsOf(s.proposal)
  BY <1>1, <1>3, <1>4, NextNumber DEF CodexInv, Starter
<1>7. SessionsGrow /\ \A q \in Proposals : SessionsOf(q)' = SessionsOf(q)
  BY <1>4 DEF SessionsGrow, SessionsOf
<1>8. StarterSound(v)'
  <2>1. n = 1 \/ n - 1 \in SessionsOf(s.proposal)'
    BY <1>3, <1>6, <1>7 DEF Starter
  <2> QED
    BY <1>3, <1>4, <1>5, <2>1 DEF StarterSound
<1>9. Room'
  BY <1>0, <1>3, <1>4, <1>5, RoomStays
<1>10. ProposalsTyped' /\ SessionsTyped'
  BY <1>4 DEF CodexInv, ProposalsTyped, SessionsTyped
<1>11. Dense'
  BY <1>7 DEF CodexInv, Dense
<1>12. Linked'
  BY <1>4, <1>7, LinkedStays DEF CodexInv
<1> QED
  BY <1>4, <1>5, <1>7, <1>8, <1>9, <1>10, <1>11, <1>12, ApprovalStep

(* Once a session is open its number follows the others or is one of them. *)
LEMMA OpenSessionKeepsInv ==
  ASSUME CodexInv, NEW t \in Threads, OpenSession(t)
  PROVE  CodexInv'
<1>0. PICK s : s = starter[t]
  OBVIOUS
<1>1. PICK v : v = [s EXCEPT !.pc = "fillSession"]
  OBVIOUS
<1>2. PICK id : id = <<s.proposal, s.number>>
  OBVIOUS
<1>3. /\ s \in Starter
      /\ StarterSound(s)
      /\ s.pc = "openSession"
  BY <1>0 DEF OpenSession, CodexInv, ThreadsTyped, StartersSound
<1>4. /\ starter' = [starter EXCEPT ![t] = v]
      /\ sessions' = [sessions EXCEPT ![id] = Truncated(NoFile(NoSession))]
      /\ UNCHANGED <<proposals, lock, worker, started, restarts>>
  BY <1>0, <1>1, <1>2 DEF OpenSession, Go, SessionOf
<1>5. /\ v \in Starter
      /\ v.pc = "fillSession"
      /\ v.number = s.number
      /\ v.proposal = s.proposal
      /\ v.starts = s.starts
  BY <1>1, <1>3 DEF Starter
<1>6. /\ s.number \in Numbers
      /\ s.proposal \in Proposals
      /\ s.number = 1 \/ s.number - 1 \in SessionsOf(s.proposal)
      /\ id \in SessionIds
  BY <1>2, <1>3 DEF StarterSound, Starter, SessionIds
<1>7. /\ Truncated(NoFile(NoSession)) \in File(Session)
      /\ Truncated(NoFile(NoSession)).content.events = << >>
      /\ Exists(Truncated(NoFile(NoSession)))
  BY NoSessionType DEF Truncated, NoFile, File, FileStates, Exists
<1>8. SessionsTyped'
  <2>1. SessionsTyped
    BY DEF CodexInv
  <2>2. sessions' \in [SessionIds -> File(Session)]
    BY <1>4, <1>6, <1>7, <2>1 DEF SessionsTyped
  <2>3. ASSUME NEW other \in SessionIds
        PROVE  Len(sessions'[other].content.events) <= MaxEvents
    <3>1. CASE other = id
      <4>1. sessions'[other].content.events = << >>
        BY <1>4, <1>7, <2>1, <3>1 DEF SessionsTyped
      <4> QED
        BY <4>1, CodexBounds
    <3>2. CASE other # id
      <4>1. sessions'[other] = sessions[other]
        BY <1>4, <2>1, <3>2 DEF SessionsTyped
      <4> QED
        BY <2>1, <4>1 DEF SessionsTyped
    <3> QED
      BY <3>1, <3>2
  <2> QED
    BY <2>2, <2>3 DEF SessionsTyped
<1>9. /\ \A q \in Proposals \ {s.proposal} : SessionsOf(q)' = SessionsOf(q)
      /\ SessionsOf(s.proposal)' = SessionsOf(s.proposal) \cup {s.number}
  BY <1>2, <1>4, <1>6, <1>7 DEF SessionsOf, SessionIds, CodexInv, SessionsTyped
<1>10. SessionsGrow
  BY <1>4, <1>6, <1>7 DEF SessionsGrow, CodexInv, SessionsTyped
<1>11. Dense'
  <2>1. SessionsOf(s.proposal) \in SUBSET Numbers
    BY DEF SessionsOf
  <2>2. PICK S : S = SessionsOf(s.proposal) \cup {s.number}
    OBVIOUS
  <2>3. S = 1..Cardinality(S)
    BY <1>6, <2>1, <2>2, DenseAdd DEF CodexInv, Dense
  <2>4. SessionsOf(s.proposal)' = S
    BY <1>9, <2>2
  <2> QED
    BY <1>9, <2>3, <2>4 DEF CodexInv, Dense
<1>12. StarterSound(v)'
  <2>1. s.number \in SessionsOf(s.proposal)'
    BY <1>9
  <2> QED
    BY <1>3, <1>5, <2>1 DEF StarterSound
<1>13. Room'
  BY <1>0, <1>3, <1>4, <1>5, RoomStays
<1>14. Linked' /\ ProposalsTyped'
  BY <1>4, <1>10, LinkedStays DEF CodexInv, ProposalsTyped
<1> QED
  BY <1>4, <1>5, <1>8, <1>10, <1>11, <1>12, <1>13, <1>14, ApprovalStep

LEMMA FillSessionKeepsInv ==
  ASSUME CodexInv, NEW t \in Threads, FillSession(t)
  PROVE  CodexInv'
<1>0. PICK s : s = starter[t]
  OBVIOUS
<1>1. PICK v : v = [s EXCEPT !.pc = "openProposal"]
  OBVIOUS
<1>2. PICK id : id = <<s.proposal, s.number>>
  OBVIOUS
<1>3. /\ s \in Starter
      /\ StarterSound(s)
      /\ s.pc = "fillSession"
  BY <1>0 DEF FillSession, CodexInv, ThreadsTyped, StartersSound
<1>4. PICK mode \in Modes :
        \E file \in Written(sessions[id], Queued(s.prompt, mode), NoSession) :
          sessions' = [sessions EXCEPT ![id] = file]
  BY <1>0, <1>2 DEF FillSession, SessionOf
<1>f. PICK file \in Written(sessions[id], Queued(s.prompt, mode), NoSession) :
        sessions' = [sessions EXCEPT ![id] = file]
  BY <1>4
<1>g. /\ starter' = [starter EXCEPT ![t] = v]
      /\ UNCHANGED <<proposals, lock, worker, started, restarts>>
  BY <1>0, <1>1 DEF FillSession, Go
<1>5. /\ v \in Starter
      /\ v.pc = "openProposal"
      /\ v.number = s.number
      /\ v.proposal = s.proposal
      /\ v.starts = s.starts
  BY <1>1, <1>3 DEF Starter
<1>6. /\ s.number \in SessionsOf(s.proposal)
      /\ s.proposal \in Proposals
      /\ id \in SessionIds
  BY <1>2, <1>3 DEF StarterSound, Starter, SessionIds, SessionsOf
<1>7. /\ file \in File(Session)
      /\ Len(file.content.events) <= MaxEvents
      /\ Exists(file)
  <2>1. CASE file = WholeFile(Queued(s.prompt, mode))
    <3>1. s.prompt \in BOOLEAN
      BY <1>3 DEF Starter
    <3>2. Queued(s.prompt, mode) \in Session /\ Queued(s.prompt, mode).events = <<Approval>>
      BY <3>1 DEF Queued, Session, Event
    <3>3. Len(<<Approval>>) <= MaxEvents
      BY CodexBounds
    <3> QED
      BY <2>1, <3>2, <3>3 DEF WholeFile, File, FileStates, Exists
  <2>2. CASE file = [state |-> "mixed", content |-> NoSession]
    <3>1. Len(<< >>) <= MaxEvents
      BY CodexBounds
    <3> QED
      BY <2>2, <3>1, NoSessionType DEF File, FileStates, Exists
  <2> QED
    BY <1>f, <2>1, <2>2 DEF Written
<1>8. SessionsTyped'
  BY <1>f, <1>6, <1>7 DEF CodexInv, SessionsTyped
<1>9. \A q \in Proposals : SessionsOf(q)' = SessionsOf(q)
  BY <1>f, <1>2, <1>6, <1>7 DEF SessionsOf, SessionIds, CodexInv, SessionsTyped
<1>10. SessionsGrow
  BY <1>f, <1>6, <1>7 DEF SessionsGrow, CodexInv, SessionsTyped
<1>11. Dense'
  BY <1>9 DEF CodexInv, Dense
<1>12. StarterSound(v)'
  <2>1. s.number \in SessionsOf(s.proposal)'
    BY <1>6, <1>9
  <2> QED
    BY <1>3, <1>5, <2>1 DEF StarterSound
<1>13. Room'
  BY <1>0, <1>3, <1>g, <1>5, RoomStays
<1>14. Linked' /\ ProposalsTyped'
  BY <1>g, <1>10, LinkedStays DEF CodexInv, ProposalsTyped
<1> QED
  BY <1>g, <1>5, <1>8, <1>10, <1>11, <1>12, <1>13, <1>14, ApprovalStep

LEMMA OpenProposalKeepsInv ==
  ASSUME CodexInv, NEW t \in Threads, OpenProposal(t)
  PROVE  CodexInv'
<1>0. PICK s : s = starter[t]
  OBVIOUS
<1>1. PICK v : v = [s EXCEPT !.pc = "fillProposal"]
  OBVIOUS
<1>3. /\ s \in Starter
      /\ StarterSound(s)
      /\ s.pc = "openProposal"
      /\ s.proposal \in Proposals
  BY <1>0 DEF OpenProposal, CodexInv, ThreadsTyped, StartersSound, Starter
<1>4. /\ starter' = [starter EXCEPT ![t] = v]
      /\ proposals' = [proposals EXCEPT ![s.proposal] = Truncated(proposals[s.proposal])]
      /\ UNCHANGED <<sessions, lock, worker, started, restarts>>
  BY <1>0, <1>1 DEF OpenProposal, Go
<1>5. /\ v \in Starter
      /\ v.pc = "fillProposal"
      /\ v.number = s.number
      /\ v.proposal = s.proposal
      /\ v.starts = s.starts
  BY <1>1, <1>3 DEF Starter
<1>6. SessionsGrow /\ \A q \in Proposals : SessionsOf(q)' = SessionsOf(q)
  BY <1>4 DEF SessionsGrow, SessionsOf
<1>7. ProposalsTyped'
  BY <1>3, <1>4 DEF CodexInv, ProposalsTyped, Truncated, File, FileStates
<1>8. Linked'
  BY <1>3, <1>4, <1>6 DEF CodexInv, ProposalsTyped, Linked, Truncated, Readable, File
<1>9. SessionsTyped' /\ Dense'
  BY <1>4, <1>6 DEF CodexInv, SessionsTyped, Dense
<1>10. StarterSound(v)'
  BY <1>3, <1>5, <1>6 DEF StarterSound
<1>11. Room'
  BY <1>0, <1>3, <1>4, <1>5, RoomStays
<1> QED
  BY <1>4, <1>5, <1>6, <1>7, <1>8, <1>9, <1>10, <1>11, ApprovalStep

(* The proposal links to the session that was made before.                 *)
LEMMA FillProposalKeepsInv ==
  ASSUME CodexInv, NEW t \in Threads, FillProposal(t)
  PROVE  CodexInv'
<1>0. PICK s : s = starter[t]
  OBVIOUS
<1>1. PICK v : v = IF s.starts THEN [s EXCEPT !.pc = "spawn"] ELSE IdleStarter
  OBVIOUS
<1>3. /\ s \in Starter
      /\ StarterSound(s)
      /\ s.pc = "fillProposal"
      /\ s.proposal \in Proposals
  BY <1>0 DEF FillProposal, CodexInv, ThreadsTyped, StartersSound, Starter
<1>f. PICK file \in Written(proposals[s.proposal], Approved(s), NoProposal) :
        proposals' = [proposals EXCEPT ![s.proposal] = file]
  BY <1>0 DEF FillProposal
<1>4. /\ starter' = [starter EXCEPT ![t] = v]
      /\ UNCHANGED <<sessions, lock, worker, started, restarts>>
  BY <1>0, <1>1 DEF FillProposal, Go, Return
<1>5. /\ v \in Starter
      /\ v.pc \in {"spawn", "idle"}
      /\ v.pc = "spawn" => /\ v.number = s.number
                           /\ v.proposal = s.proposal
                           /\ v.starts
                           /\ s.starts
  <2>1. CASE s.starts
    BY <1>1, <1>3, <2>1 DEF Starter
  <2>2. CASE ~s.starts
    BY <1>1, <2>2, IdleIsStarter
  <2> QED
    BY <2>1, <2>2
<1>6. SessionsGrow /\ \A q \in Proposals : SessionsOf(q)' = SessionsOf(q)
  BY <1>4 DEF SessionsGrow, SessionsOf
<1>7. /\ file \in File(Proposal)
      /\ Readable(file) => \/ file.content.session = 0
                           \/ file.content.session \in SessionsOf(s.proposal)
  <2>1. CASE file = WholeFile(Approved(s))
    <3>1. Approved(s) \in Proposal /\ Approved(s).session = s.number
      BY <1>3 DEF Approved, Proposal, Starter
    <3>2. s.number = 0 \/ s.number \in SessionsOf(s.proposal)
      BY <1>3 DEF StarterSound
    <3> QED
      BY <2>1, <3>1, <3>2 DEF WholeFile, File, FileStates
  <2>2. CASE file = [state |-> "mixed", content |-> NoProposal]
    BY <2>2 DEF NoProposal, Proposal, File, FileStates, Readable
  <2> QED
    BY <1>f, <2>1, <2>2 DEF Written
<1>8. ProposalsTyped'
  BY <1>3, <1>f, <1>7 DEF CodexInv, ProposalsTyped
<1>9. Linked'
  BY <1>3, <1>f, <1>6, <1>7 DEF CodexInv, ProposalsTyped, Linked
<1>10. SessionsTyped' /\ Dense'
  BY <1>4, <1>6 DEF CodexInv, SessionsTyped, Dense
<1>11. StarterSound(v)'
  <2>1. CASE v.pc = "idle"
    BY <2>1 DEF StarterSound
  <2>2. CASE v.pc = "spawn"
    <3>1. v.number \in SessionsOf(v.proposal)
      BY <1>3, <1>5, <2>2 DEF StarterSound
    <3>2. v.number \in SessionsOf(v.proposal)'
      BY <1>3, <1>5, <1>6, <2>2, <3>1
    <3> QED
      BY <1>5, <2>2, <3>2 DEF StarterSound
  <2> QED
    BY <1>5, <2>1, <2>2
<1>12. Room'
  BY <1>0, <1>3, <1>4, <1>5, RoomStays
<1> QED
  BY <1>4, <1>5, <1>6, <1>8, <1>9, <1>10, <1>11, <1>12, ApprovalStep

(* A worker takes the room of its approval.                                *)
LEMMA SpawnWorkerKeepsInv ==
  ASSUME CodexInv, NEW t \in Threads, SpawnWorker(t)
  PROVE  CodexInv'
<1> USE DEF CodexInv
<1>0. PICK s : s = starter[t]
  OBVIOUS
<1>1. PICK h : h = [NoWorker EXCEPT !.pc = "born", !.id = <<s.proposal, s.number>>]
  OBVIOUS
<1>2. PICK n : n = started + 1
  OBVIOUS
<1>3. /\ s \in Starter
      /\ StarterSound(s)
      /\ s.pc = "spawn"
      /\ s.starts
  BY <1>0 DEF SpawnWorker, ThreadsTyped, StartersSound, StarterSound
<1>4. /\ starter' = [starter EXCEPT ![t] = IdleStarter]
      /\ worker' = [worker EXCEPT ![n] = h]
      /\ started' = n
      /\ UNCHANGED <<proposals, sessions, lock, restarts>>
  BY <1>0, <1>1, <1>2 DEF SpawnWorker, Return, SessionOf
<1>5. t \in InFlight
  BY <1>0, <1>3 DEF InFlight
<1>6. /\ Cardinality(InFlight) \in Nat
      /\ IsFiniteSet(InFlight)
      /\ started \in Nat
      /\ MaxStarts \in Nat
  BY InFlightFinite, CodexBounds DEF ThreadsTyped
<1>7. Cardinality(InFlight) >= 1
  <2>1. Cardinality(InFlight) # 0
    BY <1>5, <1>6, FS_EmptySet
  <2> QED
    BY <1>6, <2>1
<1>8. n \in Numbers /\ n \in 0..MaxStarts
  BY <1>2, <1>6, <1>7 DEF Room, Numbers
<1>9. Room'
  <2>1. InFlight' = InFlight \ {t}
    BY <1>4, IdleIsStarter DEF InFlight, ThreadsTyped
  <2>2. Cardinality(InFlight') = Cardinality(InFlight) - 1
    BY <1>5, <1>6, <2>1, FS_RemoveElement
  <2> QED
    BY <1>2, <1>4, <1>6, <2>2 DEF Room
<1>10. s.number \in SessionsOf(s.proposal)
  BY <1>3 DEF StarterSound
<1>11. <<s.proposal, s.number>> \in SessionIds /\ Exists(sessions[<<s.proposal, s.number>>])
  BY <1>3, <1>10 DEF SessionsOf, SessionIds, Starter
<1>12. /\ h \in Worker
       /\ h.pc = "born"
       /\ h.section = "outside"
       /\ h.seen = NoSession /\ h.own = NoSession
       /\ h.id = <<s.proposal, s.number>>
  BY <1>1, <1>11, NoWorkerType DEF Worker
<1>13. WorkerSound(h)'
  <2>1. Len(h.seen.events) <= MaxEvents /\ Len(h.own.events) <= MaxEvents
    BY <1>12, NoSessionType, CodexBounds
  <2> QED
    BY <1>4, <1>11, <1>12, <2>1 DEF WorkerSound
<1>14. ThreadsTyped'
  BY <1>4, <1>8, <1>12, IdleIsStarter DEF ThreadsTyped
<1>15. SessionsGrow /\ \A q \in Proposals : SessionsOf(q)' = SessionsOf(q)
  BY <1>4 DEF SessionsGrow, SessionsOf
<1>16. ASSUME NEW u \in Threads PROVE \A x \in {starter'[u]} : StarterSound(x)'
  <2>1. CASE u = t
    <3>1. starter'[u] = IdleStarter
      BY <1>4, <2>1 DEF ThreadsTyped
    <3>2. StarterSound(IdleStarter)'
      BY IdleIsStarter DEF StarterSound
    <3> QED
      BY <3>1, <3>2
  <2>2. CASE u # t
    <3>1. PICK x : x = starter[u]
      OBVIOUS
    <3>2. x \in Starter /\ StarterSound(x) /\ starter'[u] = x
      BY <1>4, <2>2, <3>1 DEF ThreadsTyped, StartersSound
    <3>3. StarterSound(x)'
      BY <1>15, <3>2, StarterStays
    <3> QED
      BY <3>2, <3>3
  <2> QED
    BY <2>1, <2>2
<1>17. ASSUME NEW v \in Numbers PROVE \A x \in {worker'[v]} : WorkerSound(x)'
  <2>1. CASE v = n
    BY <1>4, <1>13, <2>1 DEF ThreadsTyped
  <2>2. CASE v # n
    <3>1. PICK x : x = worker[v]
      OBVIOUS
    <3>2. x \in Worker /\ WorkerSound(x) /\ worker'[v] = x
      BY <1>4, <2>2, <3>1 DEF ThreadsTyped, WorkersSound
    <3>3. WorkerSound(x)'
      BY <1>15, <3>2, WorkerStays
    <3> QED
      BY <3>2, <3>3
  <2> QED
    BY <2>1, <2>2
<1>18. ProposalsTyped' /\ SessionsTyped' /\ Dense' /\ Linked'
  BY <1>4, <1>15, LinkedStays DEF ProposalsTyped, SessionsTyped, Dense
<1> QED
  BY <1>9, <1>14, <1>16, <1>17, <1>18 DEF StartersSound, WorkersSound

----------------------------------------------------------------------------
(* Workers.                                                                *)

LEMMA OneWorkerStep ==
  ASSUME CodexInv, NEW w \in Numbers, NEW h \in Worker,
         worker' = [worker EXCEPT ![w] = h],
         lock' \in {0} \cup Numbers,
         UNCHANGED <<proposals, starter, started, restarts>>,
         SessionsTyped',
         \A id \in SessionIds : Exists(sessions'[id]) <=> Exists(sessions[id]),
         WorkerSound(h)'
  PROVE  CodexInv'
<1> USE DEF CodexInv
<1>1. ThreadsTyped'
  BY DEF ThreadsTyped
<1>2. SessionsGrow /\ \A q \in Proposals : SessionsOf(q)' = SessionsOf(q)
  BY DEF SessionsGrow, SessionsOf, SessionIds
<1>3. ASSUME NEW u \in Threads PROVE \A x \in {starter'[u]} : StarterSound(x)'
  <2>1. PICK x : x = starter[u]
    OBVIOUS
  <2>2. x \in Starter /\ StarterSound(x) /\ starter'[u] = x
    BY <2>1 DEF ThreadsTyped, StartersSound
  <2>3. StarterSound(x)'
    BY <1>2, <2>2, StarterStays
  <2> QED
    BY <2>2, <2>3
<1>4. ASSUME NEW v \in Numbers PROVE \A x \in {worker'[v]} : WorkerSound(x)'
  <2>1. CASE v = w
    BY <2>1 DEF ThreadsTyped
  <2>2. CASE v # w
    <3>1. PICK x : x = worker[v]
      OBVIOUS
    <3>2. x \in Worker /\ WorkerSound(x) /\ worker'[v] = x
      BY <2>2, <3>1 DEF ThreadsTyped, WorkersSound
    <3>3. WorkerSound(x)'
      BY <1>2, <3>2, WorkerStays
    <3> QED
      BY <3>2, <3>3
  <2> QED
    BY <2>1, <2>2
<1>5. ProposalsTyped' /\ Dense' /\ Linked'
  BY <1>2, LinkedStays DEF ProposalsTyped, Dense
<1>6. Room'
  BY DEF Room, InFlight
<1> QED
  BY <1>1, <1>3, <1>4, <1>5, <1>6 DEF StartersSound, WorkersSound

LEMMA StopType ==
  ASSUME CodexInv, NEW w \in Numbers
  PROVE  /\ Stop(w) \in Worker
         /\ Stop(w).pc = "gone"
         /\ Stop(w).id = worker[w].id
         /\ WorkerSound(Stop(w))
<1>1. worker[w].id \in SessionIds
  BY DEF CodexInv, ThreadsTyped, Worker
<1>2. /\ Stop(w) \in Worker
      /\ Stop(w).pc = "gone"
      /\ Stop(w).section = "outside"
      /\ Stop(w).seen = NoSession /\ Stop(w).own = NoSession
      /\ Stop(w).id = worker[w].id
  BY <1>1, NoWorkerType DEF Stop, Worker
<1>3. Len(NoSession.events) <= MaxEvents
  BY NoSessionType, CodexBounds
<1> QED
  BY <1>2, <1>3 DEF WorkerSound

(* Where a worker can be after a section.                                  *)
LEMMA MovesType ==
  ASSUME CodexInv, NEW w \in Numbers, NEW h \in Moves(w),
         worker[w].pc \in {"run", "stream", "complete", "fail", "report"}
  PROVE  /\ h \in Worker
         /\ WorkerSound(h)
         /\ h.section = "outside"
         /\ h.id = worker[w].id
         /\ \/ /\ h.seen = worker[w].seen /\ h.own = worker[w].own
               /\ h.prompt = worker[w].prompt
            \/ h.pc = "gone"
<1>0. PICK x : x = worker[w]
  OBVIOUS
<1>1. x \in Worker /\ WorkerSound(x)
  BY <1>0 DEF CodexInv, ThreadsTyped, WorkersSound
<1>2. x.left \in 0..(MaxStream + 2) /\ MaxStream \in Nat \ {0}
  BY <1>1, CodexBounds DEF Worker
<1>3. Exists(sessions[x.id]) /\ Len(x.seen.events) <= MaxEvents /\ Len(x.own.events) <= MaxEvents
  BY <1>0, <1>1 DEF WorkerSound
<1>4. Stop(w) \in Worker /\ WorkerSound(Stop(w)) /\ Stop(w).id = x.id
  BY <1>0, StopType
<1>5. Stop(w).section = "outside" /\ Stop(w).pc = "gone"
  BY NoWorkerType, <1>0, <1>1 DEF Stop, Worker
<1>6. CASE h = Stop(w)
  BY <1>0, <1>4, <1>5, <1>6
<1>7. CASE x.pc = "run" /\ h = [x EXCEPT !.pc = "stream", !.section = "outside"]
  BY <1>0, <1>1, <1>2, <1>3, <1>7 DEF Worker, WorkerSound
<1>8. CASE /\ x.pc \in {"stream", "report"}
           /\ x.left > 1
           /\ h = [x EXCEPT !.left = x.left - 1, !.section = "outside"]
  <2>1. x.left - 1 \in 0..(MaxStream + 2) /\ x.left - 1 >= 1
    BY <1>2, <1>8
  <2> QED
    BY <1>0, <1>1, <1>3, <1>8, <2>1 DEF Worker, WorkerSound
<1>9. CASE \E pc \in {"complete", "fail"} : h = [x EXCEPT !.pc = pc, !.section = "outside"]
  BY <1>0, <1>1, <1>2, <1>3, <1>9 DEF Worker, WorkerSound
<1>10. CASE \E n \in {1, 2} : h = [x EXCEPT !.pc = "report", !.left = n, !.section = "outside"]
  <2>1. {1, 2} \subseteq 0..(MaxStream + 2) /\ \A n \in {1, 2} : n >= 1
    BY <1>2
  <2> QED
    BY <1>0, <1>1, <1>3, <1>10, <2>1 DEF Worker, WorkerSound
<1>11. \/ h = Stop(w)
       \/ x.pc = "run" /\ h = [x EXCEPT !.pc = "stream", !.section = "outside"]
       \/ /\ x.pc \in {"stream", "report"}
          /\ x.left > 1
          /\ h = [x EXCEPT !.left = x.left - 1, !.section = "outside"]
       \/ \E pc \in {"complete", "fail"} : h = [x EXCEPT !.pc = pc, !.section = "outside"]
       \/ \E n \in {1, 2} : h = [x EXCEPT !.pc = "report", !.left = n, !.section = "outside"]
  <2>1. CASE x.pc = "run"
    BY <1>0, <2>1 DEF Moves
  <2>2. CASE x.pc \in {"stream", "report"} /\ x.left > 1
    <3>1. ~(x.left <= 1)
      BY <1>2, <2>2
    <3>2. x.pc # "run" /\ x.pc # "complete" /\ x.pc # "fail"
      BY <2>2
    <3>3. Moves(w) = {[x EXCEPT !.left = x.left - 1, !.section = "outside"]}
      BY <1>0, <2>2, <3>1, <3>2 DEF Moves
    <3> QED
      BY <2>2, <3>3
  <2>3. CASE x.pc = "stream" /\ x.left <= 1
    <3>1. ~(x.left > 1)
      BY <1>2, <2>3
    <3>2. Moves(w) = {[x EXCEPT !.pc = pc, !.section = "outside"] :
                        pc \in {"complete"} \cup {f \in {"fail"} : x.mode = "real"}}
      BY <1>0, <2>3, <3>1 DEF Moves
    <3> QED
      BY <3>2
  <2>4. CASE x.pc = "complete"
    BY <1>0, <2>4 DEF Moves
  <2>5. CASE x.pc = "fail"
    BY <1>0, <2>5 DEF Moves
  <2>6. CASE x.pc = "report" /\ x.left <= 1
    <3>1. ~(x.left > 1)
      BY <1>2, <2>6
    <3> QED
      BY <1>0, <2>6, <3>1 DEF Moves
  <2>7. x.left > 1 \/ x.left <= 1
    BY <1>2
  <2> QED
    BY <1>0, <2>1, <2>2, <2>3, <2>4, <2>5, <2>6, <2>7
<1> QED
  BY <1>6, <1>7, <1>8, <1>9, <1>10, <1>11

(* The first look at a session.                                            *)
LEMMA BeginKeepsInv ==
  ASSUME CodexInv, NEW w \in Numbers, Begin(w)
  PROVE  CodexInv'
<1>0. PICK x : x = worker[w]
  OBVIOUS
<1>1. /\ x \in Worker
      /\ WorkerSound(x)
      /\ x.id \in SessionIds
      /\ x.pc = "born"
      /\ Exists(sessions[x.id])
  BY <1>0 DEF CodexInv, ThreadsTyped, WorkersSound, WorkerSound, Worker, Begin
<1>2. UNCHANGED <<proposals, sessions, lock, starter, started, restarts>>
  BY DEF Begin
<1>3. CASE Readable(sessions[x.id])
  <2>1. PICK session : session = Load(sessions[x.id], NoSession)
    OBVIOUS
  <2>2. session \in Session /\ Len(session.events) <= MaxEvents
    BY <1>1, <1>3, <2>1 DEF Load, CodexInv, SessionsTyped, File
  <2>3. PICK n \in 1..MaxStream, pc \in {"run", "fail"} :
          worker' = [worker EXCEPT ![w] =
            [x EXCEPT !.pc = pc, !.mode = session.mode, !.prompt = session.prompt,
                      !.own = session, !.seen = session, !.left = n]]
    BY <1>0, <1>3, <2>1 DEF Begin, WorkerFile
  <2>4. PICK h : h = [x EXCEPT !.pc = pc, !.mode = session.mode, !.prompt = session.prompt,
                               !.own = session, !.seen = session, !.left = n]
    OBVIOUS
  <2>5. n \in 0..(MaxStream + 2) /\ n >= 1
    BY CodexBounds
  <2>6. /\ h \in Worker
        /\ h.pc = pc
        /\ h.section = x.section
        /\ h.id = x.id
        /\ h.seen = session /\ h.own = session
        /\ h.left = n
    BY <1>1, <2>2, <2>4, <2>5 DEF Worker, Session
  <2>7. WorkerSound(h)'
    BY <1>1, <1>2, <2>2, <2>5, <2>6 DEF WorkerSound
  <2>8. worker' = [worker EXCEPT ![w] = h]
    BY <2>3, <2>4
  <2> QED
    BY <1>2, <2>6, <2>7, <2>8, OneWorkerStep DEF CodexInv, SessionsTyped, ThreadsTyped
<1>4. CASE ~Readable(sessions[x.id])
  <2>1. worker' = [worker EXCEPT ![w] = Stop(w)]
    BY <1>0, <1>4 DEF Begin, WorkerFile
  <2>2. PICK h : h = Stop(w)
    OBVIOUS
  <2>3. h \in Worker /\ WorkerSound(h)
    BY <2>2, StopType
  <2>4. WorkerSound(h)'
    BY <1>2, <2>3 DEF WorkerSound
  <2> QED
    BY <1>2, <2>1, <2>2, <2>3, <2>4, OneWorkerStep DEF CodexInv, SessionsTyped, ThreadsTyped
<1> QED
  BY <1>3, <1>4

LEMMA EnterSectionKeepsInv ==
  ASSUME CodexInv, NEW w \in Numbers, EnterSection(w)
  PROVE  CodexInv'
<1>0. PICK x : x = worker[w]
  OBVIOUS
<1>1. /\ x \in Worker
      /\ WorkerSound(x)
      /\ x.id \in SessionIds
      /\ x.pc \in {"run", "stream", "complete", "fail", "report"}
  BY <1>0 DEF CodexInv, ThreadsTyped, WorkersSound, Worker, EnterSection, AtSection, SetsStatus,
              Appends
<1>2. PICK seen : seen = Load(sessions[x.id], x.own)
  OBVIOUS
<1>3. seen \in Session /\ Len(seen.events) <= MaxEvents
  BY <1>1, <1>2 DEF Load, CodexInv, SessionsTyped, File, Worker, WorkerSound
<1>4. PICK h : h = [x EXCEPT !.section = "read", !.seen = seen,
                           !.own = IF SetsStatus(w) THEN seen ELSE x.own]
  OBVIOUS
<1>5. /\ worker' = [worker EXCEPT ![w] = h]
      /\ lock' = w
      /\ UNCHANGED <<proposals, sessions, starter, started, restarts>>
  BY <1>0, <1>2, <1>4 DEF EnterSection, Entered, WorkerFile
<1>6. /\ h \in Worker
      /\ h.pc = x.pc
      /\ h.left = x.left
      /\ h.id = x.id
      /\ h.seen = seen /\ h.own \in {seen, x.own}
  BY <1>1, <1>3, <1>4 DEF Worker
<1>7. WorkerSound(h)'
  BY <1>1, <1>3, <1>5, <1>6 DEF WorkerSound
<1> QED
  BY <1>5, <1>6, <1>7, OneWorkerStep DEF CodexInv, SessionsTyped

LEMMA SkipSectionKeepsInv ==
  ASSUME CodexInv, NEW w \in Numbers, SkipSection(w)
  PROVE  CodexInv'
<1>1. PICK h \in Moves(w) : worker' = [worker EXCEPT ![w] = h]
  BY DEF SkipSection
<1>2. h \in Worker /\ WorkerSound(h)
  BY MovesType DEF SkipSection, Appends
<1>3. UNCHANGED <<proposals, sessions, lock, starter, started, restarts>>
  BY DEF SkipSection
<1>4. WorkerSound(h)'
  BY <1>2, <1>3 DEF WorkerSound
<1> QED
  BY <1>1, <1>2, <1>3, <1>4, OneWorkerStep DEF CodexInv, SessionsTyped, ThreadsTyped

LEMMA OpenFileKeepsInv ==
  ASSUME CodexInv, NEW w \in Numbers, OpenFile(w)
  PROVE  CodexInv'
<1>0. PICK x : x = worker[w]
  OBVIOUS
<1>1. /\ x \in Worker
      /\ WorkerSound(x)
      /\ x.id \in SessionIds
      /\ x.section = "read"
  BY <1>0 DEF CodexInv, ThreadsTyped, WorkersSound, Worker, OpenFile
<1>2. PICK h : h = [x EXCEPT !.section = "open"]
  OBVIOUS
<1>3. /\ worker' = [worker EXCEPT ![w] = h]
      /\ sessions' = [sessions EXCEPT ![x.id] = Truncated(sessions[x.id])]
      /\ UNCHANGED <<proposals, lock, starter, started, restarts>>
  BY <1>0, <1>2 DEF OpenFile, WorkerFile
<1>4. /\ h \in Worker
      /\ h.pc = x.pc
      /\ h.left = x.left
      /\ h.id = x.id
      /\ h.seen = x.seen /\ h.own = x.own
  BY <1>1, <1>2 DEF Worker
<1>5. Exists(sessions[x.id]) /\ x.pc # "gone"
  BY <1>1 DEF WorkerSound
<1>6. SessionsTyped'
  BY <1>1, <1>3 DEF CodexInv, SessionsTyped, Truncated, File, FileStates
<1>7. \A id \in SessionIds : Exists(sessions'[id]) <=> Exists(sessions[id])
  BY <1>1, <1>3, <1>5 DEF CodexInv, SessionsTyped, Truncated, File, Exists
<1>8. WorkerSound(h)'
  BY <1>1, <1>4, <1>7 DEF WorkerSound
<1> QED
  BY <1>3, <1>4, <1>6, <1>7, <1>8, OneWorkerStep DEF CodexInv, ThreadsTyped

LEMMA LatestType ==
  ASSUME NEW events \in Seq(Event)
  PROVE  /\ Latest(events) \in Seq(Event)
         /\ Len(Latest(events)) = IF Len(events) > MaxEvents THEN MaxEvents ELSE Len(events)
         /\ Len(events) > MaxEvents =>
              \A i \in 1..MaxEvents : Latest(events)[i] = events[Len(events) - MaxEvents + i]
<1>1. Len(events) \in Nat /\ MaxEvents \in Nat \ {0}
  BY CodexBounds
<1>2. CASE Len(events) > MaxEvents
  <2> DEFINE m == Len(events) - MaxEvents + 1
             n == Len(events)
  <2>1. m \in 1..(Len(events) + 1) /\ n \in 0..Len(events) /\ m <= n /\ n - m + 1 = MaxEvents
    BY <1>1, <1>2
  <2>2. Latest(events) = SubSeq(events, m, n)
    BY <1>2 DEF Latest
  <2>3. /\ SubSeq(events, m, n) \in Seq(Event)
        /\ Len(SubSeq(events, m, n)) = MaxEvents
        /\ \A i \in 1..MaxEvents : SubSeq(events, m, n)[i] = events[m + i - 1]
    BY <2>1, SubSeqProperties
  <2>4. \A i \in 1..MaxEvents : m + i - 1 = Len(events) - MaxEvents + i
    BY <1>1
  <2> QED
    BY <1>2, <2>2, <2>3, <2>4
<1>3. CASE ~(Len(events) > MaxEvents)
  BY <1>3 DEF Latest
<1> QED
  BY <1>2, <1>3

(* What a section writes is a session within the limit.                    *)
LEMMA ChangesType ==
  ASSUME CodexInv, NEW w \in Numbers, worker[w].section # "outside", NEW session \in Changes(w)
  PROVE  /\ session \in Session
         /\ Len(session.events) <= MaxEvents
         /\ session.prompt = worker[w].seen.prompt
<1>0. PICK x : x = worker[w]
  OBVIOUS
<1>1. x \in Worker /\ WorkerSound(x)
  BY <1>0 DEF CodexInv, ThreadsTyped, WorkersSound
<1>2. PICK seen : seen = x.seen
  OBVIOUS
<1>3. seen \in Session /\ Len(seen.events) <= MaxEvents
  BY <1>1, <1>2 DEF Worker, WorkerSound
<1>4. CASE session = seen
  BY <1>0, <1>2, <1>3, <1>4
<1>5. CASE \E status \in {"RUNNING", "COMPLETED", "FAILED"} :
             session = [seen EXCEPT !.status = status]
  BY <1>0, <1>2, <1>3, <1>5 DEF Session, Ended
<1>6. PICK event : event = <<w, x.pc, x.left>>
  OBVIOUS
<1>7. CASE /\ x.pc \in {"stream", "report"}
           /\ session = [seen EXCEPT !.events = Latest(Append(seen.events, event))]
  <2>1. x.left \in 1..(MaxStream + 2)
    BY <1>1, <1>7, CodexBounds DEF Worker, WorkerSound
  <2>2. event \in Event
    BY <1>6, <1>7, <2>1 DEF Event
  <2>3. PICK events : events = Append(seen.events, event)
    OBVIOUS
  <2>4. events \in Seq(Event)
    BY <1>3, <2>2, <2>3 DEF Session
  <2>5. Latest(events) \in Seq(Event) /\ Len(Latest(events)) <= MaxEvents
    BY <2>4, LatestType, CodexBounds
  <2> QED
    BY <1>0, <1>2, <1>3, <1>7, <2>3, <2>5 DEF Session
<1>8. \/ session = seen
      \/ \E status \in {"RUNNING", "COMPLETED", "FAILED"} :
           session = [seen EXCEPT !.status = status]
      \/ /\ x.pc \in {"stream", "report"}
         /\ session = [seen EXCEPT !.events = Latest(Append(seen.events, event))]
  <2>1. x.pc \in {"run", "stream", "complete", "fail", "report"}
    BY <1>0, <1>1 DEF WorkerSound
  <2> QED
    BY <1>0, <1>2, <1>6, <2>1 DEF Changes
<1> QED
  BY <1>4, <1>5, <1>7, <1>8

LEMMA FillFileKeepsInv ==
  ASSUME CodexInv, NEW w \in Numbers, FillFile(w)
  PROVE  CodexInv'
<1>0. PICK x : x = worker[w]
  OBVIOUS
<1>1. /\ x \in Worker
      /\ WorkerSound(x)
      /\ x.id \in SessionIds
      /\ x.section = "open"
      /\ x.pc \in {"run", "stream", "complete", "fail", "report"}
  BY <1>0 DEF CodexInv, ThreadsTyped, WorkersSound, WorkerSound, Worker, FillFile
<1>2. PICK h \in Moves(w) : worker' = [worker EXCEPT ![w] = h]
  BY DEF FillFile
<1>3. h \in Worker /\ WorkerSound(h)
  BY <1>0, <1>1, MovesType
<1>4. PICK session \in Changes(w) :
        \E file \in Written(sessions[x.id], session, NoSession) :
          sessions' = [sessions EXCEPT ![x.id] = file]
  BY <1>0 DEF FillFile, WorkerFile
<1>5. PICK file \in Written(sessions[x.id], session, NoSession) :
        sessions' = [sessions EXCEPT ![x.id] = file]
  BY <1>4
<1>6. session \in Session /\ Len(session.events) <= MaxEvents
  BY <1>0, <1>1, ChangesType
<1>7. /\ file \in File(Session)
      /\ Len(file.content.events) <= MaxEvents
      /\ Exists(file)
  <2>1. CASE file = WholeFile(session)
    BY <1>6, <2>1 DEF WholeFile, File, FileStates, Exists
  <2>2. CASE file = [state |-> "mixed", content |-> NoSession]
    <3>1. Len(<< >>) <= MaxEvents
      BY CodexBounds
    <3> QED
      BY <2>2, <3>1, NoSessionType DEF File, FileStates, Exists
  <2> QED
    BY <1>5, <2>1, <2>2 DEF Written
<1>8. SessionsTyped'
  BY <1>1, <1>5, <1>7 DEF CodexInv, SessionsTyped
<1>9. Exists(sessions[x.id])
  BY <1>1 DEF WorkerSound
<1>10. \A id \in SessionIds : Exists(sessions'[id]) <=> Exists(sessions[id])
  BY <1>1, <1>5, <1>7, <1>9 DEF CodexInv, SessionsTyped
<1>11. WorkerSound(h)'
  <2>1. h.id \in SessionIds
    BY <1>3 DEF Worker
  <2> QED
    BY <1>3, <1>10, <2>1 DEF WorkerSound
<1>12. lock' = 0 /\ UNCHANGED <<proposals, starter, started, restarts>>
  BY DEF FillFile
<1> QED
  BY <1>2, <1>3, <1>8, <1>10, <1>11, <1>12, OneWorkerStep

LEMMA StreamBreaksKeepsInv ==
  ASSUME CodexInv, NEW w \in Numbers, StreamBreaks(w)
  PROVE  CodexInv'
<1>0. PICK x : x = worker[w]
  OBVIOUS
<1>1. x \in Worker /\ WorkerSound(x) /\ x.pc = "stream"
  BY <1>0 DEF CodexInv, ThreadsTyped, WorkersSound, StreamBreaks
<1>2. PICK h : h = [x EXCEPT !.pc = "fail"]
  OBVIOUS
<1>3. /\ worker' = [worker EXCEPT ![w] = h]
      /\ UNCHANGED <<proposals, sessions, lock, starter, started, restarts>>
  BY <1>0, <1>2 DEF StreamBreaks
<1>4. /\ h \in Worker
      /\ WorkerSound(h)
  BY <1>1, <1>2 DEF Worker, WorkerSound
<1>5. WorkerSound(h)'
  BY <1>3, <1>4 DEF WorkerSound
<1> QED
  BY <1>3, <1>4, <1>5, OneWorkerStep DEF CodexInv, SessionsTyped, ThreadsTyped

(* Nothing is left of approvals and workers, and every file is.            *)
LEMMA RestartKeepsInv ==
  ASSUME CodexInv, Restart
  PROVE  CodexInv'
<1> USE DEF CodexInv
<1>1. /\ starter' = [t \in Threads |-> IdleStarter]
      /\ worker' = [w \in Numbers |-> Stop(w)]
      /\ lock' = 0
      /\ restarts' = restarts + 1
      /\ restarts < MaxRestarts
      /\ UNCHANGED <<proposals, sessions, started>>
  BY DEF Restart
<1>2. ThreadsTyped'
  BY <1>1, IdleIsStarter, StopType, CodexBounds DEF ThreadsTyped
<1>3. StartersSound'
  BY <1>1, IdleIsStarter DEF StartersSound, StarterSound
<1>4. WorkersSound'
  <2>1. ASSUME NEW w \in Numbers PROVE \A h \in {worker'[w]} : WorkerSound(h)'
    <3>1. PICK h : h = Stop(w)
      OBVIOUS
    <3>2. WorkerSound(h)
      BY <3>1, StopType
    <3>3. WorkerSound(h)' /\ worker'[w] = h
      BY <1>1, <3>1, <3>2 DEF WorkerSound
    <3> QED
      BY <3>3
  <2> QED
    BY <2>1 DEF WorkersSound
<1>5. \A q \in Proposals : SessionsOf(q)' = SessionsOf(q)
  BY <1>1 DEF SessionsOf
<1>6. SessionsGrow
  BY <1>1 DEF SessionsGrow
<1>7. ProposalsTyped' /\ SessionsTyped' /\ Dense' /\ Linked'
  BY <1>1, <1>5, <1>6, LinkedStays DEF ProposalsTyped, SessionsTyped, Dense
<1>8. Room'
  <2>1. InFlight' = {}
    BY <1>1, IdleIsStarter DEF InFlight
  <2>2. Cardinality(InFlight') = 0
    BY <2>1, FS_EmptySet
  <2>3. started \in 0..MaxStarts /\ MaxStarts \in Nat
    BY CodexBounds DEF ThreadsTyped
  <2> QED
    BY <1>1, <2>2, <2>3 DEF Room
<1> QED
  BY <1>2, <1>3, <1>4, <1>7, <1>8

----------------------------------------------------------------------------
(* The invariant holds, and what follows.                                  *)

LEMMA CodexInitInv == CodexInit => CodexInv
<1> SUFFICES ASSUME CodexInit PROVE CodexInv
  OBVIOUS
<1> USE DEF CodexInit
<1>1. ProposalsTyped
  BY DEF ProposalsTyped, NewProposal, Proposal, WholeFile, File, FileStates
<1>2. /\ NoFile(NoSession) \in File(Session)
      /\ NoFile(NoSession).content.events = << >>
      /\ ~Exists(NoFile(NoSession))
  BY NoSessionType DEF NoFile, File, FileStates, Exists
<1>3. SessionsTyped
  <2>1. Len(<< >>) <= MaxEvents
    BY CodexBounds
  <2> QED
    BY <1>2, <2>1 DEF SessionsTyped
<1>4. ThreadsTyped
  BY IdleIsStarter, NoWorkerType, CodexBounds DEF ThreadsTyped
<1>5. \A p \in Proposals : SessionsOf(p) = {}
  BY <1>2 DEF SessionsOf, SessionIds
<1>6. Dense
  <2>1. Cardinality({}) = 0 /\ 1..0 = {}
    BY FS_EmptySet
  <2> QED
    BY <1>5, <2>1 DEF Dense
<1>7. Linked
  BY DEF Linked, WholeFile, NewProposal
<1>8. Room
  <2>1. InFlight = {}
    BY IdleIsStarter DEF InFlight
  <2> QED
    BY <2>1, FS_EmptySet, CodexBounds DEF Room
<1>9. StartersSound
  BY IdleIsStarter DEF StartersSound, StarterSound
<1>10. WorkersSound
  <2>1. Len(NoWorker.seen.events) <= MaxEvents /\ Len(NoWorker.own.events) <= MaxEvents
    BY NoWorkerType, NoSessionType, CodexBounds
  <2> QED
    BY <2>1, NoWorkerType DEF WorkersSound, WorkerSound
<1> QED
  BY <1>1, <1>3, <1>4, <1>6, <1>7, <1>8, <1>9, <1>10 DEF CodexInv

LEMMA CodexStep == CodexInv /\ [CodexNext]_codexVars => CodexInv'
<1> SUFFICES ASSUME CodexInv, [CodexNext]_codexVars PROVE CodexInv'
  OBVIOUS
<1>1. ASSUME NEW t \in Threads, NEW p \in Proposals, NEW starts \in Approvals,
             ReadProposal(t, p, starts)
      PROVE  CodexInv'
  BY <1>1, ReadProposalKeepsInv
<1>2. ASSUME NEW t \in Threads, ContinueApproval(t) PROVE CodexInv'
  BY <1>2, NumberSessionKeepsInv, OpenSessionKeepsInv, FillSessionKeepsInv,
     OpenProposalKeepsInv, FillProposalKeepsInv, SpawnWorkerKeepsInv DEF ContinueApproval
<1>3. ASSUME NEW w \in Numbers, WorkerStep(w) PROVE CodexInv'
  BY <1>3, BeginKeepsInv, EnterSectionKeepsInv, SkipSectionKeepsInv, OpenFileKeepsInv,
     FillFileKeepsInv, StreamBreaksKeepsInv DEF WorkerStep
<1>4. ASSUME Restart PROVE CodexInv'
  BY <1>4, RestartKeepsInv
<1>5. CASE UNCHANGED codexVars
  <2>1. ProposalsTyped' /\ SessionsTyped' /\ ThreadsTyped'
    BY <1>5 DEF codexVars, CodexInv, ProposalsTyped, SessionsTyped, ThreadsTyped
  <2>2. /\ \A q \in Proposals : SessionsOf(q)' = SessionsOf(q)
        /\ SessionsGrow
        /\ InFlight' = InFlight
    BY <1>5 DEF codexVars, SessionsOf, SessionsGrow, InFlight
  <2>3. Dense' /\ Linked' /\ Room'
    BY <1>5, <2>2, LinkedStays DEF codexVars, CodexInv, Dense, Room
  <2>4. ASSUME NEW t \in Threads PROVE \A v \in {starter'[t]} : StarterSound(v)'
    <3>1. PICK v : v = starter[t]
      OBVIOUS
    <3>2. v \in Starter /\ StarterSound(v) /\ starter'[t] = v
      BY <1>5, <3>1 DEF codexVars, CodexInv, ThreadsTyped, StartersSound
    <3>3. StarterSound(v)'
      BY <2>2, <3>2, StarterStays
    <3> QED
      BY <3>2, <3>3
  <2>5. ASSUME NEW w \in Numbers PROVE \A h \in {worker'[w]} : WorkerSound(h)'
    <3>1. PICK h : h = worker[w]
      OBVIOUS
    <3>2. h \in Worker /\ WorkerSound(h) /\ worker'[w] = h
      BY <1>5, <3>1 DEF codexVars, CodexInv, ThreadsTyped, WorkersSound
    <3>3. WorkerSound(h)'
      BY <2>2, <3>2, WorkerStays
    <3> QED
      BY <3>2, <3>3
  <2> QED
    BY <2>1, <2>3, <2>4, <2>5 DEF CodexInv, StartersSound, WorkersSound
<1> QED
  BY <1>1, <1>2, <1>3, <1>4, <1>5 DEF CodexNext

(* The inductive invariant holds whatever approvals and workers race.      *)
THEOREM CodexInvariant == CodexSpec => []CodexInv
BY CodexInitInv, CodexStep, PTL DEF CodexSpec

(* Every variable of the handoff has its type, whatever approvals, workers *)
(* and restarts do, and no more workers are started than the bound.        *)
THEOREM CodexTypeCorrect == CodexSpec => []CodexTypeOK
<1>1. CodexInv => CodexTypeOK
  BY DEF CodexInv, CodexTypeOK, ProposalsTyped, SessionsTyped, ThreadsTyped
<1> QED
  BY <1>1, CodexInvariant, PTL

(* However approvals of a proposal race and wherever a restart cuts them   *)
(* off, its sessions are numbered without a gap, and it links only to a    *)
(* session that was made (_next_codex_session_id counts the files).        *)
THEOREM SessionsStayAccounted == CodexSpec => []SessionsAccountedFor
<1>1. CodexInv => SessionsAccountedFor
  BY DEF CodexInv, Dense, Linked, SessionsAccountedFor, SessionsOf
<1> QED
  BY <1>1, CodexInvariant, PTL

----------------------------------------------------------------------------
(* Activities. A worker in its locked section holds what its file shows,   *)
(* or the file has been written afresh since; and a file that cannot be    *)
(* read has nothing to lose, unless the holder of the lock has it open.    *)

InSeq(events) == {events[k] : k \in DOMAIN events}

(* The human's approval is the first event, until the limit drops it.      *)
Marked(events) == Approval \in InSeq(events) \/ Len(events) = MaxEvents

Fresh(id) == InSeq(sessions[id].content.events) \subseteq {Approval}

FilesMarked ==
  \A id \in SessionIds :
    /\ Readable(sessions[id]) => Marked(sessions[id].content.events)
    /\ sessions[id].state \in {"mixed", "absent"} => Fresh(id)

OpenBy(v, id) == \A x \in {worker[v]} : x.section = "open" /\ x.id = id

Held(w, h) ==
  /\ h.pc \notin {"born", "gone"} =>
       /\ Marked(h.seen.events) /\ Marked(h.own.events)
       /\ \/ sessions[h.id].state \in {"whole", "mixed"}
          \/ Fresh(h.id)
          \/ lock \in Numbers /\ OpenBy(lock, h.id)
  /\ h.section # "outside" =>
       /\ lock = w
       /\ \/ Fresh(h.id)
          \/ InSeq(sessions[h.id].content.events) \subseteq InSeq(h.seen.events)
          \/ Len(h.seen.events) = MaxEvents
  /\ w > started => h.pc = "gone"

WorkersHold == \A w \in Numbers : \A h \in {worker[w]} : Held(w, h)

KeptInv == FilesMarked /\ WorkersHold

LEMMA KeptInit == CodexInit => KeptInv
<1> SUFFICES ASSUME CodexInit PROVE KeptInv
  OBVIOUS
<1>1. FilesMarked
  BY NoSessionType DEF CodexInit, FilesMarked, NoFile, Readable, Fresh, InSeq
<1>2. WorkersHold
  BY NoWorkerType DEF CodexInit, WorkersHold, Held
<1> QED
  BY <1>1, <1>2 DEF KeptInv

(* Steps that touch neither sessions nor workers.                          *)
LEMMA KeptUntouched ==
  ASSUME KeptInv, UNCHANGED <<sessions, lock, worker, started>>
  PROVE  KeptInv'
<1>1. FilesMarked'
  BY DEF KeptInv, FilesMarked, Fresh
<1>2. ASSUME NEW w \in Numbers, NEW h, Held(w, h) PROVE Held(w, h)'
  BY <1>2 DEF Held, Fresh, OpenBy
<1>3. WorkersHold'
  BY <1>2 DEF KeptInv, WorkersHold
<1> QED
  BY <1>1, <1>3 DEF KeptInv

(* An approval writes a session afresh.                                    *)
LEMMA KeptAfresh ==
  ASSUME CodexInv, KeptInv, NEW id \in SessionIds, NEW file \in File(Session),
         sessions' = [sessions EXCEPT ![id] = file],
         InSeq(file.content.events) \subseteq {Approval},
         Readable(file) => Marked(file.content.events),
         UNCHANGED <<lock, worker, started>>
  PROVE  KeptInv'
<1>1. sessions'[id] = file /\ \A other \in SessionIds \ {id} : sessions'[other] = sessions[other]
  BY DEF CodexInv, SessionsTyped
<1>2. Fresh(id)' /\ \A other \in SessionIds \ {id} : Fresh(other)' <=> Fresh(other)
  BY <1>1 DEF Fresh
<1>3. FilesMarked'
  BY <1>1, <1>2 DEF KeptInv, FilesMarked
<1>4. ASSUME NEW w \in Numbers, NEW h \in Worker, Held(w, h) PROVE Held(w, h)'
  <2>1. h.id \in SessionIds
    BY DEF Worker
  <2>2. \A v : OpenBy(v, h.id)' <=> OpenBy(v, h.id)
    BY DEF OpenBy
  <2>3. CASE h.id = id
    BY <1>2, <1>4, <2>3 DEF Held
  <2>4. CASE h.id # id
    BY <1>1, <1>2, <1>4, <2>1, <2>2, <2>4 DEF Held
  <2> QED
    BY <2>3, <2>4
<1>5. WorkersHold'
  BY <1>4 DEF KeptInv, WorkersHold, CodexInv, ThreadsTyped
<1> QED
  BY <1>3, <1>5 DEF KeptInv

LEMMA KeptOpenSession ==
  ASSUME CodexInv, KeptInv, NEW t \in Threads, OpenSession(t)
  PROVE  KeptInv'
<1>1. PICK id : id = SessionOf(t)
  OBVIOUS
<1>2. id \in SessionIds
  BY <1>1 DEF OpenSession, CodexInv, ThreadsTyped, StartersSound, StarterSound, SessionOf,
              SessionIds, Starter
<1>3. PICK file : file = Truncated(NoFile(NoSession))
  OBVIOUS
<1>4. /\ file \in File(Session)
      /\ file.content.events = << >>
      /\ ~Readable(file)
  BY <1>3, NoSessionType DEF Truncated, NoFile, File, FileStates, Readable
<1>5. InSeq(file.content.events) \subseteq {Approval}
  BY <1>4 DEF InSeq
<1>6. sessions' = [sessions EXCEPT ![id] = file] /\ UNCHANGED <<lock, worker, started>>
  BY <1>1, <1>3 DEF OpenSession
<1> QED
  BY <1>2, <1>4, <1>5, <1>6, KeptAfresh

LEMMA KeptFillSession ==
  ASSUME CodexInv, KeptInv, NEW t \in Threads, FillSession(t)
  PROVE  KeptInv'
<1>1. PICK id : id = SessionOf(t)
  OBVIOUS
<1>2. PICK prompt : prompt = starter[t].prompt
  OBVIOUS
<1>3. id \in SessionIds /\ prompt \in BOOLEAN
  BY <1>1, <1>2 DEF FillSession, CodexInv, ThreadsTyped, StartersSound, StarterSound, SessionOf,
                    SessionsOf, SessionIds, Starter
<1>4. PICK mode \in Modes :
        \E file \in Written(sessions[id], Queued(prompt, mode), NoSession) :
          sessions' = [sessions EXCEPT ![id] = file]
  BY <1>1, <1>2 DEF FillSession
<1>5. PICK file \in Written(sessions[id], Queued(prompt, mode), NoSession) :
        sessions' = [sessions EXCEPT ![id] = file]
  BY <1>4
<1>6. /\ file \in File(Session)
      /\ InSeq(file.content.events) \subseteq {Approval}
      /\ Readable(file) => Marked(file.content.events)
  <2>1. CASE file = WholeFile(Queued(prompt, mode))
    <3>1. Queued(prompt, mode) \in Session /\ Queued(prompt, mode).events = <<Approval>>
      BY <1>3 DEF Queued, Session, Event
    <3>2. InSeq(<<Approval>>) = {Approval}
      BY DEF InSeq
    <3> QED
      BY <2>1, <3>1, <3>2 DEF WholeFile, File, FileStates, Marked
  <2>2. CASE file = [state |-> "mixed", content |-> NoSession]
    <3>1. InSeq(<< >>) = {}
      BY DEF InSeq
    <3> QED
      BY <2>2, <3>1, NoSessionType DEF File, FileStates, Readable
  <2> QED
    BY <1>5, <2>1, <2>2 DEF Written
<1>7. UNCHANGED <<lock, worker, started>>
  BY DEF FillSession
<1> QED
  BY <1>3, <1>5, <1>6, <1>7, KeptAfresh

LEMMA KeptSpawnWorker ==
  ASSUME CodexInv, KeptInv, NEW t \in Threads, SpawnWorker(t)
  PROVE  KeptInv'
<1>1. PICK n : n = started + 1
  OBVIOUS
<1>2. PICK h : h = [NoWorker EXCEPT !.pc = "born", !.id = SessionOf(t)]
  OBVIOUS
<1>3. /\ worker' = [worker EXCEPT ![n] = h]
      /\ started' = n
      /\ UNCHANGED <<sessions, lock>>
  BY <1>1, <1>2 DEF SpawnWorker
<1>4. h.pc = "born" /\ h.section = "outside"
  BY <1>2, NoWorkerType DEF Worker
<1>5. started \in Nat /\ n \in Nat /\ n > started
  BY <1>1 DEF CodexInv, ThreadsTyped
<1>6. FilesMarked'
  BY <1>3 DEF KeptInv, FilesMarked, Fresh
<1>7. n \in Numbers => worker[n].section = "outside"
  BY <1>5 DEF KeptInv, WorkersHold, Held, CodexInv, WorkersSound, WorkerSound
<1>8. \A v \in Numbers \ {n} : worker'[v] = worker[v]
  BY <1>3 DEF CodexInv, ThreadsTyped
<1>9. \A v \in Numbers : \A id : OpenBy(v, id) => OpenBy(v, id)'
  BY <1>7, <1>8 DEF OpenBy
<1>10. ASSUME NEW w \in Numbers \ {n}, NEW x, Held(w, x) PROVE Held(w, x)'
  <2>1. w > n => w > started
    BY <1>5 DEF Numbers
  <2>2. Fresh(x.id)' <=> Fresh(x.id)
    BY <1>3 DEF Fresh
  <2> QED
    BY <1>3, <1>9, <1>10, <2>1, <2>2 DEF Held
<1>11. Held(n, h)'
  BY <1>3, <1>4, <1>5 DEF Held
<1>12. ASSUME NEW w \in Numbers PROVE \A x \in {worker'[w]} : Held(w, x)'
  <2>1. CASE w = n
    BY <1>3, <1>11, <2>1 DEF CodexInv, ThreadsTyped
  <2>2. CASE w # n
    BY <1>8, <1>10, <2>2 DEF KeptInv, WorkersHold
  <2> QED
    BY <2>1, <2>2
<1> QED
  BY <1>6, <1>12 DEF KeptInv, WorkersHold

(* A step of one worker: the others must keep what they hold.              *)
LEMMA KeptOneWorker ==
  ASSUME CodexInv, KeptInv, NEW w \in Numbers, NEW h,
         worker' = [worker EXCEPT ![w] = h],
         FilesMarked',
         Held(w, h)',
         \A v \in Numbers \ {w} : \A x \in Worker : Held(v, x) => Held(v, x)'
  PROVE  KeptInv'
<1>1. ASSUME NEW v \in Numbers PROVE \A x \in {worker'[v]} : Held(v, x)'
  <2>1. CASE v = w
    <3>1. worker'[v] = h
      BY <2>1 DEF CodexInv, ThreadsTyped
    <3> QED
      BY <2>1, <3>1
  <2>2. CASE v # w
    <3>1. PICK x : x = worker[v]
      OBVIOUS
    <3>2. x \in Worker /\ Held(v, x) /\ worker'[v] = x
      BY <2>2, <3>1 DEF CodexInv, ThreadsTyped, KeptInv, WorkersHold
    <3>3. Held(v, x)'
      BY <2>2, <3>2
    <3> QED
      BY <3>2, <3>3
  <2> QED
    BY <2>1, <2>2
<1> QED
  BY <1>1 DEF KeptInv, WorkersHold

(* A worker that has no file open changes only what it holds itself.       *)
LEMMA KeptOutside ==
  ASSUME CodexInv, KeptInv, NEW w \in Numbers, NEW h,
         worker' = [worker EXCEPT ![w] = h],
         worker[w].section = "outside",
         Held(w, h)',
         UNCHANGED <<sessions, started>>,
         lock' = lock \/ lock = 0
  PROVE  KeptInv'
<1>1. FilesMarked'
  BY DEF KeptInv, FilesMarked, Fresh
<1>2. \A v \in Numbers \ {w} : worker'[v] = worker[v]
  BY DEF CodexInv, ThreadsTyped
<1>3. ASSUME NEW v \in Numbers, NEW id, OpenBy(v, id) PROVE OpenBy(v, id)'
  <2>1. v # w
    BY <1>3 DEF OpenBy
  <2> QED
    BY <1>2, <1>3, <2>1 DEF OpenBy
<1>4. 0 \notin Numbers
  BY DEF Numbers
<1>5. ASSUME NEW v \in Numbers \ {w}, NEW x \in Worker, Held(v, x) PROVE Held(v, x)'
  <2>1. Fresh(x.id)' <=> Fresh(x.id)
    BY DEF Fresh
  <2>2. lock \in Numbers /\ OpenBy(lock, x.id) => (lock \in Numbers /\ OpenBy(lock, x.id))'
    BY <1>3, <1>4
  <2>3. x.section # "outside" => lock' = lock
    BY <1>4, <1>5 DEF Held
  <2> QED
    BY <1>5, <2>1, <2>2, <2>3 DEF Held
<1> QED
  BY <1>1, <1>5, KeptOneWorker

LEMMA KeptBegin ==
  ASSUME CodexInv, KeptInv, NEW w \in Numbers, Begin(w)
  PROVE  KeptInv'
<1>1. PICK x : x = worker[w]
  OBVIOUS
<1>2. /\ x \in Worker
      /\ x.id \in SessionIds
      /\ x.pc = "born"
      /\ x.section = "outside"
      /\ ~(w > started)
  BY <1>1 DEF Begin, CodexInv, ThreadsTyped, WorkersSound, WorkerSound, Worker, KeptInv,
              WorkersHold, Held
<1>3. UNCHANGED <<sessions, lock, started>>
  BY DEF Begin
<1>4. CASE Readable(sessions[x.id])
  <2>1. PICK session : session = sessions[x.id].content
    OBVIOUS
  <2>2. PICK n \in 1..MaxStream, pc \in {"run", "fail"} :
          worker' = [worker EXCEPT ![w] =
            [x EXCEPT !.pc = pc, !.mode = session.mode, !.prompt = session.prompt,
                      !.own = session, !.seen = session, !.left = n]]
    BY <1>1, <1>4, <2>1 DEF Begin, WorkerFile, Load
  <2>3. PICK h : h = [x EXCEPT !.pc = pc, !.mode = session.mode, !.prompt = session.prompt,
                               !.own = session, !.seen = session, !.left = n]
    OBVIOUS
  <2>4. h.section = "outside" /\ h.id = x.id /\ h.seen = session /\ h.own = session
    BY <1>2, <2>3 DEF Worker
  <2>5. Marked(session.events)
    BY <1>2, <1>4, <2>1 DEF KeptInv, FilesMarked
  <2>6. sessions'[h.id].state = "whole"
    BY <1>3, <1>4, <2>4 DEF Readable
  <2>7. Held(w, h)'
    BY <1>2, <1>3, <2>4, <2>5, <2>6 DEF Held
  <2>8. worker' = [worker EXCEPT ![w] = h]
    BY <2>2, <2>3
  <2> QED
    BY <1>1, <1>2, <1>3, <2>7, <2>8, KeptOutside
<1>5. CASE ~Readable(sessions[x.id])
  <2>1. PICK h : h = Stop(w)
    OBVIOUS
  <2>2. worker' = [worker EXCEPT ![w] = h]
    BY <1>1, <1>5, <2>1 DEF Begin, WorkerFile
  <2>3. h.pc = "gone" /\ h.section = "outside"
    BY <2>1, NoWorkerType DEF Stop, Worker
  <2>4. Held(w, h)'
    BY <2>3 DEF Held
  <2> QED
    BY <1>1, <1>2, <1>3, <2>2, <2>4, KeptOutside
<1> QED
  BY <1>4, <1>5

LEMMA KeptEnterSection ==
  ASSUME CodexInv, KeptInv, NEW w \in Numbers, EnterSection(w)
  PROVE  KeptInv'
<1>1. PICK x : x = worker[w]
  OBVIOUS
<1>2. /\ x \in Worker
      /\ x.id \in SessionIds
      /\ x.pc \in {"run", "stream", "complete", "fail", "report"}
      /\ x.section = "outside"
      /\ lock = 0
      /\ Held(w, x)
  BY <1>1 DEF EnterSection, AtSection, SetsStatus, Appends, CodexInv, ThreadsTyped, Worker,
              KeptInv, WorkersHold
<1>3. PICK seen : seen = Load(sessions[x.id], x.own)
  OBVIOUS
<1>4. PICK h : h = [x EXCEPT !.section = "read", !.seen = seen,
                           !.own = IF SetsStatus(w) THEN seen ELSE x.own]
  OBVIOUS
<1>5. /\ worker' = [worker EXCEPT ![w] = h]
      /\ lock' = w
      /\ UNCHANGED <<sessions, started>>
  BY <1>1, <1>3, <1>4 DEF EnterSection, Entered, WorkerFile
<1>6. h.pc = x.pc /\ h.id = x.id /\ h.seen = seen /\ h.own \in {seen, x.own}
  BY <1>2, <1>4 DEF Worker
<1>7. lock \notin Numbers
  BY <1>2 DEF Numbers
<1>8. Marked(seen.events)
  BY <1>2, <1>3 DEF Load, KeptInv, FilesMarked, Held
<1>9. sessions[x.id].state \in {"whole", "mixed"} \/ Fresh(x.id)
  BY <1>2, <1>7 DEF Held
<1>10. Fresh(x.id) \/ InSeq(sessions[x.id].content.events) \subseteq InSeq(seen.events)
  <2>1. CASE Readable(sessions[x.id])
    BY <1>3, <2>1 DEF Load
  <2>2. CASE ~Readable(sessions[x.id])
    BY <1>2, <1>9, <2>2 DEF Readable, KeptInv, FilesMarked
  <2> QED
    BY <2>1, <2>2
<1>11. Fresh(h.id)' <=> Fresh(x.id)
  BY <1>5, <1>6 DEF Fresh
<1>12. Held(w, h)'
  BY <1>2, <1>5, <1>6, <1>8, <1>9, <1>10, <1>11 DEF Held
<1> QED
  BY <1>1, <1>2, <1>5, <1>12, KeptOutside

LEMMA KeptSkipSection ==
  ASSUME CodexInv, KeptInv, NEW w \in Numbers, SkipSection(w)
  PROVE  KeptInv'
<1>1. PICK x : x = worker[w]
  OBVIOUS
<1>2. PICK h \in Moves(w) : worker' = [worker EXCEPT ![w] = h]
  BY DEF SkipSection
<1>3. x.section = "outside" /\ x.pc \in {"stream", "report"} /\ Held(w, x)
  BY <1>1 DEF SkipSection, AtSection, Appends, KeptInv, WorkersHold
<1>4. h.section = "outside" /\ h.id = x.id /\ ((h.seen = x.seen /\ h.own = x.own) \/ h.pc = "gone")
  BY <1>1, <1>3, MovesType
<1>5. UNCHANGED <<sessions, lock, started>>
  BY DEF SkipSection
<1>6. Fresh(x.id)' <=> Fresh(x.id)
  BY <1>5 DEF Fresh
<1>7. ASSUME lock \in Numbers PROVE FALSE
  BY <1>7 DEF SkipSection, Numbers
<1>8. Held(w, h)'
  BY <1>3, <1>4, <1>5, <1>6, <1>7 DEF Held
<1> QED
  BY <1>1, <1>2, <1>3, <1>5, <1>8, KeptOutside

LEMMA KeptStreamBreaks ==
  ASSUME CodexInv, KeptInv, NEW w \in Numbers, StreamBreaks(w)
  PROVE  KeptInv'
<1>1. PICK x : x = worker[w]
  OBVIOUS
<1>2. PICK h : h = [x EXCEPT !.pc = "fail"]
  OBVIOUS
<1>3. /\ x \in Worker
      /\ x.section = "outside"
      /\ x.pc = "stream"
      /\ Held(w, x)
  BY <1>1 DEF StreamBreaks, CodexInv, ThreadsTyped, KeptInv, WorkersHold
<1>4. worker' = [worker EXCEPT ![w] = h] /\ UNCHANGED <<sessions, lock, started>>
  BY <1>1, <1>2 DEF StreamBreaks
<1>5. h.section = "outside" /\ h.id = x.id /\ h.seen = x.seen /\ h.own = x.own
  BY <1>2, <1>3 DEF Worker
<1>6. Fresh(x.id)' <=> Fresh(x.id)
  BY <1>4 DEF Fresh
<1>7. ASSUME NEW v \in Numbers, OpenBy(v, x.id) PROVE OpenBy(v, x.id)'
  <2>1. v # w
    BY <1>1, <1>3, <1>7 DEF OpenBy
  <2> QED
    BY <1>4, <1>7, <2>1 DEF OpenBy, CodexInv, ThreadsTyped
<1>8. Held(w, h)'
  BY <1>3, <1>4, <1>5, <1>6, <1>7 DEF Held
<1> QED
  BY <1>1, <1>3, <1>4, <1>8, KeptOutside

LEMMA KeptOpenFile ==
  ASSUME CodexInv, KeptInv, NEW w \in Numbers, OpenFile(w)
  PROVE  KeptInv'
<1>1. PICK x : x = worker[w]
  OBVIOUS
<1>2. PICK h : h = [x EXCEPT !.section = "open"]
  OBVIOUS
<1>3. /\ x \in Worker
      /\ x.id \in SessionIds
      /\ x.section = "read"
      /\ Held(w, x)
      /\ lock = w
  BY <1>1 DEF OpenFile, CodexInv, ThreadsTyped, Worker, KeptInv, WorkersHold, Held
<1>4. /\ sessions' = [sessions EXCEPT ![x.id] = Truncated(sessions[x.id])]
      /\ worker' = [worker EXCEPT ![w] = h]
      /\ UNCHANGED <<lock, started>>
  BY <1>1, <1>2 DEF OpenFile, WorkerFile
<1>5. h.section = "open" /\ h.id = x.id /\ h.seen = x.seen /\ h.own = x.own /\ h.pc = x.pc
  BY <1>2, <1>3 DEF Worker
<1>6. sessions[x.id] \in File(Session)
  BY <1>3 DEF CodexInv, SessionsTyped
<1>7. /\ sessions'[x.id].content = sessions[x.id].content
      /\ sessions'[x.id].state = "empty"
      /\ \A id \in SessionIds \ {x.id} : sessions'[id] = sessions[id]
  BY <1>3, <1>4, <1>6 DEF Truncated, File, CodexInv, SessionsTyped
<1>8. \A id \in SessionIds : Fresh(id)' <=> Fresh(id)
  BY <1>7 DEF Fresh
<1>9. FilesMarked'
  BY <1>7, <1>8 DEF FilesMarked, Readable, KeptInv
<1>10. OpenBy(w, x.id)'
  BY <1>4, <1>5 DEF OpenBy, CodexInv, ThreadsTyped
<1>11. Held(w, h)'
  BY <1>3, <1>4, <1>5, <1>7, <1>8, <1>10 DEF Held
<1>12. ASSUME NEW v \in Numbers \ {w}, NEW y \in Worker, Held(v, y) PROVE Held(v, y)'
  <2>1. y.id \in SessionIds
    BY DEF Worker
  <2>2. y.section = "outside"
    BY <1>3, <1>12 DEF Held
  <2>3. CASE y.id = x.id
    BY <1>3, <1>4, <1>10, <1>12, <2>2, <2>3 DEF Held
  <2>4. CASE y.id # x.id
    <3>1. ~OpenBy(lock, y.id)
      BY <1>1, <1>3, <2>4 DEF OpenBy
    <3> QED
      BY <1>4, <1>7, <1>8, <1>12, <2>1, <2>2, <2>4, <3>1 DEF Held
  <2> QED
    BY <2>3, <2>4
<1> QED
  BY <1>4, <1>9, <1>11, <1>12, KeptOneWorker

(* What a section writes has the events it read, and the limit is reached  *)
(* for ever.                                                               *)
LEMMA ChangesKeep ==
  ASSUME CodexInv, NEW w \in Numbers, worker[w].section # "outside", NEW session \in Changes(w),
         NEW seen, seen = worker[w].seen
  PROVE  /\ \/ InSeq(seen.events) \subseteq InSeq(session.events)
            \/ Len(session.events) = MaxEvents
         /\ Len(seen.events) = MaxEvents => Len(session.events) = MaxEvents
<1>1. PICK x : x = worker[w]
  OBVIOUS
<1>2. x \in Worker /\ WorkerSound(x) /\ x.seen = seen
  BY <1>1 DEF CodexInv, ThreadsTyped, WorkersSound
<1>3. seen \in Session /\ Len(seen.events) <= MaxEvents
  BY <1>2 DEF Worker, WorkerSound
<1>4. PICK event : event = <<w, x.pc, x.left>>
  OBVIOUS
<1>5. CASE session.events = seen.events
  BY <1>5
<1>6. CASE /\ x.pc \in {"stream", "report"}
           /\ session = [seen EXCEPT !.events = Latest(Append(seen.events, event))]
  <2>1. PICK old : old = seen.events
    OBVIOUS
  <2>2. old \in Seq(Event) /\ Len(old) \in Nat /\ Len(old) <= MaxEvents /\ MaxEvents \in Nat
    BY <1>3, <2>1, CodexBounds DEF Session
  <2>3. event \in Event
    BY <1>2, <1>4, <1>6 DEF Event, Worker, WorkerSound
  <2>4. PICK events : events = Append(old, event)
    OBVIOUS
  <2>5. /\ events \in Seq(Event)
        /\ Len(events) = Len(old) + 1
        /\ \A k \in 1..Len(old) : events[k] = old[k]
    BY <2>2, <2>3, <2>4
  <2>6. session.events = Latest(events)
    BY <1>3, <1>6, <2>1, <2>4 DEF Session
  <2>7. Len(Latest(events)) = IF Len(events) > MaxEvents THEN MaxEvents ELSE Len(events)
    BY <2>5, LatestType
  <2>8. CASE Len(events) > MaxEvents
    BY <2>6, <2>7, <2>8
  <2>9. CASE ~(Len(events) > MaxEvents)
    <3>1. Latest(events) = events
      BY <2>9 DEF Latest
    <3>2. DOMAIN old = 1..Len(old) /\ DOMAIN events = 1..(Len(old) + 1)
      BY <2>2, <2>5
    <3>3. DOMAIN old \subseteq DOMAIN events
      BY <2>2, <3>2
    <3>4. \A k \in DOMAIN old : events[k] = old[k]
      BY <2>5, <3>2
    <3>5. InSeq(old) \subseteq InSeq(events)
      BY <3>3, <3>4 DEF InSeq
    <3>6. Len(old) # MaxEvents
      BY <2>2, <2>5, <2>9
    <3> QED
      BY <2>1, <2>6, <3>1, <3>5, <3>6
  <2> QED
    BY <2>8, <2>9
<1>7. session.events = seen.events
      \/ /\ x.pc \in {"stream", "report"}
         /\ session = [seen EXCEPT !.events = Latest(Append(seen.events, event))]
  <2>1. x.pc \in {"run", "stream", "complete", "fail", "report"}
    BY <1>1, <1>2 DEF WorkerSound
  <2>2. \/ \E status \in {"RUNNING", "COMPLETED", "FAILED"} :
             session = [seen EXCEPT !.status = status]
        \/ session = seen
        \/ /\ x.pc \in {"stream", "report"}
           /\ session = [seen EXCEPT !.events = Latest(Append(seen.events, event))]
    BY <1>1, <1>2, <1>4, <2>1 DEF Changes
  <2> QED
    BY <1>3, <2>2 DEF Session
<1> QED
  BY <1>5, <1>6, <1>7

(* What the end of a section does, said once for the invariant and for the *)
(* theorem.                                                                *)
LEMMA SectionEnds ==
  ASSUME CodexInv, KeptInv, NEW w \in Numbers, FillFile(w),
         NEW x, x = worker[w]
  PROVE  /\ x \in Worker
         /\ x.id \in SessionIds
         /\ lock = w
         /\ Held(w, x)
         /\ x.section = "open"
         /\ x.pc \in {"run", "stream", "complete", "fail", "report"}
         /\ \E file \in File(Session) :
              /\ sessions' = [sessions EXCEPT ![x.id] = file]
              /\ \/ /\ file.state = "mixed"
                    /\ InSeq(file.content.events) = {}
                 \/ /\ file.state = "whole"
                    /\ Marked(file.content.events)
                    /\ \/ InSeq(sessions[x.id].content.events) \subseteq InSeq(file.content.events)
                       \/ Len(file.content.events) = MaxEvents
<1>1. /\ x \in Worker
      /\ x.id \in SessionIds
      /\ lock = w
      /\ Held(w, x)
      /\ x.section = "open"
      /\ x.pc \in {"run", "stream", "complete", "fail", "report"}
  BY DEF FillFile, CodexInv, ThreadsTyped, WorkersSound, WorkerSound, Worker, KeptInv,
         WorkersHold, Held
<1>2. PICK session \in Changes(w) : \E file \in Written(sessions[x.id], session, NoSession) :
        sessions' = [sessions EXCEPT ![x.id] = file]
  BY DEF FillFile, WorkerFile
<1>3. PICK file \in Written(sessions[x.id], session, NoSession) :
        sessions' = [sessions EXCEPT ![x.id] = file]
  BY <1>2
<1>4. session \in Session
  BY <1>1, ChangesType
<1>5. PICK seen : seen = x.seen
  OBVIOUS
<1>6. /\ \/ InSeq(seen.events) \subseteq InSeq(session.events)
         \/ Len(session.events) = MaxEvents
      /\ Len(seen.events) = MaxEvents => Len(session.events) = MaxEvents
  BY <1>1, <1>5, ChangesKeep
<1>7. Marked(seen.events)
  BY <1>1, <1>5 DEF Held
<1>8. Marked(session.events)
  BY <1>6, <1>7 DEF Marked
<1>9. CASE file = [state |-> "mixed", content |-> NoSession]
  <2>1. InSeq(<< >>) = {}
    BY DEF InSeq
  <2>2. file \in File(Session) /\ file.state = "mixed" /\ InSeq(file.content.events) = {}
    BY <1>9, <2>1, NoSessionType DEF File, FileStates
  <2> QED
    BY <1>1, <1>3, <2>2
<1>10. CASE file = WholeFile(session)
  <2>1. file \in File(Session) /\ file.state = "whole" /\ file.content = session
    BY <1>4, <1>10 DEF WholeFile, File, FileStates
  <2>2. \/ Fresh(x.id)
        \/ InSeq(sessions[x.id].content.events) \subseteq InSeq(seen.events)
        \/ Len(seen.events) = MaxEvents
    BY <1>1, <1>5 DEF Held
  <2>3. \/ InSeq(sessions[x.id].content.events) \subseteq InSeq(session.events)
        \/ Len(session.events) = MaxEvents
    BY <1>6, <1>8, <2>2 DEF Fresh, Marked
  <2> QED
    BY <1>1, <1>3, <1>8, <2>1, <2>3
<1> QED
  BY <1>9, <1>10 DEF Written

LEMMA KeptFillFile ==
  ASSUME CodexInv, KeptInv, NEW w \in Numbers, FillFile(w)
  PROVE  KeptInv'
<1>1. PICK x : x = worker[w]
  OBVIOUS
<1>2. /\ x \in Worker
      /\ x.id \in SessionIds
      /\ lock = w
      /\ Held(w, x)
      /\ x.section = "open"
      /\ x.pc \in {"run", "stream", "complete", "fail", "report"}
  BY <1>1, SectionEnds
<1>3. PICK file \in File(Session) :
        /\ sessions' = [sessions EXCEPT ![x.id] = file]
        /\ \/ /\ file.state = "mixed"
              /\ InSeq(file.content.events) = {}
           \/ /\ file.state = "whole"
              /\ Marked(file.content.events)
  BY <1>1, SectionEnds
<1>4. PICK h \in Moves(w) : worker' = [worker EXCEPT ![w] = h]
  BY DEF FillFile
<1>5. h.section = "outside" /\ h.id = x.id /\ ((h.seen = x.seen /\ h.own = x.own) \/ h.pc = "gone")
  BY <1>1, <1>2, MovesType
<1>6. lock' = 0 /\ started' = started
  BY DEF FillFile
<1>7. sessions'[x.id] = file /\ \A id \in SessionIds \ {x.id} : sessions'[id] = sessions[id]
  BY <1>2, <1>3 DEF CodexInv, SessionsTyped
<1>8. \A id \in SessionIds \ {x.id} : Fresh(id)' <=> Fresh(id)
  BY <1>7 DEF Fresh
<1>9. file.state = "mixed" => Fresh(x.id)'
  BY <1>3, <1>7 DEF Fresh
<1>10. FilesMarked'
  BY <1>3, <1>7, <1>8, <1>9 DEF FilesMarked, Readable, KeptInv
<1>11. sessions'[x.id].state \in {"whole", "mixed"}
  BY <1>3, <1>7
<1>12. Held(w, h)'
  <2>1. h.pc \notin {"born", "gone"} => Marked(h.seen.events) /\ Marked(h.own.events)
    BY <1>2, <1>5 DEF Held
  <2>2. ~(w > started)
    BY <1>2 DEF Held
  <2> QED
    BY <1>5, <1>6, <1>11, <2>1, <2>2 DEF Held
<1>13. ASSUME NEW v \in Numbers \ {w}, NEW y \in Worker, Held(v, y) PROVE Held(v, y)'
  <2>1. y.id \in SessionIds
    BY DEF Worker
  <2>2. y.section = "outside"
    BY <1>2, <1>13 DEF Held
  <2>3. CASE y.id = x.id
    BY <1>6, <1>11, <1>13, <2>2, <2>3 DEF Held
  <2>4. CASE y.id # x.id
    <3>1. ~OpenBy(lock, y.id)
      BY <1>1, <1>2, <2>4 DEF OpenBy
    <3> QED
      BY <1>6, <1>7, <1>8, <1>13, <2>1, <2>2, <2>4, <3>1 DEF Held
  <2> QED
    BY <2>3, <2>4
<1> QED
  BY <1>4, <1>6, <1>10, <1>12, <1>13, KeptOneWorker

LEMMA KeptRestart ==
  ASSUME CodexInv, KeptInv, Restart
  PROVE  KeptInv'
<1>1. sessions' = sessions /\ worker' = [w \in Numbers |-> Stop(w)]
  BY DEF Restart
<1>2. FilesMarked'
  BY <1>1 DEF KeptInv, FilesMarked, Fresh
<1>3. ASSUME NEW w \in Numbers PROVE \A h \in {worker'[w]} : Held(w, h)'
  <2>1. PICK h : h = Stop(w)
    OBVIOUS
  <2>2. worker'[w] = h
    BY <1>1, <2>1
  <2>3. h.pc = "gone" /\ h.section = "outside"
    BY <2>1, NoWorkerType DEF Stop, Worker
  <2>4. Held(w, h)'
    BY <2>3 DEF Held
  <2> QED
    BY <2>2, <2>4
<1> QED
  BY <1>2, <1>3 DEF KeptInv, WorkersHold

LEMMA KeptStep == CodexInv /\ KeptInv /\ [CodexNext]_codexVars => KeptInv'
<1> SUFFICES ASSUME CodexInv, KeptInv, [CodexNext]_codexVars PROVE KeptInv'
  OBVIOUS
<1>1. ASSUME NEW t \in Threads, NEW p \in Proposals, NEW starts \in Approvals,
             ReadProposal(t, p, starts)
      PROVE  KeptInv'
  BY <1>1, KeptUntouched DEF ReadProposal
<1>2. ASSUME NEW t \in Threads, ContinueApproval(t) PROVE KeptInv'
  <2>1. CASE NumberSession(t) \/ OpenProposal(t) \/ FillProposal(t)
    BY <2>1, KeptUntouched DEF NumberSession, OpenProposal, FillProposal
  <2> QED
    BY <1>2, <2>1, KeptOpenSession, KeptFillSession, KeptSpawnWorker DEF ContinueApproval
<1>3. ASSUME NEW w \in Numbers, WorkerStep(w) PROVE KeptInv'
  BY <1>3, KeptBegin, KeptEnterSection, KeptSkipSection, KeptOpenFile, KeptFillFile,
     KeptStreamBreaks DEF WorkerStep
<1>4. ASSUME Restart PROVE KeptInv'
  BY <1>4, KeptRestart
<1>5. CASE UNCHANGED codexVars
  BY <1>5, KeptUntouched DEF codexVars
<1> QED
  BY <1>1, <1>2, <1>3, <1>4, <1>5 DEF CodexNext

LEMMA KeptInvariant == CodexSpec => [](CodexInv /\ KeptInv)
<1>1. CodexInit => CodexInv /\ KeptInv
  BY CodexInitInv, KeptInit
<1>2. CodexInv /\ KeptInv /\ [CodexNext]_codexVars => (CodexInv /\ KeptInv)'
  BY CodexStep, KeptStep
<1> QED
  BY <1>1, <1>2, PTL DEF CodexSpec

(* An approval that rewrites a session goes on.                            *)
LEMMA RewritesASession ==
  ASSUME CodexInv, NEW t \in Threads, OpenSession(t) \/ FillSession(t)
  PROVE  /\ Rewrites(t, SessionOf(t))
         /\ SessionOf(t) \in SessionIds
         /\ \A id \in SessionIds \ {SessionOf(t)} : sessions'[id] = sessions[id]
<1>1. PICK v : v = starter[t]
  OBVIOUS
<1>2. v \in Starter /\ StarterSound(v) /\ v.pc \in {"openSession", "fillSession"}
  BY <1>1 DEF OpenSession, FillSession, CodexInv, ThreadsTyped, StartersSound
<1>3. starter'[t].pc # v.pc
  BY <1>1 DEF OpenSession, FillSession, Go, CodexInv, ThreadsTyped, Starter
<1>4. SessionOf(t) = <<v.proposal, v.number>> /\ SessionOf(t) \in SessionIds
  BY <1>1, <1>2 DEF SessionOf, SessionsOf, SessionIds, Starter, StarterSound
<1>5. \E file : sessions' = [sessions EXCEPT ![SessionOf(t)] = file]
  BY DEF OpenSession, FillSession
<1> QED
  BY <1>1, <1>2, <1>3, <1>4, <1>5 DEF Rewrites, CodexInv, SessionsTyped

(* Whatever approvals, workers and restarts interleave, the locked         *)
(* sections of two workers on one session file lose no activity of each    *)
(* other, and keep no more than the limit: only a new approval, or one     *)
(* that writes at the same time, takes an event away                       *)
(* (_append_codex_activity reads and writes under _CODEX_SESSION_LOCK).    *)
THEOREM ActivitiesStay == CodexSpec => ActivitiesAreKept
<1> DEFINE Kept(id) ==
      /\ Len(sessions'[id].content.events) <= MaxEvents
      /\ \/ EventsOf(sessions[id]) \subseteq EventsOf(sessions'[id])
         \/ Len(sessions'[id].content.events) = MaxEvents
         \/ sessions'[id].state = "mixed"
         \/ \E t \in Threads : Rewrites(t, id)
<1>1. ASSUME CodexInv, CodexInv', KeptInv, CodexNext, NEW id \in SessionIds PROVE Kept(id)
  <2>1. Len(sessions'[id].content.events) <= MaxEvents
    BY <1>1 DEF CodexInv, SessionsTyped
  <2>2. CASE sessions'[id].content = sessions[id].content
    BY <2>1, <2>2 DEF EventsOf
  <2>3. ASSUME NEW t \in Threads, OpenSession(t) \/ FillSession(t) PROVE Kept(id)
    <3>1. CASE id = SessionOf(t)
      BY <1>1, <2>1, <2>3, <3>1, RewritesASession
    <3>2. CASE id # SessionOf(t)
      BY <1>1, <2>2, <2>3, <3>2, RewritesASession
    <3> QED
      BY <3>1, <3>2
  <2>4. ASSUME NEW w \in Numbers, OpenFile(w) PROVE Kept(id)
    <3>1. PICK x : x = worker[w].id
      OBVIOUS
    <3>2. sessions' = [sessions EXCEPT ![x] = Truncated(sessions[x])] /\ x \in SessionIds
      BY <1>1, <2>4, <3>1 DEF OpenFile, WorkerFile, CodexInv, ThreadsTyped, Worker
    <3>3. sessions'[id].content = sessions[id].content
      BY <1>1, <3>2 DEF Truncated, CodexInv, SessionsTyped, File
    <3> QED
      BY <2>2, <3>3
  <2>5. ASSUME NEW w \in Numbers, FillFile(w) PROVE Kept(id)
    <3>1. PICK x : x = worker[w]
      OBVIOUS
    <3>2. PICK file \in File(Session) :
            /\ sessions' = [sessions EXCEPT ![x.id] = file]
            /\ \/ file.state = "mixed"
               \/ InSeq(sessions[x.id].content.events) \subseteq InSeq(file.content.events)
               \/ Len(file.content.events) = MaxEvents
      BY <1>1, <2>5, <3>1, SectionEnds
    <3>3. CASE id = x.id
      <4>1. sessions'[id] = file
        BY <1>1, <3>2, <3>3 DEF CodexInv, SessionsTyped
      <4>2. EventsOf(sessions[id]) = InSeq(sessions[x.id].content.events)
        BY <3>3 DEF EventsOf, InSeq
      <4>3. EventsOf(sessions'[id]) = InSeq(file.content.events)
        BY <4>1 DEF EventsOf, InSeq
      <4> QED
        BY <2>1, <3>2, <4>1, <4>2, <4>3
    <3>4. CASE id # x.id
      <4>1. sessions'[id] = sessions[id]
        BY <1>1, <3>2, <3>4 DEF CodexInv, SessionsTyped
      <4> QED
        BY <2>2, <4>1
    <3> QED
      BY <3>3, <3>4
  <2>6. CASE sessions' = sessions
    BY <2>2, <2>6
  <2>7. \/ sessions' = sessions
        \/ \E t \in Threads : OpenSession(t) \/ FillSession(t)
        \/ \E w \in Numbers : OpenFile(w) \/ FillFile(w)
    BY <1>1 DEF CodexNext, ContinueApproval, WorkerStep, ReadProposal, NumberSession,
                OpenProposal, FillProposal, SpawnWorker, Begin, EnterSection, SkipSection,
                StreamBreaks, Restart
  <2> QED
    BY <2>3, <2>4, <2>5, <2>6, <2>7
<1>2. CodexInv /\ CodexInv' /\ KeptInv /\ [CodexNext]_codexVars
      => [\A id \in SessionIds : Kept(id)]_codexVars
  BY <1>1
<1>3. CodexSpec => []CodexInv /\ []KeptInv /\ [][CodexNext]_codexVars
  BY KeptInvariant, PTL DEF CodexSpec
<1>4. CodexSpec => [][\A id \in SessionIds : Kept(id)]_codexVars
  BY <1>2, <1>3, PTL
<1> QED
  BY <1>4 DEF ActivitiesAreKept

----------------------------------------------------------------------------
(* One thread and no restart: a start numbers a session nobody has, and    *)
(* the prompt reaches the worker, since a proposal can be read whenever it *)
(* is looked at.                                                           *)

WorkersOwn ==
  /\ \A w \in 1..started : worker[w].id \in SessionIds /\ Exists(sessions[worker[w].id])
  /\ \A v, w \in 1..started : worker[v].id = worker[w].id => v = w

Ahead(s) ==
  s.pc \in {"openSession", "fillSession", "openProposal", "fillProposal", "spawn"} /\ s.starts
  => \A w \in 1..started : worker[w].id # <<s.proposal, s.number>>

StarterPrompts(s) == s.pc # "idle" => s.prompt = TRUE

ProposalsPrompt(s) ==
  \A p \in Proposals :
    /\ proposals[p].content.prompt = TRUE
    /\ Readable(proposals[p]) \/ (s.pc = "fillProposal" /\ s.proposal = p)
    /\ proposals[p].state \in {"whole", "empty"}
    /\ s.pc = "fillProposal" /\ s.proposal = p => proposals[p].state = "empty"

StarterOwns(s) == Ahead(s) /\ StarterPrompts(s) /\ ProposalsPrompt(s)

SessionsPrompt ==
  \A id \in SessionIds : Readable(sessions[id]) => sessions[id].content.prompt = TRUE

WorkerPrompts(h) ==
  h.pc \notin {"born", "gone"} => h.prompt = TRUE /\ h.seen.prompt = TRUE /\ h.own.prompt = TRUE

WorkersPrompt == \A w \in Numbers : \A h \in {worker[w]} : WorkerPrompts(h)

OwnInv ==
  /\ WorkersOwn
  /\ \A t \in Threads : \A s \in {starter[t]} : StarterOwns(s)
  /\ SessionsPrompt
  /\ WorkersPrompt

LEMMA OwnInit == CodexInit => OwnInv
<1> SUFFICES ASSUME CodexInit PROVE OwnInv
  OBVIOUS
<1>1. WorkersOwn
  BY DEF CodexInit, WorkersOwn
<1>2. ASSUME NEW t \in Threads PROVE \A s \in {starter[t]} : StarterOwns(s)
  <2>1. starter[t] = IdleStarter
    BY DEF CodexInit
  <2>2. PICK s : s = starter[t]
    OBVIOUS
  <2>3. s.pc = "idle"
    BY <2>1, <2>2, IdleIsStarter
  <2>4. \A p \in Proposals : proposals[p].state = "whole" /\ proposals[p].content.prompt = TRUE
    BY DEF CodexInit, WholeFile, NewProposal
  <2>5. ProposalsPrompt(s)
    BY <2>3, <2>4 DEF ProposalsPrompt, Readable
  <2> QED
    BY <2>2, <2>3, <2>5 DEF StarterOwns, Ahead, StarterPrompts
<1>3. SessionsPrompt
  BY DEF CodexInit, SessionsPrompt, NoFile, Readable
<1>4. WorkersPrompt
  BY NoWorkerType DEF CodexInit, WorkersPrompt, WorkerPrompts
<1> QED
  BY <1>1, <1>2, <1>3, <1>4 DEF OwnInv

(* A step of the one thread that starts no worker.                         *)
LEMMA OwnApprovalStep ==
  ASSUME CodexInv, OwnInv, NEW t, Threads = {t}, NEW v,
         starter' = [starter EXCEPT ![t] = v],
         StarterOwns(v)',
         SessionsPrompt',
         \A id \in SessionIds : Exists(sessions[id]) => Exists(sessions'[id]),
         UNCHANGED <<worker, started>>
  PROVE  OwnInv'
<1>1. WorkersOwn'
  BY DEF OwnInv, WorkersOwn
<1>2. starter'[t] = v
  BY DEF CodexInv, ThreadsTyped
<1>3. WorkersPrompt'
  BY DEF OwnInv, WorkersPrompt
<1> QED
  BY <1>1, <1>2, <1>3 DEF OwnInv

(* A step of a worker: it keeps its session.                               *)
LEMMA OwnWorkerStep ==
  ASSUME CodexInv, OwnInv, NEW w \in Numbers, NEW h,
         worker' = [worker EXCEPT ![w] = h],
         h.id = worker[w].id,
         WorkerPrompts(h),
         SessionsPrompt',
         \A id \in SessionIds : Exists(sessions[id]) => Exists(sessions'[id]),
         UNCHANGED <<proposals, starter, started>>
  PROVE  OwnInv'
<1>1. \A v \in Numbers : worker'[v].id = worker[v].id
  BY DEF CodexInv, ThreadsTyped
<1>2. 1..started \subseteq Numbers
  BY CodexBounds DEF CodexInv, ThreadsTyped, Numbers
<1>3. \A v \in 1..started : worker'[v].id = worker[v].id
  BY <1>1, <1>2
<1>4. WorkersOwn'
  BY <1>3 DEF OwnInv, WorkersOwn
<1>5. ASSUME NEW s, StarterOwns(s) PROVE StarterOwns(s)'
  <2>1. Ahead(s)'
    BY <1>3, <1>5 DEF StarterOwns, Ahead
  <2>2. ProposalsPrompt(s)'
    BY <1>5 DEF StarterOwns, ProposalsPrompt
  <2> QED
    BY <1>5, <2>1, <2>2 DEF StarterOwns, StarterPrompts
<1>6. \A t \in Threads : \A s \in {starter'[t]} : StarterOwns(s)'
  BY <1>5 DEF OwnInv
<1>7. ASSUME NEW v \in Numbers PROVE \A x \in {worker'[v]} : WorkerPrompts(x)
  <2>1. CASE v = w
    BY <2>1 DEF CodexInv, ThreadsTyped
  <2>2. CASE v # w
    BY <2>2 DEF CodexInv, ThreadsTyped, OwnInv, WorkersPrompt
  <2> QED
    BY <2>1, <2>2
<1>8. WorkersPrompt'
  BY <1>7 DEF WorkersPrompt, WorkerPrompts
<1> QED
  BY <1>4, <1>6, <1>8 DEF OwnInv

LEMMA OwnReadProposal ==
  ASSUME CodexInv, OwnInv, NEW t, Threads = {t}, NEW p \in Proposals, NEW starts \in Approvals,
         ReadProposal(t, p, starts)
  PROVE  OwnInv'
<1>1. PICK seen : seen = Load(proposals[p], NoProposal)
  OBVIOUS
<1>2. PICK v : v = [pc |-> IF starts THEN "number" ELSE "openProposal", proposal |-> p,
                    starts |-> starts, prompt |-> seen.prompt, number |-> seen.session]
  OBVIOUS
<1>3. /\ starter' = [starter EXCEPT ![t] = v]
      /\ UNCHANGED <<proposals, sessions, worker, started>>
  BY <1>1, <1>2 DEF ReadProposal
<1>4. starter[t].pc = "idle" /\ starts \in BOOLEAN
  BY CodexBounds DEF ReadProposal
<1>5. StarterOwns(starter[t])
  BY DEF OwnInv
<1>6. \A q \in Proposals : Readable(proposals[q]) /\ proposals[q].content.prompt = TRUE
  BY <1>4, <1>5 DEF StarterOwns, ProposalsPrompt
<1>7. ProposalsPrompt(v)'
  BY <1>2, <1>3, <1>4, <1>6 DEF ProposalsPrompt, Readable
<1>8. StarterPrompts(v)
  BY <1>1, <1>2, <1>6 DEF StarterPrompts, Load
<1>9. Ahead(v)'
  BY <1>2, <1>4 DEF Ahead
<1>10. SessionsPrompt'
  BY <1>3 DEF OwnInv, SessionsPrompt
<1>11. StarterOwns(v)'
  BY <1>7, <1>8, <1>9 DEF StarterOwns, StarterPrompts
<1> QED
  BY <1>3, <1>10, <1>11, OwnApprovalStep

LEMMA OwnNumberSession ==
  ASSUME CodexInv, OwnInv, NEW t, Threads = {t}, NumberSession(t)
  PROVE  OwnInv'
<1>0. PICK s : s = starter[t]
  OBVIOUS
<1>1. PICK n : n = NextSession(s.proposal)
  OBVIOUS
<1>2. PICK v : v = [s EXCEPT !.pc = "openSession", !.number = n]
  OBVIOUS
<1>3. s \in Starter /\ s.pc = "number" /\ s.proposal \in Proposals /\ StarterOwns(s)
  BY <1>0 DEF NumberSession, CodexInv, ThreadsTyped, Starter, OwnInv
<1>4. /\ starter' = [starter EXCEPT ![t] = v]
      /\ n \in Numbers
      /\ UNCHANGED <<proposals, sessions, worker, started>>
  BY <1>0, <1>1, <1>2 DEF NumberSession
<1>5. v.pc = "openSession" /\ v.number = n /\ v.proposal = s.proposal /\ v.prompt = s.prompt
  BY <1>2, <1>3 DEF Starter
<1>6. n \notin SessionsOf(s.proposal)
  <2>1. PICK k : k = Cardinality(SessionsOf(s.proposal))
    OBVIOUS
  <2>2. k \in Nat
    BY <2>1, SomeNumbers, FS_CardinalityType DEF SessionsOf
  <2>3. SessionsOf(s.proposal) = 1..k /\ n = k + 1
    BY <1>1, <1>3, <2>1 DEF CodexInv, Dense, NextSession
  <2> QED
    BY <2>2, <2>3
<1>7. ~Exists(sessions[<<s.proposal, n>>])
  BY <1>4, <1>6 DEF SessionsOf
<1>8. Ahead(v)'
  BY <1>4, <1>5, <1>7 DEF Ahead, OwnInv, WorkersOwn
<1>9. ProposalsPrompt(v)'
  BY <1>3, <1>4, <1>5 DEF StarterOwns, ProposalsPrompt
<1>10. StarterPrompts(v)
  BY <1>3, <1>5 DEF StarterOwns, StarterPrompts
<1>11. StarterOwns(v)'
  BY <1>8, <1>9, <1>10 DEF StarterOwns, StarterPrompts
<1>12. SessionsPrompt'
  BY <1>4 DEF OwnInv, SessionsPrompt
<1> QED
  BY <1>4, <1>11, <1>12, OwnApprovalStep

(* The two steps that write the session.                                   *)
LEMMA OwnWriteSession ==
  ASSUME CodexInv, OwnInv, NEW t, Threads = {t}, OpenSession(t) \/ FillSession(t)
  PROVE  OwnInv'
<1>0. PICK s : s = starter[t]
  OBVIOUS
<1>1. PICK pc : pc = IF s.pc = "openSession" THEN "fillSession" ELSE "openProposal"
  OBVIOUS
<1>2. PICK v : v = [s EXCEPT !.pc = pc]
  OBVIOUS
<1>3. /\ s \in Starter
      /\ s.pc \in {"openSession", "fillSession"}
      /\ StarterOwns(s)
      /\ SessionOf(t) \in SessionIds
  BY <1>0, RewritesASession DEF OpenSession, FillSession, CodexInv, ThreadsTyped, OwnInv
<1>4. /\ starter' = [starter EXCEPT ![t] = v]
      /\ UNCHANGED <<proposals, worker, started>>
  BY <1>0, <1>1, <1>2 DEF OpenSession, FillSession, Go
<1>5. /\ v.pc = pc
      /\ v.number = s.number
      /\ v.proposal = s.proposal
      /\ v.prompt = s.prompt
      /\ v.starts = s.starts
  BY <1>2, <1>3 DEF Starter
<1>6. pc \in {"fillSession", "openProposal"}
  BY <1>1
<1>7. Ahead(v)'
  BY <1>3, <1>4, <1>5 DEF StarterOwns, Ahead
<1>8. ProposalsPrompt(v)'
  BY <1>3, <1>4, <1>5, <1>6 DEF StarterOwns, ProposalsPrompt
<1>9. s.prompt = TRUE
  BY <1>3 DEF StarterOwns, StarterPrompts
<1>10. StarterOwns(v)'
  BY <1>5, <1>7, <1>8, <1>9 DEF StarterOwns, StarterPrompts
<1>11. PICK file : /\ sessions' = [sessions EXCEPT ![SessionOf(t)] = file]
                   /\ Exists(file)
                   /\ Readable(file) => file.content.prompt = TRUE
  <2>1. CASE OpenSession(t)
    <3>1. PICK file : file = Truncated(NoFile(NoSession))
      OBVIOUS
    <3>2. Exists(file) /\ ~Readable(file)
      BY <3>1 DEF Truncated, NoFile, Exists, Readable
    <3> QED
      BY <2>1, <3>1, <3>2 DEF OpenSession
  <2>2. CASE FillSession(t)
    <3>1. PICK mode \in Modes :
            \E file \in Written(sessions[SessionOf(t)], Queued(s.prompt, mode), NoSession) :
              sessions' = [sessions EXCEPT ![SessionOf(t)] = file]
      BY <1>0, <2>2 DEF FillSession
    <3>2. PICK file \in Written(sessions[SessionOf(t)], Queued(s.prompt, mode), NoSession) :
            sessions' = [sessions EXCEPT ![SessionOf(t)] = file]
      BY <3>1
    <3>3. Exists(file) /\ (Readable(file) => file.content.prompt = TRUE)
      BY <1>9, <3>2 DEF Written, WholeFile, Exists, Readable, Queued
    <3> QED
      BY <3>2, <3>3
  <2> QED
    BY <2>1, <2>2
<1>12. /\ sessions'[SessionOf(t)] = file
       /\ \A id \in SessionIds \ {SessionOf(t)} : sessions'[id] = sessions[id]
  BY <1>3, <1>11 DEF CodexInv, SessionsTyped
<1>13. SessionsPrompt'
  BY <1>11, <1>12 DEF OwnInv, SessionsPrompt
<1>14. \A id \in SessionIds : Exists(sessions[id]) => Exists(sessions'[id])
  BY <1>11, <1>12
<1> QED
  BY <1>4, <1>10, <1>13, <1>14, OwnApprovalStep

LEMMA OwnOpenProposal ==
  ASSUME CodexInv, OwnInv, NEW t, Threads = {t}, OpenProposal(t)
  PROVE  OwnInv'
<1>0. PICK s : s = starter[t]
  OBVIOUS
<1>1. PICK v : v = [s EXCEPT !.pc = "fillProposal"]
  OBVIOUS
<1>2. /\ s \in Starter
      /\ s.pc = "openProposal"
      /\ s.proposal \in Proposals
      /\ StarterOwns(s)
  BY <1>0 DEF OpenProposal, CodexInv, ThreadsTyped, Starter, OwnInv
<1>3. /\ starter' = [starter EXCEPT ![t] = v]
      /\ proposals' = [proposals EXCEPT ![s.proposal] = Truncated(proposals[s.proposal])]
      /\ UNCHANGED <<sessions, worker, started>>
  BY <1>0, <1>1 DEF OpenProposal, Go
<1>4. /\ v.pc = "fillProposal"
      /\ v.number = s.number
      /\ v.proposal = s.proposal
      /\ v.prompt = s.prompt
      /\ v.starts = s.starts
  BY <1>1, <1>2 DEF Starter
<1>5. /\ proposals'[s.proposal].content = proposals[s.proposal].content
      /\ proposals'[s.proposal].state = "empty"
      /\ \A q \in Proposals \ {s.proposal} : proposals'[q] = proposals[q]
  BY <1>2, <1>3 DEF CodexInv, ProposalsTyped, File, Truncated
<1>6. ProposalsPrompt(v)'
  BY <1>2, <1>4, <1>5 DEF StarterOwns, ProposalsPrompt, Readable
<1>7. Ahead(v)'
  BY <1>2, <1>3, <1>4 DEF StarterOwns, Ahead
<1>8. StarterOwns(v)'
  BY <1>2, <1>4, <1>6, <1>7 DEF StarterOwns, StarterPrompts
<1>9. SessionsPrompt'
  BY <1>3 DEF OwnInv, SessionsPrompt
<1> QED
  BY <1>3, <1>8, <1>9, OwnApprovalStep

LEMMA OwnFillProposal ==
  ASSUME CodexInv, OwnInv, NEW t, Threads = {t}, FillProposal(t)
  PROVE  OwnInv'
<1>0. PICK s : s = starter[t]
  OBVIOUS
<1>1. PICK v : v = IF s.starts THEN [s EXCEPT !.pc = "spawn"] ELSE IdleStarter
  OBVIOUS
<1>2. /\ s \in Starter
      /\ s.pc = "fillProposal"
      /\ s.proposal \in Proposals
      /\ StarterOwns(s)
  BY <1>0 DEF FillProposal, CodexInv, ThreadsTyped, Starter, OwnInv
<1>3. PICK file \in Written(proposals[s.proposal], Approved(s), NoProposal) :
        proposals' = [proposals EXCEPT ![s.proposal] = file]
  BY <1>0 DEF FillProposal
<1>4. /\ starter' = [starter EXCEPT ![t] = v]
      /\ UNCHANGED <<sessions, worker, started>>
  BY <1>0, <1>1 DEF FillProposal, Go, Return
<1>5. proposals[s.proposal].state = "empty" /\ s.prompt = TRUE
  BY <1>2 DEF StarterOwns, ProposalsPrompt, StarterPrompts
<1>6. file.state = "whole" /\ file.content.prompt = TRUE
  BY <1>3, <1>5 DEF Written, WholeFile, Approved
<1>7. /\ proposals'[s.proposal] = file
      /\ \A q \in Proposals \ {s.proposal} : proposals'[q] = proposals[q]
  BY <1>2, <1>3 DEF CodexInv, ProposalsTyped
<1>8. \A q \in Proposals : /\ proposals'[q].state = "whole"
                           /\ proposals'[q].content.prompt = TRUE
  BY <1>2, <1>6, <1>7 DEF StarterOwns, ProposalsPrompt, Readable
<1>9. /\ v.pc \in {"spawn", "idle"}
      /\ v.pc = "spawn" => /\ v.number = s.number
                           /\ v.proposal = s.proposal
                           /\ v.prompt = s.prompt
                           /\ v.starts = s.starts
  BY <1>1, <1>2, IdleIsStarter DEF Starter
<1>10. ProposalsPrompt(v)'
  BY <1>8, <1>9 DEF ProposalsPrompt, Readable
<1>11. Ahead(v)'
  BY <1>2, <1>4, <1>9 DEF StarterOwns, Ahead
<1>12. StarterOwns(v)'
  BY <1>5, <1>9, <1>10, <1>11 DEF StarterOwns, StarterPrompts
<1>13. SessionsPrompt'
  BY <1>4 DEF OwnInv, SessionsPrompt
<1> QED
  BY <1>4, <1>12, <1>13, OwnApprovalStep

LEMMA OwnSpawnWorker ==
  ASSUME CodexInv, OwnInv, NEW t, Threads = {t}, SpawnWorker(t)
  PROVE  OwnInv'
<1>0. PICK s : s = starter[t]
  OBVIOUS
<1>1. PICK n : n = started + 1
  OBVIOUS
<1>2. PICK id : id = <<s.proposal, s.number>>
  OBVIOUS
<1>3. PICK h : h = [NoWorker EXCEPT !.pc = "born", !.id = id]
  OBVIOUS
<1>4. /\ s \in Starter
      /\ s.pc = "spawn"
      /\ s.starts
      /\ StarterSound(s)
      /\ StarterOwns(s)
  BY <1>0 DEF SpawnWorker, CodexInv, ThreadsTyped, StartersSound, StarterSound, OwnInv
<1>5. id \in SessionIds /\ Exists(sessions[id])
  BY <1>2, <1>4 DEF StarterSound, SessionsOf, SessionIds, Starter
<1>6. /\ worker' = [worker EXCEPT ![n] = h]
      /\ started' = n
      /\ starter' = [starter EXCEPT ![t] = IdleStarter]
      /\ UNCHANGED <<proposals, sessions>>
  BY <1>0, <1>1, <1>2, <1>3 DEF SpawnWorker, Return, SessionOf
<1>7. /\ t \in InFlight
      /\ IsFiniteSet(InFlight)
      /\ started + Cardinality(InFlight) <= MaxStarts
  BY <1>0, <1>4, InFlightFinite DEF InFlight, CodexInv, Room
<1>8. Cardinality(InFlight) \in Nat /\ Cardinality(InFlight) # 0
  BY <1>7, FS_CardinalityType, FS_EmptySet
<1>9. started \in Nat /\ n \in Numbers
  BY <1>1, <1>7, <1>8, CodexBounds DEF CodexInv, ThreadsTyped, Numbers
<1>10. 1..n = (1..started) \cup {n} /\ n \notin 1..started /\ 1..started \subseteq Numbers \ {n}
  <2>1. n \in 1..MaxStarts /\ MaxStarts \in Nat /\ n \in Nat
    BY <1>9, CodexBounds DEF Numbers
  <2>2. 1..n = (1..started) \cup {n} /\ n \notin 1..started
    BY <1>1, <1>9, <2>1
  <2>3. 1..started \subseteq (1..MaxStarts) \ {n}
    BY <1>1, <1>9, <2>1
  <2> QED
    BY <2>2, <2>3 DEF Numbers
<1>11. h.id = id /\ h.pc = "born"
  BY <1>3, NoWorkerType DEF Worker
<1>12. worker'[n] = h /\ \A w \in Numbers \ {n} : worker'[w] = worker[w]
  BY <1>6, <1>9 DEF CodexInv, ThreadsTyped
<1>13. \A w \in 1..started : worker'[w] = worker[w]
  BY <1>10, <1>12
<1>14. \A w \in 1..started : worker[w].id # id
  BY <1>2, <1>4 DEF StarterOwns, Ahead
<1>15. WorkersOwn'
  <2>1. \A w \in 1..n : worker'[w].id \in SessionIds /\ Exists(sessions[worker'[w].id])
    BY <1>5, <1>10, <1>11, <1>12, <1>13 DEF OwnInv, WorkersOwn
  <2>2. \A v, w \in 1..n : worker'[v].id = worker'[w].id => v = w
    BY <1>10, <1>11, <1>12, <1>13, <1>14 DEF OwnInv, WorkersOwn
  <2> QED
    BY <1>6, <2>1, <2>2 DEF WorkersOwn
<1>16. starter'[t] = IdleStarter /\ IdleStarter.pc = "idle"
  BY <1>6, IdleIsStarter DEF CodexInv, ThreadsTyped
<1>17. \A x \in {starter'[t]} : StarterOwns(x)'
  <2>1. PICK x : x = starter'[t]
    OBVIOUS
  <2>2. x.pc = "idle"
    BY <1>16, <2>1
  <2>3. ProposalsPrompt(x)'
    BY <1>4, <1>6, <2>2 DEF StarterOwns, ProposalsPrompt
  <2>4. StarterOwns(x)'
    BY <2>2, <2>3 DEF StarterOwns, Ahead, StarterPrompts
  <2> QED
    BY <2>1, <2>4
<1>18. SessionsPrompt'
  BY <1>6 DEF OwnInv, SessionsPrompt
<1>19. ASSUME NEW w \in Numbers PROVE \A x \in {worker'[w]} : WorkerPrompts(x)
  BY <1>11, <1>12 DEF WorkerPrompts, OwnInv, WorkersPrompt
<1>20. WorkersPrompt'
  BY <1>19 DEF WorkersPrompt, WorkerPrompts
<1> QED
  BY <1>15, <1>17, <1>18, <1>20 DEF OwnInv

LEMMA OwnBegin ==
  ASSUME CodexInv, OwnInv, NEW w \in Numbers, Begin(w)
  PROVE  OwnInv'
<1>1. PICK x : x = worker[w]
  OBVIOUS
<1>2. x \in Worker /\ x.id \in SessionIds
  BY <1>1 DEF CodexInv, ThreadsTyped, Worker
<1>3. UNCHANGED <<proposals, sessions, starter, started>>
  BY DEF Begin
<1>4. SessionsPrompt'
  BY <1>3 DEF OwnInv, SessionsPrompt
<1>5. CASE Readable(sessions[x.id])
  <2>1. PICK session : session = sessions[x.id].content
    OBVIOUS
  <2>2. PICK n \in 1..MaxStream, pc \in {"run", "fail"} :
          worker' = [worker EXCEPT ![w] =
            [x EXCEPT !.pc = pc, !.mode = session.mode, !.prompt = session.prompt,
                      !.own = session, !.seen = session, !.left = n]]
    BY <1>1, <1>5, <2>1 DEF Begin, WorkerFile, Load
  <2>3. PICK h : h = [x EXCEPT !.pc = pc, !.mode = session.mode, !.prompt = session.prompt,
                               !.own = session, !.seen = session, !.left = n]
    OBVIOUS
  <2>4. h.id = x.id /\ h.seen = session /\ h.own = session /\ h.prompt = session.prompt
    BY <1>2, <2>3 DEF Worker
  <2>5. session.prompt = TRUE
    BY <1>2, <1>5, <2>1 DEF OwnInv, SessionsPrompt
  <2>6. WorkerPrompts(h)
    BY <2>4, <2>5 DEF WorkerPrompts
  <2>7. worker' = [worker EXCEPT ![w] = h]
    BY <2>2, <2>3
  <2> QED
    BY <1>1, <1>3, <1>4, <2>4, <2>6, <2>7, OwnWorkerStep
<1>6. CASE ~Readable(sessions[x.id])
  <2>1. PICK h : h = Stop(w)
    OBVIOUS
  <2>2. worker' = [worker EXCEPT ![w] = h]
    BY <1>1, <1>6, <2>1 DEF Begin, WorkerFile
  <2>3. h.id = x.id /\ h.pc = "gone"
    BY <1>1, <1>2, <2>1, NoWorkerType DEF Stop, Worker
  <2>4. WorkerPrompts(h)
    BY <2>3 DEF WorkerPrompts
  <2> QED
    BY <1>1, <1>3, <1>4, <2>2, <2>3, <2>4, OwnWorkerStep
<1> QED
  BY <1>5, <1>6

LEMMA OwnEnterSection ==
  ASSUME CodexInv, OwnInv, NEW w \in Numbers, EnterSection(w)
  PROVE  OwnInv'
<1>1. PICK x : x = worker[w]
  OBVIOUS
<1>2. /\ x \in Worker
      /\ x.id \in SessionIds
      /\ x.pc \in {"run", "stream", "complete", "fail", "report"}
      /\ WorkerPrompts(x)
  BY <1>1 DEF EnterSection, AtSection, SetsStatus, Appends, CodexInv, ThreadsTyped, Worker,
              OwnInv, WorkersPrompt
<1>3. PICK seen : seen = Load(sessions[x.id], x.own)
  OBVIOUS
<1>4. PICK h : h = [x EXCEPT !.section = "read", !.seen = seen,
                           !.own = IF SetsStatus(w) THEN seen ELSE x.own]
  OBVIOUS
<1>5. /\ worker' = [worker EXCEPT ![w] = h]
      /\ UNCHANGED <<proposals, sessions, starter, started>>
  BY <1>1, <1>3, <1>4 DEF EnterSection, Entered, WorkerFile
<1>6. h.pc = x.pc /\ h.id = x.id /\ h.seen = seen /\ h.own \in {seen, x.own} /\ h.prompt = x.prompt
  BY <1>2, <1>4 DEF Worker
<1>7. seen.prompt = TRUE
  BY <1>2, <1>3 DEF Load, OwnInv, SessionsPrompt, WorkerPrompts
<1>8. WorkerPrompts(h)
  BY <1>2, <1>6, <1>7 DEF WorkerPrompts
<1>9. SessionsPrompt'
  BY <1>5 DEF OwnInv, SessionsPrompt
<1> QED
  BY <1>1, <1>5, <1>6, <1>8, <1>9, OwnWorkerStep

(* Where a section leads keeps the prompt.                                 *)
LEMMA MovesPrompt ==
  ASSUME CodexInv, OwnInv, NEW w \in Numbers, NEW h \in Moves(w),
         worker[w].pc \in {"run", "stream", "complete", "fail", "report"}
  PROVE  h.id = worker[w].id /\ WorkerPrompts(h)
<1>1. PICK x : x = worker[w]
  OBVIOUS
<1>2. WorkerPrompts(x)
  BY <1>1 DEF OwnInv, WorkersPrompt
<1>3. /\ h.id = x.id
      /\ \/ h.seen = x.seen /\ h.own = x.own /\ h.prompt = x.prompt
         \/ h.pc = "gone"
  BY <1>1, MovesType
<1> QED
  BY <1>1, <1>2, <1>3 DEF WorkerPrompts

LEMMA OwnSkipSection ==
  ASSUME CodexInv, OwnInv, NEW w \in Numbers, SkipSection(w)
  PROVE  OwnInv'
<1>1. PICK h \in Moves(w) : worker' = [worker EXCEPT ![w] = h]
  BY DEF SkipSection
<1>2. h.id = worker[w].id /\ WorkerPrompts(h)
  BY MovesPrompt DEF SkipSection, Appends
<1>3. UNCHANGED <<proposals, sessions, starter, started>>
  BY DEF SkipSection
<1>4. SessionsPrompt'
  BY <1>3 DEF OwnInv, SessionsPrompt
<1> QED
  BY <1>1, <1>2, <1>3, <1>4, OwnWorkerStep

LEMMA OwnOpenFile ==
  ASSUME CodexInv, OwnInv, NEW w \in Numbers, OpenFile(w)
  PROVE  OwnInv'
<1>1. PICK x : x = worker[w]
  OBVIOUS
<1>2. PICK h : h = [x EXCEPT !.section = "open"]
  OBVIOUS
<1>3. x \in Worker /\ x.id \in SessionIds /\ WorkerPrompts(x)
  BY <1>1 DEF CodexInv, ThreadsTyped, Worker, OwnInv, WorkersPrompt
<1>4. /\ sessions' = [sessions EXCEPT ![x.id] = Truncated(sessions[x.id])]
      /\ worker' = [worker EXCEPT ![w] = h]
      /\ UNCHANGED <<proposals, starter, started>>
  BY <1>1, <1>2 DEF OpenFile, WorkerFile
<1>5. h.id = x.id /\ h.pc = x.pc /\ h.seen = x.seen /\ h.own = x.own /\ h.prompt = x.prompt
  BY <1>2, <1>3 DEF Worker
<1>6. WorkerPrompts(h)
  BY <1>3, <1>5 DEF WorkerPrompts
<1>7. /\ sessions'[x.id].state = "empty"
      /\ \A id \in SessionIds \ {x.id} : sessions'[id] = sessions[id]
  BY <1>3, <1>4 DEF Truncated, File, CodexInv, SessionsTyped
<1>8. SessionsPrompt'
  BY <1>7 DEF OwnInv, SessionsPrompt, Readable
<1>9. \A id \in SessionIds : Exists(sessions[id]) => Exists(sessions'[id])
  BY <1>7 DEF Exists
<1> QED
  BY <1>1, <1>4, <1>5, <1>6, <1>8, <1>9, OwnWorkerStep

LEMMA OwnFillFile ==
  ASSUME CodexInv, OwnInv, NEW w \in Numbers, FillFile(w)
  PROVE  OwnInv'
<1>1. PICK x : x = worker[w]
  OBVIOUS
<1>2. /\ x \in Worker
      /\ x.id \in SessionIds
      /\ x.section = "open"
      /\ x.pc \in {"run", "stream", "complete", "fail", "report"}
      /\ WorkerPrompts(x)
  BY <1>1 DEF FillFile, CodexInv, ThreadsTyped, WorkersSound, WorkerSound, Worker, OwnInv,
              WorkersPrompt
<1>3. PICK session \in Changes(w) : \E file \in Written(sessions[x.id], session, NoSession) :
        sessions' = [sessions EXCEPT ![x.id] = file]
  BY <1>1 DEF FillFile, WorkerFile
<1>4. PICK file \in Written(sessions[x.id], session, NoSession) :
        sessions' = [sessions EXCEPT ![x.id] = file]
  BY <1>3
<1>5. session.prompt = TRUE
  BY <1>1, <1>2, ChangesType DEF WorkerPrompts
<1>6. Exists(file) /\ (Readable(file) => file.content.prompt = TRUE)
  BY <1>4, <1>5 DEF Written, WholeFile, Exists, Readable
<1>7. sessions'[x.id] = file /\ \A id \in SessionIds \ {x.id} : sessions'[id] = sessions[id]
  BY <1>2, <1>4 DEF CodexInv, SessionsTyped
<1>8. SessionsPrompt'
  BY <1>6, <1>7 DEF OwnInv, SessionsPrompt
<1>9. \A id \in SessionIds : Exists(sessions[id]) => Exists(sessions'[id])
  BY <1>6, <1>7
<1>10. PICK h \in Moves(w) : worker' = [worker EXCEPT ![w] = h]
  BY DEF FillFile
<1>11. h.id = worker[w].id /\ WorkerPrompts(h)
  BY <1>1, <1>2, MovesPrompt
<1>12. UNCHANGED <<proposals, starter, started>>
  BY DEF FillFile
<1> QED
  BY <1>8, <1>9, <1>10, <1>11, <1>12, OwnWorkerStep

LEMMA OwnStreamBreaks ==
  ASSUME CodexInv, OwnInv, NEW w \in Numbers, StreamBreaks(w)
  PROVE  OwnInv'
<1>1. PICK x : x = worker[w]
  OBVIOUS
<1>2. PICK h : h = [x EXCEPT !.pc = "fail"]
  OBVIOUS
<1>3. x \in Worker /\ x.pc = "stream" /\ WorkerPrompts(x)
  BY <1>1 DEF StreamBreaks, CodexInv, ThreadsTyped, OwnInv, WorkersPrompt
<1>4. /\ worker' = [worker EXCEPT ![w] = h]
      /\ UNCHANGED <<proposals, sessions, starter, started>>
  BY <1>1, <1>2 DEF StreamBreaks
<1>5. h.id = x.id /\ h.seen = x.seen /\ h.own = x.own /\ h.prompt = x.prompt
  BY <1>2, <1>3 DEF Worker
<1>6. WorkerPrompts(h)
  BY <1>3, <1>5 DEF WorkerPrompts
<1>7. SessionsPrompt'
  BY <1>4 DEF OwnInv, SessionsPrompt
<1> QED
  BY <1>1, <1>4, <1>5, <1>6, <1>7, OwnWorkerStep

LEMMA OwnStep ==
  ASSUME NEW t, Threads = {t}, MaxRestarts = 0
  PROVE  CodexInv /\ OwnInv /\ [CodexNext]_codexVars => OwnInv'
<1> SUFFICES ASSUME CodexInv, OwnInv, [CodexNext]_codexVars PROVE OwnInv'
  OBVIOUS
<1>1. ASSUME NEW p \in Proposals, NEW starts \in Approvals, ReadProposal(t, p, starts)
      PROVE  OwnInv'
  BY <1>1, OwnReadProposal
<1>2. ASSUME ContinueApproval(t) PROVE OwnInv'
  BY <1>2, OwnNumberSession, OwnWriteSession, OwnOpenProposal, OwnFillProposal, OwnSpawnWorker
     DEF ContinueApproval
<1>3. ASSUME NEW w \in Numbers, WorkerStep(w) PROVE OwnInv'
  BY <1>3, OwnBegin, OwnEnterSection, OwnSkipSection, OwnOpenFile, OwnFillFile,
     OwnStreamBreaks DEF WorkerStep
<1>4. ~Restart
  BY CodexBounds DEF Restart, CodexInv, ThreadsTyped
<1>5. CASE UNCHANGED codexVars
  <2>1. ASSUME NEW s, StarterOwns(s) PROVE StarterOwns(s)'
    <3>1. Ahead(s)' /\ ProposalsPrompt(s)'
      BY <1>5, <2>1 DEF codexVars, StarterOwns, Ahead, ProposalsPrompt
    <3> QED
      BY <2>1, <3>1 DEF StarterOwns, StarterPrompts
  <2>2. WorkersOwn' /\ SessionsPrompt' /\ WorkersPrompt'
    BY <1>5 DEF codexVars, OwnInv, WorkersOwn, SessionsPrompt, WorkersPrompt
  <2>3. starter' = starter
    BY <1>5 DEF codexVars
  <2> QED
    BY <2>1, <2>2, <2>3 DEF OwnInv
<1> QED
  BY <1>1, <1>2, <1>3, <1>4, <1>5 DEF CodexNext

(* While one thread serves the approvals, and the process is not           *)
(* restarted, each start gets a session of its own and Codex runs the      *)
(* prompt of its proposal: "the approved proposal prompt." (main.py:10473) *)
THEOREM StartsOwnTheirSession ==
  ASSUME NEW t, Threads = {t}, MaxRestarts = 0
  PROVE  CodexSpec => []OwnSessionRunsPrompt
<1>1. CodexInit => CodexInv /\ OwnInv
  BY CodexInitInv, OwnInit
<1>2. CodexInv /\ OwnInv /\ [CodexNext]_codexVars => (CodexInv /\ OwnInv)'
  BY CodexStep, OwnStep
<1>3. CodexInv /\ OwnInv => OwnSessionRunsPrompt
  <2> SUFFICES ASSUME CodexInv, OwnInv PROVE OwnSessionRunsPrompt
    OBVIOUS
  <2>1. ASSUME NEW w \in Numbers, worker[w].pc \in {"run", "stream"}
        PROVE  worker[w].prompt
    <3>1. WorkerPrompts(worker[w])
      BY DEF OwnInv, WorkersPrompt
    <3>2. worker[w].prompt = TRUE
      BY <2>1, <3>1 DEF WorkerPrompts
    <3> QED
      BY <3>2
  <2> QED
    BY <2>1 DEF OwnInv, WorkersOwn, OwnSessionRunsPrompt, RunsApprovedPrompt
<1> QED
  BY <1>1, <1>2, <1>3, PTL DEF CodexSpec

=============================================================================
