---------------------------- MODULE CodexSessions ----------------------------
(***************************************************************************)
(* The Codex handoff of the reasoning agent (main.py): a human approves a  *)
(* proposal, a session file is written, and a background worker runs the   *)
(* Codex CLI (or a staged mock of it) and streams what happens into the    *)
(* session file.                                                           *)
(*                                                                         *)
(*   - approve_for_codex and approve_and_start_codex run on pool threads   *)
(*     and read and write proposal and session files without a lock;       *)
(*   - a worker changes its session file in locked sections: read, change, *)
(*     write, all under _CODEX_SESSION_LOCK;                               *)
(*   - workers are daemon threads: a restart of the process ends them, and *)
(*     only the files remain.                                              *)
(*                                                                         *)
(* Abstracted: wording and times; the log lines of a session, each written *)
(* in a locked section of its own that changes nothing else (such a        *)
(* section is a Fill that leaves the content as it was read); and how many *)
(* sections of either kind a stream has, and in which order. File-system   *)
(* errors are not modelled.                                                *)
(***************************************************************************)
EXTENDS Naturals, FiniteSets, Sequences, ThreadPool, JsonFile

CONSTANTS
  Proposals,     \* proposals that exist, as a run's commit wrote them
  Approvals,     \* endpoints called: TRUE starts Codex, FALSE only approves
  Modes,         \* execution modes the environment can ask for
  MaxEvents,     \* activity events a session keeps (120 in the code)
  MaxStarts,     \* bound: sessions started in a behaviour
  MaxStream,     \* bound: locked sections of one stream
  MaxRestarts    \* bound: restarts of the process

ASSUME CodexBounds ==
  /\ Proposals # {}
  /\ MaxEvents \in Nat \ {0}
  /\ MaxStarts \in Nat \ {0}
  /\ MaxStream \in Nat \ {0}
  /\ MaxRestarts \in Nat
  /\ Modes \subseteq {"mock", "real"}
  /\ Approvals \subseteq BOOLEAN

VARIABLES
  proposals,   \* the file of each proposal
  sessions,    \* the file of each session; a session id is a proposal and a number
  lock,        \* _CODEX_SESSION_LOCK: the worker that holds it, 0 for none
  starter,     \* per pool thread: the approval it is handling
  worker,      \* the workers, in the order they were started
  started,     \* how many there are
  restarts     \* how often the process was restarted

codexVars == <<proposals, sessions, lock, starter, worker, started, restarts>>

----------------------------------------------------------------------------
(* Values.                                                                 *)

Created  == "PROPOSAL_CREATED"
Prompted == "APPROVED_FOR_CODEX_PROMPT"
Running  == "CODEX_CLI_RUNNING"
Unknown  == "UNKNOWN"

Numbers    == 1..MaxStarts
SessionIds == Proposals \X Numbers
Ended      == {"COMPLETED", "FAILED"}

(* "prompt" says whether codex_prompt is the proposal's own or "";         *)
(* "session" is the number of codex_session_id, 0 for none.                *)
Proposal == [status : {Created, Prompted, Running, Unknown}, prompt : BOOLEAN,
             session : {0} \cup Numbers]
NoProposal == [status |-> Unknown, prompt |-> FALSE, session |-> 0]
NewProposal == [status |-> Created, prompt |-> TRUE, session |-> 0]

(* An activity event is named by the worker that recorded it and by how    *)
(* much of its stream was left; <<0, 0>> is the human's approval.          *)
Approval == <<0, 0>>
Event    == {Approval} \cup (Numbers \X {"stream", "report"} \X (1..(MaxStream + 2)))
Session  == [status : {"NONE", "QUEUED", "RUNNING"} \cup Ended, prompt : BOOLEAN,
             mode : Modes \cup {"none"}, events : Seq(Event)]
NoSession == [status |-> "NONE", prompt |-> FALSE, mode |-> "none", events |-> <<>>]
Queued(prompt, mode) ==
  [status |-> "QUEUED", prompt |-> prompt, mode |-> mode, events |-> <<Approval>>]

(* What a request has read of its proposal: the prompt, and in "number" the *)
(* session it links to, until the request numbers one of its own.          *)
IdleStarter == [pc |-> "idle", proposal |-> CHOOSE p \in Proposals : TRUE,
                starts |-> FALSE, prompt |-> FALSE, number |-> 0]
Starter == [pc : {"idle", "number", "openSession", "fillSession", "openProposal",
                  "fillProposal", "spawn"},
            proposal : Proposals, starts : BOOLEAN, prompt : BOOLEAN,
            number : {0} \cup Numbers]

(* "mode" and "prompt" are what the worker runs, "own" is the session its  *)
(* first look or its last status section found (every section that falls   *)
(* back on it sets another status, so it is kept as it was found), "seen"  *)
(* what the section it is in has read, "section" how far it is in there,   *)
(* "left" how many sections its stream or its report still has.            *)
NoWorker == [pc |-> "gone", id |-> CHOOSE id \in SessionIds : TRUE, mode |-> "none",
             prompt |-> FALSE, own |-> NoSession, seen |-> NoSession, section |-> "outside",
             left |-> 0]
Worker == [pc : {"born", "run", "stream", "complete", "fail", "report", "gone"},
           id : SessionIds, mode : Modes \cup {"none"}, prompt : BOOLEAN, own : Session,
           seen : Session, section : {"outside", "read", "open"}, left : 0..(MaxStream + 2)]

SessionOf(t) == <<starter[t].proposal, starter[t].number>>

Return(t) == starter' = [starter EXCEPT ![t] = IdleStarter]

Go(t, pc) == starter' = [starter EXCEPT ![t].pc = pc]

----------------------------------------------------------------------------
(* Approving a proposal. Both endpoints accept it in any status.           *)

InFlight == {t \in Threads : starter[t].pc # "idle" /\ starter[t].starts}

(* approve_for_codex (starts = FALSE) and approve_and_start_codex.         *)
ReadProposal(t, p, starts) ==
  LET seen == Load(proposals[p], NoProposal) IN
  /\ starter[t].pc = "idle"
  /\ starts => started + Cardinality(InFlight) < MaxStarts
  /\ starter' = [starter EXCEPT ![t] =
       [pc |-> IF starts THEN "number" ELSE "openProposal", proposal |-> p,
        starts |-> starts, prompt |-> seen.prompt, number |-> seen.session]]
  /\ UNCHANGED <<proposals, sessions, lock, worker, started, restarts>>

SessionsOf(p) == {n \in Numbers : Exists(sessions[<<p, n>>])}

(* Mutant: only unfinished sessions are counted.                           *)
NextSession_OpenOnly(p) ==
  Cardinality({n \in SessionsOf(p) : sessions[<<p, n>>].content.status \notin Ended}) + 1

(* _next_codex_session_id: counts the session files, under the lock, and   *)
(* reserves nothing.                                                       *)
NextSession(p) == Cardinality(SessionsOf(p)) + 1

(* Mutant: the proposal is written before its session.                     *)
NumberSession_ProposalFirst(t) ==
  /\ starter[t].pc = "number"
  /\ lock = 0
  /\ NextSession(starter[t].proposal) \in Numbers
  /\ starter' = [starter EXCEPT ![t].pc = "openProposal",
                                ![t].number = NextSession(starter[t].proposal)]
  /\ UNCHANGED <<proposals, sessions, lock, worker, started, restarts>>

NumberSession(t) ==
  /\ starter[t].pc = "number"
  /\ lock = 0
  /\ NextSession(starter[t].proposal) \in Numbers
  /\ starter' = [starter EXCEPT ![t].pc = "openSession",
                                ![t].number = NextSession(starter[t].proposal)]
  /\ UNCHANGED <<proposals, sessions, lock, worker, started, restarts>>

OpenSession(t) ==
  /\ starter[t].pc = "openSession"
  /\ sessions' = [sessions EXCEPT ![SessionOf(t)] = Truncated(NoFile(NoSession))]
  /\ Go(t, "fillSession")
  /\ UNCHANGED <<proposals, lock, worker, started, restarts>>

(* The session carries the prompt of the proposal as it was read.          *)
FillSession(t) ==
  /\ starter[t].pc = "fillSession"
  /\ \E mode \in Modes :
     \E file \in Written(sessions[SessionOf(t)], Queued(starter[t].prompt, mode),
                         NoSession) :
       sessions' = [sessions EXCEPT ![SessionOf(t)] = file]
  /\ Go(t, "openProposal")
  /\ UNCHANGED <<proposals, lock, worker, started, restarts>>

OpenProposal(t) ==
  /\ starter[t].pc = "openProposal"
  /\ proposals' = [proposals EXCEPT ![starter[t].proposal] = Truncated(proposals[starter[t].proposal])]
  /\ Go(t, "fillProposal")
  /\ UNCHANGED <<sessions, lock, worker, started, restarts>>

(* The whole proposal is written back as it was read, with a new status.   *)
Approved(s) ==
  [status |-> IF s.starts THEN Running ELSE Prompted, prompt |-> s.prompt, session |-> s.number]

FillProposal(t) ==
  LET p == starter[t].proposal IN
  /\ starter[t].pc = "fillProposal"
  /\ \E file \in Written(proposals[p], Approved(starter[t]), NoProposal) :
       proposals' = [proposals EXCEPT ![p] = file]
  /\ IF starter[t].starts THEN Go(t, "spawn") ELSE Return(t)
  /\ UNCHANGED <<sessions, lock, worker, started, restarts>>

SpawnWorker(t) ==
  /\ starter[t].pc = "spawn"
  /\ started' = started + 1
  /\ worker' = [worker EXCEPT ![started + 1] =
                  [NoWorker EXCEPT !.pc = "born", !.id = SessionOf(t)]]
  /\ Return(t)
  /\ UNCHANGED <<proposals, sessions, lock, restarts>>

----------------------------------------------------------------------------
(* The worker.                                                             *)

WorkerFile(w) == sessions[worker[w].id]

Stop(w) == [NoWorker EXCEPT !.id = worker[w].id]

(* Mutant: without a Codex executable the worker returns at once.          *)
Begin_MissingCodexReturns(w) ==
  LET session == Load(WorkerFile(w), NoSession) IN
  /\ worker[w].pc = "born"
  /\ \/ /\ Readable(WorkerFile(w))
        /\ \E n \in 1..MaxStream :
             worker' = [worker EXCEPT ![w] =
               [worker[w] EXCEPT !.pc = "run", !.mode = session.mode, !.prompt = session.prompt,
                                 !.own = session, !.seen = session, !.left = n]]
     \/ worker' = [worker EXCEPT ![w] = Stop(w)]
  /\ UNCHANGED <<proposals, sessions, lock, starter, started, restarts>>

(* A first look at the session, outside the lock: it settles the mode and  *)
(* the prompt. Without a session the worker returns; in real mode it fails *)
(* the session when there is no Codex executable.                          *)
Begin(w) ==
  LET session == Load(WorkerFile(w), NoSession) IN
  /\ worker[w].pc = "born"
  /\ IF Readable(WorkerFile(w))
     THEN \E n \in 1..MaxStream, pc \in {"run"} \cup {f \in {"fail"} : session.mode = "real"} :
            worker' = [worker EXCEPT ![w] =
              [worker[w] EXCEPT !.pc = pc, !.mode = session.mode, !.prompt = session.prompt,
                                !.own = session, !.seen = session, !.left = n]]
     ELSE worker' = [worker EXCEPT ![w] = Stop(w)]
  /\ UNCHANGED <<proposals, sessions, lock, starter, started, restarts>>

(* Where the worker can be once the section it is in is over. A mock       *)
(* stream completes; a real one ends with the return code of Codex, and    *)
(* reports it.                                                             *)
Moves(w) ==
  LET h == worker[w] IN
  CASE h.pc = "run" -> {[h EXCEPT !.pc = "stream", !.section = "outside"]}
    [] h.pc \in {"stream", "report"} /\ h.left > 1 ->
         {[h EXCEPT !.left = h.left - 1, !.section = "outside"]}
    [] h.pc = "stream" /\ h.left <= 1 ->
         {[h EXCEPT !.pc = pc, !.section = "outside"] :
            pc \in {"complete"} \cup {f \in {"fail"} : h.mode = "real"}}
    [] h.pc = "complete" /\ h.mode = "real" ->
         {[h EXCEPT !.pc = "report", !.left = 1, !.section = "outside"]}
    [] h.pc = "fail" ->
         {[h EXCEPT !.pc = "report", !.left = n, !.section = "outside"] : n \in {1, 2}}
    [] OTHER -> {Stop(w)}

SetsStatus(w) == worker[w].pc \in {"run", "complete", "fail"}
Appends(w)    == worker[w].pc \in {"stream", "report"}
AtSection(w)  == (SetsStatus(w) \/ Appends(w)) /\ worker[w].section = "outside"

(* A section reads the session; a status section falls back on the one the *)
(* worker holds, and makes what it found that one.                         *)
Entered(w) ==
  LET session == Load(WorkerFile(w), worker[w].own) IN
  [worker[w] EXCEPT !.section = "read", !.seen = session,
                    !.own = IF SetsStatus(w) THEN session ELSE worker[w].own]

(* Mutant: the read of a section does not wait for the lock.               *)
EnterSection_NoLock(w) ==
  /\ AtSection(w)
  /\ SetsStatus(w) \/ Readable(WorkerFile(w))
  /\ worker' = [worker EXCEPT ![w] = Entered(w)]
  /\ lock' = w
  /\ UNCHANGED <<proposals, sessions, starter, started, restarts>>

(* with _CODEX_SESSION_LOCK                                                *)
EnterSection(w) ==
  /\ AtSection(w)
  /\ lock = 0
  /\ SetsStatus(w) \/ Readable(WorkerFile(w))
  /\ worker' = [worker EXCEPT ![w] = Entered(w)]
  /\ lock' = w
  /\ UNCHANGED <<proposals, sessions, starter, started, restarts>>

(* An activity or a log line finds no session to go to.                    *)
SkipSection(w) ==
  /\ AtSection(w)
  /\ lock = 0
  /\ Appends(w)
  /\ ~Readable(WorkerFile(w))
  /\ \E h \in Moves(w) : worker' = [worker EXCEPT ![w] = h]
  /\ UNCHANGED <<proposals, sessions, lock, starter, started, restarts>>

OpenFile(w) ==
  /\ worker[w].section = "read"
  /\ sessions' = [sessions EXCEPT ![worker[w].id] = Truncated(WorkerFile(w))]
  /\ worker' = [worker EXCEPT ![w].section = "open"]
  /\ UNCHANGED <<proposals, lock, starter, started, restarts>>

(* events[-120:]                                                           *)
Latest(events) ==
  IF Len(events) > MaxEvents THEN SubSeq(events, Len(events) - MaxEvents + 1, Len(events))
  ELSE events

(* What a section makes of the session it read: a log line changes nothing *)
(* that is modelled.                                                       *)
Changes(w) ==
  LET h == worker[w]
      event == <<w, h.pc, h.left>> IN
  CASE h.pc = "run"      -> {[h.seen EXCEPT !.status = "RUNNING"]}
    [] h.pc = "complete" -> {[h.seen EXCEPT !.status = "COMPLETED"]}
    [] h.pc = "fail"     -> {[h.seen EXCEPT !.status = "FAILED"]}
    [] OTHER -> {h.seen, [h.seen EXCEPT !.events = Latest(Append(h.seen.events, event))]}

FillFile(w) ==
  /\ worker[w].section = "open"
  /\ \E session \in Changes(w) : \E file \in Written(WorkerFile(w), session, NoSession) :
       sessions' = [sessions EXCEPT ![worker[w].id] = file]
  /\ \E h \in Moves(w) : worker' = [worker EXCEPT ![w] = h]
  /\ lock' = 0
  /\ UNCHANGED <<proposals, starter, started, restarts>>

(* Codex cannot be started, or its output cannot be read.                  *)
StreamBreaks(w) ==
  /\ worker[w].pc = "stream"
  /\ worker[w].mode = "real"
  /\ worker[w].section = "outside"
  /\ worker' = [worker EXCEPT ![w].pc = "fail"]
  /\ UNCHANGED <<proposals, sessions, lock, starter, started, restarts>>

----------------------------------------------------------------------------
(* The process stops and starts again: only the files are left.            *)
Restart ==
  /\ restarts < MaxRestarts
  /\ restarts' = restarts + 1
  /\ starter' = [t \in Threads |-> IdleStarter]
  /\ worker' = [w \in Numbers |-> Stop(w)]
  /\ lock' = 0
  /\ UNCHANGED <<proposals, sessions, started>>

CodexInit ==
  /\ proposals = [p \in Proposals |-> WholeFile(NewProposal)]
  /\ sessions = [id \in SessionIds |-> NoFile(NoSession)]
  /\ lock = 0
  /\ starter = [t \in Threads |-> IdleStarter]
  /\ worker = [w \in Numbers |-> NoWorker]
  /\ started = 0
  /\ restarts = 0

ContinueApproval(t) ==
  \/ NumberSession(t)
  \/ OpenSession(t)
  \/ FillSession(t)
  \/ OpenProposal(t)
  \/ FillProposal(t)
  \/ SpawnWorker(t)

WorkerStep(w) ==
  \/ Begin(w)
  \/ EnterSection(w)
  \/ SkipSection(w)
  \/ OpenFile(w)
  \/ FillFile(w)
  \/ StreamBreaks(w)

CodexNext ==
  \/ \E t \in Threads, p \in Proposals, starts \in Approvals : ReadProposal(t, p, starts)
  \/ \E t \in Threads : ContinueApproval(t)
  \/ \E w \in Numbers : WorkerStep(w)
  \/ Restart

CodexSpec == CodexInit /\ [][CodexNext]_codexVars

(* Threads are scheduled, and the Codex process ends some day: a request   *)
(* and a worker that can go on do so. Nobody has to click, and nothing has *)
(* to break.                                                               *)
FairCodexSpec ==
  /\ CodexSpec
  /\ \A t \in Threads : WF_codexVars(ContinueApproval(t))
  /\ \A w \in Numbers : WF_codexVars(WorkerStep(w))

----------------------------------------------------------------------------
(* Properties.                                                             *)

(* Every variable has its type, and no session keeps more events than the  *)
(* limit.                                                                  *)
CodexTypeOK ==
  /\ proposals \in [Proposals -> File(Proposal)]
  /\ sessions \in [SessionIds -> File(Session)]
  /\ lock \in {0} \cup Numbers
  /\ starter \in [Threads -> Starter]
  /\ worker \in [Numbers -> Worker]
  /\ started \in 0..MaxStarts
  /\ restarts \in 0..MaxRestarts
  /\ \A id \in SessionIds : Len(sessions[id].content.events) <= MaxEvents

(* Whatever races and restarts, the sessions of a proposal are numbered    *)
(* 1..n without a gap - a start never takes the number of a session that   *)
(* existed when it counted - and a proposal that links to a session links  *)
(* to one whose file was made: it is written first.                        *)
SessionsAccountedFor ==
  \A p \in Proposals :
    /\ SessionsOf(p) = 1..Cardinality(SessionsOf(p))
    /\ Readable(proposals[p]) /\ proposals[p].content.session # 0
       => Exists(sessions[<<p, proposals[p].content.session>>])

EventsOf(file) == {file.content.events[k] : k \in DOMAIN file.content.events}

Rewrites(t, id) ==
  starter[t].pc \in {"openSession", "fillSession"} /\ SessionOf(t) = id /\ starter'[t] # starter[t]

(* What the lock is for: two workers on one session file do not lose each  *)
(* other's activity, and together keep no more than the limit. Only a new  *)
(* approval that writes the file afresh, or at the same time, takes an     *)
(* event away, or the limit.                                               *)
ActivitiesAreKept ==
  [][\A id \in SessionIds :
       /\ Len(sessions'[id].content.events) <= MaxEvents
       /\ \/ EventsOf(sessions[id]) \subseteq EventsOf(sessions'[id])
          \/ Len(sessions'[id].content.events) = MaxEvents
          \/ sessions'[id].state = "mixed"
          \/ \E t \in Threads : Rewrites(t, id)]_codexVars

(* "Launching local codex exec with the approved proposal prompt."         *)
(* (main.py:10473): what Codex is run with is the prompt of its proposal.  *)
RunsApprovedPrompt ==
  \A w \in Numbers :
    worker[w].pc \in {"run", "stream"} /\ worker[w].mode = "real" => worker[w].prompt

(* Every approval that starts Codex gets a session of its own, and Codex   *)
(* runs the approved prompt there.                                         *)
OwnSessionRunsPrompt ==
  /\ \A v, w \in 1..started : worker[v].id = worker[w].id => v = w
  /\ RunsApprovedPrompt

(* "The worker will start the Codex handoff session." (main.py:7628): a    *)
(* session that was made ends as COMPLETED or FAILED and can be read,      *)
(* unless the process is restarted before.                                 *)
SessionsEnd ==
  \A id \in SessionIds, r \in 0..MaxRestarts :
    (Exists(sessions[id]) /\ restarts = r)
    ~> \/ Readable(sessions[id]) /\ sessions[id].content.status \in Ended
       \/ restarts > r

=============================================================================
