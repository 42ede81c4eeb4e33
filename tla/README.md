# A verification of the agentic ERP modernization layer

TLA+ models of the services' shared state, TLC runs that check them on small instances, and
TLAPS proofs of what holds for every instance. Every definition is translated from the
source; `PROJECT.json` names the lines ("map"), the hazards each property is for ("hazards"),
and the mutated definition that each property must catch ("mutants").

    tlc -workers 2 -config MC_Queue.cfg MC_Queue        # one run
    tlapm SimulationQueue_proofs.tla                    # one proof module

## 1. The system

Five Python services talk over HTTP; a UiPath robot and browsers are their clients.

| Component | Code | State it keeps | Operations |
|---|---|---|---|
| Simulation queue | `reasoning-agent/app/services/simulation_store.py`, `/simulation/*` in `main.py` | `SIMULATION_QUEUE["cases"]`: a list of dicts in process memory | reset, enqueue, inject, next, claim, complete |
| ERP work queue | `_process_erp_action`, `/erp/work-queue/*` in `main.py` | `erp_status`, `last_action`, `approval_id` in the case dicts | four buttons, submit-approval-request, detail page |
| Approval store | `services/approval_store.py`, `/approvals/*` in `main.py` | `APPROVAL_TASKS`: dict of dicts in process memory | create, approve, reject, mark-writeback-started, -completed |
| Codex handoff | `/proposals/*`, `/codex/sessions/*`, `_run_codex_session_worker` in `main.py` | proposal and session files under `memory/` | approve-for-codex, approve-and-start-codex, worker thread |
| Agents | `invoke_graph`, `call_llm_structured` and the readiness and plan nodes in `main.py` | LangGraph `MemorySaver` checkpoints, one per case | readiness, plan, capability-gap proposal, evolution trigger |
| Triage, precheck, policy gate, route plan | `reasoning-agent/triage.py`, `case_intake_route` in `main.py` | the decision file of a case | classify, precheck, route, gate |
| Run Memory | `memory/run_memory.py`, `/memory/runs/*` | run directories, event streams, timelines, artifacts, summaries on disk | start, event, artifact, complete, derive |
| Pattern memory, run commit | `memory/patterns.py`, `memory_run_commit` | pattern counters, proposals, proposal sequence on disk | commit, increment_pattern, _record_proposal |
| Capability evolution | `evaluate_capability_evolution`, `capability_registry_check` in `main.py` | none | pure rules |
| Automation memory | `shared/automation_memory/` | `capabilities.json`, SQLite event store | upsert, find, insert_event, count_gaps |
| Validation suite | `validation-suite/app/main.py`, `memory/repository.py` | files of CASE-001, the older registry | validate, record gap, record approval |
| Generated API facade | `generated-api-facade/app/` | SQLite approval tasks and audit log | request approval |
| Mock legacy ERP | `mock-legacy-erp/app/` | SQLite orders, audit log and traces; the tool list in memory | write-back, register tool, reset |

How they run. FastAPI serves `def` endpoints on a pool of threads and `async def` endpoints
as coroutines of one event loop. The queue, the approvals, the checkpoints and all files are
shared by them, and the only locks in the code are around run ids and Codex session files. So
the hard behaviour is: two threads between a test and a write; two coroutines between a check
and a write with an `await` in between; a list that is replaced under a handler that holds a
dict of the old one; files that are emptied before they are written; calls of one case that
share a checkpoint; an answer of a model that takes the place of a rule; a client that gives up
waiting for a call that goes on; a worker that must end what a request began; one insert of
several that fails; a restart that loses what was in memory and keeps what was on disk.

What makes each component correct is listed under "hazards" in `PROJECT.json`, each at its
line.

## 2. The modules

    ThreadPool --+--> SimulationQueue --+--> ErpWorkQueue
                 +--> ApprovalStore ----+
                 |       (refines ApprovalMachine)
                 +--> CaseAgents
                 |
    JsonFile ----+--> CodexSessions
                 +--> RunMemory
                 +--> RunCommit <---- CapabilityEvolution ----> RouteRules
                 +--> RoutedRun <---------------------------------'
                 +--> AutomationMemory --+--> ValidationSuite --+
                                         +--> ApiFacade --------+--> ModernizationServices
                                         +--> LegacyErp --------+

**`ThreadPool`** declares the threads of the pool: not empty, finite.

**`SimulationQueue`**. `cases` maps objects (the Python dicts, numbered as they are made) to
their fields; `queue` is the current list, `generation` counts resets; `thread[t]` is where
the handler of thread `t` stands and the dict it holds. Each endpoint is an action that
starts a request (`Reset`, `Enqueue`, `Inject`, `ChooseNext`, `ChooseById`, `ResolveCase`,
`FindForButton`) and the steps it takes from there (`MeasureList`/`AppendCase`, `Claim`,
`CheckInProgress`/`ChooseCompatible`/`Adopt`/`Finish`, `PressButton`), one per place where
another thread can come between. A scan of the list is one step, because ids never change
and no case becomes pending again. Answers that change nothing (404, 400) are not steps.
`named` in a completing thread is the case its caller means, beside the one the search found.

**`ApprovalStore`**. `tasks` is the dict; `serial` tells two task objects under one id apart.
Creation is two steps of a thread (`GenerateId`, `InsertTask`). Each of the four coroutine
handlers is `CheckTask` (up to its `await`) and the write after it; `AbandonDecision` is the
body that cannot be read, which only approve and reject notice.

**`ApprovalMachine`** is the abstract specification: the status machine of the docstring of
`approval_store.py`, one step per transition.

**`ErpWorkQueue`** joins the two with the handlers that touch both: `submit-approval-request`
(find, mark, scan for an active approval, create or reuse, link) and the write-back of
`mark-writeback-completed` to the case that the approval names by id (`ReachedBy`). The history
variable `origin` remembers for which case object a task was made, which the code forgets: it
keeps the id only.

**`JsonFile`** is `_read_json` and `_write_json`: absent, empty while a writer has it open,
whole, or mixed after two writers at once; what is not whole reads as the default.

**`CodexSessions`**. `proposals` and `sessions` are such files. An approval is a sequence of
steps of a pool thread: read the proposal, number the session (under the lock, reserving
nothing), open and fill the session file, open and fill the proposal file, start the worker.
A worker first looks at its session without the lock, and then makes one locked section after
the other (enter, open, fill): RUNNING, its stream, COMPLETED or FAILED, its report. `Entered`
is what a section works on: the file, or, for a change of status where the file cannot be read,
the worker's `own` copy (`_read_codex_session(session_id) or session`).
`StreamBreaks` is the exception path, `Restart` ends all threads and keeps the files.

**`CaseAgents`**. `call[t]` is the call of thread `t`: the node it is at, its own copy of the
LangGraph channels, the attempts made and the model's answer to this very call;
`checkpoints[id]` is what MemorySaver holds for a case. `InvokeGraph` loads the checkpoint,
every node ends with a `Put` over whatever the last one left, and `LlmAnswers`, `LlmRetries`,
`LlmGivesUp`, `LlmRaises` are the four ends of an attempt in `call_llm_structured`. `Guarded`
is the last node: schema, the eight gates of `readiness_blocking_reasons`, and the channel
"errors", which no node ever clears. `AgentRestart` empties MemorySaver.

**`RouteRules`** is pure: `classify_exception`, the precheck, the route and the business action
of a plan, the policy gate and the ERP action, over an order reduced to what they tell apart.

**`RoutedRun`** is one order on its way: the robot asks for a plan (`/case-intake/route`), gives
up waiting or gets it, posts its artifacts one by one, some of which are lost, and commits the
run, which derives the signature from what arrived and counts the run. `job[t]` is an endpoint
call: `Evaluate` (the evaluator with the registry as it can be read), `OpenDecision` and
`FillDecision` (it rewrites the decision file of the case although the endpoint calls itself
side-effect free), `AnswerRoute` or `AgentRaises`, then `Derive`, `Summarise`, `CountRun`.
`Plans` is everything the plan can say: the rules' own, a model's route and policy in their
place, or the fallback when it fails. Meanwhile a validation and other runs go on.

**`RunMemory`**. `dirs` are the run directories, `stream[r]` the append-only events of a run,
`files` the JSON files that `start_run`, `append_event` and `complete_run` rewrite after they
have appended their event. `ScanRuns` and `Reserve` are the two halves of `generate_run_id`
(scan under the lock of the process, then `mkdir`, with the next number on a conflict);
`Tasks` is the order in which a call rewrites its files, and `ReadFile`, `OpenFile`,
`WriteFile` do one of them. `Restart` ends the calls of one process and frees its lock.

**`CapabilityEvolution`** is pure: `Incremented` is `increment_pattern`'s record, `Decision`
the rules of `evaluate_capability_evolution` in their order (no exception, ambiguous, already
trusted, then the rules for patterns of real runs or those for historical ones).

**`RunCommit`** is `/memory/runs/{run_id}/commit` over those rules. `patterns`, `sequence` and
`proposals` are JSON files; a commit reads, opens and writes its pattern, evaluates what all
pattern files now say (`Evaluate`), and, when the answer is a proposal, numbers it
(`ReadSequence`, `OpenSequence`, `SaveSequence`), files it (`OpenProposal`, `FileProposal`)
and names it in the run's decision (`NameProposal`). `RegisterCapability` is the validation
suite's entry in the registry; `Restart` keeps the files and ends the commits.

**`AutomationMemory`** is what three services share: `events` counts the rows of `events.db` by
kind (each insert atomic, and any of them may fail), `capabilities` is the JSON file, which
raises when it does not parse, in `upsert_capability` too.

**`ValidationSuite`**. A validation that passes records the timeline of CASE-001 event by event
(each reads, empties and fills the file), registers in the older registry, records its result,
and then reads, opens and fills `capabilities.json` and announces it, once per capability. An
insert that fails ends it there. Any two validations overlap, and a restart cuts them off. The
history variable `alone` says that a validation has met no other, `settled` that the last one to
pass ran alone to its last step.

**`ApiFacade`**. `SelectTask` is the look-up, `InsertTask` the later transaction with its UNIQUE
constraint, `RecordTask` the event after the commit; a restart recreates the tables.

**`LegacyErp`**. `FetchOrder`, `RequestApproval`, `RecordWriteback` are the page that reads the
order, the transaction on three tables and the event with the status read before;
`FilterTools`, `AssignTools`, `AppendTool` are `register_tool`; `ResetOrders` and `ClearTools`
the reset of the demo data.

**`ModernizationServices`** runs the three side by side over one Automation Memory; each may be
restarted alone.

Where the code locks nothing, a history variable says whether calls have overlapped, failed or
been cut off (`disturbances`, `disturbed`, `overlapped`, `overlapping`, `settled`). Some properties hold
always; others (every commit is counted, timelines are complete, the registries agree) the code
keeps only while that has not happened, and they are stated under that condition.

## 3. What is checked

| Run | Instance | What it shows |
|---|---|---|
| `queue_threads` | 2 threads, 2 case objects, inject of up to 2, one client PO, one button | whatever interleaves: ids never run ahead of positions, a case is handed to at most as many callers as there are threads, no case is closed that nobody claimed, a reset isolates the new list |
| `approvals` | 2 threads, 2 coroutines, 2 tasks | whatever interleaves: no writeback without approval on record, at most one decision per request in flight |
| `race_decision` | as `approvals` | *violation*: two coroutines decide one task |
| `erp_serial` | 1 thread, 1 coroutine, 2 case objects, one client PO, 2 tasks | without races of a kind: the ids that reset, inject and enqueue give out never meet, so a completion closes the case it names unless a client chose an order number; terminal cases stay terminal, submit adds no second approval, no task is replaced, an approval is written back to the case it was made for while that is queued, one that outlived a reset is never written to a case with an approval of its own, and the store implements `ApprovalMachine` |
| `codex_threads` | 2 threads, 2 sessions of one proposal, mock and real, 1 restart | session numbers are dense, a linked session exists, the lock keeps the activities of two workers on one file, the limit on kept activities holds |
| `codex_serial` | 1 thread, 2 sessions, with and without start, mock and real | each session has its own worker, which runs the approved prompt and ends it (liveness) |
| `commit_memory` | 2 threads, 5 runs with 5 signatures, threshold 2, 3 commits, restarts | whatever interleaves: no pattern counts more than its history and the commits made, only automatable exceptions are proposed, a case without history is proposed only after as many commits as the threshold. Undisturbed: every commit is counted, filed proposals are kept, a decision names the proposal that was filed for it |
| `runs_racing` | 2 processes of one thread, 2 runs of one case, 4 events, 1 overlap or restart | whatever interleaves: one start per run, the event of an answered call stays in its stream, the derived files never tell of what no stream has. Undisturbed: the timelines are complete and in order, and the four places that speak of a case's runs agree |
| `agents` | 2 threads, one case and one evolution action, 2 attempts, 1 gap, 3 calls, payloads at and one below the frequency gate | whatever shares the checkpoint: a candidate earned it in its own call, an old failure stays in its case, every call ends (liveness). Not overlapped: the checkpoint shows the last decision |
| `services` | 2 threads, 1 order, 2 tools, 2 source cases, a timeline of 2 events, 3 calls, 1 failed insert, 1 reset, restarts | whatever interleaves: one task per order, and after a validation that passed and ran alone to its end the two registries are whole and agree, whatever came before. Undisturbed: the two registries and the event store agree, a write-back is reported first once, no tool is registered twice |
| `registers_untrusted` | as `services` | *violation*: capabilities are trusted before any human approval |
| `route` | 2 threads, 10 orders, 2 answers of the model and its failure, threshold 3, 3 calls, 1 lost answer or artifact, 1 further run | whatever happens to the call: execution only for a clean order, a failed model stops the order. Undisturbed: the run is counted under the plan it followed |

The two violations are disagreements between the code and what its comments and documents say of
it; `PROJECT.json` ("findings") quotes them.

**Where else code and words differ.** Each of these is a configuration beside the runs, of one
property that quotes the repository; TLC finds each violated (`tlc -config Race_Claim.cfg MC_Queue`).

| Configuration | Property | The repository says | The code does |
|---|---|---|---|
| `Race_Claim.cfg` (`MC_Queue`) | `TerminalIsFinal` | "`completed`/`failed` are terminal" (`simulation_store.py:19`) | `claim` tests and assigns without a lock (`simulation_store.py:131-132`): a second thread takes a completed case back to in_progress |
| `Race_Ids.cfg` (`MC_Approvals`) | `NoTaskReplaced` | "Generate a unique approval ID" (`approval_store.py:59`) | the id counts what is on file, the insert comes later: two creates get one id, and the second replaces the first task |
| `Race_Prompt.cfg` (`MC_Codex`) | `RunsApprovedPrompt` | "with the approved proposal prompt" (`main.py:10473`) | an approval that reads the proposal while another writes it reads `{}` (`main.py:7607`), and Codex is run with an empty prompt |
| `Commit_Seeded.cfg` (`MC_Commit`) | `ProposalsRestOnRealRuns` | "When the default threshold of 3 real observations is reached, the system creates a proposal" (`README.md:30`), "not from static demo seed data" (`main.py:2531`) | the count starts from the seed (`memory/patterns.py:208`) and is compared as it is (`main.py:2537`): the first real run of a case with history files a proposal |
| `Route_Writes.cfg` (`MC_Route`) | `RouteWritesNothing` | "Side-effect free: does not write memory" (`main.py:5314`), "it does not write memory" (`main.py:5100`) | every branch of the evaluator that the plan calls writes the decision file of the case (`main.py:2470`) |
| `Route_Text.cfg` (`MC_Route`) | `NormalHasNoExceptionText` | "no exception text" (`main.py:1929-1930`) | the text is looked at only when the status is unknown or says exception (`main.py:1833`, `1864`): an order with a normal status and an exception text is NORMAL |

**Bounds.** Counters that only name things (cases, tasks, sessions) are bounded by
`MaxCases`, `MaxTasks`, `MaxStarts`; two objects are enough for every race of two threads,
and for a reset after which old and new cases share ids (`DefaultCases = 1`). `MaxInject = 2`
makes an inject that others can come into. `MaxStream` bounds the sections of a stream,
`MaxEvents` is chosen below what two workers write, so the limit is reached.
`MaxCommits` is one more than `commit_memory`'s threshold, so that commits race on both sides
of it. Two runs of a case and four events are what it takes for completions in the order
opposite to the starts; `MaxDisturbances = 1` lets any two calls overlap, or any one be cut off,
anywhere in a history and further calls follow. In `runs_racing` no two threads share a
process, so its lock is never contended: numbering rests on `mkdir` alone there.
In `agents`, three calls are a call that fails, one that meets what it left in the checkpoint,
and one that overlaps with either; the evolution trigger is a second graph with its own
checkpoint. In `services`, three calls of any of the seven endpoints are two that race and one
that comes after; `TimelineLength = 2` is the least with a step between two records; one failed
insert can fall on any of them. In `route`, the ten orders take every branch of the
classification and of the gate, on both sides of the thresholds for amount and risk; two
answers of the model are one that loosens the rules' policy and one that tightens it.
`CHECK_DEADLOCK FALSE` everywhere, because a server that has used up its bound and serves no
request is idle, not stuck; that nothing waits for ever is what `SessionsEnd` and `CallsEnd`
are for.

**Fairness.** `FairCodexSpec`: a request that has begun and a worker go on (threads are
scheduled, and the Codex process ends some day, which is an assumption about it). Weak fairness
is enough although the lock is contended, as each worker has finitely many sections.
`FairAgentSpec`: the nodes of a call are plain code, and an attempt at the model ends, because
the request has a timeout (`LLM_TIMEOUT_SECONDS`); how it ends is left open. Nobody has to
click, to call again or to restart, and no stream has to break. The other modules promise
nothing about what must happen: their clients may always go away.

**Observed on the way.** What the models show and no document of the repository denies:

- No node clears the channel "errors" of a checkpoint, so a case of which the model failed one
  call fails closed in every later one until the process restarts.
- A model's answer replaces the gate's policy in a plan: it may say ALLOW_STANDARD_PROCESSING
  where `execution_allowed` is false. Only the latter lets the robot execute.
- The triage response and the route plan name different actions for vendor, inventory and
  unknown exceptions, so such runs are counted under keys the evaluator never looks up.
- A registry that does not parse makes the route call fail, while a commit falls back to
  KEEP_RPA_MODE; nothing repairs the file, as `upsert_capability` raises on it too.
- A commit without artifacts counts an order with status Exception as `budget_exceeded`
  (`run_memory.py:676-680`).
- A completion that names its case by an order number can close an earlier case that carries the
  same number, chosen by a client of `/simulation/enqueue` (`main.py:6770`).
- An approval that outlives a simulation reset marks the new case that now has the id
  (`main.py:9658`). `NoRivalWriteback` says what is kept: never beside an approval of its own.
- The evaluator looks at the largest pattern of a case, whichever run is committed
  (`main.py:2381`).

## 4. What is proved

For all constants that satisfy the named assumptions. TLC evaluates these in the runs above;
they ask for threads and requests that are finitely many (threads at least one), for bounds that
are natural numbers, for "none" values that are not what they stand in for, and in `ErpWorkQueue`
that an approval can be linked to any case (`SimsAssumption`). A theorem for one thread
(`OneThread`) or one coroutine (`OneRequest`) has that as its hypothesis, and
`ProposalsAreAutomatable` one about the historical data; everything else is for any number.

Where the code locks nothing a property is kept only while calls do not meet. The proofs about
that share one form: the history says that nothing was disturbed, so there is *one thread that
all others leave alone*, and the invariant describes the files by the step that this thread has
reached. Each step then has to be looked at for that thread only; a step of another one, or one
that comes in between, ends the condition for good.

`SimulationQueue_proofs` - `SimTypeCorrect`, `IdsStayBehind`, `NeverClosedUnclaimed`,
`ResetIsolates`, `HandOutsBounded` for any number of threads, `SerialTerminalIsFinal`,
`SerialCaseIsReachable`, `SerialClosesTheNamedCase` for one. The inductive invariant `SimIInv` is type correctness, that every
case has a number from 1 up to its own position (`IdsAtPositions`), that the objects in the list
are distinct and made, and `HandlerSound`: what a thread in each of its steps may still rely on
(the case it is about to finish is not pending, the number it measured does not exceed the list).
Without it none of the properties is inductive, since a late write depends on an earlier test.
`HandedIInv` adds that callers handed a case and threads about to take it are together no more
than the threads; `SerialIInv` that a thread about to claim still sees the case pending;
`ExactIInv` that with one thread every case has exactly the number of its position, so that no two
share one; `NamedInv` that a handler which holds another case than the named one found it under an
id or an order number of the named one. Together they say that the completion of a case goes
astray by a client's order number alone.

`ErpWorkQueue_proofs` proves first about the store by itself: `ApprovalTypeCorrect`,
`WritebackNeedsApproval`, `ApprovalIdsStayDense`, `DecisionsBounded` for any number of threads
and coroutines; `OneRequestDecidesPending` with one coroutine, `SerialCreatesReplaceNothing` with
one thread, and `SerialStoreImplementsMachine` with both: the store refines `ApprovalMachine`.
The strengthening is that a coroutine past its check of an approved task holds either an object
no longer stored or one whose trail shows the approval; with one coroutine, that the checked
status is still there. `DecidedIInv` counts, for each task, the decisions on its trail and the
coroutines that may still add one, because they saw it pending: together no more than the
requests there are, and of a pending task only the latter.

Then about the store and the queue joined. `JoinedStoreIsTheStore` shows that every behaviour of
the joined module is one of `ApprovalStore` (`ErpSpec => ApprovalSpec`), so what is proved of the
store holds in the ERP and is not proved again (`JoinedStoreImplementsMachine`).
What the two joined handlers do to the queue is to mark cases and no more (`Marks`), which keeps
`SimIInv` and `HandedIInv`: however many threads race, what the queue promises by itself it
promises in the ERP (`ErpTypeCorrect`, `JoinedHandOutsBounded`, `JoinedNeverClosedUnclaimed`,
`JoinedResetIsolates`), and with one thread terminal cases stay terminal
(`JoinedTerminalIsFinal`) and completions close what they name (`JoinedClosesTheNamedCase`). `SerialWritesBackHome` rests on `OriginIInv`: with one
thread every case has exactly the number of its position (`ExactIInv`), a stored task carries the
number of the case it was made for, and so the search finds that case as long as it is queued.
`SerialNoRivalWriteback` needs one request too; `RivalIInv` says of every task that a submit has
made or linked that none stored before it is active for the same case id (`NoElder`), so of two
such tasks for one id at most one is active. `SerialSubmitAddsNone` needs one request as well,
as a second coroutine may bring a rejected task back between the scan and the insert; `SoleIInv`
says that none becomes active in that time.

`RunCommit_proofs` - `CommitTypeCorrect`, `CountsStayBehindCommits`, `NoHastyProposal` for any
number of threads, runs and signatures, any threshold, and restarts anywhere. A count in a file
says little of itself: a thread may be about to write an old one. `EvidenceInv` therefore
bounds every count that exists anywhere, in a file or in the hands of a thread, by the
historical count and the commits counted so far (a commit in progress has already been
counted in `commits`), and says that whoever holds a decision to propose, or has filed it,
had as many commits as the threshold behind it (`Rested`). As `commits` only grows, what
once rested on enough commits still does. `UndisturbedCommitsCount`,
`DecisionsNameTheirProposals` and `ProposalsAreKept` follow from `OrderInv`: `PatternsInOrder`,
`NumbersInOrder` (no id is on file that the sequence file, or the thread about to write it, has
not handed out) and `ProposalsInOrder` describe the three kinds of files by the step of the one
busy thread; `FiledFirst` is kept by racing commits as well. `ProposalsAreAutomatable` is for
racing commits too. A real pattern forgets the noApi of the historical entry it replaces, but
keeps the entry's figures (`FiguresKept`), so the theorem asks of the entries with noApi that
their figures and exception propose nothing (`NoApiEntriesWait`). The one such entry of
`memory/data/historical_patterns.json` has none of the figures; TLC evaluates the hypothesis for
the instance of `commit_memory`. One with high values would be proposed at its threshold.

`CaseAgents_proofs` - `AgentTypeCorrect`, `DecisionsAreEarned`, `CheckpointsShowDecisions`,
`FailuresStayInTheirCase` for any number of cases, threads, calls and attempts. A call works on
its own copy of the channels, which it loaded from a checkpoint that others write. `EarnedInv`
says which channels a call has already replaced by its own at each of its nodes (`OwnOutput`),
so that what the last node guards cannot be someone else's. For the checkpoint,
`CopyShowsDecision` says that an undisturbed call's copy shows the decision the case had when
the call began.

`RoutedRun_proofs` - `RoutedTypeCorrect`, `ExecutionIsForCleanOrders`, `FailedModelsStop`,
`TrustRests`, `RunsCountAsPlanned`, for any orders, any answers of the model and any threshold. `PlanInv` says that every plan, in the hands of a call, of the robot or in the
decision file, is one that the rules can make of the robot's order; `Grounded` that a plan which
uses the trusted capability was made from a registry that named it, which takes a validation that
passed. For the last, `SoloInv` says that the one call that runs is the one the robot waits for or
has given up (`Serves`), that each artifact on file is the one the plan makes (`ArtifactsRight`),
and that the artifacts no longer change when a commit derives from them, so that deriving a field
again gives the same (`DerivedOnce`).

`ModernizationServices_proofs` - `ServicesTypeCorrect`, `TrustIsValidated`, `TasksAreUnique`,
`WritebacksReportedOnce`, `ToolsRegisteredOnce`, `UndisturbedFilesStay`, `RegistriesSettle`, for any number of
threads, orders, tools and calls. A step is one of one service, and `Inserts` says of which kinds
its events are; so each service's invariant is proved once for its own steps and once for all the
others. `TrustInv` follows a validation from its result to what it holds of `capabilities.json`,
and so says that every registry that exists anywhere names what was validated. `LookedUp` says
what a request that found no task may conclude although others come first (only the UNIQUE
constraint decides). `ReportInv` and `WritebackTablesAgree` tie the status that a page read to the
events still to be inserted, and `ToolInv` the list a registration filtered to the list it
replaces. For the files, `FilesInv` follows the one validation that runs through its stages: how
far the timeline is told and how far the copy in hand (`TimelinePart`), and which of the two
capabilities each registry names between the two upserts (`RegistryPart`). When both were there,
the first upsert turns the list around and the second turns it back. `SettleInv` does the same for
a validation that runs alone but starts from anything: whatever earlier ones left, by its last
step it has rewritten both registries (`BroughtFar`), and all it needs of the list it found is
that no capability is in it twice (`SoundList`).

`RunMemory_proofs` - `RunTypeCorrect`, `StartsAreSeparate`, `AnswersAreKept`,
`FilesStayBehindStreams`, `DerivedFilesTellAll`, for any number of processes, threads, cases, runs
and calls, and for all but the last with calls that overlap and restarts anywhere. `StreamInv`
says what a thread may rely on at each of its steps: before its append, a start has a directory
with an empty stream, and once the event is in it stays (`Told`); `OneStartPerRun` is inductive
only with that. `FilesInv` is about every content of a derived file that exists anywhere, in the
file or in the hands of a thread that read it before others wrote: each is borne out by the
streams (`Honest`), and streams only grow. `DerivedFilesTellAll` is the other direction, that
nothing is missing. `TidyInv` says of every file that it tells exactly the events that concern it
(`Tells`, `About`), less the event of the one call that has the file still to rewrite (`Due`); a
call's list of such files has no name twice, so each step of the list takes one file from due to
told. Events are compared by the number of their call (`Numbered`).

`CodexSessions_proofs` - `CodexTypeCorrect`, `SessionsStayAccounted`, `ActivitiesStay` for any
number of threads, proposals, sessions and any limit, with restarts anywhere;
`StartsOwnTheirSession` for one thread and no restart. `CodexInv` says what a request holds: a
number that it counted follows an existing session for ever, as no session is removed. `KeptInv`
is about what the lock protects: a worker in its section holds every activity that its file
shows, unless an approval has written the file afresh since (`Fresh`), and a file that cannot be
read has nothing to lose unless the holder of the lock has it open. `OwnInv` follows the prompt
from the proposal to the worker, and says that a start which has its number shares it with no
worker.

**Only model-checked:** liveness (`SessionsEnd`, `CallsEnd`: fairness and ENABLED are beyond the
proof system used here) and the violations. Every safety property of the passing runs is
stated by a theorem. What a recursive definition computes for every input is not proved, as that
takes an induction over data.

## 5. What is not modelled

Components without a module: the robot's status page (it only shows what the robot posts),
API-key authentication (a comparison before each handler), the HTML pages, the UiPath workflows
(they are not Python; `RoutedRun` has the robot as the client the endpoints see), the scripts
for migration, export and reset, the texts that explain decisions, and the formats and prompts
of the providers. `run_triage_agent` (`main.py:1258`) is called by no endpoint.

Of the modelled parts: business fields, names, comments and times are abstracted; file-system
errors and `RuntimeError` when a dict grows during a scan are not modelled (the failing
request has changed nothing). Of `RunMemory`, the date in a run id; an append to a stream is one step. Of `RunCommit`,
the files only one run's commit writes (they change in one step); the evaluator's pass over all
pattern files is one step. Of Automation Memory, queries that only a page shows. The approval
store and the queue are lost in a restart while Run Memory stays: the models of the first two
start anew, and no code joins the two again.

What a race breaks is not claimed for it: `NoTaskReplaced`, `TerminalIsFinal` and
`SubmitAddsNoSecondApproval` are proved for one creating thread, and the first two are refuted for
two by `Race_Ids.cfg` and `Race_Claim.cfg`; the theorems on dense ids and on hand-outs, for any number of
threads, say what remains.

## 6. Plan

Done: every service's shared state and the routed order (sections 2 and 3), and the proofs of
section 4.

Next, proofs:

1. What a submit that a reset overtook may still write: only cases of the old list. The
   property is to be stated over `clerk` beside `ResetIsolation`, with the list a clerk looked in.
2. The two liveness properties' safety halves: that a worker which has entered its last section
   and a call which has made its last attempt have only steps left that end them.
