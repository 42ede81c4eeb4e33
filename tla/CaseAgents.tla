----------------------------- MODULE CaseAgents -----------------------------
(***************************************************************************)
(* The LLM agents of the reasoning agent (main.py): readiness, plan, and   *)
(* the two endpoints that ask for a plan on behalf of a capability gap.    *)
(*                                                                         *)
(* An agent is a chain of nodes run by LangGraph. A run starts from the    *)
(* checkpoint of its thread id, which is the case, and MemorySaver gets a  *)
(* new checkpoint after every node: both agents of a case, and all calls   *)
(* about it, share one set of channels. Calls run on pool threads and may  *)
(* overlap; each then works on its own copy, and the last put is the one   *)
(* the next call loads. A restart empties MemorySaver.                     *)
(*                                                                         *)
(* Abstracted: prompts, scores, texts, and the fields a failed plan        *)
(* leaves blank. LangGraph is assumed installed (requirements.txt).        *)
(***************************************************************************)
EXTENDS Naturals, ThreadPool

CONSTANTS
  Cases,         \* case ids the endpoints are called with
  Actions,       \* business actions gaps are recorded for
  Payloads,      \* readiness requests that arrive
  NoPayload,     \* in place of one, for the other endpoints
  MaxRetries,    \* LLM_MAX_RETRIES: attempts of one structured LLM call
  GapThreshold,  \* CAPABILITY_EVOLUTION_THRESHOLD
  MaxGaps,       \* bound: gaps recorded for an action
  MaxCalls       \* bound: calls in a behaviour

ASSUME AgentBounds ==
  /\ MaxRetries \in Nat \ {0}
  /\ GapThreshold \in Nat \ {0}
  /\ MaxGaps \in Nat
  /\ MaxCalls \in Nat

Payload ==
  [frequency : Nat, validation : STRING, approval : STRING, exception : STRING,
   writeback : STRING, sideEffects : BOOLEAN, parityRequired : BOOLEAN, parity : STRING]

(* Somebody calls.                                                         *)
ASSUME CasesAssumption == Cases \cup Actions # {}

ASSUME PayloadAssumption == Payloads \subseteq Payload /\ NoPayload \notin Payloads

VARIABLES
  available,    \* llm_available: the process has an API key or the mock mode
  gaps,         \* CAPABILITY_GAP_RECORDED events per action, on disk
  checkpoints,  \* MemorySaver: the latest channels of each thread id
  call,         \* per pool thread: the call it is serving
  calls,        \* how many calls there were
  decided,      \* history: the response of the last call answered, per thread id
  overlapped,   \* history: thread ids two calls have worked on at once
  gaveUp        \* history: thread ids an LLM call has given up on

agentVars == <<available, gaps, checkpoints, call, calls, decided, overlapped, gaveUp>>

----------------------------------------------------------------------------
(* Values.                                                                 *)

(* A plan without a case id runs under a thread id made from its action.   *)
ThreadIds == Cases \cup Actions

(* /capability-gap/proposal is a plan with a workflow name made from it.   *)
Kinds == {"readiness", "plan", "evaluate"}

(* What the LLM decided: a plan, or whether the action is a candidate.     *)
Outputs == {"none", "plan", "candidate", "no_candidate"}

Ready       == "DECISION_READY"
Blocked     == "GUARDRAIL_BLOCKED"
Invalid     == "INVALID_LLM_OUTPUT"
PlanFailed  == "PLAN_GENERATION_FAILED"
Unavailable == "MODEL_UNAVAILABLE"

Statuses == {Ready, Blocked, Invalid, PlanFailed, Unavailable,
             "NOT_TRIGGERED", "TRIGGERED_WITHOUT_PLAN", "SERVER_ERROR", "none"}

Response(status) == [status |-> status, candidate |-> FALSE]
NoResponse       == Response("none")
Responses        == [status : Statuses, candidate : BOOLEAN]

(* AgentState, as far as a later node or a later call reads it.            *)
Channels      == [errors : BOOLEAN, output : Outputs, response : Responses]
EmptyChannels == [errors |-> FALSE, output |-> "none", response |-> NoResponse]

(* A thread's call: where it is, what it was asked, its copy of the        *)
(* channels, the attempts made, the LLM's answer to this very call, and,   *)
(* when it is over, the response.                                          *)
Call(node, kind, id, payload, channels) ==
  [node |-> node, kind |-> kind, id |-> id, payload |-> payload,
   channels |-> channels, attempts |-> 0, own |-> "none", response |-> NoResponse]

NoCall == Call("done", "plan", CHOOSE id \in ThreadIds : TRUE, NoPayload, EmptyChannels)

(* A call is over; what it answered, and from which of its answers, is     *)
(* kept until the thread serves another.                                   *)
Ended(c, response) ==
  [NoCall EXCEPT !.kind = c.kind, !.payload = c.payload, !.own = c.own,
                 !.response = response]

Nodes == {"done", "collect", "llm", "validate", "guardrails"}

Idle(t) == call[t].node = "done"

----------------------------------------------------------------------------
(* readiness_blocking_reasons.                                             *)

Reasons == {"frequency", "validation", "approval", "exception", "writeback",
            "side_effects", "parity_required", "parity"}

BlockingReasons(p) ==
  {r \in Reasons :
     \/ r = "frequency"       /\ p.frequency < 10
     \/ r = "validation"      /\ p.validation # "VALIDATION_PASSED"
     \/ r = "approval"        /\ p.approval # "APPROVED"
     \/ r = "exception"       /\ p.exception # "budget_exceeded"
     \/ r = "writeback"       /\ p.writeback # "PENDING_MANAGER_APPROVAL"
     \/ r = "side_effects"    /\ ~p.sideEffects
     \/ r = "parity_required" /\ ~p.parityRequired
     \/ r = "parity"          /\ p.parity # "passed"}

(* apply_guardrails and validate_plan_schema: the last node's response.    *)
(* A channel "errors" left by any earlier call counts as well.             *)
Guarded(c) ==
  IF c.channels.errors
    THEN Response(IF c.kind = "readiness" THEN Invalid ELSE PlanFailed)
  ELSE IF c.kind # "readiness"
    THEN Response(Ready)
  ELSE IF c.channels.output = "candidate" /\ BlockingReasons(c.payload) = {}
    THEN [status |-> Ready, candidate |-> TRUE]
  ELSE Response(Blocked)

----------------------------------------------------------------------------
(* call_llm_structured. An answer is valid (an Output), or one of the      *)
(* errors it catches and retries, or one it does not catch.                *)

ValidAnswers(kind) ==
  IF kind = "readiness" THEN {"candidate", "no_candidate"} ELSE {"plan"}

(* The LLM node's writes: validated_output, or errors. Neither clears what *)
(* the other channel holds from an earlier call.                           *)
Answered(channels, answer) == [channels EXCEPT !.output = answer]

(* Mutant: the LLM node reports no error and leaves the channels alone.    *)
Failed_Silent(channels) == channels

Failed(channels) == [channels EXCEPT !.errors = TRUE]

----------------------------------------------------------------------------
AgentInit ==
  /\ available \in BOOLEAN
  /\ gaps = [a \in Actions |-> 0]
  /\ checkpoints = [id \in ThreadIds |-> EmptyChannels]
  /\ call = [t \in Threads |-> NoCall]
  /\ calls = 0
  /\ decided = [id \in ThreadIds |-> NoResponse]
  /\ overlapped = {}
  /\ gaveUp = {}

(* The validation suite records a gap: one insert into events.db.          *)
RecordGap(a) ==
  /\ gaps[a] < MaxGaps
  /\ gaps' = [gaps EXCEPT ![a] = @ + 1]
  /\ UNCHANGED <<available, checkpoints, call, calls, decided, overlapped, gaveUp>>

(* A call that never reaches the graph answers at once.                    *)
AnswerAtOnce(t, kind, id, payload, status) ==
  /\ call' = [call EXCEPT ![t] =
       Ended(Call("done", kind, id, payload, EmptyChannels), Response(status))]
  /\ calls' = calls + 1
  /\ UNCHANGED <<available, gaps, checkpoints, decided, overlapped, gaveUp>>

Working(id) == {t \in Threads : ~Idle(t) /\ call[t].id = id}

(* invoke_graph: load the case's channels and put the request.             *)
InvokeGraph(t, kind, id, payload) ==
  /\ call' = [call EXCEPT ![t] = Call("collect", kind, id, payload, checkpoints[id])]
  /\ overlapped' = IF Working(id) = {} THEN overlapped ELSE overlapped \cup {id}
  /\ calls' = calls + 1
  /\ UNCHANGED <<available, gaps, checkpoints, decided, gaveUp>>

RunAgent(t, kind, id, payload) ==
  IF available THEN InvokeGraph(t, kind, id, payload)
               ELSE AnswerAtOnce(t, kind, id, payload, Unavailable)

(* /modernization/readiness                                                *)
AskReadiness(t, id, payload) ==
  Idle(t) /\ RunAgent(t, "readiness", id, payload)

(* /modernization/plan and /capability-gap/proposal                        *)
AskPlan(t, id) ==
  Idle(t) /\ RunAgent(t, "plan", id, NoPayload)

(* /capability-evolution/evaluate, with a case id or without.              *)
Evaluate(t, a, id) ==
  /\ Idle(t)
  /\ IF gaps[a] < GapThreshold
       THEN AnswerAtOnce(t, "evaluate", id, NoPayload, "NOT_TRIGGERED")
       ELSE RunAgent(t, "evaluate", id, NoPayload)

(* A node ends: its writes go to the thread's channels and, through        *)
(* MemorySaver, over whatever the last put left.                           *)
Put(t, node, channels) ==
  /\ call' = [call EXCEPT ![t].node = node, ![t].channels = channels]
  /\ checkpoints' = [checkpoints EXCEPT ![call[t].id] = channels]
  /\ UNCHANGED <<available, gaps, calls, decided, overlapped>>

(* Mutant: the first node starts a call from cleared channels.             *)
CollectEvidence_Clears(t) ==
  /\ call[t].node = "collect"
  /\ Put(t, "llm", EmptyChannels)
  /\ UNCHANGED gaveUp

CollectEvidence(t) ==
  /\ call[t].node = "collect"
  /\ Put(t, "llm", call[t].channels)
  /\ UNCHANGED gaveUp

NodeAfterLlm(kind) == IF kind = "readiness" THEN "validate" ELSE "guardrails"

LlmAnswers(t) ==
  /\ call[t].node = "llm"
  /\ \E answer \in ValidAnswers(call[t].kind) :
       /\ call' = [call EXCEPT ![t].node = NodeAfterLlm(call[t].kind),
                               ![t].channels = Answered(call[t].channels, answer),
                               ![t].own = answer]
       /\ checkpoints' = [checkpoints EXCEPT ![call[t].id] = Answered(call[t].channels, answer)]
  /\ UNCHANGED <<available, gaps, calls, decided, overlapped, gaveUp>>

(* Mutant: every failed attempt leaves its error in the channels.          *)
LlmRetries_KeepsError(t) ==
  /\ call[t].node = "llm" /\ call[t].attempts + 1 < MaxRetries
  /\ call' = [call EXCEPT ![t].attempts = @ + 1, ![t].channels = Failed(@)]
  /\ UNCHANGED <<available, gaps, checkpoints, calls, decided, overlapped, gaveUp>>

(* Mutant: the attempts start over instead of running out.                 *)
LlmRetries_StartOver(t) ==
  /\ call[t].node = "llm"
  /\ call' = [call EXCEPT ![t].attempts = (@ + 1) % MaxRetries]
  /\ UNCHANGED <<available, gaps, checkpoints, calls, decided, overlapped, gaveUp>>

(* Invalid JSON, a schema error, a timeout: try again.                     *)
LlmRetries(t) ==
  /\ call[t].node = "llm" /\ call[t].attempts + 1 < MaxRetries
  /\ call' = [call EXCEPT ![t].attempts = @ + 1]
  /\ UNCHANGED <<available, gaps, checkpoints, calls, decided, overlapped, gaveUp>>

LlmGivesUp(t) ==
  /\ call[t].node = "llm" /\ call[t].attempts + 1 = MaxRetries
  /\ Put(t, NodeAfterLlm(call[t].kind), Failed(call[t].channels))
  /\ gaveUp' = gaveUp \cup {call[t].id}

(* An answer of another shape (no "choices", no text) raises through the   *)
(* graph; the trigger alone contains it.                                   *)
LlmRaises(t) ==
  /\ call[t].node = "llm"
  /\ call' = [call EXCEPT ![t] = Ended(@,
       Response(IF call[t].kind = "evaluate" THEN "TRIGGERED_WITHOUT_PLAN"
                                             ELSE "SERVER_ERROR"))]
  /\ UNCHANGED <<available, gaps, checkpoints, calls, decided, overlapped, gaveUp>>

ValidateSchema(t) ==
  /\ call[t].node = "validate"
  /\ Put(t, "guardrails", call[t].channels)
  /\ UNCHANGED gaveUp

ApplyGuardrails(t) ==
  /\ call[t].node = "guardrails"
  /\ LET response == Guarded(call[t])
         channels == [call[t].channels EXCEPT !.response = response]
     IN  /\ call' = [call EXCEPT ![t] = Ended(@, response)]
         /\ checkpoints' = [checkpoints EXCEPT ![call[t].id] = channels]
         /\ decided' = [decided EXCEPT ![call[t].id] = response]
  /\ UNCHANGED <<available, gaps, calls, overlapped, gaveUp>>

(* The process starts again, perhaps with another configuration.           *)
AgentRestart ==
  /\ available' \in BOOLEAN
  /\ checkpoints' = [id \in ThreadIds |-> EmptyChannels]
  /\ call' = [t \in Threads |-> NoCall]
  /\ decided' = [id \in ThreadIds |-> NoResponse]
  /\ overlapped' = {}
  /\ gaveUp' = {}
  /\ UNCHANGED <<gaps, calls>>

----------------------------------------------------------------------------
NewCall(t) ==
  /\ calls < MaxCalls
  /\ \/ \E id \in Cases, payload \in Payloads : AskReadiness(t, id, payload)
     \/ \E id \in Cases : AskPlan(t, id)
     \/ \E a \in Actions, id \in Cases : Evaluate(t, a, id)
     \/ \E a \in Actions : Evaluate(t, a, a)

AgentStep(t) ==
  \/ CollectEvidence(t)
  \/ LlmAnswers(t) \/ LlmRetries(t) \/ LlmGivesUp(t) \/ LlmRaises(t)
  \/ ValidateSchema(t)
  \/ ApplyGuardrails(t)

AgentNext ==
  \/ \E a \in Actions : RecordGap(a)
  \/ \E t \in Threads : NewCall(t) \/ AgentStep(t)
  \/ AgentRestart

AgentSpec == AgentInit /\ [][AgentNext]_agentVars

(* A started call moves on: nodes are plain code, and an LLM request has a *)
(* timeout (LLM_TIMEOUT_SECONDS). Nobody has to call, retry or restart.    *)
FairAgentSpec == AgentSpec /\ \A t \in Threads : WF_agentVars(AgentStep(t))

----------------------------------------------------------------------------
(* Properties.                                                             *)

AgentTypeOK ==
  /\ available \in BOOLEAN
  /\ gaps \in [Actions -> 0..MaxGaps]
  /\ calls \in 0..MaxCalls
  /\ checkpoints \in [ThreadIds -> Channels]
  /\ call \in [Threads ->
       [node : Nodes, kind : Kinds, id : ThreadIds, payload : Payloads \cup {NoPayload},
        channels : Channels, attempts : 0..(MaxRetries - 1), own : Outputs,
        response : Responses]]
  /\ decided \in [ThreadIds -> Responses]
  /\ overlapped \subseteq ThreadIds
  /\ gaveUp \subseteq ThreadIds

(* Every gate of readiness_blocking_reasons is passed.                     *)
Earned(p) ==
  /\ p.frequency >= 10
  /\ p.validation = "VALIDATION_PASSED"
  /\ p.approval = "APPROVED"
  /\ p.exception = "budget_exceeded"
  /\ p.writeback = "PENDING_MANAGER_APPROVAL"
  /\ p.sideEffects /\ p.parityRequired /\ p.parity = "passed"

(* A call answered as decided was decided by the LLM in this call, never   *)
(* from the validated_output an earlier or overlapping call of the case    *)
(* left in the checkpoint; and a response that makes an action a           *)
(* modernization candidate rests on the LLM's answer to this very request, *)
(* which passed every gate (readiness agent, main.py:1350).                *)
DecisionIsEarned ==
  \A t \in Threads : LET c == call[t] IN
    Idle(t) =>
      /\ c.response.status \in {Ready, Blocked} => c.own \in ValidAnswers(c.kind)
      /\ c.response.candidate => c.own = "candidate" /\ Earned(c.payload)

(* GET /agent-state/{case_id}                                              *)
ShownDecision(id) == checkpoints[id].response

(* What GET /agent-state shows of a case nobody is working on is the last  *)
(* decision made for it, as long as calls about it have not overlapped:    *)
(* a call that raises midway leaves the earlier decision readable.         *)
CheckpointShowsDecision ==
  \A id \in ThreadIds :
    Working(id) = {} /\ id \notin overlapped => ShownDecision(id) = decided[id]

(* A failure stays in its case: no call fails closed for want of a valid   *)
(* answer unless the LLM has failed a call of the same case since the      *)
(* process started. It need not be this call, because nothing ever clears  *)
(* "errors": after one failure the case's readiness and plan calls all     *)
(* fail closed, however well the LLM answers them.                         *)
FailureStaysInItsCase ==
  /\ \A id \in ThreadIds : checkpoints[id].errors => id \in gaveUp
  /\ \A t \in Threads : call[t].channels.errors => call[t].id \in gaveUp

(* Every call is answered: the attempts are counted, also when a node      *)
(* fails or raises.                                                        *)
CallsEnd == \A t \in Threads : call[t].node # "done" ~> call[t].node = "done"

=============================================================================
