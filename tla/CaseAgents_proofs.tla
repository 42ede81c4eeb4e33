-------------------------- MODULE CaseAgents_proofs --------------------------
(***************************************************************************)
(* Theorems about the agents, for any number of threads, cases, actions,   *)
(* requests and attempts.                                                  *)
(***************************************************************************)
EXTENDS CaseAgents, TLAPS

----------------------------------------------------------------------------
(* Values.                                                                 *)

LEMMA EmptyChannelsTyped == EmptyChannels \in Channels /\ NoResponse \in Responses
BY DEF EmptyChannels, Channels, Outputs, NoResponse, Response, Responses, Statuses

LEMMA SomeThreadId == (CHOOSE id \in ThreadIds : TRUE) \in ThreadIds
BY CasesAssumption DEF ThreadIds

Calls ==
  [node : Nodes, kind : Kinds, id : ThreadIds, payload : Payloads \cup {NoPayload},
   channels : Channels, attempts : 0..(MaxRetries - 1), own : Outputs,
   response : Responses]

LEMMA CallTyped ==
  ASSUME NEW node \in Nodes, NEW kind \in Kinds, NEW id \in ThreadIds,
         NEW payload \in Payloads \cup {NoPayload}, NEW channels \in Channels
  PROVE  Call(node, kind, id, payload, channels) \in Calls
<1>1. 0 \in 0..(MaxRetries - 1) BY AgentBounds
<1>2. QED BY <1>1, EmptyChannelsTyped DEF Call, Calls, Outputs

LEMMA NoCallTyped == NoCall \in Calls
<1>1. "done" \in Nodes /\ "plan" \in Kinds BY DEF Nodes, Kinds
<1>2. QED BY <1>1, CallTyped, SomeThreadId, EmptyChannelsTyped DEF NoCall

LEMMA EndedTyped ==
  ASSUME NEW c \in Calls, NEW response \in Responses
  PROVE  Ended(c, response) \in Calls
BY NoCallTyped DEF Ended, Calls

LEMMA GuardedTyped ==
  ASSUME NEW c \in Calls
  PROVE  Guarded(c) \in Responses
<1>1. \A s \in Statuses : Response(s) \in Responses BY DEF Response, Responses
<1>2. {Ready, Blocked, Invalid, PlanFailed} \subseteq Statuses
      BY DEF Ready, Blocked, Invalid, PlanFailed, Statuses
<1>3. [status |-> Ready, candidate |-> TRUE] \in Responses BY <1>2 DEF Responses
<1>4. QED BY <1>1, <1>2, <1>3 DEF Guarded

----------------------------------------------------------------------------
(* Type correctness.                                                       *)

LEMMA TypeUnfolded ==
  AgentTypeOK <=>
    /\ available \in BOOLEAN
    /\ gaps \in [Actions -> 0..MaxGaps]
    /\ calls \in 0..MaxCalls
    /\ checkpoints \in [ThreadIds -> Channels]
    /\ call \in [Threads -> Calls]
    /\ decided \in [ThreadIds -> Responses]
    /\ overlapped \subseteq ThreadIds
    /\ gaveUp \subseteq ThreadIds
BY DEF AgentTypeOK, Calls

LEMMA InitTyped == AgentInit => AgentTypeOK
<1>1. 0 \in 0..MaxGaps /\ 0 \in 0..MaxCalls BY AgentBounds
<1>2. QED BY <1>1, EmptyChannelsTyped, NoCallTyped, TypeUnfolded DEF AgentInit

LEMMA ChannelsAnswered ==
  ASSUME NEW channels \in Channels
  PROVE  /\ \A answer \in Outputs : Answered(channels, answer) \in Channels
         /\ Failed(channels) \in Channels
         /\ \A response \in Responses :
              [channels EXCEPT !.response = response] \in Channels
BY DEF Answered, Failed, Channels

(* A call that arrives.                                                    *)
LEMMA NewCallTyped ==
  ASSUME AgentTypeOK, NEW t \in Threads, NewCall(t)
  PROVE  AgentTypeOK'
<1>1. calls + 1 \in 0..MaxCalls BY TypeUnfolded, AgentBounds DEF NewCall
<1>2. ASSUME NEW kind \in Kinds, NEW id \in ThreadIds,
             NEW payload \in Payloads \cup {NoPayload}, NEW status \in Statuses,
             AnswerAtOnce(t, kind, id, payload, status)
      PROVE  AgentTypeOK'
  <2>1. Call("done", kind, id, payload, EmptyChannels) \in Calls
        BY CallTyped, EmptyChannelsTyped DEF Nodes
  <2>2. Response(status) \in Responses BY DEF Response, Responses
  <2>3. Ended(Call("done", kind, id, payload, EmptyChannels), Response(status)) \in Calls
        BY <2>1, <2>2, EndedTyped
  <2>4. call' \in [Threads -> Calls] BY <1>2, <2>3, TypeUnfolded DEF AnswerAtOnce
  <2>5. QED BY <1>1, <1>2, <2>4, TypeUnfolded DEF AnswerAtOnce, AgentTypeOK, Calls
<1>3. ASSUME NEW kind \in Kinds, NEW id \in ThreadIds,
             NEW payload \in Payloads \cup {NoPayload},
             RunAgent(t, kind, id, payload)
      PROVE  AgentTypeOK'
  <2>1. CASE available
    <3>1. Call("collect", kind, id, payload, checkpoints[id]) \in Calls
          BY CallTyped, TypeUnfolded DEF Nodes
    <3>2. call' \in [Threads -> Calls]
          BY <1>3, <2>1, <3>1, TypeUnfolded DEF RunAgent, InvokeGraph
    <3>3. overlapped' \subseteq ThreadIds
          BY <1>3, <2>1, TypeUnfolded DEF RunAgent, InvokeGraph
    <3>4. QED BY <1>1, <1>3, <2>1, <3>2, <3>3, TypeUnfolded
              DEF RunAgent, InvokeGraph, AgentTypeOK, Calls
  <2>2. CASE ~available
    <3>1. Unavailable \in Statuses BY DEF Unavailable, Statuses
    <3>2. QED BY <1>2, <1>3, <2>2, <3>1 DEF RunAgent
  <2>3. QED BY <2>1, <2>2, TypeUnfolded
<1>4. {"readiness", "plan", "evaluate"} \subseteq Kinds /\ "NOT_TRIGGERED" \in Statuses
      BY DEF Kinds, Statuses
<1>5. Cases \subseteq ThreadIds /\ Actions \subseteq ThreadIds BY DEF ThreadIds
<1>6. ASSUME NEW a \in Actions, NEW id \in ThreadIds, Evaluate(t, a, id)
      PROVE  AgentTypeOK'
      BY <1>2, <1>3, <1>4, <1>6 DEF Evaluate
<1>7. QED BY <1>3, <1>4, <1>5, <1>6 DEF NewCall, AskReadiness, AskPlan

LEMMA StepTyped ==
  ASSUME AgentTypeOK, NEW t \in Threads, AgentStep(t)
  PROVE  AgentTypeOK'
<1> DEFINE c == call[t]
<1>1. c \in Calls BY TypeUnfolded
<1>2. ASSUME NEW node \in Nodes, NEW channels \in Channels, Put(t, node, channels),
             gaveUp' \subseteq ThreadIds
      PROVE  AgentTypeOK'
  <2>1. [c EXCEPT !.node = node, !.channels = channels] \in Calls BY <1>1 DEF Calls
  <2>2. call' \in [Threads -> Calls] BY <1>2, <2>1, TypeUnfolded DEF Put
  <2>3. checkpoints' \in [ThreadIds -> Channels] BY <1>2, TypeUnfolded DEF Put
  <2>4. QED BY <1>2, <2>2, <2>3, TypeUnfolded DEF Put, AgentTypeOK, Calls
<1>3. c.channels \in Channels /\ c.id \in ThreadIds /\ c.attempts \in 0..(MaxRetries - 1)
      BY <1>1 DEF Calls
<1>4. NodeAfterLlm(c.kind) \in Nodes /\ {"llm", "guardrails"} \subseteq Nodes
      BY DEF NodeAfterLlm, Nodes
<1>5. CASE CollectEvidence(t)
      BY <1>2, <1>3, <1>4, <1>5, TypeUnfolded DEF CollectEvidence
<1>6. CASE LlmAnswers(t)
  <2>1. PICK answer \in ValidAnswers(c.kind) :
          /\ call' = [call EXCEPT ![t].node = NodeAfterLlm(c.kind),
                                  ![t].channels = Answered(c.channels, answer),
                                  ![t].own = answer]
          /\ checkpoints' = [checkpoints EXCEPT ![c.id] = Answered(c.channels, answer)]
        BY <1>6 DEF LlmAnswers
  <2>2. answer \in Outputs BY DEF ValidAnswers, Outputs
  <2>3. Answered(c.channels, answer) \in Channels BY <1>3, <2>2, ChannelsAnswered
  <2>4. [c EXCEPT !.node = NodeAfterLlm(c.kind), !.channels = Answered(c.channels, answer),
                  !.own = answer] \in Calls
        BY <1>1, <1>4, <2>2, <2>3 DEF Calls
  <2>5. call' \in [Threads -> Calls] BY <2>1, <2>4, TypeUnfolded
  <2>6. checkpoints' \in [ThreadIds -> Channels] BY <2>1, <2>3, TypeUnfolded
  <2>7. QED BY <1>6, <2>5, <2>6, TypeUnfolded DEF LlmAnswers, AgentTypeOK, Calls
<1>7. CASE LlmRetries(t)
  <2>1. c.attempts + 1 \in 0..(MaxRetries - 1) BY <1>3, <1>7, AgentBounds DEF LlmRetries
  <2>2. [c EXCEPT !.attempts = c.attempts + 1] \in Calls BY <1>1, <2>1 DEF Calls
  <2>3. call' \in [Threads -> Calls] BY <1>7, <2>2, TypeUnfolded DEF LlmRetries
  <2>4. QED BY <1>7, <2>3, TypeUnfolded DEF LlmRetries, AgentTypeOK, Calls
<1>8. CASE LlmGivesUp(t)
      BY <1>2, <1>3, <1>4, <1>8, ChannelsAnswered, TypeUnfolded DEF LlmGivesUp
<1>9. CASE LlmRaises(t)
  <2>1. \A s \in Statuses : Response(s) \in Responses BY DEF Response, Responses
  <2>2. Response(IF c.kind = "evaluate" THEN "TRIGGERED_WITHOUT_PLAN"
                                         ELSE "SERVER_ERROR") \in Responses
        BY <2>1 DEF Statuses
  <2>3. call' \in [Threads -> Calls]
        BY <1>1, <1>9, <2>2, EndedTyped, TypeUnfolded DEF LlmRaises
  <2>4. QED BY <1>9, <2>3, TypeUnfolded DEF LlmRaises, AgentTypeOK, Calls
<1>10. CASE ValidateSchema(t)
       BY <1>2, <1>3, <1>4, <1>10, TypeUnfolded DEF ValidateSchema
<1>11. CASE ApplyGuardrails(t)
  <2>1. Guarded(c) \in Responses BY <1>1, GuardedTyped
  <2>2. call' \in [Threads -> Calls]
        BY <1>1, <1>11, <2>1, EndedTyped, TypeUnfolded DEF ApplyGuardrails
  <2>3. [c.channels EXCEPT !.response = Guarded(c)] \in Channels
        BY <1>3, <2>1, ChannelsAnswered
  <2>4. checkpoints' \in [ThreadIds -> Channels]
        BY <1>11, <2>3, TypeUnfolded DEF ApplyGuardrails
  <2>5. decided' \in [ThreadIds -> Responses] BY <1>11, <2>1, TypeUnfolded DEF ApplyGuardrails
  <2>6. QED BY <1>11, <2>2, <2>4, <2>5, TypeUnfolded DEF ApplyGuardrails, AgentTypeOK, Calls
<1>12. QED BY <1>5, <1>6, <1>7, <1>8, <1>9, <1>10, <1>11 DEF AgentStep

LEMMA RestartTyped ==
  ASSUME AgentTypeOK, AgentRestart
  PROVE  AgentTypeOK'
BY EmptyChannelsTyped, NoCallTyped, TypeUnfolded DEF AgentRestart, AgentTypeOK, Calls

LEMMA TypePreserved == AgentTypeOK /\ [AgentNext]_agentVars => AgentTypeOK'
<1> SUFFICES ASSUME AgentTypeOK, [AgentNext]_agentVars PROVE AgentTypeOK'
    OBVIOUS
<1>1. CASE \E a \in Actions : RecordGap(a)
  <2>1. PICK a \in Actions : RecordGap(a) BY <1>1
  <2>2. gaps[a] + 1 \in 0..MaxGaps BY <2>1, TypeUnfolded, AgentBounds DEF RecordGap
  <2>3. gaps' \in [Actions -> 0..MaxGaps] BY <2>1, <2>2, TypeUnfolded DEF RecordGap
  <2>4. QED BY <2>1, <2>3, TypeUnfolded DEF RecordGap, AgentTypeOK, Calls
<1>2. CASE \E t \in Threads : NewCall(t) \/ AgentStep(t)
      BY <1>2, NewCallTyped, StepTyped
<1>3. CASE AgentRestart BY <1>3, RestartTyped
<1>4. CASE UNCHANGED agentVars BY <1>4 DEF agentVars, AgentTypeOK, Calls
<1>5. QED BY <1>1, <1>2, <1>3, <1>4 DEF AgentNext

(* In every state a call is at a node, with channels, an LLM answer and a  *)
(* number of attempts of their kinds: retrying never exceeds MaxRetries.   *)
THEOREM AgentTypeCorrect == AgentSpec => []AgentTypeOK
<1>1. QED BY InitTyped, TypePreserved, PTL DEF AgentSpec

----------------------------------------------------------------------------
(* A failure stays in its case.                                            *)

LEMMA EmptyIsClean ==
  /\ ~EmptyChannels.errors /\ EmptyChannels.response = NoResponse
  /\ NoCall.node = "done" /\ ~NoCall.channels.errors /\ NoCall.response = NoResponse
BY DEF EmptyChannels, NoCall, Call

LEMMA EndedIsIdle ==
  ASSUME NEW c, NEW response
  PROVE  /\ Ended(c, response).node = "done"
         /\ ~Ended(c, response).channels.errors
         /\ Ended(c, response).response = response
         /\ Ended(c, response).kind = c.kind
         /\ Ended(c, response).payload = c.payload
         /\ Ended(c, response).own = c.own
BY DEF Ended, NoCall, Call, EmptyChannels

LEMMA FailureStays ==
  AgentTypeOK /\ FailureStaysInItsCase /\ [AgentNext]_agentVars => FailureStaysInItsCase'
<1> SUFFICES ASSUME AgentTypeOK, FailureStaysInItsCase, [AgentNext]_agentVars
             PROVE  FailureStaysInItsCase'
    OBVIOUS
<1> USE DEF FailureStaysInItsCase
<1>1. CASE \E a \in Actions : RecordGap(a) BY <1>1 DEF RecordGap
<1>2. ASSUME NEW t \in Threads, NewCall(t) PROVE FailureStaysInItsCase'
  <2>1. ASSUME NEW kind, NEW id, NEW payload, NEW status,
               AnswerAtOnce(t, kind, id, payload, status)
        PROVE  FailureStaysInItsCase'
        BY <2>1, EndedIsIdle, TypeUnfolded DEF AnswerAtOnce
  <2>2. ASSUME NEW kind, NEW id \in ThreadIds, NEW payload, RunAgent(t, kind, id, payload)
        PROVE  FailureStaysInItsCase'
    <3>1. CASE available
      <4>1. call' = [call EXCEPT ![t] = Call("collect", kind, id, payload, checkpoints[id])]
            /\ UNCHANGED <<checkpoints, gaveUp>>
            BY <2>2, <3>1 DEF RunAgent, InvokeGraph
      <4>2. call'[t].channels = checkpoints[id] /\ call'[t].id = id
            BY <4>1, TypeUnfolded DEF Call
      <4>3. QED BY <4>1, <4>2, TypeUnfolded
    <3>2. CASE ~available BY <2>1, <2>2, <3>2 DEF RunAgent
    <3>3. QED BY <3>1, <3>2, TypeUnfolded
  <2>3. Cases \subseteq ThreadIds /\ Actions \subseteq ThreadIds BY DEF ThreadIds
  <2>4. ASSUME NEW a \in Actions, NEW id \in ThreadIds, Evaluate(t, a, id)
        PROVE  FailureStaysInItsCase'
        BY <2>1, <2>2, <2>4 DEF Evaluate
  <2>5. QED BY <1>2, <2>2, <2>3, <2>4 DEF NewCall, AskReadiness, AskPlan
<1>3. ASSUME NEW t \in Threads, AgentStep(t) PROVE FailureStaysInItsCase'
  <2> DEFINE c == call[t]
  <2>1. c \in Calls /\ c.id \in ThreadIds /\ c.channels \in Channels
        BY TypeUnfolded DEF Calls
  <2>2. CASE CollectEvidence(t) \/ ValidateSchema(t)
    <3>1. PICK node : Put(t, node, c.channels) /\ gaveUp' = gaveUp
          BY <2>2 DEF CollectEvidence, ValidateSchema
    <3>2. QED BY <2>1, <3>1, TypeUnfolded DEF Put, Calls
  <2>3. CASE LlmAnswers(t)
    <3>1. PICK answer : /\ call' = [call EXCEPT ![t].node = NodeAfterLlm(c.kind),
                                        ![t].channels = Answered(c.channels, answer),
                                        ![t].own = answer]
                       /\ checkpoints' = [checkpoints EXCEPT ![c.id] = Answered(c.channels, answer)]
                       /\ gaveUp' = gaveUp
          BY <2>3 DEF LlmAnswers
    <3>2. Answered(c.channels, answer).errors = c.channels.errors
          BY <2>1 DEF Answered, Channels
    <3>3. QED BY <2>1, <3>1, <3>2, TypeUnfolded DEF Calls
  <2>4. CASE LlmRetries(t) BY <2>1, <2>4, TypeUnfolded DEF LlmRetries, Calls
  <2>5. CASE LlmGivesUp(t)
        BY <2>1, <2>5, TypeUnfolded DEF LlmGivesUp, Put, Calls
  <2>6. CASE LlmRaises(t) BY <2>6, EndedIsIdle, TypeUnfolded DEF LlmRaises
  <2>7. CASE ApplyGuardrails(t)
    <3>1. \A r : [c.channels EXCEPT !.response = r].errors = c.channels.errors
          BY <2>1 DEF Channels
    <3>2. QED BY <2>1, <2>7, <3>1, EndedIsIdle, TypeUnfolded DEF ApplyGuardrails
  <2>8. QED BY <1>3, <2>2, <2>3, <2>4, <2>5, <2>6, <2>7 DEF AgentStep
<1>4. CASE AgentRestart BY <1>4, EmptyIsClean DEF AgentRestart
<1>5. CASE UNCHANGED agentVars BY <1>5 DEF agentVars
<1>6. QED BY <1>1, <1>2, <1>3, <1>4, <1>5 DEF AgentNext

(* No call of a case fails closed over the shared channels unless the LLM  *)
(* has failed a call of that very case since the process started.          *)
THEOREM FailuresStayInTheirCase == AgentSpec => []FailureStaysInItsCase
<1>1. AgentInit => FailureStaysInItsCase
      BY EmptyIsClean DEF AgentInit, FailureStaysInItsCase
<1>2. QED BY <1>1, InitTyped, TypePreserved, FailureStays, PTL DEF AgentSpec

----------------------------------------------------------------------------
(* A decision is earned.                                                   *)

(* What a call past the LLM node rests on: its own answer is the output in *)
(* its channels, or an error is. The channels come from earlier calls, so  *)
(* without this the output could be theirs.                                *)
OwnOutput ==
  \A t \in Threads : LET c == call[t] IN
    /\ ~Idle(t) /\ c.kind = "readiness" => c.payload \in Payloads
    /\ c.node \in {"validate", "guardrails"} =>
         c.channels.errors \/ (c.own \in ValidAnswers(c.kind) /\ c.channels.output = c.own)

EarnedInv == OwnOutput /\ DecisionIsEarned

(* Both parts, of one call.                                                *)
EarnedCall(c) ==
  /\ c.node # "done" /\ c.kind = "readiness" => c.payload \in Payloads
  /\ c.node \in {"validate", "guardrails"} =>
       c.channels.errors \/ (c.own \in ValidAnswers(c.kind) /\ c.channels.output = c.own)
  /\ c.node = "done" =>
       /\ c.response.status \in {Ready, Blocked} => c.own \in ValidAnswers(c.kind)
       /\ c.response.candidate => c.own = "candidate" /\ Earned(c.payload)

LEMMA EarnedByCalls == EarnedInv <=> \A t \in Threads : EarnedCall(call[t])
BY DEF EarnedInv, OwnOutput, DecisionIsEarned, EarnedCall, Idle

LEMMA EndedUnearned ==
  ASSUME NEW c, NEW status, status \notin {Ready, Blocked}
  PROVE  EarnedCall(Ended(c, Response(status)))
BY EndedIsIdle DEF EarnedCall, Response

(* An order without blocking reasons has passed every gate.                *)
LEMMA NothingBlocksEarned ==
  ASSUME NEW p \in Payloads, BlockingReasons(p) = {}
  PROVE  Earned(p)
<1>1. p.frequency \in Nat /\ p.sideEffects \in BOOLEAN /\ p.parityRequired \in BOOLEAN
      BY PayloadAssumption DEF Payload
<1>2. \A r \in Reasons : r \notin BlockingReasons(p) OBVIOUS
<1>3. /\ ~(p.frequency < 10) /\ p.validation = "VALIDATION_PASSED" /\ p.approval = "APPROVED"
      /\ p.exception = "budget_exceeded" /\ p.writeback = "PENDING_MANAGER_APPROVAL"
      /\ p.sideEffects /\ p.parityRequired /\ p.parity = "passed"
      BY <1>2 DEF BlockingReasons, Reasons
<1>4. QED BY <1>1, <1>3 DEF Earned

(* What the last node makes of an earned call is earned.                   *)
LEMMA GuardedEarned ==
  ASSUME NEW c \in Calls, EarnedCall(c), c.node = "guardrails"
  PROVE  EarnedCall(Ended(c, Guarded(c)))
<1>1. /\ Ready # Invalid /\ Ready # PlanFailed /\ Blocked # Invalid /\ Blocked # PlanFailed
      BY DEF Ready, Blocked, Invalid, PlanFailed
<1>2. CASE c.channels.errors
      BY <1>1, <1>2, EndedUnearned DEF Guarded
<1>3. CASE ~c.channels.errors
  <2>1. c.own \in ValidAnswers(c.kind) /\ c.channels.output = c.own
        BY <1>3 DEF EarnedCall
  <2>2. CASE Guarded(c).candidate
    <3>1. c.kind = "readiness" /\ c.own = "candidate" /\ BlockingReasons(c.payload) = {}
          BY <1>3, <2>1, <2>2 DEF Guarded, Response
    <3>2. c.payload \in Payloads BY <3>1 DEF EarnedCall
    <3>3. Earned(c.payload) BY <3>1, <3>2, NothingBlocksEarned
    <3>4. QED BY <2>1, <3>1, <3>3, EndedIsIdle DEF EarnedCall
  <2>3. CASE ~Guarded(c).candidate BY <2>1, <2>3, EndedIsIdle DEF EarnedCall
  <2>4. QED BY <2>2, <2>3
<1>4. QED BY <1>2, <1>3

LEMMA EarnedPreserved ==
  AgentTypeOK /\ EarnedInv /\ [AgentNext]_agentVars => EarnedInv'
<1> SUFFICES ASSUME AgentTypeOK, EarnedInv, [AgentNext]_agentVars
             PROVE  \A t \in Threads : EarnedCall(call'[t])
    BY EarnedByCalls DEF EarnedInv, OwnOutput, DecisionIsEarned, EarnedCall, Idle
<1>0. /\ \A t \in Threads : EarnedCall(call[t]) /\ call[t] \in Calls
      /\ call \in [Threads -> Calls]
      BY EarnedByCalls, TypeUnfolded
<1>1. CASE \E a \in Actions : RecordGap(a) BY <1>0, <1>1 DEF RecordGap
<1>2. ASSUME NEW t \in Threads, NewCall(t)
      PROVE  \A u \in Threads : EarnedCall(call'[u])
  <2>1. ASSUME NEW kind, NEW id, NEW payload, NEW status, status \notin {Ready, Blocked},
               AnswerAtOnce(t, kind, id, payload, status)
        PROVE  \A u \in Threads : EarnedCall(call'[u])
        BY <1>0, <2>1, EndedUnearned DEF AnswerAtOnce
  <2>2. ASSUME NEW kind, NEW id, NEW payload, RunAgent(t, kind, id, payload),
               kind = "readiness" => payload \in Payloads
        PROVE  \A u \in Threads : EarnedCall(call'[u])
    <3>1. Unavailable \notin {Ready, Blocked} BY DEF Unavailable, Ready, Blocked
    <3>2. EarnedCall(Call("collect", kind, id, payload, checkpoints[id]))
          BY <2>2 DEF EarnedCall, Call
    <3>3. QED BY <1>0, <2>1, <2>2, <3>1, <3>2 DEF RunAgent, InvokeGraph
  <2>3. "NOT_TRIGGERED" \notin {Ready, Blocked} BY DEF Ready, Blocked
  <2>4. ASSUME NEW a, NEW id, Evaluate(t, a, id)
        PROVE  \A u \in Threads : EarnedCall(call'[u])
        BY <2>1, <2>2, <2>3, <2>4 DEF Evaluate
  <2>5. QED BY <1>2, <2>2, <2>4 DEF NewCall, AskReadiness, AskPlan
<1>3. ASSUME NEW t \in Threads, AgentStep(t)
      PROVE  \A u \in Threads : EarnedCall(call'[u])
  <2> DEFINE c == call[t]
  <2>1. c \in Calls /\ EarnedCall(c) BY <1>0
  <2>2. CASE CollectEvidence(t)
        BY <1>0, <2>1, <2>2 DEF CollectEvidence, Put, EarnedCall, Calls
  <2>3. CASE LlmAnswers(t)
    <3>1. PICK answer \in ValidAnswers(c.kind) :
            call' = [call EXCEPT ![t].node = NodeAfterLlm(c.kind),
                                 ![t].channels = Answered(c.channels, answer),
                                 ![t].own = answer]
          BY <2>3 DEF LlmAnswers
    <3>2. Answered(c.channels, answer).output = answer
          BY <2>1 DEF Answered, Channels, Calls
    <3>3. NodeAfterLlm(c.kind) # "done" BY DEF NodeAfterLlm
    <3>4. EarnedCall(call'[t])
          BY <1>0, <2>1, <2>3, <3>1, <3>2, <3>3 DEF EarnedCall, Calls, LlmAnswers
    <3>5. QED BY <1>0, <3>1, <3>4
  <2>4. CASE LlmRetries(t)
        BY <1>0, <2>1, <2>4 DEF LlmRetries, EarnedCall, Calls
  <2>5. CASE LlmGivesUp(t)
    <3>1. Failed(c.channels).errors BY <2>1 DEF Failed, Channels, Calls
    <3>2. NodeAfterLlm(c.kind) # "done" BY DEF NodeAfterLlm
    <3>3. EarnedCall(call'[t])
          BY <1>0, <2>1, <2>5, <3>1, <3>2 DEF LlmGivesUp, Put, EarnedCall, Calls
    <3>4. QED BY <1>0, <2>5, <3>3 DEF LlmGivesUp, Put
  <2>6. CASE LlmRaises(t)
    <3>1. /\ "TRIGGERED_WITHOUT_PLAN" \notin {Ready, Blocked}
          /\ "SERVER_ERROR" \notin {Ready, Blocked}
          BY DEF Ready, Blocked
    <3>2. QED BY <1>0, <2>6, <3>1, EndedUnearned DEF LlmRaises
  <2>7. CASE ValidateSchema(t)
        BY <1>0, <2>1, <2>7 DEF ValidateSchema, Put, EarnedCall, Calls
  <2>8. CASE ApplyGuardrails(t)
    <3>1. EarnedCall(Ended(c, Guarded(c))) BY <2>1, <2>8, GuardedEarned DEF ApplyGuardrails
    <3>2. QED BY <1>0, <2>8, <3>1 DEF ApplyGuardrails
  <2>9. QED BY <1>3, <2>2, <2>3, <2>4, <2>5, <2>6, <2>7, <2>8 DEF AgentStep
<1>4. CASE AgentRestart
  <2>1. EarnedCall(NoCall)
        BY EmptyIsClean DEF EarnedCall, NoResponse, Response, Ready, Blocked
  <2>2. QED BY <1>4, <2>1 DEF AgentRestart
<1>5. CASE UNCHANGED agentVars BY <1>0, <1>5 DEF agentVars
<1>6. QED BY <1>1, <1>2, <1>3, <1>4, <1>5 DEF AgentNext

(* However calls share the channels of a case: a response that decides     *)
(* rests on the LLM's answer to this very call, and one that makes an      *)
(* action a candidate passed every gate.                                   *)
THEOREM DecisionsAreEarned == AgentSpec => []DecisionIsEarned
<1>1. AgentInit => EarnedInv
  <2>1. EarnedCall(NoCall)
        BY EmptyIsClean DEF EarnedCall, NoResponse, Response, Ready, Blocked
  <2>2. QED BY <2>1, EarnedByCalls DEF AgentInit
<1>2. EarnedInv => DecisionIsEarned BY DEF EarnedInv
<1>3. QED BY <1>1, <1>2, InitTyped, TypePreserved, EarnedPreserved, PTL DEF AgentSpec

----------------------------------------------------------------------------
(* The checkpoint shows the decision.                                      *)

(* What CheckpointShowsDecision needs while a call is at work: it is the   *)
(* only one of its case, and its copy still holds the decision.            *)
CopyShowsDecision ==
  \A id \in ThreadIds \ overlapped :
    /\ checkpoints[id].response = decided[id]
    /\ \A t \in Working(id) :
         /\ call[t].channels.response = decided[id]
         /\ \A u \in Working(id) : u = t

(* A step of a call that leaves its case, the other calls and every        *)
(* decision alone, and the responses in the channels as well.              *)
LEMMA ResponseKept ==
  ASSUME AgentTypeOK, CopyShowsDecision, NEW t \in Threads, NEW c, NEW id \in ThreadIds,
         call' = [call EXCEPT ![t] = c],
         c.node # "done" => c.id = id /\ t \in Working(id)
                              /\ c.channels.response = call[t].channels.response,
         \A i \in ThreadIds : checkpoints'[i].response = checkpoints[i].response,
         UNCHANGED <<decided, overlapped>>
  PROVE  CopyShowsDecision'
BY TypeUnfolded DEF CopyShowsDecision, Working, Idle

LEMMA ShownPreserved ==
  AgentTypeOK /\ CopyShowsDecision /\ [AgentNext]_agentVars => CopyShowsDecision'
<1> SUFFICES ASSUME AgentTypeOK, CopyShowsDecision, [AgentNext]_agentVars
             PROVE  CopyShowsDecision'
    OBVIOUS
<1>1. CASE \E a \in Actions : RecordGap(a)
      BY <1>1 DEF RecordGap, CopyShowsDecision, Working, Idle
<1>2. ASSUME NEW t \in Threads, NewCall(t) PROVE CopyShowsDecision'
  <2>1. ASSUME NEW kind, NEW id \in ThreadIds, NEW payload, NEW status,
               AnswerAtOnce(t, kind, id, payload, status)
        PROVE  CopyShowsDecision'
    <3> DEFINE e == Ended(Call("done", kind, id, payload, EmptyChannels), Response(status))
    <3>1. /\ call' = [call EXCEPT ![t] = e]
          /\ UNCHANGED <<checkpoints, decided, overlapped>>
          BY <2>1 DEF AnswerAtOnce
    <3>2. e.node = "done" BY EndedIsIdle
    <3> HIDE DEF e
    <3>3. QED BY <3>1, <3>2, ResponseKept
  <2>2. ASSUME NEW kind, NEW id \in ThreadIds, NEW payload, RunAgent(t, kind, id, payload),
               Idle(t)
        PROVE  CopyShowsDecision'
    <3>1. CASE available
      <4>1. /\ call' = [call EXCEPT ![t] = Call("collect", kind, id, payload, checkpoints[id])]
            /\ overlapped' = IF Working(id) = {} THEN overlapped ELSE overlapped \cup {id}
            /\ UNCHANGED <<checkpoints, decided>>
            BY <2>2, <3>1 DEF RunAgent, InvokeGraph
      <4>2. /\ call'[t].node = "collect" /\ call'[t].id = id
            /\ call'[t].channels = checkpoints[id]
            /\ \A u \in Threads \ {t} : call'[u] = call[u]
            BY <4>1, TypeUnfolded DEF Call
      <4>3. ASSUME NEW i \in ThreadIds, i # id
            PROVE  Working(i)' = Working(i) /\ t \notin Working(i)
            BY <2>2, <4>2, <4>3 DEF Working, Idle
      <4>4. ASSUME Working(id) = {}
            PROVE  Working(id)' = {t}
            BY <4>2, <4>4 DEF Working, Idle
      <4>5. ASSUME NEW i \in ThreadIds \ overlapped'
            PROVE  /\ checkpoints'[i].response = decided'[i]
                   /\ \A u \in Working(i)' :
                        /\ call'[u].channels.response = decided'[i]
                        /\ \A v \in Working(i)' : v = u
        <5>1. i \notin overlapped /\ (i = id => Working(id) = {}) BY <4>1
        <5>2. CASE i = id BY <4>1, <4>2, <4>4, <5>1, <5>2 DEF CopyShowsDecision
        <5>3. CASE i # id
              BY <4>1, <4>2, <4>3, <5>1, <5>3 DEF CopyShowsDecision, Working
        <5>4. QED BY <5>2, <5>3
      <4>6. QED BY <4>5 DEF CopyShowsDecision
    <3>2. CASE ~available BY <2>1, <2>2, <3>2 DEF RunAgent
    <3>3. QED BY <3>1, <3>2, TypeUnfolded
  <2>3. Cases \subseteq ThreadIds /\ Actions \subseteq ThreadIds BY DEF ThreadIds
  <2>4. ASSUME NEW a \in Actions, NEW id \in ThreadIds, Evaluate(t, a, id)
        PROVE  CopyShowsDecision'
        BY <2>1, <2>2, <2>4 DEF Evaluate
  <2>5. QED BY <1>2, <2>2, <2>3, <2>4 DEF NewCall, AskReadiness, AskPlan
<1>3. ASSUME NEW t \in Threads, AgentStep(t) PROVE CopyShowsDecision'
  <2> DEFINE c == call[t]
  <2>1. c \in Calls /\ c.id \in ThreadIds /\ c.channels \in Channels
        BY TypeUnfolded DEF Calls
  <2>2. c.node # "done" => t \in Working(c.id) BY DEF Working, Idle
  <2>3. ASSUME NEW node, NEW channels, Put(t, node, channels), c.node # "done",
               channels.response = c.channels.response
        PROVE  CopyShowsDecision'
    <3>1. CASE c.id \in overlapped
          BY <2>1, <2>2, <2>3, <3>1, TypeUnfolded
             DEF Put, CopyShowsDecision, Working, Idle, Calls
    <3>2. CASE c.id \notin overlapped
      <4>1. c.channels.response = checkpoints[c.id].response
            BY <2>1, <2>2, <2>3, <3>2 DEF CopyShowsDecision
      <4>2. \A i \in ThreadIds : checkpoints'[i].response = checkpoints[i].response
            BY <2>1, <2>3, <4>1, TypeUnfolded DEF Put
      <4> DEFINE d == [c EXCEPT !.node = node, !.channels = channels]
      <4>3. call' = [call EXCEPT ![t] = d] BY <2>3, TypeUnfolded DEF Put
      <4>4. d.id = c.id /\ d.channels = channels BY <2>1 DEF Calls
      <4> HIDE DEF d
      <4>5. d.id = c.id /\ t \in Working(c.id) /\ d.channels.response = call[t].channels.response
            BY <2>2, <2>3, <4>4
      <4>6. UNCHANGED <<decided, overlapped>> BY <2>3 DEF Put
      <4>7. QED BY <2>1, <4>2, <4>3, <4>5, <4>6, ResponseKept
    <3>3. QED BY <3>1, <3>2
  <2>4. CASE CollectEvidence(t) BY <2>3, <2>4 DEF CollectEvidence
  <2>5. CASE LlmAnswers(t)
    <3>1. PICK answer : /\ call' = [call EXCEPT ![t].node = NodeAfterLlm(c.kind),
                                        ![t].channels = Answered(c.channels, answer),
                                        ![t].own = answer]
                       /\ checkpoints' = [checkpoints EXCEPT ![c.id] = Answered(c.channels, answer)]
                       /\ UNCHANGED <<decided, overlapped>> /\ c.node # "done"
          BY <2>5 DEF LlmAnswers
    <3>2. Answered(c.channels, answer).response = c.channels.response
          BY <2>1 DEF Answered, Channels
    <3> DEFINE d == [c EXCEPT !.node = NodeAfterLlm(c.kind),
                              !.channels = Answered(c.channels, answer), !.own = answer]
    <3>a. call' = [call EXCEPT ![t] = d] BY <3>1, TypeUnfolded
    <3>b. d.id = c.id /\ d.channels = Answered(c.channels, answer) BY <2>1 DEF Calls
    <3> HIDE DEF d
    <3>3. CASE c.id \in overlapped
      <4>1. /\ call'[t] = d /\ \A u \in Threads \ {t} : call'[u] = call[u]
            /\ \A i \in ThreadIds \ {c.id} : checkpoints'[i] = checkpoints[i]
            BY <2>1, <3>1, <3>a, TypeUnfolded
      <4>2. ASSUME NEW i \in ThreadIds \ {c.id}
            PROVE  Working(i)' = Working(i) /\ t \notin Working(i)
        <5>1. c.id # i /\ d.id # i BY <3>b, <4>2
        <5>2. ASSUME NEW u \in Threads
              PROVE  (call'[u].node # "done" /\ call'[u].id = i)
                       <=> (call[u].node # "done" /\ call[u].id = i)
              BY <4>1, <5>1
        <5>3. QED BY <5>1, <5>2 DEF Working, Idle
      <4>3. ASSUME NEW i \in ThreadIds \ overlapped
            PROVE  /\ checkpoints'[i].response = decided[i]
                   /\ \A u \in Working(i)' :
                        /\ call'[u].channels.response = decided[i]
                        /\ \A v \in Working(i)' : v = u
        <5>1. i # c.id BY <3>3
        <5>2. \A u \in Working(i) : u \in Threads \ {t} BY <4>2, <5>1 DEF Working
        <5>3. QED BY <4>1, <4>2, <5>1, <5>2 DEF CopyShowsDecision
      <4>4. overlapped' = overlapped /\ decided' = decided BY <3>1
      <4>5. QED BY <4>3, <4>4 DEF CopyShowsDecision
    <3>4. CASE c.id \notin overlapped
      <4>1. c.channels.response = checkpoints[c.id].response
            BY <2>1, <2>2, <3>1, <3>4 DEF CopyShowsDecision
      <4>2. \A i \in ThreadIds : checkpoints'[i].response = checkpoints[i].response
            BY <2>1, <3>1, <3>2, <4>1, TypeUnfolded
      <4>3. d.id = c.id /\ t \in Working(c.id) /\ d.channels.response = call[t].channels.response
            BY <2>2, <3>1, <3>2, <3>b
      <4>4. UNCHANGED <<decided, overlapped>> BY <3>1
      <4>5. QED BY <2>1, <3>a, <4>2, <4>3, <4>4, ResponseKept
    <3>5. QED BY <3>3, <3>4
  <2>6. CASE LlmRetries(t)
        BY <2>1, <2>2, <2>6, ResponseKept DEF LlmRetries, Calls
  <2>7. CASE LlmGivesUp(t)
    <3>1. Failed(c.channels).response = c.channels.response BY <2>1 DEF Failed, Channels
    <3>2. QED BY <2>3, <2>7, <3>1 DEF LlmGivesUp
  <2>8. CASE LlmRaises(t)
    <3> DEFINE e == Ended(c, Response(IF c.kind = "evaluate" THEN "TRIGGERED_WITHOUT_PLAN"
                                                             ELSE "SERVER_ERROR"))
    <3>1. call' = [call EXCEPT ![t] = e] /\ UNCHANGED <<checkpoints, decided, overlapped>>
          BY <2>8 DEF LlmRaises
    <3>2. e.node = "done" BY EndedIsIdle
    <3> HIDE DEF e
    <3>3. QED BY <2>1, <3>1, <3>2, ResponseKept
  <2>9. CASE ValidateSchema(t) BY <2>3, <2>9 DEF ValidateSchema
  <2>10. CASE ApplyGuardrails(t)
    <3> DEFINE response == Guarded(c)
    <3>1. [c.channels EXCEPT !.response = response].response = response
          BY <2>1 DEF Channels
    <3>2. call'[t].node = "done" /\ \A u \in Threads \ {t} : call'[u] = call[u]
          BY <2>10, EndedIsIdle, TypeUnfolded DEF ApplyGuardrails
    <3>3. checkpoints'[c.id].response = response /\ decided'[c.id] = response
          BY <2>1, <2>10, <3>1, TypeUnfolded DEF ApplyGuardrails
    <3>4. \A i \in ThreadIds \ {c.id} :
            checkpoints'[i] = checkpoints[i] /\ decided'[i] = decided[i]
          BY <2>1, <2>10, TypeUnfolded DEF ApplyGuardrails
    <3>5. \A i \in ThreadIds : Working(i)' = Working(i) \ {t}
          BY <3>2 DEF Working, Idle
    <3>6. ASSUME NEW i \in ThreadIds \ overlapped
          PROVE  /\ checkpoints'[i].response = decided'[i]
                 /\ \A u \in Working(i)' :
                      /\ call'[u].channels.response = decided'[i]
                      /\ \A v \in Working(i)' : v = u
      <4>1. CASE i = c.id
        <5>1. Working(i)' = {}
              BY <2>2, <2>10, <3>5, <4>1 DEF CopyShowsDecision, ApplyGuardrails
        <5>2. QED BY <3>3, <4>1, <5>1
      <4>2. CASE i # c.id
            BY <3>2, <3>4, <3>5, <4>2 DEF CopyShowsDecision, Working
      <4>3. QED BY <4>1, <4>2
    <3>7. QED BY <2>10, <3>6 DEF CopyShowsDecision, ApplyGuardrails
  <2>11. QED BY <1>3, <2>4, <2>5, <2>6, <2>7, <2>8, <2>9, <2>10 DEF AgentStep
<1>4. CASE AgentRestart
      BY <1>4, EmptyIsClean DEF AgentRestart, CopyShowsDecision, Working, Idle
<1>5. CASE UNCHANGED agentVars
      BY <1>5 DEF agentVars, CopyShowsDecision, Working, Idle
<1>6. QED BY <1>1, <1>2, <1>3, <1>4, <1>5 DEF AgentNext

(* GET /agent-state of a case whose calls have not overlapped shows the    *)
(* last decision made for it, also after a call that raised midway.        *)
THEOREM CheckpointsShowDecisions == AgentSpec => []CheckpointShowsDecision
<1>1. AgentInit => CopyShowsDecision
      BY EmptyIsClean DEF AgentInit, CopyShowsDecision, Working, Idle
<1>2. CopyShowsDecision => CheckpointShowsDecision
      BY DEF CopyShowsDecision, CheckpointShowsDecision, ShownDecision
<1>3. QED BY <1>1, <1>2, InitTyped, TypePreserved, ShownPreserved, PTL DEF AgentSpec

=============================================================================
