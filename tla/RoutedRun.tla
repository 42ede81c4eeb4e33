------------------------------ MODULE RoutedRun ------------------------------
(***************************************************************************)
(* One run of one order: the robot asks POST /case-intake/route for a      *)
(* plan, posts what it got as artifacts of its run, and commits the run,   *)
(* which derives the signature the run is counted under from those         *)
(* artifacts (memory/run_memory.py).                                       *)
(*                                                                         *)
(* The endpoints are plain functions on pool threads. The robot gives up   *)
(* waiting for an answer and asks again while the first call still runs;   *)
(* an artifact it cannot post is lost and it goes on (ContinueOnError).    *)
(* Both calls run the evaluator of CapabilityEvolution, which saves its    *)
(* decision in one file per case: the route plan is not free of side       *)
(* effects. Meanwhile the validation suite registers the API tool and      *)
(* other runs of the same process are committed.                           *)
(*                                                                         *)
(* Abstracted: reasons, summaries, proofs of LLM calls, and artifacts that *)
(* no derivation reads. The attempts of an LLM call are in CaseAgents;     *)
(* here it answers with an admissible decision, gives up, or raises. What  *)
(* RunCommit does with the signature is there too; here a commit counts    *)
(* the run in its pattern in one step.                                     *)
(***************************************************************************)
EXTENDS RouteRules, FiniteSets, Sequences, ThreadPool, JsonFile

CONSTANTS
  Orders,      \* orders the run may be about
  LlmAnswers,  \* admissible decisions of the model: a route and a policy
  Seed,        \* historical_patterns.json, by exception
  MaxCalls,    \* bound: calls of the two endpoints
  MaxLost,     \* bound: artifacts that are lost
  MaxRuns      \* bound: other runs committed meanwhile

ASSUME RoutedAssumptions ==
  /\ Orders \subseteq Order
  /\ LlmAnswers \subseteq [route : ModelRoutes, policy : Policies]
  /\ Seed \in [Exceptions -> Pattern] /\ \A e \in Exceptions : ~Seed[e].real
  /\ MaxCalls \in Nat /\ MaxLost \in Nat /\ MaxRuns \in Nat

VARIABLES
  order,       \* the order
  registry,    \* capability_registry.json: TRUE when it names the API tool
  validated,   \* validation_result of the case: whether its tests passed
  observed,    \* runs committed under an action and an exception
  decision,    \* capability_evolution_decision_{case_id}.json
  job,         \* per thread: the call it serves
  robot,       \* the robot
  raw,         \* raw/: the artifacts a derivation reads
  normalized,  \* normalized/process_signature.json
  summary,     \* the signature in summary/case_run_summary.json
  calls, lost, \* how many calls, and how many lost artifacts, there were
  overlapped   \* history: two calls have overlapped

routedVars == <<order, registry, validated, observed, decision, job, robot, raw,
                normalized, summary, calls, lost, overlapped>>

----------------------------------------------------------------------------
(* Values.                                                                 *)

(* What an artifact says, "" where it says nothing; a signature too.       *)
Fields  == <<"action", "exception", "effect", "route", "policy">>
Nothing == [f \in {Fields[i] : i \in DOMAIN Fields} |-> ""]

Artifacts == <<"triage", "plan", "policy", "action">>

NoPlan == [by |-> "nobody", label |-> "none", route |-> "none", policy |-> "none",
           gate |-> FALSE, execution |-> FALSE]

NoJob   == [call |-> "none", stage |-> "done", label |-> "none", next |-> 1,
            found |-> Nothing, again |-> Nothing]
NoRobot == [stage |-> "ask", thread |-> {}, plan |-> NoPlan, next |-> 1]

Busy(t)     == job[t].call # "none"
Awaited(t)  == t \in robot.thread
Goes(t, stage) == job' = [job EXCEPT ![t].stage = stage]

Artifact(name) == Load(raw[name], Nothing)

RoutedInit ==
  /\ order \in Orders
  /\ registry = NoFile(FALSE) /\ validated = FALSE
  /\ observed = << >>
  /\ decision = NoFile("none")
  /\ job = [t \in Threads |-> NoJob]
  /\ robot = NoRobot
  /\ raw = [a \in {Artifacts[i] : i \in DOMAIN Artifacts} |-> NoFile(Nothing)]
  /\ normalized = Nothing /\ summary = Nothing
  /\ calls = 0 /\ lost = 0 /\ overlapped = FALSE

----------------------------------------------------------------------------
(* The evaluator.                                                          *)

(* Patterns are found by an action and an exception.                       *)
Runs(key) == IF key \in DOMAIN observed THEN observed[key] ELSE 0

Counted(key) == [k \in DOMAIN observed \cup {key} |-> Runs(k) + (IF k = key THEN 1 ELSE 0)]

SeedOf(key) == IF key[1] = RouteAction[key[2]] THEN Seed[key[2]] ELSE NoPattern

PatternOf(key) ==
  IF Runs(key) = 0 THEN SeedOf(key)
  ELSE [NormalizedSeed(SeedOf(key)) EXCEPT !.real = TRUE, !.observed = @ + Runs(key)]

(* The action of the one API tool a validation registers.                  *)
ApiAction == "request_purchase_order_approval"

Evaluated(key) ==
  Decision(key[2], key[1], PatternOf(key), registry.content /\ key[1] = ApiAction, validated)

(* What a call evaluates: the plan's case, or the one it has derived.      *)
RouteKey  == <<ActionOf(order), Detected(order)>>
KeyOf(t) ==
  IF job[t].call = "route" THEN RouteKey
  ELSE <<job[t].found["action"], job[t].found["exception"]>>

(* evaluate_capability_evolution. A registry that is being written makes   *)
(* it raise: a route call ends with an error and the robot may call again, *)
(* a commit goes on with KEEP_RPA_MODE, which the case's file never shows. *)
Evaluate(t) ==
  /\ job[t].stage = "evaluate"
  /\ \/ /\ Readable(registry) \/ ~Exists(registry)
        /\ job' = [job EXCEPT ![t].stage = "open", ![t].label = Evaluated(KeyOf(t))]
        /\ UNCHANGED robot
     \/ /\ Exists(registry) /\ ~Readable(registry)
        /\ job' = [job EXCEPT ![t] = NoJob]
        /\ robot' = IF ~Awaited(t) THEN robot
                    ELSE [robot EXCEPT !.thread = {},
                            !.stage = IF job[t].call = "route" THEN "ask" ELSE "done"]
  /\ UNCHANGED <<order, registry, validated, observed, decision, raw, normalized, summary,
                 calls, lost, overlapped>>

(* record_capability_evolution_decision                                    *)
OpenDecision(t) ==
  /\ job[t].stage = "open"
  /\ decision' = Truncated(decision)
  /\ Goes(t, "fill")
  /\ UNCHANGED <<order, registry, validated, observed, robot, raw, normalized, summary,
                 calls, lost, overlapped>>

FillDecision(t) ==
  /\ job[t].stage = "fill"
  /\ decision' \in Written(decision, job[t].label, "none")
  /\ \/ job[t].call = "route" /\ Goes(t, "answer") /\ UNCHANGED robot
     \/ /\ job[t].call = "commit"
        /\ job' = [job EXCEPT ![t] = NoJob]
        /\ robot' = IF Awaited(t) THEN [robot EXCEPT !.stage = "done", !.thread = {}] ELSE robot
  /\ UNCHANGED <<order, registry, validated, observed, raw, normalized, summary,
                 calls, lost, overlapped>>

----------------------------------------------------------------------------
(* The route plan.                                                         *)

Call(t, call, stage) ==
  /\ ~Busy(t)
  /\ calls < MaxCalls /\ calls' = calls + 1
  /\ job' = [job EXCEPT ![t] = [NoJob EXCEPT !.call = call, !.stage = stage]]
  /\ overlapped' = (overlapped \/ \E u \in Threads : Busy(u))

(* The robot asks, or asks again.                                          *)
AskRoute(t) ==
  /\ robot.stage = "ask"
  /\ Call(t, "route", "evaluate")
  /\ robot' = [robot EXCEPT !.stage = "asking", !.thread = {t}]
  /\ UNCHANGED <<order, registry, validated, observed, decision, raw, normalized, summary, lost>>

GivesUpWaiting ==
  /\ robot.stage \in {"asking", "committing"}
  /\ robot' = [robot EXCEPT !.stage = IF @ = "asking" THEN "ask" ELSE "commit", !.thread = {}]
  /\ UNCHANGED <<order, registry, validated, observed, decision, job, raw, normalized, summary,
                 calls, lost, overlapped>>

RulePlan(o, label, by) ==
  [by |-> by, label |-> label, route |-> RuleRoute(o), policy |-> RulePolicy(o, label),
   gate |-> GateAllows(o, label), execution |-> Precheck(o) = "NORMAL"]

(* The model names the route, and its policy replaces the gate's; the rest *)
(* of the gate is computed again, for that route.                          *)
ModelPlan(o, label, answer) ==
  [RulePlan(o, label, "model") EXCEPT !.route = answer.route, !.policy = answer.policy]

(* Mutant: without a model the gate stays open.                            *)
Plans_FailOpen(o, label) ==
  IF Precheck(o) = "NORMAL" THEN {RulePlan(o, label, "rules")}
  ELSE {[RulePlan(o, label, "fallback") EXCEPT !.policy = "ALLOW_STANDARD_PROCESSING"]}
         \cup {ModelPlan(o, label, a) : a \in LlmAnswers}

(* The plans an order can get once the evaluator has given it a label.     *)
Plans(o, label) ==
  IF Precheck(o) = "NORMAL" THEN {RulePlan(o, label, "rules")}
  ELSE {RulePlan(o, label, "fallback")} \cup {ModelPlan(o, label, a) : a \in LlmAnswers}

(* An answer the robot no longer waits for is lost.                        *)
AnswerRoute(t) ==
  /\ job[t].call = "route" /\ job[t].stage = "answer"
  /\ job' = [job EXCEPT ![t] = NoJob]
  /\ \E plan \in Plans(order, job[t].label) :
       robot' = IF Awaited(t) THEN [robot EXCEPT !.stage = "post", !.thread = {}, !.plan = plan]
                ELSE robot
  /\ UNCHANGED <<order, registry, validated, observed, decision, raw, normalized, summary,
                 calls, lost, overlapped>>

(* Anything run_route_agent does not catch ends the call.                  *)
AgentRaises(t) ==
  /\ job[t].call = "route" /\ job[t].stage = "answer" /\ Precheck(order) # "NORMAL"
  /\ job' = [job EXCEPT ![t] = NoJob]
  /\ robot' = IF Awaited(t) THEN [robot EXCEPT !.stage = "ask", !.thread = {}] ELSE robot
  /\ UNCHANGED <<order, registry, validated, observed, decision, raw, normalized, summary,
                 calls, lost, overlapped>>

----------------------------------------------------------------------------
(* The artifacts, in the order the robot posts them.                       *)

Triaged == Precheck(order) # "NORMAL"

(* The triage response of the plan; the plan; its gate; its ERP action.    *)
Content == [a \in {Artifacts[i] : i \in DOMAIN Artifacts} |->
  CASE a = "triage" -> [Nothing EXCEPT !["action"] = TriageAction[Classified(order)],
                                       !["exception"] = Classified(order),
                                       !["route"] = StageOf[Classified(order)]]
    [] a = "plan"   -> [Nothing EXCEPT !["action"] = ActionOf(order),
                                       !["exception"] = Detected(order),
                                       !["route"] = robot.plan.route,
                                       !["policy"] = robot.plan.policy]
    [] a = "policy" -> [Nothing EXCEPT !["policy"] = robot.plan.policy]
    [] a = "action" -> [Nothing EXCEPT !["effect"] = ErpAction(robot.plan.route)]]

Current == Artifacts[robot.next]

NextArtifact ==
  [robot EXCEPT !.next = IF @ < Len(Artifacts) THEN @ + 1 ELSE 1,
                !.stage = IF robot.next < Len(Artifacts) THEN "post" ELSE "commit"]

(* write_artifact replaces the latest file.                                *)
OpenArtifact ==
  /\ robot.stage = "post"
  /\ Current = "triage" => Triaged
  /\ raw' = [raw EXCEPT ![Current] = Truncated(@)]
  /\ robot' = [robot EXCEPT !.stage = "fill"]
  /\ UNCHANGED <<order, registry, validated, observed, decision, job, normalized, summary,
                 calls, lost, overlapped>>

FillArtifact ==
  /\ robot.stage = "fill"
  /\ raw' \in {[raw EXCEPT ![Current] = file] :
                 file \in Written(raw[Current], Content[Current], Nothing)}
  /\ robot' = NextArtifact
  /\ UNCHANGED <<order, registry, validated, observed, decision, job, normalized, summary,
                 calls, lost, overlapped>>

SkipArtifact ==
  /\ robot.stage = "post"
  /\ \/ Current = "triage" /\ ~Triaged /\ UNCHANGED lost
     \/ lost < MaxLost /\ lost' = lost + 1
  /\ robot' = NextArtifact
  /\ UNCHANGED <<order, registry, validated, observed, decision, job, raw, normalized, summary,
                 calls, overlapped>>

----------------------------------------------------------------------------
(* The commit.                                                             *)

CallCommit(t) ==
  /\ robot.stage = "commit"
  /\ Call(t, "commit", "derive")
  /\ robot' = [robot EXCEPT !.stage = "committing", !.thread = {t}]
  /\ UNCHANGED <<order, registry, validated, observed, decision, raw, normalized, summary, lost>>

First(said, other, default) ==
  IF said # "" THEN said ELSE IF other # "" THEN other ELSE default

(* The exception of a run that left no artifact to say: a run whose robot  *)
(* read the status Exception counts as over budget.                        *)
Unsaid == IF order.status = "exception" THEN "budget_exceeded" ELSE "unknown_exception"

(* Mutant: the route is that of the triage response.                       *)
Derived_TriageFirst(field) ==
  LET triage == Artifact("triage") plan == Artifact("plan") IN
  CASE field = "action"    -> First(triage["action"], plan["action"], "manual_investigation")
    [] field = "exception" -> First(triage["exception"], plan["exception"], Unsaid)
    [] field = "effect"    -> Artifact("action")["effect"]
    [] field = "route"     -> First(triage["route"], plan["route"], "route_unknown")
    [] field = "policy"    -> First(Artifact("policy")["policy"], plan["policy"], "policy_unknown")

(* derive_business_action, derive_exception_type, ...: each reads the      *)
(* files anew.                                                             *)
Derived(field) ==
  LET triage == Artifact("triage") plan == Artifact("plan") IN
  CASE field = "action"    -> First(triage["action"], plan["action"], "manual_investigation")
    [] field = "exception" -> First(triage["exception"], plan["exception"], Unsaid)
    [] field = "effect"    -> Artifact("action")["effect"]
    [] field = "route"     -> First(plan["route"], triage["route"], "route_unknown")
    [] field = "policy"    -> First(Artifact("policy")["policy"], plan["policy"], "policy_unknown")

(* The signature the run is counted under.                                 *)
Derive(t) ==
  /\ job[t].stage = "derive"
  /\ LET field == Fields[job[t].next]
         found == [job[t].found EXCEPT ![field] = Derived(field)]
     IN  /\ job' = [job EXCEPT ![t].found = found,
                      ![t].next = IF @ < Len(Fields) THEN @ + 1 ELSE 1,
                      ![t].stage = IF job[t].next < Len(Fields) THEN "derive" ELSE "summarise"]
         /\ normalized' = IF job[t].next < Len(Fields) THEN normalized ELSE found
  /\ UNCHANGED <<order, registry, validated, observed, decision, robot, raw, summary,
                 calls, lost, overlapped>>

(* build_case_run_summary derives it once more.                            *)
Summarise(t) ==
  /\ job[t].stage = "summarise"
  /\ LET field == Fields[job[t].next]
         again == [job[t].again EXCEPT ![field] = Derived(field)]
     IN  /\ job' = [job EXCEPT ![t].again = again,
                      ![t].next = IF @ < Len(Fields) THEN @ + 1 ELSE 1,
                      ![t].stage = IF job[t].next < Len(Fields) THEN "summarise" ELSE "count"]
         /\ summary' = IF job[t].next < Len(Fields) THEN summary ELSE again
  /\ UNCHANGED <<order, registry, validated, observed, decision, robot, raw, normalized,
                 calls, lost, overlapped>>

(* increment_pattern                                                       *)
CountRun(t) ==
  /\ job[t].stage = "count"
  /\ observed' = Counted(KeyOf(t))
  /\ Goes(t, "evaluate")
  /\ UNCHANGED <<order, registry, validated, decision, robot, raw, normalized, summary,
                 calls, lost, overlapped>>

----------------------------------------------------------------------------
(* The environment.                                                        *)

(* A validation of the case passes: its result is written, and then the    *)
(* registry is opened and filled.                                          *)
ValidationPasses ==
  /\ \/ ~validated /\ validated' = TRUE /\ UNCHANGED registry
     \/ /\ validated /\ ~Exists(registry) /\ registry' = Truncated(registry)
        /\ UNCHANGED validated
     \/ /\ Exists(registry) /\ ~Readable(registry) /\ registry' = WholeFile(TRUE)
        /\ UNCHANGED validated
  /\ UNCHANGED <<order, observed, decision, job, robot, raw, normalized, summary,
                 calls, lost, overlapped>>

(* Another run of an order like this one is committed.                     *)
OtherRun ==
  /\ Runs(RouteKey) < MaxRuns
  /\ observed' = Counted(RouteKey)
  /\ UNCHANGED <<order, registry, validated, decision, job, robot, raw, normalized, summary,
                 calls, lost, overlapped>>

----------------------------------------------------------------------------
RoutedNext ==
  \/ \E t \in Threads :
       \/ AskRoute(t) \/ Evaluate(t) \/ OpenDecision(t) \/ FillDecision(t)
       \/ AnswerRoute(t) \/ AgentRaises(t)
       \/ CallCommit(t) \/ Derive(t) \/ Summarise(t) \/ CountRun(t)
  \/ GivesUpWaiting
  \/ OpenArtifact \/ FillArtifact \/ SkipArtifact
  \/ ValidationPasses \/ OtherRun

RoutedSpec == RoutedInit /\ [][RoutedNext]_routedVars

----------------------------------------------------------------------------
(* Properties.                                                             *)

Said == {"", "none"} \cup Exceptions \cup RouteActions \cup Routes \cup Policies
          \cup {TriageAction[e] : e \in Exceptions} \cup {ErpAction(r) : r \in Routes}
          \cup {"route_unknown", "policy_unknown"}

Signature == [DOMAIN Nothing -> Said]

Plan == [by : {"nobody", "rules", "fallback", "model"}, label : Labels \cup {"none"},
         route : Routes \cup {"none"}, policy : Policies \cup {"none"},
         gate : BOOLEAN, execution : BOOLEAN]

RoutedTypeOK ==
  /\ order \in Orders
  /\ registry \in File(BOOLEAN) /\ validated \in BOOLEAN
  /\ \A key \in DOMAIN observed : observed[key] \in Nat
  /\ decision \in File(Labels \cup {"none"})
  /\ job \in [Threads ->
       [call : {"none", "route", "commit"},
        stage : {"done", "evaluate", "open", "fill", "answer", "derive", "summarise", "count"},
        label : Labels \cup {"none"}, next : 1..Len(Fields),
        found : Signature, again : Signature]]
  /\ robot \in
       [stage : {"ask", "asking", "post", "fill", "commit", "committing", "done"},
        thread : {{}} \cup {{t} : t \in Threads}, plan : Plan, next : 1..Len(Artifacts)]
  /\ raw \in [{Artifacts[i] : i \in DOMAIN Artifacts} -> File(Signature)]
  /\ normalized \in Signature /\ summary \in Signature
  /\ calls \in 0..MaxCalls /\ lost \in 0..MaxLost /\ overlapped \in BOOLEAN

(* Whatever the model answers, and whatever the evaluator finds, an order  *)
(* may be executed without a human only when its amount, vendor and stock  *)
(* are in order and the ERP raised no exception.                           *)
ExecutionNeedsCleanOrder ==
  robot.plan.gate \/ robot.plan.execution =>
    /\ ~order.over /\ order.vendor # "incomplete" /\ order.stock
    /\ order.status # "exception"
    /\ robot.plan.policy = "ALLOW_STANDARD_PROCESSING"

(* A model that fails leaves the order with the rules: their route, and a  *)
(* policy that stops it.                                                   *)
FailedModelStops ==
  robot.plan.by = "fallback" =>
    /\ robot.plan.route = RuleRoute(order)
    /\ robot.plan.route # "STANDARD_PROCESSING"
    /\ robot.plan.policy # "ALLOW_STANDARD_PROCESSING"

(* A plan rests on a trusted API tool only after the validation of that    *)
(* tool has passed and is recorded.                                        *)
TrustRestsOnRegistry ==
  robot.plan.label = "USE_TRUSTED_CAPABILITY" =>
    validated /\ registry.content /\ ActionOf(order) = ApiAction

(* Only a commit writes the case's evolution decision: "This is a pure     *)
(* function: it does not write memory" (main.py, build_api_side_exception_ *)
(* plan), "Side-effect free: does not write memory" (route_case_intake).   *)
RouteWritesNothing ==
  [][\A t \in Threads :
       job'[t] # job[t] /\ decision' # decision => job[t].call = "commit"]_routedVars

(* The run is counted under the plan the robot followed, whichever other   *)
(* artifacts were lost, as long as the plan itself arrived and calls did   *)
(* not overlap; and its summary, derived a second time, names the          *)
(* signature it was counted under.                                         *)
CountedAsPlanned ==
  ~overlapped =>
    /\ normalized # Nothing /\ Readable(raw["plan"]) =>
         /\ normalized["exception"] = Detected(order)
         /\ normalized["route"] = robot.plan.route
         /\ normalized["policy"] = robot.plan.policy
         /\ normalized["effect"] \in {"", ErpAction(robot.plan.route)}
    /\ summary # Nothing => summary = normalized

(* A normal order has no exception text (main.py, at the NORMAL answer).   *)
NormalHasNoExceptionText ==
  robot.plan.by = "rules" => order.text = "none"

=============================================================================
