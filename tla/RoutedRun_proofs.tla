-------------------------- MODULE RoutedRun_proofs --------------------------
(***************************************************************************)
(* Theorems about a routed run, for any orders, any number of threads,     *)
(* calls and other runs, and any admissible answers of the model.          *)
(***************************************************************************)
EXTENDS RoutedRun, TLAPS

----------------------------------------------------------------------------
(* The rules.                                                              *)

LEMMA OrderTyped == RoutedTypeOK => order \in Order
BY RoutedAssumptions DEF RoutedTypeOK

LEMMA PrecheckCases ==
  ASSUME NEW o
  PROVE  Precheck(o) \in {"AMBIGUOUS", "CLEAR_EXCEPTION", "NORMAL"}
BY DEF Precheck

LEMMA ClassifiedTyped ==
  ASSUME NEW o
  PROVE  Classified(o) \in Exceptions
BY DEF Classified, Exceptions

LEMMA DetectedTyped ==
  ASSUME NEW o
  PROVE  Detected(o) \in Exceptions
BY ClassifiedTyped DEF Detected, Exceptions

LEMMA StageTyped == \A e \in Exceptions : StageOf[e] \in ModelRoutes
BY DEF StageOf, Exceptions, ModelRoutes

LEMMA RuleRouteTyped ==
  ASSUME NEW o
  PROVE  RuleRoute(o) \in Routes
<1>1. StageOf[Classified(o)] \in Routes BY ClassifiedTyped, StageTyped DEF Routes
<1>2. {"STANDARD_PROCESSING", "WAITING_MANUAL_INVESTIGATION", "AGENT_SEMANTIC_ROUTING"}
        \subseteq Routes
      BY DEF Routes, ModelRoutes
<1>3. QED BY <1>1, <1>2, PrecheckCases DEF RuleRoute

LEMMA GateTyped ==
  ASSUME NEW o, NEW label, NEW route, NEW doubtful
  PROVE  Gate(o, label, route, doubtful) \in Policies
BY DEF Gate, Policies

LEMMA DecisionTyped ==
  ASSUME NEW exception, NEW action, NEW pattern, NEW trusted, NEW validatedNow
  PROVE  Decision(exception, action, pattern, trusted, validatedNow) \in Labels
BY DEF Decision, RealDecision, LegacyDecision, Labels, ProposalLabels

(* Only an action that is trusted is sent to its capability.               *)
LEMMA TrustedOnly ==
  ASSUME NEW exception, NEW action, NEW pattern, NEW trusted \in BOOLEAN, NEW validatedNow,
         Decision(exception, action, pattern, trusted, validatedNow) = "USE_TRUSTED_CAPABILITY"
  PROVE  trusted
BY DEF Decision, RealDecision, LegacyDecision

LEMMA NothingToEvolve ==
  ASSUME NEW action, NEW pattern, NEW trusted, NEW validatedNow
  PROVE  Decision("none", action, pattern, trusted, validatedNow) = "NO_EVOLUTION_REQUIRED"
BY DEF Decision, IsStandard

LEMMA PlansTyped ==
  ASSUME NEW o, NEW label \in Labels \cup {"none"}, NEW plan \in Plans(o, label)
  PROVE  plan \in Plan
<1>1. ASSUME NEW by \in {"rules", "fallback", "model"}
      PROVE  RulePlan(o, label, by) \in Plan
  <2>1. RulePolicy(o, label) \in Policies BY GateTyped DEF RulePolicy
  <2>2. GateAllows(o, label) \in BOOLEAN BY DEF GateAllows
  <2>3. QED BY <2>1, <2>2, RuleRouteTyped DEF RulePlan, Plan
<1>2. ASSUME NEW answer \in LlmAnswers
      PROVE  ModelPlan(o, label, answer) \in Plan
  <2>1. answer.route \in Routes /\ answer.policy \in Policies
        BY RoutedAssumptions DEF Routes
  <2>2. RulePlan(o, label, "model") \in Plan BY <1>1
  <2>3. QED BY <2>1, <2>2 DEF ModelPlan, Plan
<1>3. QED BY <1>1, <1>2 DEF Plans

----------------------------------------------------------------------------
(* Values.                                                                 *)

LEMMA FieldNames ==
  /\ DOMAIN Nothing = {"action", "exception", "effect", "route", "policy"}
  /\ Len(Fields) = 5 /\ \A i \in 1..5 : Fields[i] \in DOMAIN Nothing
  /\ \A f \in DOMAIN Nothing : \E i \in 1..5 : f = Fields[i]
  /\ \A f \in DOMAIN Nothing : Nothing[f] = ""
<1>1. Len(Fields) = 5 /\ DOMAIN Fields = 1..5 BY DEF Fields
<1>2. 1..5 = {1, 2, 3, 4, 5} OBVIOUS
<1>3. /\ Fields[1] = "action" /\ Fields[2] = "exception" /\ Fields[3] = "effect"
      /\ Fields[4] = "route" /\ Fields[5] = "policy"
      BY DEF Fields
<1>4. {Fields[i] : i \in 1..5} = {"action", "exception", "effect", "route", "policy"}
      BY <1>2, <1>3
<1>5. QED BY <1>1, <1>2, <1>3, <1>4 DEF Nothing

ArtifactSet == {Artifacts[i] : i \in DOMAIN Artifacts}

LEMMA ArtifactNames ==
  /\ ArtifactSet = {"triage", "plan", "policy", "action"}
  /\ Len(Artifacts) = 4 /\ \A i \in 1..4 : Artifacts[i] \in ArtifactSet
  /\ Artifacts[1] = "triage" /\ Artifacts[2] = "plan"
  /\ Artifacts[3] = "policy" /\ Artifacts[4] = "action"
<1>1. Len(Artifacts) = 4 /\ DOMAIN Artifacts = 1..4 BY DEF Artifacts
<1>2. 1..4 = {1, 2, 3, 4} OBVIOUS
<1>3. /\ Artifacts[1] = "triage" /\ Artifacts[2] = "plan"
      /\ Artifacts[3] = "policy" /\ Artifacts[4] = "action"
      BY DEF Artifacts
<1>4. {Artifacts[i] : i \in 1..4} = {"triage", "plan", "policy", "action"}
      BY <1>2, <1>3
<1>5. QED BY <1>1, <1>2, <1>3, <1>4 DEF ArtifactSet

LEMMA SaidTyped ==
  /\ "" \in Said
  /\ \A e \in Exceptions : {e, TriageAction[e], RouteAction[e], StageOf[e]} \subseteq Said
  /\ Routes \cup Policies \cup RouteActions \cup {"none"} \subseteq Said
  /\ \A r \in Routes \cup {"none"} : ErpAction(r) \in Said
  /\ {"manual_investigation", "budget_exceeded", "unknown_exception", "route_unknown",
      "policy_unknown"} \subseteq Said
<1>1. "" \in Said /\ Routes \cup Policies \cup RouteActions \cup Exceptions \cup {"none"} \subseteq Said
      BY DEF Said
<1>2. \A e \in Exceptions : TriageAction[e] \in Said BY DEF Said
<1>3. \A e \in Exceptions : RouteAction[e] \in RouteActions
      BY DEF Exceptions, RouteAction, RouteActions
<1>4. \A e \in Exceptions : StageOf[e] \in Routes BY StageTyped DEF Routes
<1>5. \A r \in Routes \cup {"none"} : ErpAction(r) \in Said
  <2>1. \A r \in Routes : ErpAction(r) \in Said BY DEF Said
  <2>2. ErpAction("none") = ErpAction("AGENT_SEMANTIC_ROUTING") BY DEF ErpAction
  <2>3. "AGENT_SEMANTIC_ROUTING" \in Routes BY DEF Routes
  <2>4. QED BY <2>1, <2>2, <2>3
<1>6. TriageAction["unknown_exception"] = "manual_investigation"
      BY DEF TriageAction, Exceptions
<1>7. {"unknown_exception", "budget_exceeded"} \subseteq Exceptions BY DEF Exceptions
<1>8. {"route_unknown", "policy_unknown"} \subseteq Said BY DEF Said
<1>9. QED BY <1>1, <1>2, <1>3, <1>4, <1>5, <1>6, <1>7, <1>8

LEMMA NothingTyped == Nothing \in Signature
<1>1. Nothing = [f \in DOMAIN Nothing |-> ""] BY DEF Nothing
<1>2. QED BY <1>1, SaidTyped DEF Signature

LEMMA SignatureUpdated ==
  ASSUME NEW s \in Signature, NEW field \in DOMAIN Nothing, NEW v \in Said
  PROVE  [s EXCEPT ![field] = v] \in Signature
BY DEF Signature

LEMMA ContentTyped ==
  ASSUME RoutedTypeOK
  PROVE  \A a \in ArtifactSet : Content[a] \in Signature
<1>1. /\ robot.plan.route \in Routes \cup {"none"} /\ robot.plan.policy \in Policies \cup {"none"}
      BY DEF RoutedTypeOK, Plan
<1>2. ActionOf(order) \in Said
  <2>1. order.asked \in {"none"} \cup RouteActions BY OrderTyped DEF Order
  <2>2. QED BY <2>1, DetectedTyped, SaidTyped DEF ActionOf
<1> DEFINE triage == [Nothing EXCEPT !["action"] = TriageAction[Classified(order)],
                                     !["exception"] = Classified(order),
                                     !["route"] = StageOf[Classified(order)]]
           plan   == [Nothing EXCEPT !["action"] = ActionOf(order),
                                     !["exception"] = Detected(order),
                                     !["route"] = robot.plan.route,
                                     !["policy"] = robot.plan.policy]
           policy == [Nothing EXCEPT !["policy"] = robot.plan.policy]
           action == [Nothing EXCEPT !["effect"] = ErpAction(robot.plan.route)]
<1>3. triage \in Signature
      BY ClassifiedTyped, SaidTyped, NothingTyped DEF Signature
<1>4. plan \in Signature
      BY <1>1, <1>2, DetectedTyped, SaidTyped, NothingTyped DEF Signature
<1>5. policy \in Signature BY <1>1, SaidTyped, NothingTyped DEF Signature
<1>6. action \in Signature BY <1>1, SaidTyped, NothingTyped DEF Signature
<1>7. Content = [a \in ArtifactSet |->
        CASE a = "triage" -> triage [] a = "plan" -> plan
          [] a = "policy" -> policy [] a = "action" -> action]
      BY DEF Content, ArtifactSet
<1> HIDE DEF triage, plan, policy, action
<1>8. ASSUME NEW a \in {"triage", "plan", "policy", "action"}
      PROVE  (CASE a = "triage" -> triage [] a = "plan" -> plan
                [] a = "policy" -> policy [] a = "action" -> action) \in Signature
      BY <1>3, <1>4, <1>5, <1>6
<1>9. QED BY <1>7, <1>8, ArtifactNames

LEMMA ArtifactTyped ==
  ASSUME RoutedTypeOK, NEW a \in ArtifactSet
  PROVE  Artifact(a) \in Signature
BY NothingTyped DEF RoutedTypeOK, ArtifactSet, Artifact, Load, File

LEMMA DerivedTyped ==
  ASSUME RoutedTypeOK, NEW field \in DOMAIN Nothing
  PROVE  Derived(field) \in Said
<1> DEFINE triage == Artifact("triage")
           plan == Artifact("plan")
<1>1. \A a \in ArtifactSet, f \in DOMAIN Nothing : Artifact(a)[f] \in Said
      BY ArtifactTyped DEF Signature
<1>2. Unsaid \in Said BY SaidTyped DEF Unsaid
<1>3. \A x, y, z \in Said : First(x, y, z) \in Said BY DEF First
<1>4. /\ {"triage", "plan", "policy", "action"} \subseteq ArtifactSet
      /\ {"action", "exception", "effect", "route", "policy"} \subseteq DOMAIN Nothing
      BY ArtifactNames, FieldNames
<1>5. /\ First(triage["action"], plan["action"], "manual_investigation") \in Said
      /\ First(triage["exception"], plan["exception"], Unsaid) \in Said
      /\ Artifact("action")["effect"] \in Said
      /\ First(plan["route"], triage["route"], "route_unknown") \in Said
      /\ First(Artifact("policy")["policy"], plan["policy"], "policy_unknown") \in Said
      BY <1>1, <1>2, <1>3, <1>4, SaidTyped
<1>6. QED BY <1>5, FieldNames DEF Derived

----------------------------------------------------------------------------
(* Type correctness.                                                       *)

Jobs ==
  [call : {"none", "route", "commit"},
   stage : {"done", "evaluate", "open", "fill", "answer", "derive", "summarise", "count"},
   label : Labels \cup {"none"}, next : 1..Len(Fields),
   found : Signature, again : Signature]

Robots ==
  [stage : {"ask", "asking", "post", "fill", "commit", "committing", "done"},
   thread : {{}} \cup {{t} : t \in Threads}, plan : Plan, next : 1..Len(Artifacts)]

LEMMA TypeUnfolded ==
  RoutedTypeOK <=>
    /\ order \in Orders
    /\ registry \in File(BOOLEAN) /\ validated \in BOOLEAN
    /\ \A key \in DOMAIN observed : observed[key] \in Nat
    /\ decision \in File(Labels \cup {"none"})
    /\ job \in [Threads -> Jobs]
    /\ robot \in Robots
    /\ raw \in [ArtifactSet -> File(Signature)]
    /\ normalized \in Signature /\ summary \in Signature
    /\ calls \in 0..MaxCalls /\ lost \in 0..MaxLost /\ overlapped \in BOOLEAN
BY DEF RoutedTypeOK, Jobs, Robots, ArtifactSet

LEMMA NoPlanTyped == NoPlan \in Plan
BY DEF NoPlan, Plan

LEMMA NoJobTyped == NoJob \in Jobs /\ NoRobot \in Robots
<1>1. Len(Fields) = 5 /\ Len(Artifacts) = 4 BY FieldNames, ArtifactNames
<1>2. 1 \in 1..Len(Fields) /\ 1 \in 1..Len(Artifacts) BY <1>1
<1>3. NoJob \in Jobs BY <1>2, NothingTyped DEF NoJob, Jobs
<1>4. NoRobot \in Robots BY <1>2, NoPlanTyped DEF NoRobot, Robots
<1>5. QED BY <1>3, <1>4

LEMMA FileTyped ==
  ASSUME NEW Contents, NEW file \in File(Contents), NEW value \in Contents,
         NEW nothing \in Contents
  PROVE  /\ NoFile(nothing) \in File(Contents)
         /\ WholeFile(value) \in File(Contents)
         /\ Truncated(file) \in File(Contents)
         /\ Written(file, value, nothing) \subseteq File(Contents)
BY DEF File, FileStates, NoFile, WholeFile, Truncated, Written

LEMMA InitTyped == RoutedInit => RoutedTypeOK
<1> SUFFICES ASSUME RoutedInit PROVE RoutedTypeOK
    OBVIOUS
<1>1. 0 \in 0..MaxCalls /\ 0 \in 0..MaxLost BY RoutedAssumptions
<1>2. registry \in File(BOOLEAN) BY DEF RoutedInit, NoFile, File, FileStates
<1>3. decision \in File(Labels \cup {"none"}) BY DEF RoutedInit, NoFile, File, FileStates
<1>4. NoFile(Nothing) \in File(Signature)
      BY NothingTyped DEF NoFile, File, FileStates
<1>5. raw \in [ArtifactSet -> File(Signature)] BY <1>4 DEF RoutedInit, ArtifactSet
<1>6. job \in [Threads -> Jobs] /\ robot \in Robots BY NoJobTyped DEF RoutedInit
<1>7. \A key \in DOMAIN observed : observed[key] \in Nat BY DEF RoutedInit
<1>8. QED BY <1>1, <1>2, <1>3, <1>5, <1>6, <1>7, NothingTyped, TypeUnfolded DEF RoutedInit

LEMMA CountedTyped ==
  ASSUME RoutedTypeOK, NEW key
  PROVE  \A k \in DOMAIN Counted(key) : Counted(key)[k] \in Nat
<1>1. \A k : Runs(k) \in Nat BY DEF RoutedTypeOK, Runs
<1>2. QED BY <1>1 DEF Counted

(* A step of a thread that changes its job, and perhaps the robot.         *)
LEMMA JobTyped ==
  ASSUME RoutedTypeOK, NEW t \in Threads, NEW j \in Jobs, job' = [job EXCEPT ![t] = j],
         robot' \in Robots
  PROVE  job' \in [Threads -> Jobs] /\ robot' \in Robots
BY TypeUnfolded

LEMMA RobotTyped ==
  ASSUME RoutedTypeOK,
         NEW stage \in {"ask", "asking", "post", "fill", "commit", "committing", "done"},
         NEW thread \in {{}} \cup {{t} : t \in Threads}, NEW plan \in Plan
  PROVE  /\ [robot EXCEPT !.stage = stage, !.thread = thread] \in Robots
         /\ [robot EXCEPT !.stage = stage, !.thread = thread, !.plan = plan] \in Robots
         /\ [robot EXCEPT !.stage = stage] \in Robots
BY TypeUnfolded DEF Robots

LEMMA GoesTyped ==
  ASSUME RoutedTypeOK, NEW t \in Threads,
         NEW stage \in {"done", "evaluate", "open", "fill", "answer", "derive", "summarise", "count"},
         Goes(t, stage)
  PROVE  job' \in [Threads -> Jobs]
BY TypeUnfolded DEF Goes, Jobs

LEMMA CallsTyped ==
  ASSUME RoutedTypeOK, NEW t \in Threads, AskRoute(t) \/ CallCommit(t)
  PROVE  RoutedTypeOK'
<1>1. \A call \in {"route", "commit"}, stage \in {"evaluate", "derive"} :
        [NoJob EXCEPT !.call = call, !.stage = stage] \in Jobs
      BY NoJobTyped DEF Jobs
<1>2. job' \in [Threads -> Jobs] BY <1>1, TypeUnfolded DEF AskRoute, CallCommit, Call
<1>3. robot' \in Robots
  <2>1. /\ [robot EXCEPT !.stage = "asking", !.thread = {t}] \in Robots
        /\ [robot EXCEPT !.stage = "committing", !.thread = {t}] \in Robots
        BY RobotTyped, NoPlanTyped
  <2>2. QED BY <2>1 DEF AskRoute, CallCommit
<1>4. calls' \in 0..MaxCalls
      BY TypeUnfolded, RoutedAssumptions DEF AskRoute, CallCommit, Call
<1>5. overlapped' \in BOOLEAN
  <2>1. overlapped' = (overlapped \/ \E u \in Threads : Busy(u))
        BY DEF AskRoute, CallCommit, Call
  <2>2. QED BY <2>1
<1>6. QED BY <1>2, <1>3, <1>4, <1>5, TypeUnfolded
          DEF AskRoute, CallCommit, RoutedTypeOK, Jobs, Robots, ArtifactSet

LEMMA EvaluateTyped ==
  ASSUME RoutedTypeOK, NEW t \in Threads, Evaluate(t)
  PROVE  RoutedTypeOK'
<1>1. Evaluated(KeyOf(t)) \in Labels BY DecisionTyped DEF Evaluated
<1>2. job' \in [Threads -> Jobs]
  <2>1. [job[t] EXCEPT !.stage = "open", !.label = Evaluated(KeyOf(t))] \in Jobs
    <3>1. job[t] \in Jobs BY TypeUnfolded
    <3>2. PICK label \in Labels : label = Evaluated(KeyOf(t)) BY <1>1
    <3>3. QED BY <3>1, <3>2 DEF Jobs
  <2>2. QED BY <2>1, NoJobTyped, TypeUnfolded DEF Evaluate
<1>3. robot' \in Robots
  <2>1. /\ [robot EXCEPT !.stage = "ask", !.thread = {}] \in Robots
        /\ [robot EXCEPT !.stage = "done", !.thread = {}] \in Robots
        BY RobotTyped, NoPlanTyped
  <2>2. robot' \in {robot, [robot EXCEPT !.thread = {},
                            !.stage = IF job[t].call = "route" THEN "ask" ELSE "done"]}
        BY DEF Evaluate
  <2>3. [robot EXCEPT !.thread = {}, !.stage = IF job[t].call = "route" THEN "ask" ELSE "done"]
          \in Robots
        BY TypeUnfolded DEF Robots
  <2>4. QED BY <2>2, <2>3, TypeUnfolded
<1>4. QED BY <1>2, <1>3, TypeUnfolded DEF Evaluate, RoutedTypeOK, Jobs, Robots, ArtifactSet

LEMMA DecisionWritten ==
  ASSUME RoutedTypeOK, NEW t \in Threads, OpenDecision(t) \/ FillDecision(t)
  PROVE  RoutedTypeOK'
<1>1. job[t].label \in Labels \cup {"none"} BY TypeUnfolded DEF Jobs
<1>2. decision' \in File(Labels \cup {"none"})
      BY <1>1, FileTyped, TypeUnfolded DEF OpenDecision, FillDecision
<1>3. job' \in [Threads -> Jobs]
      BY GoesTyped, NoJobTyped, TypeUnfolded DEF OpenDecision, FillDecision
<1>4. robot' \in Robots
      BY RobotTyped, NoPlanTyped, TypeUnfolded DEF OpenDecision, FillDecision
<1>5. QED BY <1>2, <1>3, <1>4, TypeUnfolded
          DEF OpenDecision, FillDecision, RoutedTypeOK, Jobs, Robots, ArtifactSet

LEMMA AnswerTyped ==
  ASSUME RoutedTypeOK, NEW t \in Threads, AnswerRoute(t) \/ AgentRaises(t)
  PROVE  RoutedTypeOK'
<1>1. job' \in [Threads -> Jobs]
      BY NoJobTyped, TypeUnfolded DEF AnswerRoute, AgentRaises
<1>2. robot' \in Robots
  <2>1. CASE AnswerRoute(t)
    <3>1. PICK plan \in Plans(order, job[t].label) :
            robot' = IF Awaited(t)
                       THEN [robot EXCEPT !.stage = "post", !.thread = {}, !.plan = plan]
                       ELSE robot
          BY <2>1 DEF AnswerRoute
    <3>2. plan \in Plan BY PlansTyped, TypeUnfolded DEF Jobs
    <3>3. QED BY <3>1, <3>2, RobotTyped, TypeUnfolded
  <2>2. CASE AgentRaises(t) BY <2>2, RobotTyped, NoPlanTyped, TypeUnfolded DEF AgentRaises
  <2>3. QED BY <2>1, <2>2
<1>3. QED BY <1>1, <1>2, TypeUnfolded
          DEF AnswerRoute, AgentRaises, RoutedTypeOK, Jobs, Robots, ArtifactSet

LEMMA PostTyped ==
  ASSUME RoutedTypeOK, OpenArtifact \/ FillArtifact \/ SkipArtifact
  PROVE  RoutedTypeOK'
<1>1. robot.next \in 1..4 /\ Current \in ArtifactSet
      BY TypeUnfolded, ArtifactNames DEF Robots, Current
<1>2. NextArtifact \in Robots
  <2>1. Len(Artifacts) = 4 BY ArtifactNames
  <2>2. (IF robot.next < Len(Artifacts) THEN robot.next + 1 ELSE 1) \in 1..Len(Artifacts)
        BY <1>1, <2>1
  <2>3. QED BY <2>2, TypeUnfolded DEF NextArtifact, Robots
<1>3. robot' \in Robots
      BY <1>2, RobotTyped, NoPlanTyped DEF OpenArtifact, FillArtifact, SkipArtifact
<1>4. raw' \in [ArtifactSet -> File(Signature)]
  <2>1. raw[Current] \in File(Signature) /\ Content[Current] \in Signature
        BY <1>1, ContentTyped, TypeUnfolded
  <2>2. Truncated(raw[Current]) \in File(Signature)
        BY <2>1, NothingTyped, FileTyped
  <2>3. Written(raw[Current], Content[Current], Nothing) \subseteq File(Signature)
        BY <2>1, NothingTyped, FileTyped
  <2>4. CASE OpenArtifact BY <1>1, <2>2, <2>4, TypeUnfolded DEF OpenArtifact
  <2>5. CASE FillArtifact
    <3>1. PICK file \in Written(raw[Current], Content[Current], Nothing) :
            raw' = [raw EXCEPT ![Current] = file]
          BY <2>5 DEF FillArtifact
    <3>2. QED BY <1>1, <2>3, <3>1, TypeUnfolded
  <2>6. CASE SkipArtifact BY <2>6, TypeUnfolded DEF SkipArtifact
  <2>7. QED BY <2>4, <2>5, <2>6
<1>5. lost' \in 0..MaxLost
      BY TypeUnfolded, RoutedAssumptions DEF OpenArtifact, FillArtifact, SkipArtifact
<1>6. QED BY <1>3, <1>4, <1>5, TypeUnfolded
          DEF OpenArtifact, FillArtifact, SkipArtifact, RoutedTypeOK, Jobs, Robots, ArtifactSet

LEMMA CommitTyped ==
  ASSUME RoutedTypeOK, NEW t \in Threads, Derive(t) \/ Summarise(t) \/ CountRun(t)
  PROVE  RoutedTypeOK'
<1> DEFINE field == Fields[job[t].next]
<1>1. job[t] \in Jobs /\ job[t].next \in 1..5 /\ field \in DOMAIN Nothing
      BY TypeUnfolded, FieldNames DEF Jobs
<1>2. Derived(field) \in Said BY <1>1, DerivedTyped
<1> HIDE DEF field
<1>3. \A s \in Signature : [s EXCEPT ![field] = Derived(field)] \in Signature
      BY <1>1, <1>2, SignatureUpdated
<1>4. (IF job[t].next < Len(Fields) THEN job[t].next + 1 ELSE 1) \in 1..Len(Fields)
  <2>1. Len(Fields) = 5 BY FieldNames
  <2>2. QED BY <1>1, <2>1
<1>5. /\ job' \in [Threads -> Jobs]
      /\ normalized' \in Signature /\ summary' \in Signature
      /\ \A key \in DOMAIN observed' : observed'[key] \in Nat
  <2>1. CASE Derive(t)
    <3> DEFINE found == [job[t].found EXCEPT ![field] = Derived(field)]
    <3>1. found \in Signature BY <1>1, <1>3 DEF Jobs
    <3>2. /\ job' = [job EXCEPT ![t].found = found,
                        ![t].next = IF @ < Len(Fields) THEN @ + 1 ELSE 1,
                        ![t].stage = IF job[t].next < Len(Fields) THEN "derive" ELSE "summarise"]
          /\ normalized' = IF job[t].next < Len(Fields) THEN normalized ELSE found
          /\ UNCHANGED <<summary, observed>>
          BY <2>1 DEF Derive, field
    <3> HIDE DEF found
    <3>3. [job[t] EXCEPT !.found = found,
             !.next = IF job[t].next < Len(Fields) THEN job[t].next + 1 ELSE 1,
             !.stage = IF job[t].next < Len(Fields) THEN "derive" ELSE "summarise"] \in Jobs
          BY <1>1, <1>4, <3>1 DEF Jobs
    <3>4. QED BY <3>1, <3>2, <3>3, TypeUnfolded
  <2>2. CASE Summarise(t)
    <3> DEFINE again == [job[t].again EXCEPT ![field] = Derived(field)]
    <3>1. again \in Signature BY <1>1, <1>3 DEF Jobs
    <3>2. /\ job' = [job EXCEPT ![t].again = again,
                        ![t].next = IF @ < Len(Fields) THEN @ + 1 ELSE 1,
                        ![t].stage = IF job[t].next < Len(Fields) THEN "summarise" ELSE "count"]
          /\ summary' = IF job[t].next < Len(Fields) THEN summary ELSE again
          /\ UNCHANGED <<normalized, observed>>
          BY <2>2 DEF Summarise, field
    <3> HIDE DEF again
    <3>3. [job[t] EXCEPT !.again = again,
             !.next = IF job[t].next < Len(Fields) THEN job[t].next + 1 ELSE 1,
             !.stage = IF job[t].next < Len(Fields) THEN "summarise" ELSE "count"] \in Jobs
          BY <1>1, <1>4, <3>1 DEF Jobs
    <3>4. QED BY <3>1, <3>2, <3>3, TypeUnfolded
  <2>3. CASE CountRun(t) BY <2>3, CountedTyped, GoesTyped, TypeUnfolded DEF CountRun
  <2>4. QED BY <2>1, <2>2, <2>3
<1>6. QED BY <1>5, TypeUnfolded
          DEF Derive, Summarise, CountRun, RoutedTypeOK, Jobs, Robots, ArtifactSet

LEMMA EnvironmentTyped ==
  ASSUME RoutedTypeOK, GivesUpWaiting \/ ValidationPasses \/ OtherRun
  PROVE  RoutedTypeOK'
<1>1. robot' \in Robots
  <2>1. CASE GivesUpWaiting
    <3>1. [robot EXCEPT !.stage = IF robot.stage = "asking" THEN "ask" ELSE "commit",
                        !.thread = {}] \in Robots
          BY RobotTyped, NoPlanTyped
    <3>2. QED BY <2>1, <3>1 DEF GivesUpWaiting
  <2>2. QED BY <2>1, TypeUnfolded DEF ValidationPasses, OtherRun
<1>2. registry' \in File(BOOLEAN) /\ validated' \in BOOLEAN
      BY FileTyped, TypeUnfolded DEF GivesUpWaiting, ValidationPasses, OtherRun
<1>3. \A key \in DOMAIN observed' : observed'[key] \in Nat
      BY CountedTyped, TypeUnfolded DEF GivesUpWaiting, ValidationPasses, OtherRun
<1>4. QED BY <1>1, <1>2, <1>3, TypeUnfolded
          DEF GivesUpWaiting, ValidationPasses, OtherRun, RoutedTypeOK, Jobs, Robots, ArtifactSet

LEMMA TypePreserved == RoutedTypeOK /\ [RoutedNext]_routedVars => RoutedTypeOK'
<1> SUFFICES ASSUME RoutedTypeOK, [RoutedNext]_routedVars PROVE RoutedTypeOK'
    OBVIOUS
<1>1. CASE UNCHANGED routedVars
      BY <1>1 DEF routedVars, RoutedTypeOK
<1>2. CASE RoutedNext
      BY <1>2, CallsTyped, EvaluateTyped, DecisionWritten, AnswerTyped, PostTyped, CommitTyped,
         EnvironmentTyped DEF RoutedNext
<1>3. QED BY <1>1, <1>2

(* Whatever interleaves and whatever is lost, every file of a run and of   *)
(* its case holds a value its readers know: a decision, a signature.       *)
THEOREM RoutedTypeCorrect == RoutedSpec => []RoutedTypeOK
<1>1. QED BY InitTyped, TypePreserved, PTL DEF RoutedSpec

----------------------------------------------------------------------------
(* What a plan rests on.                                                   *)

(* Whether the action of the order has a trusted tool by now.              *)
ToolTrusted == validated /\ registry.content /\ ActionOf(order) = ApiAction

(* A label the evaluator can give the order o.                             *)
Grounded(o, trusted, label) ==
  /\ label \in Labels
  /\ Detected(o) = "none" => label = "NO_EVOLUTION_REQUIRED"
  /\ label = "USE_TRUSTED_CAPABILITY" => trusted

(* The label a route call carries from the evaluator to its answer, and    *)
(* the plan made of it, are grounded; the registry never names a tool      *)
(* whose validation has not passed.                                        *)
PlanInv ==
  /\ registry.content \/ Exists(registry) => validated
  /\ \A t \in Threads :
       job[t].call = "route" /\ job[t].stage \in {"open", "fill", "answer"} =>
         Grounded(order, ToolTrusted, job[t].label)
  /\ robot.plan = NoPlan
       \/ (/\ Grounded(order, ToolTrusted, robot.plan.label)
           /\ robot.plan \in Plans(order, robot.plan.label))

LEMMA EvaluatedGrounded ==
  ASSUME RoutedTypeOK, PlanInv
  PROVE  Grounded(order, ToolTrusted, Evaluated(RouteKey))
<1> DEFINE trusted == registry.content /\ ActionOf(order) = ApiAction
<1>1. RouteKey[1] = ActionOf(order) /\ RouteKey[2] = Detected(order) BY DEF RouteKey
<1>2. Evaluated(RouteKey) = Decision(Detected(order), ActionOf(order), PatternOf(RouteKey),
                                     trusted, validated)
      BY <1>1 DEF Evaluated
<1>3. trusted \in BOOLEAN BY DEF RoutedTypeOK, File
<1> HIDE DEF trusted
<1>4. Evaluated(RouteKey) \in Labels BY <1>2, DecisionTyped
<1>5. Detected(order) = "none" => Evaluated(RouteKey) = "NO_EVOLUTION_REQUIRED"
      BY <1>2, NothingToEvolve
<1>6. Evaluated(RouteKey) = "USE_TRUSTED_CAPABILITY" => trusted BY <1>2, <1>3, TrustedOnly
<1>7. QED BY <1>4, <1>5, <1>6 DEF Grounded, PlanInv, ToolTrusted, trusted

LEMMA PlanShape ==
  ASSUME NEW o, NEW label, NEW plan \in Plans(o, label)
  PROVE  /\ plan.label = label
         /\ plan.gate = GateAllows(o, label)
         /\ plan.execution = (Precheck(o) = "NORMAL")
         /\ plan.by = "fallback" =>
              Precheck(o) # "NORMAL" /\ plan = RulePlan(o, label, "fallback")
         /\ Precheck(o) = "NORMAL" => plan = RulePlan(o, label, "rules")
<1>1. CASE Precheck(o) = "NORMAL"
      BY <1>1 DEF Plans, RulePlan
<1>2. CASE Precheck(o) # "NORMAL"
  <2>1. CASE plan = RulePlan(o, label, "fallback") BY <1>2, <2>1 DEF RulePlan
  <2>2. ASSUME NEW a \in LlmAnswers, plan = ModelPlan(o, label, a)
        PROVE  plan.label = label /\ plan.gate = GateAllows(o, label) /\ plan.by = "model"
                 /\ plan.execution = (Precheck(o) = "NORMAL")
        BY <2>2 DEF ModelPlan, RulePlan
  <2>3. QED BY <1>2, <2>1, <2>2 DEF Plans
<1>3. QED BY <1>1, <1>2

(* A step that keeps the plan and gives no job a label.                    *)
LEMMA PlanKept ==
  ASSUME PlanInv, UNCHANGED <<order, registry, validated>>, robot'.plan = robot.plan,
         \A t \in Threads :
           job'[t].call = "route" /\ job'[t].stage \in {"open", "fill", "answer"} =>
             /\ job[t].call = "route" /\ job[t].stage \in {"open", "fill", "answer"}
             /\ job'[t].label = job[t].label
  PROVE  PlanInv'
<1>1. ToolTrusted' = ToolTrusted BY DEF ToolTrusted
<1>2. QED BY <1>1 DEF PlanInv

LEMMA PlanPreserved ==
  RoutedTypeOK /\ PlanInv /\ [RoutedNext]_routedVars => PlanInv'
<1> SUFFICES ASSUME RoutedTypeOK, PlanInv, [RoutedNext]_routedVars PROVE PlanInv'
    OBVIOUS
<1>0. /\ job \in [Threads -> Jobs] /\ robot \in Robots
      /\ \A t \in Threads : job[t] \in Jobs
      BY TypeUnfolded
<1>1. ASSUME NEW t \in Threads, AskRoute(t) \/ CallCommit(t) PROVE PlanInv'
  <2>1. robot'.plan = robot.plan BY <1>0, <1>1 DEF AskRoute, CallCommit, Robots
  <2>2. PICK call \in {"route", "commit"}, stage \in {"evaluate", "derive"} :
          job' = [job EXCEPT ![t] = [NoJob EXCEPT !.call = call, !.stage = stage]]
        BY <1>1 DEF AskRoute, CallCommit, Call
  <2>3. [NoJob EXCEPT !.call = call, !.stage = stage].stage = stage BY DEF NoJob
  <2>4. QED BY <1>0, <1>1, <2>1, <2>2, <2>3, PlanKept DEF AskRoute, CallCommit
<1>2. ASSUME NEW t \in Threads, Evaluate(t) PROVE PlanInv'
  <2>1. robot'.plan = robot.plan BY <1>0, <1>2 DEF Evaluate, Robots
  <2>2. CASE job' = [job EXCEPT ![t] = NoJob]
        BY <1>0, <1>2, <2>1, <2>2, PlanKept DEF Evaluate, NoJob
  <2>3. CASE job' = [job EXCEPT ![t].stage = "open", ![t].label = Evaluated(KeyOf(t))]
    <3>1. /\ job'[t].call = job[t].call /\ job'[t].label = Evaluated(KeyOf(t))
          /\ \A u \in Threads \ {t} : job'[u] = job[u]
          BY <1>0, <2>3 DEF Jobs
    <3>2. job[t].call = "route" => KeyOf(t) = RouteKey BY DEF KeyOf
    <3>3. UNCHANGED <<order, registry, validated>> BY <1>2 DEF Evaluate
    <3>4. ToolTrusted' = ToolTrusted BY <3>3 DEF ToolTrusted
    <3>5. job'[t].call = "route" => Grounded(order, ToolTrusted, job'[t].label)
          BY <3>1, <3>2, EvaluatedGrounded
    <3>6. QED BY <2>1, <3>1, <3>3, <3>4, <3>5 DEF PlanInv
  <2>4. QED BY <1>2, <2>2, <2>3 DEF Evaluate
<1>3. ASSUME NEW t \in Threads, OpenDecision(t) \/ FillDecision(t) PROVE PlanInv'
  <2>1. robot'.plan = robot.plan BY <1>0, <1>3 DEF OpenDecision, FillDecision, Robots
  <2>2. \A u \in Threads : job'[u].stage \in {"open", "fill", "answer"} =>
          /\ job'[u].call = job[u].call /\ job'[u].label = job[u].label
          /\ job[u].stage \in {"open", "fill", "answer"}
        BY <1>0, <1>3 DEF OpenDecision, FillDecision, Goes, NoJob, Jobs
  <2>3. QED BY <1>3, <2>1, <2>2, PlanKept DEF OpenDecision, FillDecision
<1>4. ASSUME NEW t \in Threads, AnswerRoute(t) PROVE PlanInv'
  <2>1. PICK plan \in Plans(order, job[t].label) :
          robot' = IF Awaited(t)
                     THEN [robot EXCEPT !.stage = "post", !.thread = {}, !.plan = plan]
                     ELSE robot
        BY <1>4 DEF AnswerRoute
  <2>2. plan.label = job[t].label BY <2>1, PlanShape
  <2>3. Grounded(order, ToolTrusted, job[t].label) BY <1>4 DEF AnswerRoute, PlanInv
  <2>4. UNCHANGED <<order, registry, validated>> BY <1>4 DEF AnswerRoute
  <2>5. ToolTrusted' = ToolTrusted BY <2>4 DEF ToolTrusted
  <2>6. robot'.plan \in {robot.plan, plan} BY <1>0, <2>1 DEF Robots
  <2>7. \A u \in Threads : job'[u].stage \in {"open", "fill", "answer"} => job'[u] = job[u]
        BY <1>0, <1>4 DEF AnswerRoute, NoJob
  <2>8. QED BY <2>1, <2>2, <2>3, <2>4, <2>5, <2>6, <2>7 DEF PlanInv
<1>5. ASSUME NEW t \in Threads, AgentRaises(t) PROVE PlanInv'
  <2>1. robot'.plan = robot.plan BY <1>0, <1>5 DEF AgentRaises, Robots
  <2>2. QED BY <1>0, <1>5, <2>1, PlanKept DEF AgentRaises, NoJob
<1>6. ASSUME NEW t \in Threads, Derive(t) \/ Summarise(t) \/ CountRun(t) PROVE PlanInv'
  <2>1. \A u \in Threads : u = t \/ job'[u] = job[u]
        BY <1>0, <1>6 DEF Derive, Summarise, CountRun, Goes
  <2>2. job'[t].stage \notin {"open", "fill", "answer"}
    <3>1. CASE Derive(t) BY <1>0, <3>1 DEF Derive, Goes
    <3>2. CASE Summarise(t) BY <1>0, <3>2 DEF Summarise, Goes
    <3>3. CASE CountRun(t) BY <1>0, <3>3 DEF CountRun, Goes
    <3>4. QED BY <1>6, <3>1, <3>2, <3>3
  <2>3. QED BY <1>6, <2>1, <2>2, PlanKept DEF Derive, Summarise, CountRun
<1>7. CASE GivesUpWaiting \/ OpenArtifact \/ FillArtifact \/ SkipArtifact
  <2>1. robot'.plan = robot.plan
        BY <1>0, <1>7
           DEF GivesUpWaiting, OpenArtifact, FillArtifact, SkipArtifact, NextArtifact, Robots
  <2>2. QED BY <1>7, <2>1, PlanKept
            DEF GivesUpWaiting, OpenArtifact, FillArtifact, SkipArtifact
<1>8. CASE ValidationPasses
  <2>1. /\ validated => validated'
        /\ registry.content => registry'.content
        /\ registry'.content \/ Exists(registry') => validated'
        BY <1>8, TypeUnfolded
           DEF ValidationPasses, PlanInv, Truncated, WholeFile, Exists, File, FileStates
  <2>2. order' = order /\ job' = job /\ robot' = robot BY <1>8 DEF ValidationPasses
  <2>3. ToolTrusted => ToolTrusted'
    <3>1. SUFFICES ASSUME ToolTrusted PROVE ToolTrusted'
          OBVIOUS
    <3>2. validated' /\ registry'.content BY <2>1, <3>1 DEF ToolTrusted
    <3>3. ActionOf(order') = ApiAction BY <2>2, <3>1 DEF ToolTrusted
    <3>4. QED BY <3>2, <3>3 DEF ToolTrusted
  <2>4. \A label : Grounded(order, ToolTrusted, label) => Grounded(order, ToolTrusted', label)
        BY <2>3 DEF Grounded
  <2>5. QED BY <2>1, <2>2, <2>4 DEF PlanInv
<1>9. CASE OtherRun \/ UNCHANGED routedVars
      BY <1>9, PlanKept DEF OtherRun, routedVars
<1>10. QED BY <1>1, <1>2, <1>3, <1>4, <1>5, <1>6, <1>7, <1>8, <1>9 DEF RoutedNext

LEMMA PlanInitially == RoutedInit => PlanInv
BY NoJobTyped DEF RoutedInit, PlanInv, NoFile, Exists, NoRobot, NoJob

(* The rules let a normal order only be executed: every amount, vendor and *)
(* stock in order, and no exception raised.                                *)
LEMMA NormalIsClean ==
  ASSUME NEW o \in Order, Precheck(o) = "NORMAL"
  PROVE  ~o.over /\ o.vendor # "incomplete" /\ o.stock /\ o.status # "exception"
BY DEF Precheck, FieldException, Order

LEMMA GateOfNormal ==
  ASSUME NEW o \in Order, NEW label, Precheck(o) = "NORMAL",
         Detected(o) = "none" => label = "NO_EVOLUTION_REQUIRED"
  PROVE  RulePolicy(o, label) = "ALLOW_STANDARD_PROCESSING"
BY DEF Detected, RulePolicy, Gate, GateAllows

(* Whatever the model answers, an order is executed without a human only   *)
(* when it is clean, and then its policy says so.                          *)
THEOREM ExecutionIsForCleanOrders == RoutedSpec => []ExecutionNeedsCleanOrder
<1>1. RoutedTypeOK /\ PlanInv => ExecutionNeedsCleanOrder
  <2> SUFFICES ASSUME RoutedTypeOK, PlanInv, robot.plan.gate \/ robot.plan.execution
               PROVE  /\ ~order.over /\ order.vendor # "incomplete" /\ order.stock
                      /\ order.status # "exception"
                      /\ robot.plan.policy = "ALLOW_STANDARD_PROCESSING"
      BY DEF ExecutionNeedsCleanOrder
  <2> DEFINE label == robot.plan.label
  <2>1. robot.plan # NoPlan BY DEF NoPlan
  <2>2. Grounded(order, ToolTrusted, label) /\ robot.plan \in Plans(order, label)
        BY <2>1 DEF PlanInv
  <2>3. Precheck(order) = "NORMAL" BY <2>2, PlanShape DEF GateAllows
  <2>4. order \in Order BY OrderTyped
  <2>5. robot.plan = RulePlan(order, label, "rules") BY <2>2, <2>3, PlanShape
  <2>6. robot.plan.policy = RulePolicy(order, label) BY <2>5 DEF RulePlan
  <2>7. RulePolicy(order, label) = "ALLOW_STANDARD_PROCESSING"
        BY <2>2, <2>3, <2>4, GateOfNormal DEF Grounded
  <2>8. QED BY <2>3, <2>4, <2>6, <2>7, NormalIsClean
<1>2. QED BY <1>1, InitTyped, TypePreserved, PlanInitially, PlanPreserved, PTL DEF RoutedSpec

(* A classified order that is not normal is not standard.                  *)
LEMMA ExceptionHasItsRoute ==
  ASSUME NEW o \in Order, Precheck(o) # "NORMAL"
  PROVE  RuleRoute(o) # "STANDARD_PROCESSING"
<1>1. CASE Precheck(o) = "CLEAR_EXCEPTION"
  <2>1. Classified(o) # "none"
        BY <1>1 DEF Precheck, FieldException, Classified, Order
  <2>2. \A e \in Exceptions : e # "none" => StageOf[e] # "STANDARD_PROCESSING"
        BY DEF Exceptions, StageOf
  <2>3. RuleRoute(o) = StageOf[Classified(o)] BY <1>1 DEF RuleRoute
  <2>4. QED BY <2>1, <2>2, <2>3, ClassifiedTyped
<1>2. CASE Precheck(o) = "AMBIGUOUS" BY <1>2 DEF RuleRoute
<1>3. QED BY <1>1, <1>2, PrecheckCases

LEMMA GateStopsExceptions ==
  ASSUME NEW o, NEW label, Precheck(o) # "NORMAL"
  PROVE  RulePolicy(o, label) # "ALLOW_STANDARD_PROCESSING"
BY DEF RulePolicy, Gate, GateAllows

(* A model that fails leaves the order with a rule that stops it.          *)
THEOREM FailedModelsStop == RoutedSpec => []FailedModelStops
<1>1. RoutedTypeOK /\ PlanInv => FailedModelStops
  <2> SUFFICES ASSUME RoutedTypeOK, PlanInv, robot.plan.by = "fallback"
               PROVE  /\ robot.plan.route = RuleRoute(order)
                      /\ robot.plan.route # "STANDARD_PROCESSING"
                      /\ robot.plan.policy # "ALLOW_STANDARD_PROCESSING"
      BY DEF FailedModelStops
  <2> DEFINE label == robot.plan.label
  <2>1. robot.plan # NoPlan BY DEF NoPlan
  <2>2. robot.plan \in Plans(order, label) BY <2>1 DEF PlanInv
  <2>3. Precheck(order) # "NORMAL" /\ robot.plan = RulePlan(order, label, "fallback")
        BY <2>2, PlanShape
  <2>4. robot.plan.route = RuleRoute(order) /\ robot.plan.policy = RulePolicy(order, label)
        BY <2>3 DEF RulePlan
  <2>5. QED BY <2>3, <2>4, OrderTyped, ExceptionHasItsRoute, GateStopsExceptions
<1>2. QED BY <1>1, InitTyped, TypePreserved, PlanInitially, PlanPreserved, PTL DEF RoutedSpec

(* A plan that uses a trusted capability rests on a validation that passed *)
(* and on the registry that names the tool.                                *)
THEOREM TrustRests == RoutedSpec => []TrustRestsOnRegistry
<1>1. PlanInv => TrustRestsOnRegistry
      BY DEF PlanInv, TrustRestsOnRegistry, Grounded, ToolTrusted, NoPlan
<1>2. QED BY <1>1, InitTyped, TypePreserved, PlanInitially, PlanPreserved, PTL DEF RoutedSpec

----------------------------------------------------------------------------
(* Calls that do not overlap. Then one thread at most is busy, and what is *)
(* on file is told by the robot's stage and by that thread's: "j" is its   *)
(* job, an idle one included.                                              *)

AsDerived  == [f \in DOMAIN Nothing |-> Derived(f)]
Asking     == {"ask", "asking"}
Posting    == {"post", "fill"}
Committing == {"commit", "committing", "done"}

JobShape(j) ==
  /\ j.call = "none" => j.stage = "done"
  /\ j.call = "route" => j.stage \in {"evaluate", "open", "fill", "answer"}
  /\ j.call = "commit" =>
       j.stage \in {"derive", "summarise", "count", "evaluate", "open", "fill"}

(* The robot waits for the one call that runs, or has given it up.         *)
Serves(t, j) ==
  /\ robot.thread = IF robot.stage \in {"asking", "committing"} THEN {t} ELSE {}
  /\ j.call = "route" => robot.stage \in Asking
  /\ j.call = "commit" => robot.stage \in {"commit", "committing"}
  /\ robot.stage = "asking" => j.call = "route"
  /\ robot.stage = "committing" => j.call = "commit"

(* An artifact on file is the one the robot's plan makes.                  *)
ArtifactsRight ==
  /\ robot.stage \in Asking => \A a \in ArtifactSet : ~Readable(raw[a])
  /\ robot.stage \in Posting \cup Committing =>
       \A a \in ArtifactSet : Readable(raw[a]) =>
         raw[a].content = Content[a] /\ (a = "triage" => Triaged)
  /\ robot.stage = "fill" => raw[Current].state = "empty" /\ (Current = "triage" => Triaged)

(* The artifacts change no more once a commit derives from them, so every  *)
(* derivation gives the same signature.                                    *)
DerivedOnce(j) ==
  /\ robot.stage \notin Committing => normalized = Nothing /\ summary = Nothing
  /\ normalized \in {Nothing, AsDerived} /\ summary \in {Nothing, AsDerived}
  /\ summary # Nothing => normalized # Nothing
  /\ j.call = "commit" /\ j.stage # "derive" => normalized # Nothing
  /\ j.stage = "derive" => \A i \in 1..5 : i < j.next => j.found[Fields[i]] = Derived(Fields[i])
  /\ j.stage = "summarise" => \A i \in 1..5 : i < j.next => j.again[Fields[i]] = Derived(Fields[i])

Solo(t, j) ==
  /\ \A u \in Threads : u # t => ~Busy(u)
  /\ Serves(t, j) /\ ArtifactsRight /\ DerivedOnce(j)

SoloInv ==
  /\ RoutedTypeOK
  /\ \A t \in Threads : JobShape(job[t])
  /\ ~overlapped => \E t \in Threads : Solo(t, job[t])

LEMMA SoloInit == RoutedInit => SoloInv
<1> SUFFICES ASSUME RoutedInit PROVE SoloInv
    OBVIOUS
<1>1. PICK t \in Threads : TRUE BY ThreadsAssumption
<1>2. /\ \A u \in Threads : job[u] = NoJob
      /\ NoJob.call = "none" /\ NoJob.stage = "done"
      /\ robot.stage = "ask" /\ robot.thread = {}
      BY DEF RoutedInit, NoJob, NoRobot
<1>3. \A a \in ArtifactSet : ~Readable(raw[a])
      BY DEF RoutedInit, NoFile, Readable, ArtifactSet
<1>4. normalized = Nothing /\ summary = Nothing BY DEF RoutedInit
<1>5. \A u \in Threads : JobShape(job[u]) /\ ~Busy(u) BY <1>2 DEF JobShape, Busy
<1>6. Serves(t, job[t]) BY <1>2 DEF Serves
<1>8. ArtifactsRight BY <1>2, <1>3 DEF ArtifactsRight, Posting, Committing
<1>9. DerivedOnce(job[t]) BY <1>2, <1>4 DEF DerivedOnce, Committing
<1>10. QED BY <1>5, <1>6, <1>8, <1>9, InitTyped DEF SoloInv, Solo

(* The thread that acts is the one the invariant speaks of; while none is  *)
(* busy it speaks of each.                                                 *)
LEMMA ActingThread ==
  ASSUME SoloInv, ~overlapped, NEW t \in Threads, job[t].stage # "done"
  PROVE  Solo(t, job[t])
BY DEF SoloInv, Solo, Busy, JobShape

LEMMA FreeThread ==
  ASSUME SoloInv, ~overlapped, NEW t \in Threads, \A u \in Threads : ~Busy(u)
  PROVE  Solo(t, job[t])
<1>1. PICK u \in Threads : Solo(u, job[u]) BY DEF SoloInv
<1>2. \A v \in Threads : job[v].call = "none" /\ job[v].stage = "done"
      BY DEF SoloInv, Busy, JobShape
<1>3. Serves(t, job[t]) BY <1>1, <1>2 DEF Solo, Serves
<1>5. DerivedOnce(job[t]) BY <1>1, <1>2 DEF Solo, DerivedOnce
<1>6. QED BY <1>1, <1>3, <1>5 DEF Solo

LEMMA DerivedSame ==
  ASSUME UNCHANGED <<raw, order>>
  PROVE  (\A f : Derived(f)' = Derived(f)) /\ AsDerived' = AsDerived
<1>1. \A f : Derived(f)' = Derived(f) BY DEF Derived, Artifact, Unsaid
<1>2. QED BY <1>1 DEF AsDerived

(* A signature that is derived says something.                             *)
LEMMA DerivedSays == AsDerived # Nothing
<1>1. "action" \in DOMAIN Nothing /\ Nothing["action"] = "" BY FieldNames
<1>2. \A x, y : First(x, y, "manual_investigation") # "" BY DEF First
<1>3. Derived("action") # "" BY <1>2 DEF Derived
<1>4. AsDerived["action"] = Derived("action") BY <1>1 DEF AsDerived
<1>5. QED BY <1>1, <1>3, <1>4

(* A step that posts nothing and keeps the plan and the side of the run.   *)
LEMMA ArtifactsKept ==
  ASSUME ArtifactsRight, UNCHANGED <<raw, order>>, robot'.plan = robot.plan,
         \/ robot.stage \in Asking /\ robot'.stage \in Asking
         \/ robot.stage \in Committing /\ robot'.stage \in Committing
         \/ robot'.stage = robot.stage /\ robot'.next = robot.next
  PROVE  ArtifactsRight'
<1>1. Content' = Content BY DEF Content
<1>2. Triaged' = Triaged BY DEF Triaged
<1>3. Current' = Current \/ robot'.stage # "fill"
      BY DEF Asking, Committing, Current
<1>4. CASE robot'.stage = robot.stage /\ robot'.next = robot.next
      BY <1>1, <1>2, <1>4 DEF ArtifactsRight, Current
<1>5. CASE robot.stage \in Asking /\ robot'.stage \in Asking
      BY <1>5 DEF ArtifactsRight, Asking, Posting, Committing
<1>6. CASE robot.stage \in Committing /\ robot'.stage \in Committing
      BY <1>1, <1>2, <1>6 DEF ArtifactsRight, Asking, Posting, Committing
<1>7. QED BY <1>4, <1>5, <1>6

(* A step that derives nothing and leaves the thread with the job k.       *)
LEMMA DerivedKept ==
  ASSUME NEW j, NEW k, DerivedOnce(j), UNCHANGED <<raw, order, normalized, summary>>,
         robot.stage \in Committing => robot'.stage \in Committing,
         k.call = "commit" /\ k.stage # "derive" => j.call = "commit" /\ j.stage # "derive",
         k.stage = "derive" => k.next = 1,
         k.stage = "summarise" => FALSE
  PROVE  DerivedOnce(k)'
<1>1. AsDerived' = AsDerived BY DerivedSame
<1>2. \A i \in 1..5 : ~(i < 1) OBVIOUS
<1>3. QED BY <1>1, <1>2 DEF DerivedOnce

LEMMA AloneKept ==
  ASSUME SoloInv, NEW t \in Threads, \A u \in Threads : u # t => ~Busy(u),
         NEW k, job' = [job EXCEPT ![t] = k]
  PROVE  job'[t] = k /\ \A u \in Threads : u # t => ~Busy(u)'
BY TypeUnfolded DEF SoloInv, Busy

LEMMA CallsSolo ==
  ASSUME SoloInv, NEW t \in Threads, AskRoute(t) \/ CallCommit(t), ~overlapped'
  PROVE  Solo(t, job[t])'
<1>1. ~overlapped /\ \A u \in Threads : ~Busy(u)
      BY DEF AskRoute, CallCommit, Call
<1>2. PICK j : j = job[t] /\ j.call = "none" /\ Solo(t, j)
      BY <1>1, FreeThread DEF Busy
<1>3. PICK k : /\ job' = [job EXCEPT ![t] = k] /\ k.next = 1
               /\ AskRoute(t) => k.call = "route" /\ k.stage = "evaluate"
               /\ CallCommit(t) => k.call = "commit" /\ k.stage = "derive"
  <2>1. \A call, stage :
          /\ [NoJob EXCEPT !.call = call, !.stage = stage].call = call
          /\ [NoJob EXCEPT !.call = call, !.stage = stage].stage = stage
          /\ [NoJob EXCEPT !.call = call, !.stage = stage].next = 1
        BY DEF NoJob
  <2>2. ~(AskRoute(t) /\ CallCommit(t)) BY DEF AskRoute, CallCommit
  <2>3. CASE AskRoute(t)
    <3> DEFINE k == [NoJob EXCEPT !.call = "route", !.stage = "evaluate"]
    <3>1. job' = [job EXCEPT ![t] = k] BY <2>3 DEF AskRoute, Call
    <3>2. k.call = "route" /\ k.stage = "evaluate" /\ k.next = 1 BY <2>1
    <3>3. ~CallCommit(t) BY <2>2, <2>3
    <3> HIDE DEF k
    <3>4. QED BY <3>1, <3>2, <3>3
  <2>4. CASE CallCommit(t)
    <3> DEFINE k == [NoJob EXCEPT !.call = "commit", !.stage = "derive"]
    <3>1. job' = [job EXCEPT ![t] = k] BY <2>4 DEF CallCommit, Call
    <3>2. k.call = "commit" /\ k.stage = "derive" /\ k.next = 1 BY <2>1
    <3>3. ~AskRoute(t) BY <2>2, <2>4
    <3> HIDE DEF k
    <3>4. QED BY <3>1, <3>2, <3>3
  <2>5. QED BY <2>3, <2>4
<1>4. job'[t] = k /\ \A u \in Threads : u # t => ~Busy(u)' BY <1>1, <1>3, AloneKept
<1>5. /\ UNCHANGED <<order, decision, raw, normalized, summary>>
      /\ robot'.plan = robot.plan /\ robot'.thread = {t}
      /\ AskRoute(t) => robot.stage = "ask" /\ robot'.stage = "asking"
      /\ CallCommit(t) => robot.stage = "commit" /\ robot'.stage = "committing"
  <2>1. robot \in Robots BY TypeUnfolded DEF SoloInv
  <2>2. CASE AskRoute(t) BY <2>1, <2>2 DEF AskRoute, CallCommit, Robots
  <2>3. CASE CallCommit(t) BY <2>1, <2>3 DEF AskRoute, CallCommit, Robots
  <2>4. QED BY <2>2, <2>3
<1>6. Serves(t, k)' BY <1>3, <1>5 DEF Serves, Asking
<1>8. ArtifactsRight' BY <1>2, <1>5, ArtifactsKept DEF Solo, Asking, Committing
<1>9. DerivedOnce(k)' BY <1>2, <1>3, <1>5, DerivedKept DEF Solo, Committing
<1>10. QED BY <1>4, <1>6, <1>8, <1>9 DEF Solo

(* A call that ends when the registry cannot be read.                      *)
LEMMA EvaluateSolo ==
  ASSUME SoloInv, NEW t \in Threads, Evaluate(t), ~overlapped'
  PROVE  Solo(t, job[t])'
<1>1. PICK j \in Jobs : j = job[t] BY TypeUnfolded DEF SoloInv
<1>2. /\ j.stage = "evaluate" /\ ~overlapped
      /\ UNCHANGED <<order, decision, raw, normalized, summary>>
      BY <1>1 DEF Evaluate
<1>3. Solo(t, j) /\ JobShape(j) /\ robot \in Robots
      BY <1>1, <1>2, ActingThread, TypeUnfolded DEF SoloInv
<1>4. \/ /\ robot' = robot
         /\ \E k : job' = [job EXCEPT ![t] = k] /\ k.stage = "open" /\ k.call = j.call
      \/ /\ job' = [job EXCEPT ![t] = NoJob]
         /\ robot' = IF ~Awaited(t) THEN robot
                     ELSE [robot EXCEPT !.thread = {},
                             !.stage = IF j.call = "route" THEN "ask" ELSE "done"]
  <2>1. CASE job' = [job EXCEPT ![t].stage = "open", ![t].label = Evaluated(KeyOf(t))] /\ robot' = robot
    <3> DEFINE k == [j EXCEPT !.stage = "open", !.label = Evaluated(KeyOf(t))]
    <3>1. job' = [job EXCEPT ![t] = k] /\ k.stage = "open" /\ k.call = j.call
          BY <1>1, <2>1, TypeUnfolded DEF SoloInv, Jobs
    <3>2. QED BY <2>1, <3>1
  <2>2. QED BY <1>1, <2>1 DEF Evaluate
<1>5. CASE /\ robot' = robot
           /\ \E k : job' = [job EXCEPT ![t] = k] /\ k.stage = "open" /\ k.call = j.call
  <2>1. PICK k : job' = [job EXCEPT ![t] = k] /\ k.stage = "open" /\ k.call = j.call
        BY <1>5
  <2>2. job'[t] = k /\ \A u \in Threads : u # t => ~Busy(u)' BY <1>3, <2>1, AloneKept DEF Solo
  <2>3. k.call # "none" BY <1>2, <1>3, <2>1 DEF JobShape, Jobs
  <2>4. Serves(t, k)' BY <1>3, <1>5, <2>1 DEF Solo, Serves
  <2>6. ArtifactsRight' BY <1>2, <1>3, <1>5, ArtifactsKept DEF Solo
  <2>7. DerivedOnce(k)' BY <1>2, <1>3, <1>5, <2>1, DerivedKept DEF Solo
  <2>8. QED BY <2>2, <2>4, <2>6, <2>7 DEF Solo
<1>6. CASE /\ job' = [job EXCEPT ![t] = NoJob]
           /\ robot' = IF ~Awaited(t) THEN robot
                       ELSE [robot EXCEPT !.thread = {},
                               !.stage = IF j.call = "route" THEN "ask" ELSE "done"]
  <2>1. NoJob.call = "none" /\ NoJob.stage = "done" BY DEF NoJob
  <2>2. job'[t] = NoJob /\ \A u \in Threads : u # t => ~Busy(u)'
        BY <1>3, <1>6, AloneKept DEF Solo
  <2>3. /\ robot'.plan = robot.plan /\ robot'.thread = {}
        /\ j.call = "route" => robot.stage \in Asking /\ robot'.stage = "ask"
        /\ j.call = "commit" =>
             robot.stage \in {"commit", "committing"} /\ robot'.stage \in {"commit", "done"}
        /\ robot'.stage = "commit" => robot.stage = "commit"
    <3>1. Awaited(t) <=> robot.stage \in {"asking", "committing"} BY <1>3 DEF Solo, Serves, Awaited
    <3>2. j.call \in {"route", "commit"} BY <1>2, <1>3 DEF JobShape, Jobs
    <3>3. CASE Awaited(t) BY <1>3, <1>6, <3>1, <3>2, <3>3 DEF Solo, Serves, Asking, Robots
    <3>4. CASE ~Awaited(t) BY <1>3, <1>6, <3>1, <3>2, <3>4 DEF Solo, Serves, Asking, Robots
    <3>5. QED BY <3>3, <3>4
  <2>4. j.call \in {"route", "commit"} BY <1>2, <1>3 DEF JobShape, Jobs
  <2>5. Serves(t, NoJob)' BY <2>1, <2>3, <2>4 DEF Serves
  <2>8. ArtifactsRight'
    <3>1. \/ robot.stage \in Asking /\ robot'.stage \in Asking
          \/ robot.stage \in Committing /\ robot'.stage \in Committing
          BY <2>3, <2>4 DEF Asking, Committing
    <3>2. QED BY <1>2, <1>3, <2>3, <3>1, ArtifactsKept DEF Solo
  <2>9. DerivedOnce(NoJob)'
    <3>1. robot.stage \in Committing => robot'.stage \in Committing
          BY <2>3, <2>4 DEF Asking, Committing
    <3>2. QED BY <1>2, <1>3, <2>1, <3>1, DerivedKept DEF Solo
  <2>10. QED BY <2>2, <2>5, <2>8, <2>9 DEF Solo
<1>7. QED BY <1>4, <1>5, <1>6

LEMMA OpenDecisionSolo ==
  ASSUME SoloInv, NEW t \in Threads, OpenDecision(t), ~overlapped'
  PROVE  Solo(t, job[t])'
<1>1. PICK j \in Jobs : j = job[t] BY TypeUnfolded DEF SoloInv
<1>2. /\ j.stage = "open" /\ ~overlapped
      /\ UNCHANGED <<order, robot, raw, normalized, summary>>
      BY <1>1 DEF OpenDecision
<1>3. Solo(t, j) /\ JobShape(j) BY <1>1, <1>2, ActingThread DEF SoloInv
<1>4. PICK k : k = [j EXCEPT !.stage = "fill"] OBVIOUS
<1>5. job' = [job EXCEPT ![t] = k] /\ k.stage = "fill" /\ k.call = j.call
      BY <1>1, <1>4 DEF OpenDecision, Goes, Jobs
<1>6. job'[t] = k /\ \A u \in Threads : u # t => ~Busy(u)' BY <1>3, <1>5, AloneKept DEF Solo
<1>8. k.call # "none" BY <1>2, <1>3, <1>5 DEF JobShape, Jobs
<1>9. Serves(t, k)' BY <1>2, <1>3, <1>5 DEF Solo, Serves
<1>11. ArtifactsRight' BY <1>2, <1>3, ArtifactsKept DEF Solo
<1>12. DerivedOnce(k)' BY <1>2, <1>3, <1>5, DerivedKept DEF Solo
<1>13. QED BY <1>6, <1>9, <1>11, <1>12 DEF Solo

(* A route call goes on to its answer; a commit is over.                   *)
LEMMA FillDecisionSolo ==
  ASSUME SoloInv, NEW t \in Threads, FillDecision(t), ~overlapped'
  PROVE  Solo(t, job[t])'
<1>1. PICK j \in Jobs : j = job[t] BY TypeUnfolded DEF SoloInv
<1>2. /\ j.stage = "fill" /\ ~overlapped
      /\ UNCHANGED <<order, raw, normalized, summary>>
      BY <1>1 DEF FillDecision
<1>3. Solo(t, j) /\ JobShape(j) /\ robot \in Robots
      BY <1>1, <1>2, ActingThread, TypeUnfolded DEF SoloInv
<1>5. CASE j.call = "route"
  <2>1. robot' = robot /\ Goes(t, "answer") BY <1>1, <1>5 DEF FillDecision
  <2>2. PICK k : k = [j EXCEPT !.stage = "answer"] OBVIOUS
  <2>3. job' = [job EXCEPT ![t] = k] /\ k.stage = "answer" /\ k.call = j.call /\ k.label = j.label
        BY <1>1, <2>1, <2>2 DEF Goes, Jobs
  <2>4. job'[t] = k /\ \A u \in Threads : u # t => ~Busy(u)' BY <1>3, <2>3, AloneKept DEF Solo
  <2>5. Serves(t, k)' BY <1>3, <2>1, <2>3 DEF Solo, Serves
  <2>7. ArtifactsRight' BY <1>2, <1>3, <2>1, ArtifactsKept DEF Solo
  <2>8. DerivedOnce(k)' BY <1>2, <1>3, <2>1, <2>3, DerivedKept DEF Solo
  <2>9. QED BY <2>4, <2>5, <2>7, <2>8 DEF Solo
<1>6. CASE j.call = "commit"
  <2>1. /\ job' = [job EXCEPT ![t] = NoJob]
        /\ robot' = IF Awaited(t) THEN [robot EXCEPT !.stage = "done", !.thread = {}] ELSE robot
        BY <1>1, <1>6 DEF FillDecision
  <2>2. NoJob.call = "none" /\ NoJob.stage = "done" BY DEF NoJob
  <2>3. job'[t] = NoJob /\ \A u \in Threads : u # t => ~Busy(u)'
        BY <1>3, <2>1, AloneKept DEF Solo
  <2>4. /\ robot'.plan = robot.plan /\ robot'.thread = {}
        /\ robot.stage \in {"commit", "committing"} /\ robot'.stage \in {"commit", "done"}
    <3>1. /\ Awaited(t) <=> robot.stage \in {"asking", "committing"}
          /\ robot.stage \in {"commit", "committing"}
          BY <1>3, <1>6 DEF Solo, Serves, Awaited
    <3>2. CASE Awaited(t) BY <1>3, <2>1, <3>1, <3>2 DEF Robots
    <3>3. CASE ~Awaited(t) BY <1>3, <2>1, <3>1, <3>3 DEF Solo, Serves
    <3>4. QED BY <3>2, <3>3, <3>1
  <2>5. Serves(t, NoJob)' BY <2>2, <2>4 DEF Serves
  <2>8. ArtifactsRight' BY <1>2, <1>3, <2>4, ArtifactsKept DEF Solo, Committing
  <2>9. DerivedOnce(NoJob)' BY <1>2, <1>3, <2>2, <2>4, DerivedKept DEF Solo, Committing
  <2>10. QED BY <2>3, <2>5, <2>8, <2>9 DEF Solo
<1>7. QED BY <1>2, <1>3, <1>5, <1>6 DEF JobShape, Jobs

(* The robot gets its plan, asks again, or no longer listens.              *)
LEMMA AnswerSolo ==
  ASSUME SoloInv, NEW t \in Threads, AnswerRoute(t) \/ AgentRaises(t), ~overlapped'
  PROVE  Solo(t, job[t])'
<1>1. PICK j \in Jobs : j = job[t] BY TypeUnfolded DEF SoloInv
<1>2. /\ j.stage = "answer" /\ j.call = "route" /\ ~overlapped
      /\ UNCHANGED <<order, decision, raw, normalized, summary>>
      /\ job' = [job EXCEPT ![t] = NoJob]
  <2>1. CASE AnswerRoute(t) BY <1>1, <2>1 DEF AnswerRoute
  <2>2. CASE AgentRaises(t) BY <1>1, <2>2 DEF AgentRaises
  <2>3. QED BY <2>1, <2>2
<1>3. Solo(t, j) /\ robot \in Robots
      BY <1>1, <1>2, ActingThread, TypeUnfolded DEF SoloInv
<1>4. NoJob.call = "none" /\ NoJob.stage = "done" BY DEF NoJob
<1>5. job'[t] = NoJob /\ \A u \in Threads : u # t => ~Busy(u)'
      BY <1>2, <1>3, AloneKept DEF Solo
<1>6. robot.stage \in Asking /\ (Awaited(t) <=> robot.stage = "asking")
      BY <1>2, <1>3 DEF Solo, Serves, Asking, Awaited
<1>7. \/ robot'.stage = "ask" /\ robot'.thread = {} /\ robot'.plan = robot.plan
      \/ robot'.stage = "post" /\ robot'.thread = {} /\ robot'.plan.label = j.label
  <2>1. CASE ~Awaited(t)
        BY <1>3, <1>6, <2>1 DEF AnswerRoute, AgentRaises, Solo, Serves, Asking
  <2>2. CASE Awaited(t) /\ AgentRaises(t) BY <1>3, <2>2 DEF AgentRaises, Robots
  <2>3. CASE Awaited(t) /\ AnswerRoute(t)
    <3>1. PICK plan \in Plans(order, j.label) :
            robot' = [robot EXCEPT !.stage = "post", !.thread = {}, !.plan = plan]
          BY <1>1, <2>3 DEF AnswerRoute
    <3>2. plan.label = j.label BY <3>1, PlanShape
    <3>3. QED BY <1>3, <3>1, <3>2 DEF Robots
  <2>4. QED BY <2>1, <2>2, <2>3
<1>8. Serves(t, NoJob)' BY <1>4, <1>7 DEF Serves
<1>10. ArtifactsRight'
  <2>1. \A a \in ArtifactSet : ~Readable(raw[a]) BY <1>3, <1>6 DEF Solo, ArtifactsRight
  <2>2. QED BY <1>2, <1>7, <2>1 DEF ArtifactsRight, Asking, Posting, Committing
<1>11. DerivedOnce(NoJob)'
  <2>1. robot.stage \in Committing => robot'.stage \in Committing
        BY <1>6 DEF Asking, Committing
  <2>2. QED BY <1>2, <1>3, <1>4, <2>1, DerivedKept DEF Solo
<1>12. QED BY <1>5, <1>8, <1>10, <1>11 DEF Solo

(* Five derivations, each of an artifact that stays as it is, give the     *)
(* signature.                                                              *)
LEMMA DerivedField ==
  ASSUME NEW s \in Signature, NEW n \in 1..5,
         \A i \in 1..5 : i < n => s[Fields[i]] = Derived(Fields[i])
  PROVE  LET new == [s EXCEPT ![Fields[n]] = Derived(Fields[n])]
         IN  /\ \A i \in 1..5 : i < n + 1 => new[Fields[i]] = Derived(Fields[i])
             /\ n = 5 => new = AsDerived
<1> DEFINE new == [s EXCEPT ![Fields[n]] = Derived(Fields[n])]
<1>1. DOMAIN s = DOMAIN Nothing BY DEF Signature
<1>2. DOMAIN new = DOMAIN Nothing BY <1>1
<1>3. ASSUME NEW i \in 1..5, i < n + 1 PROVE new[Fields[i]] = Derived(Fields[i])
  <2>1. Fields[i] \in DOMAIN Nothing BY FieldNames
  <2>2. CASE Fields[i] = Fields[n] BY <1>1, <2>1, <2>2
  <2>3. CASE Fields[i] # Fields[n]
    <3>1. i < n BY <1>3, <2>3
    <3>2. QED BY <1>1, <2>1, <2>3, <3>1
  <2>4. QED BY <2>2, <2>3
<1>4. ASSUME n = 5 PROVE new = AsDerived
  <2>1. \A i \in 1..5 : new[Fields[i]] = Derived(Fields[i]) BY <1>3, <1>4
  <2>2. ASSUME NEW f \in DOMAIN Nothing PROVE new[f] = Derived(f)
    <3>1. PICK i \in 1..5 : f = Fields[i] BY FieldNames
    <3>2. QED BY <2>1, <3>1
  <2>3. new = [f \in DOMAIN Nothing |-> new[f]] BY <1>1
  <2>4. QED BY <2>2, <2>3 DEF AsDerived
<1>5. QED BY <1>3, <1>4

LEMMA DeriveSolo ==
  ASSUME SoloInv, NEW t \in Threads, Derive(t), ~overlapped'
  PROVE  Solo(t, job[t])'
<1>1. PICK j \in Jobs : j = job[t] BY TypeUnfolded DEF SoloInv
<1>2. /\ j.stage = "derive" /\ ~overlapped
      /\ UNCHANGED <<order, decision, robot, raw, summary>>
      BY <1>1 DEF Derive
<1>3. Solo(t, j) /\ JobShape(j) BY <1>1, <1>2, ActingThread DEF SoloInv
<1>4. j.call = "commit" /\ robot.stage \in {"commit", "committing"}
      BY <1>2, <1>3 DEF JobShape, Jobs, Solo, Serves
<1>5. PICK n \in 1..5 : n = j.next BY <1>1, FieldNames DEF Jobs
<1>6. PICK found : found = [j.found EXCEPT ![Fields[n]] = Derived(Fields[n])] OBVIOUS
<1>7. /\ \A i \in 1..5 : i < n + 1 => found[Fields[i]] = Derived(Fields[i])
      /\ n = 5 => found = AsDerived
  <2>1. \A i \in 1..5 : i < n => j.found[Fields[i]] = Derived(Fields[i])
        BY <1>2, <1>3, <1>5 DEF Solo, DerivedOnce
  <2>2. j.found \in Signature BY DEF Jobs
  <2>3. QED BY <1>6, <2>1, <2>2, DerivedField
<1>8. PICK k : /\ job' = [job EXCEPT ![t] = k]
               /\ k.call = "commit" /\ k.found = found
               /\ n < 5 => k.stage = "derive" /\ k.next = n + 1
               /\ n = 5 => k.stage = "summarise" /\ k.next = 1
  <2> DEFINE k == [j EXCEPT !.found = found, !.next = IF n < 5 THEN n + 1 ELSE 1,
                            !.stage = IF n < 5 THEN "derive" ELSE "summarise"]
  <2>1. job' = [job EXCEPT ![t] = k]
    <3>1. job \in [Threads -> Jobs] BY TypeUnfolded DEF SoloInv
    <3>2. j.next = n /\ (j.next < Len(Fields) <=> n < 5) BY <1>5, FieldNames
    <3>3. job[t] = j BY <1>1
    <3>4. QED BY <1>6, <3>1, <3>2, <3>3 DEF Derive, Jobs
  <2>2. k.call = "commit" /\ k.found = found /\ k.next = (IF n < 5 THEN n + 1 ELSE 1)
        /\ k.stage = (IF n < 5 THEN "derive" ELSE "summarise")
        BY <1>1, <1>4 DEF Jobs
  <2> HIDE DEF k
  <2>3. n < 5 => k.stage = "derive" /\ k.next = n + 1 BY <2>2
  <2>4. n = 5 => k.stage = "summarise" /\ k.next = 1 BY <2>2
  <2>5. QED BY <2>1, <2>2, <2>3, <2>4
<1>9. normalized' = IF n < 5 THEN normalized ELSE AsDerived
  <2>1. normalized' = IF n < 5 THEN normalized ELSE found
        BY <1>1, <1>5, <1>6, FieldNames DEF Derive
  <2>2. CASE n < 5 BY <2>1, <2>2
  <2>3. CASE n = 5 BY <1>7, <2>1, <2>3
  <2>4. QED BY <2>2, <2>3
<1>10. job'[t] = k /\ \A u \in Threads : u # t => ~Busy(u)' BY <1>3, <1>8, AloneKept DEF Solo
<1>11. Serves(t, k)' BY <1>2, <1>3, <1>4, <1>8 DEF Solo, Serves
<1>13. ArtifactsRight' BY <1>2, <1>3, ArtifactsKept DEF Solo
<1>14. DerivedOnce(k)'
  <2>1. (\A f : Derived(f)' = Derived(f)) /\ AsDerived' = AsDerived BY <1>2, DerivedSame
  <2>2. robot'.stage \in Committing BY <1>2, <1>4 DEF Committing
  <2>3. normalized \in {Nothing, AsDerived} /\ summary \in {Nothing, AsDerived}
        /\ (summary # Nothing => normalized # Nothing)
        BY <1>3 DEF Solo, DerivedOnce
  <2>4. CASE n < 5
    <3>1. k.stage = "derive" /\ k.next = n + 1 /\ normalized' = normalized BY <1>8, <1>9, <2>4
    <3>2. \A i \in 1..5 : i < k.next => k.found[Fields[i]] = Derived(Fields[i])'
          BY <1>7, <1>8, <2>1, <3>1
    <3>3. QED BY <1>2, <2>1, <2>2, <2>3, <3>1, <3>2 DEF DerivedOnce
  <2>5. CASE n = 5
    <3>1. k.stage = "summarise" /\ k.next = 1 /\ normalized' = AsDerived BY <1>8, <1>9, <2>5
    <3>2. \A i \in 1..5 : ~(i < k.next) BY <3>1
    <3>3. QED BY <1>2, <2>1, <2>2, <2>3, <3>1, <3>2, DerivedSays DEF DerivedOnce
  <2>6. QED BY <2>4, <2>5
<1>15. QED BY <1>10, <1>11, <1>13, <1>14 DEF Solo

LEMMA SummariseSolo ==
  ASSUME SoloInv, NEW t \in Threads, Summarise(t), ~overlapped'
  PROVE  Solo(t, job[t])'
<1>1. PICK j \in Jobs : j = job[t] BY TypeUnfolded DEF SoloInv
<1>2. /\ j.stage = "summarise" /\ ~overlapped
      /\ UNCHANGED <<order, decision, robot, raw, normalized>>
      BY <1>1 DEF Summarise
<1>3. Solo(t, j) /\ JobShape(j) BY <1>1, <1>2, ActingThread DEF SoloInv
<1>4. j.call = "commit" /\ robot.stage \in {"commit", "committing"} /\ normalized # Nothing
      BY <1>2, <1>3 DEF JobShape, Jobs, Solo, Serves, DerivedOnce
<1>5. PICK n \in 1..5 : n = j.next BY <1>1, FieldNames DEF Jobs
<1>6. PICK again : again = [j.again EXCEPT ![Fields[n]] = Derived(Fields[n])] OBVIOUS
<1>7. /\ \A i \in 1..5 : i < n + 1 => again[Fields[i]] = Derived(Fields[i])
      /\ n = 5 => again = AsDerived
  <2>1. \A i \in 1..5 : i < n => j.again[Fields[i]] = Derived(Fields[i])
        BY <1>2, <1>3, <1>5 DEF Solo, DerivedOnce
  <2>2. j.again \in Signature BY DEF Jobs
  <2>3. QED BY <1>6, <2>1, <2>2, DerivedField
<1>8. PICK k : /\ job' = [job EXCEPT ![t] = k]
               /\ k.call = "commit" /\ k.again = again
               /\ n < 5 => k.stage = "summarise" /\ k.next = n + 1
               /\ n = 5 => k.stage = "count" /\ k.next = 1
  <2> DEFINE k == [j EXCEPT !.again = again, !.next = IF n < 5 THEN n + 1 ELSE 1,
                            !.stage = IF n < 5 THEN "summarise" ELSE "count"]
  <2>1. job' = [job EXCEPT ![t] = k]
    <3>1. job \in [Threads -> Jobs] BY TypeUnfolded DEF SoloInv
    <3>2. j.next = n /\ (j.next < Len(Fields) <=> n < 5) BY <1>5, FieldNames
    <3>3. job[t] = j BY <1>1
    <3>4. QED BY <1>6, <3>1, <3>2, <3>3 DEF Summarise, Jobs
  <2>2. k.call = "commit" /\ k.again = again /\ k.next = (IF n < 5 THEN n + 1 ELSE 1)
        /\ k.stage = (IF n < 5 THEN "summarise" ELSE "count")
        BY <1>1, <1>4 DEF Jobs
  <2> HIDE DEF k
  <2>3. n < 5 => k.stage = "summarise" /\ k.next = n + 1 BY <2>2
  <2>4. n = 5 => k.stage = "count" /\ k.next = 1 BY <2>2
  <2>5. QED BY <2>1, <2>2, <2>3, <2>4
<1>9. summary' = IF n < 5 THEN summary ELSE AsDerived
  <2>1. summary' = IF n < 5 THEN summary ELSE again
        BY <1>1, <1>5, <1>6, FieldNames DEF Summarise
  <2>2. CASE n < 5 BY <2>1, <2>2
  <2>3. CASE n = 5 BY <1>7, <2>1, <2>3
  <2>4. QED BY <2>2, <2>3
<1>10. job'[t] = k /\ \A u \in Threads : u # t => ~Busy(u)' BY <1>3, <1>8, AloneKept DEF Solo
<1>11. Serves(t, k)' BY <1>2, <1>3, <1>4, <1>8 DEF Solo, Serves
<1>13. ArtifactsRight' BY <1>2, <1>3, ArtifactsKept DEF Solo
<1>14. DerivedOnce(k)'
  <2>1. (\A f : Derived(f)' = Derived(f)) /\ AsDerived' = AsDerived BY <1>2, DerivedSame
  <2>2. robot'.stage \in Committing BY <1>2, <1>4 DEF Committing
  <2>3. normalized \in {Nothing, AsDerived} /\ summary' \in {Nothing, AsDerived}
        BY <1>3, <1>9 DEF Solo, DerivedOnce
  <2>4. normalized' # Nothing /\ k.stage \in {"summarise", "count"} BY <1>2, <1>4, <1>8
  <2>5. k.stage = "summarise" =>
          \A i \in 1..5 : i < k.next => k.again[Fields[i]] = Derived(Fields[i])'
        BY <1>7, <1>8, <2>1
  <2>6. QED BY <1>2, <2>1, <2>2, <2>3, <2>4, <2>5 DEF DerivedOnce
<1>15. QED BY <1>10, <1>11, <1>13, <1>14 DEF Solo

LEMMA CountRunSolo ==
  ASSUME SoloInv, NEW t \in Threads, CountRun(t), ~overlapped'
  PROVE  Solo(t, job[t])'
<1>1. PICK j \in Jobs : j = job[t] BY TypeUnfolded DEF SoloInv
<1>2. /\ j.stage = "count" /\ ~overlapped
      /\ UNCHANGED <<order, decision, robot, raw, normalized, summary>>
      BY <1>1 DEF CountRun
<1>3. Solo(t, j) /\ JobShape(j) BY <1>1, <1>2, ActingThread DEF SoloInv
<1>4. PICK k : k = [j EXCEPT !.stage = "evaluate"] OBVIOUS
<1>5. job' = [job EXCEPT ![t] = k] /\ k.stage = "evaluate" /\ k.call = j.call
      BY <1>1, <1>4 DEF CountRun, Goes, Jobs
<1>6. job'[t] = k /\ \A u \in Threads : u # t => ~Busy(u)' BY <1>3, <1>5, AloneKept DEF Solo
<1>7. k.call = "commit" BY <1>2, <1>3, <1>5 DEF JobShape, Jobs
<1>8. Serves(t, k)' BY <1>2, <1>3, <1>5 DEF Solo, Serves
<1>10. ArtifactsRight' BY <1>2, <1>3, ArtifactsKept DEF Solo
<1>11. DerivedOnce(k)' BY <1>2, <1>3, <1>5, DerivedKept DEF Solo
<1>12. QED BY <1>6, <1>8, <1>10, <1>11 DEF Solo

(* The robot's own steps, with no call running but one it has given up.    *)
LEMMA GivesUpSolo ==
  ASSUME SoloInv, GivesUpWaiting, NEW t \in Threads, Solo(t, job[t])
  PROVE  Solo(t, job[t])'
<1>1. UNCHANGED <<order, decision, raw, normalized, summary, job>> BY DEF GivesUpWaiting
<1>2. PICK j : j = job[t] /\ j = job'[t] BY <1>1
<1>3. /\ robot'.plan = robot.plan /\ robot'.thread = {}
      /\ \/ robot.stage = "asking" /\ robot'.stage = "ask"
         \/ robot.stage = "committing" /\ robot'.stage = "commit"
      BY TypeUnfolded DEF GivesUpWaiting, SoloInv, Robots
<1>4. Serves(t, j)' BY <1>2, <1>3 DEF Solo, Serves, Asking
<1>6. ArtifactsRight' BY <1>1, <1>3, ArtifactsKept DEF Solo, Asking, Committing
<1>7. DerivedOnce(j)'
  <2>1. AsDerived' = AsDerived /\ \A f : Derived(f)' = Derived(f) BY <1>1, DerivedSame
  <2>2. robot.stage \in Committing => robot'.stage \in Committing BY <1>3 DEF Committing
  <2>3. DerivedOnce(j) BY <1>2 DEF Solo
  <2>4. QED BY <1>1, <2>1, <2>2, <2>3 DEF DerivedOnce
<1>8. QED BY <1>1, <1>2, <1>4, <1>6, <1>7 DEF Solo, Busy

LEMMA PostSolo ==
  ASSUME SoloInv, OpenArtifact \/ FillArtifact \/ SkipArtifact,
         NEW t \in Threads, Solo(t, job[t])
  PROVE  Solo(t, job[t])'
<1>1. UNCHANGED <<order, decision, normalized, summary, job>>
      BY DEF OpenArtifact, FillArtifact, SkipArtifact
<1>2. PICK j : j = job[t] /\ j = job'[t] BY <1>1
<1>3. robot \in Robots /\ raw \in [ArtifactSet -> File(Signature)]
      BY TypeUnfolded DEF SoloInv
<1>4. /\ robot.stage \in Posting /\ robot'.stage \in Posting \cup {"commit"}
      /\ robot'.plan = robot.plan /\ robot'.thread = robot.thread
      /\ robot'.stage = "fill" => OpenArtifact /\ robot'.next = robot.next
  <2>1. CASE OpenArtifact BY <1>3, <2>1 DEF OpenArtifact, Posting, Robots
  <2>2. CASE FillArtifact \/ SkipArtifact
    <3>1. robot' = NextArtifact /\ robot.stage \in Posting
          BY <2>2 DEF FillArtifact, SkipArtifact, Posting
    <3>2. /\ NextArtifact.stage \in {"post", "commit"}
          /\ NextArtifact.plan = robot.plan /\ NextArtifact.thread = robot.thread
          BY <1>3 DEF NextArtifact, Robots
    <3>3. QED BY <3>1, <3>2 DEF Posting
  <2>3. QED BY <2>1, <2>2
<1>5. j.call = "none" /\ robot.thread = {} /\ j.stage = "done"
  <2>1. Serves(t, j) /\ JobShape(j) /\ j \in Jobs
        BY <1>2, TypeUnfolded DEF Solo, SoloInv
  <2>2. j.call = "none" BY <1>4, <2>1 DEF Serves, Asking, Posting, Jobs
  <2>3. QED BY <1>4, <2>1, <2>2 DEF Serves, Posting, JobShape
<1>6. Serves(t, j)' BY <1>4, <1>5 DEF Serves, Posting
<1>8. DerivedOnce(j)'
  <2>1. normalized = Nothing /\ summary = Nothing
        BY <1>2, <1>4 DEF Solo, DerivedOnce, Posting, Committing
  <2>2. QED BY <1>1, <1>5, <2>1 DEF DerivedOnce
<1>9. Content' = Content /\ Triaged' = Triaged BY <1>1, <1>4 DEF Content, Triaged
<1>10. Current \in ArtifactSet BY <1>3, ArtifactNames DEF Current, Robots
<1>11. \A a \in ArtifactSet : Readable(raw'[a]) =>
         raw'[a].content = Content[a] /\ (a = "triage" => Triaged)
  <2>1. \A a \in ArtifactSet : Readable(raw[a]) =>
          raw[a].content = Content[a] /\ (a = "triage" => Triaged)
        BY <1>4 DEF Solo, ArtifactsRight
  <2>2. CASE OpenArtifact
    <3>1. raw' = [raw EXCEPT ![Current] = Truncated(raw[Current])] BY <2>2 DEF OpenArtifact
    <3>2. ~Readable(Truncated(raw[Current])) BY <1>3, <1>10 DEF Truncated, Readable, File
    <3>3. QED BY <1>3, <1>10, <2>1, <3>1, <3>2
  <2>3. CASE FillArtifact
    <3>1. raw[Current].state = "empty" /\ (Current = "triage" => Triaged)
          BY <2>3 DEF Solo, ArtifactsRight, FillArtifact
    <3>2. Written(raw[Current], Content[Current], Nothing) = {WholeFile(Content[Current])}
          BY <3>1 DEF Written
    <3>3. raw' = [raw EXCEPT ![Current] = WholeFile(Content[Current])]
          BY <2>3, <3>2 DEF FillArtifact
    <3>4. WholeFile(Content[Current]).content = Content[Current] BY DEF WholeFile
    <3>5. QED BY <1>3, <1>10, <2>1, <3>1, <3>3, <3>4
  <2>4. CASE SkipArtifact BY <2>1, <2>4 DEF SkipArtifact
  <2>5. QED BY <2>2, <2>3, <2>4
<1>12. ArtifactsRight'
  <2>1. ASSUME robot'.stage = "fill"
        PROVE  raw'[Current'].state = "empty" /\ (Current' = "triage" => Triaged')
    <3>1. OpenArtifact /\ Current' = Current BY <1>4, <2>1 DEF Current
    <3>2. raw' = [raw EXCEPT ![Current] = Truncated(raw[Current])]
          BY <3>1 DEF OpenArtifact
    <3>3. Truncated(raw[Current]).state = "empty" BY <1>3, <1>10 DEF Truncated, File
    <3>4. raw'[Current].state = "empty" BY <1>3, <1>10, <3>2, <3>3
    <3>5. QED BY <1>9, <3>1, <3>4 DEF OpenArtifact
  <2>2. robot'.stage \notin Asking BY <1>4 DEF Asking, Posting
  <2>3. QED BY <1>9, <1>11, <2>1, <2>2 DEF ArtifactsRight
<1>13. QED BY <1>1, <1>2, <1>6, <1>8, <1>12 DEF Solo, Busy

LEMMA SoloKept ==
  ASSUME UNCHANGED <<order, decision, robot, raw, normalized, summary, job>>,
         NEW t \in Threads, Solo(t, job[t])
  PROVE  Solo(t, job[t])'
<1>1. PICK j : j = job[t] /\ j = job'[t] OBVIOUS
<1>2. Solo(t, j) BY <1>1
<1>3. Serves(t, j)' BY <1>2 DEF Solo, Serves
<1>5. ArtifactsRight' BY <1>2, ArtifactsKept DEF Solo
<1>6. DerivedOnce(j)' BY <1>2, DerivedSame DEF Solo, DerivedOnce
<1>7. QED BY <1>1, <1>2, <1>3, <1>5, <1>6 DEF Solo, Busy

LEMMA ShapeKept ==
  ASSUME SoloInv, NEW t \in Threads,
         \/ AskRoute(t) \/ Evaluate(t) \/ OpenDecision(t) \/ FillDecision(t)
         \/ AnswerRoute(t) \/ AgentRaises(t)
         \/ CallCommit(t) \/ Derive(t) \/ Summarise(t) \/ CountRun(t)
  PROVE  \A u \in Threads : JobShape(job[u])'
<1>1. PICK j \in Jobs : j = job[t] /\ JobShape(j) BY TypeUnfolded DEF SoloInv
<1>2. JobShape(NoJob) BY DEF JobShape, NoJob
<1>3. ASSUME NEW k, job' = [job EXCEPT ![t] = k], JobShape(k)
      PROVE  \A u \in Threads : JobShape(job[u])'
  <2>1. \A u \in Threads : job'[u] = k \/ job'[u] = job[u]
        BY <1>3, TypeUnfolded DEF SoloInv
  <2>2. QED BY <1>3, <2>1 DEF SoloInv, JobShape
<1>4. ASSUME NEW stage, Goes(t, stage), JobShape([j EXCEPT !.stage = stage])
      PROVE  \A u \in Threads : JobShape(job[u])'
  <2>1. job' = [job EXCEPT ![t] = [j EXCEPT !.stage = stage]] BY <1>1, <1>4 DEF Goes
  <2>2. QED BY <1>3, <1>4, <2>1
<1>5. CASE AskRoute(t) \/ CallCommit(t)
  <2>1. /\ JobShape([NoJob EXCEPT !.call = "route", !.stage = "evaluate"])
        /\ JobShape([NoJob EXCEPT !.call = "commit", !.stage = "derive"])
        BY DEF JobShape, NoJob
  <2>2. QED BY <1>3, <1>5, <2>1 DEF AskRoute, CallCommit, Call
<1>6. CASE Evaluate(t)
  <2> DEFINE k == [j EXCEPT !.stage = "open", !.label = Evaluated(KeyOf(t))]
  <2>1. j.stage = "evaluate" BY <1>1, <1>6 DEF Evaluate
  <2>2. JobShape(k) BY <1>1, <2>1 DEF JobShape, Jobs
  <2>3. job' = [job EXCEPT ![t] = k] \/ job' = [job EXCEPT ![t] = NoJob]
        BY <1>1, <1>6, TypeUnfolded DEF Evaluate, SoloInv
  <2> HIDE DEF k
  <2>4. QED BY <1>2, <1>3, <2>2, <2>3
<1>7. CASE OpenDecision(t)
  <2>1. JobShape([j EXCEPT !.stage = "fill"]) BY <1>1, <1>7 DEF JobShape, Jobs, OpenDecision
  <2>2. QED BY <1>4, <1>7, <2>1 DEF OpenDecision
<1>8. CASE FillDecision(t)
  <2>1. j.call = "route" => JobShape([j EXCEPT !.stage = "answer"])
        BY <1>1 DEF JobShape, Jobs
  <2>2. QED BY <1>1, <1>2, <1>3, <1>4, <1>8, <2>1 DEF FillDecision
<1>9. CASE AnswerRoute(t) \/ AgentRaises(t)
      BY <1>2, <1>3, <1>9 DEF AnswerRoute, AgentRaises
<1>10. CASE Derive(t)
  <2> DEFINE found == [j.found EXCEPT ![Fields[j.next]] = Derived(Fields[j.next])]
             k == [j EXCEPT !.found = found,
                     !.next = IF j.next < Len(Fields) THEN j.next + 1 ELSE 1,
                     !.stage = IF j.next < Len(Fields) THEN "derive" ELSE "summarise"]
  <2>1. job' = [job EXCEPT ![t] = k] BY <1>1, <1>10, TypeUnfolded DEF Derive, SoloInv
  <2>2. j.call = "commit" BY <1>1, <1>10 DEF Derive, JobShape, Jobs
  <2>3. k.call = j.call /\ k.stage \in {"derive", "summarise"} BY <1>1 DEF Jobs
  <2> HIDE DEF k
  <2>4. JobShape(k) BY <2>2, <2>3 DEF JobShape
  <2>5. QED BY <1>3, <2>1, <2>4
<1>11. CASE Summarise(t)
  <2> DEFINE again == [j.again EXCEPT ![Fields[j.next]] = Derived(Fields[j.next])]
             k == [j EXCEPT !.again = again,
                     !.next = IF j.next < Len(Fields) THEN j.next + 1 ELSE 1,
                     !.stage = IF j.next < Len(Fields) THEN "summarise" ELSE "count"]
  <2>1. job' = [job EXCEPT ![t] = k] BY <1>1, <1>11, TypeUnfolded DEF Summarise, SoloInv
  <2>2. j.call = "commit" BY <1>1, <1>11 DEF Summarise, JobShape, Jobs
  <2>3. k.call = j.call /\ k.stage \in {"summarise", "count"} BY <1>1 DEF Jobs
  <2> HIDE DEF k
  <2>4. JobShape(k) BY <2>2, <2>3 DEF JobShape
  <2>5. QED BY <1>3, <2>1, <2>4
<1>12. CASE CountRun(t)
  <2>1. JobShape([j EXCEPT !.stage = "evaluate"]) BY <1>1, <1>12 DEF JobShape, Jobs, CountRun
  <2>2. QED BY <1>4, <1>12, <2>1 DEF CountRun
<1>13. QED BY <1>5, <1>6, <1>7, <1>8, <1>9, <1>10, <1>11, <1>12

LEMMA SoloStep == SoloInv /\ [RoutedNext]_routedVars => SoloInv'
<1> SUFFICES ASSUME SoloInv, [RoutedNext]_routedVars PROVE SoloInv'
    OBVIOUS
<1>1. RoutedTypeOK' BY TypePreserved DEF SoloInv
<1>2. ASSUME NEW t \in Threads,
             \/ AskRoute(t) \/ Evaluate(t) \/ OpenDecision(t) \/ FillDecision(t)
             \/ AnswerRoute(t) \/ AgentRaises(t)
             \/ CallCommit(t) \/ Derive(t) \/ Summarise(t) \/ CountRun(t)
      PROVE  SoloInv'
  <2>1. \A u \in Threads : JobShape(job[u])' BY <1>2, ShapeKept
  <2>2. ASSUME ~overlapped' PROVE Solo(t, job[t])'
        BY <1>2, <2>2, CallsSolo, EvaluateSolo, OpenDecisionSolo, FillDecisionSolo,
           AnswerSolo, DeriveSolo, SummariseSolo, CountRunSolo
  <2>3. QED BY <1>1, <2>1, <2>2 DEF SoloInv
<1>3. CASE \/ GivesUpWaiting \/ OpenArtifact \/ FillArtifact \/ SkipArtifact
           \/ ValidationPasses \/ OtherRun \/ UNCHANGED routedVars
  <2>1. job' = job /\ overlapped' = overlapped
        BY <1>3 DEF GivesUpWaiting, OpenArtifact, FillArtifact, SkipArtifact,
                    ValidationPasses, OtherRun, routedVars
  <2>2. \A u \in Threads : JobShape(job[u])' BY <2>1 DEF SoloInv, JobShape
  <2>3. ASSUME ~overlapped' PROVE \E t \in Threads : Solo(t, job[t])'
    <3>1. PICK t \in Threads : Solo(t, job[t]) BY <2>1, <2>3 DEF SoloInv
    <3>2. CASE GivesUpWaiting BY <3>1, <3>2, GivesUpSolo
    <3>3. CASE OpenArtifact \/ FillArtifact \/ SkipArtifact BY <3>1, <3>3, PostSolo
    <3>4. CASE ValidationPasses \/ OtherRun \/ UNCHANGED routedVars
          BY <3>1, <3>4, SoloKept DEF ValidationPasses, OtherRun, routedVars
    <3>5. QED BY <1>3, <3>2, <3>3, <3>4
  <2>4. QED BY <1>1, <2>2, <2>3 DEF SoloInv
<1>4. QED BY <1>2, <1>3 DEF RoutedNext

LEMMA SoloHolds == RoutedSpec => []SoloInv
BY SoloInit, SoloStep, PTL DEF RoutedSpec

(* What a run is counted under is what its robot followed.                 *)
THEOREM RunsCountAsPlanned == RoutedSpec => []CountedAsPlanned
<1>1. SoloInv => CountedAsPlanned
  <2> SUFFICES ASSUME SoloInv, ~overlapped PROVE CountedAsPlanned
      BY DEF CountedAsPlanned
  <2>1. PICK t \in Threads : Solo(t, job[t]) BY DEF SoloInv
  <2>2. summary # Nothing => summary = normalized BY <2>1 DEF Solo, DerivedOnce
  <2>3. ASSUME normalized # Nothing, Readable(raw["plan"])
        PROVE  /\ normalized["exception"] = Detected(order)
               /\ normalized["route"] = robot.plan.route
               /\ normalized["policy"] = robot.plan.policy
               /\ normalized["effect"] \in {"", ErpAction(robot.plan.route)}
    <3>1. normalized = AsDerived /\ robot.stage \in Committing
          BY <2>1, <2>3 DEF Solo, DerivedOnce
    <3>2. \A a \in ArtifactSet : Readable(raw[a]) =>
            raw[a].content = Content[a] /\ (a = "triage" => Triaged)
          BY <2>1, <3>1 DEF Solo, ArtifactsRight
    <3>3. /\ \A f \in DOMAIN Nothing : Nothing[f] = ""
          /\ DOMAIN Nothing = {"action", "exception", "effect", "route", "policy"}
          BY FieldNames
    <3>4. /\ Content["plan"] = [Nothing EXCEPT !["action"] = ActionOf(order),
                                  !["exception"] = Detected(order),
                                  !["route"] = robot.plan.route,
                                  !["policy"] = robot.plan.policy]
          /\ Content["policy"] = [Nothing EXCEPT !["policy"] = robot.plan.policy]
          /\ Content["action"] = [Nothing EXCEPT !["effect"] = ErpAction(robot.plan.route)]
          /\ Content["triage"] = [Nothing EXCEPT !["action"] = TriageAction[Classified(order)],
                                    !["exception"] = Classified(order),
                                    !["route"] = StageOf[Classified(order)]]
          BY ArtifactNames DEF Content, ArtifactSet
    <3>5. /\ Artifact("plan") = Content["plan"]
          /\ Artifact("policy") \in {Nothing, Content["policy"]}
          /\ Artifact("action") \in {Nothing, Content["action"]}
          /\ Artifact("triage") = Nothing \/ (Triaged /\ Artifact("triage") = Content["triage"])
      <4>1. /\ "plan" \in ArtifactSet /\ "policy" \in ArtifactSet
            /\ "action" \in ArtifactSet /\ "triage" \in ArtifactSet
            BY ArtifactNames
      <4>2. Artifact("plan") = Content["plan"] BY <2>3, <3>2, <4>1 DEF Artifact, Load
      <4>3. Artifact("policy") \in {Nothing, Content["policy"]}
            BY <3>2, <4>1 DEF Artifact, Load
      <4>4. Artifact("action") \in {Nothing, Content["action"]}
            BY <3>2, <4>1 DEF Artifact, Load
      <4>5. Artifact("triage") = Nothing \/ (Triaged /\ Artifact("triage") = Content["triage"])
            BY <3>2, <4>1 DEF Artifact, Load
      <4>6. QED BY <4>2, <4>3, <4>4, <4>5
    <3>6. /\ robot.plan.route # "" /\ robot.plan.policy # "" /\ Detected(order) # ""
      <4>1. /\ robot.plan.route \in Routes \cup {"none"}
            /\ robot.plan.policy \in Policies \cup {"none"}
            BY DEF SoloInv, RoutedTypeOK, Plan
      <4>2. "" \notin Routes /\ "" \notin Policies /\ "" \notin Exceptions
            BY DEF Routes, ModelRoutes, Policies, Exceptions
      <4>3. QED BY <4>1, <4>2, DetectedTyped
    <3>7. /\ Artifact("plan")["exception"] = Detected(order)
          /\ Artifact("plan")["route"] = robot.plan.route
          /\ Artifact("plan")["policy"] = robot.plan.policy
      <4>1. /\ Content["plan"]["exception"] = Detected(order)
            /\ Content["plan"]["route"] = robot.plan.route
            /\ Content["plan"]["policy"] = robot.plan.policy
            BY <3>3, <3>4
      <4>2. QED BY <3>5, <4>1
    <3>8. Derived("route") = robot.plan.route BY <3>6, <3>7 DEF Derived, First
    <3>9. Derived("policy") = robot.plan.policy
      <4>1. Artifact("policy")["policy"] \in {"", robot.plan.policy}
        <5>1. Nothing["policy"] = "" BY <3>3
        <5>2. Content["policy"]["policy"] = robot.plan.policy BY <3>3, <3>4
        <5>3. QED BY <3>5, <5>1, <5>2
      <4>2. QED BY <3>6, <3>7, <4>1 DEF Derived, First
    <3>10. Derived("exception") = Detected(order)
      <4>1. Artifact("triage")["exception"] \in {"", Detected(order)}
        <5>1. Triaged => Detected(order) = Classified(order) BY DEF Triaged, Detected
        <5>2. Nothing["exception"] = "" BY <3>3
        <5>3. Content["triage"]["exception"] = Classified(order) BY <3>3, <3>4
        <5>4. QED BY <3>5, <5>1, <5>2, <5>3
      <4>2. QED BY <3>6, <3>7, <4>1 DEF Derived, First
    <3>11. Derived("effect") \in {"", ErpAction(robot.plan.route)}
      <4>1. Content["action"]["effect"] = ErpAction(robot.plan.route) BY <3>3, <3>4
      <4>2. Nothing["effect"] = "" BY <3>3
      <4>3. CASE Artifact("action") = Nothing BY <4>2, <4>3 DEF Derived
      <4>4. CASE Artifact("action") = Content["action"] BY <4>1, <4>4 DEF Derived
      <4>5. QED BY <3>5, <4>3, <4>4
    <3>12. QED BY <3>1, <3>3, <3>8, <3>9, <3>10, <3>11 DEF AsDerived
  <2>4. QED BY <2>2, <2>3 DEF CountedAsPlanned
<1>2. QED BY <1>1, SoloHolds, PTL

=============================================================================
