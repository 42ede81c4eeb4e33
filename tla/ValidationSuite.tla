--------------------------- MODULE ValidationSuite ---------------------------
(***************************************************************************)
(* The validation suite (validation-suite/app/main.py) and the memory it   *)
(* keeps: a validation that passes writes the artifacts of CASE-001 and    *)
(* the older registry, capability_registry.json (memory/repository.py),    *)
(* and then the event and the two entries of capabilities.json.            *)
(*                                                                         *)
(* Two registries therefore say which capability is trusted. The older one *)
(* decides /capability-registry/check and the evolution rules; the newer   *)
(* one is what triage looks up.                                            *)
(*                                                                         *)
(* Abstracted: the artifacts of CASE-001 no code decides by (case state,   *)
(* agent decision, approval, trace, validation result); the checks         *)
(* themselves, which pass unless simulate_failure is asked for.            *)
(***************************************************************************)
EXTENDS ThreadPool, AutomationMemory

CONSTANT TimelineLength  \* events of CASE_001_TIMELINE (8 in the code)

ASSUME TimelineAssumption == TimelineLength \in Nat \ {0}

VARIABLES
  timeline,   \* case_timeline_CASE-001.json
  registry,   \* capability_registry.json: TRUE when it names the API tool
  validation, \* per pool thread: the validation it is running
  disturbed,  \* history: two validations have overlapped, an insert has
              \* failed, or a restart has cut one off
  alone,      \* history, per pool thread: nothing ran beside its validation
  settled     \* history: the last validation that wrote anything passed and ran
              \* alone, to its end

history   == <<disturbed, alone, settled>>
suiteVars == <<timeline, registry, validation, disturbed, alone, settled>>

TimelineStages == {"read_timeline", "open_timeline", "fill_timeline"}

Stages == TimelineStages \cup
  {"done", "open_registry", "fill_registry", "record", "read", "open", "fill", "announce"}

(* Mutant: the other order.                                                *)
TrustedCapabilities_Swapped == <<HumanTask, ApiTool>>

(* The capabilities a passed validation registers, in this order.          *)
TrustedCapabilities == <<ApiTool, HumanTask>>

NoValidation == [stage |-> "done", passes |-> FALSE, next |-> 1, seen |-> <<>>, list |-> <<>>]

Running(t) == validation[t].stage # "done"

Step(t, stage) == validation' = [validation EXCEPT ![t].stage = stage]

End(t) == validation' = [validation EXCEPT ![t] = NoValidation]

SuiteInit ==
  /\ timeline = NoFile(<<>>)
  /\ registry = NoFile(FALSE)
  /\ validation = [t \in Threads |-> NoValidation]
  /\ disturbed = FALSE
  /\ alone = [t \in Threads |-> FALSE]
  /\ settled = FALSE

(* POST /validate/request-purchase-order-approval                          *)
Validate(t, passes) ==
  /\ ~Running(t)
  /\ validation' = [validation EXCEPT ![t] =
       [NoValidation EXCEPT !.stage = IF passes THEN "read_timeline" ELSE "record",
                            !.passes = passes]]
  /\ disturbed' = (disturbed \/ \E u \in Threads : Running(u))
  /\ alone' = [u \in Threads |-> u = t /\ \A w \in Threads : ~Running(w)]
  /\ settled' = (settled /\ ~passes)
  /\ UNCHANGED <<timeline, registry>> /\ UNCHANGED memoryVars

(* record_case_event, once per event of the timeline. read_json raises on  *)
(* a file that does not parse, and the request ends with an error.         *)
ReadTimeline(t) ==
  /\ validation[t].stage = "read_timeline"
  /\ IF Exists(timeline) /\ ~Readable(timeline)
       THEN End(t)
       ELSE validation' = [validation EXCEPT
              ![t].stage = "open_timeline",
              ![t].seen = LET seen == Load(timeline, <<>>)
                              event == validation[t].next
                          IN  IF event \in Range(seen) THEN seen ELSE Append(seen, event)]
  /\ UNCHANGED <<timeline, registry>> /\ UNCHANGED history /\ UNCHANGED memoryVars

OpenTimeline(t) ==
  /\ validation[t].stage = "open_timeline"
  /\ timeline' = Truncated(timeline)
  /\ Step(t, "fill_timeline")
  /\ UNCHANGED registry /\ UNCHANGED history /\ UNCHANGED memoryVars

FillTimeline(t) ==
  /\ validation[t].stage = "fill_timeline"
  /\ timeline' \in Written(timeline, validation[t].seen, <<>>)
  /\ LET more == validation[t].next < TimelineLength IN
       validation' = [validation EXCEPT
         ![t].stage = IF more THEN "read_timeline" ELSE "open_registry",
         ![t].next = IF more THEN @ + 1 ELSE 1,
         ![t].seen = <<>>]
  /\ UNCHANGED registry /\ UNCHANGED history /\ UNCHANGED memoryVars

(* register_trusted_capability                                             *)
OpenRegistry(t) ==
  /\ validation[t].stage = "open_registry"
  /\ registry' = Truncated(registry)
  /\ Step(t, "fill_registry")
  /\ UNCHANGED timeline /\ UNCHANGED history /\ UNCHANGED memoryVars

FillRegistry(t) ==
  /\ validation[t].stage = "fill_registry"
  /\ registry' \in Written(registry, TRUE, FALSE)
  /\ Step(t, "record")
  /\ UNCHANGED timeline /\ UNCHANGED history /\ UNCHANGED memoryVars

(* record_validation_memory: the result, then, when it passed, the         *)
(* capabilities. Any exception ends it; the caller gets its response.      *)
RecordResult(t) ==
  /\ validation[t].stage = "record"
  /\ \/ /\ Record(IF validation[t].passes THEN Passed ELSE NotPassed)
        /\ IF validation[t].passes THEN Step(t, "read") ELSE End(t)
        /\ UNCHANGED disturbed
     \/ InsertFails /\ End(t) /\ disturbed' = TRUE
  /\ UNCHANGED <<timeline, registry, capabilities, alone, settled>>

(* register_capability: upsert_capability, then the event.                 *)
ReadCapabilities(t) ==
  /\ validation[t].stage = "read"
  /\ IF Exists(capabilities) /\ ~Readable(capabilities)
       THEN End(t)
       ELSE validation' = [validation EXCEPT
              ![t].stage = "open",
              ![t].list = Upserted(Load(capabilities, <<>>),
                                   TrustedCapabilities[validation[t].next])]
  /\ UNCHANGED <<timeline, registry>> /\ UNCHANGED history /\ UNCHANGED memoryVars

OpenCapabilities(t) ==
  /\ validation[t].stage = "open"
  /\ capabilities' = Truncated(capabilities)
  /\ Step(t, "fill")
  /\ NoEvent
  /\ UNCHANGED <<timeline, registry>> /\ UNCHANGED history

FillCapabilities(t) ==
  /\ validation[t].stage = "fill"
  /\ capabilities' \in Written(capabilities, validation[t].list, <<>>)
  /\ validation' = [validation EXCEPT ![t].stage = "announce", ![t].list = <<>>]
  /\ NoEvent
  /\ UNCHANGED <<timeline, registry>> /\ UNCHANGED history

Announce(t) ==
  /\ validation[t].stage = "announce"
  /\ \/ /\ Record(Registered(TrustedCapabilities[validation[t].next]))
        /\ IF validation[t].next < Len(TrustedCapabilities)
             THEN validation' = [validation EXCEPT ![t].stage = "read", ![t].next = @ + 1]
             ELSE End(t)
        /\ UNCHANGED disturbed
     \/ InsertFails /\ End(t) /\ disturbed' = TRUE
  /\ settled' = IF validation[t].next = Len(TrustedCapabilities) THEN alone[t] ELSE settled
  /\ UNCHANGED <<timeline, registry, capabilities, alone>>

(* POST /capability-gaps/inventory-shortage and POST /approvals. The file  *)
(* of the gap is a constant that decides nothing.                          *)
RecordOnly(event) ==
  /\ Record(event) \/ InsertFails
  /\ UNCHANGED suiteVars /\ UNCHANGED capabilities

RecordGap      == RecordOnly(Gap)
RecordApproval == RecordOnly(HumanApproval)

(* The process starts again; the files and the database stay.              *)
SuiteRestart ==
  /\ disturbed' = (disturbed \/ \E t \in Threads : Running(t))
  /\ validation' = [t \in Threads |-> NoValidation]
  /\ UNCHANGED <<timeline, registry, alone, settled>> /\ UNCHANGED memoryVars

ValidationStep(t) ==
  \/ ReadTimeline(t) \/ OpenTimeline(t) \/ FillTimeline(t)
  \/ OpenRegistry(t) \/ FillRegistry(t)
  \/ RecordResult(t)
  \/ ReadCapabilities(t) \/ OpenCapabilities(t) \/ FillCapabilities(t) \/ Announce(t)

----------------------------------------------------------------------------
(* Properties.                                                             *)

(* The lists a validation holds are those of the files it has read.        *)
SuiteTypeOK ==
  /\ timeline \in File({timeline.content}) /\ registry \in File(BOOLEAN)
  /\ DOMAIN validation = Threads
  /\ \A t \in Threads :
       /\ DOMAIN validation[t] = DOMAIN NoValidation
       /\ validation[t].stage \in Stages /\ validation[t].passes \in BOOLEAN
       /\ validation[t].next \in IF validation[t].stage \in TimelineStages
                                 THEN 1..TimelineLength
                                 ELSE DOMAIN TrustedCapabilities
  /\ disturbed \in BOOLEAN
  /\ alone \in [Threads -> BOOLEAN]
  /\ settled \in BOOLEAN

(* Whoever overlaps, fails or is cut off: a capability is in the registry  *)
(* only when a validation passed and its result was recorded before.       *)
TrustRestsOnValidation ==
  \A cap \in Range(capabilities.content) : Happened(Passed)

(* "A passed validation response can support a proposal or trusted-        *)
(* capability review, but it does not automatically ... register a trusted *)
(* capability" (docs/validation-gate.md:53): no capability is trusted      *)
(* before a human approval came in.                                        *)
TrustAwaitsApproval ==
  \A cap \in Range(capabilities.content) : Happened(HumanApproval)

(* The registry keeps what was registered: every capability announced by   *)
(* an event stays in the file.                                             *)
RegistrationsKept ==
  \A cap \in Caps : Happened(Registered(cap)) => cap \in Range(capabilities.content)

(* The two registries agree between validations: with the older one        *)
(* naming the API tool, triage finds the API tool too, and not the human   *)
(* task that is trusted for the same action.                               *)
RegistriesAgree ==
  (\A t \in Threads : ~Running(t)) =>
    /\ Exists(registry) <=> Exists(capabilities)
    /\ Readable(registry) <=> Readable(capabilities)
    /\ Readable(registry) => registry.content /\ Found(capabilities.content) = ApiTool

(* A file a reader would raise on is being written at this moment.         *)
UnreadableOnlyWhileOpen ==
  /\ Readable(capabilities) \/ ~Exists(capabilities)
       \/ \E t \in Threads : validation[t].stage = "fill"
  /\ Readable(timeline) \/ ~Exists(timeline)
       \/ \E t \in Threads : validation[t].stage = "fill_timeline"

(* The timeline of CASE-001 tells its stages in their order.               *)
TimelineInOrder == timeline.content \in {[i \in 1..n |-> i] : n \in 0..TimelineLength}

(* The four files a validation rewrites, each read, emptied and written,   *)
(* stay whole and agree as long as no two validations have overlapped, no  *)
(* insert has failed and no restart has cut one off. Afterwards nothing    *)
(* need hold for good: upsert_capability reads before it writes, so a file *)
(* that was left unreadable makes it raise for ever.                       *)
UndisturbedFilesAgree ==
  ~disturbed =>
    RegistrationsKept /\ RegistriesAgree /\ UnreadableOnlyWhileOpen /\ TimelineInOrder

(* Whatever overlapped, failed or was cut off before: once a validation    *)
(* has passed and run alone to its last step, both registries are whole,   *)
(* name what it registered, and make triage find the API tool, until the   *)
(* next one begins to write. A half-made registration, or one in the other *)
(* order, is repaired by the next complete one.                            *)
SettledRegistriesAgree ==
  settled => /\ registry = WholeFile(TRUE)
             /\ Readable(capabilities)
             /\ Range(capabilities.content) = Caps
             /\ Found(capabilities.content) = ApiTool

=============================================================================
