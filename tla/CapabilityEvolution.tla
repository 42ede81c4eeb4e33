------------------------ MODULE CapabilityEvolution ------------------------
(***************************************************************************)
(* The rules by which a committed run counts as evidence and the evidence  *)
(* becomes a proposal: increment_pattern of memory/patterns.py and         *)
(* evaluate_capability_evolution of the reasoning agent's main.py. Nothing *)
(* here has state; RunCommit reads and writes the files.                   *)
(*                                                                         *)
(* Fractions are in hundredths. Abstracted: examples, remarks, reasons,    *)
(* the explanation of a decision, and the counters no rule reads.          *)
(***************************************************************************)
EXTENDS Integers

CONSTANT Threshold  \* proposal_threshold(): PROPOSAL_THRESHOLD, 3 by default

ASSUME ThresholdAssumption == Threshold \in Nat \ {0}

(* A pattern as the rules see it. "real" is source = "real_run_memory".    *)
(* The last three fields exist only in historical_patterns.json; a field   *)
(* an entry does not have reads as zero or FALSE.                          *)
Pattern ==
  [real : BOOLEAN, observed : Nat, passes : Nat, value : Nat, stability : Nat,
   selectorFailures : Nat, gaps : Nat, covered : BOOLEAN, noApi : BOOLEAN]

NoPattern ==
  [real |-> FALSE, observed |-> 0, passes |-> 0, value |-> 0, stability |-> 0,
   selectorFailures |-> 0, gaps |-> 0, covered |-> FALSE, noApi |-> FALSE]

Validations == {"passed", "failed", "none"}

(* The canonical pattern of a historical entry, which knows neither of     *)
(* repeated gaps nor of their coverage nor of no_api_modernization.        *)
NormalizedSeed(entry) ==
  [entry EXCEPT !.real = FALSE, !.gaps = 0, !.covered = FALSE, !.noApi = FALSE]

Incremented(pattern, validation) ==
  [pattern EXCEPT !.real = TRUE,
                  !.observed = pattern.observed + 1,
                  !.passes = pattern.passes + (IF validation = "passed" THEN 1 ELSE 0)]

----------------------------------------------------------------------------
ProposalLabels ==
  {"API_MODERNIZATION_PROPOSAL", "XAML_IMPROVEMENT_PROPOSAL", "XAML_WORKFLOW_PROPOSAL"}

Labels == ProposalLabels \cup
  {"NO_EVOLUTION_REQUIRED", "MANUAL_INVESTIGATION", "USE_TRUSTED_CAPABILITY",
   "KEEP_ACCUMULATING_EVIDENCE", "WAIT_FOR_VENDOR_INFO", "KEEP_RPA_MODE"}

(* _decision_kind: the middle of the proposal's id.                        *)
Kinds == {"API", "XAMLI", "XAMLW"}

KindOf == [label \in ProposalLabels |->
  CASE label = "API_MODERNIZATION_PROPOSAL" -> "API"
    [] label = "XAML_IMPROVEMENT_PROPOSAL"  -> "XAMLI"
    [] label = "XAML_WORKFLOW_PROPOSAL"     -> "XAMLW"]

IsStandard(exception, action) ==
  exception \in {"none", "no_exception", ""} \/ action = "standard_purchase_order_processing"

IsAmbiguous(exception, action) ==
  exception = "unknown_exception" \/ action = "manual_case_review"

(* validation_pass_rate >= 0.8, and 0 when nothing was observed.           *)
PassesMostly(pattern) ==
  pattern.observed > 0 /\ 100 * pattern.passes >= 80 * pattern.observed

ReadyForApi(pattern, validatedNow) ==
  /\ pattern.observed >= 5
  /\ pattern.value >= 75
  /\ pattern.stability >= 75
  /\ PassesMostly(pattern) \/ validatedNow
  /\ ~pattern.noApi

(* The rules for seeded data, also used for a real pattern at the          *)
(* threshold whose exception has no rule of its own.                       *)
LegacyDecision(pattern, validatedNow) ==
  IF ReadyForApi(pattern, validatedNow) THEN "API_MODERNIZATION_PROPOSAL"
  ELSE IF pattern.selectorFailures >= 3 THEN "XAML_IMPROVEMENT_PROPOSAL"
  ELSE IF pattern.gaps >= 3 /\ ~pattern.covered THEN "XAML_WORKFLOW_PROPOSAL"
  ELSE IF pattern.noApi THEN "WAIT_FOR_VENDOR_INFO"
  ELSE "KEEP_RPA_MODE"

(* Mutant: the threshold is off by one.                                    *)
RealDecision_OffByOne(exception, pattern, validatedNow) ==
  IF pattern.observed + 1 < Threshold THEN "KEEP_ACCUMULATING_EVIDENCE"
  ELSE IF exception = "budget_exceeded" /\ ~pattern.noApi THEN "API_MODERNIZATION_PROPOSAL"
  ELSE IF exception = "inventory_shortage" THEN "XAML_WORKFLOW_PROPOSAL"
  ELSE LegacyDecision(pattern, validatedNow)

(* Mutant: any exception at the threshold is proposed as an API.           *)
RealDecision_AnyException(exception, pattern, validatedNow) ==
  IF pattern.observed < Threshold THEN "KEEP_ACCUMULATING_EVIDENCE"
  ELSE IF exception = "inventory_shortage" THEN "XAML_WORKFLOW_PROPOSAL"
  ELSE IF ~pattern.noApi THEN "API_MODERNIZATION_PROPOSAL"
  ELSE "WAIT_FOR_VENDOR_INFO"

RealDecision(exception, pattern, validatedNow) ==
  IF pattern.observed < Threshold THEN "KEEP_ACCUMULATING_EVIDENCE"
  ELSE IF exception = "budget_exceeded" /\ ~pattern.noApi THEN "API_MODERNIZATION_PROPOSAL"
  ELSE IF exception = "inventory_shortage" THEN "XAML_WORKFLOW_PROPOSAL"
  ELSE IF pattern.noApi THEN "WAIT_FOR_VENDOR_INFO"
  ELSE LegacyDecision(pattern, validatedNow)

Decision(exception, action, pattern, trusted, validatedNow) ==
  IF IsStandard(exception, action) THEN "NO_EVOLUTION_REQUIRED"
  ELSE IF IsAmbiguous(exception, action) THEN "MANUAL_INVESTIGATION"
  ELSE IF trusted THEN "USE_TRUSTED_CAPABILITY"
  ELSE IF pattern.real THEN RealDecision(exception, pattern, validatedNow)
  ELSE LegacyDecision(pattern, validatedNow)

=============================================================================
