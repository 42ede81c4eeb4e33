------------------------ MODULE ModernizationServices ------------------------
(***************************************************************************)
(* The three services behind the modernization story run side by side:     *)
(* the validation suite, the generated API facade and the mock legacy ERP, *)
(* each a process with threads of its own, over one Automation Memory.     *)
(***************************************************************************)
EXTENDS ValidationSuite, ApiFacade, LegacyErp

CONSTANTS
  Endpoints,  \* endpoints that are called
  MaxCalls    \* bound: calls in a behaviour

ASSUME CallsAssumption == MaxCalls \in Nat

VARIABLE calls  \* how many calls there were

servicesVars == <<memoryVars, suiteVars, facadeVars, erpVars, calls>>

ServicesInit == MemoryInit /\ SuiteInit /\ FacadeInit /\ LegacyInit /\ calls = 0

Suite  == UNCHANGED <<facadeVars, erpVars>>
Facade == UNCHANGED <<suiteVars, erpVars>>
Erp    == UNCHANGED <<suiteVars, facadeVars>>

(* A request arrives at one of the services.                               *)
Arrives(t) ==
  /\ calls < MaxCalls /\ calls' = calls + 1
  /\ \/ "validate" \in Endpoints /\ Suite /\ \E passes \in BOOLEAN : Validate(t, passes)
     \/ "gap" \in Endpoints /\ Suite /\ RecordGap
     \/ "approve" \in Endpoints /\ Suite /\ RecordApproval
     \/ "task" \in Endpoints /\ Facade
          /\ \E po \in Orders, source \in SourceCases : SelectTask(t, po, source)
     \/ "writeback" \in Endpoints /\ Erp /\ \E po \in Orders : FetchOrder(t, po)
     \/ "register" \in Endpoints /\ Erp /\ \E tool \in Tools : FilterTools(t, tool)
     \/ "reset" \in Endpoints /\ Erp /\ ResetOrders(t)

Continues(t) ==
  /\ UNCHANGED calls
  /\ \/ ValidationStep(t) /\ Suite
     \/ FacadeStep(t) /\ Facade
     \/ LegacyStep(t) /\ Erp

Restarts ==
  /\ UNCHANGED calls
  /\ \/ SuiteRestart /\ Suite
     \/ FacadeRestart /\ Facade
     \/ LegacyRestart /\ Erp

ServicesNext == (\E t \in Threads : Arrives(t) \/ Continues(t)) \/ Restarts

ServicesSpec == ServicesInit /\ [][ServicesNext]_servicesVars

=============================================================================
