----------------------------- MODULE MC_Agents -----------------------------
(* TLC instance of CaseAgents: a request that passes every gate, and one   *)
(* that misses one by the least.                                            *)
EXTENDS CaseAgents, TLC

ReadyPayload ==
  [frequency |-> 10, validation |-> "VALIDATION_PASSED", approval |-> "APPROVED",
   exception |-> "budget_exceeded", writeback |-> "PENDING_MANAGER_APPROVAL",
   sideEffects |-> TRUE, parityRequired |-> TRUE, parity |-> "passed"]

MCPayloads == {ReadyPayload, [ReadyPayload EXCEPT !.frequency = 9]}

=============================================================================
