SPECIFICATION FairAgentSpec
CONSTANTS
  Threads = {t1, t2}
  Cases = {c1}
  Actions = {a1}
  NoPayload = none
  Payloads <- MCPayloads
  MaxRetries = 2
  GapThreshold = 1
  MaxGaps = 1
  MaxCalls = 3
INVARIANTS
  DecisionIsEarned
  CheckpointShowsDecision
  FailureStaysInItsCase
PROPERTIES
  CallsEnd
CHECK_DEADLOCK FALSE
