SPECIFICATION FairCodexSpec
CONSTANTS
  Threads = {t1}
  Proposals = {p1}
  Approvals = {TRUE, FALSE}
  Modes = {"mock", "real"}
  MaxEvents = 2
  MaxStarts = 2
  MaxStream = 2
  MaxRestarts = 0
INVARIANTS
  OwnSessionRunsPrompt
PROPERTIES
  SessionsEnd
CHECK_DEADLOCK FALSE
