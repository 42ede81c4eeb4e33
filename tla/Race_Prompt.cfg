SPECIFICATION CodexSpec
CONSTANTS
  Threads = {t1, t2}
  Proposals = {p1}
  Approvals = {TRUE}
  Modes = {"mock", "real"}
  MaxEvents = 4
  MaxStarts = 2
  MaxStream = 1
  MaxRestarts = 0
SYMMETRY Symmetry
INVARIANT RunsApprovedPrompt
CHECK_DEADLOCK FALSE
