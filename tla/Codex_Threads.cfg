SPECIFICATION CodexSpec
CONSTANTS
  Threads = {t1, t2}
  Proposals = {p1}
  Approvals = {TRUE}
  Modes = {"mock", "real"}
  MaxEvents = 4
  MaxStarts = 2
  MaxStream = 1
  MaxRestarts = 1
SYMMETRY Symmetry
INVARIANTS
  SessionsAccountedFor
PROPERTIES
  ActivitiesAreKept
CHECK_DEADLOCK FALSE
