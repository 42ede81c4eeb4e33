SPECIFICATION ApprovalSpec
CONSTANTS
  Threads = {t1, t2}
  Requests = {r1, r2}
  Sims = {s1}
  NoSim = NoSim
  MaxTasks = 2
SYMMETRY Symmetry
PROPERTY OnlyPendingIsDecided
CHECK_DEADLOCK FALSE
