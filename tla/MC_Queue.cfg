SPECIFICATION SimSpec
CONSTANTS
  Threads = {t1, t2}
  DefaultCases = 1
  MaxInject = 2
  ClientPOs = {1}
  Buttons = {"MARK_STANDARD_PROCESSED"}
  MaxCases = 2
SYMMETRY Symmetry
INVARIANTS
  IdsNeverRunAhead
  HandOutsBoundedByThreads
PROPERTIES
  NeverSkipsInProgress
  ResetIsolation
CHECK_DEADLOCK FALSE
