SPECIFICATION ServicesSpec
CONSTANTS
  Threads = {t1, t2}
  Orders = {po1}
  MaxFaults = 1
  TimelineLength = 2
  SourceCases = {c1, c2}
  NoCase = none
  Tools = {tool1, tool2}
  MaxResets = 1
  Endpoints = {"validate", "gap", "approve", "task", "writeback", "register", "reset"}
  MaxCalls = 3
INVARIANTS
  SettledRegistriesAgree
  UndisturbedFilesAgree
  OneTaskPerOrder
  FirstWritebackOnce
  ToolRegisteredOnce
SYMMETRY Symmetry
CHECK_DEADLOCK FALSE
