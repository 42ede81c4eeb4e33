SPECIFICATION RunSpec
CONSTANTS
  t1 = t1
  t2 = t2
  Threads <- MCThreads
  Processes <- MCThreads
  ProcessOf <- MCProcessOf
  Cases = {c1}
  MaxRuns = 2
  MaxCalls = 4
  MaxDisturbances = 1
SYMMETRY Symmetry
INVARIANTS
  OneStartPerRun
  AnsweredEventsAreKept
  FilesFollowStreams
  DerivedFilesComplete
CHECK_DEADLOCK FALSE
