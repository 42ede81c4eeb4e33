SPECIFICATION ErpSpec
CONSTANTS
  Threads = {t1}
  Requests = {r1}
  DefaultCases = 1
  MaxInject = 2
  ClientPOs = {1}
  Buttons = {}
  MaxCases = 2
  Sims = {1, 2}
  NoSim = 0
  MaxTasks = 2
  DirectSims = {2}
INVARIANTS
  ErpTypeOK
  ClosesTheNamedCase
PROPERTIES
  TerminalIsFinal
  SubmitAddsNoSecondApproval
  WritesBackHome
  NoRivalWriteback
  NoTaskReplaced
  ImplementsMachine
CHECK_DEADLOCK FALSE
