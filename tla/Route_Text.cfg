SPECIFICATION RoutedSpec
CONSTANTS
  Threads = {t1, t2}
  Threshold = 3
  Orders <- MCOrders
  LlmAnswers <- MCAnswers
  Seed <- MCSeed
  MaxCalls = 3
  MaxLost = 1
  MaxRuns = 1
INVARIANT
  NormalHasNoExceptionText
SYMMETRY Symmetry
CHECK_DEADLOCK FALSE
