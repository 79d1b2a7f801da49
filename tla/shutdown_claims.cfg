SPECIFICATION Spec
CONSTANTS
  CoroThreads = {c1, c2}
  IoThreads = {}
  Io = Io
  Work = {w1, w2}
  MaxRuns = 2
  Chaining = TRUE
  None = None
INVARIANTS EventMeansShutdown RepliesNeedNoCount
CHECK_DEADLOCK FALSE
