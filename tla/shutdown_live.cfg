SPECIFICATION FairSpec
CONSTANTS
  CoroThreads = {c1}
  IoThreads = {o1}
  Io = Io
  Work = {w1, w2}
  MaxRuns = 2
  Chaining = FALSE
  None = None
PROPERTY RunTerminates
CHECK_DEADLOCK FALSE
