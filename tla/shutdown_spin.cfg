SPECIFICATION FairSpec
CONSTANTS
  CoroThreads = {c1}
  IoThreads = {o1, o2}
  Io = Io
  Work = {w1}
  MaxRuns = 1
  Chaining = FALSE
  None = None
PROPERTY RunTerminates
CHECK_DEADLOCK FALSE
