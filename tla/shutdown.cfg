SPECIFICATION Spec
CONSTANTS
  CoroThreads = {c1}
  IoThreads = {o1, o2}
  Io = Io
  Work = {w1, w2}
  MaxRuns = 2
  Chaining = FALSE
  None = None
SYMMETRY Symm
INVARIANTS CountIsExact NoWorkLeftWhenEnding EndsCleanly
CHECK_DEADLOCK FALSE
