SPECIFICATION Spec
CONSTANTS
  Coros = {c1, c2}
  Events = {e1, e2, e3}
  MaxDepth = 2
SYMMETRY Symm
INVARIANTS WaitsAreOver BlockedCanWake InterruptionSpreads
CHECK_DEADLOCK FALSE
