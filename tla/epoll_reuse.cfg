SPECIFICATION EventsSpec
CONSTANTS
  MsPerSec = 2
  NsPerMs = 2
  Singles = {s}
  Periodics = {p}
  Delays = {1, 2}
  MaxClock = 6
  IntBound = 2
  Fds = {f1}
  Coros = {c1, c2}
INVARIANT ChangesAreAccepted
CHECK_DEADLOCK FALSE
