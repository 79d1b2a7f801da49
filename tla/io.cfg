SPECIFICATION IoSpec
CONSTANTS
  MsPerSec = 2
  NsPerMs = 2
  Singles = {s}
  Periodics = {p}
  Delays = {1, 5}
  MaxClock = 12
  IntBound = 2
  Fds = {f1, f2}
  Coros = {c1, c2}
  Users = {u1, u2}
  BufferSize = 3
  MaxBytes = 5
  Delims = {2, 5}
  SharedPeek = FALSE
  Interrupts = FALSE
  Clients = {k1, k2}
  MaxSize = 3
SYMMETRY Symm
INVARIANTS KernelKnowsEveryWait WaitsAreRegistered StreamIntact SuccessIsWhole
PROPERTY TimersAreOnTime
CHECK_DEADLOCK FALSE
