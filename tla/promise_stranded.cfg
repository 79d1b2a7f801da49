SPECIFICATION PromiseSpec
CONSTANTS
  Data = {d1, d2}
  Futures = {f1, f2}
  Void = FALSE
  Null = Null
INVARIANT BlockedCanBeFulfilled
CHECK_DEADLOCK FALSE
