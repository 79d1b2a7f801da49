SPECIFICATION PromiseSpec
CONSTANTS
  Data = {d1, d2, d3, d4}
  Futures = {f1, f2, f3}
  Void = TRUE
  Null = Null
SYMMETRY Symm
INVARIANTS DataIsOwned EveryoneAnswered BlockedCanBeFulfilled AbandonedRunsNothing
CHECK_DEADLOCK FALSE
