SPECIFICATION PromiseSpec
CONSTANTS
  Data = {d1, d2, d3, d4}
  Futures = {f1, f2, f3}
  Void = FALSE
  Null = Null
SYMMETRY Symm
INVARIANTS DataIsOwned EveryoneAnswered
PROPERTY CallsEnd
CHECK_DEADLOCK FALSE
