SPECIFICATION FairSpec
CONSTANTS
  Coros = {r1, r2, d, k1, k2}
  Null = Null
  AnySlots = {d, k1, k2}
  MaxSwaps = 3
  MaxCache = 1
  Runners = {r1, r2}
  Destroyer = d
  Limit = 1
  Items = 2
INVARIANTS SlotsAgree DeltaIsExact ChildrenComeFirst PoolIsBounded
PROPERTIES TurnsCome LoopsReturn
CHECK_DEADLOCK FALSE
