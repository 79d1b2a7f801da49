SPECIFICATION Spec
CONSTANTS
  Producers = {p1}
  Readers = {r1}
  Items = {i1, i2}
  Stub = Stub
  Null = Null
INVARIANT TokenFindsMessage
CHECK_DEADLOCK FALSE
