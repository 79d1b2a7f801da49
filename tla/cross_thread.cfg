SPECIFICATION CrossSpec
CONSTANTS
  Producers = {p1, p2}
  Readers = {r1, r2}
  Items = {i1, i2, i3}
  Threads = {t1, t2, t3}
  MaxRounds = 3
  Stub = Stub
  Null = Null
INVARIANTS MemoryIsSound NobodyAhead NoLostWakeup OneReaderPerToken
PROPERTIES IsFifo IsRendezvous EveryoneArrives
CHECK_DEADLOCK FALSE
