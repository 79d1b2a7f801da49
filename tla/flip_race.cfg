SPECIFICATION FlipSpec
CONSTANTS
  Writers = {w1, w2}
  CtThreads = {t1, t2}
  Nobody = Nobody
  MaxWrites = 1
  Interruptible = {}
INVARIANT WritersDoNotRace
CHECK_DEADLOCK FALSE
