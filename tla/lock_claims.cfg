SPECIFICATION ObjectsSpec
CONSTANTS
  Acqs = {a1, a2, a3}
  MoveWaited = TRUE
  Null = Null
  Locks = {l1, l2}
  Callers = {c1, c2}
  CopyLate = TRUE
  NoDrainer = NoDrainer
  SemAcqs = {s1, s2, s3}
  Counts = {1, 2}
  MaxCapacity = 2
  Ops = {"combine", "combinePending", "move", "moveCombined", "shrink"}
INVARIANTS WaitSurvivesMove ListedAcqsLive QueuedAcqsLive AllReturned PendingFitsCapacity
PROPERTIES NoLockWhileDraining WaitIsFifo
CHECK_DEADLOCK FALSE
