SPECIFICATION ObjectsSpec
CONSTANTS
  Acqs = {a1, a2, a3, a4}
  MoveWaited = FALSE
  Null = Null
  Locks = {l1, l2, l3}
  Callers = {c1, c2}
  CopyLate = FALSE
  NoDrainer = NoDrainer
  SemAcqs = {s1, s2, s3}
  Counts = {1, 2}
  MaxCapacity = 3
  Ops = {"combine", "move", "shrink"}
INVARIANTS WokenHasMutex BlockedIsRegistered NothingIsLost ListsAgree DrainedWhenReturned
PROPERTIES ServedInOrder WaitsEnd
CHECK_DEADLOCK FALSE
