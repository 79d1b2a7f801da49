SPECIFICATION MessagesSpec
CONSTANTS
  Writers = {w1, w2}
  CtThreads = {t1, t2}
  Nobody = Nobody
  MaxWrites = 2
  Interruptible = {"lock"}
  HubThreads = {h1, h2}
  HubIos = {io}
  IoTarget = IoTarget
  Callers = {c1}
  MaxCalls = 2
  place <- OnOneThread
  Base = 2
  Cases <- AllCases
INVARIANTS FlipIsAtomic MutexIsHandedOn RepliesMatch MessagesAreWhole
PROPERTIES CallsAndWritesReturn
CHECK_DEADLOCK FALSE
