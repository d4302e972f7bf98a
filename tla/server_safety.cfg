SPECIFICATION Spec
CONSTANTS
  m1 = m1
  m2 = m2
  d = d
  l = l
  s = s
  u = u
  None = None
  Requests = {m1, m2, d, s}
  Kind <- AllKinds
  HasDeadline = {m1, m2}
  Mutates = {m1, m2, d}
  MaxActive = 2
  MaxWorkers = 1
  MaxQueued = 1
  Panics = TRUE
  NoThreads = TRUE
  MayHangUp = TRUE
CHECK_DEADLOCK FALSE
INVARIANTS HonestReplies MutatorsExclude LockFreeOnReply PermitsAccounted
