SPECIFICATION FairSpec
CONSTANTS
  m1 = m1
  m2 = m2
  d = d
  l = l
  s = s
  u = u
  None = None
  Requests = {m1, d, l, u}
  Kind <- AllKinds
  HasDeadline = {m1}
  Mutates = {m1, d}
  MaxActive = 2
  MaxWorkers = 1
  MaxQueued = 1
  Panics = TRUE
  NoThreads = TRUE
  MayHangUp = TRUE
CHECK_DEADLOCK FALSE
PROPERTIES EveryBoundedCallAnswered ServerEnds
