SPECIFICATION MCSpec
CONSTANTS
  j1 = j1
  j2 = j2
  None = None
  Jobs = {j1, j2}
  MaxJobs = 1
  MaxInstances = 2
  WriteFaults = TRUE
  NoThreads = TRUE
  Streams = {"stdout"}
  Kin = {"k"}
  PipeSize = 1
  MaxWritten = 3
  HeadCap = 1
  TailCap = 1
  Faults = TRUE
CHECK_DEADLOCK FALSE
INVARIANTS HonestJobs HonestRuns
PROPERTIES EveryJobEnds EveryRunReturns
