SPECIFICATION Spec
CONSTANTS
  f = f
  g = g
  None = None
  Absent = Absent
  Targets = {f, g}
  Digests = {"old", "new", Absent}
  Calls <- SomeCalls
  Capacity = 5
  MaxAttempts = 2
  Others = FALSE
  DigestFaults = FALSE
  AppendFaults = FALSE
  Tearing = TRUE
  MayCrash = TRUE
CHECK_DEADLOCK FALSE
INVARIANT EvidenceBeforeMutation
