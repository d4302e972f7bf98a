SPECIFICATION Spec
CONSTANTS
  f = f
  g = g
  None = None
  Absent = Absent
  Targets = {f, g}
  Digests = {"old", "new", Absent}
  Calls <- SomeCalls
  Capacity = 4
  MaxAttempts = 3
  Others = TRUE
  DigestFaults = TRUE
  AppendFaults = TRUE
  Tearing = FALSE
  MayCrash = TRUE
CHECK_DEADLOCK FALSE
INVARIANTS EvidenceBeforeMutation HonestRecords BatchReservation
PROPERTY EvidenceKept
