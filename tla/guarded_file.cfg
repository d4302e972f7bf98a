SPECIFICATION MCSpec
CONSTANTS
  p1 = p1
  p2 = p2
  i1 = i1
  i2 = i2
  i3 = i3
  i4 = i4
  None = None
  Torn = Torn
  Callers = {p1, p2}
  Inodes = {i1, i2, i3, i4}
  Paths = {"q", "new"}
  Contents <- MCContents
  Modes = {0, 1}
  NewMode = 0
  Requests <- AllRequests
  InitialFiles <- FreeOrLinked
  IoFaults = FALSE
  MayCrash = FALSE
VIEW View
SYMMETRY Symmetry
INVARIANTS CheckStillHolds NoTornFile StaysInductive
PROPERTY ImplementsAtomicFile
