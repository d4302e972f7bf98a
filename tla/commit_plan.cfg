SPECIFICATION Spec
CONSTANTS
  p = p
  q = q
  c = c
  d = d
  None = None
  Paths = {p, q}
  Ignored = {}
  Contents = {c, d}
  Requests <- AllCalls
  MaxCommits = 1
  OtherGit = "any"
  GitFaults = TRUE
  MayCrash = TRUE
SYMMETRY Symmetry
INVARIANTS CommitsHoldThePlan HonestReceipt
