SPECIFICATION Spec
CONSTANTS
  p = p
  q = q
  c = c
  d = d
  None = None
  Paths = {p, q}
  Ignored = {}
  Contents = {c, d}
  Requests <- ExactCalls
  MaxCommits = 1
  OtherGit = "never"
  GitFaults = FALSE
  MayCrash = FALSE
SYMMETRY Symmetry
INVARIANTS CommitsWhatWasPlanned
