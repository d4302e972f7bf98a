SPECIFICATION Spec
CONSTANTS
  p = p
  q = q
  i = i
  c = c
  d = d
  None = None
  Paths = {p, q}
  Ignored = {}
  Contents = {c, d}
  Requests <- TrackedCalls
  OtherGit = "between"
  Editors = FALSE
  Faults = FALSE
INVARIANTS RestoresSomething
