SPECIFICATION MCSpec
CONSTANTS
  p = p
  q = q
  i = i
  c = c
  d = d
  None = None
  Paths = {p, q, i}
  Ignored = {i}
  Contents = {c, d}
  Requests <- AllCalls
  OtherGit = "between"
  Editors = TRUE
  Faults = TRUE
  Branches = {main, topic}
  MaxLen = 1
  MaxMoves = 1
  Reported = {pa, pb, like}
  Lookalike = like
  Unchanged = hidden
  MaxReported = 2
  Capture = 4
  MaxSampled = 2
  MaxSample = 3
  NameBytes <- ShortNames
  Plain = {"a", "b"}
  Magic = {"a*"}
  Colon = {":a"}
  Backslash = {"a_b"}  (* stands for a name with one, which is not written here *)
  GitDir = ".git"
  MaxLength = 3
  Buffer = 2
  MaxSize = 3
  MaxWrites = 1
  Offsets = {0, 2}
  Counts = {2}
  Size = 4
  Limits = {1, 3}
  Depths = {2}
  MaxRemovals = 1
  TrialNames = {1, 2}
  Given = {0, 2}
  MaxRewards = 1
  MaxTrials = 2
  MaxEvidence = 2
  HeadBytes = 3
  TailBytes = 3
  MaxChars = 7
  MaxStream = 7
  Letters = {"a", "newline"}
  MaxText = 4
  MaxOld = 2
  MaxNew = 2
  MaxEntries = 3
SYMMETRY Symmetry
CHECK_DEADLOCK FALSE
INVARIANTS ReviewableResults HonestReplies TakesOnlyWhatItMay
  HonestReports ReadsWhatGitMeant NamesOneEntry HonestReads ShowsNoCutSecret EditsWhatMatched HarborIsJudgedFairly
PROPERTY MovesOnlyWhatItMay
