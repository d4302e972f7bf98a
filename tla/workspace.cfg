SPECIFICATION MCSpec
CONSTANTS
  None = None
  slash = slash
  d1 = d1
  d2 = d2
  d3 = d3
  f = f
  a = a
  b = b
  x = x
  Dirs = {slash, Repo, d1, d2}
  Slash = slash
  Names = {a, b, x}
  Links = {Link}
  LinkTo <- LinkToWorktree
  Worktrees = {d2}
  Workspace <- ConfiguredPath
  Calls = {u, v}
  Selectors <- SmallSelectors
  MaxMoves = 2
  Jobs = {u, v}
  Kinds = {"task", "artifact", "compose", "find"}
  Project = Project
  Operator = Operator
  Folders = {Home, Repo, Outside, d1, d2, d3}
  Leaves = {f}
  Labels = {a, b}
  RelativePaths <- SmallPaths
  Trees <- SmallTrees
  MaxChanges = 1
  Home = Home
  Repo = Repo
  Outside = Outside
  RootName = a
  Link = Link
  Scripts = {"s"}
  Inodes = {u, v}
  MaxEdits = 2
  Runs = {u, v}
  Surfaces = {"full", "project"}
  MaxSaves = 1
  MaxTries = 2
  Sources = {u, v}
  Texts = {c1, c2}
  MaxOthers = 1
  Odd = Odd
  MaxRewrites = 1
  MaxCalls = 3
SYMMETRY Symmetry
CHECK_DEADLOCK FALSE
INVARIANTS CompletedIsClean StaysBeneathRoot SuccessIsEarned JudgedByTheManifest
  SelectsWhatItNames OneWriterPerRepository
PROPERTIES LeavesOthersAlone SettingsSurvive
