SPECIFICATION Spec
CONSTANTS
  Cwds = {d1,d2}
  NoCwd = NoDir
  MaxRefresh = 3
  MaxVersion = 1
  MaxRuns = 3
  MaxCommands = 2
  Worktree = {w1,w2}
  None = None
  MaxActs = 4
  Hunks = 2
  MaxOps = 3
  Repo = {r1}
  NoRepo = NoRepo
  PullFile = {f1,f2}
  MaxConflicts = 2
  Dir = {d1,d2}
  NoDir = NoDir
  MaxMoves = 2
  Conflict = {k1,k2}
  MaxRenders = 1
  MaxPolls = 2
  Text = {"x","y"}
  MaxSegments = 2
  GraphSize = 4
  GraphColors = 10
  MaxParents = 3
  ClDir = {d1,d2}
  ClRow = {c1,c2}
  NoCommit = NoCommit
  MaxClActs = 3
  MaxClMoves = 1
  ExDir = {d1,d2}
  MaxEdits = 1
  MaxExActs = 2
  File = {f1,f2}
  MaxTexts = 1
  MaxGestures = 4
  MaxSearches = 3
  MaxBatches = 1
  MaxInputs = 3
INVARIANTS
  TypeOK
  GitActionsEndWell
  WorkIsKept
  HistoryIsDrawnTrue
  FilesAreCurrent
PROPERTIES
  GitViewNeverGoesBack
CHECK_DEADLOCK FALSE
