SPECIFICATION Spec
CONSTANTS
  Devices = {d1,d2}
  None = None
  MaxEvents = 2
  MaxOps = 5
  MaxChunks = 3
  MaxLinks = 2
  MaxToggles = 1
  TailRoom = 2
  HistoryRoom = 1
  BridgeRoom = 1
  Room = {r1,r2}
  MaxShCalls = 2
  MaxShDrops = 1
  MaxFlows = 3
  MaxPolls = 2
  MaxPrompts = 2
  MaxChanges = 2
  MaxRequests = 1
  NoSnapshot = NoSnapshot
  LogSession = {s1,s2}
  LogCacheSize = 1
  MaxLogClicks = 3
  MaxLogLoads = 1
  HookRow = {h1,h2}
  NoRow = NoRow
  MaxHookLoads = 2
  Url = {u1,u2}
  Blank = Blank
  MaxBvTabs = 2
  MaxBvActs = 5
  MaxBvDialogs = 2
INVARIANTS
  TypeOK
  TheFarSideIsCurrent
  WhoIsThereIsKnown
  DetailsMatchTheirRow
  BrowserShowsItsPage
SYMMETRY Symmetry
CHECK_DEADLOCK FALSE
