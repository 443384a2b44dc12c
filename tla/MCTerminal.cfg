SPECIFICATION Spec
CONSTANTS
  MaxSessions = 3
  MaxPanes = 2
  MaxOps = 2
  RemoteTab = RemoteTab
  None = None
  MaxEntries = 3
  MaxAddons = 5
  Retries = 2
  Terms = {t1,t2}
  MaxPages = 3
  MaxGlyphs = 6
  MaxSize = 2
  MaxLayouts = 5
  MaxCommands = 3
  Stdin = Stdin
  Sessions = {s1,s2}
  NoSession = NoSession
  Grace = 2
  Threshold = 2
  MaxTime = 6
  MaxTexts = 2
  MaxDrops = 2
  MaxKeys = 3
  MaxMarks = 1
  MaxLetters = 4
  MaxToggles = 2
  AcPane = {local,remote}
  Remote = {remote}
  NoPane = NoPane
  MaxLine = 2
  MaxAcKeys = 3
  MaxFailures = 2
  MaxTasks = 3
  MAX_ENTRIES = 2
  ChWord = {"ls"}
  ChStyle = {1,2}
  MaxChActs = 3
  MaxChLoads = 2
  MaxChFaults = 1
INVARIANTS
  TypeOK
  TabsFollowTheServer
  RenderersAreCurrent
  InputArrivesOnce
  
CHECK_DEADLOCK FALSE
