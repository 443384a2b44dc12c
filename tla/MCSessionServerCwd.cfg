SPECIFICATION FairSpec
CONSTANTS
  SessionIds = {s1}
  PaneIds = {k1, k2}
  PtyIds = {p1, p2}
  Dirs = {home, work}
  Home = home
  MaxDiskFaults = 0
PROPERTY
  CwdIsSaved
