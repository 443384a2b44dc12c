SPECIFICATION Spec
CONSTANTS
  SessionIds = {s1, s2}
  PaneIds = {k1, k2}
  PtyIds = {p1, p2}
  Dirs = {home}
  Home = home
  MaxDiskFaults = 1
SYMMETRY Symmetry
INVARIANTS
  TypeOK
  PanesHavePtys
  DistinctSessions
  SessionsSurvive
  ActiveIsKnown
