CONSTANTS
  Conns = {c1, c2}
  Ptys = {p1, p2}
  HIGH_WATERMARK = 3
  LOW_WATERMARK = 2
  Bytes = {1, 2}
SPECIFICATION BoundedFlowSpec
INVARIANT FlowTypeOK
INVARIANT PausedIsJustified
INVARIANT BehindIsPaused
PROPERTY Hysteresis
