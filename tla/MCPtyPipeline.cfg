CONSTANTS
  Conns = {c1, c2}
  Ptys = {p1}
  HIGH_WATERMARK = 3
  LOW_WATERMARK = 2
  MaxChunk = 1
  Bytes = {1, 2, 3, 4}
  ChannelCap = 3
  MaxOutput = 4
  MaxAttaches = 0
  MaxReloads = 0
SPECIFICATION Spec
INVARIANT TypeOK
INVARIANT DebtIsPayable
INVARIANT ReadAheadIsBounded
INVARIANT OnlyServedConnsOwe
CHECK_DEADLOCK FALSE
