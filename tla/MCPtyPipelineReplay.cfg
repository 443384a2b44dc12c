CONSTANTS
  Conns = {c1}
  Ptys = {p1}
  HIGH_WATERMARK = 3
  LOW_WATERMARK = 2
  MaxChunk = 1
  Bytes = {1, 2, 3, 4, 5, 6}
  ChannelCap = 3
  MaxOutput = 3
  MaxAttaches = 1
  MaxReloads = 1
SPECIFICATION FairSpec
INVARIANT DebtIsPayable
PROPERTY LedgerSpec
PROPERTY ReadersResume
CHECK_DEADLOCK FALSE
