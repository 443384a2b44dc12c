SPECIFICATION FairSpec
CONSTANTS
  Calls = {c1, c2, c3}
  ChanCap = 1
  MaxEvents = 1
  MaxReconnects = 1
CHECK_DEADLOCK FALSE
INVARIANTS
  TypeOK
  OneReplyAwaited
  OwnReply
PROPERTY RequestsReturn
