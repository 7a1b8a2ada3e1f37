SPECIFICATION SpecUnread
CONSTANTS
  NSeg = 4
  SendLimit = 3
  DupLimit = 2
  MaxTimes = 2
  Rto <- MCRtoWindow
  SsThresh = 3
  AdvWnd = 3
  LinkCap = 3
  RcvCap = 4
  ReadLen = 1
INVARIANT TypeOK
INVARIANT UnackedKept
INVARIANT CountMatches
INVARIANT OfoSorted
INVARIANT PartialAckHasBuffer
PROPERTY StreamSpec
CHECK_DEADLOCK FALSE
