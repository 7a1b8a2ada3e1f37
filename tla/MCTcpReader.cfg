SPECIFICATION FairSpec
CONSTANTS
  NSeg = 2
  SendLimit = 2
  DupLimit = 2
  MaxTimes = 3
  Rto <- MCRtoThreads
  SsThresh = 3
  AdvWnd = 3
  LinkCap = 2
  RcvCap = 3
  ReadLen = 1
PROPERTY ReaderServed
CHECK_DEADLOCK FALSE
