SPECIFICATION FairSpec
CONSTANTS
  NSeg = 2
  SendLimit = 1
  DupLimit = 2
  MaxTimes = 2
  Rto <- MCRtoWindow
  SsThresh = 3
  AdvWnd = 3
  LinkCap = 2
  RcvCap = 3
  ReadLen = 1
PROPERTY AckedOrGivenUp
PROPERTY WriterProceeds
CHECK_DEADLOCK FALSE
