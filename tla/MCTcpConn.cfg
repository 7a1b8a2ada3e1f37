SPECIFICATION FairSpec
CONSTANTS
  Client = {k1}
  Child = {c1}
  Table = Table
  Timers = Timers
  CTable = CTable
  CTimers = CTimers
  HasData = TRUE
  MaxTimes = 2
  LinkCap <- Narrow
INVARIANTS TypeOK Findable WalksEnd HandshakeComplete ReceivedOnce FinReceived
PROPERTIES AcceptWakes ConnectWakes ClosingEnds
CHECK_DEADLOCK FALSE
