SPECIFICATION FairSpec
CONSTANTS
  Requests <- StartRequests
  Reports <- PowerReports
  NoReport <- NoReportYet
  QueueSize = 8
  AllowPower = TRUE
  SharedReads = TRUE
  MaxSessions = 2
  MaxReports = 2
  MaxCalls = 1
  MaxAge = 0
  CmdTimeout = 1
  MinOff = 1
  PendingTime = 2
INVARIANTS ShownIsLatest
PROPERTIES ImplementsUnload PendingEnds StaleIsShown
CHECK_DEADLOCK FALSE
