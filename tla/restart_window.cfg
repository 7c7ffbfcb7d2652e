SPECIFICATION Spec
CONSTANTS
  Requests <- PowerRequests
  Reports <- PowerReports
  NoReport <- NoReportYet
  QueueSize = 8
  AllowPower = TRUE
  SharedReads = FALSE
  MaxSessions = 1
  MaxReports = 4
  MaxCalls = 2
  MaxAge = 1
  CmdTimeout = 1
  MinOff = 2
  PendingTime = 3
PROPERTIES OffIntervalKept
CHECK_DEADLOCK FALSE
