SPECIFICATION Spec
CONSTANTS
  Requests <- PowerRequests
  Reports <- DriftReports
  NoReport <- NoReportYet
  QueueSize = 8
  AllowPower = TRUE
  SharedReads = TRUE
  MaxSessions = 1
  MaxReports = 3
  MaxCalls = 2
  MaxAge = 1
  CmdTimeout = 1
  MinOff = 2
  PendingTime = 3
INVARIANTS FeedbackMatchesPending
PROPERTIES RestRestart NoRepeatInDoubt ViewMovesForward UnloadIsSafe
CHECK_DEADLOCK FALSE
