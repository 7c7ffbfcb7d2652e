SPECIFICATION WatchSpec
CONSTANTS
  Reports <- Payloads
  NoReport = "none"
  QueueSize = 3
  MaxSessions = 2
  MaxReports = 4
INVARIANTS LatestReportArrives
CHECK_DEADLOCK FALSE
