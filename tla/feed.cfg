SPECIFICATION WatchSpec
CONSTANTS
  Reports <- Payloads
  NoReport = "none"
  QueueSize = 3
  MaxSessions = 3
  MaxReports = 4
INVARIANTS FirstSessionKeepsUp NoDisconnectLost
CHECK_DEADLOCK FALSE
