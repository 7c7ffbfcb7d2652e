SPECIFICATION FairSpec
CONSTANTS
  c1 = c1
  c2 = c2
  None = None
  Commands <- Two
  Requests <- TargetRequests
  Contents <- TargetContents
  MinOff = 1
  PendingTime = 2
  CommandTime = 1
  MaxAge = 1
  Ahead = 0
  Skews <- TwoClocks
  MaxTime = 2
PROPERTIES ReportedByLaterSample ImplementsUnload
