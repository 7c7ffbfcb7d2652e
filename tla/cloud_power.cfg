SPECIFICATION Spec
CONSTANTS
  c1 = c1
  c2 = c2
  None = None
  Commands <- Two
  Requests <- PowerRequests
  Contents <- PowerContents
  MinOff = 2
  PendingTime = 3
  CommandTime = 1
  MaxAge = 3
  Ahead = 1
  Skews <- OneClock
  MaxTime = 4
INVARIANTS FeedbackMatchesPending
PROPERTIES RestRestart NoRepeatInDoubt
SYMMETRY Symmetry2
