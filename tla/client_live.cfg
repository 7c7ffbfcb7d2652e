SPECIFICATION FairSpec
CONSTANTS
  c1 = c1
  c2 = c2
  None = None
  Commands <- CommandIds
  Requests <- LiveRequests
  Inputs <- LiveInputs
  MaxSessions = 1
  MaxUnits = 4
  ReadUnits = 3
  Spacing = 1
  MaxAge = 1
INVARIANTS TypeOK LockOwnership
PROPERTIES SpacedWrites SilentAfterClose CommandsEnd CloseEnds ImplementsContract
