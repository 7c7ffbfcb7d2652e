SPECIFICATION FairSpec
CONSTANTS
  e1 = e1
  e2 = e2
  x1 = x1
  None = None
  Entries <- TwoEntries
  Addresses <- OneAddress
  Stored <- OneStored
  MaxQueued = 1
  MaxAsked = 3
INVARIANTS OneCoordinator PermissionIsGiven ListenersDiffer
PROPERTIES ProfileComesIntoForce
CHECK_DEADLOCK FALSE
