SPECIFICATION Spec
CONSTANTS
  c1 = c1
  c2 = c2
  None = None
  Commands <- CommandIds
  Requests <- SessionRequests
  Inputs <- SessionInputs
  MaxSessions = 2
  MaxUnits = 4
  ReadUnits = 3
  Spacing = 1
  MaxAge = 1
INVARIANTS ConfirmedByLaterReport TruthfulOutcome PendingDiesWithSession StreamAccounted
PROPERTIES AdmissibleWrites
SYMMETRY CommandSymmetry
