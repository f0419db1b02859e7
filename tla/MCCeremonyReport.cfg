SPECIFICATION Spec
CONSTANTS
  alice = alice
  bob = bob
  outsider = outsider
  Operator = operator
  NobodyInParticular = nobody
  Unreadable = Unreadable
  Participants <- MCOne
  Outsiders <- MCOutsiders
  Secrets <- MCSecrets
  FixedParts <- MCFixedParts
  Names <- MCNames
  MaxInits = 1
  MaxRuns = 1
  MaxRounds = 2
  MaxInterventions = 1
INVARIANTS
  ReportedDeltaIsFinal
CHECK_DEADLOCK FALSE
