SPECIFICATION Spec
CONSTANTS
  alice = alice
  bob = bob
  outsider = outsider
  Operator = operator
  NobodyInParticular = nobody
  Unreadable = Unreadable
  Participants <- MCTwo
  Outsiders <- MCOutsiders
  Secrets <- MCSecrets
  FixedParts <- MCFixedParts
  Names <- MCNames
  MaxInits = 2
  MaxRuns = 1
  MaxRounds = 2
  MaxInterventions = 1
INVARIANTS
  NoRoundLost
  PublishedCopyRestores
  VerifiedIsWhole
  OneHonestSuffices
  AnnouncedIsPinned
CHECK_DEADLOCK FALSE
SYMMETRY MCSymmetry
