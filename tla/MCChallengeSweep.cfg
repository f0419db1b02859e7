SPECIFICATION FairSpec
CONSTANTS
  alice = alice
  bob = bob
  anonymous = anonymous
  r1 = r1
  r2 = r2
  n1 = n1
  n2 = n2
  rent = rent
  Principals <- MCOneCaller
  Anonymous <- anonymous
  Roots <- MCOneRoot
  Nullifiers <- MCOneNullifier
  Purposes <- MCPurposes
  registryId = 1
  MIN_CALL_INTERVAL = 1
  CHALLENGE_TTL = 2
  SECOND = 2
  MAX_PRUNE = 2
  MaxChallenges = 3
  MaxTime = 6
INVARIANTS
  KeptUntilExpiry
  SweepWindow
  NoncesDistinct
PROPERTIES
  SweepIsExact
  RequestsAreThrottled
  EveryChallengePruned
