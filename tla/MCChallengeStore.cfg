SPECIFICATION Spec
CONSTANTS
  alice = alice
  bob = bob
  anonymous = anonymous
  r1 = r1
  r2 = r2
  n1 = n1
  n2 = n2
  rent = rent
  Principals <- MCPrincipals
  Anonymous <- anonymous
  Roots <- MCRoots
  Nullifiers <- MCNullifiers
  Purposes <- MCPurposes
  registryId = 1
  MIN_CALL_INTERVAL = 1
  CHALLENGE_TTL = 2
  SECOND = 2
  MAX_PRUNE = 1
  MaxChallenges = 2
  MaxTime = 5
SYMMETRY MCSymmetry
INVARIANTS
  TypeOK
  SingleUse
  AcceptedAsIssued
  SpentIsAccepted
PROPERTIES
  KeepsPromise
  RefusalConsumesNothing
