SPECIFICATION FairClientSpec
CONSTANTS
  clerk = clerk
  tenant = tenant
  anonymous = anonymous
  h0 = h0
  h1 = h1
  s0 = s0
  s1 = s1
  k1 = k1
  odd = odd
  NoKey = NoKey
  Principals <- MCPrincipals
  Officials <- MCOfficials
  Anonymous <- anonymous
  ClientPrincipal <- tenant
  Properties <- MCProperties
  Secrets <- MCSecrets
  Owner0 <- MCOwner0
  Owner1 <- MCOwner1
  Methods <- MCMethods
  Filings <- MCFilings
  Purposes <- MCPurposes
  Keys <- MCKeys
  OddKeys <- MCOddKeys
  BadKeys <- MCNone
  registryId = 1
  treeDepth = 2
  FrModulus = 37
  TwoN = 8
  MIN_CALL_INTERVAL = 1
  CHALLENGE_TTL = 1
  SECOND = 1
  MAX_PRUNE = 1
  Lifts = {0}
  MaxTime = 3
  MaxChallenges = 2
  MaxGrants = 1
  MaxFilings = 2
PROPERTIES
  KeyInForce
  HonestAttemptHonoured
  AttemptEnds
CHECK_DEADLOCK FALSE
