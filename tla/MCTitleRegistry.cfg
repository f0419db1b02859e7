SPECIFICATION Spec
CONSTANTS
  clerk = clerk
  anonymous = anonymous
  house = house
  sOwner = sOwner
  sBuyer = sBuyer
  rent = rent
  k1 = k1
  garbage = garbage
  NoKey = NoKey
  Principals <- MCPrincipals
  Officials <- MCOfficials
  Anonymous <- anonymous
  Properties <- MCProperties
  Secrets <- MCSecrets
  Filings <- MCFilings
  Purposes <- MCPurposes
  Keys <- MCOneKey
  BadKeys <- MCBadKeys
  OddKeys <- MCNoKeys
  registryId = 1
  treeDepth = 1
  MIN_CALL_INTERVAL = 1
  CHALLENGE_TTL = 2
  SECOND = 1
  MAX_PRUNE = 1
  Lifts = {0, 1}
  MaxTime = 5
  MaxChallenges = 2
  MaxGrants = 1
  MaxFilings = 2
INVARIANTS
  AcceptedWasClean
  ElementSpentOnce
  OpenIsUnspent
