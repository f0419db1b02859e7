SPECIFICATION Spec
CONSTANTS
  p1 = p1
  p2 = p2
  p3 = p3
  p4 = p4
  ali = ali
  mona = mona
  house = house
  Properties <- MCThreeProperties
  Owners <- MCOwners
  Flags <- MCFlags
  Statuses <- MCStatuses
  Expiries <- MCExpiries
  Secrets <- MCSecrets
  PropertyIds <- MCPropertyIds
  Purposes <- MCPurposes
  Nonces <- MCNonces
  Timestamps <- MCTimestamps
  FrModulus = 37
  TwoN = 8
  registryId = 1
  treeDepth = 1
  MaxTime = 1
INVARIANTS
  WitnessReachesRoot
