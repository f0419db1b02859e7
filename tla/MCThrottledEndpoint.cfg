SPECIFICATION Spec
CONSTANTS
  alice = alice
  bob = bob
  anonymous = anonymous
  Principals <- MCPrincipals
  Anonymous <- anonymous
  MIN_CALL_INTERVAL = 2
  MaxTime = 7
SYMMETRY MCSymmetry
INVARIANTS
  Spacing
  StampsLatest
