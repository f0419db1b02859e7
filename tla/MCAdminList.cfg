SPECIFICATION Spec
CONSTANTS
  deployer = deployer
  alice = alice
  bob = bob
  Principals <- MCPrincipals
  MaxGrants = 4
  MaxTime = 1
SYMMETRY MCSymmetry
INVARIANTS
  NeverBricked
  BootstrappedOnce
  Lineage
PROPERTIES
  OneRemovedAtATime
