SPECIFICATION Spec
CONSTANTS
  deployer = deployer
  alice = alice
  bob = bob
  Principals <- MCPrincipals
  MaxGrants = 4
  MaxTime = 1
INVARIANTS
  ControllerBootstraps
