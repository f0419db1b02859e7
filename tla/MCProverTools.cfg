SPECIFICATION Spec
CONSTANTS
  t1 = t1
  t2 = t2
  Terminals <- MCTerminals
  Owner <- MCOwner
  Owner0 <- MCOwner0
  Owner1 <- MCOwner1
  Challenge <- MCChallenge
  Missing = Missing
  Torn = Torn
  Values <- MCValues
  MaxKeys = 2
  MaxRuns = 4
  registryId = 1
  treeDepth = 3
  FrModulus = 37
  TwoN = 8
  Fq = 37
  NonResidue = 2
  ScalarBits = 4
  X_ABS = 2
  GroupOrder = 13
  CurveB <- MCCurveB
  TwistB <- MCTwistB
  beta <- MCBeta
  psi_x_coeff <- MCPsiX
  psi_y_coeff <- MCPsiY
  Rescalings <- MCRescalings
  LimbCount = 3
  Word = 4
  FlatModulus = 29
  DecodeField = 7
  DataWidth = 8
  PairingOrder = 3
  RATE = 2
  CAPACITY = 1
  FieldZero = 0
SYMMETRY MCSymmetry
CHECK_DEADLOCK FALSE
INVARIANTS
  KeysMatchWhenClean
  ChecksTell
  ExportsVerify
  OraclesAgree
  ArithmeticExact
  DecodingExact
  SpongesAgree
  HashesApart
