SPECIFICATION FairSpec
CONSTANTS
  MaxU128 = 6
  CurvePoints <- MCCurvePoints
  Zero = "zero"
  MULTISIG_FORWARDER = "MSF"
  Witnesses <- MCWitnesses
INVARIANTS
  TypeOK
  KofNAuthorized
  Conserved
PROPERTIES
  AuthorisedCommits
  ImplementsAuthorization
CHECK_DEADLOCK FALSE
