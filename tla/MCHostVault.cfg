SPECIFICATION FairSpec
CONSTANTS
  MaxU128 = 4
  CurvePoints <- MCCurvePoints
  Zero = 0
  MULTISIG_FORWARDER = "MSF"
  MaxU8 = 255
  Token = "token"
  Recipient = "payee"
  Quantities <- MCQuantities
INVARIANTS
  SpendsAuthorised
PROPERTIES
  SeedsEnd
CHECK_DEADLOCK FALSE
