SPECIFICATION Spec
CONSTANTS
  MaxU128 = 6
  CurvePoints <- MCCurvePoints
  Zero = "zero"
  MULTISIG_FORWARDER = "MSF"
  Witnesses <- RootWitnesses
INVARIANTS
  TagsUnderRoot
CHECK_DEADLOCK FALSE
