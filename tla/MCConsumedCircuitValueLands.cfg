SPECIFICATION Spec
CONSTANTS
  MaxU128 = 6
  CurvePoints <- MCCurvePoints
  Zero = "zero"
  MULTISIG_FORWARDER = "MSF"
  Witnesses <- MCWitnesses
INVARIANTS
  ValueLands
CHECK_DEADLOCK FALSE
