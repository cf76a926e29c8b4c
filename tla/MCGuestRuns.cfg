SPECIFICATION Spec
CONSTANTS
  MaxU128 = 7
  CurvePoints <- MCCurvePoints
  Zero = "zero"
  MULTISIG_FORWARDER = "MSF"
  WRAP_FORWARDER = "WF"
  PA = "PA"
  MultisigForwarderLogicRef = "multisig_v1"
  WrapForwarderLogicRef = "wrap_v1"
  MULTISIG_V1 = "multisig_v1"
  WRAP_V1 = "wrap_v1"
  Requests <- MCRequests
  KeyLists <- MCKeyLists
  MaxReceipts = 2
INVARIANTS
  TypeOK
  ConsumedReceiptsAuthorised
  CreatedNotesSpendable
  CreatedNotesOwned
  InflowsFundCustody
  WrapReceiptsKeepCustody
  SpendsConserve
CHECK_DEADLOCK FALSE
