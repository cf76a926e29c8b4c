SPECIFICATION Spec
CONSTANTS
  PA = "PA"
  MULTISIG_FORWARDER = "MSF"
  WRAP_FORWARDER = "WF"
  MultisigForwarderLogicRef = "wrap_v1"
  WrapForwarderLogicRef = "wrap_v1"
  Tokens = {"token", "other"}
  Users = {"alice", "bob"}
  LogicRefs <- MCLogicRefs
  Amounts <- MCAmounts
  InitBalance = 1
INVARIANTS
  TypeOK
PROPERTIES
  CustodyLeavesByCarrier
  DepositsAreAllowed
