SPECIFICATION Spec
CONSTANTS
  MaxU128 = 7
  CurvePoints <- MCCurvePoints
  Zero = "zero"
  MULTISIG_FORWARDER = "MSF"
  WRAP_FORWARDER = "WF"
  PA = "PA"
  MultisigForwarderLogicRef = "wrap_v1"
  WrapForwarderLogicRef = "wrap_v1"
  MULTISIG_V1 = "multisig_v1"
  WRAP_V1 = "wrap_v1"
  Vaults = {"A", "B"}
  Label <- MCLabel
  Pubkeys <- MCPubkeys
  Token = "token"
  Depositors = {"alice"}
  Payees = {"payee", "other"}
  Donors = {"donor"}
  InitBalance = 4
  DepositQuantities <- MCDepositQuantities
  DepositAmounts <- MCDepositAmounts
  Splits <- MCSplits
  MaxDeposits = 1
  MaxApprovals = 3
  MaxProposals = 2
INVARIANTS
  WithdrawalsExecutable
CHECK_DEADLOCK FALSE
