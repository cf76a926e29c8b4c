--------------------------- MODULE ForwarderCalls ---------------------------
(***************************************************************************)
(* One external call of a forwarder contract: MultisigForwarder.sol and    *)
(* WrapForwarder.sol, with the ERC20 token they call (external), as an     *)
(* error or the balances it leaves.  A reverted call changes nothing.      *)
(***************************************************************************)
EXTENDS Integers, Functions

CONSTANTS
  PA,                  \* the protocol adapter both forwarders are deployed with
  MULTISIG_FORWARDER,  \* address of the MultisigForwarder
  WRAP_FORWARDER,      \* address of the WrapForwarder
  MultisigForwarderLogicRef,  \* wrapLogicRef the MultisigForwarder is deployed with
  WrapForwarderLogicRef    \* wrapLogicRef the WrapForwarder is deployed with

NoRevert == "none"

-----------------------------------------------------------------------------
(* The token: transfer and transferFrom of an ERC20 that moves exactly the *)
(* amount it is asked to move, or reverts.                                 *)

\* bal[<<token, account>>] after a transfer; from = to leaves it as it is.
Transferred(bal, token, from, to, amount) ==
  LET paid == [bal EXCEPT ![<<token, from>>] = @ - amount]
  IN  [paid EXCEPT ![<<token, to>>] = @ + amount]

CanTransfer(bal, token, from, amount) == bal[<<token, from>>] >= amount

-----------------------------------------------------------------------------
(* abi.decode: the call each of the forwarders makes of an input blob.     *)

TransferCall(blob) ==
  [decodes |-> blob.inner_ok, token |-> blob.token, to |-> blob.to,
   amount |-> blob.amount]

WrapCall(blob) ==
  [decodes |-> blob.inner_ok, op |-> blob.op, token |-> blob.token,
   from |-> blob.from, amount |-> blob.amount]

-----------------------------------------------------------------------------
(* MultisigForwarder.forwardCall(logicRef, input).  A call is the decoded  *)
(* input; decodes says whether abi.decode accepts it.                      *)

\* Fault: any logic may carry a call.
MultisigForwardErrorAnyLogic(sender, logicRef, call, bal) ==
  IF sender # PA THEN "OnlyPA"
  ELSE IF ~call.decodes THEN "Undecodable"
  ELSE IF ~CanTransfer(bal, call.token, MULTISIG_FORWARDER, call.amount)
    THEN "TransferFailed"
  ELSE NoRevert

MultisigForwardError(sender, logicRef, call, bal) ==
  IF sender # PA THEN "OnlyPA"
  ELSE IF logicRef # MultisigForwarderLogicRef THEN "WrongLogic"
  ELSE IF ~call.decodes THEN "Undecodable"
  ELSE IF ~CanTransfer(bal, call.token, MULTISIG_FORWARDER, call.amount)
    THEN "TransferFailed"
  ELSE NoRevert

\* Fault: the caller is paid.
MultisigForwardBalanceToCaller(call, bal) ==
  Transferred(bal, call.token, MULTISIG_FORWARDER, PA, call.amount)

MultisigForwardBalance(call, bal) ==
  Transferred(bal, call.token, MULTISIG_FORWARDER, call.to, call.amount)

-----------------------------------------------------------------------------
(* WrapForwarder.forwardCall(logicRef, input).  An op byte that is no      *)
(* member of the enum fails in abi.decode; allow[<<token, owner>>] is what *)
(* the owner lets the WrapForwarder take.                                  *)

\* Fault: the allowance of the depositor is not consulted.
WrapForwardErrorNoAllowance(sender, logicRef, call, bal, allow) ==
  IF sender # PA THEN "OnlyPA"
  ELSE IF logicRef # WrapForwarderLogicRef THEN "WrongLogic"
  ELSE IF ~call.decodes \/ call.op # "WRAP" THEN "Undecodable"
  ELSE IF ~CanTransfer(bal, call.token, call.from, call.amount)
    THEN "TransferFailed"
  ELSE NoRevert

WrapForwardError(sender, logicRef, call, bal, allow) ==
  IF sender # PA THEN "OnlyPA"
  ELSE IF logicRef # WrapForwarderLogicRef THEN "WrongLogic"
  ELSE IF ~call.decodes \/ call.op # "WRAP" THEN "Undecodable"
  ELSE IF \/ ~CanTransfer(bal, call.token, call.from, call.amount)
          \/ allow[<<call.token, call.from>>] < call.amount
    THEN "TransferFailed"
  ELSE NoRevert

\* Fault: the deposit stays with the forwarder that took it.
WrapForwardBalanceKept(call, bal) ==
  Transferred(bal, call.token, call.from, WRAP_FORWARDER, call.amount)

WrapForwardBalance(call, bal) ==
  Transferred(bal, call.token, call.from, MULTISIG_FORWARDER, call.amount)

WrapForwardAllowance(call, allow) ==
  [allow EXCEPT ![<<call.token, call.from>>] = @ - call.amount]

=============================================================================
