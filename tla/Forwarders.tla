----------------------------- MODULE Forwarders -----------------------------
(***************************************************************************)
(* The two singleton forwarders on chain, called by anybody: the protocol  *)
(* adapter, token holders and strangers, in any order, with any logic      *)
(* reference and any input.                                                *)
(***************************************************************************)
EXTENDS ForwarderCalls

CONSTANTS
  Tokens,      \* ERC20 contracts
  Users,       \* accounts that own themselves; PA and forwarders are not users
  LogicRefs,   \* logic references a caller may pass
  Amounts,     \* amounts a caller may ask for
  InitBalance  \* what every user holds of every token at the start

ASSUME DeploymentAssumption ==
  /\ PA \notin Users
  /\ MULTISIG_FORWARDER \notin Users
  /\ WRAP_FORWARDER \notin Users
  /\ MULTISIG_FORWARDER # WRAP_FORWARDER
  /\ MULTISIG_FORWARDER # PA
  /\ WRAP_FORWARDER # PA

ASSUME AmountsAssumption == Amounts \subseteq Nat /\ InitBalance \in Nat

Accounts == Users \cup {PA, MULTISIG_FORWARDER, WRAP_FORWARDER}

\* Who may be msg.sender of a forwardCall.
Senders == Users \cup {PA}

MultisigCalls ==
  [decodes : BOOLEAN, token : Tokens, to : Accounts, amount : Amounts]

WrapCalls ==
  [decodes : BOOLEAN, op : {"WRAP", "other"}, token : Tokens,
   from : Accounts, amount : Amounts]

\* What an ERC20 may hold for its accounts.
Balances == [Tokens \X Accounts -> Nat]

VARIABLES
  balance,    \* balance[<<token, account>>] of the ERC20s
  allowance,  \* allowance[<<token, owner>>] granted to the WrapForwarder
  served      \* history: who called the forwarder in the last step, and for
              \* which logic; NoCall after a step of a token holder

vars == <<balance, allowance, served>>

NoCall == [sender |-> "nobody", logic |-> "none"]

-----------------------------------------------------------------------------
Init ==
  /\ balance = [p \in Tokens \X Accounts |->
                  IF p[2] \in Users THEN InitBalance ELSE 0]
  /\ allowance = [p \in Tokens \X Accounts |-> 0]
  /\ served = NoCall

\* MultisigForwarder.forwardCall; a call that reverts leaves no trace.
MultisigForward(sender, logicRef, call) ==
  /\ MultisigForwardError(sender, logicRef, call, balance) = NoRevert
  /\ balance' = MultisigForwardBalance(call, balance)
  /\ served' = [sender |-> sender, logic |-> logicRef]
  /\ UNCHANGED allowance

\* WrapForwarder.forwardCall.
WrapForward(sender, logicRef, call) ==
  /\ WrapForwardError(sender, logicRef, call, balance, allowance) = NoRevert
  /\ balance' = WrapForwardBalance(call, balance)
  /\ allowance' = WrapForwardAllowance(call, allowance)
  /\ served' = [sender |-> sender, logic |-> logicRef]

\* An owner lets the WrapForwarder take amount.  Only an account that acts for
\* itself can: neither forwarder ever calls approve.
Approve(token, owner, amount) ==
  /\ allowance' = [allowance EXCEPT ![<<token, owner>>] = amount]
  /\ served' = NoCall
  /\ UNCHANGED balance

\* An owner moves tokens of its own, to a forwarder too.
UserTransfer(token, owner, to, amount) ==
  /\ CanTransfer(balance, token, owner, amount)
  /\ balance' = Transferred(balance, token, owner, to, amount)
  /\ served' = NoCall
  /\ UNCHANGED allowance

Next ==
  \/ \E s \in Senders, l \in LogicRefs, c \in MultisigCalls :
       MultisigForward(s, l, c)
  \/ \E s \in Senders, l \in LogicRefs, c \in WrapCalls : WrapForward(s, l, c)
  \/ \E t \in Tokens, u \in Users, a \in Amounts : Approve(t, u, a)
  \/ \E t \in Tokens, u \in Users, to \in Accounts, a \in Amounts :
       UserTransfer(t, u, to, a)

Spec == Init /\ [][Next]_vars

-----------------------------------------------------------------------------
(* Properties. *)

\* No balance and no allowance is ever negative.
TypeOK ==
  /\ balance \in Balances
  /\ allowance \in Balances
  /\ served \in [sender : Senders, logic : LogicRefs] \cup {NoCall}

\* What account a has gained of token t by a step.
Gained(t, a) == balance[<<t, a>>]' - balance[<<t, a>>]

ServedCarrier(logicRef) == served' = [sender |-> PA, logic |-> logicRef]

\* The tokens of the vaults leave the MultisigForwarder only when the protocol
\* adapter asks for a carrier of the deployed logic, and whatever leaves it
\* reaches one account (MultisigForwarder.sol:29-37): no other caller, no
\* other logic, no deposit and no transfer of a token holder can lower it.
CustodyLeavesByCarrier ==
  [][\A t \in Tokens : Gained(t, MULTISIG_FORWARDER) < 0 =>
       /\ ServedCarrier(MultisigForwarderLogicRef)
       /\ \E a \in Accounts : Gained(t, a) = -Gained(t, MULTISIG_FORWARDER)]_vars

\* Whatever a forwarder takes from an owner, the owner had allowed: a deposit
\* takes the same amount from the balance and from the allowance of the
\* depositor, only for the adapter and the deployed logic, and all of it
\* reaches the MultisigForwarder (WrapForwarder.sol:35-45).
DepositsAreAllowed ==
  [][\A t \in Tokens, u \in Users : Gained(t, u) < 0 =>
       \/ served' = NoCall
       \/ /\ ServedCarrier(WrapForwarderLogicRef)
          /\ allowance[<<t, u>>]' - allowance[<<t, u>>] = Gained(t, u)
          /\ Gained(t, MULTISIG_FORWARDER) = -Gained(t, u)]_vars

=============================================================================
