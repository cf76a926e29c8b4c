-------------------------- MODULE Forwarders_proofs --------------------------
(***************************************************************************)
(* The forwarders never go below zero, and give tokens out and take them   *)
(* in only as they may, for any tokens, users, logic references, amounts.  *)
(***************************************************************************)
EXTENDS Forwarders, DataTheorems, TLAPS

\* The balances a transfer leaves, account by account.
LEMMA TransferredType ==
  ASSUME NEW bal \in Balances, NEW token \in Tokens,
         NEW from \in Accounts, NEW to \in Accounts, NEW amount \in Nat,
         CanTransfer(bal, token, from, amount)
  PROVE  Transferred(bal, token, from, to, amount)
           \in Balances
<1> USE DEF Balances
<1> DEFINE mid == [bal EXCEPT ![<<token, from>>] = @ - amount]
<1>1. bal[<<token, from>>] - amount \in Nat
  BY DEF CanTransfer
<1>2. mid \in [Tokens \X Accounts -> Nat]
  BY <1>1
<1>3. [mid EXCEPT ![<<token, to>>] = @ + amount] \in [Tokens \X Accounts -> Nat]
  <2> HIDE DEF mid
  <2> QED BY <1>2
<1> QED BY <1>3 DEF Transferred

\* Only the two accounts of a transfer change, by the amount, if they differ.
LEMMA TransferredValue ==
  ASSUME NEW bal \in Balances, NEW token \in Tokens,
         NEW from \in Accounts, NEW to \in Accounts, NEW amount \in Nat,
         NEW t \in Tokens, NEW a \in Accounts
  PROVE  Transferred(bal, token, from, to, amount)[<<t, a>>] =
           bal[<<t, a>>]
             - (IF t = token /\ a = from THEN amount ELSE 0)
             + (IF t = token /\ a = to THEN amount ELSE 0)
<1> USE DEF Balances
<1> DEFINE mid == [bal EXCEPT ![<<token, from>>] = @ - amount]
           p == <<token, from>>
           q == <<token, to>>
           r == <<t, a>>
<1>1. p \in Tokens \X Accounts /\ q \in Tokens \X Accounts
      /\ r \in Tokens \X Accounts
  OBVIOUS
<1>2. /\ r = p <=> t = token /\ a = from
      /\ r = q <=> t = token /\ a = to
  OBVIOUS
<1>3. Transferred(bal, token, from, to, amount)
        = [mid EXCEPT ![q] = @ + amount]
  BY DEF Transferred
<1>4. mid[r] = bal[r] - (IF r = p THEN amount ELSE 0)
  <2>1. mid = [bal EXCEPT ![p] = @ - amount] /\ bal[r] \in Nat
    BY <1>1
  <2> HIDE DEF mid, p, r
  <2> QED BY <1>1, <2>1
<1>5. DOMAIN mid = Tokens \X Accounts /\ mid[r] \in Int
  BY <1>1, <1>4
<1>6. [mid EXCEPT ![q] = @ + amount][r]
        = mid[r] + (IF r = q THEN amount ELSE 0)
  <2> HIDE DEF mid, q, r
  <2> QED BY <1>1, <1>5
<1> QED BY <1>2, <1>3, <1>4, <1>6

\* TypeOK holds at deployment.
LEMMA InitType == Init => TypeOK
BY AmountsAssumption DEF Init, TypeOK, Balances

\* TypeOK is inductive: one step per action.
LEMMA NextType == TypeOK /\ [Next]_vars => TypeOK'
<1> SUFFICES ASSUME TypeOK, [Next]_vars PROVE TypeOK'
  OBVIOUS
<1>1. ASSUME NEW s \in Senders, NEW l \in LogicRefs, NEW c \in MultisigCalls,
             MultisigForward(s, l, c)
      PROVE  TypeOK'
  <2>1. /\ c.token \in Tokens /\ c.to \in Accounts /\ c.amount \in Nat
        /\ MULTISIG_FORWARDER \in Accounts
    BY AmountsAssumption DEF MultisigCalls, Accounts
  <2>2. CanTransfer(balance, c.token, MULTISIG_FORWARDER, c.amount)
    BY <1>1 DEF MultisigForward, MultisigForwardError, NoRevert
  <2> QED
    BY <1>1, <2>1, <2>2, TransferredType
    DEF TypeOK, MultisigForward, MultisigForwardBalance
<1>2. ASSUME NEW s \in Senders, NEW l \in LogicRefs, NEW c \in WrapCalls,
             WrapForward(s, l, c)
      PROVE  TypeOK'
  <2>1. /\ c.token \in Tokens /\ c.from \in Accounts /\ c.amount \in Nat
        /\ MULTISIG_FORWARDER \in Accounts
    BY AmountsAssumption DEF WrapCalls, Accounts
  <2>2. /\ CanTransfer(balance, c.token, c.from, c.amount)
        /\ ~(allowance[<<c.token, c.from>>] < c.amount)
    BY <1>2 DEF WrapForward, WrapForwardError, NoRevert
  <2>3. balance' \in Balances
    BY <1>2, <2>1, <2>2, TransferredType
    DEF TypeOK, WrapForward, WrapForwardBalance
  <2>4. allowance[<<c.token, c.from>>] - c.amount \in Nat
    BY <2>1, <2>2 DEF TypeOK, Balances
  <2> QED
    BY <1>2, <2>1, <2>3, <2>4
    DEF TypeOK, Balances, WrapForward, WrapForwardAllowance
<1>3. ASSUME NEW t \in Tokens, NEW u \in Users, NEW a \in Amounts,
             Approve(t, u, a)
      PROVE  TypeOK'
  BY <1>3, AmountsAssumption DEF TypeOK, Balances, Approve
<1>4. ASSUME NEW t \in Tokens, NEW u \in Users, NEW to \in Accounts,
             NEW a \in Amounts, UserTransfer(t, u, to, a)
      PROVE  TypeOK'
  <2>1. u \in Accounts /\ a \in Nat
    BY AmountsAssumption DEF Accounts
  <2> QED BY <1>4, <2>1, TransferredType DEF TypeOK, UserTransfer
<1>5. CASE UNCHANGED vars
  BY <1>5 DEF vars, TypeOK
<1> QED BY <1>1, <1>2, <1>3, <1>4, <1>5 DEF Next

\* No sequence of calls takes a balance or an allowance below zero.
THEOREM TypeCorrect == Spec => []TypeOK
<1> QED BY InitType, NextType, PTL DEF Spec

\* Only the payer of a transfer can have less after it, and not if it pays itself.
LEMMA OnlyPayerLoses ==
  ASSUME NEW bal \in Balances, NEW token \in Tokens,
         NEW from \in Accounts, NEW to \in Accounts, NEW amount \in Nat,
         NEW t \in Tokens, NEW a \in Accounts,
         Transferred(bal, token, from, to, amount)[<<t, a>>] < bal[<<t, a>>]
  PROVE  t = token /\ a = from /\ a # to
<1> DEFINE out == IF t = token /\ a = from THEN amount ELSE 0
           in == IF t = token /\ a = to THEN amount ELSE 0
<1>1. Transferred(bal, token, from, to, amount)[<<t, a>>]
        = bal[<<t, a>>] - out + in
  BY TransferredValue
<1>2. bal[<<t, a>>] \in Nat
  BY DEF Balances
<1>3. out \in Nat /\ in \in Nat
  OBVIOUS
<1>4. out # 0 /\ out # in
  <2> HIDE DEF out, in
  <2> QED BY <1>1, <1>2, <1>3
<1> QED BY <1>4

\* What a transfer changes, told as what each account has gained.
LEMMA TransferGain ==
  ASSUME balance \in Balances, NEW token \in Tokens,
         NEW from \in Accounts, NEW to \in Accounts, NEW amount \in Nat,
         balance' = Transferred(balance, token, from, to, amount),
         NEW t \in Tokens, NEW loser \in Accounts, Gained(t, loser) < 0
  PROVE  /\ t = token /\ loser = from /\ loser # to
         /\ Gained(t, loser) = -amount
         /\ Gained(t, to) = amount
<1>1. \A a \in Accounts : balance[<<t, a>>] \in Nat
  BY DEF Balances
<1>2. balance'[<<t, loser>>] \in Int
  BY <1>1, TransferredValue
<1>3. t = token /\ loser = from /\ loser # to
  <2>1. balance'[<<t, loser>>] < balance[<<t, loser>>]
    BY <1>1, <1>2 DEF Gained
  <2> QED BY <2>1, OnlyPayerLoses
<1>4. /\ balance'[<<t, loser>>] = balance[<<t, loser>>] - amount
      /\ balance'[<<t, to>>] = balance[<<t, to>>] + amount
  BY <1>1, <1>3, TransferredValue
<1> QED BY <1>1, <1>3, <1>4 DEF Gained

\* A step that lowers the custody is a call of the protocol adapter.
LEMMA CustodyStep ==
  ASSUME TypeOK, [Next]_vars, NEW t \in Tokens, Gained(t, MULTISIG_FORWARDER) < 0
  PROVE  /\ ServedCarrier(MultisigForwarderLogicRef)
         /\ \E a \in Accounts : Gained(t, a) = -Gained(t, MULTISIG_FORWARDER)
<1>1. balance \in Balances /\ MULTISIG_FORWARDER \in Accounts
  BY DEF TypeOK, Accounts
<1>2. balance[<<t, MULTISIG_FORWARDER>>] \in Nat
  BY <1>1 DEF Balances
<1>3. ASSUME NEW s \in Senders, NEW l \in LogicRefs, NEW c \in MultisigCalls,
             MultisigForward(s, l, c)
      PROVE  /\ ServedCarrier(MultisigForwarderLogicRef)
             /\ \E a \in Accounts : Gained(t, a) = -Gained(t, MULTISIG_FORWARDER)
  <2>1. s = PA /\ l = MultisigForwarderLogicRef
    BY <1>3 DEF MultisigForward, MultisigForwardError, NoRevert
  <2>2. ServedCarrier(MultisigForwarderLogicRef)
    BY <1>3, <2>1 DEF MultisigForward, ServedCarrier
  <2>3. c.token \in Tokens /\ c.to \in Accounts /\ c.amount \in Nat
    BY AmountsAssumption DEF MultisigCalls
  <2>4. balance' = Transferred(balance, c.token, MULTISIG_FORWARDER, c.to,
                               c.amount)
    BY <1>3 DEF MultisigForward, MultisigForwardBalance
  <2>5. /\ Gained(t, MULTISIG_FORWARDER) = -c.amount
        /\ Gained(t, c.to) = c.amount
    BY <1>1, <2>3, <2>4, TransferGain
  <2> QED BY <2>2, <2>3, <2>5
<1>4. ASSUME NEW s \in Senders, NEW l \in LogicRefs, NEW c \in WrapCalls,
             WrapForward(s, l, c)
      PROVE  FALSE
  <2>1. c.token \in Tokens /\ c.from \in Accounts /\ c.amount \in Nat
    BY AmountsAssumption DEF WrapCalls
  <2>2. balance' = Transferred(balance, c.token, c.from, MULTISIG_FORWARDER,
                               c.amount)
    BY <1>4 DEF WrapForward, WrapForwardBalance
  <2> QED BY <1>1, <2>1, <2>2, TransferGain
<1>5. ASSUME NEW tt \in Tokens, NEW u \in Users, NEW a \in Amounts,
             Approve(tt, u, a)
      PROVE  FALSE
  BY <1>2, <1>5 DEF Approve, Gained
<1>6. ASSUME NEW tt \in Tokens, NEW u \in Users, NEW to \in Accounts,
             NEW a \in Amounts, UserTransfer(tt, u, to, a)
      PROVE  FALSE
  <2>1. u \in Accounts /\ a \in Nat /\ u # MULTISIG_FORWARDER
    BY AmountsAssumption, DeploymentAssumption DEF Accounts
  <2>2. balance' = Transferred(balance, tt, u, to, a)
    BY <1>6 DEF UserTransfer
  <2> QED BY <1>1, <2>1, <2>2, TransferGain
<1>7. CASE UNCHANGED vars
  BY <1>2, <1>7 DEF vars, Gained
<1> QED BY <1>3, <1>4, <1>5, <1>6, <1>7 DEF Next

\* The custody of the vaults leaves the MultisigForwarder only by a call of
\* the protocol adapter for the deployed carrier logic, to one account.
THEOREM CustodyGuarded == Spec => CustodyLeavesByCarrier
<1>1. TypeOK /\ [Next]_vars =>
        [\A t \in Tokens : Gained(t, MULTISIG_FORWARDER) < 0 =>
           /\ ServedCarrier(MultisigForwarderLogicRef)
           /\ \E a \in Accounts :
                Gained(t, a) = -Gained(t, MULTISIG_FORWARDER)]_vars
  BY CustodyStep
<1> QED BY <1>1, TypeCorrect, PTL DEF Spec, CustodyLeavesByCarrier

\* A step that takes from a user is a token holder's, or a deposit it allowed.
LEMMA UserStep ==
  ASSUME TypeOK, [Next]_vars, NEW t \in Tokens, NEW u \in Users, Gained(t, u) < 0
  PROVE  \/ served' = NoCall
         \/ /\ ServedCarrier(WrapForwarderLogicRef)
            /\ allowance[<<t, u>>]' - allowance[<<t, u>>] = Gained(t, u)
            /\ Gained(t, MULTISIG_FORWARDER) = -Gained(t, u)
<1>1. /\ balance \in Balances /\ allowance \in Balances
      /\ u \in Accounts /\ MULTISIG_FORWARDER \in Accounts
      /\ u # MULTISIG_FORWARDER
  BY DeploymentAssumption DEF TypeOK, Accounts
<1>2. balance[<<t, u>>] \in Nat /\ allowance[<<t, u>>] \in Nat
  BY <1>1 DEF Balances
<1>3. ASSUME NEW s \in Senders, NEW l \in LogicRefs, NEW c \in MultisigCalls,
             MultisigForward(s, l, c)
      PROVE  FALSE
  <2>1. c.token \in Tokens /\ c.to \in Accounts /\ c.amount \in Nat
    BY AmountsAssumption DEF MultisigCalls
  <2>2. balance' = Transferred(balance, c.token, MULTISIG_FORWARDER, c.to,
                               c.amount)
    BY <1>3 DEF MultisigForward, MultisigForwardBalance
  <2> QED BY <1>1, <2>1, <2>2, TransferGain
<1>4. ASSUME NEW s \in Senders, NEW l \in LogicRefs, NEW c \in WrapCalls,
             WrapForward(s, l, c)
      PROVE  /\ ServedCarrier(WrapForwarderLogicRef)
             /\ allowance[<<t, u>>]' - allowance[<<t, u>>] = Gained(t, u)
             /\ Gained(t, MULTISIG_FORWARDER) = -Gained(t, u)
  <2>1. c.token \in Tokens /\ c.from \in Accounts /\ c.amount \in Nat
    BY AmountsAssumption DEF WrapCalls
  <2>2. balance' = Transferred(balance, c.token, c.from, MULTISIG_FORWARDER,
                               c.amount)
    BY <1>4 DEF WrapForward, WrapForwardBalance
  <2>3. /\ t = c.token /\ u = c.from
        /\ Gained(t, u) = -c.amount
        /\ Gained(t, MULTISIG_FORWARDER) = c.amount
    BY <1>1, <2>1, <2>2, TransferGain
  <2>4. s = PA /\ l = WrapForwarderLogicRef
    BY <1>4 DEF WrapForward, WrapForwardError, NoRevert
  <2>5. ServedCarrier(WrapForwarderLogicRef)
    BY <1>4, <2>4 DEF WrapForward, ServedCarrier
  <2>6. allowance' = [allowance EXCEPT ![<<t, u>>] = @ - c.amount]
    BY <1>4, <2>3 DEF WrapForward, WrapForwardAllowance
  <2>7. allowance'[<<t, u>>] = allowance[<<t, u>>] - c.amount
    BY <1>1, <2>6 DEF Balances
  <2> QED BY <1>2, <2>1, <2>3, <2>5, <2>7
<1>5. ASSUME NEW tt \in Tokens, NEW o \in Users, NEW a \in Amounts,
             Approve(tt, o, a)
      PROVE  served' = NoCall
  BY <1>5 DEF Approve
<1>6. ASSUME NEW tt \in Tokens, NEW o \in Users, NEW to \in Accounts,
             NEW a \in Amounts, UserTransfer(tt, o, to, a)
      PROVE  served' = NoCall
  BY <1>6 DEF UserTransfer
<1>7. CASE UNCHANGED vars
  BY <1>2, <1>7 DEF vars, Gained
<1> QED BY <1>3, <1>4, <1>5, <1>6, <1>7 DEF Next

\* Whatever a forwarder takes from an owner it had allowed, and it all reaches
\* the custody of the vaults.
THEOREM DepositsGuarded == Spec => DepositsAreAllowed
<1>1. TypeOK /\ [Next]_vars =>
        [\A t \in Tokens, u \in Users : Gained(t, u) < 0 =>
           \/ served' = NoCall
           \/ /\ ServedCarrier(WrapForwarderLogicRef)
              /\ allowance[<<t, u>>]' - allowance[<<t, u>>] = Gained(t, u)
              /\ Gained(t, MULTISIG_FORWARDER) = -Gained(t, u)]_vars
  BY UserStep
<1> QED BY <1>1, TypeCorrect, PTL DEF Spec, DepositsAreAllowed

=============================================================================
