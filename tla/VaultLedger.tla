---------------------------- MODULE VaultLedger ----------------------------
(***************************************************************************)
(* What the vault system promises, without notes, proofs or contracts:     *)
(* every vault owns an amount of the token, and loses some of it only by   *)
(* an order its signers granted, carried out once and to the letter.       *)
(***************************************************************************)
EXTENDS Integers

CONSTANTS
  Vaults, Payees,     \* who can own, who can be paid
  DepositQuantities   \* what a deposit may add to a vault

VARIABLES
  owned,    \* what each vault owns
  paid,     \* what each payee has received
  granted,  \* orders that k signers of their vault have approved
  spent     \* notes whose order was carried out

vars == <<owned, paid, granted, spent>>

Init ==
  /\ owned = [v \in Vaults |-> 0]
  /\ paid = [a \in Payees |-> 0]
  /\ granted = {}
  /\ spent = {}

Deposit(v, quantity) ==
  /\ UNCHANGED <<paid, granted, spent>>
  /\ owned' = [owned EXCEPT ![v] = @ + quantity]

\* A grant is never taken back.
Grant ==
  /\ UNCHANGED <<spent, paid, owned>>
  /\ granted \subseteq granted'

\* An order to spend one note: pay out, give to a vault, keep the change.
Spend(order) ==
  /\ order \in granted
  /\ order.note \notin spent
  /\ spent' = spent \cup {order.note}
  /\ LET rest == [owned EXCEPT ![order.note.vault] = @ - order.pay - order.give]
     IN  owned' = [rest EXCEPT ![order.to] = @ + order.give]
  /\ paid' = [paid EXCEPT ![order.payee] = @ + order.pay]
  /\ UNCHANGED granted

Next ==
  \/ Grant
  \/ \E v \in Vaults, quantity \in DepositQuantities : Deposit(v, quantity)
  \/ \E order \in granted : Spend(order)

Spec == Init /\ [][Next]_vars

=============================================================================
