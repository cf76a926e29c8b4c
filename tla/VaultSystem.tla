---------------------------- MODULE VaultSystem ----------------------------
(***************************************************************************)
(* The vaults at work.  Depositors wrap tokens into vault notes, the host  *)
(* proposes spends of notes, signers sign them one by one and out of step, *)
(* an assembler submits what it has collected, and the protocol adapter    *)
(* executes a whole transaction or nothing of it: the proofs of both       *)
(* guests, the nullifier set, the balance of every kind, and the calls of  *)
(* the two forwarders.                                                     *)
(*                                                                         *)
(* The guests are CircuitBranches and the declarative reading of the       *)
(* consumed branch, which ConsumedCircuit implements.  The adapter and the *)
(* compliance circuit are external.                                        *)
(***************************************************************************)
EXTENDS CircuitBranches, FiniteSets

CONSTANTS
  PA,                         \* the protocol adapter
  MultisigForwarderLogicRef,  \* wrapLogicRef of the MultisigForwarder
  WrapForwarderLogicRef,      \* wrapLogicRef of the WrapForwarder
  MULTISIG_V1, WRAP_V1,       \* the image ids of the two guests
  Vaults,                     \* names of the vaults
  Label,                      \* Label[v] is the label preimage of vault v
  Pubkeys,                    \* Pubkeys[v] are its sorted pubkeys
  Token,                      \* the ERC20 all these vaults hold
  Depositors, Payees,         \* EVM accounts
  Donors,                     \* accounts that pay the forwarder directly
  InitBalance,                \* what a depositor holds, and allows to wrap
  DepositQuantities,          \* quantities of the notes that deposits create
  DepositAmounts,             \* amounts of tokens that deposits wrap
  Splits,                     \* <<pay, give>>: out to the EVM, to a recipient
  MaxDeposits, MaxApprovals,  \* bounds of the exploration: deposits into a
  MaxProposals                \* vault, signatures given, proposals signed

\* A vault is its label, made by LabelPreimage::new.
ASSUME VaultsAssumption ==
  /\ \A v \in Vaults :
       /\ Pubkeys[v] \in Seq(Nat)
       /\ LabelError(Label[v].k, Pubkeys[v], Label[v].salt) = "none"
       /\ Label[v] = LabelPreimage(Token, Label[v].k, Pubkeys[v], Label[v].salt)
  /\ \A u, v \in Vaults : Label[u] = Label[v] => u = v

\* The accounts have one part each.
ASSUME AccountsAssumption ==
  /\ MULTISIG_FORWARDER # WRAP_FORWARDER
  /\ MULTISIG_FORWARDER \notin Depositors \cup Payees \cup Donors
  /\ Depositors \cap Payees = {}
  /\ Donors \cap (Depositors \cup Payees) = {}
  /\ Depositors # {} /\ IsFiniteSet(Depositors) /\ IsFiniteSet(Donors)

\* Quantities are those of resources, amounts are not negative.
ASSUME AmountsAssumption ==
  /\ InitBalance \in Nat
  /\ DepositQuantities \subseteq Quantity
  /\ DepositAmounts \subseteq Quantity
  /\ Splits \subseteq Nat \X Nat

Chain == INSTANCE ForwarderCalls

Accounts ==
  Depositors \cup Payees \cup Donors \cup {PA, MULTISIG_FORWARDER, WRAP_FORWARDER}

VARIABLES
  notes,       \* vault notes created so far: vault, quantity and nonce
  nullifiers,  \* the adapter's nullifier set
  balance,     \* ERC20 balances of the accounts
  allowance,   \* what each depositor still lets the WrapForwarder take
  approvals,   \* signatures collected so far: who signed which proposal
  executed     \* proposals the adapter has executed

vars == <<notes, nullifiers, balance, allowance, approvals, executed>>

-----------------------------------------------------------------------------
(* Resources.  A created resource takes its nonce from the resource it is  *)
(* paired with, so that nonces never repeat: here, the nonce of that note  *)
(* and the part the resource has in the action.                            *)

Derived(nonce, part) == <<nonce, part>>

DepositNonce(j) == <<j>>

Resource(v, logic, quantity, nonce, ephemeral) ==
  [logic_ref     |-> logic,
   label_ref     |-> label_ref(Label[v]),
   quantity      |-> quantity,
   is_ephemeral  |-> ephemeral,
   nonce         |-> nonce,
   nk_commitment |-> nullifier_key_commitment(Label[v])]

\* TestVault::build_resource, with the image id of the guest that proves its
\* spends in the place of the fixture's placeholder.
NoteResource(note) ==
  Resource(note.vault, MULTISIG_V1, note.quantity, note.nonce, FALSE)

NullifierOf(note) ==
  nullifier(NoteResource(note), nullifier_key(Label[note.vault]))

Spent(note) == NullifierOf(note) \in nullifiers

-----------------------------------------------------------------------------
(* Proposals, and the witness the host builds for one                      *)
(* (build_full_spend_witness, build_rm_internal_witness and                *)
(* build_hybrid_witness are its cases).                                    *)

Proposals ==
  {[note |-> n, pay |-> s[1], give |-> s[2], payee |-> a, to |-> v] :
     n \in notes, s \in Splits, a \in Payees, v \in Vaults}

\* An amount of zero is paid to no one in particular.
NoPayee == CHOOSE a \in Payees : TRUE

\* Fault: the parts may exceed the note.
WellFormedUnbounded(p) ==
  /\ p.pay = 0 => p.payee = NoPayee
  /\ p.give = 0 => p.to = p.note.vault

\* The host asserts that the parts do not exceed the note, and panics as well
\* when their sum is no u128.  A recipient may be the vault itself.  An amount
\* of zero has no destination: one proposal stands for all of them.
WellFormed(p) ==
  /\ p.pay + p.give <= p.note.quantity
  /\ p.pay = 0 => p.payee = NoPayee
  /\ p.give = 0 => p.to = p.note.vault

ChangeNote(p) ==
  [vault |-> p.note.vault,
   quantity |-> p.note.quantity - p.pay - p.give,
   nonce |-> Derived(p.note.nonce, "change")]

RecipientNote(p) ==
  [vault |-> p.to, quantity |-> p.give,
   nonce |-> Derived(p.note.nonce, "recipient")]

CreatedNotes(p) ==
  {ChangeNote(p)} \cup IF p.give = 0 THEN {} ELSE {RecipientNote(p)}

\* encode_external_transfer: well formed, whatever it carries.
TransferPayload(p) ==
  IF p.pay = 0 THEN <<>>
  ELSE <<[outer_ok |-> TRUE, inner_ok |-> TRUE,
          forwarder |-> MULTISIG_FORWARDER, token |-> Token,
          to |-> p.payee, amount |-> p.pay]>>

AppData(payload) == [external_payload |-> payload]

ActionTags(p) ==
  {NullifierOf(p.note)}
    \cup {commitment(NoteResource(n)) : n \in CreatedNotes(p)}

ActionTreeRoot(p) == action_tree_root_of(ActionTags(p))

UnsignedWitness(p) ==
  [action_tree_root    |-> ActionTreeRoot(p),
   app_data            |-> AppData(TransferPayload(p)),
   resource            |-> NoteResource(p.note),
   nf_key              |-> nullifier_key(Label[p.note.vault]),
   label_preimage      |-> Label[p.note.vault],
   pubkeys             |-> Pubkeys[p.note.vault],
   signatures          |-> <<>>,
   change_resource     |-> NoteResource(ChangeNote(p)),
   recipient_resources |-> IF p.give = 0 THEN <<>>
                           ELSE <<NoteResource(RecipientNote(p))>>,
   action_tags         |-> ActionTags(p)]

\* compute_spend_message
compute_spend_message(p) == SpendMessage(UnsignedWitness(p))

\* sign_witness: chosen lists the slots, each the position of a pubkey and the
\* proposal that the signature of its holder is for.
SignedWitness(p, chosen) ==
  [UnsignedWitness(p) EXCEPT !.signatures =
     [j \in DOMAIN chosen |->
        [idx |-> chosen[j].at - 1,
         sig |-> sign_low_s_der(Pubkeys[p.note.vault][chosen[j].at],
                                compute_spend_message(chosen[j].proposal))]]]

-----------------------------------------------------------------------------
(* Transactions: the consumed and the created resources of one action,     *)
(* each with the error of its guest and the instance the guest commits.    *)

CreatedPart(note, root) ==
  LET x == [action_tree_root |-> root, app_data |-> AppData(<<>>),
            resource |-> NoteResource(note),
            label_preimage |-> Label[note.vault]]
  IN [resource |-> x.resource, error |-> CreatedError(x),
      instance |-> CreatedInstance(x)]

\* The consumed ephemeral of vault v, whose one payload wraps amount tokens.
InflowPart(v, quantity, nonce, from, amount, root) ==
  LET blob == [outer_ok |-> TRUE, inner_ok |-> TRUE, op |-> "WRAP",
               forwarder |-> WRAP_FORWARDER, token |-> Token,
               from |-> from, amount |-> amount]
      x == [action_tree_root |-> root, app_data |-> AppData(<<blob>>),
            resource |-> Resource(v, WRAP_V1, quantity, nonce, TRUE),
            nf_key |-> nullifier_key(Label[v]),
            paired_vault_label_preimage |-> Label[v],
            paired_vault_quantity |-> amount,
            depositor |-> from]
  IN [resource |-> x.resource, error |-> InflowError(x),
      instance |-> InflowInstance(x)]

OutflowPart(v, quantity, nonce, root) ==
  LET x == [action_tree_root |-> root, app_data |-> AppData(<<>>),
            resource |-> Resource(v, WRAP_V1, quantity, nonce, TRUE),
            label_preimage |-> Label[v]]
  IN [resource |-> x.resource, error |-> OutflowError(x),
      instance |-> CreatedInstance(x)]

SpendPart(p, chosen) ==
  LET x == SignedWitness(p, chosen) IN
  [resource |-> x.resource,
   error |-> IF Authorised(x) THEN Accepted ELSE "refused",
   instance |-> ConsumedInstance(x)]

\* One inflow ephemeral, one vault note.  The branch compares the wrapped
\* amount with a field of its witness (constrain.rs:358), the kind balance the
\* quantities of the two resources: nothing compares amount and quantity.
DepositTransaction(note, from, amount) ==
  LET root == action_tree_root_of({commitment(NoteResource(note))}) IN
  [consumed |-> <<InflowPart(note.vault, note.quantity,
                             Derived(note.nonce, "inflow"), from,
                             amount, root)>>,
   created  |-> <<CreatedPart(note, root)>>]

\* The note with its change; a recipient with an ephemeral of its kind; an
\* outflow for what leaves the vault, with an ephemeral of quantity zero.
\* The payloads the inflow branch asks of these ephemerals wrap nothing.
SpendTransaction(p, chosen) ==
  LET root == ActionTreeRoot(p)
      anyone == CHOOSE d \in Depositors : TRUE
      spend == SpendPart(p, chosen)
      nothing == InflowPart(p.note.vault, 0, Derived(p.note.nonce, "zero"),
                            anyone, 0, root)
      given == InflowPart(p.to, p.give, Derived(p.note.nonce, "given"),
                          anyone, 0, root)
      change == CreatedPart(ChangeNote(p), root)
      recipient == CreatedPart(RecipientNote(p), root)
      outflow == OutflowPart(p.note.vault, p.pay + p.give,
                             Derived(p.note.nonce, "outflow"), root)
  IN IF p.give = 0
     THEN [consumed |-> <<spend, nothing>>, created |-> <<change, outflow>>]
     ELSE [consumed |-> <<spend, nothing, given>>,
           created |-> <<change, recipient, outflow>>]

-----------------------------------------------------------------------------
(* The protocol adapter.                                                   *)

\* One forwarder call of a carrier whose logic is logicRef: its revert, and
\* the state after it.
CallError(state, logicRef, blob) ==
  IF blob.forwarder = MULTISIG_FORWARDER
  THEN Chain!MultisigForwardError(PA, logicRef, Chain!TransferCall(blob),
                                  state.bal)
  ELSE Chain!WrapForwardError(PA, logicRef, Chain!WrapCall(blob), state.bal,
                              state.allow)

Call(state, logicRef, blob) ==
  LET error == CallError(state, logicRef, blob) IN
  IF error # Accepted THEN [state EXCEPT !.error = error]
  ELSE IF blob.forwarder = MULTISIG_FORWARDER
  THEN [state EXCEPT
          !.bal = Chain!MultisigForwardBalance(Chain!TransferCall(blob), @)]
  ELSE [state EXCEPT
          !.bal = Chain!WrapForwardBalance(Chain!WrapCall(blob), @),
          !.allow = Chain!WrapForwardAllowance(Chain!WrapCall(blob), @)]

\* The calls a transaction makes: a payload runs under its resource's logic.
CallsOf(tx) ==
  FlattenSeq([j \in DOMAIN tx.consumed |->
    LET blobs == tx.consumed[j].instance.app_data.external_payload IN
    [l \in DOMAIN blobs |->
       [logic_ref |-> tx.consumed[j].resource.logic_ref, blob |-> blobs[l]]]])

\* All of them in order; the first revert ends the transaction.
Calls(tx) ==
  LET calls == CallsOf(tx)
      after[j \in 0 .. Len(calls)] ==
        IF j = 0 THEN [error |-> Accepted, bal |-> balance, allow |-> allowance]
        ELSE IF after[j - 1].error # Accepted THEN after[j - 1]
        ELSE Call(after[j - 1], calls[j].logic_ref, calls[j].blob)
  IN after[Len(calls)]

TagsOf(parts) == {part.instance.tag : part \in ToSet(parts)}

\* The sum of the quantities of one kind.
KindTotal(parts, kind) ==
  TotalOf([j \in 1 .. Len(parts) |->
             IF parts[j].resource.label_ref = kind
             THEN parts[j].resource.quantity ELSE 0])

AdapterError(tx) ==
  LET fresh == TagsOf(tx.consumed) IN
  IF \E part \in ToSet(tx.consumed) \cup ToSet(tx.created) :
       part.error # Accepted
    THEN "NoProof"
  ELSE IF \E c \in ToSet(tx.consumed) :
            /\ ~c.resource.is_ephemeral
            /\ c.resource \notin {NoteResource(n) : n \in notes}
    THEN "UnknownCommitment"
  ELSE IF \/ fresh \cap nullifiers # {}
          \/ Cardinality(fresh) # Len(tx.consumed)
    THEN "PreExistingNullifier"
  ELSE IF \E v \in Vaults : KindTotal(tx.consumed, label_ref(Label[v]))
                              # KindTotal(tx.created, label_ref(Label[v]))
    THEN "Imbalanced"
  ELSE Calls(tx).error

\* The adapter executes a transaction that creates these vault notes.
Run(tx, created) ==
  /\ AdapterError(tx) = Accepted
  /\ notes' = notes \cup created
  /\ nullifiers' = nullifiers \cup TagsOf(tx.consumed)
  /\ LET after == Calls(tx) IN
       /\ balance' = after.bal
       /\ allowance' = after.allow

-----------------------------------------------------------------------------
Init ==
  /\ notes = {}
  /\ nullifiers = {}
  /\ balance = [p \in {Token} \X Accounts |->
                  IF p[2] \in Depositors \cup Donors THEN InitBalance ELSE 0]
  /\ allowance = [p \in {Token} \X Depositors |-> InitBalance]
  /\ approvals = {}
  /\ executed = {}

Deposits == {n \in notes : Len(n.nonce) = 1}

\* A depositor wraps amount tokens in a transaction that creates a note of
\* vault v.
Deposit(v, from, quantity, amount) ==
  LET note == [vault |-> v, quantity |-> quantity,
               nonce |-> DepositNonce(Cardinality(Deposits))]
  IN /\ Cardinality({n \in Deposits : n.vault = v}) < MaxDeposits
     /\ Run(DepositTransaction(note, from, amount), {note})
     /\ UNCHANGED <<approvals, executed>>

\* "Tokens transferred to the forwarder outside the wrap path": a plain ERC20
\* transfer, of everything the donor has.
Donate(donor) ==
  /\ balance[<<Token, donor>>] > 0
  /\ balance' = Chain!Transferred(balance, Token, donor, MULTISIG_FORWARDER,
                                 balance[<<Token, donor>>])
  /\ UNCHANGED <<notes, nullifiers, allowance, approvals, executed>>

\* A signer signs a proposal, of a note that may long be spent.
Approve(key, p) ==
  /\ Cardinality(approvals) < MaxApprovals
  /\ Cardinality({a.proposal : a \in approvals} \cup {p}) <= MaxProposals
  /\ key \in ToSet(Pubkeys[p.note.vault])
  /\ approvals' = approvals \cup {[key |-> key, proposal |-> p]}
  /\ UNCHANGED <<notes, nullifiers, balance, allowance, executed>>

\* The assembler submits a proposal with k signatures it has collected from
\* the vault's signers, not all of them for this proposal maybe.
Execute(p, chosen) ==
  /\ Run(SpendTransaction(p, chosen), CreatedNotes(p))
  /\ executed' = executed \cup {p}
  /\ UNCHANGED approvals

\* The signatures an assembler can put into the k slots of a vault, in the
\* order of its pubkeys: any that the holders of these have made.
SignatureChoices(v) ==
  LET signed(i) == {[at |-> i, proposal |-> a.proposal] :
                      a \in {b \in approvals : b.key = Pubkeys[v][i]}}
  IN {c \in [1 .. Label[v].k -> UNION {signed(i) : i \in DOMAIN Pubkeys[v]}] :
        AscendingBelow([j \in DOMAIN c |-> c[j].at], Label[v].k)}

\* Proposals that have reached a signer and come back signed.
Approved == {a.proposal : a \in approvals}

Next ==
  \/ \E v \in Vaults, d \in Depositors,
        q \in DepositQuantities, amount \in DepositAmounts :
       Deposit(v, d, q, amount)
  \/ \E donor \in Donors : Donate(donor)
  \/ \E p \in {q \in Proposals : WellFormed(q)} :
       \E key \in ToSet(Pubkeys[p.note.vault]) : Approve(key, p)
  \/ \E p \in Approved :
       \E chosen \in SignatureChoices(p.note.vault) : Execute(p, chosen)

Spec == Init /\ [][Next]_vars

-----------------------------------------------------------------------------
(* Properties. *)

TypeOK ==
  /\ \A n \in notes : n.vault \in Vaults /\ n.quantity \in Quantity
  /\ balance \in [{Token} \X Accounts -> Nat]
  /\ allowance \in [{Token} \X Depositors -> Nat]
  /\ executed \subseteq Proposals

Unspent == {n \in notes : ~Spent(n)}

\* What these notes are worth.
Total(S) == SumFunction([n \in S |-> n.quantity])

Holdings(v) == Total({n \in Unspent : n.vault = v})

Custody == balance[<<Token, MULTISIG_FORWARDER>>]

\* What these accounts have paid in.
PaidInBy(S) == SumFunction([d \in S |-> InitBalance - balance[<<Token, d>>]])

\* What came in with a deposit, without one, and what deposits were issued as.
Wrapped == PaidInBy(Depositors)
Donated == PaidInBy(Donors)
Issued == Total(Deposits)

\* The singleton's accounts (README.md:113): between the tokens in the
\* forwarder and the unspent notes of all vaults there is exactly what the
\* deposits wrapped more, or less, than the notes they created
\* (constrain.rs:358), and what came in outside the wrap path (README.md:352).
\* No rival, chained or RM-internal spend, and no ephemeral that wraps zero,
\* opens or closes the gap; where deposits wrap what they create there is none.
CustodyAccounted == Custody + Issued = Total(Unspent) + Wrapped + Donated

\* The deposits together wrapped what their notes are worth.
Backed == Issued <= Wrapped

\* Signers of a proposal as a whole: note, amounts, payee and recipient.
Approvers(p) == {a.key : a \in {b \in approvals : b.proposal = p}}

GrantedBy(p) ==
  Cardinality(Approvers(p) \cap ToSet(Pubkeys[p.note.vault]))
    >= Label[p.note.vault].k

\* What was executed was approved, in every part of it, by k different
\* holders of the vault's keys (constrain.rs:261-273): signatures for a rival
\* proposal, another payee or another recipient do not count.
ExecutedAsApproved == \A p \in executed : GrantedBy(p)

\* Refinement: deposits, rival proposals, collected signatures and executed
\* transactions amount to a ledger of vaults, in which a vault loses only
\* what its signers granted, each note once, to the payee and the vault they
\* named, and no step touches the holdings of another vault (README.md:113
\* and the note below README.md:354 promise this of the shared forwarder).
Ledger == INSTANCE VaultLedger WITH
  owned   <- [v \in Vaults |-> Holdings(v)],
  paid    <- [a \in Payees |-> balance[<<Token, a>>]],
  granted <- {p \in Approved : GrantedBy(p)},
  spent   <- {p.note : p \in executed}

ImplementsLedger == Ledger!Spec

\* The spend of an unspent note goes through with k signatures for it, if the
\* notes are backed, or if the custody can pay this one all the same.
Executable(p) ==
  ~Spent(p.note) /\ (Backed \/ p.pay <= Custody) =>
    \A chosen \in SignatureChoices(p.note.vault) :
      (\A i \in DOMAIN chosen : chosen[i].proposal = p) =>
        AdapterError(SpendTransaction(p, chosen)) = Accepted

\* Nothing but missing tokens stands in the way of a spend its vault's signers
\* approved, as long as the note is unspent, whichever of the three modes it is
\* (withdrawal, RM-internal, both: constrain.rs:223-227) and however small its
\* parts: the proofs exist, the kinds balance, and no forwarder call reverts.
\* Tokens are missing only where deposits wrapped less than they created.
ApprovedExecutable == \A p \in Approved : Executable(p)

\* "K-of-N authorizes a transfer to an external Ethereum address via a
\* singleton MultisigForwarder" (README.md:104): a withdrawal with k
\* signatures, whose payload is on the consumed vault note
\* (constrain.rs:100-104), reaches its payee.
WithdrawalsExecutable == \A p \in Approved : p.pay > 0 => Executable(p)

=============================================================================
