----------------------------- MODULE GuestRuns -----------------------------
(***************************************************************************)
(* The prover facades and the guests behind them (circuits/multisig-v1 and *)
(* circuits/wrap-v1).  A host asks for receipts one after the other; each  *)
(* request is wrapped in the branch enum of its guest, written to an       *)
(* executor environment and proven: the guest reads the branch, runs its   *)
(* constraints, and commits a journal or panics.                           *)
(*                                                                         *)
(* The consumed branch is its declarative reading, which ConsumedCircuit   *)
(* implements step by step.  The executor and the prover are external.     *)
(***************************************************************************)
EXTENDS CircuitBranches, FiniteSets

CONSTANTS
  PA,                         \* the protocol adapter
  MultisigForwarderLogicRef,  \* wrapLogicRef of the MultisigForwarder
  WrapForwarderLogicRef,      \* wrapLogicRef of the WrapForwarder
  MULTISIG_V1, WRAP_V1,       \* image ids of the two guests
  Requests,                   \* what a host may ask: a facade and a witness
  KeyLists,                   \* lists of pubkeys, from the ones in use
  MaxReceipts                 \* bound of the exploration

Facades == {"prove_consumed", "prove_created", "prove_inflow", "prove_outflow"}

\* The guests are two programs, and a host has no other way to ask.
ASSUME GuestsAssumption ==
  /\ MULTISIG_V1 # WRAP_V1
  /\ \A r \in Requests : r.facade \in Facades

\* The types of what a witness holds: a uint256 in a payload, a u128 in a note.
ASSUME WitnessAssumption ==
  /\ KeyLists \subseteq Seq(Nat)
  /\ \A r \in Requests :
       /\ r.facade = "prove_consumed" => IsWitness(r.witness)
       /\ r.witness.resource.quantity \in Quantity
       /\ \A blob \in ToSet(r.witness.app_data.external_payload) :
            blob.amount \in Nat

Chain == INSTANCE ForwarderCalls

VARIABLES
  request,   \* the request that is being proven
  pc,        \* how far prove_branch is with it
  result,    \* what the last prove_branch returned
  receipts   \* the receipts obtained so far

vars == <<request, pc, result, receipts>>

\* Fault: the outflow facade still starts the guest it was copied from.
ImageOfCopied(facade) ==
  IF facade = "prove_inflow" THEN WRAP_V1 ELSE MULTISIG_V1

\* The image the facade proves, that is the guest it starts.
ImageOf(facade) ==
  IF facade \in {"prove_consumed", "prove_created"} THEN MULTISIG_V1 ELSE WRAP_V1

\* The variants of ProveError, or a receipt.
Answers == {"env build", "prove", "receipt"}
NoRequest == [facade |-> "none"]

-----------------------------------------------------------------------------
(* The guests: main() of the two images, as the error expect() panics with *)
(* and the instance whose journal env::commit_slice commits.               *)

BranchError(r) ==
  CASE r.facade = "prove_consumed" ->
         IF Authorised(r.witness) THEN Accepted ELSE "refused"
    [] r.facade = "prove_created" -> CreatedError(r.witness)
    [] r.facade = "prove_inflow"  -> InflowError(r.witness)
    [] r.facade = "prove_outflow" -> OutflowError(r.witness)

BranchInstance(r) ==
  CASE r.facade = "prove_consumed" -> ConsumedInstance(r.witness)
    [] r.facade = "prove_inflow"   -> InflowInstance(r.witness)
    [] OTHER                       -> CreatedInstance(r.witness)

-----------------------------------------------------------------------------
Init ==
  /\ pc = "idle"
  /\ request = NoRequest
  /\ result = "none"
  /\ receipts = {}

\* The call of a facade, which wraps the witness in the branch of its guest.
Ask(r) ==
  /\ pc = "idle"
  /\ Cardinality(receipts) < MaxReceipts
  /\ request' = r
  /\ pc' = "env"
  /\ UNCHANGED <<result, receipts>>

\* The ? operator of prove_branch, and its Ok.
Return(answer) ==
  /\ pc' = "idle"
  /\ request' = NoRequest
  /\ result' = answer

BuildEnv ==
  /\ pc = "env"
  /\ pc' = "guest"
  /\ UNCHANGED <<request, result, receipts>>

\* The witness cannot be serialised, or the environment not be built.
BuildEnvFails == pc = "env" /\ Return("env build") /\ UNCHANGED receipts

\* The guest panics, or the prover fails for a reason of its own.
ProveFails == pc = "guest" /\ Return("prove") /\ UNCHANGED receipts

\* A receipt shows its image and the journal of its instance.
Receipt(r) ==
  [image |-> ImageOf(r.facade), instance |-> BranchInstance(r), of |-> r]

\* Fault: a guest whose constraints failed commits all the same.
ProveUnchecked ==
  /\ pc = "guest"
  /\ receipts' = receipts \cup {Receipt(request)}
  /\ Return("receipt")

\* The guest commits the journal of its instance.
Prove ==
  /\ pc = "guest"
  /\ BranchError(request) = Accepted
  /\ receipts' = receipts \cup {Receipt(request)}
  /\ Return("receipt")

Next ==
  \/ \E r \in Requests : Ask(r)
  \/ BuildEnv \/ BuildEnvFails
  \/ Prove \/ ProveFails

Spec == Init /\ [][Next]_vars

-----------------------------------------------------------------------------
(* Spends of a created note: the whole of it to a change note, signed by   *)
(* the holders at the positions of keys that order lists.                  *)

FullChange(x, keys, order) ==
  LET change == [label_ref     |-> x.resource.label_ref,
                 quantity      |-> x.resource.quantity,
                 nonce         |-> "change",
                 is_ephemeral  |-> FALSE,
                 nk_commitment |-> x.resource.nk_commitment]
      unsigned ==
        [resource            |-> x.resource,
         nf_key              |-> nullifier_key(x.label_preimage),
         label_preimage      |-> x.label_preimage,
         pubkeys             |-> keys,
         signatures          |-> <<>>,
         change_resource     |-> change,
         recipient_resources |-> <<>>,
         app_data            |-> [external_payload |-> <<>>],
         action_tree_root    |-> x.action_tree_root,
         action_tags         |-> {commitment(change)}]
  IN [unsigned EXCEPT !.signatures =
        [j \in DOMAIN order |->
           [idx |-> order[j] - 1,
            sig |-> sign_low_s_der(keys[order[j]], SpendMessage(unsigned))]]]

\* The holders at these positions can spend the note.
Suffice(x, keys, order) == Authorised(FullChange(x, keys, order))

\* k of n positions, in ascending order.
Orders(k, n) == {o \in [1 .. k -> 1 .. n] : AscendingBelow(o, k)}

\* Positions of the list, in any order, with repeats.
Selections(keys) == UNION {[1 .. m -> 1 .. Len(keys)] : m \in 0 .. Len(keys)}

\* The label commits to this list, sorted as LabelPreimage::new sorts it, and
\* the note carries the commitment of the label's nullifier key.
OpenedBy(x, keys) ==
  /\ StrictlyAscending(keys)
  /\ Len(keys) = x.label_preimage.n
  /\ pubkey_root_of(keys) = x.label_preimage.pubkey_root
  /\ x.resource.nk_commitment = nullifier_key_commitment(x.label_preimage)

Obtained(facade) == {r \in receipts : r.of.facade = facade}

-----------------------------------------------------------------------------
(* Properties. *)

\* The types of the variables; a request was answered before the next one is
\* asked, and a receipt is of the image its facade names (lib.rs:24-44).
TypeOK ==
  /\ request \in Requests \/ request = NoRequest
  /\ pc \in {"idle", "env", "guest"}
  /\ pc = "idle" <=> request = NoRequest
  /\ result \in Answers \cup {"none"}
  /\ \A r \in receipts :
       /\ r.of \in Requests
       /\ r.image = IF r.of.facade \in {"prove_inflow", "prove_outflow"}
                    THEN WRAP_V1 ELSE MULTISIG_V1

\* Two branches share an image, and an adapter sees the journal alone: a
\* multisig_v1 receipt for a CONSUMED resource vouches for an authorised
\* spend, whichever branch it came from (constrain.rs:248-258, 304-310).
ConsumedReceiptsAuthorised ==
  \A r \in receipts :
    r.image = MULTISIG_V1 /\ r.instance.is_consumed =>
      r.of.facade = "prove_consumed" /\ Authorised(r.of.witness)

\* Which created notes are stuck (constrain.rs:283-298 never sees the keys, nor
\* the note's nullifier key): a list of keys spends an accepted note if and only
\* if the label commits to it as a sorted list and the note carries the label's
\* nullifier key.  Then there are k positions, and the holders who suffice are
\* those at exactly k of them, any k that are curve points, in ascending order.
\* A note whose root no sorted list has, or with another nullifier key, is
\* accepted and no one can spend it.
CreatedNotesSpendable ==
  \A r \in Obtained("prove_created"), keys \in KeyLists :
    LET x == r.of.witness
        orders == Orders(x.label_preimage.k, Len(keys)) IN
    /\ OpenedBy(x, keys) => orders # {}
    /\ \A order \in Selections(keys) :
         Suffice(x, keys, order) <=>
           /\ OpenedBy(x, keys)
           /\ order \in orders
           /\ \A j \in DOMAIN order : keys[order[j]] \in CurvePoints

\* Nor is it free: no list of keys spends it without a signature.
CreatedNotesOwned ==
  \A r \in Obtained("prove_created") :
    \A keys \in KeyLists : ~Suffice(r.of.witness, keys, <<>>)

\* The state of the token contracts in which every account has enough.
Wealth(x) ==
  [p \in {x.paired_vault_label_preimage.token_addr, "another token"}
         \X {PA, MULTISIG_FORWARDER, WRAP_FORWARDER, x.depositor, "another"}
     |-> MaxU128]

\* What a deposit proof promises of its calls (constrain.rs:340-363): run by
\* the adapter when its depositor has enough, they do not revert, and the
\* MultisigForwarder gains the wrapped amount of the token the label of the
\* proven resource names.  A depositor is another account than the forwarder,
\* which allows no one to take its tokens.
InflowsFundCustody ==
  \A r \in Obtained("prove_inflow") :
    LET x == r.of.witness
        calls == r.instance.app_data.external_payload
        call == Chain!WrapCall(calls[1])
        custody == <<x.paired_vault_label_preimage.token_addr, MULTISIG_FORWARDER>>
    IN x.depositor # MULTISIG_FORWARDER =>
       /\ Len(calls) = 1
       /\ calls[1].forwarder = WRAP_FORWARDER
       /\ x.resource.label_ref = label_ref(x.paired_vault_label_preimage)
       /\ Chain!WrapForwardError(PA, WrapForwarderLogicRef, call, Wealth(x),
                                 Wealth(x)) = Chain!NoRevert
       /\ Chain!WrapForwardBalance(call, Wealth(x))[custody]
            = Wealth(x)[custody] + call.amount

\* Who is a party to the call of a blob, next to the custody.
Party(blob) == IF blob.forwarder = MULTISIG_FORWARDER THEN blob.to ELSE blob.from

\* The balances after the adapter made the call of a blob for a carrier of
\* this logic; a call that reverts leaves them as they were.
AfterCall(logicRef, blob, bal) ==
  IF blob.forwarder = MULTISIG_FORWARDER THEN
    IF Chain!MultisigForwardError(PA, logicRef, Chain!TransferCall(blob), bal)
         = Chain!NoRevert
    THEN Chain!MultisigForwardBalance(Chain!TransferCall(blob), bal) ELSE bal
  ELSE IF blob.forwarder = WRAP_FORWARDER THEN
    IF Chain!WrapForwardError(PA, logicRef, Chain!WrapCall(blob), bal, bal)
         = Chain!NoRevert
    THEN Chain!WrapForwardBalance(Chain!WrapCall(blob), bal) ELSE bal
  ELSE bal

\* Custody leaves with multisig_v1 receipts alone.  The outflow branch asks
\* nothing of its payloads (constrain.rs:380-400): whichever forwarder they
\* call, be it to wrap what the custody holds already, and however much all
\* have and allow, the custody of the token is no smaller afterwards.
WrapReceiptsKeepCustody ==
  \A r \in {q \in receipts : q.image = WRAP_V1} :
    \A blob \in ToSet(r.instance.app_data.external_payload) :
      LET custody == <<blob.token, MULTISIG_FORWARDER>>
          bal == [p \in {custody, <<blob.token, Party(blob)>>} |-> MaxU128]
      IN  AfterCall(WRAP_V1, blob, bal)[custody] >= bal[custody]

\* What an adapter takes for spends: it sees image and instance.
Spends == {r \in receipts : r.image = MULTISIG_V1 /\ r.instance.is_consumed}

\* The amounts the calls of a receipt take out of custody.
PaidBy(r) ==
  LET calls == r.instance.app_data.external_payload IN
  TotalOf([j \in 1 .. Len(calls) |->
             IF calls[j].forwarder = MULTISIG_FORWARDER THEN calls[j].amount ELSE 0])

NotesConsumedBy(S) == {r.of.witness.resource : r \in S}

NotesNamedBy(S) ==
  UNION {{r.of.witness.change_resource} \cup ToSet(r.of.witness.recipient_resources) :
           r \in S}

\* The quantities of a set of notes, each counted once.
Worth(notes) == SumFunctionOnSet([note \in notes |-> note.quantity], notes)

\* An action may consume several notes (src/README.md:582), and the guest
\* sees one of them (constrain.rs:223-245).  Of spends with different tags,
\* which is all an adapter asks: no note is counted as consumed twice, and
\* the payments and the notes that any of the spends name, shared or named
\* twice as they may be, hold no more than the notes consumed.
SpendsConserve ==
  \A S \in SUBSET Spends :
    (\A r, q \in S : r.instance.tag = q.instance.tag => r = q) =>
      SumFunctionOnSet([r \in S |-> PaidBy(r)], S) + Worth(NotesNamedBy(S))
        <= Worth(NotesConsumedBy(S))

\* "The wrap_v1 circuit constrains, for the inflow side: ... amount ==
\* created_vault_note.quantity" (src/SPEC.md:304-307): in an action of one
\* deposit, whose kinds balance, the amount is the quantity of the note.
InflowMatchesQuantity ==
  \A r \in Obtained("prove_inflow"), c \in Obtained("prove_created") :
    /\ r.instance.action_tree_root = c.instance.action_tree_root
    /\ r.of.witness.resource.label_ref = c.of.witness.resource.label_ref
    /\ r.of.witness.resource.quantity = c.of.witness.resource.quantity
    => r.instance.app_data.external_payload[1].amount
         = c.of.witness.resource.quantity

=============================================================================
