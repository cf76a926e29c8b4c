---------------------------- MODULE SpendWitness ----------------------------
(***************************************************************************)
(* What a MultisigConsumedWitness says (witness.rs): the instance it       *)
(* commits, the message its signers sign, the value it moves, and the      *)
(* declarative reading of constrain_multisig_consumed that the stepwise    *)
(* circuit is compared with.                                               *)
(*                                                                         *)
(* A blob of app_data.external_payload is the record of what its bytes     *)
(* decode to: outer_ok and inner_ok say whether the two encodings parse.   *)
(***************************************************************************)
EXTENDS ResourceModel

CONSTANT MULTISIG_FORWARDER  \* the forwarder address pinned in the guest

\* The types of the fields the checks compute with.  Pubkeys are 33-byte
\* strings, here the numbers they are in lexicographic order.
IsWitness(x) ==
  /\ x.pubkeys \in Seq(Nat)
  /\ x.label_preimage.n \in Nat
  /\ x.label_preimage.k \in Nat
  /\ DOMAIN x.signatures = 1 .. Len(x.signatures)
  /\ Len(x.signatures) \in Nat
  /\ \A j \in DOMAIN x.signatures : x.signatures[j].idx \in Nat
  /\ x.resource.quantity \in Quantity
  /\ x.change_resource.quantity \in Quantity
  /\ Len(x.recipient_resources) \in Nat
  /\ DOMAIN x.recipient_resources = 1 .. Len(x.recipient_resources)
  /\ \A j \in DOMAIN x.recipient_resources :
       x.recipient_resources[j].quantity \in Quantity
  /\ Len(x.app_data.external_payload) \in Nat
  /\ DOMAIN x.app_data.external_payload
       = 1 .. Len(x.app_data.external_payload)
  /\ \A j \in DOMAIN x.app_data.external_payload :
       x.app_data.external_payload[j].amount \in Nat

\* Step 12: the instance of the consumed note, and its journal.
ConsumedInstance(x) ==
  LogicInstance(nullifier(x.resource, x.nf_key), TRUE, x.action_tree_root,
                x.app_data)

\* Step 13.
SpendMessage(x) ==
  spend_message(
    journal_digest(ConsumedInstance(x)),
    RecipientCommitments([j \in DOMAIN x.recipient_resources |->
                            commitment(x.recipient_resources[j])]))

\* parse_external_call and parse_multisig_call_input return Some: the two
\* encodings are well formed, and the uint256 amount fits a u128.
OuterParses(blob) == blob.outer_ok
InnerParses(blob) == blob.inner_ok /\ blob.amount <= MaxU128

\* Fault: calls of every forwarder but this one are counted.
ForwardedAmountElsewhere(blob) ==
  IF blob.forwarder # MULTISIG_FORWARDER THEN blob.amount ELSE 0

\* What a blob adds to the value leaving through the forwarder.
ForwardedAmount(blob) ==
  IF blob.forwarder = MULTISIG_FORWARDER THEN blob.amount ELSE 0

\* The sum of a sequence of numbers, in unbounded arithmetic.
TotalOf(s) == SumFunction(s)

RecipientQuantities(x) ==
  [j \in 1 .. Len(x.recipient_resources) |-> x.recipient_resources[j].quantity]

ForwardedAmounts(x) ==
  [j \in 1 .. Len(x.app_data.external_payload) |->
     ForwardedAmount(x.app_data.external_payload[j])]

\* Keys of the label that made a valid signature among those of the witness,
\* whatever slot it sits in.
ValidSigners(x) ==
  {pk \in ToSet(x.pubkeys) :
     \E j \in DOMAIN x.signatures :
       verify_secp256k1(pk, SpendMessage(x), x.signatures[j].sig)}

\* The first n members of s are strictly ascending, pairwise.
AscendingBelow(s, n) == \A a, b \in 1 .. n : a < b => s[a] < s[b]

SignerIndices(x) == [j \in 1 .. Len(x.signatures) |-> x.signatures[j].idx]

\* The note is opened by its label: its key, its label hash, its key set.
OpensLabel(x) ==
  /\ x.nf_key = nullifier_key(x.label_preimage)
  /\ nk_commit(x.nf_key) = x.resource.nk_commitment
  /\ x.resource.label_ref = label_ref(x.label_preimage)
  /\ Len(x.pubkeys) = x.label_preimage.n
  /\ pubkey_root_of(x.pubkeys) = x.label_preimage.pubkey_root
  /\ AscendingBelow(x.pubkeys, Len(x.pubkeys))

\* k slots, at k different positions of the key set, each with a signature.
SignedByK(x) ==
  /\ Len(x.signatures) = x.label_preimage.k
  /\ AscendingBelow(SignerIndices(x), Len(x.signatures))
  /\ \A j \in DOMAIN x.signatures :
       /\ x.signatures[j].idx < x.label_preimage.n
       /\ verify_secp256k1(x.pubkeys[x.signatures[j].idx + 1],
                           SpendMessage(x), x.signatures[j].sig)

\* The change stays in the vault; change and recipients are in the action.
StaysInAction(x) ==
  /\ x.change_resource.label_ref = x.resource.label_ref
  /\ commitment(x.change_resource) \in x.action_tags
  /\ \A j \in DOMAIN x.recipient_resources :
       commitment(x.recipient_resources[j]) \in x.action_tags

\* The blob parses; if it is for this forwarder, it moves the vault's token.
PayloadMatches(x, blob) ==
  /\ OuterParses(blob)
  /\ blob.forwarder = MULTISIG_FORWARDER =>
       InnerParses(blob) /\ blob.token = x.label_preimage.token_addr

PayloadsMatch(x) ==
  \A j \in DOMAIN x.app_data.external_payload :
    PayloadMatches(x, x.app_data.external_payload[j])

Balanced(x) ==
  TotalOf(ForwardedAmounts(x)) + TotalOf(RecipientQuantities(x))
    + x.change_resource.quantity = x.resource.quantity

\* What a committed consumed-branch journal vouches for.
Authorised(x) ==
  /\ OpensLabel(x)
  /\ SignedByK(x)
  /\ StaysInAction(x)
  /\ PayloadsMatch(x)
  /\ Balanced(x)

=============================================================================
