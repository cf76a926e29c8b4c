----------------------------- MODULE HostVault -----------------------------
(***************************************************************************)
(* The vault the host works with, made from one seed byte                  *)
(* (TestVault::deterministic), and the full spend it builds and signs for  *)
(* a note of that vault (build_full_spend_witness, sign_witness).          *)
(*                                                                         *)
(* The secret key of signer j is the pair of the seed and j.  Which of the *)
(* three has the lowest compressed pubkey is up to the curve: rank is any  *)
(* order of them, and rank[j] stands for the pubkey of signer j.           *)
(***************************************************************************)
EXTENDS SpendWitness

CONSTANTS
  MaxU8,       \* the largest value of a byte
  Token,       \* TEST_TOKEN
  Recipient,   \* TEST_RECIPIENT
  Quantities   \* quantities of the notes it spends

Signers == 1 .. 3  \* counted from 0 in the source

\* Pubkeys are numbers in their order; a salt is a byte and zeros.
ASSUME HostAssumption ==
  /\ MaxU8 \in Nat
  /\ CurvePoints \subseteq Nat
  /\ Zero = 0
  /\ Quantities \subseteq Quantity

VARIABLES
  seed,     \* the seed byte
  rank,     \* the pubkeys of the three secret keys
  pc,       \* signers, sort, label, key, spend, done or panicked
  signers,  \* the secret keys, by the signer they belong to
  pubkeys,  \* the compressed pubkeys
  label,    \* the label preimage
  nf_key,   \* the nullifier key
  witness   \* the signed witness of a spend

vars == <<seed, rank, pc, signers, pubkeys, label, nf_key, witness>>

None == <<>>

Init ==
  /\ seed \in 0 .. MaxU8
  /\ rank \in {f \in [Signers -> CurvePoints] : IsInjective(f)}
  /\ pc = "signers"
  /\ signers = None
  /\ pubkeys = None
  /\ label = None
  /\ nf_key = None
  /\ witness = None

\* expect() of one of the fallible calls.
Panic ==
  /\ pc' = "panicked"
  /\ UNCHANGED <<seed, rank, signers, pubkeys, label, nf_key, witness>>

\* The 32 bytes of a secret key are zero but for seed and j - 1.
IsZeroScalar(j) == seed = 0 /\ j = 1

MakeSigners ==
  /\ pc = "signers"
  /\ IF \E j \in Signers : IsZeroScalar(j) THEN Panic
     ELSE /\ signers' = [j \in Signers |-> j]
          /\ pubkeys' = [j \in Signers |-> rank[j]]
          /\ pc' = "sort"
          /\ UNCHANGED <<seed, rank, label, nf_key, witness>>

\* idx after sort_by: the signers in the order of their pubkeys.
SortedIndices ==
  CHOOSE idx \in [Signers -> Signers] :
    \A a, b \in Signers : a < b => pubkeys[idx[a]] < pubkeys[idx[b]]

\* Fault: the pubkeys are sorted and the signers stay where they were.
SortKeysAlone ==
  /\ pc = "sort"
  /\ pubkeys' = [j \in Signers |-> pubkeys[SortedIndices[j]]]
  /\ pc' = "label"
  /\ UNCHANGED <<seed, rank, signers, label, nf_key, witness>>

SortKeys ==
  /\ pc = "sort"
  /\ pubkeys' = [j \in Signers |-> pubkeys[SortedIndices[j]]]
  /\ signers' = [j \in Signers |-> signers[SortedIndices[j]]]
  /\ pc' = "label"
  /\ UNCHANGED <<seed, rank, label, nf_key, witness>>

\* Fault: the addition saturates.
SaltOfSaturating(b) == IF b = MaxU8 THEN b ELSE b + 1

\* u8::wrapping_add(1); the other 31 bytes of the salt are zero.
SaltOf(b) == (b + 1) % (MaxU8 + 1)

\* LabelPreimage::new of a 2-of-3 vault, expected to be valid.
MakeLabel ==
  /\ pc = "label"
  /\ IF LabelError(2, pubkeys, SaltOf(seed)) # "none" THEN Panic
     ELSE /\ label' = LabelPreimage(Token, 2, pubkeys, SaltOf(seed))
          /\ pc' = "key"
          /\ UNCHANGED <<seed, rank, signers, pubkeys, nf_key, witness>>

\* Fault: the label is hashed without the domain of the nullifier key.
HostNullifierKeyNoDomain(l) == Sha256(encode_label(l))

\* The host's own derivation of the nullifier key.
HostNullifierKey(l) == Sha256(<<NULLIFIER_KEY_DOMAIN, encode_label(l)>>)

MakeNullifierKey ==
  /\ pc = "key"
  /\ nf_key' = HostNullifierKey(label)
  /\ pc' = "spend"
  /\ UNCHANGED <<seed, rank, signers, pubkeys, label, witness>>

build_resource(quantity, nonce) ==
  [label_ref |-> label_ref(label), quantity |-> quantity, nonce |-> nonce,
   is_ephemeral |-> FALSE, nk_commitment |-> nk_commit(nf_key)]

\* The whole note to one EVM account, a change of zero.
FullSpend(quantity) ==
  LET resource == build_resource(quantity, "consumed")
      change == build_resource(0, "change")
      tags == {nullifier(resource, nf_key), commitment(change)}
  IN [action_tree_root    |-> action_tree_root_of(tags),
      app_data            |-> [external_payload |->
         <<[outer_ok |-> TRUE, inner_ok |-> TRUE, token |-> Token,
            forwarder |-> MULTISIG_FORWARDER, to |-> Recipient,
            amount |-> quantity]>>],
      resource            |-> resource,
      nf_key              |-> nf_key,
      label_preimage      |-> label,
      pubkeys             |-> pubkeys,
      signatures          |-> <<>>,
      change_resource     |-> change,
      recipient_resources |-> <<>>,
      action_tags         |-> tags]

\* sign_witness(.., &[0, 2]): slot idx is signed by the signer at idx.
Signed(x) ==
  [x EXCEPT !.signatures =
     [j \in 1 .. 2 |->
        LET idx == <<0, 2>>[j] IN
        [idx |-> idx,
         sig |-> sign_low_s_der(rank[signers[idx + 1]], SpendMessage(x))]]]

BuildFullSpend ==
  /\ pc = "spend"
  /\ \E q \in Quantities : witness' = Signed(FullSpend(q))
  /\ pc' = "done"
  /\ UNCHANGED <<seed, rank, signers, pubkeys, label, nf_key>>

Next ==
  MakeSigners \/ SortKeys \/ MakeLabel \/ MakeNullifierKey \/ BuildFullSpend

Spec == Init /\ [][Next]_vars

\* The builder is called and runs to its end.
FairSpec == Spec /\ WF_vars(Next)

-----------------------------------------------------------------------------
(* Properties. *)

\* What the host builds, the guest commits: from any seed and any order of
\* the keys, the secret keys still belong to the pubkeys they are indexed by
\* (fixtures.rs:60-63) and the third derivation of the nullifier key
\* (fixtures.rs:73-78) is that of label.rs and constrain.rs, so that the
\* spend is authorised and its note opens.
SpendsAuthorised == pc = "done" => Authorised(witness)

\* Every seed makes a vault but two: the one whose first secret key is zero,
\* and the one whose salt wraps to zero (fixtures.rs:45, 68, 71).
SeedsEnd ==
  /\ (seed \notin {0, MaxU8}) ~> (pc = "done")
  /\ (seed \in {0, MaxU8}) ~> (pc = "panicked")

=============================================================================
