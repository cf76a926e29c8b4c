------------------------- MODULE MCConsumedCircuit -------------------------
(***************************************************************************)
(* Witnesses for ConsumedCircuit: a 2-of-3 vault like the one the host     *)
(* fixtures build, and everything that can differ from it in the amounts,  *)
(* the signatures, the label and the action.  Quantities are 0 .. 6, so    *)
(* that sums of two of them pass u128::MAX.                                *)
(***************************************************************************)
EXTENDS ConsumedCircuit

Keys == <<1, 2, 3>>
\* Key 9 is a 33-byte string that is no curve point.
MCCurvePoints == {1, 2, 3, 4}

Label(keys, k) ==
  [token_addr |-> "token", n |-> Len(keys), k |-> k,
   pubkey_root |-> pubkey_root_of(keys), salt |-> "saltA"]

OtherLabel == [Label(<<4>>, 1) EXCEPT !.salt = "saltB"]

Note(label, quantity, nonce) ==
  [label_ref |-> label_ref(label), quantity |-> quantity, nonce |-> nonce,
   is_ephemeral |-> FALSE, nk_commitment |-> nullifier_key_commitment(label)]

Blob(forwarder, token, amount) ==
  [outer_ok |-> TRUE, inner_ok |-> TRUE, forwarder |-> forwarder,
   token |-> token, to |-> "payee", amount |-> amount]

\* A witness of vault label that is not signed yet.
Spend(label, keys, consumed, change, quantities, blobs) ==
  LET recipients == [j \in DOMAIN quantities |->
                       Note(OtherLabel, quantities[j], "recipient")]
      changeNote == Note(label, change, "change")
  IN [resource            |-> Note(label, consumed, "consumed"),
      nf_key              |-> nullifier_key(label),
      label_preimage      |-> label,
      pubkeys             |-> keys,
      signatures          |-> <<>>,
      change_resource     |-> changeNote,
      recipient_resources |-> recipients,
      app_data            |-> [external_payload |-> blobs],
      action_tree_root    |-> "root",
      action_tags         |-> {commitment(changeNote)}
                                \cup {commitment(r) : r \in ToSet(recipients)}]

Slot(x, idx, key) ==
  [idx |-> idx, sig |-> sign_low_s_der(key, SpendMessage(x))]

\* sign_witness: a slot for each of the indices, counted from 0.
Sign(x, indices) ==
  [x EXCEPT !.signatures =
     [j \in DOMAIN indices |-> Slot(x, indices[j], x.pubkeys[indices[j] + 1])]]

SpendA(consumed, change, quantities, blobs) ==
  Spend(Label(Keys, 2), Keys, consumed, change, quantities, blobs)

\* Every split of the consumed quantity, and many that are no split.
Blobs == {Blob("MSF", "token", 1), Blob("MSF", "token", 4),
          Blob("MSF", "token", 7), Blob("MSF", "other", 1),
          Blob("OTHER", "token", 2),
          [Blob("MSF", "token", 1) EXCEPT !.inner_ok = FALSE],
          [Blob("OTHER", "token", 1) EXCEPT !.outer_ok = FALSE]}

ValueWitnesses ==
  {Sign(SpendA(q, c, r, b), <<0, 2>>) :
     q \in {4, 6}, c \in {0, 1, 5}, r \in BoundedSeq({1, 3, 6}, 2),
     b \in BoundedSeq(Blobs, 2)}

\* One spend and what its signers, and others, may have signed for it.
Base == SpendA(6, 1, <<3>>, <<Blob("MSF", "token", 2)>>)
Rival == SpendA(6, 1, <<3>>, <<Blob("MSF", "token", 1), Blob("MSF", "token", 1)>>)

Slots ==
  {Slot(Base, idx, key) : idx \in 0 .. 3, key \in 1 .. 4}
    \cup {Slot(Rival, idx, idx + 1) : idx \in 0 .. 2}
    \cup {[Slot(Base, idx, idx + 1) EXCEPT !.sig.high_s = TRUE] : idx \in 0 .. 2}
    \cup {[Slot(Base, 1, 2) EXCEPT !.sig.der = FALSE]}

SignatureWitnesses ==
  {[Base EXCEPT !.signatures = s] : s \in BoundedSeq(Slots, 2)}

\* Labels that were never validated: any key list, any threshold.
LabelWitnesses ==
  {Sign(Spend(Label(keys, k), keys, 6, 1, <<5>>, <<>>), [j \in 1 .. k |-> j - 1]) :
     keys \in BoundedSeq({1, 2, 3, 9}, 3) \ BoundedSeq({1, 2, 3, 9}, 1), k \in 0 .. 2}

\* A signed witness with one of its parts replaced after the signing.
Tampered ==
  LET good == Sign(Base, <<0, 1>>) IN
  {[good EXCEPT !.nf_key = nullifier_key(OtherLabel)],
   [good EXCEPT !.resource.nk_commitment = nullifier_key_commitment(OtherLabel)],
   [good EXCEPT !.resource.label_ref = label_ref(OtherLabel)],
   [good EXCEPT !.pubkeys = <<1, 2>>],
   [good EXCEPT !.pubkeys = <<1, 2, 4>>],
   [good EXCEPT !.change_resource = Note(OtherLabel, 1, "change")],
   [good EXCEPT !.change_resource = Note(OtherLabel, 1, "change"),
                !.action_tags = @ \cup {commitment(Note(OtherLabel, 1, "change"))}],
   [good EXCEPT !.action_tags = {}],
   [good EXCEPT !.action_tags = {commitment(good.change_resource)}],
   [good EXCEPT !.recipient_resources =
      <<[Note(OtherLabel, 3, "recipient") EXCEPT !.nonce = "substitute"]>>]}

\* Spends whose root is that of their tags, or of other tags.
RootWitnesses ==
  LET x == SpendA(6, 1, <<5>>, <<>>)
      rooted(tags) == [x EXCEPT !.action_tree_root = action_tree_root_of(tags)]
  IN {Sign(rooted(tags), <<0, 1>>) :
        tags \in {x.action_tags,
                  x.action_tags \cup {commitment(Note(OtherLabel, 1, "another"))}}}

MCWitnesses ==
  ValueWitnesses \cup SignatureWitnesses \cup LabelWitnesses \cup Tampered

=============================================================================
