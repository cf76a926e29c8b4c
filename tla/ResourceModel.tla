--------------------------- MODULE ResourceModel ---------------------------
(***************************************************************************)
(* The values every circuit and contract of the vault system exchanges:    *)
(* label preimages, resources, logic-instance journals, spend messages and *)
(* signatures (multisig-core: label.rs, journal.rs, spend.rs, sig.rs).     *)
(*                                                                         *)
(* SHA-256 is symbolic: Sha256(x) is a value that equals Sha256(y) only    *)
(* for x = y.  The fixed-width encodings it is applied to are injective,   *)
(* so they appear as tuples of the fields they concatenate.                *)
(***************************************************************************)
EXTENDS Integers, Sequences, SequencesExt

CONSTANTS
  MaxU128,      \* u128::MAX, the largest quantity a resource can carry
  CurvePoints,  \* the 33-byte strings that decode to a secp256k1 point
  Zero          \* the all-zero salt

ASSUME MaxU128Assumption == MaxU128 \in Nat

Quantity == 0 .. MaxU128

Sha256(x) == <<"sha256", x>>

-----------------------------------------------------------------------------
(* label.rs *)

MULTISIG_DOMAIN == "anoma.multisig.v1"
NULLIFIER_KEY_DOMAIN == "anoma.multisig.v1.nfk-key"

\* The hash of the concatenated pubkeys, in the order they are given.
pubkey_root_of(pubkeys) == Sha256(<<"pubkeys", pubkeys>>)

\* The 103 bytes of a label: every field at a fixed offset, after the domain.
encode_label(label) == <<MULTISIG_DOMAIN, label>>

label_ref(label) == Sha256(encode_label(label))

nullifier_key(label) == Sha256(<<NULLIFIER_KEY_DOMAIN, encode_label(label)>>)

nullifier_key_commitment(label) == Sha256(nullifier_key(label))

\* Fault: the label is hashed without the domain of the nullifier key.
derive_nullifier_key_bytesNoDomain(label) == Sha256(encode_label(label))

\* The same derivation once more: the guests have their own (constrain.rs).
derive_nullifier_key_bytes(label) ==
  Sha256(<<NULLIFIER_KEY_DOMAIN, encode_label(label)>>)

\* windows(2) finds no adjacent pair that is equal or descending.
StrictlyAscending(s) == \A j \in 1 .. Len(s) - 1 : s[j] < s[j + 1]

\* LabelPreimage::new: the errors, in the order the constructor raises them.
LabelError(k, pubkeys, salt) ==
  IF Len(pubkeys) \notin 1 .. 32 THEN "InvalidN"
  ELSE IF k \notin 1 .. Len(pubkeys) THEN "InvalidK"
  ELSE IF salt = Zero THEN "ZeroSalt"
  ELSE IF ~StrictlyAscending(pubkeys) THEN "UnsortedPubkeys"
  ELSE "none"

\* The label LabelPreimage::new returns once LabelError is "none".
LabelPreimage(token, k, pubkeys, salt) ==
  [token_addr  |-> token,
   n           |-> Len(pubkeys),
   k           |-> k,
   pubkey_root |-> pubkey_root_of(pubkeys),
   salt        |-> salt]

-----------------------------------------------------------------------------
(* Resources and nullifier keys: anoma-rm-risc0, as the circuits use it. *)

nk_commit(nf_key) == Sha256(nf_key)

commitment(resource) == Sha256(<<"commitment", resource>>)

\* Resource::tag(true, nf_key) fails unless the key matches the resource.
TagFails(resource, nf_key) == nk_commit(nf_key) # resource.nk_commitment

nullifier(resource, nf_key) == Sha256(<<"nullifier", resource, nf_key>>)

\* The root over the tags of an action, the way the host forms it.
action_tree_root_of(tags) == Sha256(<<"root", tags>>)

-----------------------------------------------------------------------------
(* journal.rs, spend.rs and sig.rs *)

\* LogicInstance; app_data holds the four payload arrays of the instance.
LogicInstance(tag, is_consumed, action_tree_root, app_data) ==
  [tag              |-> tag,
   is_consumed      |-> is_consumed,
   action_tree_root |-> action_tree_root,
   app_data         |-> app_data]

\* Fault: the payloads are left out of the encoding, and so of the signature.
journal_digestNoPayload(instance) ==
  Sha256(<<"journal", instance.tag, instance.action_tree_root>>)

\* journal::encode; its framing is unambiguous, so only its digest matters.
journal_digest(instance) == Sha256(<<"journal", instance>>)

\* RecipientCommitments::new sorts the list: what is left of it is the number
\* of times each commitment occurs in it.
RecipientCommitments(commitments) == ToBag(commitments)

\* The message the K signers sign: domain, digest, count and sorted list.
spend_message(digest, recipients) ==
  Sha256(<<"anoma.multisig.v1.spend", digest, recipients>>)

\* verify_secp256k1: a point, a DER signature in low-s form, made with the key
\* of that point over that message.
verify_secp256k1(pubkey, msg, sig) ==
  /\ pubkey \in CurvePoints
  /\ sig.der
  /\ ~sig.high_s
  /\ sig.key = pubkey
  /\ sig.msg = msg

\* The signature a holder of key makes: sign_low_s_der normalises s.
sign_low_s_der(key, msg) ==
  [der |-> TRUE, high_s |-> FALSE, key |-> key, msg |-> msg]

=============================================================================
