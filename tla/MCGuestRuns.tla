---------------------------- MODULE MCGuestRuns ----------------------------
(***************************************************************************)
(* Requests for GuestRuns.  Labels that were never validated: a list of    *)
(* keys in any order, with repeats and with 9, which is no curve point;    *)
(* any threshold; either salt.                                             *)
(***************************************************************************)
EXTENDS GuestRuns

MCCurvePoints == {1, 2, 3}
MCKeyLists == BoundedSeq({1, 2, 9}, 2) \ {<<>>}

Label(keys, n, k, salt) ==
  [token_addr |-> "token", n |-> n, k |-> k,
   pubkey_root |-> pubkey_root_of(keys), salt |-> salt]

LabelOf(keys, k) == Label(keys, Len(keys), k, "saltA")

Good == LabelOf(<<1, 2>>, 2)

\* Every label the created branch is asked about, far from all valid.
Labels ==
  {LabelOf(keys, k) : keys \in MCKeyLists, k \in 0 .. 3}
    \cup {Label(<<1, 2>>, n, 1, "saltA") : n \in {0, 1, 33}}
    \cup {Label(<<1, 2>>, 2, 1, Zero)}

Note(label, quantity, owner, ephemeral) ==
  [label_ref |-> label_ref(label), quantity |-> quantity, nonce |-> "nonce",
   is_ephemeral |-> ephemeral, nk_commitment |-> nullifier_key_commitment(owner)]

NoCalls == [external_payload |-> <<>>]

Created(label, quantity, owner) ==
  [facade |-> "prove_created",
   witness |-> [resource |-> Note(label, quantity, owner, FALSE),
                label_preimage |-> label,
                action_tree_root |-> "root", app_data |-> NoCalls]]

\* Notes of the label, of another label, and with another nullifier key.
CreatedRequests ==
  {Created(label, 2, label) : label \in Labels}
    \cup {Created(Good, q, Good) : q \in 0 .. 3}
    \cup {Created(Good, 2, LabelOf(<<1>>, 1)),
          [Created(Good, 2, Good) EXCEPT
             !.witness.resource.label_ref = label_ref(LabelOf(<<1>>, 1))]}

\* The spends of a good note by any of its holders, by too few, and by others.
FullSpends ==
  {[facade |-> "prove_consumed",
    witness |-> FullChange(Created(Good, 2, Good).witness, keys, order)] :
     keys \in {<<1, 2>>, <<2, 1>>}, order \in {<<>>, <<1>>, <<2>>, <<1, 2>>}}

Pay(forwarder, amount) ==
  [outer_ok |-> TRUE, inner_ok |-> TRUE, token |-> "token",
   forwarder |-> forwarder, to |-> "payee", amount |-> amount]

\* Signed by both holders: a note is split into change, recipients and calls,
\* or into more than it has.
Split(nonce, change, recipients, blobs) ==
  LET full == FullChange([Created(Good, 2, Good).witness EXCEPT !.resource.nonce = nonce],
                         <<1, 2>>, <<1, 2>>)
      named == [q \in 0 .. 2 |-> [full.change_resource EXCEPT !.quantity = q]]
      unsigned == [full EXCEPT
                     !.change_resource = named[change],
                     !.recipient_resources = [j \in DOMAIN recipients |-> named[recipients[j]]],
                     !.app_data = [external_payload |-> blobs],
                     !.action_tags = {commitment(named[q]) : q \in 0 .. 2}]
  IN [facade |-> "prove_consumed",
      witness |-> [unsigned EXCEPT !.signatures =
                     [j \in 1 .. 2 |-> [idx |-> j - 1,
                                       sig |-> sign_low_s_der(j, SpendMessage(unsigned))]]]]

\* Two notes, whose spends name the same three, in one action.
Splits ==
  {Split(nonce, change, recipients, blobs) :
     nonce \in {"noteA", "noteB"}, change \in 0 .. 2,
     recipients \in {<<>>, <<1>>, <<1, 1>>},
     blobs \in {<<>>, <<Pay(MULTISIG_FORWARDER, 1)>>, <<Pay(MULTISIG_FORWARDER, 2)>>,
               <<Pay(WRAP_FORWARDER, 1)>>}}

ConsumedRequests == FullSpends \cup Splits

Wrap(op, forwarder, token, from, amount) ==
  [outer_ok |-> TRUE, inner_ok |-> TRUE, op |-> op, forwarder |-> forwarder,
   token |-> token, from |-> from, amount |-> amount]

Inflow(quantity, paired, blobs) ==
  [facade |-> "prove_inflow",
   witness |-> [resource |-> Note(Good, quantity, Good, TRUE),
                nf_key |-> nullifier_key(Good),
                paired_vault_label_preimage |-> Good,
                paired_vault_quantity |-> paired,
                depositor |-> "alice",
                action_tree_root |-> "root",
                app_data |-> [external_payload |-> blobs]]]

GoodWrap(amount) == Wrap("WRAP", WRAP_FORWARDER, "token", "alice", amount)

InflowRequests ==
  {Inflow(q, paired, <<GoodWrap(amount)>>) :
     q \in 1 .. 2, paired \in 1 .. 2, amount \in 1 .. 2}
    \cup {Inflow(2, 2, blobs) : blobs \in
            {<<>>, <<GoodWrap(2), GoodWrap(2)>>,
             <<Wrap("UNWRAP", WRAP_FORWARDER, "token", "alice", 2)>>,
             <<Wrap("WRAP", MULTISIG_FORWARDER, "token", "alice", 2)>>,
             <<Wrap("WRAP", WRAP_FORWARDER, "another token", "alice", 2)>>,
             <<Wrap("WRAP", WRAP_FORWARDER, "token", "another", 2)>>,
             <<[GoodWrap(2) EXCEPT !.inner_ok = FALSE]>>,
             <<[GoodWrap(2) EXCEPT !.outer_ok = FALSE]>>}}
    \cup {[Inflow(2, 2, <<GoodWrap(2)>>) EXCEPT !.witness.resource = r] : r \in
            {Note(Good, 2, Good, FALSE), Note(Good, 2, LabelOf(<<1>>, 1), TRUE),
             Note(LabelOf(<<1>>, 1), 2, Good, TRUE)}}

Outflow(resource, blobs) ==
  [facade |-> "prove_outflow",
   witness |-> [resource |-> resource, label_preimage |-> Good,
                action_tree_root |-> "root",
                app_data |-> [external_payload |-> blobs]]]

\* Outflows without calls, as the host builds them, and with one: a payment
\* out of custody, a deposit, a deposit of what is in custody.
OutflowRequests ==
  {Outflow(r, <<>>) : r \in
     {Note(Good, 1, Good, TRUE), Note(Good, 1, Good, FALSE),
      Note(LabelOf(<<1>>, 1), 1, Good, TRUE)}}
    \cup {Outflow(Note(Good, 1, Good, TRUE), <<blob>>) : blob \in
            {Pay(MULTISIG_FORWARDER, 1), Pay(MULTISIG_FORWARDER, 2), GoodWrap(1),
             Wrap("WRAP", WRAP_FORWARDER, "token", MULTISIG_FORWARDER, 2)}}

MCRequests ==
  CreatedRequests \cup ConsumedRequests \cup InflowRequests \cup OutflowRequests

=============================================================================
