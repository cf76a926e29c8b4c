-------------------------- MODULE GuestRuns_proofs --------------------------
(***************************************************************************)
(* What a receipt proves, for every set of requests: a spend receipt       *)
(* vouches for an authorised spend, a created note can be spent by the     *)
(* holders of its keys and by no one without a signature, spends together  *)
(* hold no more than the notes they consume, a deposit receipt funds the   *)
(* custody by the wrapped amount, and a wrap_v1 receipt takes nothing out. *)
(*                                                                         *)
(* The inductive invariant says of each receipt which request it is of,    *)
(* that the branch of this request accepted it, and that there are only    *)
(* finitely many receipts, whose amounts can be added up.                  *)
(***************************************************************************)
EXTENDS GuestRuns, DataTheorems

\* A receipt is of a request, and the guest accepted this request.
ReceiptsEarned ==
  \A r \in receipts :
    /\ r.of \in Requests
    /\ r = Receipt(r.of)
    /\ BranchError(r.of) = Accepted

\* The part of the type invariant the steps rely on.
RequestOK ==
  /\ pc \in {"idle", "env", "guest"}
  /\ pc # "idle" => request \in Requests
  /\ pc = "idle" => request = NoRequest
  /\ result \in Answers \cup {"none"}

IInv == RequestOK /\ ReceiptsEarned /\ IsFiniteSet(receipts)

\* The fields of a receipt are those it was made with.
LEMMA ReceiptFields ==
  ASSUME NEW r
  PROVE  /\ Receipt(r).image = ImageOf(r.facade)
         /\ Receipt(r).instance = BranchInstance(r)
         /\ Receipt(r).of = r
  BY DEF Receipt

\* A request is never the empty one: its facade is a facade.
LEMMA RequestsAreAsked == NoRequest \notin Requests
  <1> SUFFICES ASSUME NoRequest \in Requests PROVE FALSE
    OBVIOUS
  <1>1. NoRequest.facade \in Facades
    BY GuestsAssumption
  <1>2. NoRequest.facade = "none"
    BY DEF NoRequest
  <1> QED BY <1>1, <1>2 DEF Facades

\* Nothing was asked yet, and there are no receipts.
LEMMA InitEarned == Init => IInv
  BY FS_EmptySet DEF Init, IInv, RequestOK, ReceiptsEarned

\* Only Prove adds a receipt, and only for a request its branch accepts.
LEMMA NextEarned == IInv /\ [Next]_vars => IInv'
  <1> SUFFICES ASSUME IInv, [Next]_vars PROVE IInv'
    OBVIOUS
  <1>1. ASSUME NEW r \in Requests, Ask(r) PROVE IInv'
    BY <1>1 DEF Ask, IInv, RequestOK, ReceiptsEarned
  <1>2. CASE BuildEnv
    BY <1>2 DEF BuildEnv, IInv, RequestOK, ReceiptsEarned
  <1>3. CASE BuildEnvFails
    BY <1>3 DEF BuildEnvFails, Return, Answers, IInv, RequestOK, ReceiptsEarned
  <1>4. CASE ProveFails
    BY <1>4 DEF ProveFails, Return, Answers, IInv, RequestOK, ReceiptsEarned
  <1>5. CASE Prove
    <2>1. RequestOK'
      BY <1>5 DEF Prove, Return, Answers, RequestOK
    <2>2. /\ request \in Requests
          /\ BranchError(request) = Accepted
          /\ receipts' = receipts \cup {Receipt(request)}
      BY <1>5 DEF Prove, IInv, RequestOK
    <2>3. ASSUME NEW r \in receipts' PROVE /\ r.of \in Requests
                                           /\ r = Receipt(r.of)
                                           /\ BranchError(r.of) = Accepted
      <3>1. CASE r \in receipts
        BY <3>1 DEF IInv, ReceiptsEarned
      <3>2. CASE r = Receipt(request)
        <4>1. r.of = request
          BY <3>2, ReceiptFields
        <4> QED BY <4>1, <3>2, <2>2
      <3> QED BY <2>2, <3>1, <3>2
    <2>4. ReceiptsEarned'
      BY <2>3 DEF ReceiptsEarned, Receipt, BranchError
    <2>5. IsFiniteSet(receipts')
      BY <2>2, FS_AddElement DEF IInv
    <2> QED BY <2>1, <2>4, <2>5 DEF IInv
  <1>6. CASE UNCHANGED vars
    BY <1>6 DEF vars, IInv, RequestOK, ReceiptsEarned
  <1> QED BY <1>1, <1>2, <1>3, <1>4, <1>5, <1>6 DEF Next

\* The created and outflow instances are flagged as created, the others not.
LEMMA CreatedFlag ==
  ASSUME NEW r \in Requests, r.facade \in {"prove_created", "prove_outflow"}
  PROVE  BranchInstance(r).is_consumed = FALSE
  BY DEF BranchInstance, CreatedInstance, LogicInstance

\* An earned receipt of multisig_v1 for a consumed resource is of a consumed
\* witness that is authorised: the three other branches either belong to the
\* other image or commit an instance flagged as created.
LEMMA EarnedAuthorised == IInv => ConsumedReceiptsAuthorised
  <1> SUFFICES ASSUME IInv, NEW r \in receipts, r.image = MULTISIG_V1,
                      r.instance.is_consumed
               PROVE  r.of.facade = "prove_consumed" /\ Authorised(r.of.witness)
    BY DEF ConsumedReceiptsAuthorised
  <1>1. /\ r.of \in Requests
        /\ r = Receipt(r.of)
        /\ BranchError(r.of) = Accepted
    BY DEF IInv, ReceiptsEarned
  <1>2. /\ r.image = ImageOf(r.of.facade)
        /\ r.instance = BranchInstance(r.of)
    BY <1>1, ReceiptFields
  <1>3. r.of.facade \in {"prove_consumed", "prove_created"}
    BY <1>1, <1>2, GuestsAssumption DEF ImageOf, Facades
  <1>4. r.of.facade # "prove_created"
    BY <1>1, <1>2, CreatedFlag
  <1>5. r.of.facade = "prove_consumed"
    BY <1>3, <1>4
  <1>6. Authorised(r.of.witness)
    BY <1>1, <1>5 DEF BranchError, Accepted
  <1> QED BY <1>5, <1>6

\* The invariant holds in every state of every run.
LEMMA Earned == Spec => []IInv
  BY InitEarned, NextEarned, PTL DEF Spec

\* Whatever is asked, in whatever order, with failures of the environment or
\* the prover at any point: a multisig_v1 receipt for a consumed resource
\* vouches for an authorised spend, though the created branch shares its
\* image (circuits/multisig-v1/methods/guest/src/main.rs:16-27).
THEOREM ReceiptsVouch == Spec => []ConsumedReceiptsAuthorised
  BY Earned, EarnedAuthorised, PTL

\* The type invariant: one request at a time, and receipts of the right image.
THEOREM TypeCorrect == Spec => []TypeOK
  <1>1. IInv => TypeOK
    <2> SUFFICES ASSUME IInv PROVE TypeOK
      OBVIOUS
    <2>1. /\ request \in Requests \/ request = NoRequest
          /\ pc \in {"idle", "env", "guest"}
          /\ pc = "idle" <=> request = NoRequest
          /\ result \in Answers \cup {"none"}
      BY RequestsAreAsked DEF IInv, RequestOK
    <2>2. ASSUME NEW r \in receipts
          PROVE  /\ r.of \in Requests
                 /\ r.image = IF r.of.facade \in {"prove_inflow", "prove_outflow"}
                              THEN WRAP_V1 ELSE MULTISIG_V1
      <3>1. r.of \in Requests /\ r = Receipt(r.of)
        BY DEF IInv, ReceiptsEarned
      <3>2. r.image = ImageOf(r.of.facade)
        BY <3>1, ReceiptFields
      <3>3. r.of.facade \in Facades
        BY <3>1, GuestsAssumption
      <3> QED BY <3>1, <3>2, <3>3 DEF ImageOf, Facades
    <2> QED BY <2>1, <2>2 DEF TypeOK
  <1> QED BY <1>1, Earned, PTL

-----------------------------------------------------------------------------
(* Spends of a created note. *)

\* What the created branch asked of an accepted label, and of its note.
LEMMA CreatedLabel ==
  ASSUME NEW x, CreatedError(x) = Accepted
  PROVE  /\ x.label_preimage.n \in 1 .. 32
         /\ x.label_preimage.k \in 1 .. x.label_preimage.n
         /\ x.resource.label_ref = label_ref(x.label_preimage)
BY DEF CreatedError, Accepted

\* A receipt of a facade is of a request its branch accepted.
LEMMA ObtainedEarned ==
  ASSUME IInv, NEW r \in receipts
  PROVE  /\ r.of \in Requests
         /\ r.instance = BranchInstance(r.of)
         /\ r.image = ImageOf(r.of.facade)
         /\ BranchError(r.of) = Accepted
<1>1. r.of \in Requests /\ r = Receipt(r.of) /\ BranchError(r.of) = Accepted
  BY DEF IInv, ReceiptsEarned
<1> QED BY <1>1, ReceiptFields

\* The change of a full spend: all of the note, back to its vault.
ChangeOf(x) ==
  [label_ref     |-> x.resource.label_ref,
   quantity      |-> x.resource.quantity,
   nonce         |-> "change",
   is_ephemeral  |-> FALSE,
   nk_commitment |-> x.resource.nk_commitment]

\* The message its signers sign.
ChangeMessage(x) ==
  spend_message(
    journal_digest(LogicInstance(
      nullifier(x.resource, nullifier_key(x.label_preimage)), TRUE,
      x.action_tree_root, [external_payload |-> <<>>])),
    RecipientCommitments([j \in DOMAIN <<>> |-> commitment(<<>>[j])]))

\* The slots the holders at the positions of order fill.
ChangeSignatures(x, keys, order) ==
  [j \in DOMAIN order |->
     [idx |-> order[j] - 1, sig |-> sign_low_s_der(keys[order[j]], ChangeMessage(x))]]

\* What the witness y of a full spend says, field by field.
ChangeFields(y, x, keys, order) ==
  /\ y.resource = x.resource
  /\ y.nf_key = nullifier_key(x.label_preimage)
  /\ y.label_preimage = x.label_preimage
  /\ y.pubkeys = keys
  /\ y.change_resource = ChangeOf(x)
  /\ y.recipient_resources = <<>>
  /\ y.app_data = [external_payload |-> <<>>]
  /\ y.action_tree_root = x.action_tree_root
  /\ y.action_tags = {commitment(ChangeOf(x))}
  /\ SpendMessage(y) = ChangeMessage(x)
  /\ y.signatures = ChangeSignatures(x, keys, order)

LEMMA FullChangeFields ==
  ASSUME NEW x, NEW keys, NEW order
  PROVE  ChangeFields(FullChange(x, keys, order), x, keys, order)
<1> DEFINE y == FullChange(x, keys, order)
           unsigned ==
             [resource            |-> x.resource,
              nf_key              |-> nullifier_key(x.label_preimage),
              label_preimage      |-> x.label_preimage,
              pubkeys             |-> keys,
              signatures          |-> <<>>,
              change_resource     |-> ChangeOf(x),
              recipient_resources |-> <<>>,
              app_data            |-> [external_payload |-> <<>>],
              action_tree_root    |-> x.action_tree_root,
              action_tags         |-> {commitment(ChangeOf(x))}]
<1>1. y = [unsigned EXCEPT !.signatures =
             [j \in DOMAIN order |->
                [idx |-> order[j] - 1,
                 sig |-> sign_low_s_der(keys[order[j]], SpendMessage(unsigned))]]]
  BY DEF FullChange, ChangeOf
<1>2. SpendMessage(unsigned) = ChangeMessage(x)
  BY DEF SpendMessage, ConsumedInstance, ChangeMessage
<1>3. SpendMessage(y) = ChangeMessage(x)
  BY <1>1 DEF SpendMessage, ConsumedInstance, ChangeMessage
<1>4. y.signatures = ChangeSignatures(x, keys, order)
  <2>1. y.signatures = [j \in DOMAIN order |->
                          [idx |-> order[j] - 1,
                           sig |-> sign_low_s_der(keys[order[j]], SpendMessage(unsigned))]]
    BY <1>1
  <2> HIDE DEF unsigned, y
  <2> QED BY <1>2, <2>1 DEF ChangeSignatures
<1>5. /\ y.resource = x.resource /\ y.pubkeys = keys
      /\ y.nf_key = nullifier_key(x.label_preimage)
      /\ y.label_preimage = x.label_preimage
      /\ y.change_resource = ChangeOf(x)
      /\ y.recipient_resources = <<>>
      /\ y.app_data = [external_payload |-> <<>>]
      /\ y.action_tree_root = x.action_tree_root
      /\ y.action_tags = {commitment(ChangeOf(x))}
  BY <1>1
<1> HIDE DEF y
<1>6. ChangeFields(y, x, keys, order)
  BY <1>3, <1>4, <1>5 DEF ChangeFields
<1> QED BY <1>6 DEF y

\* With no signature, the threshold is missed: it is at least one.
LEMMA UnsignedRefused ==
  ASSUME NEW x, CreatedError(x) = Accepted, NEW keys
  PROVE  ~Suffice(x, keys, <<>>)
<1> DEFINE y == FullChange(x, keys, <<>>)
<1> DEFINE none == <<>>
<1>1. y.label_preimage = x.label_preimage /\ y.signatures = ChangeSignatures(x, keys, none)
  <2>1. ChangeFields(y, x, keys, none)
    BY FullChangeFields
  <2> HIDE DEF y, none
  <2> QED BY <2>1 DEF ChangeFields
<1>2. Len(ChangeSignatures(x, keys, none)) = 0
  BY DEF ChangeSignatures
<1> HIDE DEF y, none
<1>3. ~SignedByK(y)
  BY <1>1, <1>2, CreatedLabel DEF SignedByK
<1> QED BY <1>3 DEF Suffice, Authorised, y

\* The consumed branch opens a created note with the lists that open it.
LEMMA ChangeOpens ==
  ASSUME NEW x, CreatedError(x) = Accepted, NEW keys \in Seq(Nat), NEW order
  PROVE  OpensLabel(FullChange(x, keys, order)) <=> OpenedBy(x, keys)
<1> DEFINE y == FullChange(x, keys, order)
           l == x.label_preimage
<1>1. /\ y.resource = x.resource /\ y.nf_key = nullifier_key(l)
      /\ y.label_preimage = l /\ y.pubkeys = keys
  <2>1. ChangeFields(y, x, keys, order)
    BY FullChangeFields
  <2> HIDE DEF y
  <2> QED BY <2>1 DEF ChangeFields
<1>2. AscendingBelow(keys, Len(keys)) <=> StrictlyAscending(keys)
  <2>1. StrictlyAscending(keys) => AscendingBelow(keys, Len(keys))
    BY NeighboursAscend DEF StrictlyAscending, AscendingBelow
  <2>2. ASSUME AscendingBelow(keys, Len(keys)) PROVE StrictlyAscending(keys)
    BY <2>2 DEF StrictlyAscending, AscendingBelow
  <2> QED BY <2>1, <2>2
<1>3. nk_commit(nullifier_key(l)) = nullifier_key_commitment(l)
  BY DEF nk_commit, nullifier_key_commitment
<1> HIDE DEF y
<1>4. OpensLabel(y) <=> OpenedBy(x, keys)
  BY <1>1, <1>2, <1>3, CreatedLabel DEF OpensLabel, OpenedBy
<1> QED BY <1>4 DEF y

\* The slots of a full spend verify when its signers are k curve points, in
\* ascending order.
LEMMA ChangeSigned ==
  ASSUME NEW x, CreatedError(x) = Accepted,
         NEW keys \in Seq(Nat), Len(keys) = x.label_preimage.n,
         NEW m \in Nat, NEW order \in [1 .. m -> 1 .. Len(keys)]
  PROVE  SignedByK(FullChange(x, keys, order)) <=>
           /\ order \in Orders(x.label_preimage.k, Len(keys))
           /\ \A j \in DOMAIN order : keys[order[j]] \in CurvePoints
<1> DEFINE y == FullChange(x, keys, order)
           k == x.label_preimage.k
           n == x.label_preimage.n
           sig(j) == sign_low_s_der(keys[order[j]], ChangeMessage(x))
<1>1. n \in 1 .. 32 /\ k \in 1 .. n /\ Len(keys) = n
  BY CreatedLabel
<1>2. /\ DOMAIN order = 1 .. m
      /\ \A j \in 1 .. m : order[j] \in 1 .. n
  BY <1>1
<1>3. /\ y.label_preimage = x.label_preimage /\ y.pubkeys = keys
      /\ SpendMessage(y) = ChangeMessage(x)
      /\ y.signatures = ChangeSignatures(x, keys, order)
  <2>1. ChangeFields(y, x, keys, order)
    BY FullChangeFields
  <2> HIDE DEF y
  <2> QED BY <2>1 DEF ChangeFields
<1> HIDE DEF y
<1>4. y.signatures = [j \in 1 .. m |-> [idx |-> order[j] - 1, sig |-> sig(j)]]
  BY <1>2, <1>3 DEF ChangeSignatures
<1>5. ASSUME NEW j \in 1 .. m
      PROVE  verify_secp256k1(keys[order[j]], ChangeMessage(x), sig(j))
               <=> keys[order[j]] \in CurvePoints
  BY DEF verify_secp256k1, sign_low_s_der
<1>6. y.label_preimage.k = k /\ y.label_preimage.n = n
  BY <1>3
<1> HIDE DEF sig, k, n
<1>7. /\ Len(y.signatures) = m /\ DOMAIN y.signatures = 1 .. m
      /\ \A j \in 1 .. m : /\ y.signatures[j].idx = order[j] - 1
                           /\ y.signatures[j].sig = sig(j)
  BY <1>4
<1>8. /\ DOMAIN SignerIndices(y) = 1 .. m
      /\ \A j \in 1 .. m : SignerIndices(y)[j] = order[j] - 1
  BY <1>7 DEF SignerIndices
<1>9. AscendingBelow(SignerIndices(y), m) <=> AscendingBelow(order, m)
  BY <1>1, <1>2, <1>8 DEF AscendingBelow
<1>10. ASSUME NEW j \in 1 .. m
       PROVE  /\ y.signatures[j].idx < n
              /\ verify_secp256k1(y.pubkeys[y.signatures[j].idx + 1],
                                  SpendMessage(y), y.signatures[j].sig)
                   <=> keys[order[j]] \in CurvePoints
  <2>1. order[j] \in 1 .. n /\ order[j] - 1 + 1 = order[j] /\ order[j] - 1 < n
    BY <1>1, <1>2
  <2> QED BY <1>3, <1>5, <1>7, <2>1
<1>11. order \in Orders(k, n) <=> m = k /\ AscendingBelow(order, m)
  <2>1. ASSUME order \in Orders(k, n) PROVE m = k /\ AscendingBelow(order, m)
    <3>1. DOMAIN order = 1 .. k /\ AscendingBelow(order, k)
      BY <2>1 DEF Orders
    <3>2. 1 .. m = 1 .. k
      BY <1>2, <3>1
    <3>3. m = k
      BY <1>1, <3>2
    <3> QED BY <3>1, <3>3
  <2>2. ASSUME m = k, AscendingBelow(order, m) PROVE order \in Orders(k, n)
    BY <1>1, <2>2 DEF Orders
  <2> QED BY <2>1, <2>2
<1>12. SignedByK(y) <=> /\ m = k
                        /\ AscendingBelow(order, m)
                        /\ \A j \in 1 .. m : keys[order[j]] \in CurvePoints
  BY <1>6, <1>7, <1>9, <1>10 DEF SignedByK
<1>13. SignedByK(y) <=> /\ order \in Orders(k, Len(keys))
                        /\ \A j \in DOMAIN order : keys[order[j]] \in CurvePoints
  BY <1>1, <1>2, <1>11, <1>12
<1> QED BY <1>13 DEF y, k

\* It keeps all of the note in the vault and moves nothing else.
LEMMA ChangeBalances ==
  ASSUME NEW x, x.resource.quantity \in Quantity, NEW keys, NEW order
  PROVE  /\ StaysInAction(FullChange(x, keys, order))
         /\ PayloadsMatch(FullChange(x, keys, order))
         /\ Balanced(FullChange(x, keys, order))
<1> DEFINE y == FullChange(x, keys, order)
<1>1. ChangeFields(y, x, keys, order)
  BY FullChangeFields
<1>2. /\ ChangeOf(x).label_ref = x.resource.label_ref
      /\ ChangeOf(x).quantity = x.resource.quantity
  BY DEF ChangeOf
<1> HIDE DEF y
<1>3. /\ y.resource = x.resource
      /\ y.change_resource = ChangeOf(x)
      /\ y.recipient_resources = <<>>
      /\ y.app_data.external_payload = <<>>
      /\ commitment(ChangeOf(x)) \in y.action_tags
  BY <1>1 DEF ChangeFields
<1>4. StaysInAction(y)
  BY <1>2, <1>3 DEF StaysInAction
<1>5. PayloadsMatch(y)
  BY <1>3 DEF PayloadsMatch
<1>6. TotalOf(ForwardedAmounts(y)) = 0 /\ TotalOf(RecipientQuantities(y)) = 0
  <2>1. DOMAIN ForwardedAmounts(y) = {} /\ DOMAIN RecipientQuantities(y) = {}
    BY <1>3 DEF ForwardedAmounts, RecipientQuantities
  <2> QED BY <2>1, SumOfNone DEF TotalOf
<1>7. Balanced(y)
  <2>1. x.resource.quantity \in Int
    BY MaxU128Assumption DEF Quantity
  <2> QED BY <1>2, <1>3, <1>6, <2>1 DEF Balanced
<1> QED BY <1>4, <1>5, <1>7 DEF y

\* There are k of n positions, when k is at most n.
LEMMA OrdersExist ==
  ASSUME NEW n \in Nat, NEW k \in 1 .. n
  PROVE  Orders(k, n) # {}
<1> DEFINE first == [j \in 1 .. k |-> j]
<1>1. first \in [1 .. k -> 1 .. n] /\ AscendingBelow(first, k)
  BY DEF AscendingBelow
<1> HIDE DEF first
<1> QED BY <1>1 DEF Orders

\* The request of a created receipt.
LEMMA CreatedObtained ==
  ASSUME IInv, NEW r \in Obtained("prove_created")
  PROVE  /\ CreatedError(r.of.witness) = Accepted
         /\ r.of.witness.resource.quantity \in Quantity
<1>1. r \in receipts /\ r.of.facade = "prove_created"
  BY DEF Obtained
<1>2. r.of \in Requests /\ BranchError(r.of) = Accepted
  BY <1>1, ObtainedEarned
<1>3. CreatedError(r.of.witness) = Accepted
  BY <1>1, <1>2 DEF BranchError
<1> QED BY <1>2, <1>3, WitnessAssumption

\* Which created notes are stuck, and who can spend the others.  The created
\* branch sees neither the keys nor the nullifier key (constrain.rs:283-298):
\* a list of keys spends an accepted note exactly when the label commits to it
\* as a sorted list and the note carries the label's nullifier key, by any k of
\* its holders and by no other selection of them.
THEOREM HoldersCanSpend == Spec => []CreatedNotesSpendable
<1>1. IInv => CreatedNotesSpendable
  <2> SUFFICES ASSUME IInv, NEW r \in Obtained("prove_created"), NEW keys \in KeyLists
               PROVE  LET x == r.of.witness
                          orders == Orders(x.label_preimage.k, Len(keys)) IN
                      /\ OpenedBy(x, keys) => orders # {}
                      /\ \A order \in Selections(keys) :
                           Suffice(x, keys, order) <=>
                             /\ OpenedBy(x, keys)
                             /\ order \in orders
                             /\ \A j \in DOMAIN order : keys[order[j]] \in CurvePoints
    BY DEF CreatedNotesSpendable
  <2> DEFINE x == r.of.witness
             k == x.label_preimage.k
  <2>1. CreatedError(x) = Accepted /\ x.resource.quantity \in Quantity
    BY CreatedObtained
  <2>2. keys \in Seq(Nat)
    BY WitnessAssumption
  <2>3. OpenedBy(x, keys) => Len(keys) = x.label_preimage.n
    BY DEF OpenedBy
  <2> HIDE DEF x
  <2>4. OpenedBy(x, keys) => Orders(k, Len(keys)) # {}
    <3>1. ASSUME OpenedBy(x, keys) PROVE Len(keys) \in Nat /\ k \in 1 .. Len(keys)
      BY <2>1, <2>2, <2>3, <3>1, CreatedLabel
    <3> HIDE DEF k
    <3> QED BY <3>1, OrdersExist
  <2>5. ASSUME NEW order \in Selections(keys)
        PROVE  Suffice(x, keys, order) <=>
                 /\ OpenedBy(x, keys)
                 /\ order \in Orders(k, Len(keys))
                 /\ \A j \in DOMAIN order : keys[order[j]] \in CurvePoints
    <3>1. PICK m \in Nat : order \in [1 .. m -> 1 .. Len(keys)]
      BY DEF Selections
    <3>2. OpensLabel(FullChange(x, keys, order)) <=> OpenedBy(x, keys)
      BY <2>1, <2>2, ChangeOpens
    <3>3. /\ StaysInAction(FullChange(x, keys, order))
          /\ PayloadsMatch(FullChange(x, keys, order))
          /\ Balanced(FullChange(x, keys, order))
      BY <2>1, ChangeBalances
    <3>4. OpenedBy(x, keys) =>
            (SignedByK(FullChange(x, keys, order)) <=>
               /\ order \in Orders(k, Len(keys))
               /\ \A j \in DOMAIN order : keys[order[j]] \in CurvePoints)
      BY <2>1, <2>2, <2>3, <3>1, ChangeSigned
    <3> QED BY <3>2, <3>3, <3>4 DEF Suffice, Authorised
  <2> QED BY <2>4, <2>5 DEF x, k
<1> QED BY <1>1, Earned, PTL

\* Nor does any list of keys spend a created note without a signature: the
\* threshold of an accepted label is at least one.
THEOREM NotesAreOwned == Spec => []CreatedNotesOwned
<1>1. IInv => CreatedNotesOwned
  BY CreatedObtained, UnsignedRefused DEF CreatedNotesOwned
<1> QED BY <1>1, Earned, PTL

-----------------------------------------------------------------------------
(* The calls of the wrap_v1 receipts. *)

\* What an accepted inflow says of its one call.
LEMMA InflowCall ==
  ASSUME NEW x, InflowError(x) = Accepted
  PROVE  /\ Len(x.app_data.external_payload) = 1
         /\ x.resource.label_ref = label_ref(x.paired_vault_label_preimage)
         /\ InflowCallError(x, x.app_data.external_payload[1]) = Accepted
<1>1. InflowLabelError(x) = Accepted
  BY DEF InflowError
<1>2. Len(x.app_data.external_payload) = 1
  BY <1>1 DEF InflowError, Accepted
<1>3. InflowCallError(x, x.app_data.external_payload[1]) = Accepted
  BY <1>1, <1>2 DEF InflowError
<1>4. x.resource.label_ref = label_ref(x.paired_vault_label_preimage)
  BY <1>1 DEF InflowLabelError, Accepted
<1> QED BY <1>2, <1>3, <1>4

LEMMA InflowBlob ==
  ASSUME NEW x, NEW blob, InflowCallError(x, blob) = Accepted
  PROVE  /\ blob.forwarder = WRAP_FORWARDER
         /\ blob.inner_ok /\ blob.op = "WRAP"
         /\ blob.amount <= MaxU128
         /\ blob.token = x.paired_vault_label_preimage.token_addr
         /\ blob.from = x.depositor
BY DEF InflowCallError, InnerParses, Accepted

\* Who has a full balance can pay, and only the payer and the payee notice.
LEMMA WealthyPays ==
  ASSUME NEW x, x.depositor # MULTISIG_FORWARDER, NEW call, call.decodes, call.op = "WRAP",
         call.token = x.paired_vault_label_preimage.token_addr,
         call.from = x.depositor, call.amount \in Nat, call.amount <= MaxU128
  PROVE  /\ Chain!WrapForwardError(PA, WrapForwarderLogicRef, call, Wealth(x),
                                   Wealth(x)) = Chain!NoRevert
         /\ Chain!WrapForwardBalance(call, Wealth(x))
              [<<x.paired_vault_label_preimage.token_addr, MULTISIG_FORWARDER>>]
              = Wealth(x)[<<x.paired_vault_label_preimage.token_addr,
                            MULTISIG_FORWARDER>>] + call.amount
<1> DEFINE W == Wealth(x)
           payer == <<call.token, call.from>>
           custody == <<call.token, MULTISIG_FORWARDER>>
           paid == [W EXCEPT ![payer] = @ - call.amount]
<1>1. /\ payer \in DOMAIN W /\ custody \in DOMAIN W
      /\ W[payer] = MaxU128 /\ W[custody] = MaxU128
  BY DEF Wealth
<1>2. payer # custody
  OBVIOUS
<1>3. Chain!WrapForwardError(PA, WrapForwarderLogicRef, call, W, W) = Chain!NoRevert
  <2>1. Chain!CanTransfer(W, call.token, call.from, call.amount)
    BY <1>1, MaxU128Assumption DEF Chain!CanTransfer
  <2>2. ~(W[payer] < call.amount)
    BY <1>1, MaxU128Assumption
  <2> HIDE DEF W
  <2> QED BY <2>1, <2>2 DEF Chain!WrapForwardError
<1>4. Chain!WrapForwardBalance(call, W) = [paid EXCEPT ![custody] = @ + call.amount]
  BY DEF Chain!WrapForwardBalance, Chain!Transferred
<1> HIDE DEF W, payer, custody
<1>5. DOMAIN paid = DOMAIN W /\ paid[custody] = W[custody]
  BY <1>1, <1>2
<1> HIDE DEF paid
<1>6. Chain!WrapForwardBalance(call, W)[custody] = W[custody] + call.amount
  BY <1>1, <1>4, <1>5
<1> QED BY <1>3, <1>6 DEF W, custody

\* A deposit proof funds custody: it makes one call, to the WrapForwarder, of
\* the token of the proven label, which goes through when the depositor has
\* enough and adds the wrapped amount to what the MultisigForwarder holds
\* (constrain.rs:340-363, WrapForwarder.sol:26-38).
THEOREM DepositsFund == Spec => []InflowsFundCustody
<1>1. IInv => InflowsFundCustody
  <2> SUFFICES ASSUME IInv, NEW r \in Obtained("prove_inflow"),
                      r.of.witness.depositor # MULTISIG_FORWARDER
               PROVE  LET x == r.of.witness
                          calls == r.instance.app_data.external_payload
                          call == Chain!WrapCall(calls[1])
                          custody == <<x.paired_vault_label_preimage.token_addr,
                                       MULTISIG_FORWARDER>>
                      IN  /\ Len(calls) = 1
                          /\ calls[1].forwarder = WRAP_FORWARDER
                          /\ x.resource.label_ref = label_ref(x.paired_vault_label_preimage)
                          /\ Chain!WrapForwardError(PA, WrapForwarderLogicRef, call,
                                                    Wealth(x), Wealth(x)) = Chain!NoRevert
                          /\ Chain!WrapForwardBalance(call, Wealth(x))[custody]
                               = Wealth(x)[custody] + call.amount
    BY DEF InflowsFundCustody
  <2> DEFINE x == r.of.witness
             calls == x.app_data.external_payload
             call == Chain!WrapCall(calls[1])
  <2>1. /\ r \in receipts /\ r.of.facade = "prove_inflow"
        /\ r.of \in Requests /\ r.instance = BranchInstance(r.of)
        /\ BranchError(r.of) = Accepted
    BY ObtainedEarned DEF Obtained
  <2>2. InflowError(x) = Accepted
    BY <2>1 DEF BranchError
  <2>3. r.instance.app_data.external_payload = calls
    BY <2>1 DEF BranchInstance, InflowInstance, LogicInstance
  <2>4. calls[1].amount \in Nat
    <3>1. calls[1] \in ToSet(calls)
      BY <2>2, InflowCall DEF ToSet
    <3> QED BY <2>1, <3>1, WitnessAssumption
  <2> HIDE DEF x, calls
  <2>5. /\ Len(calls) = 1
        /\ x.resource.label_ref = label_ref(x.paired_vault_label_preimage)
        /\ InflowCallError(x, calls[1]) = Accepted
    BY <2>2, InflowCall DEF calls
  <2>6. /\ call.decodes /\ call.op = "WRAP" /\ call.from = x.depositor
        /\ call.token = x.paired_vault_label_preimage.token_addr
        /\ call.amount \in Nat /\ call.amount <= MaxU128
        /\ calls[1].forwarder = WRAP_FORWARDER
    BY <2>4, <2>5, InflowBlob DEF Chain!WrapCall
  <2> HIDE DEF call
  <2> QED BY <2>3, <2>5, <2>6, WealthyPays DEF x, call
<1> QED BY <1>1, Earned, PTL

\* The adapter's call for a wrap_v1 carrier, be it addressed to either
\* forwarder: custody does not fall, when the MultisigForwarder is deployed
\* for another logic.
LEMMA WrapCallKeeps ==
  ASSUME MultisigForwarderLogicRef # WRAP_V1,
         NEW blob, blob.amount \in Nat, NEW bal, NEW party, party = Party(blob),
         NEW custody, custody = <<blob.token, MULTISIG_FORWARDER>>,
         bal = [p \in {custody, <<blob.token, party>>} |-> MaxU128]
  PROVE  AfterCall(WRAP_V1, blob, bal)[custody] >= bal[custody]
<1> DEFINE payer == <<blob.token, blob.from>>
           call == Chain!WrapCall(blob)
           paid == [bal EXCEPT ![payer] = @ - blob.amount]
<1>1. bal[custody] = MaxU128 /\ MaxU128 \in Nat /\ custody \in DOMAIN bal
  BY MaxU128Assumption
<1>2. CASE AfterCall(WRAP_V1, blob, bal) = bal
  BY <1>1, <1>2
<1>3. CASE AfterCall(WRAP_V1, blob, bal) # bal
  <2>1. blob.forwarder # MULTISIG_FORWARDER
    BY <1>3 DEF AfterCall, Chain!MultisigForwardError, Chain!NoRevert
  <2>2. AfterCall(WRAP_V1, blob, bal) = Chain!WrapForwardBalance(call, bal)
    BY <1>3, <2>1 DEF AfterCall
  <2>3. payer \in DOMAIN bal
    BY <2>1 DEF Party
  <2>4. Chain!WrapForwardBalance(call, bal) = [paid EXCEPT ![custody] = @ + blob.amount]
    BY DEF Chain!WrapForwardBalance, Chain!WrapCall, Chain!Transferred
  <2>5. custody \in DOMAIN paid
        /\ paid[custody] \in {bal[custody], bal[custody] - blob.amount}
    BY <1>1, <2>3
  <2> HIDE DEF paid
  <2>6. [paid EXCEPT ![custody] = @ + blob.amount][custody] = paid[custody] + blob.amount
    BY <2>5
  <2>7. paid[custody] + blob.amount >= bal[custody]
    BY <1>1, <2>5
  <2> QED BY <2>2, <2>4, <2>6, <2>7
<1> QED BY <1>2, <1>3

\* Whatever payloads an outflow or a deposit carries, none of them takes
\* anything out of custody, as long as the MultisigForwarder is deployed for
\* another logic than wrap_v1: the branch asks nothing of them
\* (constrain.rs:380-400), the carrier check does (MultisigForwarder.sol:31).
THEOREM CustodyKept ==
  ASSUME MultisigForwarderLogicRef # WRAP_V1
  PROVE  Spec => []WrapReceiptsKeepCustody
<1>1. IInv => WrapReceiptsKeepCustody
  <2> SUFFICES ASSUME IInv, NEW r \in receipts, r.image = WRAP_V1,
                      NEW blob \in ToSet(r.instance.app_data.external_payload)
               PROVE  LET custody == <<blob.token, MULTISIG_FORWARDER>>
                          bal == [p \in {custody, <<blob.token, Party(blob)>>} |-> MaxU128]
                      IN  AfterCall(WRAP_V1, blob, bal)[custody] >= bal[custody]
    BY DEF WrapReceiptsKeepCustody
  <2>1. r.of \in Requests /\ r.instance = BranchInstance(r.of) /\ r.of.facade \in Facades
    BY ObtainedEarned, GuestsAssumption
  <2>2. r.instance.app_data = r.of.witness.app_data
    BY <2>1 DEF Facades, BranchInstance, ConsumedInstance, InflowInstance,
                CreatedInstance, LogicInstance
  <2>3. blob.amount \in Nat
    BY <2>1, <2>2, WitnessAssumption
  <2> QED BY <2>3, WrapCallKeeps
<1> QED BY <1>1, Earned, PTL

-----------------------------------------------------------------------------
(* Several spends. *)

\* A receipt an adapter takes for a spend is of an authorised witness.
LEMMA SpendIs ==
  ASSUME IInv, NEW r \in Spends
  PROVE  /\ IsWitness(r.of.witness)
         /\ Authorised(r.of.witness)
         /\ r.instance.tag = nullifier(r.of.witness.resource, r.of.witness.nf_key)
         /\ r.instance.app_data = r.of.witness.app_data
<1>1. /\ r \in receipts
      /\ r.of.facade = "prove_consumed"
      /\ Authorised(r.of.witness)
  BY EarnedAuthorised DEF Spends, ConsumedReceiptsAuthorised
<1>2. r.of \in Requests /\ r.instance = BranchInstance(r.of)
  BY <1>1, ObtainedEarned
<1>3. r.instance = ConsumedInstance(r.of.witness)
  BY <1>1, <1>2 DEF BranchInstance
<1>4. /\ r.instance.tag = nullifier(r.of.witness.resource, r.of.witness.nf_key)
      /\ r.instance.app_data = r.of.witness.app_data
  BY <1>3 DEF ConsumedInstance, LogicInstance
<1> QED BY <1>1, <1>2, <1>4, WitnessAssumption

\* A note has one nullifier: its key is the one it carries the commitment of.
LEMMA OneTagPerNote ==
  ASSUME IInv, NEW r \in Spends, NEW q \in Spends,
         r.of.witness.resource = q.of.witness.resource
  PROVE  r.instance.tag = q.instance.tag
<1> DEFINE x == r.of.witness
           y == q.of.witness
<1>1. /\ nk_commit(x.nf_key) = x.resource.nk_commitment
      /\ nk_commit(y.nf_key) = y.resource.nk_commitment
  BY SpendIs DEF Authorised, OpensLabel
<1>2. x.nf_key = y.nf_key
  BY <1>1 DEF nk_commit, Sha256
<1>3. /\ r.instance.tag = nullifier(x.resource, x.nf_key)
      /\ q.instance.tag = nullifier(y.resource, y.nf_key)
  BY SpendIs
<1> QED BY <1>2, <1>3

\* What the calls of a spend pay is what its witness forwards.
LEMMA PaidIsForwarded ==
  ASSUME IInv, NEW r \in Spends
  PROVE  PaidBy(r) = TotalOf(ForwardedAmounts(r.of.witness))
<1> DEFINE calls == r.of.witness.app_data.external_payload
<1>1. r.instance.app_data.external_payload = calls
  BY SpendIs
<1>2. [j \in 1 .. Len(calls) |->
         IF calls[j].forwarder = MULTISIG_FORWARDER THEN calls[j].amount ELSE 0]
        = ForwardedAmounts(r.of.witness)
  BY DEF ForwardedAmounts, ForwardedAmount
<1> HIDE DEF calls
<1> QED BY <1>1, <1>2 DEF PaidBy

\* The notes N a balanced witness names, each counted once, and its payments
\* are no more than the note it consumes.
LEMMA SpendBalances ==
  ASSUME NEW x, IsWitness(x), Balanced(x),
         NEW N, N = {x.change_resource} \cup ToSet(x.recipient_resources),
         NEW f, \A note \in N : f[note] = note.quantity
  PROVE  /\ IsFiniteSet(N)
         /\ \A note \in N : f[note] \in Nat
         /\ TotalOf(ForwardedAmounts(x)) \in Nat
         /\ TotalOf(ForwardedAmounts(x)) + SumFunctionOnSet(f, N) <= x.resource.quantity
<1> DEFINE s == x.recipient_resources
           c == x.change_resource
           M == ToSet(s)
           D == 1 .. Len(s)
<1>1. /\ Len(s) \in Nat /\ DOMAIN s = D
      /\ \A j \in D : s[j].quantity \in Nat
      /\ c.quantity \in Nat /\ x.resource.quantity \in Nat
  BY MaxU128Assumption DEF IsWitness, Quantity
<1>2. /\ \A y : y \in M <=> \E j \in D : y = s[j]
      /\ M \subseteq N /\ c \in N /\ N = {c} \cup M
  BY <1>1 DEF ToSet
<1>3. IsFiniteSet(D) /\ IsFiniteSet({c})
  <2>1. IsFiniteSet({c})
    BY FS_Singleton, Zenon
  <2>2. IsFiniteSet(1 .. Len(s))
    BY <1>1, FS_Interval
  <2> QED BY <2>1, <2>2
<1>4. RecipientQuantities(x) = [j \in D |-> s[j].quantity]
  BY DEF RecipientQuantities
<1> HIDE DEF s, c, M, D
<1>5. \A j \in D : f[s[j]] \in Nat /\ RecipientQuantities(x)[j] = f[s[j]]
  <2>1. \A j \in D : s[j] \in N
    BY <1>2
  <2> QED BY <1>1, <1>4, <2>1
<1>6. /\ IsFiniteSet(M)
      /\ SumFunctionOnSet(f, M) <= SumFunctionOnSet(RecipientQuantities(x), D)
  BY <1>2, <1>3, <1>5, SumImage
<1>7. \A note \in N : f[note] \in Nat
  BY <1>1, <1>2, <1>5
<1>8. IsFiniteSet(N)
  <2>1. IsFiniteSet({c} \cup M)
    BY <1>3, <1>6, FS_Union
  <2> QED BY <1>2, <2>1
<1>9. SumFunctionOnSet(f, {c}) = c.quantity
  <2>1. f[c] = c.quantity /\ f[c] \in Int
    BY <1>1, <1>2
  <2> QED BY <2>1, SumOfMember
<1>10. SumFunctionOnSet(f, N) <= SumFunctionOnSet(f, {c}) + SumFunctionOnSet(f, M)
  <2>1. \A y \in {c} \cup M : f[y] \in Nat
    BY <1>2, <1>7
  <2> QED BY <1>2, <1>3, <1>6, <2>1, SumUnion
<1>11. SumFunctionOnSet(RecipientQuantities(x), D) = TotalOf(RecipientQuantities(x))
  <2>1. DOMAIN RecipientQuantities(x) = D
    BY <1>4
  <2> QED BY <2>1 DEF TotalOf, SumFunction
<1>12. TotalOf(ForwardedAmounts(x)) \in Nat
  <2> DEFINE F == ForwardedAmounts(x)
             E == 1 .. Len(x.app_data.external_payload)
  <2>1. DOMAIN F = E /\ \A j \in E : F[j] \in Nat
    BY DEF ForwardedAmounts, ForwardedAmount, IsWitness
  <2>2. IsFiniteSet(E)
    <3>1. Len(x.app_data.external_payload) \in Nat
      BY DEF IsWitness
    <3> QED BY <3>1, FS_Interval
  <2> HIDE DEF F, E
  <2>3. SumFunctionOnSet(F, E) \in Nat
    BY <2>1, <2>2, SumNat
  <2> QED BY <2>1, <2>3 DEF TotalOf, SumFunction, F
<1>13. /\ SumFunctionOnSet(f, N) \in Nat /\ SumFunctionOnSet(f, M) \in Nat
       /\ SumFunctionOnSet(RecipientQuantities(x), D) \in Nat
  <2>1. \A j \in D : RecipientQuantities(x)[j] \in Nat
    BY <1>5
  <2>2. \A y \in M : f[y] \in Nat
    BY <1>2, <1>7
  <2> QED BY <1>3, <1>6, <1>7, <1>8, <2>1, <2>2, SumNat
<1>14. TotalOf(ForwardedAmounts(x)) + TotalOf(RecipientQuantities(x)) + c.quantity
         = x.resource.quantity
  BY DEF Balanced, c
<1>15. TotalOf(ForwardedAmounts(x)) + SumFunctionOnSet(f, N) <= x.resource.quantity
  BY <1>1, <1>6, <1>9, <1>10, <1>11, <1>12, <1>13, <1>14
<1> QED BY <1>7, <1>8, <1>12, <1>15

\* The consumed branch balances one note at a time (constrain.rs:223-245);
\* this is what it promises of an action that consumes several, for any number
\* of spends and however the notes they name overlap.  They pay out and name no
\* more than the notes they consume, and a note counts as consumed once: its
\* nullifier is determined by the note.
THEOREM ActionsConserve == Spec => []SpendsConserve
<1>1. IInv => SpendsConserve
  <2> SUFFICES ASSUME IInv, NEW S \in SUBSET Spends,
                      \A r, q \in S : r.instance.tag = q.instance.tag => r = q
               PROVE  SumFunctionOnSet([r \in S |-> PaidBy(r)], S) + Worth(NotesNamedBy(S))
                        <= Worth(NotesConsumedBy(S))
    BY DEF SpendsConserve
  <2> DEFINE X(r) == r.of.witness
             Named(r) == {X(r).change_resource} \cup ToSet(X(r).recipient_resources)
             C == NotesConsumedBy(S)
             V == NotesNamedBy(S)
             quantity == [note \in C \cup V |-> note.quantity]
             paid == [r \in S |-> PaidBy(r)]
             F == [r \in S |-> Named(r)]
             named == [r \in S |-> SumFunctionOnSet(quantity, F[r])]
             g == [r \in S |-> X(r).resource]
             consumed == [r \in S |-> X(r).resource.quantity]
  <2>1. IsFiniteSet(S)
    BY FS_Subset DEF IInv, Spends
  <2>2. /\ \A y : y \in V <=> \E r \in S : y \in F[r]
        /\ \A r \in S : F[r] \subseteq V
    BY DEF NotesNamedBy
  <2>3. \A y : y \in C <=> \E r \in S : y = g[r]
    BY DEF NotesConsumedBy
  <2>4. ASSUME NEW r \in S
        PROVE  /\ IsFiniteSet(F[r])
               /\ \A y \in F[r] : quantity[y] \in Nat
               /\ paid[r] \in Nat
               /\ paid[r] + named[r] <= consumed[r]
    <3> DEFINE x == X(r)
    <3>1. IsWitness(x) /\ Balanced(x)
      BY SpendIs DEF Authorised
    <3>2. paid[r] = TotalOf(ForwardedAmounts(x))
      BY PaidIsForwarded
    <3>3. F[r] = {x.change_resource} \cup ToSet(x.recipient_resources)
      OBVIOUS
    <3>4. \A y \in F[r] : quantity[y] = y.quantity
      <4>1. \A y \in V : quantity[y] = y.quantity
        OBVIOUS
      <4> QED BY <2>2, <4>1
    <3>5. /\ named[r] = SumFunctionOnSet(quantity, F[r])
          /\ consumed[r] = x.resource.quantity
      OBVIOUS
    <3> HIDE DEF x, F, quantity, named, paid, consumed
    <3>6. /\ IsFiniteSet(F[r])
          /\ \A y \in F[r] : quantity[y] \in Nat
          /\ TotalOf(ForwardedAmounts(x)) \in Nat
          /\ TotalOf(ForwardedAmounts(x)) + SumFunctionOnSet(quantity, F[r])
               <= x.resource.quantity
      BY <3>1, <3>3, <3>4, SpendBalances
    <3> QED BY <3>2, <3>5, <3>6
  <2>5. ASSUME NEW r \in S
        PROVE  quantity[g[r]] \in Nat /\ consumed[r] = quantity[g[r]]
    <3>1. IsWitness(X(r))
      BY SpendIs
    <3>2. X(r).resource.quantity \in Nat
      BY <3>1, MaxU128Assumption DEF IsWitness, Quantity
    <3>3. g[r] = X(r).resource /\ g[r] \in C
      BY <2>3
    <3>4. quantity[g[r]] = X(r).resource.quantity
      BY <3>3
    <3> QED BY <3>2, <3>4
  <2>6. \A r, q \in S : g[r] = g[q] => r = q
    BY OneTagPerNote
  <2>7. \A r \in S : named[r] = SumFunctionOnSet(quantity, F[r])
    OBVIOUS
  <2>8. \A y \in C \cup V : quantity[y] = y.quantity
    OBVIOUS
  <2> HIDE DEF C, V, quantity, paid, F, named, g, consumed
  <2>9. /\ IsFiniteSet(V)
        /\ SumFunctionOnSet(quantity, V) <= SumFunctionOnSet(named, S)
    BY <2>1, <2>2, <2>4, <2>7, SumUnions
  <2>10. SumFunctionOnSet(quantity, C) = SumFunctionOnSet(consumed, S)
    BY <2>1, <2>3, <2>5, <2>6, SumInjected
  <2>11. /\ IsFiniteSet(C)
         /\ SumFunctionOnSet(quantity, C) <= SumFunctionOnSet(consumed, S)
    BY <2>1, <2>3, <2>5, SumImage
  <2>12. \A r \in S : named[r] \in Nat /\ consumed[r] \in Nat
    BY <2>4, <2>5, <2>7, SumNat
  <2>13. SumFunctionOnSet(paid, S) + SumFunctionOnSet(named, S)
           <= SumFunctionOnSet(consumed, S)
    BY <2>1, <2>4, <2>12, SumBounded
  <2>14. Worth(V) = SumFunctionOnSet(quantity, V) /\ Worth(C) = SumFunctionOnSet(quantity, C)
    BY <2>8, <2>9, <2>11, SumSame DEF Worth
  <2>15. /\ SumFunctionOnSet(paid, S) \in Nat /\ SumFunctionOnSet(named, S) \in Nat
         /\ SumFunctionOnSet(consumed, S) \in Nat /\ SumFunctionOnSet(quantity, V) \in Nat
    <3>1. \A y \in V : quantity[y] \in Nat
      BY <2>2, <2>4
    <3> QED BY <2>1, <2>4, <2>9, <2>12, <3>1, SumNat
  <2>16. SumFunctionOnSet(paid, S) + Worth(V) <= Worth(C)
    BY <2>9, <2>10, <2>13, <2>14, <2>15
  <2> QED BY <2>16 DEF paid, V, C
<1> QED BY <1>1, Earned, PTL

=============================================================================
