--------------------------- MODULE HostVault_proofs ---------------------------
(***************************************************************************)
(* For every size of a byte, every curve and every order of the pubkeys:   *)
(* the guest commits the spends the host builds and signs, and the host    *)
(* panics for two seeds only.                                              *)
(*                                                                         *)
(* The inductive invariant says that pubkey j belongs to secret key j from *)
(* the first step to the last, that the pubkeys ascend once they are       *)
(* sorted, and what the label and the nullifier key are made of.           *)
(***************************************************************************)
EXTENDS HostVault, DataTheorems

Types ==
  /\ seed \in 0 .. MaxU8
  /\ rank \in [Signers -> CurvePoints]
  /\ \A a, b \in Signers : rank[a] = rank[b] => a = b
  /\ pc \in {"signers", "sort", "label", "key", "spend", "done", "panicked"}

\* The secret key at a position belongs to the pubkey at that position.
KeysMatch ==
  /\ signers \in [Signers -> Signers]
  /\ pubkeys = [j \in Signers |-> rank[signers[j]]]

IInv ==
  /\ Types
  /\ pc \in {"sort", "label", "key", "spend"} => KeysMatch
  /\ pc = "sort" => \A a, b \in Signers : pubkeys[a] = pubkeys[b] => a = b
  /\ pc \in {"label", "key", "spend"} => StrictlyAscending(pubkeys)
  /\ pc \in {"key", "spend"} => label = LabelPreimage(Token, 2, pubkeys, SaltOf(seed))
  /\ pc = "spend" => nf_key = HostNullifierKey(label)
  /\ pc = "done" => Authorised(witness)
  /\ pc = "panicked" => seed \in {0, MaxU8}

\* Three different numbers can be put in order.
LEMMA ThreeSort ==
  ASSUME NEW f \in [Signers -> Nat], \A a, b \in Signers : f[a] = f[b] => a = b
  PROVE  \E idx \in [Signers -> Signers] :
           \A a, b \in Signers : a < b => f[idx[a]] < f[idx[b]]
<1> DEFINE Put(x, y, z) == [j \in Signers |-> IF j = 1 THEN x ELSE IF j = 2 THEN y ELSE z]
<1>1. f[1] \in Nat /\ f[2] \in Nat /\ f[3] \in Nat /\ f[1] # f[2] /\ f[1] # f[3]
      /\ f[2] # f[3]
  BY DEF Signers
<1>2. ASSUME NEW x \in Signers, NEW y \in Signers, NEW z \in Signers,
             f[x] < f[y], f[y] < f[z]
      PROVE  \E idx \in [Signers -> Signers] :
               \A a, b \in Signers : a < b => f[idx[a]] < f[idx[b]]
  <2>1. /\ Put(x, y, z) \in [Signers -> Signers]
        /\ Put(x, y, z)[1] = x /\ Put(x, y, z)[2] = y /\ Put(x, y, z)[3] = z
    BY DEF Signers
  <2> HIDE DEF Put
  <2>2. f[x] < f[z]
    BY <1>2
  <2>3. ASSUME NEW a \in Signers, NEW b \in Signers, a < b
        PROVE  f[Put(x, y, z)[a]] < f[Put(x, y, z)[b]]
    <3>1. (a = 1 /\ b = 2) \/ (a = 1 /\ b = 3) \/ (a = 2 /\ b = 3)
      BY <2>3 DEF Signers
    <3> QED BY <1>2, <2>1, <2>2, <3>1
  <2> QED BY <2>1, <2>3
<1>3. 1 \in Signers /\ 2 \in Signers /\ 3 \in Signers
  BY DEF Signers
<1>4. CASE f[1] < f[2] /\ f[2] < f[3]
  BY <1>2, <1>3, <1>4
<1>5. CASE f[1] < f[3] /\ f[3] < f[2]
  BY <1>2, <1>3, <1>5
<1>6. CASE f[2] < f[1] /\ f[1] < f[3]
  BY <1>2, <1>3, <1>6
<1>7. CASE f[2] < f[3] /\ f[3] < f[1]
  BY <1>2, <1>3, <1>7
<1>8. CASE f[3] < f[1] /\ f[1] < f[2]
  BY <1>2, <1>3, <1>8
<1>9. CASE f[3] < f[2] /\ f[2] < f[1]
  BY <1>2, <1>3, <1>9
<1> QED BY <1>1, <1>4, <1>5, <1>6, <1>7, <1>8, <1>9

\* The pubkeys, as a list of three numbers.
LEMMA KeyList ==
  ASSUME IInv, KeysMatch
  PROVE  /\ pubkeys \in [Signers -> CurvePoints] /\ pubkeys \in [Signers -> Nat]
         /\ pubkeys \in Seq(Nat) /\ Len(pubkeys) = 3
         /\ \A j \in Signers : pubkeys[j] = rank[signers[j]]
<1>1. pubkeys \in [Signers -> CurvePoints]
  BY DEF IInv, Types, KeysMatch
<1>2. pubkeys \in [Signers -> Nat]
  BY <1>1, HostAssumption
<1>3. pubkeys \in Seq(Nat) /\ Len(pubkeys) = 3
  <2>1. pubkeys \in [1 .. 3 -> Nat] /\ 3 \in Nat
    BY <1>2 DEF Signers
  <2>2. pubkeys \in Seq(Nat)
    BY <2>1, SeqDef
  <2>3. DOMAIN pubkeys = 1 .. 3
    BY <2>1
  <2> QED BY <2>2, <2>3, LenProperties
<1> QED BY <1>1, <1>2, <1>3 DEF KeysMatch

\* The salt is zero for one seed only.
LEMMA ZeroSalt ==
  ASSUME NEW b \in 0 .. MaxU8, SaltOf(b) = Zero
  PROVE  b = MaxU8
<1>1. CASE b < MaxU8
  <2>1. b + 1 \in 0 .. MaxU8 /\ MaxU8 + 1 \in Nat \ {0}
    BY <1>1, HostAssumption
  <2>2. (b + 1) % (MaxU8 + 1) = b + 1
    BY <2>1, HostAssumption, SMT
  <2> QED BY <2>1, <2>2, HostAssumption DEF SaltOf
<1> QED BY <1>1, HostAssumption

\* The label of three ascending pubkeys is refused for its salt alone.
LEMMA LabelOfThree ==
  ASSUME NEW keys \in Seq(Nat), Len(keys) = 3, NEW salt
  PROVE  /\ LabelError(2, keys, salt) = "none" => StrictlyAscending(keys)
         /\ StrictlyAscending(keys) /\ LabelError(2, keys, salt) # "none" => salt = Zero
BY DEF LabelError

-----------------------------------------------------------------------------
(* The spend. *)

\* What the signed witness y of a spend of q says, field by field.
SpendFields(y, q) ==
  /\ y.resource = build_resource(q, "consumed")
  /\ y.nf_key = nf_key
  /\ y.label_preimage = label
  /\ y.pubkeys = pubkeys
  /\ y.change_resource = build_resource(0, "change")
  /\ y.recipient_resources = <<>>
  /\ y.app_data = FullSpend(q).app_data
  /\ commitment(build_resource(0, "change")) \in y.action_tags
  /\ y.signatures =
       [j \in 1 .. 2 |->
          LET idx == <<0, 2>>[j] IN
          [idx |-> idx,
           sig |-> sign_low_s_der(rank[signers[idx + 1]], SpendMessage(FullSpend(q)))]]
  /\ SpendMessage(y) = SpendMessage(FullSpend(q))

LEMMA SignedFields ==
  ASSUME NEW q
  PROVE  SpendFields(Signed(FullSpend(q)), q)
<1> DEFINE x == FullSpend(q)
           y == Signed(x)
<1>1. /\ x.resource = build_resource(q, "consumed")
      /\ x.nf_key = nf_key
      /\ x.label_preimage = label
      /\ x.pubkeys = pubkeys
      /\ x.change_resource = build_resource(0, "change")
      /\ x.recipient_resources = <<>>
      /\ commitment(build_resource(0, "change")) \in x.action_tags
  BY DEF FullSpend
<1>2. DOMAIN x = {"action_tree_root", "app_data", "resource", "nf_key", "label_preimage",
                  "pubkeys", "signatures", "change_resource", "recipient_resources",
                  "action_tags"}
  BY DEF FullSpend
<1> HIDE DEF x
<1>3. /\ y.resource = x.resource /\ y.nf_key = x.nf_key
      /\ y.label_preimage = x.label_preimage /\ y.pubkeys = x.pubkeys
      /\ y.change_resource = x.change_resource
      /\ y.recipient_resources = x.recipient_resources
      /\ y.app_data = x.app_data /\ y.action_tags = x.action_tags
      /\ y.action_tree_root = x.action_tree_root
      /\ y.signatures =
           [j \in 1 .. 2 |->
              LET idx == <<0, 2>>[j] IN
              [idx |-> idx,
               sig |-> sign_low_s_der(rank[signers[idx + 1]], SpendMessage(x))]]
  BY <1>2 DEF Signed
<1> HIDE DEF y
<1>4. SpendMessage(y) = SpendMessage(x)
  BY <1>3 DEF SpendMessage, ConsumedInstance
<1> QED BY <1>1, <1>3, <1>4 DEF SpendFields, x, y

\* The slots 0 and 2 hold signatures of the pubkeys at these positions.
LEMMA SpendSigned ==
  ASSUME IInv, pc = "spend", NEW q
  PROVE  SignedByK(Signed(FullSpend(q)))
<1> DEFINE y == Signed(FullSpend(q))
           message == SpendMessage(FullSpend(q))
           sig(at) == sign_low_s_der(rank[signers[at]], message)
<1>1. SpendFields(y, q)
  BY SignedFields
<1>2. /\ KeysMatch
      /\ label = LabelPreimage(Token, 2, pubkeys, SaltOf(seed))
  BY DEF IInv
<1>3. label.k = 2 /\ label.n = Len(pubkeys)
  BY <1>2 DEF LabelPreimage
<1> HIDE DEF y
<1>4. y.signatures = <<[idx |-> 0, sig |-> sig(1)], [idx |-> 2, sig |-> sig(3)]>>
  <2> DEFINE slots == [j \in 1 .. 2 |->
                         LET idx == <<0, 2>>[j] IN
                         [idx |-> idx,
                          sig |-> sign_low_s_der(rank[signers[idx + 1]], message)]]
  <2>1. y.signatures = slots
    BY <1>1 DEF SpendFields
  <2>2. slots[1] = [idx |-> 0, sig |-> sig(1)] /\ slots[2] = [idx |-> 2, sig |-> sig(3)]
    OBVIOUS
  <2>3. DOMAIN slots = 1 .. 2 /\ slots = [j \in 1 .. 2 |-> slots[j]]
    OBVIOUS
  <2> HIDE DEF slots, sig, message
  <2> QED BY <2>1, <2>2, <2>3
<1>5. ASSUME NEW at \in Signers
      PROVE  verify_secp256k1(pubkeys[at], message, sig(at))
  <2>1. pubkeys[at] \in CurvePoints /\ pubkeys[at] = rank[signers[at]]
    BY <1>2, KeyList
  <2> QED BY <2>1 DEF verify_secp256k1, sign_low_s_der
<1> HIDE DEF sig, message
<1>6. /\ Len(y.signatures) = 2 /\ DOMAIN y.signatures = 1 .. 2
      /\ y.signatures[1].idx = 0 /\ y.signatures[2].idx = 2
      /\ y.signatures[1].sig = sig(1) /\ y.signatures[2].sig = sig(3)
  BY <1>4
<1>7. /\ y.label_preimage.k = 2 /\ y.label_preimage.n = 3
      /\ y.pubkeys = pubkeys /\ SpendMessage(y) = message
  BY <1>1, <1>2, <1>3, KeyList DEF SpendFields, message
<1>8. AscendingBelow(SignerIndices(y), Len(y.signatures))
  BY <1>6 DEF AscendingBelow, SignerIndices
<1>9. ASSUME NEW j \in DOMAIN y.signatures
      PROVE  /\ y.signatures[j].idx < y.label_preimage.n
             /\ verify_secp256k1(y.pubkeys[y.signatures[j].idx + 1],
                                 SpendMessage(y), y.signatures[j].sig)
  <2>1. CASE j = 1
    BY <1>5, <1>6, <1>7, <2>1 DEF Signers
  <2>2. CASE j = 2
    BY <1>5, <1>6, <1>7, <2>2 DEF Signers
  <2> QED BY <1>6, <2>1, <2>2
<1>10. SignedByK(y)
  BY <1>6, <1>7, <1>8, <1>9 DEF SignedByK
<1> QED BY <1>10 DEF y

\* The one call of the payload moves the whole note, of the vault's token.
LEMMA SpendBalances ==
  ASSUME IInv, pc = "spend", NEW q \in Quantity
  PROVE  /\ PayloadsMatch(Signed(FullSpend(q)))
         /\ Balanced(Signed(FullSpend(q)))
         /\ StaysInAction(Signed(FullSpend(q)))
         /\ OpensLabel(Signed(FullSpend(q)))
<1> DEFINE y == Signed(FullSpend(q))
           blob == [outer_ok |-> TRUE, inner_ok |-> TRUE, token |-> Token,
                    forwarder |-> MULTISIG_FORWARDER, to |-> Recipient,
                    amount |-> q]
           r == build_resource(q, "consumed")
           c == build_resource(0, "change")
<1>1. /\ q \in Nat /\ q <= MaxU128 /\ MaxU128 \in Nat
  BY MaxU128Assumption DEF Quantity
<1>2. /\ KeysMatch /\ StrictlyAscending(pubkeys)
      /\ label = LabelPreimage(Token, 2, pubkeys, SaltOf(seed))
      /\ nf_key = HostNullifierKey(label)
  BY DEF IInv
<1>3. /\ label.n = Len(pubkeys) /\ label.pubkey_root = pubkey_root_of(pubkeys)
      /\ label.token_addr = Token
  BY <1>2 DEF LabelPreimage
<1>4. FullSpend(q).app_data = [external_payload |-> <<blob>>]
  BY DEF FullSpend
<1>5. SpendFields(y, q)
  BY SignedFields
<1>6. /\ blob.outer_ok = TRUE /\ blob.inner_ok = TRUE /\ blob.amount = q
      /\ blob.forwarder = MULTISIG_FORWARDER /\ blob.token = Token
  OBVIOUS
<1>7. /\ r.quantity = q /\ c.quantity = 0
      /\ r.label_ref = label_ref(label) /\ c.label_ref = label_ref(label)
      /\ r.nk_commitment = nk_commit(nf_key)
  BY DEF build_resource
<1> HIDE DEF y, blob, r, c
<1>8. /\ y.app_data.external_payload = <<blob>>
      /\ y.recipient_resources = <<>>
      /\ y.resource = r /\ y.change_resource = c
      /\ y.label_preimage = label /\ y.nf_key = nf_key /\ y.pubkeys = pubkeys
      /\ commitment(c) \in y.action_tags
  BY <1>4, <1>5 DEF SpendFields, r, c
<1>9. PayloadsMatch(y)
  <2>1. PayloadMatches(y, blob)
    BY <1>1, <1>3, <1>6, <1>8 DEF PayloadMatches, OuterParses, InnerParses
  <2> QED BY <1>8, <2>1 DEF PayloadsMatch
<1>10. StaysInAction(y)
  BY <1>7, <1>8 DEF StaysInAction
<1>11. TotalOf(RecipientQuantities(y)) = 0
  <2>1. DOMAIN RecipientQuantities(y) = {}
    BY <1>8 DEF RecipientQuantities
  <2> QED BY <2>1, SumOfNone DEF TotalOf
<1>12. TotalOf(ForwardedAmounts(y)) = q
  <2> DEFINE f == ForwardedAmounts(y)
  <2>1. DOMAIN f = 1 .. 1 /\ f[1] = ForwardedAmount(blob)
    BY <1>8 DEF ForwardedAmounts
  <2>2. ForwardedAmount(blob) = q
    BY <1>6 DEF ForwardedAmount
  <2>3. f[1] \in Int
    BY <1>1, <2>1, <2>2
  <2> HIDE DEF f
  <2>4. SumFunction(f) = f[1]
    BY <2>1, <2>3, SumOfOne
  <2> QED BY <2>1, <2>2, <2>4 DEF TotalOf, f
<1>13. Balanced(y)
  BY <1>1, <1>7, <1>8, <1>11, <1>12 DEF Balanced
<1>14. OpensLabel(y)
  <2>1. AscendingBelow(pubkeys, Len(pubkeys))
    BY <1>2, KeyList, NeighboursAscend DEF StrictlyAscending, AscendingBelow
  <2>2. nf_key = nullifier_key(label)
    BY <1>2 DEF HostNullifierKey, nullifier_key
  <2> QED BY <1>3, <1>7, <1>8, <2>1, <2>2 DEF OpensLabel
<1> QED BY <1>9, <1>10, <1>13, <1>14 DEF y

-----------------------------------------------------------------------------
(* The steps. *)

\* The host starts with a seed and a curve.
LEMMA InitInv == Init => IInv
  BY DEF Init, IInv, Types, IsInjective

\* Sorting moves pubkeys and secret keys alike.
LEMMA SortStep ==
  ASSUME IInv, SortKeys
  PROVE  IInv'
<1> DEFINE idx == SortedIndices
<1>1. /\ pc = "sort" /\ pc' = "label" /\ KeysMatch
      /\ UNCHANGED <<seed, rank, label, nf_key, witness>>
      /\ pubkeys' = [j \in Signers |-> pubkeys[idx[j]]]
      /\ signers' = [j \in Signers |-> signers[idx[j]]]
  BY DEF SortKeys, IInv
<1>2. /\ pubkeys \in [Signers -> Nat]
      /\ \A j \in Signers : pubkeys[j] = rank[signers[j]]
  BY <1>1, KeyList
<1>3. /\ idx \in [Signers -> Signers]
      /\ \A a, b \in Signers : a < b => pubkeys[idx[a]] < pubkeys[idx[b]]
  <2>1. \A a, b \in Signers : pubkeys[a] = pubkeys[b] => a = b
    BY <1>1 DEF IInv
  <2>2. \E f \in [Signers -> Signers] :
          \A a, b \in Signers : a < b => pubkeys[f[a]] < pubkeys[f[b]]
    BY <1>2, <2>1, ThreeSort
  <2> QED BY <2>2 DEF SortedIndices
<1> HIDE DEF idx
<1>4. KeysMatch'
  <2>1. signers' \in [Signers -> Signers]
    BY <1>1, <1>3 DEF KeysMatch
  <2>2. \A j \in Signers : pubkeys'[j] = rank'[signers'[j]]
    BY <1>1, <1>2, <1>3
  <2>3. pubkeys' = [j \in Signers |-> rank'[signers'[j]]]
    BY <1>1, <2>2
  <2> QED BY <2>1, <2>3 DEF KeysMatch
<1>5. StrictlyAscending(pubkeys')
  <2>1. \A a, b \in Signers : a < b => pubkeys'[a] < pubkeys'[b]
    BY <1>1, <1>3
  <2>2. Len(pubkeys') = 3
    <3>1. DOMAIN pubkeys' = 1 .. 3
      BY <1>1 DEF Signers
    <3>2. pubkeys' \in Seq(Nat)
      <4>1. pubkeys' \in [1 .. 3 -> Nat] /\ 3 \in Nat
        BY <1>1, <1>2, <1>3 DEF Signers
      <4> QED BY <4>1, SeqDef
    <3> QED BY <3>1, <3>2, LenProperties
  <2> QED BY <2>1, <2>2 DEF StrictlyAscending, Signers
<1>6. Types'
  BY <1>1 DEF IInv, Types
<1> QED BY <1>1, <1>4, <1>5, <1>6 DEF IInv

\* Every step keeps the invariant.
LEMMA NextInv == IInv /\ [Next]_vars => IInv'
<1> SUFFICES ASSUME IInv, [Next]_vars PROVE IInv'
  OBVIOUS
<1>1. CASE MakeSigners
  <2>1. CASE \E j \in Signers : IsZeroScalar(j)
    <3>1. /\ seed = 0 /\ pc' = "panicked"
          /\ UNCHANGED <<seed, rank, signers, pubkeys, label, nf_key, witness>>
      BY <1>1, <2>1 DEF MakeSigners, Panic, IsZeroScalar
    <3> QED BY <3>1 DEF IInv, Types
  <2>2. CASE ~ \E j \in Signers : IsZeroScalar(j)
    <3>1. /\ pc' = "sort" /\ UNCHANGED <<seed, rank, label, nf_key, witness>>
          /\ signers' = [j \in Signers |-> j]
          /\ pubkeys' = [j \in Signers |-> rank[j]]
      BY <1>1, <2>2 DEF MakeSigners
    <3>2. KeysMatch'
      BY <3>1 DEF KeysMatch
    <3>3. \A a, b \in Signers : pubkeys'[a] = pubkeys'[b] => a = b
      BY <3>1 DEF IInv, Types
    <3> QED BY <3>1, <3>2, <3>3 DEF IInv, Types
  <2> QED BY <2>1, <2>2
<1>2. CASE SortKeys
  BY <1>2, SortStep
<1>3. CASE MakeLabel
  <2>1. /\ pc = "label" /\ KeysMatch /\ StrictlyAscending(pubkeys)
        /\ seed \in 0 .. MaxU8
    BY <1>3 DEF MakeLabel, IInv, Types
  <2>2. pubkeys \in Seq(Nat) /\ Len(pubkeys) = 3
    BY <2>1, KeyList
  <2>3. CASE LabelError(2, pubkeys, SaltOf(seed)) # "none"
    <3>1. /\ pc' = "panicked"
          /\ UNCHANGED <<seed, rank, signers, pubkeys, label, nf_key, witness>>
      BY <1>3, <2>3 DEF MakeLabel, Panic
    <3>2. seed = MaxU8
      BY <2>1, <2>2, <2>3, LabelOfThree, ZeroSalt
    <3> QED BY <3>1, <3>2 DEF IInv, Types
  <2>4. CASE LabelError(2, pubkeys, SaltOf(seed)) = "none"
    <3>1. /\ pc' = "key" /\ UNCHANGED <<seed, rank, signers, pubkeys, nf_key, witness>>
          /\ label' = LabelPreimage(Token, 2, pubkeys, SaltOf(seed))
      BY <1>3, <2>4 DEF MakeLabel
    <3> QED BY <2>1, <3>1 DEF IInv, Types, KeysMatch, StrictlyAscending
  <2> QED BY <2>3, <2>4
<1>4. CASE MakeNullifierKey
  BY <1>4 DEF MakeNullifierKey, IInv, Types, KeysMatch, StrictlyAscending
<1>5. CASE BuildFullSpend
  <2>1. /\ pc = "spend" /\ pc' = "done"
        /\ UNCHANGED <<seed, rank, signers, pubkeys, label, nf_key>>
    BY <1>5 DEF BuildFullSpend
  <2>2. PICK q \in Quantities : witness' = Signed(FullSpend(q))
    BY <1>5 DEF BuildFullSpend
  <2>3. Authorised(Signed(FullSpend(q)))
    <3>1. q \in Quantity
      BY HostAssumption
    <3> QED BY <2>1, <3>1, SpendSigned, SpendBalances DEF Authorised
  <2>4. Authorised(witness')
    BY <2>2, <2>3
  <2> QED BY <2>1, <2>4 DEF IInv, Types
<1>6. CASE UNCHANGED vars
  BY <1>6 DEF vars, IInv, Types, KeysMatch, StrictlyAscending
<1> QED BY <1>1, <1>2, <1>3, <1>4, <1>5, <1>6 DEF Next

\* The invariant holds in every state of every run.
LEMMA Built == Spec => []IInv
  BY InitInv, NextInv, PTL DEF Spec

\* What the host builds and signs, the guest commits, from any seed and for
\* any order of the three pubkeys (fixtures.rs:36-159, constrain.rs:25-260).
THEOREM HostSpendsAuthorised == Spec => []SpendsAuthorised
<1>1. IInv => SpendsAuthorised
  BY DEF IInv, SpendsAuthorised
<1> QED BY <1>1, Built, PTL

\* The expects of the host fail for two seeds only: that of the zero scalar,
\* and that whose salt wraps around to zero (fixtures.rs:45, 68, 71).
THEOREM PanicsOfTwoSeeds == Spec => [](pc = "panicked" => seed \in {0, MaxU8})
<1>1. IInv => (pc = "panicked" => seed \in {0, MaxU8})
  BY DEF IInv
<1> QED BY <1>1, Built, PTL

=============================================================================
