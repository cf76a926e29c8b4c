----------------------- MODULE ConsumedCircuit_proofs -----------------------
(***************************************************************************)
(* The K-of-N and conservation invariants of ConsumedCircuit, for every    *)
(* set of witnesses, every policy and every width of the quantities.       *)
(***************************************************************************)
EXTENDS ConsumedCircuit, DataTheorems, TLAPS

-----------------------------------------------------------------------------
(* Running sums.  A loop that adds s[1], s[2], ... keeps RunningSum.       *)

\* acc is the sum of the first m members of s.
RunningSum(s, m, acc) == acc = SumFunctionOnSet(s, 1 .. m)

\* A sequence of integers, as far as sums are concerned.
Summable(s) ==
  /\ Len(s) \in Nat
  /\ DOMAIN s = 1 .. Len(s)
  /\ \A j \in 1 .. Len(s) : s[j] \in Int

\* Nothing has been added yet.
LEMMA SumStart ==
  ASSUME NEW s
  PROVE  RunningSum(s, 0, 0)
<1>1. 1 .. 0 = {}
  OBVIOUS
<1> QED BY <1>1, SumEmpty DEF RunningSum

\* One more member is added.
LEMMA SumStep ==
  ASSUME NEW s, Summable(s), NEW m \in Nat, m < Len(s), NEW acc,
         RunningSum(s, m, acc)
  PROVE  RunningSum(s, m + 1, acc + s[m + 1])
<1> DEFINE S == 1 .. m
           x == m + 1
<1>1. /\ S \cup {x} = 1 .. m + 1
      /\ x \notin S
      /\ \A y \in S \cup {x} : s[y] \in Int
  BY DEF Summable
<1>2. IsFiniteSet(S)
  <2>1. m \in Int /\ 1 \in Int
    OBVIOUS
  <2> QED BY <2>1, FS_Interval
<1>3. SumFunctionOnSet(s, S \cup {x}) = s[x] + SumFunctionOnSet(s, S)
  <2> HIDE DEF S, x
  <2> QED BY <1>1, <1>2, SumAdd
<1>4. SumFunctionOnSet(s, S) \in Int
  <2> HIDE DEF S, x
  <2> QED BY <1>1, <1>2, SumInt
<1>5. s[x] \in Int
  BY <1>1
<1>6. acc + s[x] = s[x] + acc
  BY <1>4, <1>5 DEF RunningSum
<1> QED BY <1>1, <1>3, <1>6 DEF RunningSum

\* Every member has been added.
LEMMA SumEnd ==
  ASSUME NEW s, Summable(s), NEW acc, RunningSum(s, Len(s), acc)
  PROVE  TotalOf(s) = acc
BY DEF TotalOf, SumFunction, RunningSum, Summable

\* What the loop has added of a list of naturals never exceeds the total.
LEMMA SumPartial ==
  ASSUME NEW s, Summable(s), \A j \in 1 .. Len(s) : s[j] \in Nat,
         NEW m \in 0 .. Len(s), NEW acc, RunningSum(s, m, acc)
  PROVE  acc \in Nat /\ TotalOf(s) \in Nat /\ acc <= TotalOf(s)
<1> DEFINE S == 1 .. Len(s)
           U == 1 .. m
<1>1. U \in SUBSET S
  BY DEF Summable
<1>2. IsFiniteSet(S) /\ IsFiniteSet(U)
  <2>1. Len(s) \in Int /\ 1 \in Int
    BY DEF Summable
  <2>2. IsFiniteSet(S)
    BY <2>1, FS_Interval
  <2> QED BY <1>1, <2>2, FS_Subset
<1>3. /\ SumFunctionOnSet(s, S) \in Nat
      /\ SumFunctionOnSet(s, U) <= SumFunctionOnSet(s, S)
  <2>1. \A x \in S : s[x] \in Nat
    OBVIOUS
  <2> HIDE DEF S, U
  <2> QED BY <1>1, <1>2, <2>1, SumNat
<1>4. SumFunctionOnSet(s, U) \in Nat
  <2>1. \A x \in U : s[x] \in Nat
    BY <1>1
  <2> HIDE DEF S, U
  <2> QED BY <1>2, <2>1, SumNat
<1>5. TotalOf(s) = SumFunctionOnSet(s, S) /\ acc = SumFunctionOnSet(s, U)
  BY DEF TotalOf, SumFunction, RunningSum, Summable
<1> QED BY <1>3, <1>4, <1>5

\* The two lists the circuit adds up are lists of natural numbers.
LEMMA ListsSummable ==
  ASSUME NEW x, IsWitness(x)
  PROVE  /\ Summable(RecipientQuantities(x))
         /\ Len(RecipientQuantities(x)) = Len(x.recipient_resources)
         /\ \A j \in 1 .. Len(x.recipient_resources) :
              RecipientQuantities(x)[j] \in Nat
         /\ Summable(ForwardedAmounts(x))
         /\ Len(ForwardedAmounts(x)) = Len(x.app_data.external_payload)
         /\ \A j \in 1 .. Len(x.app_data.external_payload) :
              ForwardedAmounts(x)[j] \in Nat
<1>1. /\ Len(x.recipient_resources) \in Nat
      /\ \A j \in 1 .. Len(x.recipient_resources) :
           x.recipient_resources[j].quantity \in Nat
  BY DEF IsWitness, Quantity
<1>2. /\ Len(x.app_data.external_payload) \in Nat
      /\ \A j \in 1 .. Len(x.app_data.external_payload) :
           ForwardedAmount(x.app_data.external_payload[j]) \in Nat
  BY DEF IsWitness, ForwardedAmount
<1>3. /\ Summable(RecipientQuantities(x))
      /\ Len(RecipientQuantities(x)) = Len(x.recipient_resources)
      /\ \A j \in 1 .. Len(x.recipient_resources) :
           RecipientQuantities(x)[j] \in Nat
  BY <1>1 DEF RecipientQuantities, Summable
<1>4. /\ Summable(ForwardedAmounts(x))
      /\ Len(ForwardedAmounts(x)) = Len(x.app_data.external_payload)
      /\ \A j \in 1 .. Len(x.app_data.external_payload) :
           ForwardedAmounts(x)[j] \in Nat
  BY <1>2 DEF ForwardedAmounts, Summable
<1> QED BY <1>3, <1>4

-----------------------------------------------------------------------------
(* The inductive invariant: what each block has established once it is     *)
(* passed, and what a loop has established up to its index.                *)

AfterSignatures == {"committed"}
AfterConservation == AfterSignatures \cup {"signatures"}
AfterPayloads == AfterConservation \cup {"conservation"}
AfterRecipients == AfterPayloads \cup {"payloads"}
AfterChange == AfterRecipients \cup {"recipients"}
AfterSigners == AfterChange \cup {"change"}
AfterRoot == AfterSigners \cup {"signers"}
AfterPubkeys == AfterRoot \cup {"root"}
AfterLabel == AfterPubkeys \cup {"pubkeys"}

\* The straight-line blocks that were passed found no error.
BlocksPassed ==
  /\ pc \in AfterLabel => LabelBlockError(w) = None
  /\ pc \in AfterRoot => RootBlockError(w) = None
  /\ pc \in AfterChange => ChangeBlockError(w) = None
  /\ pc \in AfterConservation =>
       ConservationError(w, external_sum, recipient_sum) = None

KeysSorted ==
  /\ pc = "pubkeys" => AscendingBelow(w.pubkeys, i)
  /\ pc \in AfterPubkeys => AscendingBelow(w.pubkeys, Len(w.pubkeys))

\* The first m slots point at different keys of the label.
SlotsDistinct(m) ==
  /\ AscendingBelow(SignerIndices(w), m)
  /\ \A j \in 1 .. m : w.signatures[j].idx < w.label_preimage.n

SlotsChecked ==
  /\ pc \in Blocks \ AfterRoot => prev = NoIndex
  /\ pc = "signers" =>
       /\ i <= Len(w.signatures) + 1
       /\ SlotsDistinct(i - 1)
       /\ prev = IF i = 1 THEN NoIndex ELSE w.signatures[i - 1].idx
  /\ pc \in AfterSigners => SlotsDistinct(Len(w.signatures))

RecipientsIn(m) ==
  /\ RunningSum(RecipientQuantities(w), m, recipient_sum)
  /\ \A j \in 1 .. m :
       commitment(w.recipient_resources[j]) \in w.action_tags

RecipientsSummed ==
  /\ pc \in Blocks \ AfterChange => recipient_sum = 0
  /\ pc = "recipients" =>
       i <= Len(w.recipient_resources) + 1 /\ RecipientsIn(i - 1)
  /\ pc \in AfterRecipients => RecipientsIn(Len(w.recipient_resources))

PayloadsIn(m) ==
  /\ RunningSum(ForwardedAmounts(w), m, external_sum)
  /\ \A j \in 1 .. m : PayloadMatches(w, w.app_data.external_payload[j])

PayloadsSummed ==
  /\ pc \in Blocks \ AfterRecipients => external_sum = 0
  /\ pc = "payloads" =>
       i <= Len(w.app_data.external_payload) + 1 /\ PayloadsIn(i - 1)
  /\ pc \in AfterPayloads => PayloadsIn(Len(w.app_data.external_payload))

SlotsVerified ==
  /\ pc = "signatures" =>
       \A j \in DOMAIN w.signatures : j < i => SignatureError(w, j) = None
  /\ pc \in AfterSignatures =>
       \A j \in DOMAIN w.signatures : SignatureError(w, j) = None

IInv ==
  /\ TypeOK
  /\ IsWitness(w)
  /\ BlocksPassed
  /\ KeysSorted
  /\ SlotsChecked
  /\ RecipientsSummed
  /\ PayloadsSummed
  /\ SlotsVerified

-----------------------------------------------------------------------------
(* It holds initially and after every step.                                *)

USE DEF Blocks, AfterLabel, AfterPubkeys, AfterRoot, AfterSigners, AfterChange,
        AfterRecipients, AfterPayloads, AfterConservation, AfterSignatures

\* The invariant holds when the guest starts.
LEMMA InitIInv == Init => IInv
<1> SUFFICES ASSUME Init PROVE IInv
  OBVIOUS
<1>1. IsWitness(w)
  BY WitnessesAssumption DEF Init
<1>2. TypeOK
  BY MaxU128Assumption DEF Init, TypeOK, Final, NoIndex, Quantity, None
<1> QED
  BY <1>1, <1>2
  DEF Init, IInv, BlocksPassed, KeysSorted, SlotsChecked, RecipientsSummed,
      PayloadsSummed, SlotsVerified

\* Nothing is claimed of an aborted run but its types.
LEMMA AbortIInv ==
  ASSUME IInv, NEW err \in CircuitErrors, Abort(err)
  PROVE  IInv'
<1>1. TypeOK'
  BY DEF IInv, TypeOK, Abort, Final, CircuitErrors, None
<1>2. IsWitness(w)'
  BY DEF IInv, Abort
<1> QED
  BY <1>1, <1>2
  DEF Abort, IInv, BlocksPassed, KeysSorted, SlotsChecked, RecipientsSummed,
      PayloadsSummed, SlotsVerified

\* The types survive the entry of a block.
LEMMA GoToTypes ==
  ASSUME IInv, pc \in Blocks, NEW block \in Blocks \cup {"committed"},
         GoTo(block)
  PROVE  TypeOK' /\ IsWitness(w)'
<1>1. TypeOK'
  BY DEF IInv, TypeOK, GoTo, Final
<1>2. IsWitness(w)'
  BY DEF IInv, GoTo
<1> QED BY <1>1, <1>2

\* Steps 1 to 4a establish the facts about label, key and count.
LEMMA CheckLabelIInv == IInv /\ CheckLabel => IInv'
<1> SUFFICES ASSUME IInv, CheckLabel PROVE IInv'
  OBVIOUS
<1> DEFINE err == LabelBlockError(w)
<1>1. CASE err # None /\ Abort(err)
  <2>1. err \in CircuitErrors
    BY <1>1 DEF LabelBlockError, CircuitErrors
  <2> QED BY <1>1, <2>1, AbortIInv
<1>2. CASE err = None /\ GoTo("pubkeys")
  <2>1. TypeOK' /\ IsWitness(w)'
    BY <1>2, GoToTypes DEF CheckLabel, Check
  <2>2. KeysSorted'
    BY <1>2 DEF GoTo, KeysSorted, AscendingBelow
  <2> QED
    BY <1>2, <2>1, <2>2
    DEF GoTo, CheckLabel, Check, IInv, BlocksPassed, SlotsChecked,
        RecipientsSummed, PayloadsSummed, SlotsVerified
<1> QED BY <1>1, <1>2 DEF CheckLabel, Check

\* One more adjacent pair in order puts one more key in order.
LEMMA CheckPubkeyWindowIInv == IInv /\ CheckPubkeyWindow => IInv'
<1> SUFFICES ASSUME IInv, CheckPubkeyWindow PROVE IInv'
  OBVIOUS
<1> DEFINE err == PubkeyWindowError(w, i)
<1>1. CASE err # None /\ Abort(err)
  <2>1. err \in CircuitErrors
    BY <1>1 DEF PubkeyWindowError, CircuitErrors
  <2> QED BY <1>1, <2>1, AbortIInv
<1>2. CASE /\ err = None
           /\ i' = i + 1
           /\ UNCHANGED <<w, pc, prev, recipient_sum, external_sum, error>>
  <2>1. TypeOK'
    BY <1>2 DEF IInv, TypeOK
  <2>2. IsWitness(w)'
    BY <1>2 DEF IInv
  <2>3. KeysSorted'
    <3>1. /\ pc = "pubkeys" /\ i \in Nat \ {0}
          /\ i + 1 \in 1 .. Len(w.pubkeys)
          /\ w.pubkeys \in Seq(Nat)
          /\ AscendingBelow(w.pubkeys, i)
      BY DEF CheckPubkeyWindow, InLoop, IInv, TypeOK, KeysSorted, IsWitness
    <3>2. w.pubkeys[i] < w.pubkeys[i + 1]
      BY <1>2, <3>1 DEF PubkeyWindowError, None
    <3>3. AscendingBelow(w.pubkeys, i + 1)
      <4> SUFFICES ASSUME NEW a \in 1 .. i + 1, NEW b \in 1 .. i + 1, a < b
                   PROVE  w.pubkeys[a] < w.pubkeys[b]
        BY DEF AscendingBelow
      <4>1. w.pubkeys[a] \in Nat /\ w.pubkeys[b] \in Nat
            /\ w.pubkeys[i] \in Nat
        BY <3>1, SMTT(30)
      <4>2. CASE b = i + 1 /\ a = i
        BY <4>2, <3>2
      <4>3. CASE b = i + 1 /\ a # i
        <5>1. w.pubkeys[a] < w.pubkeys[i]
          BY <4>3, <3>1 DEF AscendingBelow
        <5> QED BY <4>1, <4>3, <5>1, <3>2
      <4>4. CASE b # i + 1
        BY <4>4, <3>1 DEF AscendingBelow
      <4> QED BY <4>2, <4>3, <4>4
    <3> QED BY <1>2, <3>1, <3>3 DEF KeysSorted
  <2> QED
    BY <1>2, <2>1, <2>2, <2>3
    DEF CheckPubkeyWindow, InLoop, IInv, BlocksPassed, SlotsChecked,
        RecipientsSummed, PayloadsSummed, SlotsVerified
<1> QED BY <1>1, <1>2 DEF CheckPubkeyWindow

\* The window loop ends with all keys ascending pairwise.
LEMMA PubkeysSortedIInv == IInv /\ PubkeysSorted => IInv'
<1> SUFFICES ASSUME IInv, PubkeysSorted PROVE IInv'
  OBVIOUS
<1>1. pc = "pubkeys" /\ i > Len(w.pubkeys) - 1 /\ GoTo("root")
  BY DEF PubkeysSorted, LoopDone
<1>2. TypeOK' /\ IsWitness(w)'
  BY <1>1, GoToTypes
<1>3. AscendingBelow(w.pubkeys, Len(w.pubkeys))
  <2>1. /\ AscendingBelow(w.pubkeys, i)
        /\ i \in Nat /\ Len(w.pubkeys) \in Nat /\ Len(w.pubkeys) <= i
    BY <1>1 DEF IInv, TypeOK, IsWitness, KeysSorted
  <2> QED BY <2>1 DEF AscendingBelow
<1> QED
  BY <1>1, <1>2, <1>3
  DEF GoTo, IInv, BlocksPassed, KeysSorted, SlotsChecked, RecipientsSummed,
      PayloadsSummed, SlotsVerified

\* Steps 4c and 5 establish the key set and the number of slots.
LEMMA CheckRootIInv == IInv /\ CheckRoot => IInv'
<1> SUFFICES ASSUME IInv, CheckRoot PROVE IInv'
  OBVIOUS
<1> DEFINE err == RootBlockError(w)
<1>1. CASE err # None /\ Abort(err)
  <2>1. err \in CircuitErrors
    BY <1>1 DEF RootBlockError, CircuitErrors
  <2> QED BY <1>1, <2>1, AbortIInv
<1>2. CASE err = None /\ GoTo("signers")
  <2>1. TypeOK' /\ IsWitness(w)'
    BY <1>2, GoToTypes DEF CheckRoot, Check
  <2>2. SlotsChecked'
    BY <1>2 DEF CheckRoot, Check, GoTo, IInv, IsWitness, SlotsChecked,
      SlotsDistinct, AscendingBelow, NoIndex
  <2> QED
    BY <1>2, <2>1, <2>2
    DEF GoTo, CheckRoot, Check, IInv, BlocksPassed, KeysSorted,
        RecipientsSummed, PayloadsSummed, SlotsVerified
<1> QED BY <1>1, <1>2 DEF CheckRoot, Check

\* A slot above the previous one is above all earlier ones.
LEMMA CheckSignerSlotIInv == IInv /\ CheckSignerSlot => IInv'
<1> SUFFICES ASSUME IInv, CheckSignerSlot PROVE IInv'
  OBVIOUS
<1> DEFINE err == SignerSlotError(w, i, prev)
<1>1. CASE err # None /\ Abort(err)
  <2>1. err \in CircuitErrors
    BY <1>1 DEF SignerSlotError, CircuitErrors
  <2> QED BY <1>1, <2>1, AbortIInv
<1>2. CASE /\ err = None
           /\ prev' = w.signatures[i].idx
           /\ i' = i + 1
           /\ UNCHANGED <<w, pc, recipient_sum, external_sum, error>>
  <2>1. /\ pc = "signers" /\ i \in Nat \ {0} /\ i \in 1 .. Len(w.signatures)
        /\ Len(w.signatures) \in Nat
        /\ DOMAIN w.signatures = 1 .. Len(w.signatures)
        /\ \A j \in 1 .. Len(w.signatures) : w.signatures[j].idx \in Nat
        /\ w.label_preimage.n \in Nat
        /\ SlotsDistinct(i - 1)
        /\ prev = IF i = 1 THEN NoIndex ELSE w.signatures[i - 1].idx
    BY DEF CheckSignerSlot, InLoop, IInv, TypeOK, SlotsChecked, IsWitness
  <2>2. TypeOK'
    BY <1>2, <2>1 DEF IInv, TypeOK
  <2>3. IsWitness(w)'
    BY <1>2 DEF IInv
  <2>4. /\ w.signatures[i].idx < w.label_preimage.n
        /\ i # 1 => w.signatures[i - 1].idx < w.signatures[i].idx
    BY <1>2, <2>1, SMTT(30) DEF SignerSlotError, None, NoIndex
  <2>5. \A j \in 1 .. i : w.signatures[j].idx < w.label_preimage.n
    BY <2>1, <2>4 DEF SlotsDistinct
  <2>6. AscendingBelow(SignerIndices(w), i)
    <3> DEFINE s == SignerIndices(w)
    <3> SUFFICES ASSUME NEW a \in 1 .. i, NEW b \in 1 .. i, a < b
                 PROVE  s[a] < s[b]
      BY DEF AscendingBelow
    <3>1. \A j \in 1 .. i : s[j] = w.signatures[j].idx /\ s[j] \in Nat
      BY <2>1 DEF SignerIndices
    <3> HIDE DEF s
    <3>2. \A c, d \in 1 .. i - 1 : c < d => s[c] < s[d]
      BY <2>1 DEF SlotsDistinct, AscendingBelow, s
    <3>3. CASE b = i
      <4>1. s[i - 1] < s[i]
        BY <3>1, <3>3, <2>1, <2>4
      <4>2. a = i - 1 \/ s[a] < s[i - 1]
        BY <3>2, <3>3, <2>1
      <4>3. /\ a \in 1 .. i /\ i - 1 \in 1 .. i /\ i \in 1 .. i
            /\ s[a] \in Nat /\ s[i - 1] \in Nat /\ s[i] \in Nat
        BY <3>1, <3>3, <2>1
      <4>4. s[a] < s[i]
        BY <4>1, <4>2, <4>3
      <4> QED BY <4>4, <3>3
    <3>4. CASE b # i
      <4>1. a \in 1 .. i - 1 /\ b \in 1 .. i - 1
        BY <3>4, <2>1
      <4> QED BY <3>2, <4>1
    <3> QED BY <3>3, <3>4
  <2>7. SlotsChecked'
    <3>1. SlotsDistinct(i)
      BY <2>5, <2>6 DEF SlotsDistinct
    <3> QED BY <1>2, <2>1, <3>1 DEF SlotsChecked, SlotsDistinct
  <2> QED
    BY <1>2, <2>1, <2>2, <2>3, <2>7
    DEF IInv, BlocksPassed, KeysSorted, RecipientsSummed, PayloadsSummed,
        SlotsVerified
<1> QED BY <1>1, <1>2 DEF CheckSignerSlot

\* The signer loop ends with all indices ascending and in range.
LEMMA SignersDoneIInv == IInv /\ SignersDone => IInv'
<1> SUFFICES ASSUME IInv, SignersDone PROVE IInv'
  OBVIOUS
<1>1. pc = "signers" /\ i > Len(w.signatures) /\ GoTo("change")
  BY DEF SignersDone, LoopDone
<1>2. TypeOK' /\ IsWitness(w)'
  BY <1>1, GoToTypes
<1>3. i - 1 = Len(w.signatures) /\ SlotsDistinct(i - 1)
  BY <1>1 DEF IInv, TypeOK, IsWitness, SlotsChecked
<1> QED
  BY <1>1, <1>2, <1>3
  DEF GoTo, IInv, BlocksPassed, KeysSorted, SlotsChecked, SlotsDistinct,
      RecipientsSummed, PayloadsSummed, SlotsVerified

\* Steps 7 and 8 establish what is asked of the change note.
LEMMA CheckChangeIInv == IInv /\ CheckChange => IInv'
<1> SUFFICES ASSUME IInv, CheckChange PROVE IInv'
  OBVIOUS
<1> DEFINE err == ChangeBlockError(w)
<1>1. CASE err # None /\ Abort(err)
  <2>1. err \in CircuitErrors
    BY <1>1 DEF ChangeBlockError, CircuitErrors
  <2> QED BY <1>1, <2>1, AbortIInv
<1>2. CASE err = None /\ GoTo("recipients")
  <2>1. TypeOK' /\ IsWitness(w)'
    BY <1>2, GoToTypes DEF CheckChange, Check
  <2>2. RecipientsSummed'
    <3>2. RunningSum(RecipientQuantities(w), 0, 0)
      BY SumStart
    <3>3. Len(w.recipient_resources) \in Nat
      BY DEF IInv, IsWitness
    <3> QED BY <1>2, <3>2, <3>3 DEF CheckChange, Check, GoTo, IInv,
              RecipientsSummed, RecipientsIn
  <2> QED
    BY <1>2, <2>1, <2>2
    DEF GoTo, CheckChange, Check, IInv, BlocksPassed, KeysSorted,
        SlotsChecked, SlotsDistinct, PayloadsSummed, SlotsVerified
<1> QED BY <1>1, <1>2 DEF CheckChange, Check

\* The sum that fits is the sum of one member more.
LEMMA SumRecipientIInv == IInv /\ SumRecipient => IInv'
<1> SUFFICES ASSUME IInv, SumRecipient PROVE IInv'
  OBVIOUS
<1> DEFINE err == RecipientError(w, i, recipient_sum)
<1>1. CASE err # None /\ Abort(err)
  <2>1. err \in CircuitErrors
    BY <1>1 DEF RecipientError, CircuitErrors
  <2> QED BY <1>1, <2>1, AbortIInv
<1>2. CASE /\ err = None
           /\ recipient_sum' =
                recipient_sum + w.recipient_resources[i].quantity
           /\ i' = i + 1
           /\ UNCHANGED <<w, pc, prev, external_sum, error>>
  <2> DEFINE s == RecipientQuantities(w)
  <2>1. /\ pc = "recipients" /\ i \in 1 .. Len(w.recipient_resources)
        /\ Len(w.recipient_resources) \in Nat
        /\ w.recipient_resources[i].quantity \in Quantity
        /\ recipient_sum \in Quantity
        /\ RecipientsIn(i - 1)
    BY DEF SumRecipient, InLoop, IInv, TypeOK, RecipientsSummed, IsWitness
  <2>2. /\ commitment(w.recipient_resources[i]) \in w.action_tags
        /\ ~AddOverflows(recipient_sum, w.recipient_resources[i].quantity)
    BY <1>2 DEF RecipientError, None
  <2>3. recipient_sum + w.recipient_resources[i].quantity \in Quantity
    BY <2>1, <2>2, MaxU128Assumption DEF AddOverflows, Quantity
  <2>4. TypeOK'
    BY <1>2, <2>1, <2>3 DEF IInv, TypeOK
  <2>5. IsWitness(w)'
    BY <1>2 DEF IInv
  <2>6. RecipientsSummed'
    <3>1. Len(s) = Len(w.recipient_resources)
          /\ s[i] = w.recipient_resources[i].quantity
      BY <2>1 DEF RecipientQuantities
    <3>2. RunningSum(s, (i - 1) + 1, recipient_sum + s[(i - 1) + 1])
      <4>1. RunningSum(s, i - 1, recipient_sum)
        BY <2>1 DEF RecipientsIn
      <4>2. i - 1 \in Nat /\ i - 1 < Len(s) /\ Summable(s)
        BY <2>1, <3>1, ListsSummable DEF IInv
      <4> HIDE DEF s
      <4> QED BY <4>1, <4>2, SumStep
    <3>3. (i - 1) + 1 = i /\ (i + 1) - 1 = i
      BY <2>1
    <3>4. RunningSum(s, i, recipient_sum')
      BY <1>2, <3>1, <3>2, <3>3
    <3>5. \A j \in 1 .. i :
            commitment(w.recipient_resources[j]) \in w.action_tags
      BY <2>1, <2>2 DEF RecipientsIn
    <3> QED BY <1>2, <2>1, <3>3, <3>4, <3>5 DEF RecipientsSummed, RecipientsIn
  <2> QED
    BY <1>2, <2>1, <2>4, <2>5, <2>6
    DEF IInv, BlocksPassed, KeysSorted, SlotsChecked, SlotsDistinct,
        PayloadsSummed, SlotsVerified
<1> QED BY <1>1, <1>2 DEF SumRecipient

\* The recipient loop ends with the sum of all quantities.
LEMMA RecipientsDoneIInv == IInv /\ RecipientsDone => IInv'
<1> SUFFICES ASSUME IInv, RecipientsDone PROVE IInv'
  OBVIOUS
<1>1. /\ pc = "recipients" /\ i > Len(w.recipient_resources)
      /\ GoTo("payloads")
  BY DEF RecipientsDone, LoopDone
<1>2. TypeOK' /\ IsWitness(w)'
  BY <1>1, GoToTypes
<1>3. i - 1 = Len(w.recipient_resources) /\ RecipientsIn(i - 1)
  BY <1>1, SMTT(30) DEF IInv, TypeOK, IsWitness, RecipientsSummed
<1>4. PayloadsSummed'
  <2>1. Len(w.app_data.external_payload) \in Nat
    BY DEF IInv, IsWitness
  <2>2. RunningSum(ForwardedAmounts(w), 0, 0)
    BY SumStart
  <2> QED BY <1>1, <2>1, <2>2 DEF GoTo, IInv, PayloadsSummed, PayloadsIn
<1> QED
  BY <1>1, <1>2, <1>3, <1>4
  DEF GoTo, IInv, BlocksPassed, KeysSorted, SlotsChecked, SlotsDistinct,
      RecipientsSummed, RecipientsIn, SlotsVerified

\* One payload more is parsed, checked and added.
LEMMA SumPayloadIInv == IInv /\ SumPayload => IInv'
<1> SUFFICES ASSUME IInv, SumPayload PROVE IInv'
  OBVIOUS
<1> DEFINE err == PayloadError(w, i, external_sum)
<1>1. CASE err # None /\ Abort(err)
  <2>1. err \in CircuitErrors
    BY <1>1 DEF PayloadError, CircuitErrors
  <2> QED BY <1>1, <2>1, AbortIInv
<1>2. CASE /\ err = None
           /\ external_sum' =
                external_sum + ForwardedAmount(w.app_data.external_payload[i])
           /\ i' = i + 1
           /\ UNCHANGED <<w, pc, prev, recipient_sum, error>>
  <2> DEFINE blob == w.app_data.external_payload[i]
             s == ForwardedAmounts(w)
  <2>1. /\ pc = "payloads" /\ i \in 1 .. Len(w.app_data.external_payload)
        /\ Len(w.app_data.external_payload) \in Nat
        /\ blob.amount \in Nat
        /\ external_sum \in Quantity
        /\ PayloadsIn(i - 1)
    BY DEF SumPayload, InLoop, IInv, TypeOK, PayloadsSummed, IsWitness
  <2>2. /\ PayloadMatches(w, blob)
        /\ blob.forwarder = MULTISIG_FORWARDER =>
             ~AddOverflows(external_sum, blob.amount)
    BY <1>2 DEF PayloadError, PayloadMatches, None
  <2>3. external_sum + ForwardedAmount(blob) \in Quantity
    <3> HIDE DEF blob
    <3>1. CASE blob.forwarder = MULTISIG_FORWARDER
      <4>1. ~(external_sum + blob.amount > MaxU128)
        BY <2>2, <3>1 DEF AddOverflows
      <4> QED BY <2>1, <3>1, <4>1, MaxU128Assumption DEF Quantity, ForwardedAmount
    <3>2. CASE blob.forwarder # MULTISIG_FORWARDER
      BY <2>1, <3>2, MaxU128Assumption DEF Quantity, ForwardedAmount
    <3> QED BY <3>1, <3>2
  <2>4. TypeOK'
    BY <1>2, <2>1, <2>3 DEF IInv, TypeOK
  <2>5. IsWitness(w)'
    BY <1>2 DEF IInv
  <2>6. PayloadsSummed'
    <3>1. Len(s) = Len(w.app_data.external_payload)
          /\ s[i] = ForwardedAmount(blob)
      BY <2>1 DEF ForwardedAmounts
    <3>2. RunningSum(s, (i - 1) + 1, external_sum + s[(i - 1) + 1])
      <4>1. RunningSum(s, i - 1, external_sum)
        BY <2>1 DEF PayloadsIn
      <4>2. i - 1 \in Nat /\ i - 1 < Len(s) /\ Summable(s)
        BY <2>1, <3>1, ListsSummable DEF IInv
      <4> HIDE DEF s
      <4> QED BY <4>1, <4>2, SumStep
    <3>3. (i - 1) + 1 = i /\ (i + 1) - 1 = i
      BY <2>1
    <3>4. RunningSum(s, i, external_sum')
      BY <1>2, <3>1, <3>2, <3>3
    <3>5. \A j \in 1 .. i : PayloadMatches(w, w.app_data.external_payload[j])
      BY <2>1, <2>2 DEF PayloadsIn
    <3> QED BY <1>2, <2>1, <3>3, <3>4, <3>5 DEF PayloadsSummed, PayloadsIn
  <2> QED
    BY <1>2, <2>1, <2>4, <2>5, <2>6
    DEF IInv, BlocksPassed, KeysSorted, SlotsChecked, SlotsDistinct,
        RecipientsSummed, RecipientsIn, SlotsVerified
<1> QED BY <1>1, <1>2 DEF SumPayload

\* The payload loop ends with the sum of all forwarded amounts.
LEMMA PayloadsDoneIInv == IInv /\ PayloadsDone => IInv'
<1> SUFFICES ASSUME IInv, PayloadsDone PROVE IInv'
  OBVIOUS
<1>1. /\ pc = "payloads" /\ i > Len(w.app_data.external_payload)
      /\ GoTo("conservation")
  BY DEF PayloadsDone, LoopDone
<1>2. TypeOK' /\ IsWitness(w)'
  BY <1>1, GoToTypes
<1>3. i - 1 = Len(w.app_data.external_payload) /\ PayloadsIn(i - 1)
  BY <1>1 DEF IInv, TypeOK, IsWitness, PayloadsSummed
<1> QED
  BY <1>1, <1>2, <1>3
  DEF GoTo, IInv, BlocksPassed, KeysSorted, SlotsChecked, SlotsDistinct,
      RecipientsSummed, RecipientsIn, PayloadsSummed, PayloadsIn, SlotsVerified

\* Step 11 turns the two sums into the balance of the witness.
LEMMA CheckConservationIInv == IInv /\ CheckConservation => IInv'
<1> SUFFICES ASSUME IInv, CheckConservation PROVE IInv'
  OBVIOUS
<1> DEFINE err == ConservationError(w, external_sum, recipient_sum)
<1>1. CASE err # None /\ Abort(err)
  <2>1. err \in CircuitErrors
    BY <1>1 DEF ConservationError, CircuitErrors
  <2> QED BY <1>1, <2>1, AbortIInv
<1>2. CASE err = None /\ GoTo("signatures")
  <2>1. TypeOK' /\ IsWitness(w)'
    BY <1>2, GoToTypes DEF CheckConservation, Check
  <2>2. BlocksPassed'
    BY <1>2 DEF CheckConservation, Check, GoTo, IInv, BlocksPassed
  <2>3. SlotsVerified'
    BY <1>2 DEF GoTo, IInv, IsWitness, SlotsVerified
  <2> QED
    BY <1>2, <2>1, <2>2, <2>3
    DEF GoTo, CheckConservation, Check, IInv, KeysSorted, SlotsChecked,
        SlotsDistinct, RecipientsSummed, RecipientsIn, PayloadsSummed,
        PayloadsIn
<1> QED BY <1>1, <1>2 DEF CheckConservation, Check

\* One signature more is valid.
LEMMA VerifySignatureIInv == IInv /\ VerifySignature => IInv'
<1> SUFFICES ASSUME IInv, VerifySignature PROVE IInv'
  OBVIOUS
<1> DEFINE err == SignatureError(w, i)
<1>1. CASE err # None /\ Abort(err)
  <2>1. err \in CircuitErrors
    BY <1>1 DEF SignatureError, CircuitErrors
  <2> QED BY <1>1, <2>1, AbortIInv
<1>2. CASE /\ err = None
           /\ i' = i + 1
           /\ UNCHANGED <<w, pc, prev, recipient_sum, external_sum, error>>
  <2>1. TypeOK'
    BY <1>2 DEF IInv, TypeOK
  <2>2. IsWitness(w)'
    BY <1>2 DEF IInv
  <2>3. pc = "signatures"
    BY DEF VerifySignature, InLoop
  <2>4. SlotsVerified'
    <3>1. \A j \in DOMAIN w.signatures : j \in Nat
      BY DEF IInv, IsWitness
    <3> QED BY <1>2, <2>3, <3>1 DEF IInv, TypeOK, SlotsVerified
  <2> QED
    BY <1>2, <2>1, <2>2, <2>3, <2>4
    DEF IInv, BlocksPassed, KeysSorted, SlotsChecked, SlotsDistinct,
        RecipientsSummed, RecipientsIn, PayloadsSummed, PayloadsIn
<1> QED BY <1>1, <1>2 DEF VerifySignature

\* The journal is committed with every block passed.
LEMMA CommitJournalIInv == IInv /\ CommitJournal => IInv'
<1> SUFFICES ASSUME IInv, CommitJournal PROVE IInv'
  OBVIOUS
<1>1. pc = "signatures" /\ i > Len(w.signatures) /\ GoTo("committed")
  BY DEF CommitJournal, LoopDone
<1>2. TypeOK' /\ IsWitness(w)'
  BY <1>1, GoToTypes
<1>3. \A j \in DOMAIN w.signatures : SignatureError(w, j) = None
  BY <1>1 DEF IInv, TypeOK, IsWitness, SlotsVerified
<1> QED
  BY <1>1, <1>2, <1>3
  DEF GoTo, IInv, BlocksPassed, KeysSorted, SlotsChecked, SlotsDistinct,
      RecipientsSummed, RecipientsIn, PayloadsSummed, PayloadsIn, SlotsVerified

\* Steps that change nothing keep the invariant.
LEMMA StutterIInv == IInv /\ UNCHANGED vars => IInv'
<1> SUFFICES ASSUME IInv, UNCHANGED vars PROVE IInv'
  OBVIOUS
<1>1. TypeOK'
  BY DEF vars, IInv, TypeOK
<1>2. IsWitness(w)'
  BY DEF vars, IInv
<1> QED
  BY <1>1, <1>2
  DEF vars, IInv, BlocksPassed, KeysSorted, SlotsChecked, SlotsDistinct,
      RecipientsSummed, RecipientsIn, PayloadsSummed, PayloadsIn, SlotsVerified

\* Spec keeps the inductive invariant.
LEMMA Inductive == Spec => []IInv
<1>1. IInv /\ [Next]_vars => IInv'
  BY CheckLabelIInv, CheckPubkeyWindowIInv, PubkeysSortedIInv, CheckRootIInv,
     CheckSignerSlotIInv, SignersDoneIInv, CheckChangeIInv, SumRecipientIInv,
     RecipientsDoneIInv, SumPayloadIInv, PayloadsDoneIInv,
     CheckConservationIInv, VerifySignatureIInv, CommitJournalIInv, StutterIInv
  DEF Next
<1> QED BY InitIInv, <1>1, PTL DEF Spec

-----------------------------------------------------------------------------
(* What a committed journal vouches for.                                   *)

\* The blocks of checks, taken together, are the declarative reading.
LEMMA CommittedAuthorised == IInv /\ Committed => Authorised(w)
<1> SUFFICES ASSUME IInv, Committed PROVE Authorised(w)
  OBVIOUS
<1> USE DEF Committed
<1>1. IsWitness(w) /\ TypeOK
  BY DEF IInv
<1>2. OpensLabel(w)
  BY DEF IInv, BlocksPassed, LabelBlockError, RootBlockError, KeysSorted,
    OpensLabel, None, derive_nullifier_key_bytes, nullifier_key
<1>3. SignedByK(w)
  <2>1. Len(w.signatures) = w.label_preimage.k
    BY DEF IInv, BlocksPassed, RootBlockError, None
  <2>2. SlotsDistinct(Len(w.signatures))
    BY DEF IInv, SlotsChecked
  <2>3. \A j \in DOMAIN w.signatures :
          verify_secp256k1(w.pubkeys[w.signatures[j].idx + 1],
                           SpendMessage(w), w.signatures[j].sig)
    BY DEF IInv, SlotsVerified, SignatureError, None
  <2> QED BY <1>1, <2>1, <2>2, <2>3 DEF SignedByK, SlotsDistinct, IsWitness
<1>4. StaysInAction(w)
  BY <1>1 DEF IInv, BlocksPassed, ChangeBlockError, RecipientsSummed,
    RecipientsIn, StaysInAction, None, IsWitness
<1>5. PayloadsMatch(w)
  BY <1>1 DEF IInv, PayloadsSummed, PayloadsIn, PayloadsMatch, IsWitness
<1>6. Balanced(w)
  <2>1. TotalOf(RecipientQuantities(w)) = recipient_sum
    <3>1. Len(RecipientQuantities(w)) = Len(w.recipient_resources)
      BY <1>1 DEF IsWitness, RecipientQuantities
    <3>2. RunningSum(RecipientQuantities(w), Len(RecipientQuantities(w)),
                     recipient_sum)
      BY <3>1 DEF IInv, RecipientsSummed, RecipientsIn
    <3> QED BY <1>1, <3>2, ListsSummable, SumEnd
  <2>2. TotalOf(ForwardedAmounts(w)) = external_sum
    <3>1. Len(ForwardedAmounts(w)) = Len(w.app_data.external_payload)
      BY <1>1 DEF IsWitness, ForwardedAmounts
    <3>2. RunningSum(ForwardedAmounts(w), Len(ForwardedAmounts(w)),
                     external_sum)
      BY <3>1 DEF IInv, PayloadsSummed, PayloadsIn
    <3> QED BY <1>1, <3>2, ListsSummable, SumEnd
  <2>3. external_sum + recipient_sum + w.change_resource.quantity
          = w.resource.quantity
    BY DEF IInv, BlocksPassed, ConservationError, None
  <2> QED BY <2>1, <2>2, <2>3 DEF Balanced
<1> QED BY <1>2, <1>3, <1>4, <1>5, <1>6 DEF Authorised

\* k ascending indices into an ascending key list name k different keys.
LEMMA KDistinctSigners ==
  ASSUME NEW x, IsWitness(x), Authorised(x)
  PROVE  Cardinality(ValidSigners(x)) >= x.label_preimage.k
<1> DEFINE k == x.label_preimage.k
           key == [j \in 1 .. k |-> x.pubkeys[x.signatures[j].idx + 1]]
<1>1. /\ k \in Nat /\ x.label_preimage.n \in Nat
      /\ x.pubkeys \in Seq(Nat) /\ Len(x.pubkeys) = x.label_preimage.n
      /\ DOMAIN x.signatures = 1 .. k
      /\ \A j \in 1 .. k : /\ x.signatures[j].idx \in Nat
                           /\ x.signatures[j].idx < x.label_preimage.n
  BY DEF IsWitness, Authorised, OpensLabel, SignedByK
<1>2. \A j \in 1 .. k : key[j] \in ValidSigners(x)
  <2> SUFFICES ASSUME NEW j \in 1 .. k PROVE key[j] \in ValidSigners(x)
    OBVIOUS
  <2>1. x.signatures[j].idx + 1 \in 1 .. Len(x.pubkeys)
    BY <1>1
  <2>2. key[j] \in ToSet(x.pubkeys)
    BY <1>1, <2>1 DEF ToSet
  <2>3. verify_secp256k1(key[j], SpendMessage(x), x.signatures[j].sig)
    BY <1>1 DEF Authorised, SignedByK
  <2> QED BY <1>1, <2>2, <2>3 DEF ValidSigners
<1>3. ASSUME NEW a \in 1 .. k, NEW b \in 1 .. k, a < b
      PROVE  key[a] < key[b]
  <2> DEFINE p == x.signatures[a].idx + 1
             q == x.signatures[b].idx + 1
  <2>1. p < q
    <3>1. SignerIndices(x)[a] < SignerIndices(x)[b]
      BY <1>1, <1>3 DEF Authorised, SignedByK, AscendingBelow
    <3>2. /\ SignerIndices(x)[a] = x.signatures[a].idx
          /\ SignerIndices(x)[b] = x.signatures[b].idx
      BY <1>1 DEF Authorised, SignedByK, SignerIndices
    <3> QED BY <1>1, <3>1, <3>2, SMTT(30)
  <2>2. p \in 1 .. Len(x.pubkeys) /\ q \in 1 .. Len(x.pubkeys)
    <3>1. p \in 1 .. Len(x.pubkeys)
      BY <1>1, SMTT(30)
    <3>2. q \in 1 .. Len(x.pubkeys)
      BY <1>1, SMTT(30)
    <3> QED BY <3>1, <3>2
  <2>3. key[a] = x.pubkeys[p] /\ key[b] = x.pubkeys[q]
    OBVIOUS
  <2>4. x.pubkeys[p] < x.pubkeys[q]
    <3>1. AscendingBelow(x.pubkeys, Len(x.pubkeys))
      BY DEF Authorised, OpensLabel
    <3> HIDE DEF p, q
    <3> QED BY <2>1, <2>2, <3>1 DEF AscendingBelow
  <2> QED BY <2>3, <2>4
<1>4. ASSUME NEW a \in 1 .. k PROVE key[a] \in Nat
  <2> DEFINE p == x.signatures[a].idx + 1
  <2>1. p \in 1 .. Len(x.pubkeys) /\ key[a] = x.pubkeys[p]
    BY <1>1
  <2> HIDE DEF p, key
  <2> QED BY <1>1, <2>1
<1>5. key \in Injection(1 .. k, ValidSigners(x))
  <2>1. \A a, b \in 1 .. k : key[a] = key[b] => a = b
    <3> SUFFICES ASSUME NEW a \in 1 .. k, NEW b \in 1 .. k, a # b
                 PROVE  key[a] # key[b]
      OBVIOUS
    <3>1. a < b \/ b < a
      BY <1>1
    <3> HIDE DEF key
    <3> QED BY <1>3, <1>4, <3>1
  <2> QED BY <1>2, <2>1 DEF Injection, IsInjective
<1>6. IsFiniteSet(ValidSigners(x))
  <2>1. IsFiniteSet(ToSet(x.pubkeys))
    <3> DEFINE n == Len(x.pubkeys)
    <3>1. n \in Int /\ 1 \in Int
      BY <1>1
    <3>2. IsFiniteSet(1 .. n)
      <4> HIDE DEF n
      <4> QED BY <3>1, FS_Interval
    <3>3. x.pubkeys \in Surjection(1 .. n, ToSet(x.pubkeys))
      BY <1>1 DEF ToSet, Surjection
    <3> QED BY <3>2, <3>3, FS_Surjection
  <2>2. ValidSigners(x) \in SUBSET ToSet(x.pubkeys)
    BY DEF ValidSigners
  <2> QED BY <2>1, <2>2, FS_Subset
<1>7. Cardinality(1 .. k) = k
  <2>1. k \in Int /\ 1 \in Int
    BY <1>1
  <2> HIDE DEF k
  <2>2. Cardinality(1 .. k) = IF 1 > k THEN 0 ELSE k - 1 + 1
    BY <2>1, FS_Interval
  <2> QED BY <1>1, <2>2
<1>8. Cardinality(1 .. k) <= Cardinality(ValidSigners(x))
  BY <1>5, <1>6, FS_Injection
<1>9. Cardinality(ValidSigners(x)) \in Nat
  BY <1>6, FS_CardinalityType
<1> QED BY <1>1, <1>7, <1>8, <1>9

\* Type correctness of the run: no sum ever leaves the range of a u128
\* (constrain.rs:180-236).
THEOREM TypeCorrect == Spec => []TypeOK
<1>1. IInv => TypeOK
  BY DEF IInv
<1> QED BY Inductive, <1>1, PTL

\* Every committed journal is of an authorised witness: the safety half of
\* what SpendAuthorization asks of the consumed branch (constrain.rs:105-276).
THEOREM Soundness == Spec => [](Committed => Authorised(w))
<1> QED BY Inductive, CommittedAuthorised, PTL

\* A committed journal is signed by k different keys of the label
\* (constrain.rs:131-162, 269-273).
THEOREM KofN == Spec => []KofNAuthorized
<1>1. IInv => KofNAuthorized
  <2> SUFFICES ASSUME IInv, Committed PROVE KofNAuthorized
    BY DEF KofNAuthorized
  <2>1. IsWitness(w) /\ Authorised(w)
    BY CommittedAuthorised DEF IInv
  <2> QED BY <2>1, KDistinctSigners DEF KofNAuthorized, Authorised, OpensLabel
<1> QED BY Inductive, <1>1, PTL

\* A committed journal moves exactly the consumed quantity
\* (constrain.rs:180-244).
THEOREM Conservation == Spec => []Conserved
<1>1. IInv => Conserved
  BY CommittedAuthorised DEF Conserved, Authorised
<1> QED BY Inductive, <1>1, PTL

-----------------------------------------------------------------------------
(* Nothing is refused that should be let through: an error of any block    *)
(* contradicts a part of Authorised, whatever was added up before it.      *)

\* Of an authorised witness: no partial sum and no two parts of the total
\* exceed the consumed quantity.
LEMMA AuthorisedFits ==
  ASSUME IInv, Authorised(w)
  PROVE  /\ TotalOf(ForwardedAmounts(w)) \in Nat
         /\ TotalOf(RecipientQuantities(w)) \in Nat
         /\ TotalOf(ForwardedAmounts(w)) + TotalOf(RecipientQuantities(w))
              + w.change_resource.quantity = w.resource.quantity
         /\ w.change_resource.quantity \in Nat
         /\ w.resource.quantity \in Nat /\ w.resource.quantity <= MaxU128
<1> DEFINE f == ForwardedAmounts(w)
           r == RecipientQuantities(w)
<1>1. IsWitness(w)
  BY DEF IInv
<1>2. /\ Summable(f) /\ \A j \in 1 .. Len(f) : f[j] \in Nat
      /\ Summable(r) /\ \A j \in 1 .. Len(r) : r[j] \in Nat
  <2>1. /\ Len(f) = Len(w.app_data.external_payload)
        /\ Len(r) = Len(w.recipient_resources)
    BY <1>1, ListsSummable
  <2> QED BY <1>1, <2>1, ListsSummable
<1>3. TotalOf(f) \in Nat /\ TotalOf(r) \in Nat
  <2>1. /\ RunningSum(f, 0, 0) /\ 0 \in 0 .. Len(f)
        /\ RunningSum(r, 0, 0) /\ 0 \in 0 .. Len(r)
    BY <1>2, SumStart DEF Summable
  <2> HIDE DEF f, r
  <2>2. TotalOf(f) \in Nat
    BY <1>2, <2>1, SumPartial
  <2>3. TotalOf(r) \in Nat
    BY <1>2, <2>1, SumPartial
  <2> QED BY <2>2, <2>3
<1>4. TotalOf(f) + TotalOf(r) + w.change_resource.quantity
        = w.resource.quantity
  BY DEF Authorised, Balanced
<1>5. /\ w.change_resource.quantity \in Nat
      /\ w.resource.quantity \in Nat /\ w.resource.quantity <= MaxU128
  BY <1>1, MaxU128Assumption DEF IsWitness, Quantity
<1> QED BY <1>3, <1>4, <1>5

\* The straight-line blocks find no error in an authorised witness.
LEMMA NoBlockError ==
  ASSUME IInv, Authorised(w)
  PROVE  /\ LabelBlockError(w) = None
         /\ RootBlockError(w) = None
         /\ ChangeBlockError(w) = None
         /\ pc = "conservation" =>
              ConservationError(w, external_sum, recipient_sum) = None
<1>1. LabelBlockError(w) = None
  BY DEF Authorised, OpensLabel, LabelBlockError, nullifier_key,
         derive_nullifier_key_bytes
<1>2. RootBlockError(w) = None
  BY DEF Authorised, OpensLabel, SignedByK, RootBlockError
<1>3. ChangeBlockError(w) = None
  <2>1. ~(w.change_resource.quantity > w.resource.quantity)
    BY AuthorisedFits
  <2> QED BY <2>1 DEF Authorised, StaysInAction, ChangeBlockError
<1>4. ASSUME pc = "conservation"
      PROVE  ConservationError(w, external_sum, recipient_sum) = None
  <2>1. IsWitness(w)
    BY DEF IInv
  <2>2. TotalOf(RecipientQuantities(w)) = recipient_sum
    <3>1. RunningSum(RecipientQuantities(w), Len(RecipientQuantities(w)),
                     recipient_sum)
      BY <1>4, <2>1, ListsSummable DEF IInv, RecipientsSummed, RecipientsIn
    <3> QED BY <2>1, <3>1, ListsSummable, SumEnd
  <2>3. TotalOf(ForwardedAmounts(w)) = external_sum
    <3>1. RunningSum(ForwardedAmounts(w), Len(ForwardedAmounts(w)),
                     external_sum)
      BY <1>4, <2>1, ListsSummable DEF IInv, PayloadsSummed, PayloadsIn
    <3> QED BY <2>1, <3>1, ListsSummable, SumEnd
  <2>4. /\ ~(external_sum + recipient_sum > MaxU128)
        /\ ~(external_sum + recipient_sum + w.change_resource.quantity > MaxU128)
        /\ external_sum + recipient_sum + w.change_resource.quantity
             = w.resource.quantity
    BY <2>2, <2>3, AuthorisedFits, MaxU128Assumption
  <2>5. ~TagFails(w.resource, w.nf_key)
    BY DEF Authorised, OpensLabel, TagFails
  <2> QED BY <2>4, <2>5 DEF ConservationError, AddOverflows
<1> QED BY <1>1, <1>2, <1>3, <1>4

\* Nor does an iteration of a loop.
LEMMA NoLoopError ==
  ASSUME IInv, Authorised(w)
  PROVE  /\ InLoop("pubkeys", Len(w.pubkeys) - 1) =>
              PubkeyWindowError(w, i) = None
         /\ InLoop("signers", Len(w.signatures)) =>
              SignerSlotError(w, i, prev) = None
         /\ InLoop("recipients", Len(w.recipient_resources)) =>
              RecipientError(w, i, recipient_sum) = None
         /\ InLoop("payloads", Len(w.app_data.external_payload)) =>
              PayloadError(w, i, external_sum) = None
         /\ InLoop("signatures", Len(w.signatures)) =>
              SignatureError(w, i) = None
<1>0. IsWitness(w) /\ TypeOK /\ i \in Nat \ {0}
  BY DEF IInv, TypeOK
<1>1. ASSUME InLoop("pubkeys", Len(w.pubkeys) - 1)
      PROVE  PubkeyWindowError(w, i) = None
  <2>1. w.pubkeys \in Seq(Nat) /\ Len(w.pubkeys) \in Nat
    BY <1>0 DEF IsWitness
  <2>2. i \in 1 .. Len(w.pubkeys) /\ i + 1 \in 1 .. Len(w.pubkeys)
    BY <1>0, <1>1, <2>1 DEF InLoop
  <2>3. w.pubkeys[i] \in Nat /\ w.pubkeys[i + 1] \in Nat
    BY <2>1, <2>2
  <2>4. w.pubkeys[i] < w.pubkeys[i + 1]
    <3>1. AscendingBelow(w.pubkeys, Len(w.pubkeys)) /\ i < i + 1
      BY <1>0 DEF Authorised, OpensLabel
    <3> QED BY <2>2, <3>1 DEF AscendingBelow
  <2> QED BY <2>3, <2>4 DEF PubkeyWindowError
<1>2. ASSUME InLoop("signers", Len(w.signatures))
      PROVE  SignerSlotError(w, i, prev) = None
  <2>1. /\ Len(w.signatures) \in Nat
        /\ DOMAIN w.signatures = 1 .. Len(w.signatures)
        /\ \A j \in 1 .. Len(w.signatures) : w.signatures[j].idx \in Nat
        /\ w.label_preimage.n \in Nat
    BY <1>0 DEF IsWitness
  <2>2. pc = "signers" /\ i \in 1 .. Len(w.signatures)
    BY <1>0, <1>2, <2>1 DEF InLoop
  <2>3. w.signatures[i].idx < w.label_preimage.n
    BY <2>1, <2>2 DEF Authorised, SignedByK
  <2>4. prev = IF i = 1 THEN NoIndex ELSE w.signatures[i - 1].idx
    BY <2>2 DEF IInv, SlotsChecked
  <2>5. ASSUME i # 1 PROVE w.signatures[i - 1].idx < w.signatures[i].idx
    <3>1. i - 1 \in 1 .. Len(w.signatures) /\ i - 1 < i
      BY <2>1, <2>2, <2>5
    <3>2. SignerIndices(w)[i - 1] < SignerIndices(w)[i]
      BY <2>2, <3>1 DEF Authorised, SignedByK, AscendingBelow
    <3> QED BY <2>2, <3>1, <3>2 DEF SignerIndices
  <2>6. ~(w.signatures[i].idx >= w.label_preimage.n)
    BY <2>1, <2>2, <2>3
  <2>7. ~(prev # NoIndex /\ prev >= w.signatures[i].idx)
    <3>1. CASE i = 1
      BY <2>4, <3>1
    <3>2. CASE i # 1
      <4>1. i - 1 \in 1 .. Len(w.signatures)
        BY <2>1, <2>2, <3>2
      <4> QED BY <2>1, <2>2, <2>4, <2>5, <3>2, <4>1
    <3> QED BY <3>1, <3>2
  <2> QED BY <2>6, <2>7 DEF SignerSlotError
<1>3. ASSUME InLoop("recipients", Len(w.recipient_resources))
      PROVE  RecipientError(w, i, recipient_sum) = None
  <2> DEFINE s == RecipientQuantities(w)
  <2>0. /\ Len(s) = Len(w.recipient_resources) /\ Summable(s)
        /\ \A j \in 1 .. Len(w.recipient_resources) : s[j] \in Nat
    BY <1>0, ListsSummable
  <2>1. /\ pc = "recipients" /\ i \in 1 .. Len(s)
        /\ Len(s) = Len(w.recipient_resources) /\ Summable(s)
        /\ \A j \in 1 .. Len(s) : s[j] \in Nat
    <3> HIDE DEF s
    <3> QED BY <1>0, <1>3, <2>0 DEF InLoop, Summable
  <2>2. RunningSum(s, i - 1, recipient_sum)
    BY <2>1 DEF IInv, RecipientsSummed, RecipientsIn
  <2>3. recipient_sum + s[i] <= TotalOf(s) /\ TotalOf(s) \in Nat
    <3>1. /\ i - 1 \in Nat /\ i - 1 < Len(s)
          /\ (i - 1) + 1 = i /\ i \in 0 .. Len(s)
      BY <2>1 DEF Summable
    <3> HIDE DEF s
    <3>2. RunningSum(s, (i - 1) + 1, recipient_sum + s[(i - 1) + 1])
      BY <2>1, <2>2, <3>1, SumStep
    <3>3. RunningSum(s, i, recipient_sum + s[i])
      BY <3>1, <3>2
    <3> QED BY <2>1, <3>1, <3>3, SumPartial
  <2>4. s[i] = w.recipient_resources[i].quantity /\ s[i] \in Nat
    BY <2>1 DEF RecipientQuantities
  <2>5. recipient_sum \in Nat
    BY <1>0 DEF TypeOK, Quantity
  <2>6. ~AddOverflows(recipient_sum, w.recipient_resources[i].quantity)
    <3>1. TotalOf(s) <= MaxU128
      BY AuthorisedFits, MaxU128Assumption
    <3> HIDE DEF s
    <3> QED BY <2>3, <2>4, <2>5, <3>1, MaxU128Assumption DEF AddOverflows
  <2>7. commitment(w.recipient_resources[i]) \in w.action_tags
    BY <1>0, <2>1 DEF Authorised, StaysInAction, IsWitness
  <2> QED BY <2>6, <2>7 DEF RecipientError
<1>4. ASSUME InLoop("payloads", Len(w.app_data.external_payload))
      PROVE  PayloadError(w, i, external_sum) = None
  <2> DEFINE s == ForwardedAmounts(w)
             blob == w.app_data.external_payload[i]
  <2>0. /\ Len(s) = Len(w.app_data.external_payload) /\ Summable(s)
        /\ \A j \in 1 .. Len(w.app_data.external_payload) : s[j] \in Nat
    BY <1>0, ListsSummable
  <2>1. /\ pc = "payloads" /\ i \in 1 .. Len(s)
        /\ Len(s) = Len(w.app_data.external_payload) /\ Summable(s)
        /\ \A j \in 1 .. Len(s) : s[j] \in Nat
    <3> HIDE DEF s
    <3> QED BY <1>0, <1>4, <2>0 DEF InLoop, Summable
  <2>2. RunningSum(s, i - 1, external_sum)
    BY <2>1 DEF IInv, PayloadsSummed, PayloadsIn
  <2>3. external_sum + s[i] <= TotalOf(s) /\ TotalOf(s) \in Nat
    <3>1. /\ i - 1 \in Nat /\ i - 1 < Len(s)
          /\ (i - 1) + 1 = i /\ i \in 0 .. Len(s)
      BY <2>1 DEF Summable
    <3> HIDE DEF s
    <3>2. RunningSum(s, (i - 1) + 1, external_sum + s[(i - 1) + 1])
      BY <2>1, <2>2, <3>1, SumStep
    <3>3. RunningSum(s, i, external_sum + s[i])
      BY <3>1, <3>2
    <3> QED BY <2>1, <3>1, <3>3, SumPartial
  <2>4. s[i] = ForwardedAmount(blob) /\ s[i] \in Nat
    BY <2>1 DEF ForwardedAmounts
  <2>5. external_sum \in Nat
    BY <1>0 DEF TypeOK, Quantity
  <2>6. blob.forwarder = MULTISIG_FORWARDER =>
          ~AddOverflows(external_sum, blob.amount)
    <3>1. TotalOf(s) <= MaxU128
      BY AuthorisedFits, MaxU128Assumption
    <3>2. blob.forwarder = MULTISIG_FORWARDER => s[i] = blob.amount
      BY <2>4 DEF ForwardedAmount
    <3> HIDE DEF s, blob
    <3> QED BY <2>3, <2>4, <2>5, <3>1, <3>2, MaxU128Assumption DEF AddOverflows
  <2>7. PayloadMatches(w, blob)
    BY <1>0, <2>1 DEF Authorised, PayloadsMatch, IsWitness
  <2> QED BY <2>6, <2>7 DEF PayloadError, PayloadMatches
<1>5. ASSUME InLoop("signatures", Len(w.signatures))
      PROVE  SignatureError(w, i) = None
  <2>1. i \in DOMAIN w.signatures
    BY <1>0, <1>5 DEF InLoop, IsWitness
  <2> QED BY <2>1 DEF Authorised, SignedByK, SignatureError
<1> QED BY <1>1, <1>2, <1>3, <1>4, <1>5

\* A run that is aborted was not of an authorised witness.
LEMMA AbortedRefused ==
  ASSUME IInv, Next, pc' = "aborted"
  PROVE  ~Authorised(w) /\ UNCHANGED w /\ pc \in Blocks
<1> SUFFICES UNCHANGED w /\ pc \in Blocks /\ (Authorised(w) => FALSE)
  OBVIOUS
<1>1. UNCHANGED w /\ pc \in Blocks
  BY DEF Next, CheckLabel, CheckRoot, CheckChange, CheckConservation, Check,
         Abort, GoTo, CheckPubkeyWindow, CheckSignerSlot, SumRecipient,
         SumPayload, VerifySignature, InLoop, PubkeysSorted, SignersDone,
         RecipientsDone, PayloadsDone, CommitJournal, LoopDone
<1>2. ASSUME Authorised(w) PROVE FALSE
  <2>1. ~CheckLabel /\ ~CheckRoot /\ ~CheckChange /\ ~CheckConservation
    BY <1>2, NoBlockError
    DEF CheckLabel, CheckRoot, CheckChange, CheckConservation, Check, GoTo
  <2>2. /\ ~CheckPubkeyWindow /\ ~CheckSignerSlot /\ ~SumRecipient
        /\ ~SumPayload /\ ~VerifySignature
    BY <1>1, <1>2, NoLoopError
    DEF CheckPubkeyWindow, CheckSignerSlot, SumRecipient, SumPayload,
        VerifySignature, InLoop
  <2>3. /\ ~PubkeysSorted /\ ~SignersDone /\ ~RecipientsDone
        /\ ~PayloadsDone /\ ~CommitJournal
    BY DEF PubkeysSorted, SignersDone, RecipientsDone, PayloadsDone,
           CommitJournal, LoopDone, GoTo
  <2> QED BY <2>1, <2>2, <2>3 DEF Next
<1> QED BY <1>1, <1>2

\* Steps between the blocks are stutters of the abstract run, the last one is
\* its Commit, and an error is its Refuse.
LEMMA AuthorizationStep ==
  ASSUME IInv, (Committed => Authorised(w))', [Next]_vars
  PROVE  [Authorization!Next]_<<w, IF pc \in Final THEN pc ELSE "running">>
<1> DEFINE out == IF pc \in Final THEN pc ELSE "running"
<1>1. CASE UNCHANGED vars
  BY <1>1 DEF vars
<1>2. CASE Next
  <2>1. UNCHANGED w /\ pc \in Blocks
    BY <1>2 DEF Next, CheckLabel, CheckRoot, CheckChange, CheckConservation, Check,
         Abort, GoTo, CheckPubkeyWindow, CheckSignerSlot, SumRecipient,
         SumPayload, VerifySignature, InLoop, PubkeysSorted, SignersDone,
         RecipientsDone, PayloadsDone, CommitJournal, LoopDone
  <2>3. out = "running"
    BY <2>1 DEF Final
  <2>4. CASE pc' = "aborted"
    <3>1. ~Authorised(w)
      BY <1>2, <2>4, AbortedRefused
    <3> QED BY <2>1, <2>3, <2>4, <3>1
            DEF Authorization!Next, Authorization!Refuse, Final
  <2>5. CASE pc' = "committed"
    <3>1. Authorised(w)'
      BY <2>5 DEF Committed
    <3>2. Authorised(w)
      BY <2>1, <3>1
    <3> QED BY <2>1, <2>3, <2>5, <3>2
            DEF Authorization!Next, Authorization!Commit, Final
  <2>6. CASE pc' \notin Final
    BY <2>1, <2>3, <2>6
  <2> QED BY <2>4, <2>5, <2>6 DEF Final
<1> QED BY <1>1, <1>2

\* The stepwise circuit implements the declarative reading: it commits
\* exactly the authorised witnesses, refuses exactly the others, whatever the
\* lists, the width of the quantities and the order of early returns
\* (constrain.rs:105-276).
THEOREM Implementation == Spec => ImplementsAuthorization
<1>1. Init => Authorization!Init
  BY DEF Init, Authorization!Init, Final
<1>2. IInv /\ (Committed => Authorised(w))' /\ [Next]_vars =>
        [Authorization!Next]_<<w, IF pc \in Final THEN pc ELSE "running">>
  BY AuthorizationStep
<1> QED BY <1>1, <1>2, Inductive, Soundness, PTL
        DEF Spec, ImplementsAuthorization, Authorization!Spec

-----------------------------------------------------------------------------
(* A run ends: how many steps it can still take.                           *)

\* From index j of a loop: its iterations, and the step that leaves it.
LoopSteps(bound, j) == IF j <= bound THEN bound - j + 2 ELSE 1

Whole(bound) == LoopSteps(bound, 1)

SlotCount == Len(w.signatures)
RecipientCount == Len(w.recipient_resources)
PayloadCount == Len(w.app_data.external_payload)
WindowCount == Len(w.pubkeys) - 1

\* The steps left when the run enters these blocks.
FromConservation == 1 + Whole(SlotCount)
FromPayloads == Whole(PayloadCount) + FromConservation
FromChange == 1 + Whole(RecipientCount) + FromPayloads
FromRoot == 1 + Whole(SlotCount) + FromChange

StepsLeft ==
  CASE pc = "label"        -> 1 + Whole(WindowCount) + FromRoot
    [] pc = "pubkeys"      -> LoopSteps(WindowCount, i) + FromRoot
    [] pc = "root"         -> FromRoot
    [] pc = "signers"      -> LoopSteps(SlotCount, i) + FromChange
    [] pc = "change"       -> FromChange
    [] pc = "recipients"   -> LoopSteps(RecipientCount, i) + FromPayloads
    [] pc = "payloads"     -> LoopSteps(PayloadCount, i) + FromConservation
    [] pc = "conservation" -> FromConservation
    [] pc = "signatures"   -> LoopSteps(SlotCount, i)
    [] OTHER               -> 0

\* No run takes more: two passes over the slots, one over each other list.
StepsBound ==
  9 + Len(w.pubkeys) + SlotCount + SlotCount + RecipientCount + PayloadCount

\* The lists have a length, and the index is a number.
LEMMA Counts ==
  ASSUME IInv
  PROVE  /\ SlotCount \in Nat /\ RecipientCount \in Nat /\ PayloadCount \in Nat
         /\ WindowCount \in Int /\ WindowCount + 1 \in Nat
         /\ WindowCount + 1 = Len(w.pubkeys)
         /\ i \in Nat \ {0}
<1>1. Len(w.pubkeys) \in Nat
  BY DEF IInv, IsWitness
<1> QED BY <1>1 DEF IInv, TypeOK, IsWitness, SlotCount, RecipientCount,
                    PayloadCount, WindowCount

\* An iteration is one step less to take; there is always the one that leaves.
LEMMA LoopShrinks ==
  ASSUME NEW bound \in Int, NEW j \in Nat \ {0}
  PROVE  /\ LoopSteps(bound, j) \in 1 .. Whole(bound)
         /\ LoopSteps(bound, j) \in Nat \ {0}
         /\ j <= bound => LoopSteps(bound, j + 1) < LoopSteps(bound, j)
BY DEF LoopSteps, Whole

\* The loop over a list takes one step more than the list is long.
LEMMA WholeLoop ==
  ASSUME NEW bound \in Int
  PROVE  /\ Whole(bound) \in Nat \ {0}
         /\ bound \in Nat => Whole(bound) = bound + 1
         /\ bound + 1 \in Nat => Whole(bound) <= bound + 2
BY DEF LoopSteps, Whole

\* The parts of StepsLeft are numbers, and none of them is 0.
LEMMA PartsPositive ==
  ASSUME IInv
  PROVE  /\ \A bound \in {SlotCount, RecipientCount, PayloadCount, WindowCount} :
              /\ LoopSteps(bound, i) \in Nat \ {0}
              /\ Whole(bound) \in Nat \ {0}
         /\ FromConservation \in Nat \ {0} /\ FromPayloads \in Nat \ {0}
         /\ FromChange \in Nat \ {0} /\ FromRoot \in Nat \ {0}
<1>1. /\ SlotCount \in Int /\ RecipientCount \in Int /\ PayloadCount \in Int
      /\ WindowCount \in Int
      /\ i \in Nat \ {0}
  BY Counts
<1>2. \A bound \in Int : /\ LoopSteps(bound, i) \in Nat \ {0}
                         /\ Whole(bound) \in Nat \ {0}
  BY <1>1, LoopShrinks, WholeLoop
<1>3. \A bound \in {SlotCount, RecipientCount, PayloadCount, WindowCount} :
        bound \in Int
  BY <1>1
<1>4. FromConservation \in Nat \ {0}
  BY <1>1, <1>2 DEF FromConservation
<1>5. FromPayloads \in Nat \ {0}
  BY <1>1, <1>2, <1>4 DEF FromPayloads
<1>6. FromChange \in Nat \ {0}
  BY <1>1, <1>2, <1>5 DEF FromChange
<1>7. FromRoot \in Nat \ {0}
  BY <1>1, <1>2, <1>6 DEF FromRoot
<1> QED BY <1>2, <1>3, <1>4, <1>5, <1>6, <1>7

\* StepsLeft is a number, and it is 0 exactly when the run is over.
LEMMA StepsInNat ==
  ASSUME IInv
  PROVE  StepsLeft \in Nat /\ (StepsLeft = 0 <=> pc \in Final)
<1>1. pc \in Blocks \cup Final
  BY DEF IInv, TypeOK
<1>2. CASE pc \in Final
  BY <1>2 DEF StepsLeft, Final
<1>3. CASE pc \in Blocks
  <2>1. \/ StepsLeft = 1 + Whole(WindowCount) + FromRoot
        \/ StepsLeft = LoopSteps(WindowCount, i) + FromRoot
        \/ StepsLeft = FromRoot
        \/ StepsLeft = LoopSteps(SlotCount, i) + FromChange
        \/ StepsLeft = FromChange
        \/ StepsLeft = LoopSteps(RecipientCount, i) + FromPayloads
        \/ StepsLeft = LoopSteps(PayloadCount, i) + FromConservation
        \/ StepsLeft = FromConservation
        \/ StepsLeft = LoopSteps(SlotCount, i)
    BY <1>3 DEF StepsLeft, Blocks
  <2>2. StepsLeft \in Nat \ {0}
    BY <2>1, PartsPositive
  <2>3. pc \notin Final
    BY <1>3 DEF Blocks, Final
  <2> QED BY <2>2, <2>3
<1> QED BY <1>1, <1>2, <1>3

\* A run starts with at most StepsBound steps to take.
LEMMA StepsAtStart ==
  ASSUME IInv, Init
  PROVE  StepsLeft <= StepsBound
<1>1. /\ SlotCount \in Nat /\ RecipientCount \in Nat /\ PayloadCount \in Nat
      /\ WindowCount \in Int /\ WindowCount + 1 \in Nat
      /\ WindowCount + 1 = Len(w.pubkeys) /\ Len(w.pubkeys) \in Nat
  BY Counts
<1>2. \A n \in Nat : Whole(n) = n + 1
  BY WholeLoop
<1>3. FromRoot = SlotCount + SlotCount + RecipientCount + PayloadCount + 7
  <2>1. FromConservation = SlotCount + 2
    BY <1>1, <1>2 DEF FromConservation
  <2>2. FromPayloads = PayloadCount + SlotCount + 3
    BY <1>1, <1>2, <2>1 DEF FromPayloads
  <2>3. FromChange = RecipientCount + PayloadCount + SlotCount + 5
    BY <1>1, <1>2, <2>2 DEF FromChange
  <2> QED BY <1>1, <1>2, <2>3 DEF FromRoot
<1>4. Whole(WindowCount) \in Nat /\ Whole(WindowCount) <= WindowCount + 2
  BY <1>1, WholeLoop
<1>5. StepsLeft = 1 + Whole(WindowCount) + FromRoot
  BY DEF Init, StepsLeft
<1> QED BY <1>1, <1>3, <1>4, <1>5 DEF StepsBound

\* Every step of the run leaves fewer to take.
LEMMA StepsShrink ==
  ASSUME IInv, IInv', Next
  PROVE  StepsLeft' < StepsLeft
<1> DEFINE slots == SlotCount
           recipients == RecipientCount
           payloads == PayloadCount
           windows == WindowCount
           bounds == {slots, recipients, payloads, windows}
<1>1. \A bound \in bounds :
        /\ LoopSteps(bound, i) \in Nat \ {0}
        /\ Whole(bound) \in Nat \ {0}
        /\ i <= bound => /\ LoopSteps(bound, i + 1) < LoopSteps(bound, i)
                         /\ LoopSteps(bound, i + 1) \in Nat
  <2> SUFFICES ASSUME NEW bound \in bounds
               PROVE  /\ LoopSteps(bound, i) \in Nat \ {0}
                      /\ Whole(bound) \in Nat \ {0}
                      /\ i <= bound => /\ LoopSteps(bound, i + 1) < LoopSteps(bound, i)
                                       /\ LoopSteps(bound, i + 1) \in Nat
    OBVIOUS
  <2>1. bound \in Int /\ i \in Nat \ {0} /\ i + 1 \in Nat \ {0}
    BY Counts
  <2> QED BY <2>1, LoopShrinks, WholeLoop
<1>2. /\ w' = w /\ pc \in Blocks
      /\ SlotCount' = slots /\ RecipientCount' = recipients
      /\ PayloadCount' = payloads /\ WindowCount' = windows
  <2>1. w' = w /\ pc \in Blocks
    BY DEF Next, CheckLabel, CheckRoot, CheckChange, CheckConservation, Check,
       Abort, GoTo, CheckPubkeyWindow, CheckSignerSlot, SumRecipient,
       SumPayload, VerifySignature, InLoop, PubkeysSorted, SignersDone,
       RecipientsDone, PayloadsDone, CommitJournal, LoopDone
  <2> QED BY <2>1 DEF SlotCount, RecipientCount, PayloadCount, WindowCount
<1>3. CASE pc' = "aborted"
  <2>1. StepsLeft' = 0
    BY <1>3 DEF StepsLeft
  <2>2. StepsLeft \in Nat \ {0}
    BY <1>2, StepsInNat DEF Blocks, Final
  <2> QED BY <2>1, <2>2
<1>4. CASE pc' # "aborted"
  <2>1. \/ pc = "label" /\ pc' = "pubkeys" /\ i' = 1
        \/ pc = "pubkeys" /\ pc' = "pubkeys" /\ i <= windows /\ i' = i + 1
        \/ pc = "pubkeys" /\ pc' = "root"
        \/ pc = "root" /\ pc' = "signers" /\ i' = 1
        \/ pc = "signers" /\ pc' = "signers" /\ i <= slots /\ i' = i + 1
        \/ pc = "signers" /\ pc' = "change"
        \/ pc = "change" /\ pc' = "recipients" /\ i' = 1
        \/ pc = "recipients" /\ pc' = "recipients" /\ i <= recipients /\ i' = i + 1
        \/ pc = "recipients" /\ pc' = "payloads" /\ i' = 1
        \/ pc = "payloads" /\ pc' = "payloads" /\ i <= payloads /\ i' = i + 1
        \/ pc = "payloads" /\ pc' = "conservation"
        \/ pc = "conservation" /\ pc' = "signatures" /\ i' = 1
        \/ pc = "signatures" /\ pc' = "signatures" /\ i <= slots /\ i' = i + 1
        \/ pc = "signatures" /\ pc' = "committed"
    BY <1>4 DEF Next, CheckLabel, CheckRoot, CheckChange, CheckConservation, Check,
       Abort, GoTo, CheckPubkeyWindow, CheckSignerSlot, SumRecipient,
       SumPayload, VerifySignature, InLoop, PubkeysSorted, SignersDone,
       RecipientsDone, PayloadsDone, CommitJournal, LoopDone, SlotCount,
       RecipientCount, PayloadCount, WindowCount
  <2>2. /\ FromConservation' = FromConservation /\ FromPayloads' = FromPayloads
        /\ FromChange' = FromChange /\ FromRoot' = FromRoot
    BY <1>2 DEF FromConservation, FromPayloads, FromChange, FromRoot, Whole, LoopSteps
  <2>3. \A bound \in bounds :
          /\ i' = 1 => LoopSteps(bound, i') = Whole(bound)
          /\ i' = i + 1 /\ i <= bound => /\ LoopSteps(bound, i') \in Nat
                                        /\ LoopSteps(bound, i') < LoopSteps(bound, i)
    BY <1>1 DEF Whole
  <2>4. CASE pc \in {"label", "pubkeys"}
    <3>1. /\ pc = "label" => StepsLeft = 1 + Whole(windows) + FromRoot
          /\ pc = "pubkeys" => StepsLeft = LoopSteps(windows, i) + FromRoot
      BY DEF StepsLeft
    <3>2. /\ pc' = "pubkeys" => StepsLeft' = LoopSteps(windows, i') + FromRoot
          /\ pc' = "root" => StepsLeft' = FromRoot
      BY <1>2, <2>2 DEF StepsLeft, LoopSteps
    <3> QED BY <2>1, <2>3, <2>4, <3>1, <3>2, PartsPositive
  <2>5. CASE pc \in {"root", "signers"}
    <3>1. /\ pc = "root" => StepsLeft = 1 + Whole(slots) + FromChange
          /\ pc = "signers" => StepsLeft = LoopSteps(slots, i) + FromChange
      BY DEF StepsLeft, FromRoot
    <3>2. /\ pc' = "signers" => StepsLeft' = LoopSteps(slots, i') + FromChange
          /\ pc' = "change" => StepsLeft' = FromChange
      BY <1>2, <2>2 DEF StepsLeft, LoopSteps
    <3> QED BY <2>1, <2>3, <2>5, <3>1, <3>2, PartsPositive
  <2>6. CASE pc \in {"change", "recipients"}
    <3>1. /\ pc = "change" => StepsLeft = 1 + Whole(recipients) + FromPayloads
          /\ pc = "recipients" => StepsLeft = LoopSteps(recipients, i) + FromPayloads
      BY DEF StepsLeft, FromChange
    <3>2. /\ pc' = "recipients" => StepsLeft' = LoopSteps(recipients, i') + FromPayloads
          /\ pc' = "payloads" => StepsLeft' = LoopSteps(payloads, i') + FromConservation
      BY <1>2, <2>2 DEF StepsLeft, LoopSteps
    <3>3. FromPayloads = Whole(payloads) + FromConservation
      BY DEF FromPayloads
    <3> QED BY <2>1, <2>3, <2>6, <3>1, <3>2, <3>3, PartsPositive
  <2>7. CASE pc \in {"payloads", "conservation", "signatures"}
    <3>1. /\ pc = "payloads" => StepsLeft = LoopSteps(payloads, i) + FromConservation
          /\ pc = "conservation" => StepsLeft = 1 + Whole(slots)
          /\ pc = "signatures" => StepsLeft = LoopSteps(slots, i)
      BY DEF StepsLeft, FromConservation
    <3>2. /\ pc' = "payloads" => StepsLeft' = LoopSteps(payloads, i') + FromConservation
          /\ pc' = "conservation" => StepsLeft' = FromConservation
          /\ pc' = "signatures" => StepsLeft' = LoopSteps(slots, i')
          /\ pc' = "committed" => StepsLeft' = 0
      BY <1>2, <2>2 DEF StepsLeft, LoopSteps
    <3> QED BY <2>1, <2>3, <2>7, <3>1, <3>2, PartsPositive
  <2> QED BY <1>2, <2>4, <2>5, <2>6, <2>7 DEF Blocks
<1> QED BY <1>3, <1>4

\* A run ends, after a number of checks that is linear in the lists of its
\* witness (the loops of constrain.rs:135-275): it starts with at most
\* StepsBound steps to take, every step leaves fewer, and none are left only
\* in the two final states.  With Implementation, an authorised witness can
\* end nowhere but in "committed".
THEOREM RunsEnd ==
  Spec => /\ StepsLeft <= StepsBound
          /\ [](StepsLeft \in Nat /\ (StepsLeft = 0 <=> pc \in Final))
          /\ [][StepsLeft' < StepsLeft]_vars
<1>1. IInv /\ Init => StepsLeft <= StepsBound
  BY StepsAtStart
<1>2. IInv => StepsLeft \in Nat /\ (StepsLeft = 0 <=> pc \in Final)
  BY StepsInNat
<1>3. IInv /\ IInv' /\ [Next]_vars => [StepsLeft' < StepsLeft]_vars
  BY StepsShrink
<1> QED BY Inductive, <1>1, <1>2, <1>3, PTL DEF Spec

=============================================================================
