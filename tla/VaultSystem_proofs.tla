------------------------- MODULE VaultSystem_proofs -------------------------
(***************************************************************************)
(* The vaults over one custody, for every number of vaults, signers and    *)
(* depositors: balances stay natural, what was executed was approved, the  *)
(* custody is accounted for, the vaults implement their ledger, and        *)
(* approved spends go through.                                             *)
(*                                                                         *)
(* IInv says what notes, nullifiers, approvals and executed proposals are  *)
(* made of: a nonce descends from a deposit or from a spent note, and a    *)
(* nullifier is of a note or of an ephemeral used with one.  Covered adds  *)
(* up what the vaults own.  It needs IInv: a created note must be new, and *)
(* the spent one unspent, for the sums to change by what is moved.         *)
(***************************************************************************)
EXTENDS VaultSystem, DataTheorems

-----------------------------------------------------------------------------
(* Labels. *)

\* What LabelPreimage::new makes sure of.
LEMMA LabelFacts ==
  ASSUME NEW v \in Vaults
  PROVE  /\ Pubkeys[v] \in Seq(Nat)
         /\ Len(Pubkeys[v]) \in 1 .. 32
         /\ Label[v].k \in 1 .. Len(Pubkeys[v])
         /\ Label[v].n = Len(Pubkeys[v])
         /\ Label[v].pubkey_root = pubkey_root_of(Pubkeys[v])
         /\ Label[v].token_addr = Token
         /\ Label[v].salt # Zero
         /\ StrictlyAscending(Pubkeys[v])
<1>1. /\ Pubkeys[v] \in Seq(Nat)
      /\ LabelError(Label[v].k, Pubkeys[v], Label[v].salt) = "none"
      /\ Label[v] = LabelPreimage(Token, Label[v].k, Pubkeys[v], Label[v].salt)
  BY VaultsAssumption
<1>2. /\ Len(Pubkeys[v]) \in 1 .. 32
      /\ Label[v].k \in 1 .. Len(Pubkeys[v])
      /\ Label[v].salt # Zero
      /\ StrictlyAscending(Pubkeys[v])
  BY <1>1 DEF LabelError
<1>3. /\ Label[v].n = Len(Pubkeys[v])
      /\ Label[v].pubkey_root = pubkey_root_of(Pubkeys[v])
      /\ Label[v].token_addr = Token
  <2> DEFINE l == LabelPreimage(Token, Label[v].k, Pubkeys[v], Label[v].salt)
  <2>1. /\ l.n = Len(Pubkeys[v])
        /\ l.pubkey_root = pubkey_root_of(Pubkeys[v])
        /\ l.token_addr = Token
    BY DEF LabelPreimage
  <2> HIDE DEF l
  <2> QED BY <1>1, <2>1 DEF l
<1> QED BY <1>1, <1>2, <1>3

\* Pubkeys ascend pairwise, not only from one to the next.
LEMMA PubkeysAscend ==
  ASSUME NEW v \in Vaults
  PROVE  AscendingBelow(Pubkeys[v], Len(Pubkeys[v]))
<1> DEFINE s == Pubkeys[v]
<1>1. s \in Seq(Nat) /\ StrictlyAscending(s)
  BY LabelFacts
<1> HIDE DEF s
<1>2. AscendingBelow(s, Len(s))
  BY <1>1, NeighboursAscend DEF StrictlyAscending, AscendingBelow
<1> QED BY <1>2 DEF s

\* A label reference is of one vault.
LEMMA LabelRefInjective ==
  ASSUME NEW u \in Vaults, NEW v \in Vaults,
         label_ref(Label[u]) = label_ref(Label[v])
  PROVE  u = v
BY VaultsAssumption DEF label_ref, encode_label, Sha256

\* k ascending positions in an ascending list of keys name k different keys.
LEMMA KDifferentKeys ==
  ASSUME NEW s \in Seq(Nat), AscendingBelow(s, Len(s)), NEW k \in Nat,
         NEW at, \A j \in 1 .. k : at[j] \in 1 .. Len(s), AscendingBelow(at, k),
         NEW T, IsFiniteSet(T), \A j \in 1 .. k : s[at[j]] \in T
  PROVE  Cardinality(T) >= k
<1> DEFINE key == [j \in 1 .. k |-> s[at[j]]]
<1>1. ASSUME NEW a \in 1 .. k, NEW b \in 1 .. k, a # b
      PROVE  s[at[a]] # s[at[b]]
  <2>1. \A i \in 1 .. Len(s) : s[i] \in Nat
    OBVIOUS
  <2>2. at[a] < at[b] \/ at[b] < at[a]
    <3>1. a < b \/ b < a
      BY <1>1
    <3> QED BY <3>1 DEF AscendingBelow
  <2>3. s[at[a]] < s[at[b]] \/ s[at[b]] < s[at[a]]
    BY <2>2 DEF AscendingBelow
  <2> QED BY <2>1, <2>3
<1>2. key \in Injection(1 .. k, T)
  BY <1>1 DEF Injection, IsInjective
<1>3. Cardinality(1 .. k) = k
  <2>1. k \in Int /\ 1 \in Int
    OBVIOUS
  <2>2. Cardinality(1 .. k) = IF 1 > k THEN 0 ELSE k - 1 + 1
    BY <2>1, FS_Interval
  <2> QED BY <2>2
<1>4. Cardinality(1 .. k) <= Cardinality(T)
  <2> HIDE DEF key
  <2> QED BY <1>2, FS_Injection
<1>5. Cardinality(T) \in Nat
  BY FS_CardinalityType
<1> QED BY <1>3, <1>4, <1>5

-----------------------------------------------------------------------------
(* Resources and their nullifiers. *)

\* The resource a nullifier is of.
NullifiedBy(x) == x[2][2]

\* The nullifier of an ephemeral of vault v.
EphemeralNullifier(v, quantity, nonce) ==
  nullifier(Resource(v, WRAP_V1, quantity, nonce, TRUE), nullifier_key(Label[v]))

\* A nullifier tells its resource.
LEMMA NullifierFields ==
  /\ \A n : /\ NullifiedBy(NullifierOf(n)) = NoteResource(n)
            /\ NullifiedBy(NullifierOf(n)).is_ephemeral = FALSE
            /\ NullifiedBy(NullifierOf(n)).nonce = n.nonce
  /\ \A v, q, nonce :
       /\ NullifiedBy(EphemeralNullifier(v, q, nonce)).is_ephemeral = TRUE
       /\ NullifiedBy(EphemeralNullifier(v, q, nonce)).nonce = nonce
       /\ NullifiedBy(EphemeralNullifier(v, q, nonce)).label_ref
            = label_ref(Label[v])
BY DEF NullifiedBy, NullifierOf, NoteResource, EphemeralNullifier, Resource,
       nullifier, Sha256

\* A derived nonce tells the note it comes from, and the part.
LEMMA NoncesDiffer ==
  /\ \A i, j : DepositNonce(i) = DepositNonce(j) => i = j
  /\ \A j, x, part : DepositNonce(j) # Derived(x, part)
  /\ \A x, y, part, role :
       Derived(x, part) = Derived(y, role) => x = y /\ part = role
  /\ \A j : Len(DepositNonce(j)) = 1
  /\ \A x, part : Len(Derived(x, part)) = 2
BY DEF DepositNonce, Derived

-----------------------------------------------------------------------------
(* The calls of a transaction.                                             *)

Start == [error |-> Accepted, bal |-> balance, allow |-> allowance]

\* What one more call makes of the state before it.
Step(state, c) ==
  IF state.error # Accepted THEN state ELSE Call(state, c.logic_ref, c.blob)

\* h is the states between the calls.
Follows(h, calls, n) ==
  \A j \in 0 .. n : h[j] = IF j = 0 THEN Start ELSE Step(h[j - 1], calls[j])

\* The recursion of Calls, for a transaction of n calls.
LEMMA CallsFollow ==
  ASSUME NEW tx, NEW n \in Nat, Len(CallsOf(tx)) = n,
         NEW R, NEW g \in [0 .. n -> R], Follows(g, CallsOf(tx), n)
  PROVE  \E h : Follows(h, CallsOf(tx), n) /\ Calls(tx) = h[n]
<1> DEFINE calls == CallsOf(tx)
           after == CHOOSE h : h = [j \in 0 .. Len(calls) |->
             IF j = 0 THEN [error |-> Accepted, bal |-> balance, allow |-> allowance]
             ELSE IF h[j - 1].error # Accepted THEN h[j - 1]
             ELSE Call(h[j - 1], calls[j].logic_ref, calls[j].blob)]
<1>1. Calls(tx) = after[Len(calls)]
  BY DEF Calls
<1> HIDE DEF calls
<1>2. Len(calls) = n /\ Follows(g, calls, n)
  BY DEF calls
<1>3. after = [j \in 0 .. Len(calls) |->
             IF j = 0 THEN [error |-> Accepted, bal |-> balance, allow |-> allowance]
             ELSE IF after[j - 1].error # Accepted THEN after[j - 1]
             ELSE Call(after[j - 1], calls[j].logic_ref, calls[j].blob)]
  <2>1. g = [j \in 0 .. Len(calls) |->
             IF j = 0 THEN [error |-> Accepted, bal |-> balance, allow |-> allowance]
             ELSE IF g[j - 1].error # Accepted THEN g[j - 1]
             ELSE Call(g[j - 1], calls[j].logic_ref, calls[j].blob)]
    BY <1>2 DEF Follows, Start, Step
  <2> QED BY <2>1
<1> HIDE DEF after
<1>4. Follows(after, calls, n)
  BY <1>2, <1>3 DEF Follows, Start, Step
<1> QED BY <1>1, <1>2, <1>4 DEF calls

\* One call.
LEMMA OneCall ==
  ASSUME NEW tx, NEW a, CallsOf(tx) = <<a>>
  PROVE  Calls(tx) = Step(Start, a)
<1> DEFINE n == 1
           calls == CallsOf(tx)
           g == [j \in 0 .. 1 |-> IF j = 0 THEN Start ELSE Step(Start, a)]
           R == {g[j] : j \in 0 .. n}
<1>1. n \in Nat /\ Len(calls) = n /\ calls[1] = a /\ g \in [0 .. n -> R]
  OBVIOUS
<1> HIDE DEF calls
<1>2. Follows(g, calls, n)
  BY <1>1 DEF Follows
<1> HIDE DEF g, n, R
<1>3. PICK h : Follows(h, CallsOf(tx), n) /\ Calls(tx) = h[n]
  BY <1>1, <1>2, CallsFollow DEF calls
<1>4. h[0] = Start /\ h[1] = Step(h[0], calls[1])
  BY <1>3 DEF n, Follows, calls
<1> QED BY <1>1, <1>3, <1>4 DEF n

\* Two calls.
LEMMA TwoCalls ==
  ASSUME NEW tx, NEW a, NEW b, CallsOf(tx) = <<a, b>>
  PROVE  Calls(tx) = Step(Step(Start, a), b)
<1> DEFINE n == 2
           calls == CallsOf(tx)
           g == [j \in 0 .. 2 |-> IF j = 0 THEN Start
                                  ELSE IF j = 1 THEN Step(Start, a)
                                  ELSE Step(Step(Start, a), b)]
           R == {g[j] : j \in 0 .. n}
<1>1. /\ n \in Nat /\ Len(calls) = n /\ calls[1] = a /\ calls[2] = b
      /\ g \in [0 .. n -> R]
  OBVIOUS
<1> HIDE DEF calls
<1>2. Follows(g, calls, n)
  BY <1>1 DEF Follows
<1> HIDE DEF g, n, R
<1>3. PICK h : Follows(h, CallsOf(tx), n) /\ Calls(tx) = h[n]
  BY <1>1, <1>2, CallsFollow DEF calls
<1>4. /\ h[0] = Start /\ h[1] = Step(h[0], calls[1])
      /\ h[2] = Step(h[1], calls[2])
  BY <1>3 DEF n, Follows, calls
<1> QED BY <1>1, <1>3, <1>4 DEF n

\* Three calls.
LEMMA ThreeCalls ==
  ASSUME NEW tx, NEW a, NEW b, NEW c, CallsOf(tx) = <<a, b, c>>
  PROVE  Calls(tx) = Step(Step(Step(Start, a), b), c)
<1> DEFINE n == 3
           calls == CallsOf(tx)
           g == [j \in 0 .. 3 |-> IF j = 0 THEN Start
                                  ELSE IF j = 1 THEN Step(Start, a)
                                  ELSE IF j = 2 THEN Step(Step(Start, a), b)
                                  ELSE Step(Step(Step(Start, a), b), c)]
           R == {g[j] : j \in 0 .. n}
<1>1. /\ n \in Nat /\ Len(calls) = n
      /\ calls[1] = a /\ calls[2] = b /\ calls[3] = c
      /\ g \in [0 .. n -> R]
  OBVIOUS
<1> HIDE DEF calls
<1>2. Follows(g, calls, n)
  BY <1>1 DEF Follows
<1> HIDE DEF g, n, R
<1>3. PICK h : Follows(h, CallsOf(tx), n) /\ Calls(tx) = h[n]
  BY <1>1, <1>2, CallsFollow DEF calls
<1>4. /\ h[0] = Start /\ h[1] = Step(h[0], calls[1])
      /\ h[2] = Step(h[1], calls[2]) /\ h[3] = Step(h[2], calls[3])
  BY <1>3 DEF n, Follows, calls
<1> QED BY <1>1, <1>3, <1>4 DEF n

-----------------------------------------------------------------------------
(* What the calls of a spend and of a deposit are.                         *)

\* A wrap of amount tokens of account from.
WrapOf(from, amount) ==
  [logic_ref |-> WRAP_V1,
   blob |-> [outer_ok |-> TRUE, inner_ok |-> TRUE, op |-> "WRAP",
             forwarder |-> WRAP_FORWARDER, token |-> Token,
             from |-> from, amount |-> amount]]

\* A wrap of nothing, as every ephemeral of a spend carries.
WrapOfNothing == WrapOf(CHOOSE d \in Depositors : TRUE, 0)

\* The payout of a spend.
Payout(p) ==
  [logic_ref |-> MULTISIG_V1,
   blob |-> [outer_ok |-> TRUE, inner_ok |-> TRUE,
             forwarder |-> MULTISIG_FORWARDER, token |-> Token,
             to |-> p.payee, amount |-> p.pay]]

\* The calls one carrier makes, in terms of its payload.
CallsOfPart(part) ==
  [l \in DOMAIN part.instance.app_data.external_payload |->
     [logic_ref |-> part.resource.logic_ref,
      blob |-> part.instance.app_data.external_payload[l]]]

\* A list made from a list of one.
LEMMA MappedOne ==
  ASSUME NEW f, NEW s, NEW a, NEW r, s = <<a>>,
         f = [l \in DOMAIN s |-> [logic_ref |-> r, blob |-> s[l]]]
  PROVE  f = <<[logic_ref |-> r, blob |-> a]>>
<1> DEFINE x == [logic_ref |-> r, blob |-> a]
           t == <<x>>
<1>1. DOMAIN s = 1 .. 1 /\ s[1] = a
  OBVIOUS
<1>2. f = [l \in 1 .. 1 |-> x]
  <2> HIDE DEF x
  <2> QED BY <1>1 DEF x
<1>3. t = [l \in 1 .. 1 |-> x]
  <2> HIDE DEF x
  <2> QED OBVIOUS
<1> QED BY <1>2, <1>3

\* A list made from the empty list.
LEMMA MappedNone ==
  ASSUME NEW f, NEW r, f = [l \in DOMAIN <<>> |-> [logic_ref |-> r, blob |-> <<>>[l]]]
  PROVE  f = <<>>
BY DOMAIN <<>> = 1 .. 0

\* An inflow ephemeral makes the one call it wraps with.
LEMMA InflowCalls ==
  ASSUME NEW v, NEW q, NEW nonce, NEW from, NEW amount, NEW root
  PROVE  CallsOfPart(InflowPart(v, q, nonce, from, amount, root))
           = <<WrapOf(from, amount)>>
<1> DEFINE part == InflowPart(v, q, nonce, from, amount, root)
           blob == WrapOf(from, amount).blob
<1>1. /\ part.resource.logic_ref = WRAP_V1
      /\ part.instance.app_data.external_payload = <<blob>>
  BY DEF InflowPart, InflowInstance, LogicInstance, AppData, Resource, WrapOf
<1>2. WrapOf(from, amount) = [logic_ref |-> WRAP_V1, blob |-> blob]
  BY DEF WrapOf
<1> HIDE DEF part, blob
<1>3. CallsOfPart(part) = <<[logic_ref |-> WRAP_V1, blob |-> blob]>>
  BY <1>1, MappedOne DEF CallsOfPart
<1> QED BY <1>2, <1>3 DEF part

\* The spent note makes the payout, if there is one.
LEMMA SpendPartCalls ==
  ASSUME NEW p, NEW chosen
  PROVE  CallsOfPart(SpendPart(p, chosen))
           = IF p.pay = 0 THEN <<>> ELSE <<Payout(p)>>
<1> DEFINE part == SpendPart(p, chosen)
           blob == Payout(p).blob
<1>1. /\ part.resource.logic_ref = MULTISIG_V1
      /\ part.instance.app_data.external_payload = TransferPayload(p)
  BY DEF SpendPart, SignedWitness, UnsignedWitness, ConsumedInstance,
         LogicInstance, AppData, NoteResource, Resource
<1>2. Payout(p) = [logic_ref |-> MULTISIG_V1, blob |-> blob]
  BY DEF Payout
<1>3. TransferPayload(p) = IF p.pay = 0 THEN <<>> ELSE <<blob>>
  BY DEF TransferPayload, Payout
<1> HIDE DEF part, blob
<1>4. CASE p.pay = 0
  <2>1. part.instance.app_data.external_payload = <<>>
    BY <1>1, <1>3, <1>4
  <2>2. CallsOfPart(part) = <<>>
    BY <2>1, MappedNone DEF CallsOfPart
  <2> QED BY <1>4, <2>2 DEF part
<1>5. CASE p.pay # 0
  <2>1. part.instance.app_data.external_payload = <<blob>>
    BY <1>1, <1>3, <1>5
  <2>2. CallsOfPart(part) = <<[logic_ref |-> MULTISIG_V1, blob |-> blob]>>
    BY <1>1, <2>1, MappedOne DEF CallsOfPart
  <2> QED BY <1>2, <1>5, <2>2 DEF part
<1> QED BY <1>4, <1>5

\* The calls of a transaction, carrier by carrier.
LEMMA CallsByPart ==
  ASSUME NEW tx
  PROVE  CallsOf(tx)
           = FlattenSeq([j \in DOMAIN tx.consumed |-> CallsOfPart(tx.consumed[j])])
BY DEF CallsOf, CallsOfPart

\* A deposit makes one call, the wrap.
LEMMA DepositCallList ==
  ASSUME NEW note, NEW from, NEW amount
  PROVE  CallsOf(DepositTransaction(note, from, amount)) = <<WrapOf(from, amount)>>
<1> DEFINE root == action_tree_root_of({commitment(NoteResource(note))})
           part == InflowPart(note.vault, note.quantity,
                              Derived(note.nonce, "inflow"), from,
                              amount, root)
           parts == DepositTransaction(note, from, amount).consumed
           lists == [j \in DOMAIN parts |-> CallsOfPart(parts[j])]
<1>1. parts = <<part>>
  BY DEF DepositTransaction
<1>2. CallsOfPart(part) = <<WrapOf(from, amount)>>
  BY InflowCalls
<1> HIDE DEF part, parts
<1>3. Len(lists) = 1 /\ lists[1] = CallsOfPart(part)
  BY <1>1
<1>4. CallsOf(DepositTransaction(note, from, amount)) = FlattenSeq(lists)
  BY CallsByPart DEF parts
<1> HIDE DEF lists
<1> QED BY <1>2, <1>3, <1>4, FlattenOne

\* A spend pays out, if it pays, and wraps nothing once or twice.
LEMMA SpendCallList ==
  ASSUME NEW p, NEW chosen
  PROVE  CallsOf(SpendTransaction(p, chosen))
           = IF p.give = 0
             THEN IF p.pay = 0 THEN <<WrapOfNothing>>
                  ELSE <<Payout(p), WrapOfNothing>>
             ELSE IF p.pay = 0 THEN <<WrapOfNothing, WrapOfNothing>>
                  ELSE <<Payout(p), WrapOfNothing, WrapOfNothing>>
<1> DEFINE root == ActionTreeRoot(p)
           anyone == CHOOSE d \in Depositors : TRUE
           spend == SpendPart(p, chosen)
           nothing == InflowPart(p.note.vault, 0, Derived(p.note.nonce, "zero"),
                                 anyone, 0, root)
           given == InflowPart(p.to, p.give, Derived(p.note.nonce, "given"),
                               anyone, 0, root)
           parts == SpendTransaction(p, chosen).consumed
           lists == [j \in DOMAIN parts |-> CallsOfPart(parts[j])]
           W == WrapOfNothing
           first == IF p.pay = 0 THEN <<>> ELSE <<Payout(p)>>
<1>1. parts = IF p.give = 0 THEN <<spend, nothing>> ELSE <<spend, nothing, given>>
  BY DEF SpendTransaction
<1>2. CallsOfPart(spend) = first
  BY SpendPartCalls
<1>3. CallsOfPart(nothing) = <<W>> /\ CallsOfPart(given) = <<W>>
  BY InflowCalls DEF WrapOfNothing
<1>4. CallsOf(SpendTransaction(p, chosen)) = FlattenSeq(lists)
  BY CallsByPart
<1>5. first \o <<W>> = IF p.pay = 0 THEN <<W>> ELSE <<Payout(p), W>>
  BY JoinNoneOne, JoinOneOne
<1>6. (first \o <<W>>) \o <<W>>
        = IF p.pay = 0 THEN <<W, W>> ELSE <<Payout(p), W, W>>
  BY <1>5, JoinOneOne, JoinTwoOne
<1> HIDE DEF spend, nothing, given, parts, W, first
<1>7. CASE p.give = 0
  <2>1. Len(lists) = 2 /\ lists[1] = first /\ lists[2] = <<W>>
    BY <1>1, <1>2, <1>3, <1>7
  <2> HIDE DEF lists
  <2>2. FlattenSeq(lists) = first \o <<W>>
    BY <2>1, FlattenTwo
  <2> QED BY <1>4, <1>5, <1>7, <2>2 DEF W
<1>8. CASE p.give # 0
  <2>1. Len(lists) = 3 /\ lists[1] = first /\ lists[2] = <<W>> /\ lists[3] = <<W>>
    BY <1>1, <1>2, <1>3, <1>8
  <2> HIDE DEF lists
  <2>2. FlattenSeq(lists) = (first \o <<W>>) \o <<W>>
    BY <2>1, FlattenThree
  <2> QED BY <1>4, <1>6, <1>8, <2>2 DEF W
<1> QED BY <1>7, <1>8

-----------------------------------------------------------------------------
(* What the calls do to the balances. *)

BalancesTyped ==
  /\ balance \in [{Token} \X Accounts -> Nat]
  /\ allowance \in [{Token} \X Depositors -> Nat]

\* bal is balance after amount tokens went from one account to the other.
MovedTo(bal, from, to, amount) ==
  /\ bal \in [{Token} \X Accounts -> Nat]
  /\ \A a \in Accounts :
       bal[<<Token, a>>] = balance[<<Token, a>>]
                             - (IF a = from THEN amount ELSE 0)
                             + (IF a = to THEN amount ELSE 0)

\* Transferred moves tokens, from an account that has them.
LEMMA TransferMoves ==
  ASSUME BalancesTyped, NEW from \in Accounts, NEW to \in Accounts,
         NEW amount \in Nat, amount <= balance[<<Token, from>>]
  PROVE  MovedTo(Chain!Transferred(balance, Token, from, to, amount),
                 from, to, amount)
<1> DEFINE paid == [balance EXCEPT ![<<Token, from>>] = @ - amount]
           after == [paid EXCEPT ![<<Token, to>>] = @ + amount]
<1>1. /\ <<Token, from>> \in {Token} \X Accounts
      /\ <<Token, to>> \in {Token} \X Accounts
      /\ balance \in [{Token} \X Accounts -> Nat]
  BY DEF BalancesTyped
<1>2. paid \in [{Token} \X Accounts -> Nat]
  BY <1>1
<1>3. after \in [{Token} \X Accounts -> Nat]
  BY <1>1, <1>2
<1>4. ASSUME NEW a \in Accounts
      PROVE  after[<<Token, a>>] = balance[<<Token, a>>]
                             - (IF a = from THEN amount ELSE 0)
                             + (IF a = to THEN amount ELSE 0)
  <2>1. <<Token, a>> \in {Token} \X Accounts
    OBVIOUS
  <2>2. balance[<<Token, a>>] \in Nat
    BY <1>1, <2>1
  <2>3. paid[<<Token, a>>] = balance[<<Token, a>>] - (IF a = from THEN amount ELSE 0)
    BY <1>1, <2>1, <2>2
  <2>4. paid[<<Token, a>>] \in Nat
    BY <1>2, <2>1
  <2> HIDE DEF paid
  <2>5. after[<<Token, a>>] = paid[<<Token, a>>] + (IF a = to THEN amount ELSE 0)
    BY <1>1, <1>2, <2>1, <2>4
  <2> QED BY <2>3, <2>5
<1>5. Chain!Transferred(balance, Token, from, to, amount) = after
  BY DEF Chain!Transferred
<1> HIDE DEF after
<1> QED BY <1>3, <1>4, <1>5 DEF MovedTo

\* A transfer of nothing changes nothing.
LEMMA NothingMoves ==
  ASSUME NEW bal \in [{Token} \X Accounts -> Nat],
         NEW from \in Accounts, NEW to \in Accounts
  PROVE  Chain!Transferred(bal, Token, from, to, 0) = bal
<1> DEFINE paid == [bal EXCEPT ![<<Token, from>>] = @ - 0]
<1>1. /\ <<Token, from>> \in {Token} \X Accounts
      /\ <<Token, to>> \in {Token} \X Accounts
      /\ bal[<<Token, from>>] \in Nat /\ bal[<<Token, to>>] \in Nat
  OBVIOUS
<1>2. paid = bal
  BY <1>1
<1>3. [bal EXCEPT ![<<Token, to>>] = @ + 0] = bal
  BY <1>1
<1> QED BY <1>2, <1>3 DEF Chain!Transferred

\* A state between two calls.
State(error, bal, allow) == [error |-> error, bal |-> bal, allow |-> allow]

\* What an account has of the token, or allows to take of it.
Held(bal, account) == bal[<<Token, account>>]

\* The allowances when one account has used amount of its own.
Used(allow, from, amount) == [allow EXCEPT ![<<Token, from>>] = @ - amount]

\* A wrap that goes through moves the tokens it names, which the depositor
\* has and lets the WrapForwarder take.
LEMMA WrapStep ==
  ASSUME NEW bal, NEW allow, NEW from, NEW amount \in Nat,
         Step(State(Accepted, bal, allow), WrapOf(from, amount)).error = Accepted
  PROVE  /\ WRAP_V1 = WrapForwarderLogicRef
         /\ Held(bal, from) >= amount
         /\ ~(Held(allow, from) < amount)
         /\ Step(State(Accepted, bal, allow), WrapOf(from, amount))
              = State(Accepted,
                      Chain!Transferred(bal, Token, from, MULTISIG_FORWARDER, amount),
                      Used(allow, from, amount))
<1> DEFINE s == State(Accepted, bal, allow)
           c == WrapOf(from, amount)
           call == Chain!WrapCall(c.blob)
           error == CallError(s, c.logic_ref, c.blob)
<1>1. /\ s.error = Accepted /\ s.bal = bal /\ s.allow = allow
      /\ c.logic_ref = WRAP_V1 /\ c.blob.forwarder # MULTISIG_FORWARDER
      /\ call.decodes = TRUE /\ call.op = "WRAP" /\ call.token = Token
      /\ call.from = from /\ call.amount = amount
  BY AccountsAssumption DEF State, WrapOf, Chain!WrapCall
<1>2. Step(s, c) = Call(s, c.logic_ref, c.blob)
  BY <1>1 DEF Step
<1>3. error = Chain!WrapForwardError(PA, WRAP_V1, call, bal, allow)
  BY <1>1 DEF CallError
<1>4. ASSUME error # Accepted PROVE FALSE
  <2>1. Call(s, c.logic_ref, c.blob) = [s EXCEPT !.error = error]
    BY <1>4 DEF Call
  <2>2. [s EXCEPT !.error = error].error = error
    BY DEF State
  <2> QED BY <1>2, <1>4, <2>1, <2>2
<1>5. Call(s, c.logic_ref, c.blob)
        = [s EXCEPT !.bal = Chain!WrapForwardBalance(call, @),
                    !.allow = Chain!WrapForwardAllowance(call, @)]
  BY <1>1, <1>4 DEF Call
<1>6. Call(s, c.logic_ref, c.blob)
        = State(Accepted, Chain!WrapForwardBalance(call, bal),
                          Chain!WrapForwardAllowance(call, allow))
  <2> HIDE DEF call
  <2> QED BY <1>5 DEF State
<1> HIDE DEF call, s, c, error
<1>7. /\ WRAP_V1 = WrapForwarderLogicRef
      /\ Held(bal, from) >= amount
      /\ ~(Held(allow, from) < amount)
  BY <1>1, <1>3, <1>4 DEF Chain!WrapForwardError, Chain!CanTransfer, Accepted, Held
<1>8. /\ Chain!WrapForwardBalance(call, bal)
           = Chain!Transferred(bal, Token, from, MULTISIG_FORWARDER, amount)
      /\ Chain!WrapForwardAllowance(call, allow)
           = Used(allow, from, amount)
  BY <1>1 DEF Chain!WrapForwardBalance, Chain!WrapForwardAllowance, Used
<1> QED BY <1>2, <1>6, <1>7, <1>8 DEF s, c

\* A wrap of nothing leaves everything as it is; it reverts only if the
\* WrapForwarder is deployed for another carrier.
LEMMA WrapOfNothingStep ==
  ASSUME NEW bal \in [{Token} \X Accounts -> Nat],
         NEW allow \in [{Token} \X Depositors -> Nat]
  PROVE  LET s == State(Accepted, bal, allow) IN
         /\ Step(s, WrapOfNothing).error = Accepted => Step(s, WrapOfNothing) = s
         /\ WRAP_V1 = WrapForwarderLogicRef =>
              Step(s, WrapOfNothing).error = Accepted
<1> DEFINE s == State(Accepted, bal, allow)
           from == CHOOSE d \in Depositors : TRUE
           after == Chain!Transferred(bal, Token, from, MULTISIG_FORWARDER, 0)
           left == Used(allow, from, 0)
<1>1. from \in Depositors
  BY AccountsAssumption
<1> HIDE DEF from
<1>2. /\ from \in Accounts /\ MULTISIG_FORWARDER \in Accounts
      /\ <<Token, from>> \in {Token} \X Accounts
      /\ <<Token, from>> \in {Token} \X Depositors
  BY <1>1 DEF Accounts
<1>3. bal[<<Token, from>>] \in Nat /\ allow[<<Token, from>>] \in Nat
  BY <1>2
<1>4. after = bal
  BY <1>2, NothingMoves
<1>5. left = allow
  BY <1>2, <1>3 DEF Used
<1>6. WrapOfNothing = WrapOf(from, 0)
  BY DEF WrapOfNothing, from
<1>7. ASSUME Step(s, WrapOfNothing).error = Accepted PROVE Step(s, WrapOfNothing) = s
  <2>1. Step(s, WrapOf(from, 0)) = State(Accepted, after, left)
    <3> DEFINE zero == 0
    <3>1. /\ Step(State(Accepted, bal, allow), WrapOf(from, zero)).error = Accepted
          /\ zero \in Nat
      BY <1>6, <1>7
    <3> HIDE DEF zero
    <3>2. Step(State(Accepted, bal, allow), WrapOf(from, zero))
            = State(Accepted,
                    Chain!Transferred(bal, Token, from, MULTISIG_FORWARDER, zero),
                    Used(allow, from, zero))
      BY <3>1, WrapStep
    <3> QED BY <3>2 DEF zero
  <2> QED BY <1>4, <1>5, <1>6, <2>1
<1>8. ASSUME WRAP_V1 = WrapForwarderLogicRef
      PROVE  Step(s, WrapOfNothing).error = Accepted
  <2> DEFINE c == WrapOf(from, 0)
             call == Chain!WrapCall(c.blob)
  <2>1. /\ s.error = Accepted /\ s.bal = bal /\ s.allow = allow
        /\ c.logic_ref = WRAP_V1 /\ c.blob.forwarder # MULTISIG_FORWARDER
        /\ call.decodes = TRUE /\ call.op = "WRAP" /\ call.token = Token
        /\ call.from = from /\ call.amount = 0
    BY AccountsAssumption DEF State, WrapOf, Chain!WrapCall
  <2>2. CallError(s, c.logic_ref, c.blob)
          = Chain!WrapForwardError(PA, WRAP_V1, call, bal, allow)
    BY <2>1 DEF CallError
  <2>3. Chain!CanTransfer(bal, Token, from, 0) /\ ~(allow[<<Token, from>>] < 0)
    BY <1>3 DEF Chain!CanTransfer
  <2> HIDE DEF call
  <2>4. Chain!WrapForwardError(PA, WRAP_V1, call, bal, allow) = Accepted
    BY <1>8, <2>1, <2>3 DEF Chain!WrapForwardError, Chain!NoRevert, Accepted
  <2>5. Step(s, c) = Call(s, c.logic_ref, c.blob)
    BY <2>1 DEF Step
  <2>6. Call(s, c.logic_ref, c.blob)
          = [s EXCEPT !.bal = Chain!WrapForwardBalance(call, @),
                      !.allow = Chain!WrapForwardAllowance(call, @)]
    BY <2>1, <2>2, <2>4 DEF Call, call
  <2>7. [s EXCEPT !.bal = Chain!WrapForwardBalance(call, @),
                  !.allow = Chain!WrapForwardAllowance(call, @)].error = Accepted
    BY DEF State
  <2> QED BY <1>6, <2>5, <2>6, <2>7
<1> QED BY <1>7, <1>8

\* The payout goes through if the MultisigForwarder is deployed for vault
\* notes and has the tokens, and then moves them.
LEMMA PayoutStep ==
  ASSUME NEW p
  PROVE  LET error == Step(Start, Payout(p)).error IN
         /\ error = Accepted =>
              /\ balance[<<Token, MULTISIG_FORWARDER>>] >= p.pay
              /\ Step(Start, Payout(p))
                   = State(Accepted,
                           Chain!Transferred(balance, Token, MULTISIG_FORWARDER,
                                             p.payee, p.pay),
                           allowance)
         /\ /\ MULTISIG_V1 = MultisigForwarderLogicRef
            /\ balance[<<Token, MULTISIG_FORWARDER>>] >= p.pay
            => error = Accepted
<1> DEFINE c == Payout(p)
           call == Chain!TransferCall(c.blob)
           error == CallError(Start, c.logic_ref, c.blob)
<1>1. /\ Start.error = Accepted /\ Start.bal = balance /\ Start.allow = allowance
      /\ c.logic_ref = MULTISIG_V1 /\ c.blob.forwarder = MULTISIG_FORWARDER
      /\ call.decodes = TRUE /\ call.token = Token
      /\ call.to = p.payee /\ call.amount = p.pay
  BY DEF Start, Payout, Chain!TransferCall
<1>2. Step(Start, c) = Call(Start, c.logic_ref, c.blob)
  BY <1>1 DEF Step
<1>3. error = Chain!MultisigForwardError(PA, MULTISIG_V1, call, balance)
  BY <1>1 DEF CallError
<1>4. CASE error # Accepted
  <2>1. Step(Start, c) = [Start EXCEPT !.error = error]
    BY <1>2, <1>4 DEF Call
  <2>2. [Start EXCEPT !.error = error].error = error
    BY DEF Start
  <2>3. ~ /\ MULTISIG_V1 = MultisigForwarderLogicRef
          /\ balance[<<Token, MULTISIG_FORWARDER>>] >= p.pay
    <3> HIDE DEF call, error
    <3> QED BY <1>1, <1>3, <1>4
        DEF Chain!MultisigForwardError, Chain!CanTransfer, Chain!NoRevert, Accepted
  <2> QED BY <1>4, <2>1, <2>2, <2>3
<1>5. CASE error = Accepted
  <2>1. Step(Start, c)
          = [Start EXCEPT !.bal = Chain!MultisigForwardBalance(call, @)]
    BY <1>1, <1>2, <1>5 DEF Call
  <2>2. Chain!MultisigForwardBalance(call, balance)
          = Chain!Transferred(balance, Token, MULTISIG_FORWARDER, p.payee, p.pay)
    BY <1>1 DEF Chain!MultisigForwardBalance
  <2>3. balance[<<Token, MULTISIG_FORWARDER>>] >= p.pay
    <3> HIDE DEF call, error
    <3> QED BY <1>1, <1>3, <1>5
        DEF Chain!MultisigForwardError, Chain!CanTransfer, Accepted
  <2>4. Step(Start, c)
          = State(Accepted, Chain!MultisigForwardBalance(call, balance), allowance)
    <3> HIDE DEF call, c
    <3> QED BY <2>1 DEF Start, State
  <2>5. Step(Start, c).error = Accepted
    BY <2>4 DEF State
  <2> QED BY <2>2, <2>3, <2>4, <2>5
<1> QED BY <1>4, <1>5

\* The calls of a deposit, when they go through: the depositor had and
\* allowed the tokens, and the forwarder holds them now.
LEMMA DepositCalls ==
  ASSUME BalancesTyped, NEW note, NEW from \in Depositors, NEW amount \in Nat,
         Calls(DepositTransaction(note, from, amount)).error = Accepted
  PROVE  LET after == Calls(DepositTransaction(note, from, amount)) IN
         /\ MovedTo(after.bal, from, MULTISIG_FORWARDER, amount)
         /\ after.allow \in [{Token} \X Depositors -> Nat]
<1> DEFINE tx == DepositTransaction(note, from, amount)
           bal == Chain!Transferred(balance, Token, from, MULTISIG_FORWARDER,
                                    amount)
           allow == Used(allowance, from, amount)
<1>1. Calls(tx) = Step(Start, WrapOf(from, amount))
  BY DepositCallList, OneCall
<1>2. Start = State(Accepted, balance, allowance)
  BY DEF Start, State
<1>3. Step(State(Accepted, balance, allowance), WrapOf(from, amount)).error = Accepted
  BY <1>1, <1>2
<1> HIDE DEF tx
<1>4. /\ balance[<<Token, from>>] >= amount
      /\ ~(allowance[<<Token, from>>] < amount)
      /\ Step(State(Accepted, balance, allowance), WrapOf(from, amount))
           = State(Accepted, bal, allow)
  <2>1. /\ Held(balance, from) >= amount
        /\ ~(Held(allowance, from) < amount)
        /\ Step(State(Accepted, balance, allowance), WrapOf(from, amount))
             = State(Accepted, bal, allow)
    BY <1>3, WrapStep
  <2> QED BY <2>1 DEF Held
<1>5. Calls(tx).bal = bal /\ Calls(tx).allow = allow
  BY <1>1, <1>2, <1>4 DEF State
<1>6. /\ from \in Accounts /\ MULTISIG_FORWARDER \in Accounts
      /\ <<Token, from>> \in {Token} \X Accounts
      /\ <<Token, from>> \in {Token} \X Depositors
  BY DEF Accounts
<1>7. balance[<<Token, from>>] \in Nat /\ allowance[<<Token, from>>] \in Nat
  BY <1>6 DEF BalancesTyped
<1>8. allow \in [{Token} \X Depositors -> Nat]
  <2>1. allowance \in [{Token} \X Depositors -> Nat]
        /\ allowance[<<Token, from>>] - amount \in Nat
    BY <1>3, <1>4, <1>7 DEF BalancesTyped
  <2> QED BY <2>1 DEF Used
<1>9. amount <= balance[<<Token, from>>]
  BY <1>3, <1>4, <1>7
<1>10. MovedTo(bal, from, MULTISIG_FORWARDER, amount)
  BY <1>3, <1>6, <1>9, TransferMoves
<1> QED BY <1>5, <1>8, <1>10 DEF tx

\* The payout of a spend, or nothing.
Paid(p) == IF p.pay = 0 THEN Start ELSE Step(Start, Payout(p))

\* The calls of a spend are its payout, and then calls that change nothing.
LEMMA SpendCallsState ==
  ASSUME NEW p, NEW chosen
  PROVE  Calls(SpendTransaction(p, chosen))
           = IF p.give = 0 THEN Step(Paid(p), WrapOfNothing)
             ELSE Step(Step(Paid(p), WrapOfNothing), WrapOfNothing)
<1> DEFINE tx == SpendTransaction(p, chosen)
<1>1. CallsOf(tx)
        = IF p.give = 0
          THEN IF p.pay = 0 THEN <<WrapOfNothing>>
               ELSE <<Payout(p), WrapOfNothing>>
          ELSE IF p.pay = 0 THEN <<WrapOfNothing, WrapOfNothing>>
               ELSE <<Payout(p), WrapOfNothing, WrapOfNothing>>
  BY SpendCallList
<1> HIDE DEF tx
<1>2. CASE p.give = 0 /\ p.pay = 0
  BY <1>1, <1>2, OneCall DEF Paid, tx
<1>3. CASE p.give = 0 /\ p.pay # 0
  BY <1>1, <1>3, TwoCalls DEF Paid, tx
<1>4. CASE p.give # 0 /\ p.pay = 0
  BY <1>1, <1>4, TwoCalls DEF Paid, tx
<1>5. CASE p.give # 0 /\ p.pay # 0
  BY <1>1, <1>5, ThreeCalls DEF Paid, tx
<1> QED BY <1>2, <1>3, <1>4, <1>5

\* What is paid, and that a failed payout ends it.
LEMMA PaidState ==
  ASSUME BalancesTyped, NEW p, p.pay \in Nat, p.payee \in Payees
  PROVE  /\ Paid(p).error = Accepted =>
              \E bal \in [{Token} \X Accounts -> Nat] :
                /\ Paid(p) = State(Accepted, bal, allowance)
                /\ MovedTo(bal, MULTISIG_FORWARDER, p.payee, p.pay)
                /\ p.pay <= Custody
         /\ MULTISIG_V1 = MultisigForwarderLogicRef /\ p.pay <= Custody =>
              Paid(p).error = Accepted
<1>1. /\ MULTISIG_FORWARDER \in Accounts /\ p.payee \in Accounts
      /\ <<Token, MULTISIG_FORWARDER>> \in {Token} \X Accounts
  BY DEF Accounts
<1>2. Custody \in Nat /\ Custody = balance[<<Token, MULTISIG_FORWARDER>>]
  BY <1>1 DEF BalancesTyped, Custody
<1>3. CASE p.pay = 0
  <2>1. Paid(p) = State(Accepted, balance, allowance)
    BY <1>3 DEF Paid, Start, State
  <2>2. MovedTo(balance, MULTISIG_FORWARDER, p.payee, p.pay)
    <3> SUFFICES ASSUME NEW a \in Accounts
                 PROVE  balance[<<Token, a>>] = balance[<<Token, a>>]
                           - (IF a = MULTISIG_FORWARDER THEN p.pay ELSE 0)
                           + (IF a = p.payee THEN p.pay ELSE 0)
      BY DEF MovedTo, BalancesTyped
    <3>1. balance[<<Token, a>>] \in Nat
      BY DEF BalancesTyped
    <3> QED BY <1>3, <3>1
  <2>3. p.pay <= Custody /\ balance \in [{Token} \X Accounts -> Nat]
    BY <1>2, <1>3 DEF BalancesTyped
  <2>4. State(Accepted, balance, allowance).error = Accepted
    BY DEF State
  <2> QED BY <2>1, <2>2, <2>3, <2>4
<1>4. CASE p.pay # 0
  <2> DEFINE bal == Chain!Transferred(balance, Token, MULTISIG_FORWARDER,
                                      p.payee, p.pay)
  <2>1. Paid(p) = Step(Start, Payout(p))
    BY <1>4 DEF Paid
  <2>2. ASSUME Paid(p).error = Accepted
        PROVE  Paid(p) = State(Accepted, bal, allowance) /\ p.pay <= Custody
    <3>1. balance[<<Token, MULTISIG_FORWARDER>>] >= p.pay
      BY <2>1, <2>2, PayoutStep
    <3>2. Paid(p) = State(Accepted, bal, allowance)
      BY <2>1, <2>2, PayoutStep
    <3> QED BY <1>2, <3>1, <3>2
  <2>3. ASSUME p.pay <= Custody
        PROVE  MovedTo(bal, MULTISIG_FORWARDER, p.payee, p.pay)
    <3> DEFINE amount == p.pay
               to == p.payee
    <3>1. /\ amount \in Nat /\ to \in Accounts
          /\ amount <= balance[<<Token, MULTISIG_FORWARDER>>]
      BY <1>1, <1>2, <2>3
    <3> HIDE DEF amount, to
    <3>2. MovedTo(Chain!Transferred(balance, Token, MULTISIG_FORWARDER, to, amount),
                  MULTISIG_FORWARDER, to, amount)
      BY <1>1, <3>1, TransferMoves
    <3> QED BY <3>2 DEF amount, to
  <2>4. ASSUME MULTISIG_V1 = MultisigForwarderLogicRef, p.pay <= Custody
        PROVE  Paid(p).error = Accepted
    <3>1. balance[<<Token, MULTISIG_FORWARDER>>] >= p.pay
      BY <1>2, <2>4
    <3> QED BY <2>1, <2>4, <3>1, PayoutStep
  <2> HIDE DEF bal
  <2>5. MovedTo(bal, MULTISIG_FORWARDER, p.payee, p.pay) =>
          bal \in [{Token} \X Accounts -> Nat]
    BY DEF MovedTo
  <2> QED BY <2>2, <2>3, <2>4, <2>5
<1> QED BY <1>3, <1>4

\* An error is not undone by another call.
LEMMA ErrorStays ==
  ASSUME NEW s, NEW c, Step(s, c).error = Accepted
  PROVE  s.error = Accepted
BY DEF Step

\* The calls of a spend move the payment from the forwarder to the payee and
\* nothing else; with both forwarders deployed for the carriers the guests
\* make, they go through as long as the forwarder has the payment.
LEMMA SpendCalls ==
  ASSUME BalancesTyped, NEW p, p.pay \in Nat, p.payee \in Payees, NEW chosen
  PROVE  LET after == Calls(SpendTransaction(p, chosen)) IN
         /\ after.error = Accepted =>
              /\ MovedTo(after.bal, MULTISIG_FORWARDER, p.payee, p.pay)
              /\ after.allow = allowance
              /\ p.pay <= Custody
         /\ /\ MULTISIG_V1 = MultisigForwarderLogicRef
            /\ WRAP_V1 = WrapForwarderLogicRef
            /\ p.pay <= Custody
            => after.error = Accepted
<1> DEFINE after == Calls(SpendTransaction(p, chosen))
           W == WrapOfNothing
<1>1. after = IF p.give = 0 THEN Step(Paid(p), W) ELSE Step(Step(Paid(p), W), W)
  BY SpendCallsState
<1> HIDE DEF after, W
<1>2. ASSUME after.error = Accepted PROVE Paid(p).error = Accepted
  BY <1>1, <1>2, ErrorStays
<1>3. ASSUME Paid(p).error = Accepted
      PROVE  /\ Step(Paid(p), W).error = Accepted => Step(Paid(p), W) = Paid(p)
             /\ WRAP_V1 = WrapForwarderLogicRef => Step(Paid(p), W).error = Accepted
             /\ p.pay <= Custody
             /\ MovedTo(Paid(p).bal, MULTISIG_FORWARDER, p.payee, p.pay)
             /\ Paid(p).allow = allowance
  <2>1. PICK bal \in [{Token} \X Accounts -> Nat] :
          /\ Paid(p) = State(Accepted, bal, allowance)
          /\ MovedTo(bal, MULTISIG_FORWARDER, p.payee, p.pay)
          /\ p.pay <= Custody
    BY <1>3, PaidState
  <2>2. allowance \in [{Token} \X Depositors -> Nat]
    BY DEF BalancesTyped
  <2>3. /\ Step(State(Accepted, bal, allowance), W).error = Accepted =>
             Step(State(Accepted, bal, allowance), W)
               = State(Accepted, bal, allowance)
        /\ WRAP_V1 = WrapForwarderLogicRef =>
             Step(State(Accepted, bal, allowance), W).error = Accepted
    BY <2>2, WrapOfNothingStep DEF W
  <2>4. Paid(p).bal = bal /\ Paid(p).allow = allowance
    BY <2>1 DEF State
  <2> QED BY <2>1, <2>3, <2>4
<1>4. ASSUME after.error = Accepted
      PROVE  /\ MovedTo(after.bal, MULTISIG_FORWARDER, p.payee, p.pay)
             /\ after.allow = allowance
             /\ p.pay <= Custody
  <2>1. Step(Paid(p), W).error = Accepted
    BY <1>1, <1>4, ErrorStays
  <2>2. after = Paid(p)
    BY <1>1, <1>2, <1>3, <1>4, <2>1
  <2> QED BY <1>2, <1>3, <1>4, <2>2
<1>5. ASSUME MULTISIG_V1 = MultisigForwarderLogicRef,
             WRAP_V1 = WrapForwarderLogicRef, p.pay <= Custody
      PROVE  after.error = Accepted
  <2>1. Paid(p).error = Accepted
    BY <1>5, PaidState
  <2> QED BY <1>1, <1>3, <1>5, <2>1
<1> QED BY <1>4, <1>5 DEF after

-----------------------------------------------------------------------------
(* What the adapter lets through. *)

\* The nullifiers of a deposit.
LEMMA DepositTags ==
  ASSUME NEW note, NEW from, NEW amount
  PROVE  TagsOf(DepositTransaction(note, from, amount).consumed)
           = {EphemeralNullifier(note.vault, note.quantity,
                                 Derived(note.nonce, "inflow"))}
<1> DEFINE root == action_tree_root_of({commitment(NoteResource(note))})
           part == InflowPart(note.vault, note.quantity,
                              Derived(note.nonce, "inflow"), from,
                              amount, root)
           parts == DepositTransaction(note, from, amount).consumed
<1>1. parts = <<part>>
  BY DEF DepositTransaction
<1>2. part.instance.tag = EphemeralNullifier(note.vault, note.quantity,
                                             Derived(note.nonce, "inflow"))
  BY DEF InflowPart, InflowInstance, LogicInstance, EphemeralNullifier
<1> HIDE DEF part, parts
<1>3. ToSet(parts) = {part}
  BY <1>1 DEF ToSet
<1> QED BY <1>2, <1>3 DEF TagsOf, parts

\* The ephemerals of a spend.
ZeroNullifier(p) ==
  EphemeralNullifier(p.note.vault, 0, Derived(p.note.nonce, "zero"))

GivenNullifier(p) ==
  EphemeralNullifier(p.to, p.give, Derived(p.note.nonce, "given"))

\* The nullifiers of a spend.
LEMMA SpendTags ==
  ASSUME NEW p, NEW chosen
  PROVE  LET parts == SpendTransaction(p, chosen).consumed IN
         /\ TagsOf(parts) = IF p.give = 0
                            THEN {NullifierOf(p.note), ZeroNullifier(p)}
                            ELSE {NullifierOf(p.note), ZeroNullifier(p),
                                  GivenNullifier(p)}
         /\ Len(parts) = IF p.give = 0 THEN 2 ELSE 3
<1> DEFINE root == ActionTreeRoot(p)
           anyone == CHOOSE d \in Depositors : TRUE
           spend == SpendPart(p, chosen)
           nothing == InflowPart(p.note.vault, 0, Derived(p.note.nonce, "zero"),
                                 anyone, 0, root)
           given == InflowPart(p.to, p.give, Derived(p.note.nonce, "given"),
                               anyone, 0, root)
           parts == SpendTransaction(p, chosen).consumed
<1>1. parts = IF p.give = 0 THEN <<spend, nothing>> ELSE <<spend, nothing, given>>
  BY DEF SpendTransaction
<1>2. /\ nothing.instance.tag = ZeroNullifier(p)
      /\ given.instance.tag = GivenNullifier(p)
  BY DEF InflowPart, InflowInstance, LogicInstance, EphemeralNullifier,
         ZeroNullifier, GivenNullifier
<1>3. spend.instance.tag = NullifierOf(p.note)
  BY DEF SpendPart, SignedWitness, UnsignedWitness, ConsumedInstance,
         LogicInstance, NullifierOf
<1> HIDE DEF spend, nothing, given, parts
<1>4. CASE p.give = 0
  <2>1. ToSet(parts) = {spend, nothing}
    BY <1>1, <1>4 DEF ToSet
  <2>2. TagsOf(parts) = {NullifierOf(p.note), ZeroNullifier(p)}
    BY <1>2, <1>3, <2>1 DEF TagsOf
  <2> QED BY <1>1, <1>4, <2>2 DEF parts
<1>5. CASE p.give # 0
  <2>1. ToSet(parts) = {spend, nothing, given}
    BY <1>1, <1>5 DEF ToSet
  <2>2. TagsOf(parts) = {NullifierOf(p.note), ZeroNullifier(p), GivenNullifier(p)}
    BY <1>2, <1>3, <2>1 DEF TagsOf
  <2> QED BY <1>1, <1>5, <2>2 DEF parts
<1> QED BY <1>4, <1>5

\* A transaction that is let through is proved, spends nothing twice, and
\* none of its calls reverts.
LEMMA AdapterAccepts ==
  ASSUME NEW tx, AdapterError(tx) = Accepted
  PROVE  /\ \A part \in ToSet(tx.consumed) \cup ToSet(tx.created) :
              part.error = Accepted
         /\ TagsOf(tx.consumed) \cap nullifiers = {}
         /\ Calls(tx).error = Accepted
BY DEF AdapterError, Accepted

\* A deposit that is let through.
LEMMA DepositEffect ==
  ASSUME BalancesTyped, NEW note, NEW from \in Depositors, NEW amount \in Nat,
         Run(DepositTransaction(note, from, amount), {note})
  PROVE  /\ notes' = notes \cup {note}
         /\ nullifiers' = nullifiers \cup
              {EphemeralNullifier(note.vault, note.quantity,
                                  Derived(note.nonce, "inflow"))}
         /\ MovedTo(balance', from, MULTISIG_FORWARDER, amount)
         /\ allowance' \in [{Token} \X Depositors -> Nat]
<1> DEFINE tx == DepositTransaction(note, from, amount)
<1>1. /\ AdapterError(tx) = Accepted
      /\ notes' = notes \cup {note}
      /\ nullifiers' = nullifiers \cup TagsOf(tx.consumed)
      /\ balance' = Calls(tx).bal
      /\ allowance' = Calls(tx).allow
  BY DEF Run
<1>2. Calls(tx).error = Accepted
  BY <1>1, AdapterAccepts
<1>3. /\ MovedTo(Calls(tx).bal, from, MULTISIG_FORWARDER, amount)
      /\ Calls(tx).allow \in [{Token} \X Depositors -> Nat]
  BY <1>2, DepositCalls
<1>4. TagsOf(tx.consumed) = {EphemeralNullifier(note.vault, note.quantity,
                                  Derived(note.nonce, "inflow"))}
  BY DepositTags
<1> HIDE DEF tx
<1> QED BY <1>1, <1>3, <1>4

\* A spend that is let through.
LEMMA SpendEffect ==
  ASSUME BalancesTyped, NEW p, p.pay \in Nat, p.payee \in Payees, NEW chosen,
         Run(SpendTransaction(p, chosen), CreatedNotes(p))
  PROVE  /\ Authorised(SignedWitness(p, chosen))
         /\ ~Spent(p.note)
         /\ notes' = notes \cup CreatedNotes(p)
         /\ nullifiers' = nullifiers
              \cup {NullifierOf(p.note), ZeroNullifier(p)}
              \cup (IF p.give = 0 THEN {} ELSE {GivenNullifier(p)})
         /\ MovedTo(balance', MULTISIG_FORWARDER, p.payee, p.pay)
         /\ allowance' = allowance
         /\ p.pay <= Custody
<1> DEFINE tx == SpendTransaction(p, chosen)
           spend == SpendPart(p, chosen)
<1>1. /\ AdapterError(tx) = Accepted
      /\ notes' = notes \cup CreatedNotes(p)
      /\ nullifiers' = nullifiers \cup TagsOf(tx.consumed)
      /\ balance' = Calls(tx).bal
      /\ allowance' = Calls(tx).allow
  BY DEF Run
<1>2. /\ \A part \in ToSet(tx.consumed) : part.error = Accepted
      /\ TagsOf(tx.consumed) \cap nullifiers = {}
      /\ Calls(tx).error = Accepted
  <2> HIDE DEF tx
  <2> QED BY <1>1, AdapterAccepts
<1>3. /\ MovedTo(Calls(tx).bal, MULTISIG_FORWARDER, p.payee, p.pay)
      /\ Calls(tx).allow = allowance
      /\ p.pay <= Custody
  BY <1>2, SpendCalls
<1>4. TagsOf(tx.consumed) = IF p.give = 0
                            THEN {NullifierOf(p.note), ZeroNullifier(p)}
                            ELSE {NullifierOf(p.note), ZeroNullifier(p),
                                  GivenNullifier(p)}
  BY SpendTags
<1>5. spend \in ToSet(tx.consumed)
  <2>1. \/ \E a : tx.consumed = <<spend, a>>
        \/ \E a, b : tx.consumed = <<spend, a, b>>
    <3> HIDE DEF spend
    <3> QED BY DEF SpendTransaction, spend
  <2> HIDE DEF spend, tx
  <2> QED BY <2>1 DEF ToSet
<1>6. Authorised(SignedWitness(p, chosen))
  <2>1. spend.error = Accepted
    BY <1>2, <1>5
  <2> QED BY <2>1 DEF SpendPart, Accepted
<1>7. ~Spent(p.note)
  <2>1. NullifierOf(p.note) \in TagsOf(tx.consumed)
    BY <1>4
  <2> HIDE DEF tx
  <2> QED BY <1>2, <2>1 DEF Spent
<1>8. nullifiers' = nullifiers
              \cup {NullifierOf(p.note), ZeroNullifier(p)}
              \cup (IF p.give = 0 THEN {} ELSE {GivenNullifier(p)})
  <2> HIDE DEF tx
  <2> QED BY <1>1, <1>4
<1> HIDE DEF tx
<1> QED BY <1>1, <1>3, <1>6, <1>7, <1>8

-----------------------------------------------------------------------------
(* The inductive invariant. *)

\* Notes are typed, and a nonce is of one note.
NotesOK ==
  /\ IsFiniteSet(notes)
  /\ \A n \in notes :
       /\ n = [vault |-> n.vault, quantity |-> n.quantity, nonce |-> n.nonce]
       /\ n.vault \in Vaults
       /\ n.quantity \in Quantity
  /\ \A n, m \in notes : n.nonce = m.nonce => n = m

\* A note comes from an earlier deposit, or from a note that is spent.
FromDeposit(nonce) ==
  \E j \in 0 .. Cardinality(Deposits) - 1 : nonce = DepositNonce(j)

FromSpent(nonce, parts) ==
  \E m \in notes : Spent(m) /\ \E part \in parts : nonce = Derived(m.nonce, part)

NoncesOK ==
  \A n \in notes :
    FromDeposit(n.nonce) \/ FromSpent(n.nonce, {"change", "recipient"})

\* An ephemeral nullified before was used by the spend of a note, or by the
\* deposit of one.
UsedBefore(resource) ==
  \/ FromSpent(resource.nonce, {"zero", "given"})
  \/ \E m \in notes : resource.nonce = Derived(m.nonce, "inflow")

NullifiersOK ==
  \A x \in nullifiers :
    \/ \E n \in notes : x = NullifierOf(n)
    \/ /\ NullifiedBy(x).is_ephemeral
       /\ UsedBefore(NullifiedBy(x))

\* What is signed is a well-formed proposal about a note that exists.
ApprovalsOK ==
  /\ IsFiniteSet(approvals)
  /\ \A a \in approvals : a.proposal \in Proposals /\ WellFormed(a.proposal)

\* What was executed was signed by k, and its note is spent.
ExecutedOK ==
  \A p \in executed : p \in Approved /\ Spent(p.note) /\ GrantedBy(p)

\* Donors only ever give.
BalancesOK ==
  /\ BalancesTyped
  /\ \A d \in Donors : balance[<<Token, d>>] <= InitBalance

IInv ==
  /\ NotesOK
  /\ NoncesOK
  /\ NullifiersOK
  /\ ApprovalsOK
  /\ ExecutedOK
  /\ BalancesOK

\* The fields of a proposal.
LEMMA ProposalFields ==
  ASSUME NEW p \in Proposals
  PROVE  /\ p.note \in notes
         /\ p.pay \in Nat /\ p.give \in Nat
         /\ p.payee \in Payees
         /\ p.to \in Vaults
         /\ p = [note |-> p.note, pay |-> p.pay, give |-> p.give,
                 payee |-> p.payee, to |-> p.to]
<1>1. PICK n \in notes, s \in Splits, a \in Payees, v \in Vaults :
        p = [note |-> n, pay |-> s[1], give |-> s[2], payee |-> a, to |-> v]
  BY DEF Proposals
<1>2. s[1] \in Nat /\ s[2] \in Nat
  BY AmountsAssumption
<1> QED BY <1>1, <1>2

\* A proposal stays one, since notes stay.
LEMMA ProposalsStay ==
  ASSUME notes \subseteq notes'
  PROVE  Proposals \subseteq Proposals'
BY DEF Proposals

-----------------------------------------------------------------------------
(* The message the signers sign tells the proposal.                        *)

\* The commitment of a note tells its nonce, quantity and label.
LEMMA CommitmentFields ==
  ASSUME NEW n, NEW m, commitment(NoteResource(n)) = commitment(NoteResource(m))
  PROVE  /\ n.nonce = m.nonce /\ n.quantity = m.quantity
         /\ label_ref(Label[n.vault]) = label_ref(Label[m.vault])
<1>1. NoteResource(n) = NoteResource(m)
  BY DEF commitment, Sha256
<1> QED BY <1>1 DEF NoteResource, Resource

\* The notes a spend creates have nonces of their own.
LEMMA CreatedFields ==
  ASSUME NEW p
  PROVE  /\ ChangeNote(p).vault = p.note.vault
         /\ ChangeNote(p).quantity = p.note.quantity - p.pay - p.give
         /\ ChangeNote(p).nonce = Derived(p.note.nonce, "change")
         /\ RecipientNote(p).vault = p.to
         /\ RecipientNote(p).quantity = p.give
         /\ RecipientNote(p).nonce = Derived(p.note.nonce, "recipient")
         /\ ChangeNote(p).nonce # RecipientNote(p).nonce
BY NoncesDiffer DEF ChangeNote, RecipientNote

\* Which tags of an action are of its recipient note.
LEMMA RecipientTag ==
  ASSUME NEW p, NEW q, p.note = q.note, ActionTags(p) = ActionTags(q),
         p.give # 0
  PROVE  /\ q.give # 0
         /\ q.give = p.give
         /\ label_ref(Label[q.to]) = label_ref(Label[p.to])
<1> DEFINE c(n) == commitment(NoteResource(n))
<1>1. c(RecipientNote(p)) \in ActionTags(q)
  <2>1. RecipientNote(p) \in CreatedNotes(p)
    BY DEF CreatedNotes
  <2>2. c(RecipientNote(p)) \in ActionTags(p)
    BY <2>1 DEF ActionTags
  <2> QED BY <2>2
<1>2. c(RecipientNote(p)) # NullifierOf(q.note)
  BY DEF commitment, NullifierOf, nullifier, Sha256
<1>3. PICK n \in CreatedNotes(q) : c(RecipientNote(p)) = c(n)
  BY <1>1, <1>2 DEF ActionTags
<1>4. /\ RecipientNote(p).nonce = n.nonce
      /\ RecipientNote(p).quantity = n.quantity
      /\ label_ref(Label[RecipientNote(p).vault]) = label_ref(Label[n.vault])
  BY <1>3, CommitmentFields
<1>5. n # ChangeNote(q)
  <2>1. RecipientNote(p).nonce = RecipientNote(q).nonce
    BY CreatedFields
  <2>2. ChangeNote(q).nonce # RecipientNote(q).nonce
    BY CreatedFields
  <2> QED BY <1>4, <2>1, <2>2
<1>6. n = RecipientNote(q) /\ q.give # 0
  BY <1>5 DEF CreatedNotes
<1>7. /\ RecipientNote(p).vault = p.to /\ RecipientNote(p).quantity = p.give
      /\ RecipientNote(q).vault = q.to /\ RecipientNote(q).quantity = q.give
  BY CreatedFields
<1> QED BY <1>4, <1>6, <1>7

\* Signatures do not change what is signed.
LEMMA SignedMessage ==
  ASSUME NEW p, NEW chosen
  PROVE  SpendMessage(SignedWitness(p, chosen)) = compute_spend_message(p)
BY DEF SignedWitness, UnsignedWitness, SpendMessage, ConsumedInstance,
       compute_spend_message

\* A message is of one proposal: whoever signs it signs the note, the amounts,
\* the payee and the recipient.
LEMMA MessageInjective ==
  ASSUME IInv, NEW p \in Proposals, WellFormed(p), NEW q \in Proposals,
         WellFormed(q), compute_spend_message(p) = compute_spend_message(q)
  PROVE  p = q
<1> DEFINE instance(r) == ConsumedInstance(UnsignedWitness(r))
<1>1. journal_digest(instance(p)) = journal_digest(instance(q))
  <2> DEFINE d(r) == journal_digest(instance(r))
             b(r) == RecipientCommitments(
                       [j \in DOMAIN UnsignedWitness(r).recipient_resources |->
                          commitment(UnsignedWitness(r).recipient_resources[j])])
  <2>1. spend_message(d(p), b(p)) = spend_message(d(q), b(q))
    BY DEF compute_spend_message, SpendMessage
  <2> HIDE DEF d, b
  <2>2. d(p) = d(q)
    BY <2>1 DEF spend_message, Sha256
  <2> QED BY <2>2 DEF d
<1>2. instance(p) = instance(q)
  <2> HIDE DEF instance
  <2> QED BY <1>1 DEF journal_digest, Sha256
<1>3. ASSUME NEW r
      PROVE  /\ instance(r).tag = NullifierOf(r.note)
             /\ instance(r).action_tree_root = ActionTreeRoot(r)
             /\ instance(r).app_data = AppData(TransferPayload(r))
  BY DEF UnsignedWitness, ConsumedInstance, LogicInstance, NullifierOf
<1> HIDE DEF instance
<1>4. /\ p.note \in notes /\ q.note \in notes
      /\ p.pay \in Nat /\ p.give \in Nat /\ q.pay \in Nat /\ q.give \in Nat
      /\ p.payee \in Payees /\ q.payee \in Payees
      /\ p.to \in Vaults /\ q.to \in Vaults
      /\ p = [note |-> p.note, pay |-> p.pay, give |-> p.give,
              payee |-> p.payee, to |-> p.to]
      /\ q = [note |-> q.note, pay |-> q.pay, give |-> q.give,
              payee |-> q.payee, to |-> q.to]
  BY ProposalFields
<1>5. p.note = q.note
  <2>1. NullifierOf(p.note) = NullifierOf(q.note)
    BY <1>2, <1>3
  <2>2. p.note.nonce = q.note.nonce
    BY <2>1, NullifierFields
  <2> QED BY <1>4, <2>2 DEF IInv, NotesOK
<1>6. p.pay = q.pay /\ p.payee = q.payee
  <2>1. TransferPayload(p) = TransferPayload(q)
    <3>1. AppData(TransferPayload(p)) = AppData(TransferPayload(q))
      BY <1>2, <1>3
    <3>2. \A t : AppData(t).external_payload = t
      BY DEF AppData
    <3> QED BY <3>1, <3>2
  <2>2. p.pay = 0 <=> q.pay = 0
    <3>1. \A r : r.pay = 0 => TransferPayload(r) = <<>>
      BY DEF TransferPayload
    <3>2. \A r : r.pay # 0 => TransferPayload(r) # <<>>
      BY DEF TransferPayload
    <3> QED BY <2>1, <3>1, <3>2
  <2>3. CASE p.pay = 0
    BY <2>2, <2>3 DEF WellFormed
  <2>4. CASE p.pay # 0
    <3>1. TransferPayload(p)[1] = TransferPayload(q)[1]
      BY <2>1
    <3> QED BY <2>2, <2>4, <3>1 DEF TransferPayload
  <2> QED BY <2>3, <2>4
<1>7. ActionTags(p) = ActionTags(q)
  <2>1. ActionTreeRoot(p) = ActionTreeRoot(q)
    BY <1>2, <1>3
  <2> QED BY <2>1 DEF ActionTreeRoot, action_tree_root_of, Sha256
<1>8. p.give = q.give
  BY <1>5, <1>7, RecipientTag
<1>9. p.to = q.to
  <2>1. CASE p.give = 0
    BY <1>5, <1>8, <2>1 DEF WellFormed
  <2>2. CASE p.give # 0
    BY <1>4, <1>5, <1>7, <2>2, RecipientTag, LabelRefInjective
  <2> QED BY <2>1, <2>2
<1> QED BY <1>4, <1>5, <1>6, <1>8, <1>9

-----------------------------------------------------------------------------
(* What a deposit and a spend do to the notes. *)

\* What has a nullifier is known.
LEMMA SpentKnown ==
  ASSUME IInv, NEW n, Spent(n)
  PROVE  \E m \in notes : m.nonce = n.nonce /\ Spent(m)
<1>1. NullifierOf(n) \in nullifiers
  BY DEF Spent
<1>2. NullifiedBy(NullifierOf(n)).is_ephemeral = FALSE
  BY NullifierFields
<1>3. PICK m \in notes : NullifierOf(n) = NullifierOf(m)
  BY <1>1, <1>2 DEF IInv, NullifiersOK
<1>4. m.nonce = n.nonce
  BY <1>3, NullifierFields
<1> QED BY <1>1, <1>3, <1>4 DEF Spent

\* An ephemeral's nullifier is of no note.
LEMMA EphemeralOfNoNote ==
  \A n, v, q, nonce : NullifierOf(n) # EphemeralNullifier(v, q, nonce)
BY NullifierFields

\* The finite set of the notes that were deposited.
LEMMA DepositsFinite ==
  ASSUME IInv
  PROVE  IsFiniteSet(Deposits) /\ Cardinality(Deposits) \in Nat
<1>1. Deposits \in SUBSET notes /\ IsFiniteSet(notes)
  BY DEF Deposits, IInv, NotesOK
<1> QED BY <1>1, FS_Subset, FS_CardinalityType

\* The note a deposit creates.
DepositedNote(v, quantity) ==
  [vault |-> v, quantity |-> quantity,
   nonce |-> DepositNonce(Cardinality(Deposits))]

\* note, of quantity q and vault v, is the note of a deposit that wraps amount
\* tokens of d and goes through.
DepositEffects(v, d, q, amount, note) ==
  /\ note.vault = v /\ note.quantity = q /\ q \in Quantity
  /\ note.nonce = DepositNonce(Cardinality(Deposits))
  /\ \A n \in notes : n.nonce # note.nonce
  /\ notes' = notes \cup {note}
  /\ nullifiers' = nullifiers \cup
       {EphemeralNullifier(v, q, Derived(note.nonce, "inflow"))}
  /\ MovedTo(balance', d, MULTISIG_FORWARDER, amount)
  /\ allowance' \in [{Token} \X Depositors -> Nat]
  /\ UNCHANGED <<approvals, executed>>
  /\ \A n \in notes : (Spent(n))' <=> Spent(n)
  /\ ~(Spent(note))'
  /\ Unspent' = Unspent \cup {note}
  /\ Deposits' = Deposits \cup {note}
  /\ Cardinality(Deposits') = Cardinality(Deposits) + 1

\* A deposit adds its note, with a new nonce, and nothing else changes.
LEMMA DepositNotes ==
  ASSUME IInv, NEW v \in Vaults, NEW d \in Depositors, NEW q \in DepositQuantities,
         NEW amount \in DepositAmounts, Deposit(v, d, q, amount),
         NEW note, note = DepositedNote(v, q)
  PROVE  DepositEffects(v, d, q, amount, note)
<1>1. /\ note.vault = v /\ note.quantity = q
      /\ note.nonce = DepositNonce(Cardinality(Deposits))
  BY DEF DepositedNote
<1>2. q \in Quantity /\ amount \in Nat
  BY AmountsAssumption, MaxU128Assumption DEF Quantity
<1>3. /\ Run(DepositTransaction(note, d, amount), {note})
      /\ UNCHANGED <<approvals, executed>>
  BY DEF Deposit, DepositedNote
<1>4. /\ notes' = notes \cup {note}
      /\ nullifiers' = nullifiers \cup
           {EphemeralNullifier(note.vault, note.quantity,
                               Derived(note.nonce, "inflow"))}
      /\ MovedTo(balance', d, MULTISIG_FORWARDER, amount)
      /\ allowance' \in [{Token} \X Depositors -> Nat]
  <2>1. BalancesTyped
    BY DEF IInv, BalancesOK
  <2> QED BY <1>2, <1>3, <2>1, DepositEffect
<1>5. ASSUME NEW n \in notes PROVE n.nonce # note.nonce
  <2>1. CASE FromDeposit(n.nonce)
    <3>1. PICK j \in 0 .. Cardinality(Deposits) - 1 : n.nonce = DepositNonce(j)
      BY <2>1 DEF FromDeposit
    <3>2. j # Cardinality(Deposits)
      BY DepositsFinite
    <3> QED BY <1>1, <3>1, <3>2, NoncesDiffer
  <2>2. CASE FromSpent(n.nonce, {"change", "recipient"})
    BY <1>1, <2>2, NoncesDiffer DEF FromSpent
  <2> QED BY <2>1, <2>2 DEF IInv, NoncesOK
<1>6. \A n : NullifierOf(n) \in nullifiers' <=> NullifierOf(n) \in nullifiers
  BY <1>4, EphemeralOfNoNote
<1>7. \A n : (Spent(n))' <=> Spent(n)
  BY <1>6 DEF Spent, NullifierOf, NoteResource, Resource
<1>8. ~Spent(note)
  BY <1>5, SpentKnown
<1>9. Unspent' = Unspent \cup {note}
  BY <1>4, <1>7, <1>8 DEF Unspent
<1>10. Deposits' = Deposits \cup {note} /\ note \notin Deposits
  <2>1. Len(note.nonce) = 1
    BY <1>1, NoncesDiffer
  <2>2. note \notin Deposits
    BY <1>5 DEF Deposits
  <2> QED BY <1>4, <2>1, <2>2 DEF Deposits
<1>11. Cardinality(Deposits') = Cardinality(Deposits) + 1
  BY <1>10, DepositsFinite, FS_AddElement
<1> QED BY <1>1, <1>2, <1>3, <1>4, <1>5, <1>7, <1>8, <1>9, <1>10, <1>11 DEF DepositEffects

\* The spend that p proposes, with these signatures, goes through.
SpendEffects(p, chosen) ==
  /\ p \in Proposals /\ WellFormed(p)
  /\ Authorised(SignedWitness(p, chosen))
  /\ p.note \in Unspent
  /\ notes' = notes \cup CreatedNotes(p)
  /\ \A n \in CreatedNotes(p), m \in notes : n.nonce # m.nonce
  /\ nullifiers' = nullifiers
       \cup {NullifierOf(p.note), ZeroNullifier(p)}
       \cup (IF p.give = 0 THEN {} ELSE {GivenNullifier(p)})
  /\ MovedTo(balance', MULTISIG_FORWARDER, p.payee, p.pay)
  /\ UNCHANGED <<allowance, approvals>>
  /\ executed' = executed \cup {p}
  /\ \A n \in notes : (Spent(n))' <=> Spent(n) \/ n = p.note
  /\ \A n \in CreatedNotes(p) : ~(Spent(n))'
  /\ Unspent' = (Unspent \ {p.note}) \cup CreatedNotes(p)
  /\ Deposits' = Deposits

\* A spend adds the change and the recipient, with new nonces, and its note is
\* the only one that is spent by it.
LEMMA SpendNotes ==
  ASSUME IInv, NEW p \in Approved, NEW chosen, Execute(p, chosen)
  PROVE  SpendEffects(p, chosen)
<1>1. p \in Proposals /\ WellFormed(p)
  BY DEF Approved, IInv, ApprovalsOK
<1>2. /\ p.note \in notes /\ p.pay \in Nat /\ p.give \in Nat
      /\ p.payee \in Payees /\ p.to \in Vaults
  BY <1>1, ProposalFields
<1>3. /\ Run(SpendTransaction(p, chosen), CreatedNotes(p))
      /\ executed' = executed \cup {p}
      /\ UNCHANGED approvals
  BY DEF Execute
<1>4. /\ Authorised(SignedWitness(p, chosen))
      /\ ~Spent(p.note)
      /\ notes' = notes \cup CreatedNotes(p)
      /\ nullifiers' = nullifiers
              \cup {NullifierOf(p.note), ZeroNullifier(p)}
              \cup (IF p.give = 0 THEN {} ELSE {GivenNullifier(p)})
      /\ MovedTo(balance', MULTISIG_FORWARDER, p.payee, p.pay)
      /\ allowance' = allowance
  BY <1>2, <1>3, SpendEffect DEF IInv, BalancesOK
<1>5. ASSUME NEW n \in CreatedNotes(p)
      PROVE  \E part \in {"change", "recipient"} :
               n.nonce = Derived(p.note.nonce, part)
  BY CreatedFields DEF CreatedNotes
<1>6. ASSUME NEW n \in CreatedNotes(p), NEW m \in notes PROVE n.nonce # m.nonce
  <2>1. PICK part \in {"change", "recipient"} : n.nonce = Derived(p.note.nonce, part)
    BY <1>5
  <2>2. CASE FromDeposit(m.nonce)
    BY <2>1, <2>2, NoncesDiffer DEF FromDeposit
  <2>3. CASE FromSpent(m.nonce, {"change", "recipient"})
    <3>1. PICK o \in notes : Spent(o) /\ \E role \in {"change", "recipient"} :
                                m.nonce = Derived(o.nonce, role)
      BY <2>3 DEF FromSpent
    <3>2. o.nonce # p.note.nonce
      BY <1>2, <1>4, <3>1 DEF IInv, NotesOK
    <3> QED BY <2>1, <3>1, <3>2, NoncesDiffer
  <2> QED BY <2>2, <2>3 DEF IInv, NoncesOK
<1>7. \A n : NullifierOf(n) \in nullifiers'
               <=> NullifierOf(n) \in nullifiers \/ NullifierOf(n) = NullifierOf(p.note)
  BY <1>4, EphemeralOfNoNote DEF ZeroNullifier, GivenNullifier
<1>8. \A n : (Spent(n))' <=> Spent(n) \/ NullifierOf(n) = NullifierOf(p.note)
  BY <1>7 DEF Spent, NullifierOf, NoteResource, Resource
<1>9. \A n \in notes : (Spent(n))' <=> Spent(n) \/ n = p.note
  <2>1. ASSUME NEW n \in notes, NullifierOf(n) = NullifierOf(p.note)
        PROVE  n = p.note
    <3>1. n.nonce = p.note.nonce
      BY <2>1, NullifierFields
    <3> QED BY <1>2, <3>1 DEF IInv, NotesOK
  <2> QED BY <1>8, <2>1
<1>10. ASSUME NEW n \in CreatedNotes(p) PROVE ~(Spent(n))'
  <2>1. ~Spent(n)
    BY <1>6, SpentKnown
  <2>2. NullifierOf(n) # NullifierOf(p.note)
    BY <1>2, <1>6, NullifierFields
  <2> QED BY <1>8, <2>1, <2>2
<1>11. Unspent' = (Unspent \ {p.note}) \cup CreatedNotes(p)
  BY <1>4, <1>9, <1>10 DEF Unspent
<1>12. Deposits' = Deposits
  <2>1. \A n \in CreatedNotes(p) : Len(n.nonce) # 1
    BY <1>5, NoncesDiffer
  <2> QED BY <1>4, <2>1 DEF Deposits
<1>13. p.note \in Unspent
  BY <1>2, <1>4 DEF Unspent
<1> QED BY <1>1, <1>3, <1>4, <1>6, <1>9, <1>10, <1>11, <1>12, <1>13 DEF SpendEffects

-----------------------------------------------------------------------------
(* What was executed was signed by k. *)

\* A vault has finitely many keys.
LEMMA KeysFinite ==
  ASSUME NEW v \in Vaults
  PROVE  IsFiniteSet(ToSet(Pubkeys[v]))
<1> DEFINE s == Pubkeys[v]
           n == Len(s)
<1>1. s \in Seq(Nat)
  BY LabelFacts
<1> HIDE DEF s
<1>2. n \in Nat /\ n \in Int /\ 1 \in Int
  BY <1>1
<1>3. s \in Surjection(1 .. n, ToSet(s))
  BY <1>1 DEF ToSet, Surjection
<1> HIDE DEF n
<1>4. IsFiniteSet(1 .. n)
  BY <1>2, FS_Interval
<1>5. IsFiniteSet(ToSet(s))
  BY <1>3, <1>4, FS_Surjection
<1> QED BY <1>5 DEF s

\* An authorised spend was granted: each of its k slots holds the signature
\* of another key of the vault, and each of these is for this proposal.
LEMMA AuthorisedGranted ==
  ASSUME IInv, NEW p \in Proposals, WellFormed(p),
         NEW chosen \in SignatureChoices(p.note.vault),
         Authorised(SignedWitness(p, chosen))
  PROVE  GrantedBy(p)
<1> DEFINE v == p.note.vault
           s == Pubkeys[v]
           k == Label[v].k
           x == SignedWitness(p, chosen)
           T == Approvers(p) \cap ToSet(s)
           at == [j \in DOMAIN chosen |-> chosen[j].at]
<1>1. v \in Vaults
  BY ProposalFields DEF IInv, NotesOK
<1>2. /\ s \in Seq(Nat) /\ AscendingBelow(s, Len(s))
      /\ k \in Nat /\ Len(s) \in Nat
  BY <1>1, LabelFacts, PubkeysAscend
<1>3. DOMAIN chosen = 1 .. k /\ AscendingBelow(at, k)
  BY DEF SignatureChoices
<1>4. ASSUME NEW j \in 1 .. k
      PROVE  \E i \in 1 .. Len(s) :
               /\ chosen[j].at = i
               /\ \E a \in approvals : /\ a.key = s[i]
                                       /\ a.proposal = chosen[j].proposal
  <2> DEFINE signed(i) == {[at |-> i, proposal |-> a.proposal] :
                             a \in {b \in approvals : b.key = s[i]}}
  <2>1. chosen \in [1 .. k -> UNION {signed(i) : i \in DOMAIN s}]
    BY DEF SignatureChoices
  <2>2. chosen[j] \in UNION {signed(i) : i \in DOMAIN s}
    <3> HIDE DEF signed
    <3> QED BY <2>1
  <2>3. PICK i \in DOMAIN s : chosen[j] \in signed(i)
    <3> HIDE DEF signed
    <3> QED BY <2>2
  <2>4. i \in 1 .. Len(s)
    BY <1>2, <2>3
  <2> HIDE DEF s
  <2> QED BY <2>3, <2>4
<1>5. ASSUME NEW j \in 1 .. k
      PROVE  chosen[j].proposal = p
  <2>1. x.signatures = [i \in DOMAIN chosen |->
          [idx |-> chosen[i].at - 1,
           sig |-> sign_low_s_der(Pubkeys[p.note.vault][chosen[i].at],
                                  compute_spend_message(chosen[i].proposal))]]
    BY DEF SignedWitness, UnsignedWitness
  <2>2. j \in DOMAIN x.signatures
    BY <1>3, <2>1
  <2>3. x.signatures[j].sig.msg = compute_spend_message(chosen[j].proposal)
    <3> DEFINE sig(i) == sign_low_s_der(Pubkeys[p.note.vault][chosen[i].at],
                                        compute_spend_message(chosen[i].proposal))
    <3>1. sig(j).msg = compute_spend_message(chosen[j].proposal)
      BY DEF sign_low_s_der
    <3>2. x.signatures[j].sig = sig(j)
      <4> HIDE DEF sig, x
      <4>1. x.signatures = [i \in DOMAIN chosen |->
                              [idx |-> chosen[i].at - 1, sig |-> sig(i)]]
        BY <2>1 DEF sig
      <4>2. x.signatures[j] = [idx |-> chosen[j].at - 1, sig |-> sig(j)]
        BY <1>3, <4>1
      <4> QED BY <4>2
    <3> HIDE DEF x, sig
    <3> QED BY <3>1, <3>2
  <2>4. x.signatures[j].sig.msg = SpendMessage(x)
    <3>1. Authorised(x)
      OBVIOUS
    <3> HIDE DEF x
    <3> QED BY <2>2, <3>1 DEF Authorised, SignedByK, verify_secp256k1
  <2>5. compute_spend_message(chosen[j].proposal) = compute_spend_message(p)
    BY <2>3, <2>4, SignedMessage
  <2>6. PICK a \in approvals : a.proposal = chosen[j].proposal
    BY <1>4
  <2>7. chosen[j].proposal \in Proposals /\ WellFormed(chosen[j].proposal)
    BY <2>6 DEF IInv, ApprovalsOK
  <2> HIDE DEF x
  <2> QED BY <2>5, <2>7, MessageInjective
<1>6. ASSUME NEW j \in 1 .. k PROVE at[j] \in 1 .. Len(s) /\ s[at[j]] \in T
  <2>1. at[j] = chosen[j].at
    BY <1>3
  <2>2. PICK i \in 1 .. Len(s) :
          /\ chosen[j].at = i
          /\ \E a \in approvals : a.key = s[i] /\ a.proposal = chosen[j].proposal
    BY <1>4
  <2>3. s[i] \in Approvers(p)
    BY <1>5, <2>2 DEF Approvers
  <2>4. s[i] \in ToSet(s)
    BY <1>2, <2>2 DEF ToSet
  <2> QED BY <2>1, <2>2, <2>3, <2>4
<1>7. IsFiniteSet(T)
  BY <1>1, KeysFinite, FS_Intersection
<1> HIDE DEF s, k, at, T
<1>8. Cardinality(T) >= k
  BY <1>2, <1>3, <1>6, <1>7, KDifferentKeys
<1> QED BY <1>8 DEF GrantedBy, T, s, k

-----------------------------------------------------------------------------
(* Every step keeps the inductive invariant. *)

\* Nothing has happened yet.
LEMMA InitIInv == Init => IInv
<1> SUFFICES ASSUME Init PROVE IInv
  OBVIOUS
<1>1. NotesOK /\ NoncesOK /\ NullifiersOK
  BY FS_EmptySet DEF Init, NotesOK, NoncesOK, NullifiersOK
<1>2. ApprovalsOK /\ ExecutedOK
  BY FS_EmptySet DEF Init, ApprovalsOK, ExecutedOK
<1>3. BalancesOK
  <2>1. BalancesTyped
    BY AmountsAssumption DEF Init, BalancesTyped
  <2>2. ASSUME NEW d \in Donors PROVE balance[<<Token, d>>] = InitBalance
    <3>1. <<Token, d>> \in {Token} \X Accounts
      BY DEF Accounts
    <3> QED BY <3>1 DEF Init
  <2>3. \A d \in Donors : balance[<<Token, d>>] <= InitBalance
    BY <2>2, AmountsAssumption
  <2> QED BY <2>1, <2>3 DEF BalancesOK
<1> QED BY <1>1, <1>2, <1>3 DEF IInv

\* The invariant of the nullifiers, for those there were.
LEMMA UsesStay ==
  ASSUME notes \subseteq notes', NEW resource,
         \A n \in notes : Spent(n) => (Spent(n))'
  PROVE  UsedBefore(resource) => UsedBefore(resource)'
<1>1. FromSpent(resource.nonce, {"zero", "given"})
        => FromSpent(resource.nonce, {"zero", "given"})'
  BY DEF FromSpent
<1> QED BY <1>1 DEF UsedBefore

\* What holds of the proposals and signatures is kept while approvals are.
LEMMA ApprovalsStay ==
  ASSUME IInv, notes \subseteq notes', UNCHANGED approvals
  PROVE  ApprovalsOK'
<1>1. Proposals \subseteq Proposals'
  BY ProposalsStay
<1> QED BY <1>1 DEF IInv, ApprovalsOK, WellFormed

\* A deposit keeps the invariant: its nonce is one that no note has, and its
\* ephemeral is tied to the new note.
LEMMA DepositIInv ==
  ASSUME IInv, NEW v \in Vaults, NEW d \in Depositors, NEW q \in DepositQuantities,
         NEW amount \in DepositAmounts, Deposit(v, d, q, amount)
  PROVE  IInv'
<1>0. PICK note : note = DepositedNote(v, q)
  OBVIOUS
<1>1. /\ note.vault = v /\ note.quantity = q /\ q \in Quantity
      /\ note.nonce = DepositNonce(Cardinality(Deposits))
      /\ \A n \in notes : n.nonce # note.nonce
      /\ notes' = notes \cup {note}
      /\ nullifiers' = nullifiers \cup
           {EphemeralNullifier(v, q, Derived(note.nonce, "inflow"))}
      /\ MovedTo(balance', d, MULTISIG_FORWARDER, amount)
      /\ allowance' \in [{Token} \X Depositors -> Nat]
      /\ UNCHANGED <<approvals, executed>>
      /\ \A n \in notes : (Spent(n))' <=> Spent(n)
      /\ Cardinality(Deposits') = Cardinality(Deposits) + 1
  <2>1. DepositEffects(v, d, q, amount, note)
    BY <1>0, DepositNotes
  <2> QED BY <2>1 DEF DepositEffects
<1>2. note = [vault |-> note.vault, quantity |-> note.quantity, nonce |-> note.nonce]
  BY <1>0 DEF DepositedNote
<1>3. NotesOK'
  <2>1. IsFiniteSet(notes')
    BY <1>1, FS_AddElement DEF IInv, NotesOK
  <2> QED BY <1>1, <1>2, <2>1 DEF IInv, NotesOK
<1>4. NoncesOK'
  <2>1. Cardinality(Deposits) \in Nat
    BY DepositsFinite
  <2>2. ASSUME NEW n \in notes
        PROVE  (FromDeposit(n.nonce) \/ FromSpent(n.nonce, {"change", "recipient"}))'
    <3>1. CASE FromDeposit(n.nonce)
      <4>1. PICK j \in 0 .. Cardinality(Deposits) - 1 : n.nonce = DepositNonce(j)
        BY <3>1 DEF FromDeposit
      <4>2. j \in 0 .. Cardinality(Deposits') - 1
        BY <1>1, <2>1
      <4> QED BY <4>1, <4>2 DEF FromDeposit
    <3>2. CASE FromSpent(n.nonce, {"change", "recipient"})
      BY <1>1, <3>2 DEF FromSpent
    <3> QED BY <3>1, <3>2 DEF IInv, NoncesOK
  <2>3. FromDeposit(note.nonce)'
    <3>1. Cardinality(Deposits) \in 0 .. Cardinality(Deposits') - 1
      BY <1>1, <2>1
    <3> QED BY <1>1, <3>1 DEF FromDeposit
  <2> QED BY <1>1, <2>2, <2>3 DEF NoncesOK
<1>5. NullifiersOK'
  <2> SUFFICES ASSUME NEW x \in nullifiers'
               PROVE  (\/ \E n \in notes : x = NullifierOf(n)
                       \/ /\ NullifiedBy(x).is_ephemeral
                          /\ UsedBefore(NullifiedBy(x)))'
    BY DEF NullifiersOK
  <2>1. CASE x \in nullifiers
    <3>1. CASE \E n \in notes : x = NullifierOf(n)
      BY <1>1, <3>1 DEF NullifierOf, NoteResource, Resource
    <3>2. CASE NullifiedBy(x).is_ephemeral /\ UsedBefore(NullifiedBy(x))
      <4>1. UsedBefore(NullifiedBy(x))'
        BY <1>1, <3>2, UsesStay
      <4> QED BY <3>2, <4>1 DEF NullifiedBy
    <3> QED BY <2>1, <3>1, <3>2 DEF IInv, NullifiersOK
  <2>2. CASE x = EphemeralNullifier(v, q, Derived(note.nonce, "inflow"))
    <3>1. /\ NullifiedBy(x).is_ephemeral = TRUE
          /\ NullifiedBy(x).nonce = Derived(note.nonce, "inflow")
      BY <1>1, <2>2, NullifierFields
    <3>2. note \in notes'
      BY <1>1
    <3>3. UsedBefore(NullifiedBy(x))'
      BY <3>1, <3>2 DEF UsedBefore, NullifiedBy
    <3> QED BY <3>1, <3>3 DEF NullifiedBy
  <2> QED BY <1>1, <2>1, <2>2
<1>6. ApprovalsOK'
  BY <1>1, ApprovalsStay
<1>7. ExecutedOK'
  <2> SUFFICES ASSUME NEW p \in executed
               PROVE  (p \in Approved /\ Spent(p.note) /\ GrantedBy(p))'
    BY <1>1 DEF ExecutedOK
  <2>1. p \in Approved /\ Spent(p.note) /\ GrantedBy(p)
    BY DEF IInv, ExecutedOK
  <2>2. p.note \in notes
    BY <2>1, ProposalFields DEF Approved, IInv, ApprovalsOK
  <2>3. (p \in Approved /\ GrantedBy(p))'
    BY <1>1, <2>1 DEF Approved, GrantedBy, Approvers
  <2>4. (Spent(p.note))'
    BY <1>1, <2>1, <2>2
  <2> QED BY <2>3, <2>4
<1>8. BalancesOK'
  <2>1. BalancesTyped'
    BY <1>1 DEF MovedTo, BalancesTyped
  <2>2. ASSUME NEW a \in Donors PROVE balance'[<<Token, a>>] <= InitBalance
    <3>1. a \in Accounts /\ a # d /\ a # MULTISIG_FORWARDER
      BY AccountsAssumption DEF Accounts
    <3>2. balance'[<<Token, a>>] = balance[<<Token, a>>] - 0 + 0
      BY <1>1, <3>1 DEF MovedTo
    <3>3. balance[<<Token, a>>] \in Nat /\ balance[<<Token, a>>] <= InitBalance
      BY <3>1 DEF IInv, BalancesOK, BalancesTyped
    <3> QED BY <3>2, <3>3
  <2> QED BY <2>1, <2>2 DEF BalancesOK
<1> QED BY <1>3, <1>4, <1>5, <1>6, <1>7, <1>8 DEF IInv

\* A donation touches two balances.
LEMMA DonateBalances ==
  ASSUME IInv, NEW donor \in Donors, Donate(donor)
  PROVE  MovedTo(balance', donor, MULTISIG_FORWARDER, Held(balance, donor))
<1>1. donor \in Accounts /\ MULTISIG_FORWARDER \in Accounts /\ BalancesTyped
  BY DEF Accounts, IInv, BalancesOK
<1>2. Held(balance, donor) \in Nat /\ Held(balance, donor) <= balance[<<Token, donor>>]
  <2>1. <<Token, donor>> \in {Token} \X Accounts
    BY <1>1
  <2>2. balance[<<Token, donor>>] \in Nat
    BY <1>1, <2>1 DEF BalancesTyped
  <2> QED BY <2>2 DEF Held
<1>3. balance' = Chain!Transferred(balance, Token, donor, MULTISIG_FORWARDER,
                                   Held(balance, donor))
  BY DEF Donate, Held
<1> QED BY <1>1, <1>2, <1>3, TransferMoves

\* A donation keeps the invariant.
LEMMA DonateIInv ==
  ASSUME IInv, NEW donor \in Donors, Donate(donor)
  PROVE  IInv'
<1>1. UNCHANGED <<notes, nullifiers, allowance, approvals, executed>>
  BY DEF Donate
<1>2. NotesOK' /\ NoncesOK' /\ NullifiersOK'
  BY <1>1 DEF IInv, NotesOK, NoncesOK, NullifiersOK, FromDeposit, FromSpent,
     UsedBefore, Spent, NullifierOf, NoteResource, Resource, Deposits, NullifiedBy
<1>3. ApprovalsOK'
  BY <1>1, ApprovalsStay
<1>4. ExecutedOK'
  BY <1>1 DEF IInv, ExecutedOK, Approved, GrantedBy, Approvers, Spent, NullifierOf,
     NoteResource, Resource
<1>5. BalancesOK'
  <2> DEFINE amount == Held(balance, donor)
  <2>1. MovedTo(balance', donor, MULTISIG_FORWARDER, amount)
    BY DonateBalances
  <2>2. amount = balance[<<Token, donor>>]
    BY DEF Held
  <2> HIDE DEF amount
  <2>3. BalancesTyped'
    BY <1>1, <2>1 DEF MovedTo, BalancesTyped, IInv, BalancesOK
  <2>4. ASSUME NEW d \in Donors PROVE balance'[<<Token, d>>] <= InitBalance
    <3>1. /\ d \in Accounts /\ d # MULTISIG_FORWARDER /\ donor \in Accounts
      BY AccountsAssumption DEF Accounts
    <3>2. balance'[<<Token, d>>]
            = balance[<<Token, d>>] - (IF d = donor THEN amount ELSE 0) + 0
      BY <2>1, <3>1 DEF MovedTo
    <3>3. /\ balance[<<Token, d>>] \in Nat /\ balance[<<Token, d>>] <= InitBalance
          /\ balance[<<Token, donor>>] \in Nat
      BY <3>1 DEF IInv, BalancesOK, BalancesTyped
    <3> QED BY <2>2, <3>2, <3>3, AmountsAssumption
  <2> QED BY <2>3, <2>4 DEF BalancesOK
<1> QED BY <1>2, <1>3, <1>4, <1>5 DEF IInv

\* More signatures never take a grant away.
LEMMA GrantsStay ==
  ASSUME approvals \subseteq approvals', NEW p, p.note.vault \in Vaults, GrantedBy(p)
  PROVE  GrantedBy(p)'
<1> DEFINE A == Approvers(p) \cap ToSet(Pubkeys[p.note.vault])
           B == Approvers(p)' \cap ToSet(Pubkeys[p.note.vault])
           k == Label[p.note.vault].k
<1>1. A \subseteq B
  BY DEF Approvers
<1>2. IsFiniteSet(B)
  BY KeysFinite, FS_Intersection
<1>3. Cardinality(A) <= Cardinality(B) /\ Cardinality(A) \in Nat /\ Cardinality(B) \in Nat
  <2>1. IsFiniteSet(A)
    BY <1>1, <1>2, FS_Subset
  <2> HIDE DEF A, B
  <2> QED BY <1>1, <1>2, <2>1, FS_Subset, FS_CardinalityType
<1>4. k \in Nat /\ Cardinality(A) >= k
  BY LabelFacts DEF GrantedBy
<1>5. Cardinality(B) >= k
  <2> HIDE DEF A, B, k
  <2> QED BY <1>3, <1>4
<1> QED BY <1>5 DEF GrantedBy

\* A signature keeps the invariant: what is signed is a proposal.
LEMMA ApproveIInv ==
  ASSUME IInv, NEW p \in Proposals, WellFormed(p), NEW key, Approve(key, p)
  PROVE  IInv'
<1>1. /\ approvals' = approvals \cup {[key |-> key, proposal |-> p]}
      /\ UNCHANGED <<notes, nullifiers, balance, allowance, executed>>
  BY DEF Approve
<1>2. NotesOK' /\ NoncesOK' /\ NullifiersOK'
  BY <1>1 DEF IInv, NotesOK, NoncesOK, NullifiersOK, FromDeposit, FromSpent,
     UsedBefore, Spent, NullifierOf, NoteResource, Resource, Deposits, NullifiedBy
<1>3. ApprovalsOK'
  <2>1. IsFiniteSet(approvals')
    BY <1>1, FS_AddElement DEF IInv, ApprovalsOK
  <2>2. Proposals' = Proposals
    BY <1>1 DEF Proposals
  <2> QED BY <1>1, <2>1, <2>2 DEF IInv, ApprovalsOK, WellFormed
<1>4. ExecutedOK'
  <2> SUFFICES ASSUME NEW q \in executed
               PROVE  (q \in Approved /\ Spent(q.note) /\ GrantedBy(q))'
    BY <1>1 DEF ExecutedOK
  <2>1. q \in Approved /\ Spent(q.note) /\ GrantedBy(q)
    BY DEF IInv, ExecutedOK
  <2>2. q.note.vault \in Vaults
    <3>1. q \in Proposals
      BY <2>1 DEF Approved, IInv, ApprovalsOK
    <3> QED BY <3>1, ProposalFields DEF IInv, NotesOK
  <2>3. GrantedBy(q)'
    BY <1>1, <2>1, <2>2, GrantsStay
  <2>4. (q \in Approved)' /\ (Spent(q.note))'
    BY <1>1, <2>1 DEF Approved, Spent, NullifierOf, NoteResource, Resource
  <2> QED BY <2>3, <2>4
<1>5. BalancesOK'
  BY <1>1 DEF IInv, BalancesOK, BalancesTyped
<1> QED BY <1>2, <1>3, <1>4, <1>5 DEF IInv

\* A spend keeps the invariant: what it creates comes from the note it spends,
\* and it was granted.
LEMMA ExecuteIInv ==
  ASSUME IInv, NEW p \in Approved, NEW chosen \in SignatureChoices(p.note.vault),
         Execute(p, chosen)
  PROVE  IInv'
<1>1. SpendEffects(p, chosen)
  BY SpendNotes
<1>2. /\ p \in Proposals /\ WellFormed(p)
      /\ Authorised(SignedWitness(p, chosen))
      /\ p.note \in Unspent
      /\ notes' = notes \cup CreatedNotes(p)
      /\ \A n \in CreatedNotes(p), m \in notes : n.nonce # m.nonce
      /\ nullifiers' = nullifiers
           \cup {NullifierOf(p.note), ZeroNullifier(p)}
           \cup (IF p.give = 0 THEN {} ELSE {GivenNullifier(p)})
      /\ MovedTo(balance', MULTISIG_FORWARDER, p.payee, p.pay)
      /\ UNCHANGED <<allowance, approvals>>
      /\ executed' = executed \cup {p}
      /\ \A n \in notes : (Spent(n))' <=> Spent(n) \/ n = p.note
      /\ Deposits' = Deposits
  BY <1>1 DEF SpendEffects
<1>3. /\ p.note \in notes /\ p.pay \in Nat /\ p.give \in Nat
      /\ p.payee \in Payees /\ p.to \in Vaults
      /\ p.note.vault \in Vaults /\ p.note.quantity \in Quantity
  BY <1>2, ProposalFields DEF IInv, NotesOK
<1>4. (Spent(p.note))'
  BY <1>2, <1>3
<1>5. /\ \A n \in CreatedNotes(p) :
           /\ n = [vault |-> n.vault, quantity |-> n.quantity, nonce |-> n.nonce]
           /\ n.vault \in Vaults
           /\ n.quantity \in Quantity
      /\ \A n, m \in CreatedNotes(p) : n.nonce = m.nonce => n = m
      /\ IsFiniteSet(CreatedNotes(p))
      /\ \A n \in CreatedNotes(p) : \E part \in {"change", "recipient"} :
           n.nonce = Derived(p.note.nonce, part)
  <2>1. /\ p.note.quantity - p.pay - p.give \in Quantity
        /\ p.give \in Quantity
    BY <1>2, <1>3, MaxU128Assumption DEF WellFormed, Quantity
  <2>2. /\ CreatedNotes(p) = {ChangeNote(p)}
           \/ CreatedNotes(p) = {ChangeNote(p)} \cup {RecipientNote(p)}
        /\ IsFiniteSet({ChangeNote(p)})
        /\ IsFiniteSet({RecipientNote(p)})
    BY FS_Singleton DEF CreatedNotes
  <2>3. IsFiniteSet(CreatedNotes(p))
    BY <2>2, FS_Union
  <2>4. /\ ChangeNote(p) = [vault |-> ChangeNote(p).vault,
                            quantity |-> ChangeNote(p).quantity,
                            nonce |-> ChangeNote(p).nonce]
        /\ RecipientNote(p) = [vault |-> RecipientNote(p).vault,
                               quantity |-> RecipientNote(p).quantity,
                               nonce |-> RecipientNote(p).nonce]
    BY DEF ChangeNote, RecipientNote
  <2>5. \A n \in CreatedNotes(p) : n = ChangeNote(p) \/ n = RecipientNote(p)
    BY <2>2
  <2> QED BY <1>3, <2>1, <2>3, <2>4, <2>5, CreatedFields
<1>6. NotesOK'
  <2>1. IsFiniteSet(notes')
    BY <1>2, <1>5, FS_Union DEF IInv, NotesOK
  <2> QED BY <1>2, <1>5, <2>1 DEF IInv, NotesOK
<1>7. NoncesOK'
  <2>1. ASSUME NEW n \in notes
        PROVE  (FromDeposit(n.nonce) \/ FromSpent(n.nonce, {"change", "recipient"}))'
    <3>1. CASE FromDeposit(n.nonce)
      BY <1>2, <3>1 DEF FromDeposit
    <3>2. CASE FromSpent(n.nonce, {"change", "recipient"})
      BY <1>2, <3>2 DEF FromSpent
    <3> QED BY <3>1, <3>2 DEF IInv, NoncesOK
  <2>2. ASSUME NEW n \in CreatedNotes(p)
        PROVE  FromSpent(n.nonce, {"change", "recipient"})'
    BY <1>2, <1>3, <1>4, <1>5 DEF FromSpent
  <2> QED BY <1>2, <2>1, <2>2 DEF NoncesOK
<1>8. NullifiersOK'
  <2> SUFFICES ASSUME NEW x \in nullifiers'
               PROVE  (\/ \E n \in notes : x = NullifierOf(n)
                       \/ /\ NullifiedBy(x).is_ephemeral
                          /\ UsedBefore(NullifiedBy(x)))'
    BY DEF NullifiersOK
  <2>1. CASE x \in nullifiers
    <3>1. CASE \E n \in notes : x = NullifierOf(n)
      BY <1>2, <3>1 DEF NullifierOf, NoteResource, Resource
    <3>2. CASE NullifiedBy(x).is_ephemeral /\ UsedBefore(NullifiedBy(x))
      <4>1. UsedBefore(NullifiedBy(x))'
        BY <1>2, <3>2, UsesStay
      <4> QED BY <3>2, <4>1 DEF NullifiedBy
    <3> QED BY <2>1, <3>1, <3>2 DEF IInv, NullifiersOK
  <2>2. CASE x = NullifierOf(p.note)
    BY <1>2, <1>3, <2>2 DEF NullifierOf, NoteResource, Resource
  <2>3. CASE x = ZeroNullifier(p) \/ x = GivenNullifier(p)
    <3>1. /\ NullifiedBy(x).is_ephemeral = TRUE
          /\ \E part \in {"zero", "given"} :
               NullifiedBy(x).nonce = Derived(p.note.nonce, part)
      BY <2>3, NullifierFields DEF ZeroNullifier, GivenNullifier
    <3>2. p.note \in notes'
      BY <1>2, <1>3
    <3>3. UsedBefore(NullifiedBy(x))'
      BY <1>4, <3>1, <3>2 DEF UsedBefore, FromSpent, NullifiedBy
    <3> QED BY <3>1, <3>3 DEF NullifiedBy
  <2> QED BY <1>2, <2>1, <2>2, <2>3
<1>9. ApprovalsOK'
  BY <1>2, ApprovalsStay
<1>10. ExecutedOK'
  <2>1. GrantedBy(p)
    BY <1>2, AuthorisedGranted
  <2>2. ASSUME NEW q \in executed'
        PROVE  q \in Approved /\ GrantedBy(q) /\ q.note \in notes /\ (Spent(q.note))'
    <3>1. CASE q \in executed
      <4>1. q \in Approved /\ Spent(q.note) /\ GrantedBy(q)
        BY <3>1 DEF IInv, ExecutedOK
      <4>2. q.note \in notes
        BY <4>1, ProposalFields DEF Approved, IInv, ApprovalsOK
      <4> QED BY <1>2, <4>1, <4>2
    <3>2. CASE q = p
      BY <1>3, <1>4, <2>1, <3>2
    <3> QED BY <1>2, <3>1, <3>2
  <2>3. ASSUME NEW q \in executed' PROVE (q \in Approved /\ GrantedBy(q))'
    BY <1>2, <2>2 DEF Approved, GrantedBy, Approvers
  <2> QED BY <2>2, <2>3 DEF ExecutedOK
<1>11. BalancesOK'
  <2>1. BalancesTyped'
    BY <1>2 DEF MovedTo, BalancesTyped, IInv, BalancesOK
  <2>2. ASSUME NEW a \in Donors PROVE balance'[<<Token, a>>] <= InitBalance
    <3>1. a \in Accounts /\ a # p.payee /\ a # MULTISIG_FORWARDER
      BY <1>3, AccountsAssumption DEF Accounts
    <3>2. balance'[<<Token, a>>] = balance[<<Token, a>>] - 0 + 0
      BY <1>2, <3>1 DEF MovedTo
    <3>3. balance[<<Token, a>>] \in Nat /\ balance[<<Token, a>>] <= InitBalance
      BY <3>1 DEF IInv, BalancesOK, BalancesTyped
    <3> QED BY <3>2, <3>3
  <2> QED BY <2>1, <2>2 DEF BalancesOK
<1> QED BY <1>6, <1>7, <1>8, <1>9, <1>10, <1>11 DEF IInv

\* Nothing happens.
LEMMA StutterIInv == IInv /\ UNCHANGED vars => IInv'
<1> SUFFICES ASSUME IInv, UNCHANGED vars PROVE IInv'
  OBVIOUS
<1>1. NotesOK' /\ NoncesOK' /\ NullifiersOK'
  BY DEF vars, IInv, NotesOK, NoncesOK, NullifiersOK, FromDeposit, FromSpent,
     UsedBefore, Spent, NullifierOf, NoteResource, Resource, Deposits, NullifiedBy
<1>2. ApprovalsOK'
  BY ApprovalsStay DEF vars
<1>3. ExecutedOK'
  BY DEF vars, IInv, ExecutedOK, Approved, GrantedBy, Approvers, Spent, NullifierOf,
     NoteResource, Resource
<1>4. BalancesOK'
  BY DEF vars, IInv, BalancesOK, BalancesTyped
<1> QED BY <1>1, <1>2, <1>3, <1>4 DEF IInv

\* Every step keeps it.
LEMMA NextIInv == IInv /\ [Next]_vars => IInv'
<1> SUFFICES ASSUME IInv, [Next]_vars PROVE IInv'
  OBVIOUS
<1>1. ASSUME NEW v \in Vaults, NEW d \in Depositors, NEW q \in DepositQuantities,
             NEW amount \in DepositAmounts, Deposit(v, d, q, amount)
      PROVE  IInv'
  BY <1>1, DepositIInv
<1>2. ASSUME NEW donor \in Donors, Donate(donor) PROVE IInv'
  BY <1>2, DonateIInv
<1>3. ASSUME NEW p \in {q \in Proposals : WellFormed(q)},
             NEW key \in ToSet(Pubkeys[p.note.vault]), Approve(key, p)
      PROVE  IInv'
  BY <1>3, ApproveIInv
<1>4. ASSUME NEW p \in Approved, NEW chosen \in SignatureChoices(p.note.vault),
             Execute(p, chosen)
      PROVE  IInv'
  BY <1>4, ExecuteIInv
<1>5. CASE UNCHANGED vars
  BY <1>5, StutterIInv
<1> QED BY <1>1, <1>2, <1>3, <1>4, <1>5 DEF Next

\* The specification keeps it.
LEMMA Inductive == Spec => []IInv
  BY InitIInv, NextIInv, PTL DEF Spec

-----------------------------------------------------------------------------
(* What the notes are worth. *)

\* A set of notes that can be added up.
Countable(S) == IsFiniteSet(S) /\ \A n \in S : n.quantity \in Nat

\* One more note.
LEMMA TotalAdd ==
  ASSUME NEW S, Countable(S), NEW x, x \notin S, x.quantity \in Nat
  PROVE  Total(S \cup {x}) = Total(S) + x.quantity /\ Total(S) \in Nat
<1> DEFINE T == S \cup {x}
           f == [n \in T |-> n.quantity]
           g == [n \in S |-> n.quantity]
<1>1. /\ IsFiniteSet(S) /\ x \notin S
      /\ \A y \in S \cup {x} : f[y] \in Int
      /\ \A y \in S : f[y] = g[y]
      /\ \A y \in S : g[y] \in Nat
      /\ f[x] = x.quantity
  BY DEF Countable
<1>2. Total(T) = SumFunctionOnSet(f, S \cup {x}) /\ Total(S) = SumFunctionOnSet(g, S)
  BY DEF Total, SumFunction
<1> HIDE DEF f, g, T
<1>3. SumFunctionOnSet(f, S \cup {x}) = f[x] + SumFunctionOnSet(f, S)
  BY <1>1, SumAdd
<1>4. SumFunctionOnSet(f, S) = SumFunctionOnSet(g, S)
  BY <1>1, SumSame
<1>5. SumFunctionOnSet(g, S) \in Nat
  BY <1>1, SumNat
<1>6. Total(T) = Total(S) + x.quantity
  BY <1>1, <1>2, <1>3, <1>4, <1>5
<1> QED BY <1>2, <1>5, <1>6 DEF T

\* Those of these notes that belong to one of these vaults.
HeldBy(S, V) == {n \in S : n.vault \in V}

\* The unspent ones, and what they are worth.
UnspentOf(V) == HeldBy(Unspent, V)

Owned(V) == Total(UnspentOf(V))

\* They can be added up.
LEMMA UnspentCountable ==
  ASSUME IInv, NEW V
  PROVE  Countable(UnspentOf(V))
<1>1. UnspentOf(V) \subseteq notes /\ IsFiniteSet(notes)
  BY DEF UnspentOf, HeldBy, Unspent, IInv, NotesOK
<1>2. IsFiniteSet(UnspentOf(V))
  BY <1>1, FS_Subset
<1>3. \A n \in notes : n.quantity \in Nat
  BY MaxU128Assumption DEF IInv, NotesOK, Quantity
<1> QED BY <1>1, <1>2, <1>3 DEF Countable

\* A sum is a number.
LEMMA OwnedNat ==
  ASSUME IInv, NEW V
  PROVE  Owned(V) \in Nat
<1> DEFINE S == UnspentOf(V)
           g == [n \in S |-> n.quantity]
<1>1. IsFiniteSet(S) /\ \A n \in S : g[n] \in Nat
  BY UnspentCountable DEF Countable
<1>2. Owned(V) = SumFunctionOnSet(g, S)
  BY DEF Owned, Total, SumFunction
<1> HIDE DEF g, S
<1>3. SumFunctionOnSet(g, S) \in Nat
  BY <1>1, SumNat
<1> QED BY <1>2, <1>3

\* A deposit adds its quantity to what its vault owns.
LEMMA OwnedAfterDeposit ==
  ASSUME IInv, NEW v, NEW d, NEW q, NEW amount, NEW note,
         DepositEffects(v, d, q, amount, note), NEW V
  PROVE  Owned(V)' = Owned(V) + (IF v \in V THEN q ELSE 0)
<1>1. /\ note.vault = v /\ note.quantity = q /\ q \in Nat
      /\ Unspent' = Unspent \cup {note}
      /\ \A n \in notes : n.nonce # note.nonce
  BY MaxU128Assumption DEF DepositEffects, Quantity
<1>2. note \notin UnspentOf(V)
  BY <1>1 DEF UnspentOf, HeldBy, Unspent
<1>3. Countable(UnspentOf(V)) /\ Owned(V) \in Nat
  BY UnspentCountable, OwnedNat
<1>4. CASE v \in V
  <2>1. UnspentOf(V)' = UnspentOf(V) \cup {note}
    BY <1>1, <1>4 DEF UnspentOf, HeldBy
  <2>2. Total(UnspentOf(V) \cup {note}) = Total(UnspentOf(V)) + note.quantity
    BY <1>1, <1>2, <1>3, TotalAdd
  <2>3. Owned(V)' = Total(UnspentOf(V)')
    BY DEF Owned, Total
  <2> QED BY <1>1, <1>4, <2>1, <2>2, <2>3 DEF Owned
<1>5. CASE v \notin V
  <2>1. UnspentOf(V)' = UnspentOf(V)
    BY <1>1, <1>5 DEF UnspentOf, HeldBy
  <2>2. Owned(V)' = Total(UnspentOf(V)')
    BY DEF Owned, Total
  <2> QED BY <1>3, <1>5, <2>1, <2>2 DEF Owned
<1> QED BY <1>4, <1>5

\* What one note adds to them.
Worth(n, V) == IF n.vault \in V THEN n.quantity ELSE 0

\* One more note among notes of which those of V are counted.
LEMMA CountedAdd ==
  ASSUME NEW S, NEW V, Countable(HeldBy(S, V)), NEW x, x \notin S,
         x.quantity \in Nat
  PROVE  /\ Total(HeldBy(S \cup {x}, V))
              = Total(HeldBy(S, V)) + Worth(x, V)
         /\ Countable(HeldBy(S \cup {x}, V))
         /\ Total(HeldBy(S, V)) \in Int
<1> DEFINE A == HeldBy(S, V)
           B == HeldBy(S \cup {x}, V)
           g == [n \in A |-> n.quantity]
<1>1. Countable(A) /\ x \notin A
  BY DEF HeldBy
<1>2. B = IF x.vault \in V THEN A \cup {x} ELSE A
  BY DEF HeldBy
<1>3. Total(A) \in Int
  <2>1. IsFiniteSet(A) /\ \A n \in A : g[n] \in Int
    BY <1>1 DEF Countable
  <2>2. Total(A) = SumFunctionOnSet(g, A)
    BY DEF Total, SumFunction
  <2> HIDE DEF g, A
  <2> QED BY <2>1, <2>2, SumInt
<1> HIDE DEF A, B
<1>4. Total(B) = Total(A) + Worth(x, V)
  BY <1>1, <1>2, <1>3, TotalAdd DEF Worth
<1>5. Countable(B)
  BY <1>1, <1>2, FS_AddElement DEF Countable
<1> QED BY <1>3, <1>4, <1>5 DEF A, B

\* One note less among them.
LEMMA CountedRemove ==
  ASSUME NEW S, NEW V, Countable(HeldBy(S, V)), NEW x \in S,
         x.quantity \in Nat
  PROVE  /\ Total(HeldBy(S \ {x}, V))
              = Total(HeldBy(S, V)) - Worth(x, V)
         /\ Countable(HeldBy(S \ {x}, V))
<1> DEFINE T == S \ {x}
           A == HeldBy(T, V)
<1>1. T \cup {x} = S /\ x \notin T
  OBVIOUS
<1>2. Countable(A)
  <2>1. A \subseteq HeldBy(S, V)
    BY DEF HeldBy
  <2> QED BY <2>1, FS_Subset DEF Countable
<1>3. x.vault \in V => Total(HeldBy(S, V)) = Total(A) + x.quantity
  <2> SUFFICES ASSUME x.vault \in V
               PROVE  Total(HeldBy(S, V)) = Total(A) + x.quantity
    OBVIOUS
  <2>1. HeldBy(S, V) = A \cup {x} /\ x \notin A
    BY DEF HeldBy
  <2> HIDE DEF A
  <2>2. Total(A \cup {x}) = Total(A) + x.quantity
    BY <1>2, <2>1, TotalAdd
  <2> QED BY <2>1, <2>2
<1>4. x.vault \notin V => Total(HeldBy(S, V)) = Total(A)
  <2> SUFFICES ASSUME x.vault \notin V
               PROVE  Total(HeldBy(S, V)) = Total(A)
    OBVIOUS
  <2>1. HeldBy(S, V) = A
    BY DEF HeldBy
  <2> QED BY <2>1
<1>5. Total(A) \in Int
  <2> DEFINE g == [n \in A |-> n.quantity]
  <2>1. IsFiniteSet(A) /\ \A n \in A : g[n] \in Int
    BY <1>2 DEF Countable
  <2>2. Total(A) = SumFunctionOnSet(g, A)
    BY DEF Total, SumFunction
  <2> HIDE DEF g, A
  <2> QED BY <2>1, <2>2, SumInt
<1>6. Total(A) = Total(HeldBy(S, V)) - Worth(x, V)
  <2> DEFINE all == Total(HeldBy(S, V))
             rest == Total(A)
             w == x.quantity
  <2>1. x.vault \in V => all = rest + w
    BY <1>3
  <2>2. x.vault \notin V => all = rest
    BY <1>4
  <2>3. rest \in Int /\ w \in Int
    BY <1>5
  <2>4. Worth(x, V) = IF x.vault \in V THEN w ELSE 0
    BY DEF Worth
  <2> HIDE DEF all, rest, w
  <2>5. rest = all - Worth(x, V)
    BY <2>1, <2>2, <2>3, <2>4
  <2> QED BY <2>5 DEF all, rest
<1> QED BY <1>2, <1>6

\* A spend takes what leaves the note from its vault, and gives the recipient
\* its part.
LEMMA OwnedAfterSpend ==
  ASSUME IInv, NEW p, NEW chosen, SpendEffects(p, chosen), NEW V
  PROVE  Owned(V)' = Owned(V) - (IF p.note.vault \in V THEN p.pay + p.give ELSE 0)
                              + (IF p.to \in V THEN p.give ELSE 0)
<1> DEFINE c == ChangeNote(p)
           r == RecipientNote(p)
           A == Unspent \ {p.note}
           B == A \cup {c}
<1>1. /\ p \in Proposals /\ WellFormed(p) /\ p.note \in Unspent
      /\ \A n \in CreatedNotes(p), m \in notes : n.nonce # m.nonce
      /\ Unspent' = A \cup CreatedNotes(p)
  BY DEF SpendEffects
<1>2. /\ p.pay \in Nat /\ p.give \in Nat /\ p.note.quantity \in Nat
      /\ p.pay + p.give <= p.note.quantity
      /\ p.give = 0 => p.to = p.note.vault
  BY <1>1, ProposalFields, MaxU128Assumption DEF IInv, NotesOK, Quantity, WellFormed
<1>3. /\ c.vault = p.note.vault /\ c.quantity = p.note.quantity - p.pay - p.give
      /\ r.vault = p.to /\ r.quantity = p.give
      /\ c.nonce # r.nonce
  BY NoncesDiffer DEF ChangeNote, RecipientNote
<1>4. /\ c \notin A
      /\ CreatedNotes(p) = IF p.give = 0 THEN {c} ELSE {c} \cup {r}
      /\ p.give # 0 => r \notin B
  BY <1>1, <1>3 DEF CreatedNotes, Unspent
<1>5. Countable(HeldBy(Unspent, V)) /\ Owned(V) \in Nat
  BY UnspentCountable, OwnedNat DEF UnspentOf
<1>6. /\ Owned(V) = Total(HeldBy(Unspent, V))
      /\ Owned(V)' = Total(HeldBy(Unspent', V))
  BY DEF Owned, UnspentOf, Total, HeldBy
<1> HIDE DEF c, r
<1>7. /\ Total(HeldBy(A, V)) = Total(HeldBy(Unspent, V)) - Worth(p.note, V)
      /\ Countable(HeldBy(A, V))
  BY <1>1, <1>2, <1>5, CountedRemove
<1> HIDE DEF A
<1>8. c.quantity \in Nat
  BY <1>2, <1>3
<1>9. /\ Total(HeldBy(B, V)) = Total(HeldBy(A, V)) + Worth(c, V)
      /\ Countable(HeldBy(B, V))
      /\ Total(HeldBy(A, V)) \in Int
  BY <1>4, <1>7, <1>8, CountedAdd
<1> HIDE DEF B
<1>10. CASE p.give = 0
  <2>1. Unspent' = B
    BY <1>1, <1>4, <1>10 DEF B
  <2>2. Owned(V)' = Owned(V) - Worth(p.note, V) + Worth(c, V)
    BY <1>6, <1>7, <1>9, <2>1
  <2> QED BY <1>2, <1>3, <1>5, <1>10, <2>2 DEF Worth
<1>11. CASE p.give # 0
  <2>1. Unspent' = B \cup {r}
    BY <1>1, <1>4, <1>11 DEF B
  <2>2. Total(HeldBy(B \cup {r}, V)) = Total(HeldBy(B, V)) + Worth(r, V)
    BY <1>2, <1>3, <1>4, <1>9, <1>11, CountedAdd
  <2>3. Owned(V)' = Owned(V) - Worth(p.note, V) + Worth(c, V) + Worth(r, V)
    <3>1. Worth(r, V) \in Nat /\ Worth(c, V) \in Nat
      BY <1>2, <1>3, <1>8 DEF Worth
    <3> QED BY <1>6, <1>7, <1>9, <2>1, <2>2, <3>1
  <2> QED BY <1>2, <1>3, <1>5, <2>3 DEF Worth
<1> QED BY <1>10, <1>11

\* What the notes are worth stays while notes and nullifiers do.
LEMMA OwnedStays ==
  ASSUME UNCHANGED <<notes, nullifiers>>, NEW V
  PROVE  Owned(V)' = Owned(V)
BY DEF Owned, UnspentOf, HeldBy, Unspent, Spent, NullifierOf, NoteResource, Resource, Total

\* Without notes there is nothing.
LEMMA NothingOwned ==
  ASSUME notes = {}, NEW V
  PROVE  Owned(V) = 0
<1> DEFINE S == UnspentOf(V)
           g == [n \in S |-> n.quantity]
<1>1. S = {}
  BY DEF UnspentOf, HeldBy, Unspent
<1>2. Owned(V) = SumFunctionOnSet(g, S)
  BY DEF Owned, Total, SumFunction
<1> HIDE DEF S, g
<1> QED BY <1>1, <1>2, SumEmpty

-----------------------------------------------------------------------------
(* The tokens in the forwarder. *)

\* What an account has paid in.
PaidIn(d) == InitBalance - balance[<<Token, d>>]

\* What some of the accounts paid in is a number.
LEMMA PaidInInt ==
  ASSUME IInv, NEW S \in SUBSET Accounts, IsFiniteSet(S)
  PROVE  PaidInBy(S) \in Int
<1> DEFINE f == [d \in S |-> PaidIn(d)]
<1>1. ASSUME NEW d \in S PROVE f[d] \in Int
  <2>1. balance[<<Token, d>>] \in Nat
    BY DEF IInv, BalancesOK, BalancesTyped
  <2> QED BY <2>1, AmountsAssumption DEF PaidIn
<1>2. PaidInBy(S) = SumFunctionOnSet(f, S)
  BY DEF PaidInBy, SumFunction, PaidIn
<1> HIDE DEF f
<1> QED BY <1>1, <1>2, SumInt

\* What was donated is not negative: donors never get anything back.
LEMMA DonatedNat ==
  ASSUME IInv
  PROVE  Donated \in Nat
<1> DEFINE f == [d \in Donors |-> PaidIn(d)]
<1>1. ASSUME NEW d \in Donors PROVE f[d] \in Nat
  <2>1. d \in Accounts
    BY DEF Accounts
  <2>2. balance[<<Token, d>>] \in Nat /\ balance[<<Token, d>>] <= InitBalance
    BY <2>1 DEF IInv, BalancesOK, BalancesTyped
  <2> QED BY <2>2, AmountsAssumption DEF PaidIn
<1>2. IsFiniteSet(Donors)
  BY AccountsAssumption
<1>3. Donated = SumFunctionOnSet(f, Donors)
  BY DEF Donated, PaidInBy, SumFunction, PaidIn
<1> HIDE DEF f
<1> QED BY <1>1, <1>2, <1>3, SumNat

\* One of the accounts pays one that is not among them.
LEMMA PaidInAfter ==
  ASSUME IInv, NEW S \in SUBSET Accounts, IsFiniteSet(S), NEW from \in S,
         NEW to \in Accounts \ S, NEW amount \in Nat,
         MovedTo(balance', from, to, amount)
  PROVE  PaidInBy(S)' = PaidInBy(S) + amount
<1> DEFINE f == [d \in S |-> PaidIn(d)]
           g == [d \in S |-> PaidIn(d)']
<1>1. ASSUME NEW d \in S
      PROVE  /\ f[d] \in Int /\ g[d] \in Int
             /\ g[d] = f[d] + (IF d = from THEN amount ELSE 0)
  <2>1. balance'[<<Token, d>>]
          = balance[<<Token, d>>] - (IF d = from THEN amount ELSE 0) + 0
    BY DEF MovedTo
  <2>2. balance[<<Token, d>>] \in Nat
    BY DEF IInv, BalancesOK, BalancesTyped
  <2>3. f[d] = InitBalance - balance[<<Token, d>>]
        /\ g[d] = InitBalance - balance'[<<Token, d>>]
    BY DEF PaidIn
  <2> HIDE DEF f, g
  <2> QED BY <2>1, <2>2, <2>3, AmountsAssumption
<1>2. PaidInBy(S) = SumFunctionOnSet(f, S) /\ PaidInBy(S)' = SumFunctionOnSet(g, S)
  BY DEF PaidInBy, SumFunction, PaidIn
<1> HIDE DEF f, g
<1>3. SumFunctionOnSet(g, S) = SumFunctionOnSet(f, S) + g[from] - f[from]
  <2>1. \A d \in S \ {from} : f[d] = g[d]
    BY <1>1
  <2> QED BY <1>1, <2>1, SumChange
<1>4. SumFunctionOnSet(f, S) \in Int
  BY <1>1, SumInt
<1>5. g[from] = f[from] + amount /\ f[from] \in Int
  BY <1>1
<1> QED BY <1>2, <1>3, <1>4, <1>5

\* Others pay each other.
LEMMA PaidInStays ==
  ASSUME IInv, NEW S \in SUBSET Accounts, NEW from \in Accounts \ S,
         NEW to \in Accounts \ S, NEW amount \in Nat,
         MovedTo(balance', from, to, amount)
  PROVE  PaidInBy(S)' = PaidInBy(S)
<1>1. ASSUME NEW d \in S PROVE PaidIn(d)' = PaidIn(d)
  <2>1. balance[<<Token, d>>] \in Nat
    BY DEF IInv, BalancesOK, BalancesTyped
  <2>2. balance'[<<Token, d>>] = balance[<<Token, d>>] - 0 + 0
    BY DEF MovedTo
  <2> QED BY <2>1, <2>2 DEF PaidIn
<1>2. [d \in S |-> InitBalance - balance[<<Token, d>>]]
        = [d \in S |-> InitBalance - balance'[<<Token, d>>]]
  BY <1>1 DEF PaidIn
<1> QED BY <1>2 DEF PaidInBy

\* Nobody has paid yet.
LEMMA NothingPaidIn ==
  ASSUME Init, NEW S \in SUBSET (Depositors \cup Donors), IsFiniteSet(S)
  PROVE  PaidInBy(S) = 0
<1> DEFINE f == [d \in S |-> PaidIn(d)]
<1>1. ASSUME NEW d \in S PROVE f[d] = 0
  <2>1. <<Token, d>> \in {Token} \X Accounts /\ d \in Depositors \cup Donors
    BY DEF Accounts
  <2>2. balance[<<Token, d>>] = InitBalance
    BY <2>1 DEF Init
  <2> QED BY <2>2, AmountsAssumption DEF PaidIn
<1>2. PaidInBy(S) = SumFunctionOnSet(f, S)
  BY DEF PaidInBy, SumFunction, PaidIn
<1>3. {} \in SUBSET S /\ 0 \in Int
  OBVIOUS
<1> HIDE DEF f
<1>4. \A d \in S : f[d] = IF d \in {} THEN 0 ELSE 0
  BY <1>1
<1>5. SumFunctionOnSet(f, S) = 0 * Cardinality({})
  BY <1>3, <1>4, SumIndicator
<1>6. Cardinality({}) = 0
  BY FS_EmptySet
<1> QED BY <1>2, <1>5, <1>6

\* The accounts that pay in are not those the forwarder pays.
LEMMA PayersApart ==
  /\ Depositors \in SUBSET Accounts /\ IsFiniteSet(Depositors)
  /\ Donors \in SUBSET Accounts /\ IsFiniteSet(Donors)
  /\ Depositors \cap Donors = {}
  /\ MULTISIG_FORWARDER \in (Accounts \ Depositors) \cap (Accounts \ Donors)
  /\ Payees \subseteq (Accounts \ Depositors) \cap (Accounts \ Donors)
BY AccountsAssumption DEF Accounts

\* The notes of deposits can be added up.
LEMMA IssuedNat ==
  ASSUME IInv
  PROVE  Countable(Deposits) /\ Issued \in Nat
<1> DEFINE g == [n \in Deposits |-> n.quantity]
<1>1. \A n \in notes : n.quantity \in Nat
  BY MaxU128Assumption DEF IInv, NotesOK, Quantity
<1>2. Countable(Deposits)
  BY <1>1, DepositsFinite DEF Countable, Deposits
<1>3. IsFiniteSet(Deposits) /\ \A n \in Deposits : g[n] \in Nat
  BY <1>2 DEF Countable
<1>4. Issued = SumFunctionOnSet(g, Deposits)
  BY DEF Issued, Total, SumFunction
<1> HIDE DEF g
<1>5. SumFunctionOnSet(g, Deposits) \in Nat
  BY <1>3, SumNat
<1> QED BY <1>2, <1>4, <1>5

\* A deposit issues its note.
LEMMA IssuedAfterDeposit ==
  ASSUME IInv, NEW v, NEW d, NEW q, NEW amount, NEW note,
         DepositEffects(v, d, q, amount, note)
  PROVE  Issued' = Issued + q
<1>1. /\ note.quantity = q /\ q \in Nat
      /\ Deposits' = Deposits \cup {note}
      /\ note \notin Deposits
  BY MaxU128Assumption DEF DepositEffects, Quantity, Deposits
<1>2. Total(Deposits \cup {note}) = Total(Deposits) + q
  BY <1>1, IssuedNat, TotalAdd
<1>3. Issued' = Total(Deposits')
  BY DEF Issued, Total
<1> QED BY <1>1, <1>2, <1>3 DEF Issued

\* Nothing else issues one.
LEMMA IssuedStays ==
  ASSUME Deposits' = Deposits
  PROVE  Issued' = Issued
BY DEF Issued, Total

\* All unspent notes are notes of the vaults.
LEMMA UnspentOfAll ==
  ASSUME IInv
  PROVE  Total(Unspent) = Owned(Vaults)
<1>1. Unspent = UnspentOf(Vaults)
  BY DEF UnspentOf, HeldBy, Unspent, IInv, NotesOK
<1> QED BY <1>1 DEF Owned

\* CustodyAccounted, by the vaults that own the notes.
Covered == Custody + Issued = Owned(Vaults) + Wrapped + Donated

LEMMA CoveredAccounted == IInv /\ Covered => CustodyAccounted
BY UnspentOfAll DEF Covered, CustodyAccounted

\* The five terms are numbers.
LEMMA CoveredTyped ==
  ASSUME IInv
  PROVE  /\ Custody \in Nat /\ Issued \in Nat /\ Owned(Vaults) \in Nat
         /\ Wrapped \in Int /\ Donated \in Nat
<1>1. <<Token, MULTISIG_FORWARDER>> \in {Token} \X Accounts
  BY DEF Accounts
<1>2. Custody \in Nat
  BY <1>1 DEF Custody, IInv, BalancesOK, BalancesTyped
<1>3. Wrapped \in Int
  BY PayersApart, PaidInInt DEF Wrapped
<1> QED BY <1>2, <1>3, IssuedNat, OwnedNat, DonatedNat

\* Nothing in, nothing out.
LEMMA InitCovered == Init => Covered
<1> SUFFICES ASSUME Init PROVE Covered
  OBVIOUS
<1>1. Custody = 0
  <2>1. /\ <<Token, MULTISIG_FORWARDER>> \in {Token} \X Accounts
        /\ MULTISIG_FORWARDER \notin Depositors \cup Donors
    BY AccountsAssumption DEF Accounts
  <2> QED BY <2>1 DEF Init, Custody
<1>2. Owned(Vaults) = 0
  BY NothingOwned DEF Init
<1>3. Wrapped = 0 /\ Donated = 0
  BY PayersApart, NothingPaidIn DEF Wrapped, Donated
<1>4. Issued = 0
  <2> DEFINE g == [n \in Deposits |-> n.quantity]
  <2>1. Deposits = {}
    BY DEF Init, Deposits
  <2>2. Issued = SumFunctionOnSet(g, Deposits)
    BY DEF Issued, Total, SumFunction
  <2> HIDE DEF g
  <2> QED BY <2>1, <2>2, SumEmpty
<1> QED BY <1>1, <1>2, <1>3, <1>4 DEF Covered

\* What the forwarder holds after amount tokens went from one account to another.
LEMMA CustodyAfter ==
  ASSUME IInv, NEW from, NEW to, NEW amount \in Nat, MovedTo(balance', from, to, amount)
  PROVE  /\ Custody' = Custody - (IF MULTISIG_FORWARDER = from THEN amount ELSE 0)
                               + (IF MULTISIG_FORWARDER = to THEN amount ELSE 0)
         /\ Custody \in Nat
<1>1. MULTISIG_FORWARDER \in Accounts
  BY DEF Accounts
<1> QED BY <1>1 DEF MovedTo, Custody, IInv, BalancesOK, BalancesTyped

\* A deposit puts into the forwarder what it wraps, and issues what its note is
\* worth, be it more or less.
LEMMA DepositCovered ==
  ASSUME IInv, Covered, NEW v \in Vaults, NEW d \in Depositors,
         NEW q \in DepositQuantities, NEW amount \in DepositAmounts,
         Deposit(v, d, q, amount)
  PROVE  Covered'
<1> DEFINE note == DepositedNote(v, q)
<1>1. DepositEffects(v, d, q, amount, note)
  BY DepositNotes
<1> HIDE DEF note
<1>2. /\ q \in Nat /\ amount \in Nat
      /\ MovedTo(balance', d, MULTISIG_FORWARDER, amount)
  BY <1>1, AmountsAssumption, MaxU128Assumption DEF DepositEffects, Quantity
<1>3. /\ d \in Accounts \ Donors
      /\ d # MULTISIG_FORWARDER
  BY AccountsAssumption DEF Accounts
<1>4. Owned(Vaults)' = Owned(Vaults) + q
  BY <1>1, OwnedAfterDeposit
<1>5. Donated' = Donated
  BY <1>2, <1>3, PayersApart, PaidInStays DEF Donated
<1>6. Wrapped' = Wrapped + amount
  BY <1>2, PayersApart, PaidInAfter DEF Wrapped
<1>7. Issued' = Issued + q
  BY <1>1, IssuedAfterDeposit
<1>8. Custody' = Custody + amount
  BY <1>2, <1>3, CustodyAfter
<1> QED BY <1>2, <1>4, <1>5, <1>6, <1>7, <1>8, CoveredTyped DEF Covered

\* A donation, and what was donated.
LEMMA DonateCovered ==
  ASSUME IInv, Covered, NEW donor \in Donors, Donate(donor)
  PROVE  Covered'
<1> DEFINE amount == Held(balance, donor)
<1>1. MovedTo(balance', donor, MULTISIG_FORWARDER, amount)
  BY DonateBalances
<1>2. /\ amount \in Nat /\ donor # MULTISIG_FORWARDER
      /\ donor \in Accounts \ Depositors
  <2>1. donor \in Accounts
    BY DEF Accounts
  <2> QED BY <2>1, AccountsAssumption DEF Held, IInv, BalancesOK, BalancesTyped
<1> HIDE DEF amount
<1>3. Donated' = Donated + amount
  BY <1>1, <1>2, PayersApart, PaidInAfter DEF Donated
<1>4. Wrapped' = Wrapped
  BY <1>1, <1>2, PayersApart, PaidInStays DEF Wrapped
<1>5. Custody' = Custody + amount
  BY <1>1, <1>2, CustodyAfter
<1>6. Owned(Vaults)' = Owned(Vaults)
  BY OwnedStays DEF Donate
<1>7. Issued' = Issued
  BY IssuedStays DEF Donate, Deposits
<1> QED BY <1>2, <1>3, <1>4, <1>5, <1>6, <1>7, CoveredTyped DEF Covered

\* A spend takes out of the forwarder what leaves the vaults: what goes from
\* one vault to another stays.
LEMMA ExecuteCovered ==
  ASSUME IInv, Covered, NEW p \in Approved, NEW chosen, Execute(p, chosen)
  PROVE  Covered'
<1>1. SpendEffects(p, chosen)
  BY SpendNotes
<1>2. /\ p \in Proposals
      /\ MovedTo(balance', MULTISIG_FORWARDER, p.payee, p.pay)
      /\ Deposits' = Deposits
  BY <1>1 DEF SpendEffects
<1>3. /\ p.pay \in Nat /\ p.give \in Nat /\ p.payee \in Payees
      /\ p.note.vault \in Vaults /\ p.to \in Vaults
  BY <1>2, ProposalFields DEF IInv, NotesOK
<1>4. p.payee # MULTISIG_FORWARDER
  BY <1>3, AccountsAssumption
<1>5. Owned(Vaults)' = Owned(Vaults) - (p.pay + p.give) + p.give
  BY <1>1, <1>3, OwnedAfterSpend
<1>6. Donated' = Donated /\ Wrapped' = Wrapped
  BY <1>2, <1>3, PayersApart, PaidInStays DEF Donated, Wrapped
<1>7. Issued' = Issued
  BY <1>2, IssuedStays
<1>8. Custody' = Custody - p.pay
  BY <1>2, <1>3, <1>4, CustodyAfter
<1> QED BY <1>3, <1>5, <1>6, <1>7, <1>8, CoveredTyped DEF Covered

\* Every step keeps the accounts.
LEMMA NextCovered == IInv /\ Covered /\ [Next]_vars => Covered'
<1> SUFFICES ASSUME IInv, Covered, [Next]_vars PROVE Covered'
  OBVIOUS
<1>1. ASSUME NEW v \in Vaults, NEW d \in Depositors, NEW q \in DepositQuantities,
             NEW amount \in DepositAmounts, Deposit(v, d, q, amount)
      PROVE  Covered'
  BY <1>1, DepositCovered
<1>2. ASSUME NEW donor \in Donors, Donate(donor) PROVE Covered'
  BY <1>2, DonateCovered
<1>3. ASSUME UNCHANGED <<notes, nullifiers, balance>> PROVE Covered'
  <2>1. Owned(Vaults)' = Owned(Vaults)
    BY <1>3, OwnedStays
  <2>2. Issued' = Issued
    BY <1>3, IssuedStays DEF Deposits
  <2>3. Custody' = Custody /\ Wrapped' = Wrapped /\ Donated' = Donated
    BY <1>3 DEF Custody, Wrapped, Donated, PaidInBy
  <2> QED BY <2>1, <2>2, <2>3 DEF Covered
<1>4. ASSUME NEW p \in Proposals, NEW key, Approve(key, p) PROVE Covered'
  BY <1>3, <1>4 DEF Approve
<1>5. ASSUME NEW p \in Approved, NEW chosen, Execute(p, chosen) PROVE Covered'
  BY <1>5, ExecuteCovered
<1>6. CASE UNCHANGED vars
  BY <1>3, <1>6 DEF vars
<1> QED BY <1>1, <1>2, <1>4, <1>5, <1>6 DEF Next

-----------------------------------------------------------------------------
(* The theorems. *)

\* The invariant says what the state is made of.
LEMMA InvariantTyped == IInv => TypeOK
BY ProposalFields
   DEF IInv, NotesOK, BalancesOK, BalancesTyped, ExecutedOK, ApprovalsOK, Approved, TypeOK

\* Notes, balances and proposals stay what they are, whatever the vaults, the
\* amounts and the order of the transactions: no balance and no allowance
\* becomes negative, and no note worth more than a quantity can be.
THEOREM TypeCorrect == Spec => []TypeOK
BY Inductive, InvariantTyped, PTL

\* What the adapter executed was approved by k different holders of the
\* vault's keys, for this note, payee, recipient and amounts
\* (constrain.rs:261-273), whatever signatures were collected and submitted.
THEOREM ApprovedSpends == Spec => []ExecutedAsApproved
<1>1. IInv => ExecutedAsApproved
  BY DEF IInv, ExecutedOK, ExecutedAsApproved
<1> QED BY <1>1, Inductive, PTL

\* Custody and unspent notes differ by what deposits wrapped more or less than
\* they created, and by what was donated (README.md:113 and 352,
\* constrain.rs:358), whatever the number of vaults, signers, depositors and
\* donors, and whatever they deposit, propose and spend.
THEOREM CustodyIsAccounted == Spec => []CustodyAccounted
<1>1. Spec => []Covered
  BY InitCovered, NextCovered, Inductive, PTL DEF Spec
<1> QED BY <1>1, Inductive, CoveredAccounted, PTL

\* Every unspent note has its tokens, if the deposits are backed.
Solvent == Backed => Total(Unspent) <= Custody

\* Where deposits together wrapped what they created, the forwarder is solvent
\* to the token (README.md:113): no spend of any vault can make it otherwise.
COROLLARY BackedSolvency == Spec => []Solvent
<1>1. IInv /\ Covered => Solvent
  BY CoveredTyped, UnspentOfAll DEF Covered, Backed, Solvent
<1>2. Spec => []Covered
  BY InitCovered, NextCovered, Inductive, PTL DEF Spec
<1> QED BY <1>1, <1>2, Inductive, PTL

-----------------------------------------------------------------------------
(* The vault ledger. *)

\* What one vault owns.
HeldIn == [v \in Vaults |-> Holdings(v)]

\* What the payees have.
Received == [a \in Payees |-> balance[<<Token, a>>]]

\* The proposals that k signers approved.
Granted == {p \in Approved : GrantedBy(p)}

\* The notes of the executed proposals.
Carried == {p.note : p \in executed}

\* The holdings of a vault are what it owns alone.
LEMMA HoldingsOwned ==
  /\ \A v \in Vaults : Holdings(v) = Owned({v})
  /\ \A v \in Vaults : Holdings(v)' = Owned({v})'
<1>1. \A v : {n \in Unspent : n.vault = v} = UnspentOf({v})
  BY DEF UnspentOf, HeldBy
<1>2. \A v : {n \in Unspent' : n.vault = v} = UnspentOf({v})'
  BY DEF UnspentOf, HeldBy
<1>3. \A v \in Vaults : Holdings(v) = Owned({v})
  BY <1>1 DEF Holdings, Owned
<1>4. \A v \in Vaults : Holdings(v)' = Owned({v})'
  BY <1>2 DEF Holdings, Owned, Total
<1> QED BY <1>3, <1>4

\* Payees are paid by spends alone.
LEMMA ReceivedStays ==
  ASSUME IInv, NEW from \in Accounts \ Payees, NEW to \in Accounts \ Payees,
         NEW amount \in Nat, MovedTo(balance', from, to, amount)
  PROVE  Received' = Received
<1>1. ASSUME NEW a \in Payees PROVE balance'[<<Token, a>>] = balance[<<Token, a>>]
  <2>1. a \in Accounts
    BY DEF Accounts
  <2>2. balance[<<Token, a>>] \in Nat
    BY <2>1 DEF IInv, BalancesOK, BalancesTyped
  <2>3. balance'[<<Token, a>>] = balance[<<Token, a>>] - 0 + 0
    BY <2>1 DEF MovedTo
  <2> QED BY <2>2, <2>3
<1> QED BY <1>1 DEF Received

\* Holdings stay while notes and nullifiers do.
LEMMA HeldInStays ==
  ASSUME UNCHANGED <<notes, nullifiers>>
  PROVE  HeldIn' = HeldIn
<1>1. ASSUME NEW v \in Vaults PROVE Holdings(v)' = Holdings(v)
  BY HoldingsOwned, OwnedStays
<1> QED BY <1>1 DEF HeldIn

\* The ledger starts empty.
LEMMA InitLedger == Init => Ledger!Init
<1> SUFFICES ASSUME Init PROVE Ledger!Init
  OBVIOUS
<1>1. [v \in Vaults |-> Holdings(v)] = [v \in Vaults |-> 0]
  <2>1. \A v \in Vaults : Holdings(v) = 0
    BY HoldingsOwned, NothingOwned DEF Init
  <2> QED BY <2>1
<1>2. ASSUME NEW a \in Payees PROVE balance[<<Token, a>>] = 0
  <2>1. <<Token, a>> \in {Token} \X Accounts /\ a \notin Depositors \cup Donors
    BY AccountsAssumption DEF Accounts
  <2> QED BY <2>1 DEF Init
<1>3. {p \in Approved : GrantedBy(p)} = {} /\ {p.note : p \in executed} = {}
  BY DEF Init, Approved
<1> QED BY <1>1, <1>2, <1>3 DEF Ledger!Init

\* A deposit is a deposit of the ledger: one vault owns more.
LEMMA DepositLedger ==
  ASSUME IInv, NEW v \in Vaults, NEW d \in Depositors, NEW q \in DepositQuantities,
         NEW amount \in DepositAmounts, Deposit(v, d, q, amount)
  PROVE  Ledger!Deposit(v, q)
<1> DEFINE note == DepositedNote(v, q)
<1>1. DepositEffects(v, d, q, amount, note)
  BY DepositNotes
<1> HIDE DEF note
<1>2. /\ q \in Nat /\ amount \in Nat
      /\ MovedTo(balance', d, MULTISIG_FORWARDER, amount)
      /\ UNCHANGED <<approvals, executed>>
  BY <1>1, AmountsAssumption, MaxU128Assumption DEF DepositEffects, Quantity
<1>3. d \in Accounts \ Payees /\ MULTISIG_FORWARDER \in Accounts \ Payees
  BY AccountsAssumption DEF Accounts
<1>4. ASSUME NEW u \in Vaults
      PROVE  Holdings(u)' = IF u = v THEN Holdings(u) + q ELSE Holdings(u)
  <2>1. Owned({u})' = Owned({u}) + (IF v \in {u} THEN q ELSE 0) /\ Owned({u}) \in Nat
    BY <1>1, OwnedAfterDeposit, OwnedNat
  <2> QED BY <1>2, <2>1, HoldingsOwned
<1>5. HeldIn' = [HeldIn EXCEPT ![v] = @ + q]
  BY <1>4 DEF HeldIn
<1>6. Received' = Received
  BY <1>2, <1>3, ReceivedStays
<1>7. Granted' = Granted /\ Carried' = Carried
  BY <1>2 DEF Granted, Approved, GrantedBy, Approvers, Carried
<1> QED BY <1>5, <1>6, <1>7 DEF Ledger!Deposit, HeldIn, Received, Granted, Carried

\* A donation is none of the ledger's business.
LEMMA DonateLedger ==
  ASSUME IInv, NEW donor \in Donors, Donate(donor)
  PROVE  UNCHANGED Ledger!vars
<1>1. UNCHANGED <<notes, nullifiers, approvals, executed>>
  BY DEF Donate
<1>2. /\ MovedTo(balance', donor, MULTISIG_FORWARDER, Held(balance, donor))
      /\ Held(balance, donor) \in Nat
  <2>1. donor \in Accounts
    BY DEF Accounts
  <2> QED BY <2>1, DonateBalances DEF Held, IInv, BalancesOK, BalancesTyped
<1>3. donor \in Accounts \ Payees /\ MULTISIG_FORWARDER \in Accounts \ Payees
  BY AccountsAssumption DEF Accounts
<1>4. HeldIn' = HeldIn
  BY <1>1, HeldInStays
<1>5. Received' = Received
  BY <1>2, <1>3, ReceivedStays
<1>6. Granted' = Granted /\ Carried' = Carried
  BY <1>1 DEF Granted, Approved, GrantedBy, Approvers, Carried
<1> QED BY <1>4, <1>5, <1>6 DEF Ledger!vars, HeldIn, Received, Granted, Carried

\* A signature may grant an order, and takes none back.
LEMMA ApproveLedger ==
  ASSUME IInv, NEW p, NEW key, Approve(key, p)
  PROVE  Ledger!Grant
<1>1. /\ approvals \subseteq approvals'
      /\ UNCHANGED <<notes, nullifiers, balance, allowance, executed>>
  BY DEF Approve
<1>2. HeldIn' = HeldIn
  BY <1>1, HeldInStays
<1>3. Received' = Received /\ Carried' = Carried
  BY <1>1 DEF Received, Carried
<1>4. Granted \subseteq Granted'
  <2> SUFFICES ASSUME NEW o \in Granted PROVE o \in Granted'
    OBVIOUS
  <2>1. o \in Approved /\ GrantedBy(o)
    BY DEF Granted
  <2>2. o.note.vault \in Vaults
    <3>1. o \in Proposals
      BY <2>1 DEF Approved, IInv, ApprovalsOK
    <3> QED BY <3>1, ProposalFields DEF IInv, NotesOK
  <2>3. GrantedBy(o)'
    BY <1>1, <2>1, <2>2, GrantsStay
  <2>4. o \in Approved'
    BY <1>1, <2>1 DEF Approved
  <2> QED BY <2>3, <2>4 DEF Granted
<1> QED BY <1>2, <1>3, <1>4 DEF Ledger!Grant, HeldIn, Received, Granted, Carried

\* An executed transaction carries out one order that was granted, of a note
\* whose order was not carried out before.
LEMMA ExecuteLedger ==
  ASSUME IInv, NEW p \in Approved, NEW chosen \in SignatureChoices(p.note.vault),
         Execute(p, chosen)
  PROVE  p \in Granted /\ Ledger!Spend(p)
<1>1. SpendEffects(p, chosen)
  BY SpendNotes
<1>2. /\ p \in Proposals /\ WellFormed(p)
      /\ Authorised(SignedWitness(p, chosen))
      /\ p.note \in Unspent
      /\ MovedTo(balance', MULTISIG_FORWARDER, p.payee, p.pay)
      /\ UNCHANGED approvals
      /\ executed' = executed \cup {p}
  BY <1>1 DEF SpendEffects
<1>3. /\ p.pay \in Nat /\ p.give \in Nat /\ p.payee \in Payees
      /\ p.note.vault \in Vaults /\ p.to \in Vaults
  BY <1>2, ProposalFields DEF IInv, NotesOK
<1>4. p \in Granted
  BY <1>2, AuthorisedGranted DEF Granted
<1>5. p.note \notin Carried
  BY <1>2 DEF Carried, Unspent, IInv, ExecutedOK
<1>6. Carried' = Carried \cup {p.note}
  BY <1>2 DEF Carried
<1>7. Granted' = Granted
  BY <1>2 DEF Granted, Approved, GrantedBy, Approvers
<1>8. Received' = [Received EXCEPT ![p.payee] = @ + p.pay]
  <2>1. ASSUME NEW a \in Payees
        PROVE  balance'[<<Token, a>>]
                 = balance[<<Token, a>>] + (IF a = p.payee THEN p.pay ELSE 0)
    <3>1. a \in Accounts /\ a # MULTISIG_FORWARDER
      BY AccountsAssumption DEF Accounts
    <3>2. balance[<<Token, a>>] \in Nat
      BY <3>1 DEF IInv, BalancesOK, BalancesTyped
    <3>3. balance'[<<Token, a>>]
            = balance[<<Token, a>>] - 0 + (IF a = p.payee THEN p.pay ELSE 0)
      BY <1>2, <3>1 DEF MovedTo
    <3> QED BY <1>3, <3>2, <3>3
  <2>2. ASSUME NEW a \in Payees PROVE balance[<<Token, a>>] \in Nat
    <3>1. a \in Accounts
      BY DEF Accounts
    <3> QED BY <3>1 DEF IInv, BalancesOK, BalancesTyped
  <2>3. ASSUME NEW a \in Payees
        PROVE  Received'[a] = [Received EXCEPT ![p.payee] = @ + p.pay][a]
    <3>1. Received[a] = balance[<<Token, a>>] /\ Received'[a] = balance'[<<Token, a>>]
      BY DEF Received
    <3>2. DOMAIN Received = Payees
      BY DEF Received
    <3> QED BY <1>3, <2>1, <2>2, <3>1, <3>2
  <2>4. /\ DOMAIN Received = Payees
        /\ Received' = [a \in Payees |-> Received'[a]]
    BY DEF Received
  <2> QED BY <2>3, <2>4
<1>9. HeldIn' = [[HeldIn EXCEPT ![p.note.vault] = @ - p.pay - p.give]
                   EXCEPT ![p.to] = @ + p.give]
  <2>1. ASSUME NEW v \in Vaults
        PROVE  /\ HeldIn[v] \in Nat
               /\ HeldIn'[v] = HeldIn[v]
                    - (IF v = p.note.vault THEN p.pay + p.give ELSE 0)
                    + (IF v = p.to THEN p.give ELSE 0)
    <3>1. /\ Owned({v}) \in Nat
          /\ Owned({v})' = Owned({v})
               - (IF p.note.vault \in {v} THEN p.pay + p.give ELSE 0)
               + (IF p.to \in {v} THEN p.give ELSE 0)
      BY <1>1, OwnedAfterSpend, OwnedNat
    <3>2. HeldIn[v] = Owned({v}) /\ HeldIn'[v] = Owned({v})'
      BY HoldingsOwned DEF HeldIn
    <3>3. (p.note.vault \in {v} <=> v = p.note.vault) /\ (p.to \in {v} <=> v = p.to)
      OBVIOUS
    <3> QED BY <3>1, <3>2, <3>3
  <2> DEFINE rest == [HeldIn EXCEPT ![p.note.vault] = @ - p.pay - p.give]
             after == [rest EXCEPT ![p.to] = @ + p.give]
  <2>2. /\ DOMAIN HeldIn = Vaults
        /\ HeldIn' = [v \in Vaults |-> HeldIn'[v]]
        /\ after = [v \in Vaults |-> after[v]]
        /\ rest = [v \in Vaults |-> rest[v]]
    BY DEF HeldIn
  <2>3. ASSUME NEW v \in Vaults PROVE after[v] = HeldIn'[v]
    <3>1. rest[v] = HeldIn[v] - (IF v = p.note.vault THEN p.pay + p.give ELSE 0)
      BY <1>3, <2>1, <2>2
    <3>2. rest[v] \in Int
      BY <1>3, <2>1, <3>1
    <3> HIDE DEF rest
    <3>3. after[v] = rest[v] + (IF v = p.to THEN p.give ELSE 0)
      BY <1>3, <2>2, <3>2
    <3> QED BY <2>1, <3>1, <3>3
  <2> HIDE DEF rest, after
  <2>4. HeldIn' = after
    BY <2>2, <2>3
  <2> QED BY <2>4 DEF rest, after
<1> QED BY <1>4, <1>5, <1>6, <1>7, <1>8, <1>9
    DEF Ledger!Spend, HeldIn, Received, Granted, Carried

\* Every step is one of the ledger, or none.
LEMMA LedgerStep == IInv /\ [Next]_vars => [Ledger!Next]_(Ledger!vars)
<1> SUFFICES ASSUME IInv, [Next]_vars PROVE Ledger!Next \/ UNCHANGED Ledger!vars
  OBVIOUS
<1>1. ASSUME NEW v \in Vaults, NEW d \in Depositors, NEW q \in DepositQuantities,
             NEW amount \in DepositAmounts, Deposit(v, d, q, amount)
      PROVE  Ledger!Next
  BY <1>1, DepositLedger DEF Ledger!Next
<1>2. ASSUME NEW donor \in Donors, Donate(donor) PROVE UNCHANGED Ledger!vars
  BY <1>2, DonateLedger
<1>3. ASSUME NEW p \in Proposals, NEW key, Approve(key, p) PROVE Ledger!Next
  BY <1>3, ApproveLedger DEF Ledger!Next
<1>4. ASSUME NEW p \in Approved, NEW chosen \in SignatureChoices(p.note.vault),
             Execute(p, chosen)
      PROVE  Ledger!Next
  BY <1>4, ExecuteLedger DEF Ledger!Next, Granted
<1>5. CASE UNCHANGED vars
  <2>1. HeldIn' = HeldIn
    BY <1>5, HeldInStays DEF vars
  <2>2. Received' = Received /\ Granted' = Granted /\ Carried' = Carried
    BY <1>5 DEF vars, Received, Granted, Approved, GrantedBy, Approvers, Carried
  <2> QED BY <2>1, <2>2 DEF Ledger!vars, HeldIn, Received, Granted, Carried
<1> QED BY <1>1, <1>2, <1>3, <1>4, <1>5 DEF Next

\* The vaults implement the ledger: whatever the interleaving of deposits,
\* signatures, rival proposals and spends, a vault loses only what its signers
\* granted, each note once, to the payee and the vault they named, and no step
\* touches what another vault owns (README.md:113, README.md:354).
THEOREM LedgerImplemented == Spec => ImplementsLedger
BY InitLedger, LedgerStep, Inductive, PTL
   DEF Spec, ImplementsLedger, Ledger!Spec

-----------------------------------------------------------------------------
(* A spend its signers approved goes through.                              *)

\* The guests are the ones the forwarders are deployed for, and the keys of
\* the vaults are points.
ReadyToSpend ==
  /\ MULTISIG_V1 = MultisigForwarderLogicRef
  /\ WRAP_V1 = WrapForwarderLogicRef
  /\ \A v \in Vaults : ToSet(Pubkeys[v]) \subseteq CurvePoints

\* The slots of a vault are filled by its keys, in ascending order.
LEMMA ChosenSlots ==
  ASSUME NEW v \in Vaults, NEW chosen \in SignatureChoices(v)
  PROVE  /\ DOMAIN chosen = 1 .. Label[v].k
         /\ \A j \in 1 .. Label[v].k : chosen[j].at \in 1 .. Len(Pubkeys[v])
         /\ \A i, j \in 1 .. Label[v].k : i < j => chosen[i].at < chosen[j].at
<1> DEFINE s == Pubkeys[v]
           k == Label[v].k
           signed(i) == {[at |-> i, proposal |-> a.proposal] :
                           a \in {b \in approvals : b.key = s[i]}}
<1>1. /\ chosen \in [1 .. k -> UNION {signed(i) : i \in DOMAIN s}]
      /\ AscendingBelow([j \in DOMAIN chosen |-> chosen[j].at], k)
  BY DEF SignatureChoices
<1>2. ASSUME NEW j \in 1 .. k PROVE chosen[j].at \in 1 .. Len(s)
  <2>1. chosen[j] \in UNION {signed(i) : i \in DOMAIN s}
    <3> HIDE DEF signed, k
    <3> QED BY <1>1
  <2>2. PICK i \in DOMAIN s : chosen[j] \in signed(i)
    <3> HIDE DEF signed
    <3> QED BY <2>1
  <2>3. i \in 1 .. Len(s)
    BY <2>2, LabelFacts
  <2> HIDE DEF s
  <2> QED BY <2>2, <2>3
<1>3. DOMAIN chosen = 1 .. k
  <2> HIDE DEF signed, k
  <2> QED BY <1>1
<1> HIDE DEF k, s, signed
<1>4. \A i, j \in 1 .. k : i < j => chosen[i].at < chosen[j].at
  BY <1>1, <1>3 DEF AscendingBelow
<1> QED BY <1>2, <1>3, <1>4 DEF k, s

\* What the witness of a spend says, field by field.
SpendFields(x, p, chosen) ==
  /\ x.app_data.external_payload = TransferPayload(p)
  /\ x.resource = NoteResource(p.note)
  /\ x.nf_key = nullifier_key(Label[p.note.vault])
  /\ x.label_preimage = Label[p.note.vault]
  /\ x.pubkeys = Pubkeys[p.note.vault]
  /\ x.change_resource = NoteResource(ChangeNote(p))
  /\ x.recipient_resources = IF p.give = 0 THEN <<>>
                             ELSE <<NoteResource(RecipientNote(p))>>
  /\ x.action_tags = ActionTags(p)
  /\ x.signatures = [j \in DOMAIN chosen |->
       [idx |-> chosen[j].at - 1,
        sig |-> sign_low_s_der(Pubkeys[p.note.vault][chosen[j].at],
                               compute_spend_message(chosen[j].proposal))]]

LEMMA WitnessFields ==
  ASSUME NEW p, NEW chosen
  PROVE  SpendFields(SignedWitness(p, chosen), p, chosen)
BY DEF SpendFields, SignedWitness, UnsignedWitness, AppData

\* A note is opened by its vault's label.
LEMMA WitnessOpens ==
  ASSUME NEW p, p.note.vault \in Vaults, NEW chosen
  PROVE  OpensLabel(SignedWitness(p, chosen))
<1> DEFINE x == SignedWitness(p, chosen)
           v == p.note.vault
<1>1. /\ x.resource = NoteResource(p.note)
      /\ x.nf_key = nullifier_key(Label[v])
      /\ x.label_preimage = Label[v]
      /\ x.pubkeys = Pubkeys[v]
  <2>1. SpendFields(x, p, chosen)
    BY WitnessFields
  <2> HIDE DEF x
  <2> QED BY <2>1 DEF SpendFields
<1>2. /\ NoteResource(p.note).nk_commitment = nullifier_key_commitment(Label[v])
      /\ NoteResource(p.note).label_ref = label_ref(Label[v])
  BY DEF NoteResource, Resource
<1>3. nk_commit(nullifier_key(Label[v])) = nullifier_key_commitment(Label[v])
  BY DEF nk_commit, nullifier_key_commitment
<1> HIDE DEF x, v
<1> QED BY <1>1, <1>2, <1>3, LabelFacts, PubkeysAscend DEF OpensLabel, x, v

\* The k slots hold the signatures of k keys of the vault over the message of
\* the spend, when all of them were made for it.
LEMMA WitnessSigned ==
  ASSUME ReadyToSpend, NEW p, p.note.vault \in Vaults,
         NEW chosen \in SignatureChoices(p.note.vault),
         \A i \in DOMAIN chosen : chosen[i].proposal = p
  PROVE  SignedByK(SignedWitness(p, chosen))
<1> DEFINE x == SignedWitness(p, chosen)
           v == p.note.vault
           s == Pubkeys[v]
           k == Label[v].k
           message == compute_spend_message(p)
           sig(j) == sign_low_s_der(s[chosen[j].at], message)
<1>1. /\ DOMAIN chosen = 1 .. k
      /\ \A j \in 1 .. k : chosen[j].at \in 1 .. Len(s)
      /\ \A i, j \in 1 .. k : i < j => chosen[i].at < chosen[j].at
  BY ChosenSlots
<1>2. /\ x.label_preimage.k = k /\ x.label_preimage.n = Len(s) /\ x.pubkeys = s
      /\ k \in Nat /\ Len(s) \in Nat
      /\ SpendMessage(x) = message
      /\ s \in Seq(Nat)
  <2>1. SpendFields(x, p, chosen) /\ SpendMessage(x) = message
    BY WitnessFields, SignedMessage
  <2>2. s \in Seq(Nat) /\ k \in 1 .. Len(s) /\ Label[v].n = Len(s)
    BY LabelFacts
  <2> HIDE DEF x, message
  <2> QED BY <2>1, <2>2 DEF SpendFields
<1>3. x.signatures = [j \in 1 .. k |-> [idx |-> chosen[j].at - 1, sig |-> sig(j)]]
  <2> DEFINE all == [j \in DOMAIN chosen |->
              [idx |-> chosen[j].at - 1,
               sig |-> sign_low_s_der(Pubkeys[p.note.vault][chosen[j].at],
                                      compute_spend_message(chosen[j].proposal))]]
  <2>1. x.signatures = all
    <3>1. SpendFields(x, p, chosen)
      BY WitnessFields
    <3> HIDE DEF x
    <3> QED BY <3>1 DEF SpendFields
  <2>2. all = [j \in DOMAIN chosen |-> [idx |-> chosen[j].at - 1, sig |-> sig(j)]]
    OBVIOUS
  <2> HIDE DEF all, sig
  <2> QED BY <1>1, <2>1, <2>2
<1>4. ASSUME NEW j \in 1 .. k
      PROVE  /\ x.signatures[j].idx = chosen[j].at - 1
             /\ x.signatures[j].sig = sig(j)
  <2> HIDE DEF sig, x, k
  <2> QED BY <1>3, SMTT(30)
<1>5. Len(x.signatures) = k /\ DOMAIN x.signatures = 1 .. k
  <2> HIDE DEF sig, x, k
  <2> QED BY <1>2, <1>3
<1>6. ASSUME NEW j \in 1 .. k
      PROVE  verify_secp256k1(s[chosen[j].at], message, sig(j))
  <2>1. s[chosen[j].at] \in CurvePoints
    <3>1. s[chosen[j].at] \in ToSet(s)
      <4> DEFINE c == chosen[j].at
      <4>1. c \in 1 .. Len(s)
        BY <1>1
      <4> HIDE DEF c
      <4>2. s[c] \in ToSet(s)
        BY <4>1, <1>2, SMTT(30) DEF ToSet
      <4> QED BY <4>2 DEF c
    <3> QED BY <3>1 DEF ReadyToSpend
  <2> QED BY <2>1 DEF verify_secp256k1, sign_low_s_der
<1> HIDE DEF sig, x, k, s, v, message
<1>7. AscendingBelow(SignerIndices(x), Len(x.signatures))
  <2> SUFFICES ASSUME NEW i \in 1 .. k, NEW j \in 1 .. k, i < j
               PROVE  SignerIndices(x)[i] < SignerIndices(x)[j]
    BY <1>5 DEF AscendingBelow
  <2>1. /\ SignerIndices(x)[i] = chosen[i].at - 1
        /\ SignerIndices(x)[j] = chosen[j].at - 1
    BY <1>4, <1>5 DEF SignerIndices
  <2> QED BY <1>1, <1>2, <2>1
<1>8. ASSUME NEW j \in 1 .. k
      PROVE  /\ x.signatures[j].idx < x.label_preimage.n
             /\ verify_secp256k1(x.pubkeys[x.signatures[j].idx + 1],
                                 SpendMessage(x), x.signatures[j].sig)
  <2>1. chosen[j].at \in 1 .. Len(s) /\ chosen[j].at - 1 + 1 = chosen[j].at
    BY <1>1, <1>2
  <2>2. x.signatures[j].idx + 1 = chosen[j].at /\ x.signatures[j].idx < Len(s)
    BY <1>2, <1>4, <2>1
  <2> QED BY <1>2, <1>4, <1>6, <2>2
<1>9. SignedByK(x)
  BY <1>2, <1>5, <1>7, <1>8 DEF SignedByK
<1> QED BY <1>9 DEF x

\* The witness balances, and its payload says so.
LEMMA WitnessBalances ==
  ASSUME NEW p, p.note.vault \in Vaults, p.note.quantity \in Quantity,
         p.pay \in Nat, p.give \in Nat, WellFormed(p), NEW chosen
  PROVE  /\ PayloadsMatch(SignedWitness(p, chosen))
         /\ Balanced(SignedWitness(p, chosen))
         /\ StaysInAction(SignedWitness(p, chosen))
<1> DEFINE x == SignedWitness(p, chosen)
           blob == [outer_ok |-> TRUE, inner_ok |-> TRUE,
                    forwarder |-> MULTISIG_FORWARDER, token |-> Token,
                    to |-> p.payee, amount |-> p.pay]
           blobs == x.app_data.external_payload
           others == x.recipient_resources
           r == NoteResource(RecipientNote(p))
           c == NoteResource(ChangeNote(p))
<1>1. /\ blobs = IF p.pay = 0 THEN <<>> ELSE <<blob>>
      /\ others = IF p.give = 0 THEN <<>> ELSE <<r>>
      /\ x.change_resource = c
      /\ x.resource = NoteResource(p.note)
      /\ x.label_preimage = Label[p.note.vault]
      /\ x.action_tags = ActionTags(p)
  <2>1. SpendFields(x, p, chosen)
    BY WitnessFields
  <2> HIDE DEF x
  <2> QED BY <2>1 DEF SpendFields, TransferPayload
<1>2. /\ blob.outer_ok = TRUE /\ blob.inner_ok = TRUE /\ blob.amount = p.pay
      /\ blob.forwarder = MULTISIG_FORWARDER /\ blob.token = Token
  OBVIOUS
<1>3. /\ c.quantity = p.note.quantity - p.pay - p.give
      /\ r.quantity = p.give
      /\ NoteResource(p.note).quantity = p.note.quantity
      /\ c.label_ref = NoteResource(p.note).label_ref
  BY CreatedFields DEF NoteResource, Resource
<1>4. /\ p.note.quantity \in Nat /\ p.pay + p.give <= p.note.quantity
      /\ p.pay <= MaxU128 /\ MaxU128 \in Nat
      /\ c.quantity \in Int
  BY <1>3, MaxU128Assumption DEF Quantity, WellFormed
<1>5. /\ commitment(c) \in ActionTags(p)
      /\ p.give # 0 => commitment(r) \in ActionTags(p)
  BY DEF ActionTags, CreatedNotes
<1> HIDE DEF x, blob, r, c
<1>6. PayloadsMatch(x)
  <2>1. PayloadMatches(x, blob)
    BY <1>1, <1>2, <1>4, LabelFacts DEF PayloadMatches, OuterParses, InnerParses
  <2> QED BY <1>1, <2>1 DEF PayloadsMatch
<1>7. StaysInAction(x)
  BY <1>1, <1>3, <1>5 DEF StaysInAction
<1>8. TotalOf(ForwardedAmounts(x)) = p.pay
  <2> DEFINE f == ForwardedAmounts(x)
  <2>1. CASE p.pay = 0
    <3>1. DOMAIN f = {}
      BY <1>1, <2>1 DEF ForwardedAmounts
    <3> HIDE DEF f
    <3>2. SumFunction(f) = 0
      BY <3>1, SumOfNone
    <3> QED BY <2>1, <3>2 DEF TotalOf, f
  <2>2. CASE p.pay # 0
    <3>1. blobs = <<blob>>
      BY <1>1, <2>2
    <3>2. DOMAIN f = 1 .. 1 /\ f[1] = ForwardedAmount(blob)
      BY <3>1 DEF ForwardedAmounts
    <3>3. ForwardedAmount(blob) = p.pay
      BY <1>2 DEF ForwardedAmount
    <3>4. f[1] \in Int
      BY <3>2, <3>3
    <3> HIDE DEF f
    <3>5. SumFunction(f) = f[1]
      BY <3>2, <3>4, SumOfOne
    <3> QED BY <3>2, <3>3, <3>5 DEF TotalOf, f
  <2> QED BY <2>1, <2>2
<1>9. TotalOf(RecipientQuantities(x)) = p.give
  <2> DEFINE f == RecipientQuantities(x)
  <2>1. CASE p.give = 0
    <3>1. DOMAIN f = {}
      BY <1>1, <2>1 DEF RecipientQuantities
    <3> HIDE DEF f
    <3>2. SumFunction(f) = 0
      BY <3>1, SumOfNone
    <3> QED BY <2>1, <3>2 DEF TotalOf, f
  <2>2. CASE p.give # 0
    <3>1. others = <<r>>
      BY <1>1, <2>2
    <3>2. DOMAIN f = 1 .. 1 /\ f[1] = r.quantity
      BY <3>1 DEF RecipientQuantities
    <3>3. f[1] \in Int
      BY <1>3, <3>2
    <3> HIDE DEF f
    <3>4. SumFunction(f) = f[1]
      BY <3>2, <3>3, SumOfOne
    <3> QED BY <1>3, <3>2, <3>4 DEF TotalOf, f
  <2> QED BY <2>1, <2>2
<1>10. Balanced(x)
  <2> DEFINE forwarded == TotalOf(ForwardedAmounts(x))
             given == TotalOf(RecipientQuantities(x))
  <2>1. /\ x.change_resource.quantity = p.note.quantity - p.pay - p.give
        /\ x.resource.quantity = p.note.quantity
    BY <1>1, <1>3
  <2>2. forwarded = p.pay /\ given = p.give
    BY <1>8, <1>9
  <2> HIDE DEF forwarded, given
  <2>3. forwarded + given + x.change_resource.quantity = x.resource.quantity
    BY <1>4, <2>1, <2>2
  <2> QED BY <2>3 DEF Balanced, forwarded, given
<1> QED BY <1>6, <1>7, <1>10 DEF x

\* The ephemerals of a spend, which wrap nothing, are proved.
LEMMA EphemeralProved ==
  ASSUME NEW v \in Vaults, NEW q, NEW nonce, NEW from, NEW root
  PROVE  InflowPart(v, q, nonce, from, 0, root).error = Accepted
<1> DEFINE blob == [outer_ok |-> TRUE, inner_ok |-> TRUE, op |-> "WRAP",
                    forwarder |-> WRAP_FORWARDER, token |-> Token,
                    from |-> from, amount |-> 0]
           x == [action_tree_root |-> root, app_data |-> AppData(<<blob>>),
                 resource |-> Resource(v, WRAP_V1, q, nonce, TRUE),
                 nf_key |-> nullifier_key(Label[v]),
                 paired_vault_label_preimage |-> Label[v],
                 paired_vault_quantity |-> 0,
                 depositor |-> from]
<1>1. InflowPart(v, q, nonce, from, 0, root).error = InflowError(x)
  BY DEF InflowPart
<1>2. /\ x.app_data.external_payload = <<blob>>
      /\ x.resource.is_ephemeral = TRUE
      /\ x.resource.nk_commitment = nullifier_key_commitment(Label[v])
      /\ x.resource.label_ref = label_ref(Label[v])
      /\ x.nf_key = nullifier_key(Label[v])
      /\ x.paired_vault_label_preimage = Label[v]
      /\ x.paired_vault_quantity = 0
      /\ x.depositor = from
  BY DEF AppData, Resource
<1>3. /\ blob.outer_ok = TRUE /\ blob.inner_ok = TRUE /\ blob.op = "WRAP"
      /\ blob.forwarder = WRAP_FORWARDER /\ blob.token = Token
      /\ blob.from = from /\ blob.amount = 0
  OBVIOUS
<1> HIDE DEF x, blob
<1>4. /\ nullifier_key(Label[v]) = derive_nullifier_key_bytes(Label[v])
      /\ nk_commit(nullifier_key(Label[v])) = nullifier_key_commitment(Label[v])
  BY DEF nullifier_key, derive_nullifier_key_bytes, nk_commit, nullifier_key_commitment
<1>5. InflowLabelError(x) = Accepted
  BY <1>2, <1>4 DEF InflowLabelError
<1>6. InflowCallError(x, blob) = Accepted
  BY <1>2, <1>3, LabelFacts, MaxU128Assumption
     DEF InflowCallError, OuterParses, InnerParses
<1>7. TagFails(x.resource, x.nf_key) = FALSE
  BY <1>2, <1>4 DEF TagFails
<1>8. Len(x.app_data.external_payload) = 1 /\ x.app_data.external_payload[1] = blob
  BY <1>2
<1> QED BY <1>1, <1>5, <1>6, <1>7, <1>8 DEF InflowError

\* So are the notes a spend creates.
LEMMA CreatedProved ==
  ASSUME NEW n, n.vault \in Vaults, NEW root
  PROVE  CreatedPart(n, root).error = Accepted
<1> DEFINE x == [action_tree_root |-> root, app_data |-> AppData(<<>>),
                 resource |-> NoteResource(n), label_preimage |-> Label[n.vault]]
           l == Label[n.vault]
<1>1. CreatedPart(n, root).error = CreatedError(x)
  BY DEF CreatedPart
<1>2. x.label_preimage = l /\ x.resource.label_ref = label_ref(l)
  BY DEF NoteResource, Resource
<1> HIDE DEF x
<1>3. /\ l.salt # Zero /\ l.n \in 1 .. 32 /\ l.k \in 1 .. l.n
  <2>1. /\ Len(Pubkeys[n.vault]) \in 1 .. 32
        /\ l.k \in 1 .. Len(Pubkeys[n.vault])
        /\ l.n = Len(Pubkeys[n.vault])
        /\ l.salt # Zero
    BY LabelFacts
  <2> QED BY <2>1
<1> HIDE DEF l
<1> QED BY <1>1, <1>2, <1>3 DEF CreatedError

\* And its outflow.
LEMMA OutflowProved ==
  ASSUME NEW v, NEW q, NEW nonce, NEW root
  PROVE  OutflowPart(v, q, nonce, root).error = Accepted
<1> DEFINE x == [action_tree_root |-> root, app_data |-> AppData(<<>>),
                 resource |-> Resource(v, WRAP_V1, q, nonce, TRUE),
                 label_preimage |-> Label[v]]
<1>1. OutflowPart(v, q, nonce, root).error = OutflowError(x)
  BY DEF OutflowPart
<1>2. /\ x.resource.is_ephemeral = TRUE /\ x.label_preimage = Label[v]
      /\ x.resource.label_ref = label_ref(Label[v])
  BY DEF Resource
<1> HIDE DEF x
<1> QED BY <1>1, <1>2 DEF OutflowError

\* What one resource adds to the total of a kind.
OfKind(part, kind) ==
  IF part.resource.label_ref = kind THEN part.resource.quantity ELSE 0

\* The total of a kind in a side of two resources.
LEMMA KindOfTwo ==
  ASSUME NEW kind, NEW parts, NEW a, NEW b, parts = <<a, b>>,
         a.resource.quantity \in Int, b.resource.quantity \in Int
  PROVE  KindTotal(parts, kind) = OfKind(a, kind) + OfKind(b, kind)
<1> DEFINE f == [j \in 1 .. Len(parts) |-> OfKind(parts[j], kind)]
<1>1. KindTotal(parts, kind) = SumFunction(f)
  BY DEF KindTotal, TotalOf, OfKind
<1>2. OfKind(a, kind) \in Int /\ OfKind(b, kind) \in Int
  BY DEF OfKind
<1>3. DOMAIN f = 1 .. 2 /\ f[1] = OfKind(a, kind) /\ f[2] = OfKind(b, kind)
  OBVIOUS
<1> HIDE DEF f
<1> QED BY <1>1, <1>2, <1>3, SumOfTwo

\* And of three.
LEMMA KindOfThree ==
  ASSUME NEW kind, NEW parts, NEW a, NEW b, NEW c, parts = <<a, b, c>>,
         a.resource.quantity \in Int, b.resource.quantity \in Int,
         c.resource.quantity \in Int
  PROVE  KindTotal(parts, kind)
           = OfKind(a, kind) + OfKind(b, kind) + OfKind(c, kind)
<1> DEFINE f == [j \in 1 .. Len(parts) |-> OfKind(parts[j], kind)]
<1>1. KindTotal(parts, kind) = SumFunction(f)
  BY DEF KindTotal, TotalOf, OfKind
<1>2. OfKind(a, kind) \in Int /\ OfKind(b, kind) \in Int /\ OfKind(c, kind) \in Int
  BY DEF OfKind
<1>3. /\ DOMAIN f = 1 .. 3
      /\ f[1] = OfKind(a, kind) /\ f[2] = OfKind(b, kind) /\ f[3] = OfKind(c, kind)
  OBVIOUS
<1> HIDE DEF f
<1> QED BY <1>1, <1>2, <1>3, SumOfThree

\* The parts of a spend beside the note that is spent.
NothingPart(p) ==
  InflowPart(p.note.vault, 0, Derived(p.note.nonce, "zero"),
             CHOOSE d \in Depositors : TRUE, 0, ActionTreeRoot(p))

GivenPart(p) ==
  InflowPart(p.to, p.give, Derived(p.note.nonce, "given"),
             CHOOSE d \in Depositors : TRUE, 0, ActionTreeRoot(p))

ChangePart(p) == CreatedPart(ChangeNote(p), ActionTreeRoot(p))

RecipientPart(p) == CreatedPart(RecipientNote(p), ActionTreeRoot(p))

LeavingPart(p) ==
  OutflowPart(p.note.vault, p.pay + p.give, Derived(p.note.nonce, "outflow"),
              ActionTreeRoot(p))

\* What each of them proves, and the resource it is of.
SpendParts(p, chosen, consumed, created) ==
  /\ SpendPart(p, chosen).error
       = (IF Authorised(SignedWitness(p, chosen)) THEN Accepted ELSE "refused")
  /\ NothingPart(p).error = Accepted /\ GivenPart(p).error = Accepted
  /\ ChangePart(p).error = Accepted /\ RecipientPart(p).error = Accepted
  /\ LeavingPart(p).error = Accepted
  /\ SpendPart(p, chosen).resource = NoteResource(p.note)
  /\ NothingPart(p).resource.is_ephemeral = TRUE
  /\ GivenPart(p).resource.is_ephemeral = TRUE
  /\ \A kind :
       /\ OfKind(SpendPart(p, chosen), kind)
            = IF label_ref(Label[p.note.vault]) = kind THEN p.note.quantity ELSE 0
       /\ OfKind(NothingPart(p), kind) = 0
       /\ OfKind(GivenPart(p), kind)
            = IF label_ref(Label[p.to]) = kind THEN p.give ELSE 0
       /\ OfKind(ChangePart(p), kind)
            = IF label_ref(Label[p.note.vault]) = kind
              THEN p.note.quantity - p.pay - p.give ELSE 0
       /\ OfKind(RecipientPart(p), kind)
            = IF label_ref(Label[p.to]) = kind THEN p.give ELSE 0
       /\ OfKind(LeavingPart(p), kind)
            = IF label_ref(Label[p.note.vault]) = kind THEN p.pay + p.give ELSE 0
  /\ \A part \in {SpendPart(p, chosen), NothingPart(p), GivenPart(p), ChangePart(p),
                  RecipientPart(p), LeavingPart(p)} :
       part.resource.quantity \in Int
  /\ consumed = IF p.give = 0 THEN <<SpendPart(p, chosen), NothingPart(p)>>
                ELSE <<SpendPart(p, chosen), NothingPart(p), GivenPart(p)>>
  /\ created = IF p.give = 0 THEN <<ChangePart(p), LeavingPart(p)>>
               ELSE <<ChangePart(p), RecipientPart(p), LeavingPart(p)>>

LEMMA PartsOfSpend ==
  ASSUME NEW p, p.note.vault \in Vaults, p.to \in Vaults,
         p.note.quantity \in Nat, p.pay \in Nat, p.give \in Nat, NEW chosen
  PROVE  SpendParts(p, chosen, SpendTransaction(p, chosen).consumed,
                    SpendTransaction(p, chosen).created)
<1> DEFINE root == ActionTreeRoot(p)
           spend == SpendPart(p, chosen)
           nothing == NothingPart(p)
           given == GivenPart(p)
           change == ChangePart(p)
           recipient == RecipientPart(p)
           outflow == LeavingPart(p)
           tx == SpendTransaction(p, chosen)
<1>1. /\ tx.consumed = IF p.give = 0 THEN <<spend, nothing>>
                       ELSE <<spend, nothing, given>>
      /\ tx.created = IF p.give = 0 THEN <<change, outflow>>
                      ELSE <<change, recipient, outflow>>
  BY DEF SpendTransaction, NothingPart, GivenPart, ChangePart, RecipientPart, LeavingPart
<1>2. /\ spend.error = (IF Authorised(SignedWitness(p, chosen)) THEN Accepted ELSE "refused")
      /\ spend.resource = NoteResource(p.note)
  <2>1. SpendFields(SignedWitness(p, chosen), p, chosen)
    BY WitnessFields
  <2> QED BY <2>1 DEF SpendPart, SpendFields
<1>3. nothing.error = Accepted /\ given.error = Accepted
  BY EphemeralProved DEF NothingPart, GivenPart
<1>4. change.error = Accepted /\ recipient.error = Accepted /\ outflow.error = Accepted
  <2> DEFINE c == ChangeNote(p)
             r == RecipientNote(p)
  <2>1. c.vault \in Vaults /\ r.vault \in Vaults
    BY CreatedFields
  <2> HIDE DEF c, r, root
  <2>2. CreatedPart(c, root).error = Accepted /\ CreatedPart(r, root).error = Accepted
    BY <2>1, CreatedProved
  <2>3. outflow.error = Accepted
    BY OutflowProved DEF outflow, LeavingPart
  <2> QED BY <2>2, <2>3 DEF c, r, root, ChangePart, RecipientPart
<1>5. /\ nothing.resource = Resource(p.note.vault, WRAP_V1, 0,
                                     Derived(p.note.nonce, "zero"), TRUE)
      /\ given.resource = Resource(p.to, WRAP_V1, p.give,
                                   Derived(p.note.nonce, "given"), TRUE)
      /\ outflow.resource = Resource(p.note.vault, WRAP_V1, p.pay + p.give,
                                     Derived(p.note.nonce, "outflow"), TRUE)
  BY DEF InflowPart, OutflowPart, NothingPart, GivenPart, LeavingPart
<1>6. /\ change.resource = NoteResource(ChangeNote(p))
      /\ recipient.resource = NoteResource(RecipientNote(p))
  BY DEF CreatedPart, ChangePart, RecipientPart
<1> HIDE DEF spend, nothing, given, change, recipient, outflow, tx
<1>7. /\ spend.resource.quantity = p.note.quantity
      /\ nothing.resource.quantity = 0
      /\ given.resource.quantity = p.give
      /\ change.resource.quantity = p.note.quantity - p.pay - p.give
      /\ recipient.resource.quantity = p.give
      /\ outflow.resource.quantity = p.pay + p.give
  <2>1. /\ spend.resource.quantity = p.note.quantity
        /\ change.resource.quantity = ChangeNote(p).quantity
        /\ recipient.resource.quantity = RecipientNote(p).quantity
    BY <1>2, <1>6 DEF NoteResource, Resource
  <2>2. /\ nothing.resource.quantity = 0
        /\ given.resource.quantity = p.give
        /\ outflow.resource.quantity = p.pay + p.give
    BY <1>5 DEF Resource
  <2> QED BY <2>1, <2>2, CreatedFields
<1>8. /\ spend.resource.label_ref = label_ref(Label[p.note.vault])
      /\ given.resource.label_ref = label_ref(Label[p.to])
      /\ change.resource.label_ref = label_ref(Label[p.note.vault])
      /\ recipient.resource.label_ref = label_ref(Label[p.to])
      /\ outflow.resource.label_ref = label_ref(Label[p.note.vault])
      /\ nothing.resource.is_ephemeral = TRUE /\ given.resource.is_ephemeral = TRUE
  <2>1. /\ spend.resource.label_ref = label_ref(Label[p.note.vault])
        /\ change.resource.label_ref = label_ref(Label[ChangeNote(p).vault])
        /\ recipient.resource.label_ref = label_ref(Label[RecipientNote(p).vault])
    BY <1>2, <1>6 DEF NoteResource, Resource
  <2>2. /\ given.resource.label_ref = label_ref(Label[p.to])
        /\ outflow.resource.label_ref = label_ref(Label[p.note.vault])
        /\ nothing.resource.is_ephemeral = TRUE /\ given.resource.is_ephemeral = TRUE
    BY <1>5 DEF Resource
  <2> QED BY <2>1, <2>2, CreatedFields
<1>9. ASSUME NEW kind
      PROVE  /\ OfKind(spend, kind)
                  = IF label_ref(Label[p.note.vault]) = kind THEN p.note.quantity ELSE 0
             /\ OfKind(nothing, kind) = 0
             /\ OfKind(given, kind)
                  = IF label_ref(Label[p.to]) = kind THEN p.give ELSE 0
             /\ OfKind(change, kind)
                  = IF label_ref(Label[p.note.vault]) = kind
                    THEN p.note.quantity - p.pay - p.give ELSE 0
             /\ OfKind(recipient, kind)
                  = IF label_ref(Label[p.to]) = kind THEN p.give ELSE 0
             /\ OfKind(outflow, kind)
                  = IF label_ref(Label[p.note.vault]) = kind THEN p.pay + p.give ELSE 0
  BY <1>7, <1>8 DEF OfKind
<1>10. \A part \in {spend, nothing, given, change, recipient, outflow} :
         part.resource.quantity \in Int
  BY <1>7
<1>11. SpendParts(p, chosen, tx.consumed, tx.created)
  BY <1>1, <1>2, <1>3, <1>4, <1>8, <1>9, <1>10
     DEF SpendParts, spend, nothing, given, change, recipient, outflow
<1> QED BY <1>11 DEF tx

\* A transaction that is proved, spends known notes and nothing twice, balances
\* in every kind, and whose calls go through, is let through.
LEMMA AdapterPasses ==
  ASSUME NEW tx,
         \A part \in ToSet(tx.consumed) \cup ToSet(tx.created) : part.error = Accepted,
         \A c \in ToSet(tx.consumed) :
           c.resource.is_ephemeral \/ c.resource \in {NoteResource(n) : n \in notes},
         TagsOf(tx.consumed) \cap nullifiers = {},
         Cardinality(TagsOf(tx.consumed)) = Len(tx.consumed),
         \A v \in Vaults : KindTotal(tx.consumed, label_ref(Label[v]))
                             = KindTotal(tx.created, label_ref(Label[v])),
         Calls(tx).error = Accepted
  PROVE  AdapterError(tx) = Accepted
BY DEF AdapterError

\* The nullifiers of the spend of an unspent note are new, and of different
\* resources.
LEMMA SpendFresh ==
  ASSUME IInv, NEW p \in Proposals, ~Spent(p.note)
  PROVE  /\ NullifierOf(p.note) \notin nullifiers
         /\ ZeroNullifier(p) \notin nullifiers
         /\ GivenNullifier(p) \notin nullifiers
         /\ NullifierOf(p.note) # ZeroNullifier(p)
         /\ NullifierOf(p.note) # GivenNullifier(p)
         /\ ZeroNullifier(p) # GivenNullifier(p)
<1>1. p.note \in notes
  BY ProposalFields
<1>2. ASSUME NEW m \in notes, m.nonce = p.note.nonce PROVE m = p.note
  BY <1>1, <1>2 DEF IInv, NotesOK
<1>3. /\ NullifiedBy(ZeroNullifier(p)).nonce = Derived(p.note.nonce, "zero")
      /\ NullifiedBy(GivenNullifier(p)).nonce = Derived(p.note.nonce, "given")
  BY NullifierFields DEF ZeroNullifier, GivenNullifier
<1>4. /\ \A n : NullifierOf(n) # ZeroNullifier(p)
      /\ \A n : NullifierOf(n) # GivenNullifier(p)
  BY EphemeralOfNoNote DEF ZeroNullifier, GivenNullifier
<1>5. ASSUME NEW part PROVE ~FromSpent(Derived(p.note.nonce, part), {"zero", "given"})
  <2> SUFFICES ASSUME NEW m \in notes, Spent(m), NEW role \in {"zero", "given"},
                      Derived(p.note.nonce, part) = Derived(m.nonce, role)
               PROVE  FALSE
    BY DEF FromSpent
  <2>1. m.nonce = p.note.nonce
    BY NoncesDiffer
  <2> QED BY <1>2, <2>1
<1>6. ZeroNullifier(p) \notin nullifiers
  <2> SUFFICES ASSUME ZeroNullifier(p) \in nullifiers PROVE FALSE
    OBVIOUS
  <2>1. UsedBefore(NullifiedBy(ZeroNullifier(p)))
    BY <1>4 DEF IInv, NullifiersOK
  <2>2. PICK m \in notes : Derived(p.note.nonce, "zero") = Derived(m.nonce, "inflow")
    BY <1>3, <1>5, <2>1 DEF UsedBefore
  <2> QED BY <2>2, NoncesDiffer
<1>7. GivenNullifier(p) \notin nullifiers
  <2> SUFFICES ASSUME GivenNullifier(p) \in nullifiers PROVE FALSE
    OBVIOUS
  <2>1. UsedBefore(NullifiedBy(GivenNullifier(p)))
    BY <1>4 DEF IInv, NullifiersOK
  <2>2. PICK m \in notes : Derived(p.note.nonce, "given") = Derived(m.nonce, "inflow")
    BY <1>3, <1>5, <2>1 DEF UsedBefore
  <2> QED BY <2>2, NoncesDiffer
<1>8. ZeroNullifier(p) # GivenNullifier(p)
  BY <1>3, NoncesDiffer
<1> QED BY <1>4, <1>6, <1>7, <1>8 DEF Spent

\* The kinds of a spend balance: what leaves the vault of the note is in its
\* outflow, and what the recipient gets is in the ephemeral of its kind.
LEMMA SpendKinds ==
  ASSUME NEW p, p.note.vault \in Vaults, p.to \in Vaults, NEW chosen,
         p.note.quantity \in Nat, p.pay \in Nat, p.give \in Nat, NEW kind
  PROVE  KindTotal(SpendTransaction(p, chosen).consumed, kind)
           = KindTotal(SpendTransaction(p, chosen).created, kind)
<1> DEFINE in == SpendTransaction(p, chosen).consumed
           out == SpendTransaction(p, chosen).created
           a == SpendPart(p, chosen)
           b == NothingPart(p)
           c == GivenPart(p)
           d == ChangePart(p)
           e == RecipientPart(p)
           f == LeavingPart(p)
           own == label_ref(Label[p.note.vault]) = kind
           its == label_ref(Label[p.to]) = kind
<1>1. SpendParts(p, chosen, in, out)
  BY PartsOfSpend
<1> HIDE DEF in, out
<1>2. /\ OfKind(a, kind) = IF own THEN p.note.quantity ELSE 0
      /\ OfKind(b, kind) = 0
      /\ OfKind(c, kind) = IF its THEN p.give ELSE 0
      /\ OfKind(d, kind) = IF own THEN p.note.quantity - p.pay - p.give ELSE 0
      /\ OfKind(e, kind) = IF its THEN p.give ELSE 0
      /\ OfKind(f, kind) = IF own THEN p.pay + p.give ELSE 0
  BY <1>1 DEF SpendParts
<1>3. /\ a.resource.quantity \in Int /\ b.resource.quantity \in Int
      /\ c.resource.quantity \in Int /\ d.resource.quantity \in Int
      /\ e.resource.quantity \in Int /\ f.resource.quantity \in Int
  BY <1>1 DEF SpendParts
<1>4. /\ in = IF p.give = 0 THEN <<a, b>> ELSE <<a, b, c>>
      /\ out = IF p.give = 0 THEN <<d, f>> ELSE <<d, e, f>>
  BY <1>1 DEF SpendParts
<1> HIDE DEF a, b, c, d, e, f, own, its
<1>5. CASE p.give = 0
  <2>1. in = <<a, b>> /\ out = <<d, f>>
    BY <1>4, <1>5
  <2>2. KindTotal(in, kind) = OfKind(a, kind) + OfKind(b, kind)
    BY <1>3, <2>1, KindOfTwo
  <2>3. KindTotal(out, kind) = OfKind(d, kind) + OfKind(f, kind)
    BY <1>3, <2>1, KindOfTwo
  <2>4. KindTotal(in, kind) = KindTotal(out, kind)
    BY <1>2, <2>2, <2>3
  <2> QED BY <2>4 DEF in, out
<1>6. CASE p.give # 0
  <2>1. in = <<a, b, c>> /\ out = <<d, e, f>>
    BY <1>4, <1>6
  <2>2. KindTotal(in, kind) = OfKind(a, kind) + OfKind(b, kind) + OfKind(c, kind)
    BY <1>3, <2>1, KindOfThree
  <2>3. KindTotal(out, kind) = OfKind(d, kind) + OfKind(e, kind) + OfKind(f, kind)
    BY <1>3, <2>1, KindOfThree
  <2>4. KindTotal(in, kind) = KindTotal(out, kind)
    BY <1>2, <2>2, <2>3
  <2> QED BY <2>4 DEF in, out
<1> QED BY <1>5, <1>6

\* A note is covered by the tokens of the forwarder, if all are backed.
LEMMA NoteCovered ==
  ASSUME IInv, Covered, Backed, NEW n \in Unspent
  PROVE  n.quantity <= Custody
<1> DEFINE A == Unspent \ {n}
           V == Vaults
           g == [m \in HeldBy(A, V) |-> m.quantity]
<1>1. n \in notes /\ n.vault \in V /\ n.quantity \in Nat
  BY MaxU128Assumption DEF Unspent, IInv, NotesOK, Quantity
<1>2. Countable(HeldBy(Unspent, V)) /\ Owned(V) \in Nat
  BY UnspentCountable, OwnedNat DEF UnspentOf
<1>3. Worth(n, V) = n.quantity
  BY <1>1 DEF Worth
<1> HIDE DEF V
<1>4. /\ Total(HeldBy(A, V)) = Total(HeldBy(Unspent, V)) - n.quantity
      /\ Countable(HeldBy(A, V))
  BY <1>1, <1>2, <1>3, CountedRemove
<1>5. Total(HeldBy(A, V)) \in Nat
  <2> DEFINE S == HeldBy(A, V)
  <2>1. IsFiniteSet(S) /\ \A m \in S : g[m] \in Nat
    BY <1>4 DEF Countable
  <2>2. Total(S) = SumFunctionOnSet(g, S)
    BY DEF Total, SumFunction
  <2> HIDE DEF g, S
  <2>3. Total(S) \in Nat
    BY <2>1, <2>2, SumNat
  <2> QED BY <2>3 DEF S
<1>6. Owned(V) >= n.quantity
  BY <1>1, <1>2, <1>4, <1>5 DEF Owned, UnspentOf
<1>7. /\ Custody + Issued = Owned(V) + Wrapped + Donated
      /\ Issued <= Wrapped
      /\ Custody \in Nat /\ Issued \in Nat /\ Wrapped \in Int /\ Donated \in Nat
  BY CoveredTyped DEF Covered, Backed, V
<1> QED BY <1>1, <1>2, <1>6, <1>7

\* With k signatures for it, the spend of an unspent note goes through.
LEMMA SpendPasses ==
  ASSUME ReadyToSpend, IInv, Covered, NEW p \in Approved
  PROVE  Executable(p)
<1> SUFFICES ASSUME ~Spent(p.note), Backed \/ p.pay <= Custody,
                    NEW chosen \in SignatureChoices(p.note.vault),
                    \A i \in DOMAIN chosen : chosen[i].proposal = p
             PROVE  AdapterError(SpendTransaction(p, chosen)) = Accepted
  BY DEF Executable
<1> DEFINE tx == SpendTransaction(p, chosen)
           in == tx.consumed
           out == tx.created
<1>1. p \in Proposals /\ WellFormed(p)
  BY DEF Approved, IInv, ApprovalsOK
<1>2. /\ p.note \in notes /\ p.pay \in Nat /\ p.give \in Nat
      /\ p.payee \in Payees /\ p.to \in Vaults
      /\ p.note.vault \in Vaults /\ p.note.quantity \in Quantity
      /\ p.note.quantity \in Nat
      /\ p.pay <= p.note.quantity
  BY <1>1, ProposalFields, MaxU128Assumption DEF IInv, NotesOK, Quantity, WellFormed
<1>3. Authorised(SignedWitness(p, chosen))
  BY <1>1, <1>2, WitnessOpens, WitnessSigned, WitnessBalances DEF Authorised
<1>4. SpendParts(p, chosen, in, out)
  BY <1>2, PartsOfSpend
<1>5. Calls(tx).error = Accepted
  <2>1. Backed => p.note.quantity <= Custody
    BY <1>2, NoteCovered DEF Unspent
  <2>2. p.pay <= Custody
    BY <1>2, <2>1, CoveredTyped
  <2>3. BalancesTyped
    BY DEF IInv, BalancesOK
  <2> QED BY <1>2, <2>2, <2>3, SpendCalls DEF ReadyToSpend
<1>6. ASSUME NEW v \in Vaults
      PROVE  KindTotal(in, label_ref(Label[v])) = KindTotal(out, label_ref(Label[v]))
  BY <1>2, SpendKinds
<1>7. /\ TagsOf(in) = IF p.give = 0
                      THEN {NullifierOf(p.note), ZeroNullifier(p)}
                      ELSE {NullifierOf(p.note), ZeroNullifier(p), GivenNullifier(p)}
      /\ Len(in) = IF p.give = 0 THEN 2 ELSE 3
  BY SpendTags
<1> HIDE DEF tx, in, out
<1>8. TagsOf(in) \cap nullifiers = {}
  BY <1>1, <1>7, SpendFresh
<1>9. Cardinality(TagsOf(in)) = Len(in)
  <2>1. /\ Cardinality({NullifierOf(p.note), ZeroNullifier(p)}) = 2
        /\ Cardinality({NullifierOf(p.note), ZeroNullifier(p), GivenNullifier(p)}) = 3
    BY <1>1, SpendFresh, SizeOfTwo, SizeOfThree
  <2> QED BY <1>7, <2>1
<1>10. ToSet(in) = IF p.give = 0 THEN {SpendPart(p, chosen), NothingPart(p)}
                   ELSE {SpendPart(p, chosen), NothingPart(p), GivenPart(p)}
  <2>1. in = IF p.give = 0 THEN <<SpendPart(p, chosen), NothingPart(p)>>
             ELSE <<SpendPart(p, chosen), NothingPart(p), GivenPart(p)>>
    BY <1>4 DEF SpendParts
  <2> QED BY <2>1 DEF ToSet
<1>11. ToSet(out) = IF p.give = 0 THEN {ChangePart(p), LeavingPart(p)}
                    ELSE {ChangePart(p), RecipientPart(p), LeavingPart(p)}
  <2>1. out = IF p.give = 0 THEN <<ChangePart(p), LeavingPart(p)>>
              ELSE <<ChangePart(p), RecipientPart(p), LeavingPart(p)>>
    BY <1>4 DEF SpendParts
  <2> QED BY <2>1 DEF ToSet
<1>12. \A part \in ToSet(in) \cup ToSet(out) : part.error = Accepted
  BY <1>3, <1>4, <1>10, <1>11 DEF SpendParts
<1>13. \A c \in ToSet(in) :
         c.resource.is_ephemeral \/ c.resource \in {NoteResource(n) : n \in notes}
  BY <1>2, <1>4, <1>10 DEF SpendParts
<1>14. AdapterError(tx) = Accepted
  BY <1>5, <1>6, <1>8, <1>9, <1>12, <1>13, AdapterPasses DEF in, out
<1> QED BY <1>14 DEF tx

\* Whoever has k signatures for a spend of an unspent note gets it through, in
\* each of the three modes of constrain.rs:223-227 and however many deposits,
\* donations and rival spends came before: the proofs exist, no nullifier was
\* used, the kinds balance, and no call reverts.  It takes a MultisigForwarder
\* deployed for multisig_v1 and a WrapForwarder for wrap_v1, and deposits that
\* together wrapped what they created, or else a custody that has the payout.
THEOREM ApprovedExecute ==
  ASSUME ReadyToSpend
  PROVE  Spec => []ApprovedExecutable
<1>1. IInv /\ Covered => ApprovedExecutable
  BY SpendPasses DEF ApprovedExecutable
<1>2. Spec => []Covered
  BY InitCovered, NextCovered, Inductive, PTL DEF Spec
<1> QED BY <1>1, <1>2, Inductive, PTL

-----------------------------------------------------------------------------
(* The other way around: a MultisigForwarder deployed for another logic.   *)

\* Such a forwarder refuses the payout of a vault note.
LEMMA PayoutRefused ==
  ASSUME MULTISIG_V1 # MultisigForwarderLogicRef, NEW p
  PROVE  Step(Start, Payout(p)).error # Accepted
<1> DEFINE c == Payout(p)
           error == CallError(Start, c.logic_ref, c.blob)
<1>1. Start.error = Accepted /\ Start.bal = balance
  BY DEF Start
<1>2. c.logic_ref = MULTISIG_V1 /\ c.blob.forwarder = MULTISIG_FORWARDER
  BY DEF Payout
<1>3. error = Chain!MultisigForwardError(PA, MULTISIG_V1, Chain!TransferCall(c.blob), balance)
  BY <1>1, <1>2 DEF CallError
<1> HIDE DEF c
<1>4. error = "WrongLogic"
  <2> HIDE DEF error
  <2> QED BY <1>3 DEF Chain!MultisigForwardError
<1>5. Step(Start, c) = [Start EXCEPT !.error = error]
  BY <1>1, <1>4 DEF Step, Call, Accepted
<1>6. Step(Start, c).error = "WrongLogic"
  <2> HIDE DEF error
  <2> QED BY <1>4, <1>5 DEF Start
<1> QED BY <1>6 DEF Accepted, c

\* A spend with a payout is then refused as a whole.
LEMMA WithdrawalRefused ==
  ASSUME MULTISIG_V1 # MultisigForwarderLogicRef, NEW p, p.pay # 0, NEW chosen
  PROVE  AdapterError(SpendTransaction(p, chosen)) # Accepted
<1> DEFINE tx == SpendTransaction(p, chosen)
           W == WrapOfNothing
<1>1. Paid(p).error # Accepted
  BY PayoutRefused DEF Paid
<1>2. Calls(tx) = IF p.give = 0 THEN Step(Paid(p), W) ELSE Step(Step(Paid(p), W), W)
  BY SpendCallsState
<1> HIDE DEF tx, W
<1>3. Calls(tx).error # Accepted
  BY <1>1, <1>2, ErrorStays
<1>4. AdapterError(tx) # Accepted
  BY <1>3, AdapterAccepts
<1> QED BY <1>4 DEF tx

\* Nothing was ever paid out.
NothingPaid == \A p \in executed : p.pay = 0

\* Deployed for another logic than multisig_v1, as README.md:349 has it, the
\* MultisigForwarder never pays: no withdrawal is ever executed, with or
\* without the signatures, though deposits and RM-internal spends go on.
THEOREM WithdrawalsNeedVaultLogic ==
  ASSUME MULTISIG_V1 # MultisigForwarderLogicRef
  PROVE  Spec => []NothingPaid
<1>1. Init => NothingPaid
  BY DEF Init, NothingPaid
<1>2. NothingPaid /\ [Next]_vars => NothingPaid'
  <2> SUFFICES ASSUME NothingPaid, [Next]_vars PROVE NothingPaid'
    OBVIOUS
  <2>1. ASSUME NEW v, NEW d, NEW q, NEW amount, Deposit(v, d, q, amount)
        PROVE  NothingPaid'
    BY <2>1 DEF Deposit, NothingPaid
  <2>2. ASSUME NEW donor, Donate(donor) PROVE NothingPaid'
    BY <2>2 DEF Donate, NothingPaid
  <2>3. ASSUME NEW p, NEW key, Approve(key, p) PROVE NothingPaid'
    BY <2>3 DEF Approve, NothingPaid
  <2>4. ASSUME NEW p, NEW chosen, Execute(p, chosen) PROVE NothingPaid'
    <3>1. AdapterError(SpendTransaction(p, chosen)) = Accepted
      BY <2>4 DEF Execute, Run
    <3>2. p.pay = 0
      BY <3>1, WithdrawalRefused
    <3> QED BY <2>4, <3>2 DEF Execute, NothingPaid
  <2>5. CASE UNCHANGED vars
    BY <2>5 DEF vars, NothingPaid
  <2> QED BY <2>1, <2>2, <2>3, <2>4, <2>5 DEF Next
<1> QED BY <1>1, <1>2, PTL DEF Spec

=============================================================================
