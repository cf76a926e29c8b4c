-------------------------- MODULE ConsumedCircuit --------------------------
(***************************************************************************)
(* One run of the multisig_v1 guest on a consumed vault note:              *)
(* constrain_multisig_consumed, with its early returns in source order.    *)
(* Straight-line checks are one step, every loop iteration is a step, so   *)
(* that the loop state (prev, recipient_sum, external_sum) is visible.     *)
(***************************************************************************)
EXTENDS SpendWitness

CONSTANT Witnesses  \* the witnesses the host may hand to the guest

ASSUME WitnessesAssumption == \A x \in Witnesses : IsWitness(x)

VARIABLES
  w,              \* the MultisigConsumedWitness read from the environment
  pc,             \* the check the guest is at
  i,              \* index of the loop the guest is in, from 1
  prev,           \* Option<u32> of the signer loop: NoIndex, or the last idx
  recipient_sum,  \* u128 accumulator of the recipient loop
  external_sum,   \* u128 accumulator of the payload loop
  error           \* the CircuitError the run aborted with, or None

vars == <<w, pc, i, prev, recipient_sum, external_sum, error>>

NoIndex == -1
None == "none"
Blocks == {"label", "pubkeys", "root", "signers", "change", "recipients",
           "payloads", "conservation", "signatures"}
Final == {"committed", "aborted"}

\* The variants of CircuitError this branch returns.
CircuitErrors ==
  {"WrongNullifierKey", "WrongNullifierKeyCommitment", "WrongLabelRef",
   "PubkeyCountMismatch", "UnsortedPubkeys", "WrongPubkeyRoot",
   "WrongSignerCount", "BadSignerIndices", "ChangeLabelMismatch",
   "ChangeOverflow", "ChangeNotInAction", "RecipientNotInAction",
   "BadExternalPayload", "ExternalTokenMismatch", "ConservationBroken",
   "SignatureError", "ResourceError"}

-----------------------------------------------------------------------------
(* What each block of checks returns for a witness: an error, or None. *)

\* Steps 1 to 4a: nullifier key, its commitment, label hash, pubkey count.
LabelBlockError(x) ==
  IF x.nf_key # derive_nullifier_key_bytes(x.label_preimage)
    THEN "WrongNullifierKey"
  ELSE IF nk_commit(x.nf_key) # x.resource.nk_commitment
    THEN "WrongNullifierKeyCommitment"
  ELSE IF x.resource.label_ref # label_ref(x.label_preimage)
    THEN "WrongLabelRef"
  ELSE IF Len(x.pubkeys) # x.label_preimage.n THEN "PubkeyCountMismatch"
  ELSE None

\* Step 4b, one window of the sortedness loop.
PubkeyWindowError(x, j) ==
  IF x.pubkeys[j] >= x.pubkeys[j + 1] THEN "UnsortedPubkeys" ELSE None

\* Steps 4c and 5: the pubkeys are the label's, and there are k signatures.
RootBlockError(x) ==
  IF pubkey_root_of(x.pubkeys) # x.label_preimage.pubkey_root
    THEN "WrongPubkeyRoot"
  ELSE IF Len(x.signatures) # x.label_preimage.k THEN "WrongSignerCount"
  ELSE None

\* Fault: the same index may be used for two slots.
SignerSlotErrorRepeats(x, j, p) ==
  IF \/ x.signatures[j].idx >= x.label_preimage.n
     \/ p # NoIndex /\ p > x.signatures[j].idx
  THEN "BadSignerIndices"
  ELSE None

\* Step 6, one slot: its index is in range and above the previous one.
SignerSlotError(x, j, p) ==
  IF \/ x.signatures[j].idx >= x.label_preimage.n
     \/ p # NoIndex /\ p >= x.signatures[j].idx
  THEN "BadSignerIndices"
  ELSE None

\* Fault: the label of the change note is left free.
ChangeBlockErrorAnyLabel(x) ==
  IF x.change_resource.quantity > x.resource.quantity THEN "ChangeOverflow"
  ELSE IF commitment(x.change_resource) \notin x.action_tags
    THEN "ChangeNotInAction"
  ELSE None

\* Steps 7 and 8: the change note keeps the label, fits, and is in the action.
ChangeBlockError(x) ==
  IF x.change_resource.label_ref # x.resource.label_ref
    THEN "ChangeLabelMismatch"
  ELSE IF x.change_resource.quantity > x.resource.quantity
    THEN "ChangeOverflow"
  ELSE IF commitment(x.change_resource) \notin x.action_tags
    THEN "ChangeNotInAction"
  ELSE None

\* Faults: a plain addition, and an off-by-one at u128::MAX.
AddOverflowsUnchecked(a, b) == FALSE
AddOverflowsEarly(a, b) == a + b >= MaxU128

\* u128::checked_add: None in the source when the sum does not fit.
AddOverflows(a, b) == a + b > MaxU128

\* Step 9, one recipient: in the action, and the running sum fits.
RecipientError(x, j, sum) ==
  IF commitment(x.recipient_resources[j]) \notin x.action_tags
    THEN "RecipientNotInAction"
  ELSE IF AddOverflows(sum, x.recipient_resources[j].quantity)
    THEN "ConservationBroken"
  ELSE None

\* Step 10, one blob: calls to other forwarders are allowed and not counted.
PayloadError(x, j, sum) ==
  LET blob == x.app_data.external_payload[j] IN
  IF ~OuterParses(blob) THEN "BadExternalPayload"
  ELSE IF blob.forwarder # MULTISIG_FORWARDER THEN None
  ELSE IF ~InnerParses(blob) THEN "BadExternalPayload"
  ELSE IF blob.token # x.label_preimage.token_addr THEN "ExternalTokenMismatch"
  ELSE IF AddOverflows(sum, blob.amount) THEN "ConservationBroken"
  ELSE None

\* Fault: the equation of the older design, without the RM-internal part.
ConservationErrorExternalOnly(x, external, recipients) ==
  IF external + x.change_resource.quantity # x.resource.quantity
    THEN "ConservationBroken"
  ELSE IF TagFails(x.resource, x.nf_key) THEN "ResourceError"
  ELSE None

\* Steps 11 and 12: the checked total is the consumed quantity; tag computed.
ConservationError(x, external, recipients) ==
  IF \/ AddOverflows(external, recipients)
     \/ AddOverflows(external + recipients, x.change_resource.quantity)
     \/ external + recipients + x.change_resource.quantity
          # x.resource.quantity
    THEN "ConservationBroken"
  ELSE IF TagFails(x.resource, x.nf_key) THEN "ResourceError"
  ELSE None

\* Step 14, one slot; idx counts pubkeys from 0.
SignatureError(x, j) ==
  LET slot == x.signatures[j] IN
  IF verify_secp256k1(x.pubkeys[slot.idx + 1], SpendMessage(x), slot.sig)
  THEN None ELSE "SignatureError"

-----------------------------------------------------------------------------
(* The run. *)

Init ==
  /\ w \in Witnesses
  /\ pc = "label"
  /\ i = 1
  /\ prev = NoIndex
  /\ recipient_sum = 0
  /\ external_sum = 0
  /\ error = None

\* The ? operator and expect() of the guest: no journal is committed.
Abort(err) ==
  /\ pc' = "aborted"
  /\ error' = err
  /\ UNCHANGED <<w, i, prev, recipient_sum, external_sum>>

\* The block passed: the next one starts at the head of its loop.
GoTo(block) ==
  /\ pc' = block
  /\ i' = 1
  /\ UNCHANGED <<w, prev, recipient_sum, external_sum, error>>

\* A block of straight-line checks.
Check(block, err, next) ==
  /\ pc = block
  /\ \/ err # None /\ Abort(err)
     \/ err = None /\ GoTo(next)

\* The head of a loop: iteration i is left to do.
InLoop(block, bound) == pc = block /\ i <= bound

\* The loop is over.
LoopDone(block, bound, next) == pc = block /\ i > bound /\ GoTo(next)

CheckLabel == Check("label", LabelBlockError(w), "pubkeys")

CheckPubkeyWindow ==
  /\ InLoop("pubkeys", Len(w.pubkeys) - 1)
  /\ LET err == PubkeyWindowError(w, i) IN
     \/ err # None /\ Abort(err)
     \/ /\ err = None
        /\ i' = i + 1
        /\ UNCHANGED <<w, pc, prev, recipient_sum, external_sum, error>>

PubkeysSorted == LoopDone("pubkeys", Len(w.pubkeys) - 1, "root")

CheckRoot == Check("root", RootBlockError(w), "signers")

CheckSignerSlot ==
  /\ InLoop("signers", Len(w.signatures))
  /\ LET err == SignerSlotError(w, i, prev) IN
     \/ err # None /\ Abort(err)
     \/ /\ err = None
        /\ prev' = w.signatures[i].idx
        /\ i' = i + 1
        /\ UNCHANGED <<w, pc, recipient_sum, external_sum, error>>

SignersDone == LoopDone("signers", Len(w.signatures), "change")

CheckChange == Check("change", ChangeBlockError(w), "recipients")

SumRecipient ==
  /\ InLoop("recipients", Len(w.recipient_resources))
  /\ LET err == RecipientError(w, i, recipient_sum) IN
     \/ err # None /\ Abort(err)
     \/ /\ err = None
        /\ recipient_sum' = recipient_sum + w.recipient_resources[i].quantity
        /\ i' = i + 1
        /\ UNCHANGED <<w, pc, prev, external_sum, error>>

RecipientsDone ==
  LoopDone("recipients", Len(w.recipient_resources), "payloads")

SumPayload ==
  /\ InLoop("payloads", Len(w.app_data.external_payload))
  /\ LET err == PayloadError(w, i, external_sum) IN
     \/ err # None /\ Abort(err)
     \/ /\ err = None
        /\ external_sum' =
             external_sum + ForwardedAmount(w.app_data.external_payload[i])
        /\ i' = i + 1
        /\ UNCHANGED <<w, pc, prev, recipient_sum, error>>

PayloadsDone ==
  LoopDone("payloads", Len(w.app_data.external_payload), "conservation")

CheckConservation ==
  Check("conservation", ConservationError(w, external_sum, recipient_sum),
        "signatures")

VerifySignature ==
  /\ InLoop("signatures", Len(w.signatures))
  /\ LET err == SignatureError(w, i) IN
     \/ err # None /\ Abort(err)
     \/ /\ err = None
        /\ i' = i + 1
        /\ UNCHANGED <<w, pc, prev, recipient_sum, external_sum, error>>

\* Ok(journal_bytes), which the guest commits with env::commit_slice.
CommitJournal == LoopDone("signatures", Len(w.signatures), "committed")

Next ==
  \/ CheckLabel
  \/ CheckPubkeyWindow \/ PubkeysSorted
  \/ CheckRoot
  \/ CheckSignerSlot \/ SignersDone
  \/ CheckChange
  \/ SumRecipient \/ RecipientsDone
  \/ SumPayload \/ PayloadsDone
  \/ CheckConservation
  \/ VerifySignature \/ CommitJournal

Spec == Init /\ [][Next]_vars

\* The executor runs the guest until it commits or panics.
FairSpec == Spec /\ WF_vars(Next)

-----------------------------------------------------------------------------
(* Properties. *)

\* The types of the run's variables; a sum never leaves the range of a u128.
TypeOK ==
  /\ pc \in Blocks \cup Final
  /\ i \in Nat \ {0}
  /\ prev \in Nat \cup {NoIndex}
  /\ recipient_sum \in Quantity
  /\ external_sum \in Quantity
  /\ error \in CircuitErrors \cup {None}
  /\ error # None <=> pc = "aborted"

Committed == pc = "committed"

\* K-of-N authorization (constrain.rs:149-162, 270-275): when a journal is
\* committed, at least k DIFFERENT keys of the set the consumed note's label
\* commits to have signed the spend message.  The code never builds this set:
\* it compares adjacent indices and adjacent keys only.
KofNAuthorized ==
  Committed =>
    /\ w.resource.label_ref = label_ref(w.label_preimage)
    /\ w.label_preimage.pubkey_root = pubkey_root_of(w.pubkeys)
    /\ Cardinality(ValidSigners(w)) >= w.label_preimage.k

\* Conservation (constrain.rs:223-244): in unbounded arithmetic, the amounts
\* sent to the forwarder, the recipients' quantities and the change add up to
\* the consumed quantity when a journal is committed, however close to
\* u128::MAX the partial sums came.
Conserved == Committed => Balanced(w)

\* The run decides what the declarative reading of the witness says: it
\* commits exactly the authorised witnesses, refuses all others, and never
\* changes its mind.
Authorization == INSTANCE SpendAuthorization WITH
  Authorised <- Authorised,
  outcome <- IF pc \in Final THEN pc ELSE "running"

ImplementsAuthorization == Authorization!Spec

\* Completeness, a liveness property: the checks refuse nothing they should
\* let through (a sum equal to u128::MAX, an empty recipient list, calls to
\* other forwarders), so an authorised spend is committed in the end.
AuthorisedCommits == Authorised(w) ~> Committed

\* "every wei of consumed value lands somewhere the K-of-N approved"
\* (src/README.md:298): the notes a witness names, each once, and the calls
\* hold the consumed quantity.  The guest sums a list (constrain.rs:184-196).
LandedQuantity(x) ==
  MapThenSumSet(LAMBDA r : r.quantity,
                {x.change_resource} \cup ToSet(x.recipient_resources))

ValueLands ==
  Committed =>
    TotalOf(ForwardedAmounts(w)) + LandedQuantity(w) = w.resource.quantity

\* "The full action tag list, used to (a) reconstruct `actionTreeRoot`"
\* (witness.rs:61): the tags that change and recipients are looked up in are
\* those of the action whose root the journal carries.
TagsUnderRoot ==
  Committed => w.action_tree_root = action_tree_root_of(w.action_tags)

=============================================================================
