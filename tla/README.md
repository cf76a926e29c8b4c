# The K-of-N vault, specified

A TLA+ development for the multisig vault of this repository: a `K`-of-`N`
secp256k1 vault that lives as notes of the Anoma resource machine (RM) and holds
its ERC20 tokens in a singleton forwarder contract. The modules model the checks
of the two guests and their facades, the messages signers sign, the wire formats
(journal and ABI calls), the two forwarder contracts, the vault the host builds
and the life of vault notes; TLC checks them on small instances and TLAPS proves
the safety properties of the passing runs, both refinements included, for every value
of the constants.

Paths are relative to the repository root; `constrain.rs` is
`coordinator/crates/multisig-core/src/constrain.rs`, and likewise for the other
files of `multisig-core`.

## 1. The system

| Component | Source | State | Operations |
|---|---|---|---|
| label, keys | `label.rs` | none | `LabelPreimage::new`, `encode`, `label_ref`, `nullifier_key`, `pubkey_root_of` |
| spend message, signatures | `spend.rs`, `sig.rs` | none | `RecipientCommitments::new`, `spend_message`, `verify_secp256k1` |
| journal | `journal.rs`, `LogicJournal.sol` | none | `encode`, `digest`, in Rust and in Solidity |
| multisig_v1, consumed branch | `constrain.rs:105-276` | index, previous signer, two running sums | fourteen checks, four loops |
| multisig_v1, created branch | `constrain.rs:283-311` | none | salt, k and n, label hash |
| wrap_v1, inflow and outflow | `constrain.rs:317-400` | none | label, payload and journal of a deposit or withdrawal ephemeral |
| payload parser | `constrain.rs:408-550` | none | `parse_external_call`, `parse_multisig_call_input`, `parse_wrap_call_input` |
| MultisigForwarder | `contracts/src/MultisigForwarder.sol` | ERC20 custody of all vaults | `forwardCall` |
| WrapForwarder | `contracts/src/WrapForwarder.sol` | allowances granted to it | `forwardCall` |
| ABI encoder of the host | `fixtures.rs:110-159` | none | `encode_external_transfer` |
| host assembly and signing | `host/src/fixtures.rs` | collected signatures | build a witness, compute the message, sign |
| host vault | `fixtures.rs:40-90` | secret keys, pubkeys, label | `TestVault::deterministic` from a seed byte |
| prover facades | `circuits/*/src/lib.rs` | receipts | `prove_consumed`, `prove_created`, `prove_inflow`, `prove_outflow` |
| guest dispatch | `circuits/*/methods/guest` | none | read a branch and a witness, call the branch, commit the journal |
| protocol adapter, compliance circuit, ERC20, risc0 | not in the repository | notes, nullifier set, balances | execute a transaction as a whole |

How they interact. The host builds the witness of a spend; the signers sign
`spend_message`, which covers the digest of the consumed note's journal (nullifier,
action root, every payload) and the commitments of the recipients. The guest
checks the witness and commits that journal. The protocol adapter accepts a
transaction whose proofs verify, whose nullifiers are new and whose kinds
balance, and makes the external calls of its payloads; the `MultisigForwarder`
pays out, the `WrapForwarder` takes deposits in. One revert undoes the whole
transaction.

What is hard here. There are no threads; the difficulty is elsewhere:

- signing is slow and out of step with the chain: signatures for rival proposals
  of one note are collected together, for notes that may be spent meanwhile;
- all vaults share one custody account, so that each vault's money is only as
  safe as the accounting of all of them, and a deposit that wraps less than the note
  it creates is felt by whoever withdraws last;
- the consumed branch proves `k` *distinct* signers by comparing neighbours only,
  and conservation by checked additions that stop at `u128::MAX`;
- a spend is three documents in agreement: the payload that is signed, the calls
  the adapter makes, and the notes it creates;
- two languages encode the same journal, and the bytes of one ABI call are read
  by three programs: the guest's parser, the adapter and the forwarder;
- two branches with different obligations share one image id, and an adapter sees
  the journal alone.

What makes each component correct: the label binds token, threshold and key set;
the consumed branch commits only what `k` keys of the label signed and what
conserves value, and refuses nothing else; the parser counts what the contracts
will move; the journal's bytes say which instance they are of; a receipt for a
consumed resource vouches for an authorised spend, one for a created note for a
note its owners, and nobody else, can spend; the receipts of several spends together
pay out and create no more than the notes they consume; the forwarders move custody only for
the adapter and the deployed carrier; the custody follows the notes of all vaults,
so that only a deposit or a direct transfer can open or close a gap between them;
and each vault loses only what its signers granted.

## 2. Modules

| Module | Models | State | Role |
|---|---|---|---|
| `ResourceModel` | `label.rs`, `sig.rs`, `spend.rs`, journal digest; notes and nullifiers of the RM | - | shared values |
| `SpendWitness` | `witness.rs`, the parsers' verdict, the meaning of a witness (`Authorised`) | - | reference definition |
| `SpendAuthorization` | - | `w`, `outcome` | abstract specification of the consumed branch |
| `ConsumedCircuit` | `constrain_multisig_consumed`, check by check and iteration by iteration | `w pc i prev recipient_sum external_sum error` | implements `SpendAuthorization` |
| `ConsumedCircuit_proofs` | - | - | theorems |
| `DataTheorems` | - | - | lemmas of all proofs: induction, recursion, sums, lists |
| `CircuitBranches` | created branch, `wrap_v1` inflow and outflow | - | errors and instances of the other branches |
| `GuestRuns` | the four facades, `main` of the two guests, executor and prover failures | `request pc result receipts` | composes all branches; asks what a receipt vouches for, with `ForwarderCalls` for what its calls do |
| `GuestRuns_proofs` | - | - | theorems |
| `AbiCodec` | the three parsers, `read_uint256`, `read_bytes`, `abi.decode` of the contracts, the host's encoder and one for deposits | - | the bytes of an external call |
| `PayloadRun` | one payload from the parser to the forwarder | `blob carrier pc counted moved` | relates the guest's reading to the contracts' |
| `PayloadRun_proofs` | - | - | theorems |
| `JournalEncoding` | `journal.rs`, `LogicJournal.sol` | `instance pc part i out` | both encoders and a reader of the bytes |
| `JournalEncoding_proofs` | - | - | theorems |
| `HostVault` | `TestVault::deterministic`, `build_full_spend_witness`, `sign_witness` | `seed rank pc signers pubkeys label nf_key witness` | ends in the consumed branch's `Authorised` |
| `HostVault_proofs` | - | - | theorems |
| `ForwarderCalls` | both `forwardCall`s and the ERC20 they use | - | errors and resulting balances |
| `Forwarders` | both contracts, called by anybody | `balance allowance served` | state machine of the contracts |
| `Forwarders_proofs` | - | - | theorems |
| `VaultLedger` | - | `owned paid granted spent` | abstract specification of the whole |
| `VaultSystem` | deposits, proposals, signing, assembly, execution | `notes nullifiers balance allowance approvals executed` | composes `CircuitBranches`, `SpendWitness` and `ForwarderCalls`; implements `VaultLedger` |
| `VaultSystem_proofs` | - | - | theorems |
| `MC*` | - | - | constants for TLC |

`ConsumedCircuit` keeps the order of the code's checks and its early returns.
Straight-line checks are one step (`LabelBlockError`, `RootBlockError`,
`ChangeBlockError`, `ConservationError` name the error they end in); every
iteration of the pubkey, signer, recipient, payload and signature loops is a step,
with the loop's own variables. `Abort` is the `?` of the function followed by the
`expect` of the guest.

`GuestRuns` has one state per stage of `prove_branch`: the environment is built or
not, the prover delivers or not. A guest run is one step there, since nothing of
it is visible before it commits; the consumed branch stands as `Authorised`, which
is justified by `ImplementsAuthorization`. A receipt shows image and instance, as
the adapter sees them, and remembers its request for the properties.

`PayloadRun` follows one payload. `ParseOuter` and the parser of its branch are
the guest; `Execute` is the adapter's and the forwarder's decoding of the same
bytes. `JournalEncoding` takes one step per blob of the guest's encoder, with the
panics of `u32::try_from(..).expect(..)`; the Solidity encoder is an operator.
`HostVault` is one step per stage of the constructor.

`VaultSystem` uses the declarative `Authorised` for the consumed branch, which is
justified by the refinement `ImplementsAuthorization`, and the operators of
`CircuitBranches` for the others. `Deposit` is one transaction of an inflow
ephemeral and a note; it wraps an amount of its own, less or more than the quantity of
the note, since the inflow branch compares the payload's amount with
`paired_vault_quantity` (`constrain.rs:358`), a field of the witness that nothing in
`multisig-core` relates to a resource. `Approve` is one signer signing one proposal at any time,
for any note, spent or not. `Execute` is the assembler submitting a proposal with
*any* `k` signatures it holds from keys of the vault: also those made for another
proposal. `Donate` is an account sending tokens to the `MultisigForwarder` past the
wrap path (`README.md:352`). The host builds the other resources the way `SPEC.md` 8.1, 8.3, 8.5 and
8.6 lay an action out.

### What is abstracted

- SHA-256 is symbolic: different inputs, different hashes. Encodings applied
  before hashing are tuples of their fields; they are fixed-width or length-framed
  in the code. Signatures are records naming the key and the message.
- In the circuit and system modules a payload blob is the record of what it
  decodes to, with two flags that say whether the outer and the inner ABI encodings
  parse. `PayloadRun` is the justification: there a blob is bytes, and what the
  parser reads is what the contracts read.
- In `AbiCodec` a byte string is a sequence of 16-byte cells, the granularity at
  which the code tells values apart: a 32-byte word is a high and a low cell,
  `read_uint256` asks the high one to be zero and reads the low one as a `u128`, an
  address is the low cell of its word and the padding in front of it the high one (in
  the code 20 and 12 bytes). Offsets and lengths count cells, so that
  strings whose length is not a multiple of 16 are left out. `UsizeMod` is the width
  of `usize`, at most that of `u128`.
- In `JournalEncoding` a byte has `Base` values and the 32-byte words of the header
  are one byte each: they have a fixed place, and only lengths vary.
- In `HostVault` secret keys are symbolic and `rank` is the order their pubkeys
  happen to have on the curve.
- `RecipientCommitments::new` sorts a list; a bag is what is left of it.
- A nonce is the path by which a note descends from a deposit; the RM derives it
  from the nullifier of the paired resource, so that it never repeats.
- The kind of a note is its label hash, as `README.md:110` has it.
- External parts are modelled from how the code uses them: the RM's
  `commitment`, `tag` and `nullifier`, an ERC20 that moves the amount it is asked
  to move or reverts, and an adapter that executes all of a transaction or nothing.
- In `VaultSystem` the ephemerals of a spend wrap an amount of zero, since the inflow
  branch asks every consumed `wrap_v1` ephemeral for exactly one payload. Notes have the
  logic of the deployed guest, where the fixtures leave a placeholder
  (`fixtures.rs:96`). The host adds the parts of a proposal as `u128`s
  (`fixtures.rs:341`); the model adds them as numbers. Built without overflow checks, a
  sum that wraps around passes the host's assertion, but the guest's checked sums refuse
  the witness (`Conserved`), so that no such proposal is executed.

## 3. Properties and runs

| Run | Module, cfg | States | Checks |
|---|---|---|---|
| `consumed_circuit` | `MCConsumedCircuit` | 63 369 | `TypeOK`, `KofNAuthorized`, `Conserved`, `AuthorisedCommits`, `ImplementsAuthorization` |
| `forwarders` | `MCForwarders` | 36 450 | `TypeOK`, `CustodyLeavesByCarrier`, `DepositsAreAllowed` |
| `vault_system` | `MCVaultSystem` | 32 434 | `TypeOK`, `CustodyAccounted`, `ExecutedAsApproved`, `ImplementsLedger`, `ApprovedExecutable` |
| `payload_run` | `MCPayloadRun` | 52 641 | `TypeOK`, `MovedAsCounted`, `DecodableIsProvable`, `EncodedCallsArrive` |
| `journal_encoding` | `MCJournalEncoding` | 41 686 | `TypeOK`, `EncodersAgree`, `Unambiguous`, `PanicsExactly` |
| `guest_runs` | `MCGuestRuns` | 55 386 | `TypeOK`, `ConsumedReceiptsAuthorised`, `CreatedNotesSpendable`, `CreatedNotesOwned`, `InflowsFundCustody`, `WrapReceiptsKeepCustody`, `SpendsConserve` |
| `host_vault` | `MCHostVault` | 12 228 | `SpendsAuthorised`, `SeedsEnd` |
| `vault_system_as_documented` | `MCVaultSystem`, `MCVaultSystemAsDocumented.cfg` | - | `WithdrawalsExecutable`, violated |
| `payload_run_malformed` | `MCPayloadRun`, `MCPayloadRunMalformed.cfg` | - | `MalformedIsNone`, violated |
| `consumed_circuit_value_lands` | `MCConsumedCircuit`, `MCConsumedCircuitValueLands.cfg` | - | `ValueLands`, violated |
| `consumed_circuit_tags_under_root` | `MCConsumedCircuit`, `MCConsumedCircuitTagsUnderRoot.cfg` | - | `TagsUnderRoot`, violated |
| `guest_runs_inflow_quantity` | `MCGuestRuns`, `MCGuestRunsInflowMatches.cfg` | - | `InflowMatchesQuantity`, violated |

The violated properties are what the repository's documents say; section 5 has them.

**consumed_circuit.** Every run of the guest on a few thousand witnesses:
splits of a note and many non-splits with sums below, at and above `u128::MAX`
(`MaxU128 = 6`, note quantities 4 and 6, up to two recipients and two payloads);
all slot lists of length up to two over seventeen slots (wrong key, wrong
message, repeated or descending index, index out of range, high-s, bad DER);
labels that were never validated (unsorted or repeated keys, `k = 0`, a key that
is no curve point); and a signed witness with one part replaced afterwards. The
loops compare neighbours, so that two elements meet every branch and the third
key is there to be skipped; the sums are associative, so that two addends on each
side of the limit are enough. The run stops at the journal or at the panic, hence
no deadlock check.

- `KofNAuthorized` speaks of a *set* of keys, which the code never builds.
- `Conserved` is over unbounded integers, while the code adds in `u128`.
- `ImplementsAuthorization`: the fourteen checks in their order decide exactly
  the declarative `Authorised`, in both directions.
- `AuthorisedCommits` (liveness): an authorised witness is committed in the end.

**forwarders.** Any caller, any logic reference, any decodable or undecodable
input, two tokens, two users with one token each, amounts 0 to 2 so that calls
exceed the balance, transfers of an account to itself, direct transfers to a
forwarder, allowances that are too small. `served` is a history variable: the caller
and the logic of the forwarder call of the last step, which no storage of the
contracts keeps. `CustodyLeavesByCarrier` and
`DepositsAreAllowed` are action properties over all of that.

**vault_system.** A 2-of-3 vault and the 1-of-1 vault of one of its signers, one
deposit into each, of a note of 2 that wraps 1 or 3, one account that may send tokens to the custody
directly, three signatures for at most two proposals, two payees, three splits (out to
the EVM, to a vault, the payer's own included, both). Two deposits and three signatures
allow, in any order: two rival proposals for one note, a 2-of-3 spend whose signatures are for
different payees, a chained spend of a change or a recipient note of another vault, a
note spent while signatures for it are outstanding. A vault gets a second note
as change, or as a recipient. One amount below and one above the
note let the two deposits together wrap too little, enough or too much. Submitted
proposals are those some signer has signed; every combination of `k` signatures is tried
for them.

- `CustodyAccounted` relates the custody of the forwarder to the unspent notes of *all*
  vaults: the difference is what the deposits wrapped more, or less, than the notes they
  created, and what was sent directly. No spend opens or closes it. So the custody
  covers the notes where the deposits wrapped as much as they created, or where direct
  transfers make up for it, and not otherwise: nothing in the guest sees to it, though
  a document claims so (section 5, `InflowMatchesQuantity`).
- `ExecutedAsApproved`: signatures count for the proposal they were made for, in
  all its parts.
- `ImplementsLedger`: under the mapping `owned` = sum of unspent notes, `paid` =
  ERC20 balance of payees, `granted` = proposals with `k` signers, `spent` = notes
  of executed proposals, every step is a deposit, a grant or a granted spend that
  changes only the vaults and the payee it names; so rival proposals exclude each
  other and no vault pays for another.
- `ApprovedExecutable`: no proof, balance or forwarder check stands in the way of
  an approved spend of an unspent note, if the deposits together wrapped what they
  created, or if the custody holds this payment all the same. A vault system may stop when the bounds
  are used up, hence no deadlock check.

**payload_run.** The encodings of a transfer and of a deposit with amounts up to
the largest, cut short at every length, lengthened by a word, with every cell
replaced by each of 21 values and every pair of header and length cells by pairs
of seven: small numbers, offsets inside the string, at its end and behind it, the
end of the `usize` range, and numbers that truncate to a valid offset. Each
payload is carried by both branches. Offsets and lengths are each read alone or
added in pairs (`offset + 32`, `+ len`), so that pairs of damaged cells are enough.

- `MovedAsCounted`: the token, account and amount a forwarder moves are those the
  guest counted, though the parser truncates offsets to `usize` and the decoder of
  the contracts does not.
- `DecodableIsProvable`: no call the contracts would carry out is refused.
- `EncodedCallsArrive`: what the host encodes passes all three readers unchanged. The
  repository has no encoder of deposits; the one of the model follows the same layout.

**journal_encoding.** Bytes with two values, so that a `uint32` ends at 15: lists of
up to three blobs in each of the four payloads, with blobs that look like the
framing of other blobs, and lengths and counts of 14 to 17. `EncodersAgree`
compares the bytes with Solidity's, byte swap included; `Unambiguous` reads them
back, which is why the other modules may take the digest for an injective one;
`PanicsExactly` says that the guest stops exactly where Solidity's cast would cut a
length off.

**guest_runs.** Two receipts out of about 160 requests, in any order, with the
environment or the prover failing at any time. The labels of created notes were never validated: any
list of up to two keys with repeats, in any order, one of them no curve point, any
threshold from 0 to 3, any `n`, a zero salt, another label's nullifier key. Deposits
have one field wrong each. Two notes of one vault are split, with both signatures, into
change, up to two recipients and a payment, in all ways that do and do not balance; both
spends name the same three notes. Outflows carry a payment, a deposit, or a deposit
of what is in custody. Two receipts are what a property about a pair needs
(`InflowMatchesQuantity`, `SpendsConserve`); the others speak of one.

- `ConsumedReceiptsAuthorised`: two branches share an image; only the consumed one
  yields a journal that reads like a spend.
- `CreatedNotesSpendable`: the created branch sees neither the keys nor the note's
  nullifier key. The property draws the line between the notes that are spendable and
  those that are stuck for ever: a list of keys spends an accepted note if and only if
  its label commits to that list, sorted, and the note carries the label's nullifier key;
  and then the positions that suffice are any `k`, ascending, and no others. Every list
  is tried with every selection of its positions.
- `CreatedNotesOwned`: no list of keys spends a created note without signatures. The
  consumed branch compares the number of slots with `k` (`constrain.rs:146`) and never
  asks whether `k` is zero; the created branch does (`constrain.rs:293`).
- `InflowsFundCustody`: the calls a deposit proof carries do not revert for a
  depositor with means, and the custody gains the wrapped amount of the token that
  the label of the proven resource names.
- `WrapReceiptsKeepCustody`: no call of a `wrap_v1` receipt lowers the custody,
  whichever forwarder it is to, though the outflow branch accepts any payload: the
  forwarder's carrier check is what holds for payments, and a deposit drawn from the
  custody returns to it.
- `SpendsConserve`: the guest balances one note at a time. Of any spends with
  different tags, the payments and the notes they name, each note counted once, hold
  no more than the notes they consume. This is what the per-note equation promises of
  an action of several notes (`README.md:582`).

**host_vault.** All 256 seeds and all six orders of three pubkeys, spends of three
quantities. `SpendsAuthorised`: the secret keys still sit at the index of their
pubkey after sorting, and the host's own derivation of the nullifier key is the
guest's. `SeedsEnd`: every seed but two ends in a vault.

`MaxApprovals`, `MaxProposals`, `MaxDeposits`, `MaxReceipts`, `Splits`, `DepositQuantities`,
`DepositAmounts` and `InitBalance` bound the exploration; they are not in the code.

### Fairness

Two specifications have fairness, weak fairness of `Next` in both.
`ConsumedCircuit!FairSpec`: the RISC Zero executor runs a guest, which is a
loop-bounded sequential program, until it commits or panics. `HostVault!FairSpec`: a
constructor that was called runs to its end or to an `expect`. Nobody is obliged to
deposit, sign, submit or ask for a proof, and a prover may fail for ever, so
`VaultSystem`, `Forwarders` and `GuestRuns` have safety properties only, and "can be
executed" is stated as a predicate on states.

## 4. What is proved

Every theorem holds for all values of the constants under the named assumptions of
the modules, which TLC evaluates in the runs. Seven modules hold the theorems of one
component each; `DataTheorems` has the lemmas they share.

**Induction over data.** The library's induction theorems take a predicate as a
parameter, which the installed provers cannot instantiate. `DataTheorems` states
induction with sets instead (`NatSetInduction`: a set that holds 0 and with each
number the next one holds all), from the well-foundedness of `<`; likewise for finite
sets. From that come recursion by steps (`StepsExist`), that
`SumFunctionOnSet` can be taken apart at any element, and that
a list whose neighbours ascend ascends everywhere. So running sums, sums over accounts
and notes, and the recursive encoder are within reach of the proofs.

### The consumed branch: `ConsumedCircuit_proofs`

Assumes `MaxU128Assumption` (a natural number) and `WitnessesAssumption` (witness
fields have the types the Rust struct gives them); nothing bounds the number of keys,
signatures, recipients or payloads.

| Theorem | States |
|---|---|
| `TypeCorrect` | `Spec => []TypeOK`: the sums never leave the range of a `u128` |
| `Soundness` | `Spec => [](Committed => Authorised(w))`: a journal is committed only for an authorised witness |
| `KofN` | `Spec => []KofNAuthorized`: at least `k` different keys of the label signed |
| `Conservation` | `Spec => []Conserved` |
| `Implementation` | `Spec => ImplementsAuthorization`: the circuit implements `SpendAuthorization`, in both directions |
| `RunsEnd` | a run starts with at most `StepsBound` steps to take, each step leaves fewer, and none are left exactly in the final states |

`KofNAuthorized` says nothing before the run has committed, so it is
not inductive. `IInv` says for each `pc` what the passed blocks have established:
the facts of the finished straight-line blocks, "the first `i - 1` keys ascend
*pairwise*" (the code checks neighbours; the pairwise form is what the invariant
carries from one iteration to the next), "the first `i - 1` indices ascend
pairwise, lie below `n`, and `prev` is the last of them", the two accumulators as
sums of the first `i - 1` addends, and the first `i - 1` signatures valid. There
is one lemma per action. `KDistinctSigners` then counts: strictly ascending
indices below `n` into strictly ascending keys give an injection from `1 .. k` into
the set of valid signers, so the set has at least `k` members.

For `Implementation` the other direction is needed: no block ends in an error on an
authorised witness. Overflow is the interesting case (`AuthorisedFits`). The addends
are natural, so that a partial sum is at most the whole, and the whole is the quantity of
the consumed note, which is a `u128`: what overflows does not balance.

`RunsEnd` counts the steps a run still has to take (`StepsLeft`): those of the loop it
is in from the current index, and those of all blocks behind it. `StepsBound` is
`9 + N + 2k + R + P` for `N` keys, `k` slots, `R` recipients and `P` payloads: two passes
over the slots, one over each other list. Hashing a list or
searching the tags is one step, so that this counts checks, not cycles.

### The forwarders: `Forwarders_proofs`

Assumes `DeploymentAssumption` (the adapter and the two
forwarders are different accounts and no users) and `AmountsAssumption`.

| Theorem | States |
|---|---|
| `TypeCorrect` | `Spec => []TypeOK`: balances and allowances stay natural |
| `CustodyGuarded` | `Spec => CustodyLeavesByCarrier` |
| `DepositsGuarded` | `Spec => DepositsAreAllowed` |

`TypeOK` is inductive here. `TransferGain` says that a transfer lowers only the
balance of the account it is taken from, not when it pays itself, and by how much. So the
custody falls only by `MultisigForward` (a deposit out of the custody goes back to
it, and users pay from their own accounts), and a user's balance only by
`UserTransfer` and `WrapForward`, and what one account loses another gains.

### The vaults: `VaultSystem_proofs`

Assumes `VaultsAssumption` (labels are those `LabelPreimage::new` makes, and
different vaults have different ones), `AccountsAssumption` (depositors, payees,
donors and the custody are different accounts, depositors and donors are finitely many) and `AmountsAssumption`. Nothing
bounds the vaults, their keys, the splits or the length of a chain of spends.

| Theorem | States |
|---|---|
| `TypeCorrect` | `Spec => []TypeOK` |
| `ApprovedSpends` | `Spec => []ExecutedAsApproved` |
| `CustodyIsAccounted` | `Spec => []CustodyAccounted` |
| `BackedSolvency` | `Spec => []Solvent`: the custody covers the unspent notes if the deposits wrapped what they created |
| `LedgerImplemented` | `Spec => ImplementsLedger` |
| `ApprovedExecute` | `Spec => []ApprovedExecutable`, if `ReadyToSpend` |
| `WithdrawalsNeedVaultLogic` | `Spec => []NothingPaid`, if `MULTISIG_V1 # MultisigForwarderLogicRef` |

None of these properties is inductive. A spend takes away *one* note only if no
other note has its nullifier, and adds the notes it creates only if these are new.
`IInv` therefore says where nonces come from: a note's nonce is that of an earlier
deposit, or descends from a note that is spent (`NoncesOK`); and every nullifier is that
of a note, or of an ephemeral that was used together with one (`NullifiersOK`). It adds
that what is signed is a well-formed proposal (`ApprovalsOK`), and that an executed
proposal has `k` signers and a spent note (`ExecutedOK`), which is where the
signatures of `Authorised` and the injectivity of the spend message come in. On that
rests `Covered`, the custody's account vault by vault, which is inductive relative to `IInv`: one
lemma per action says which notes become unspent or spent and what the forwarders
move. What was wrapped and what was sent directly are read off the balances of the
depositors and donors, so that an account that loses tokens must be taken out of a sum. `LedgerStep` names the ledger's step from the same lemmas.

`ApprovedExecute` is the converse of all checks at once: from `k` signatures by
different keys it builds the slots, in ascending order, and shows that every proof
exists, no nullifier was used, every kind balances, and neither forwarder
reverts; the custody has the payment, by assumption or, where the deposits are backed,
because `Covered` says so. `ReadyToSpend` asks that the two forwarders are deployed
for the logic of the resources that carry their calls (`multisig_v1` for the
`MultisigForwarder`) and that the keys of the labels are curve points.
`WithdrawalsNeedVaultLogic` is the other side: under any other deployment the vaults
accept deposits and RM-internal spends and never pay out (section 5).

### Receipts: `GuestRuns_proofs`

Assumes `GuestsAssumption` (the two images differ, requests name one of the four
facades) and `WitnessAssumption` (key lists are sequences of keys; quantities and
amounts have their types, and the witness of a spend those of `IsWitness`); nothing
else is asked of a request.

| Theorem | States |
|---|---|
| `ReceiptsVouch` | `Spec => []ConsumedReceiptsAuthorised` |
| `TypeCorrect` | `Spec => []TypeOK` |
| `HoldersCanSpend` | `Spec => []CreatedNotesSpendable` |
| `NotesAreOwned` | `Spec => []CreatedNotesOwned` |
| `DepositsFund` | `Spec => []InflowsFundCustody` |
| `CustodyKept` | `Spec => []WrapReceiptsKeepCustody`, if `MultisigForwarderLogicRef # WRAP_V1` |
| `ActionsConserve` | `Spec => []SpendsConserve` |

The receipts of the properties say nothing of the request they came from; the
invariant adds that each is the receipt of a request whose branch accepted it
(`ReceiptsEarned`), that no request is dropped or exchanged half way (`RequestOK`), and
that the receipts are finitely many.
`HoldersCanSpend` takes a label nobody validated, any list of keys and any selection of
its positions, and shows that the witness that spends the whole note with them is
authorised exactly under the conditions of the property: `ChangeOpens` for the label and
the nullifier key, `ChangeSigned` for the slots, each an equivalence. `NotesAreOwned` needs
only that an accepted threshold is at least one. `InflowsFundCustody` speaks of
depositors other than the `MultisigForwarder`: a transfer of the custody to itself
would add nothing.

`CustodyKept` needs the deployment that withdrawals need too (section 5): its assumption
says that the forwarder's one carrier is not the other circuit. `ActionsConserve` is
about any number of spends. `SpendBalances` has for one of them, from
`ConsumedReceiptsAuthorised`, that its payments and the *set* of notes it names hold at
most the quantity of its note: a note that is listed twice counts once
(`SumImage`). The sum of a union of sets is at most the sum of their sums
(`SumUnions`), so that notes shared by two spends only lower the left side.
The right side needs the spends to consume different notes (`SumInjected`):
`OneTagPerNote`, a note has one nullifier, because it carries the commitment of the
one nullifier key the guest accepts for it.

### The host's vault: `HostVault_proofs`

Assumes `HostAssumption` (a salt of zero bytes is zero, pubkeys are ordered,
quantities are those of resources).

| Theorem | States |
|---|---|
| `HostSpendsAuthorised` | `Spec => []SpendsAuthorised` |
| `PanicsOfTwoSeeds` | `Spec => [](pc = "panicked" => seed \in {0, MaxU8})`: the safety half of `SeedsEnd` |

The invariant `KeysMatch` holds the secret key at each position together with the
pubkey there, across the sort.

### Payloads: `PayloadRun_proofs`

Assumes `CodecAssumption` (a `usize` fits a `u128` and has room for a word),
`BlobsAssumption` (payloads are strings of cells, shorter than the `usize` range) and
`CallsAssumption` (what the host encodes); nothing is said of the contents of payloads.

| Theorem | States |
|---|---|
| `NothingElseMoves` | `Spec => []MovedAsCounted` |
| `NothingElseRefused` | `Spec => []DecodableIsProvable` |
| `EncodedArrive` | `Spec => []EncodedCallsArrive` |
| `TypeCorrect` | `Spec => []TypeOK` |

The core is `BytesAgree`: where `abi.decode` accepts a dynamic field, its offset and
length lie within the string and so below `UsizeMod`, truncation changes nothing
(`AsUsizeSmall`), the parser accepts the field too, and both read the same cells. The
converse is false, which is why the guest may accept what the contracts revert. The
inductive invariant `IInv` says at each `pc` how the guest's reading so far relates
to the contracts': at `accepted`, that the counted call is the one the forwarder will
decode, if it decodes any; at `refused` and `panicked`, that there is none to carry out.
`EncodedDeliverable` follows the encoder's offsets through both layers.

### The journal: `JournalEncoding_proofs`

Assumes `BaseAssumption` (a byte has two values or more) and `InstancesAssumption`
(instances have their type): blobs and payloads of any length.

| Theorem | States |
|---|---|
| `TypeCorrect` | `Spec => []TypeOK` |
| `SameJournal` | `Spec => []EncodersAgree` |
| `PanicsWhenCutOff` | `Spec => []PanicsExactly` |
| `OneInstancePerJournal` | `Spec => []Unambiguous` |

The contract's encoder is a recursion over blobs, the guest's a loop. `IInv` says
that the output is what the recursion gives for the payloads before this one, the
length of this one, and its blobs before this one, and that all earlier lengths fit a
`uint32`; `EncodePayloadIs` is the recursion, by induction. That the masks and shifts
of `reverseByteOrderUint32` reverse four bytes is arithmetic of digits
(`ByteOrderReversed`). For `Unambiguous`, `Holds` says what stands at a position of a
string; a length, then each blob, then each payload is read where it was written.
This is the theorem that lets the other modules take the journal's digest for an
injective one.

### Only model-checked

- `AuthorisedCommits` and `SeedsEnd` are liveness under fairness. For the first, what
  the theorems leave open is only that a run does not stand still before it ends:
  `RunsEnd` says that it cannot go on for ever, `Implementation` where it may end.
  `PanicsOfTwoSeeds` says how the constructor may end.
- The violated properties of section 5.

## 5. Where code and documents differ

Each of these is a run that checks what a document or comment says and finds a
behaviour of the code that differs.

- `WithdrawalsExecutable`. The run deploys the `MultisigForwarder` as its
  documentation says, with the image id of `wrap_v1`
  (`contracts/src/MultisigForwarder.sol:10-12`, `README.md:349`). The consumed branch
  counts the payloads of the consumed vault note, whose logic is `multisig_v1`, and
  `constrain.rs:100-104` says that outflow ephemerals carry none. A withdrawal with
  `k` signatures then has valid proofs and balanced kinds, and `forwardCall` reverts
  with `WrongLogic`. `WithdrawalsNeedVaultLogic` is the theorem: so deployed, the
  vaults never pay, for any vaults, signers and amounts. `vault_system` checks, and
  `ApprovedExecute` proves, that with the forwarder deployed for `multisig_v1` carriers
  approved withdrawals go through.
- `MalformedIsNone`. `parse_external_call` "returns None on malformed input"
  (`constrain.rs:430`); `offset + 32` (`constrain.rs:474`) is an unchecked addition,
  and an offset at the end of the `usize` range ends in a panic. No journal is
  committed either way.
- `ValueLands`. "Every wei of consumed value lands somewhere the K-of-N approved"
  (`README.md:298`). Recipients are a list, looked up one by one: two equal ones, or
  one equal to the change note, are one note of the action and count twice. The
  signers see the list; the note they spend loses the difference.
- `TagsUnderRoot`. `action_tags` is "used to (a) reconstruct `actionTreeRoot`"
  (`witness.rs:61`); the code looks notes up in it and copies the root from another
  field. The adapter's own check of the root is outside the guest.
- `InflowMatchesQuantity`. `SPEC.md:304-307` has the inflow side constrain the amount
  to the quantity of the created note; the code compares it with
  `paired_vault_quantity`, a field of the witness (`constrain.rs:358`). A depositor can
  so create a note of more than was wrapped, and since all vaults draw on one custody,
  another vault's withdrawal may find it short. `CustodyAccounted` says by how much, and
  `BackedSolvency` that nothing else makes it short.

Also met, without a run: `SPEC.md:310-314` has the outflow side constrain a payload's
amount, which `witness.rs:97-99` and the code have given up; `SPEC.md:478` and `488`
and `README.md:581` allow a change note with a new label, which `constrain.rs:164`
excludes, as step 7 of `README.md:267` does.

## 6. Not modelled, and why

- The method crates (`circuits/*/methods`): build scripts that embed the compiled
  guests; they have no state. Soundness of the RISC Zero proofs is assumed.
- The coordinator service of `SPEC.md` 9 (discovery, transport of signatures) does
  not exist in the repository; its effect, signatures that arrive in any order, is
  `Approve` and `Execute`.
- The adapter's emergency stop, reentrancy guard and aggregation are external.
- Transactions with several consumed vault notes. `VaultSystem` consumes one in
  each. What their receipts promise together is `SpendsConserve`; whether an adapter
  takes them in one action, and which of the notes they name is created there, is
  the adapter's kind balance, which is external. The documents mention consolidation
  (`README.md:582`) and leave its rules open (`SPEC.md:489`).

## 7. Plan

Done: the shared values and the consumed branch with its abstraction, the forwarders,
the other branches with facades and guests, the ABI codec, both journal encoders, the
host's vault, the vault system and its ledger; theorems about each of them.

Next, in this order:

1. Actions with several consumed notes in `VaultSystem`, once their rules are settled:
   `SpendsConserve` carried through the kind balance of the adapter into `CustodyAccounted`.
2. Bytes throughout: the header words of the journal at 32 bytes, and byte strings
   whose length is no multiple of 16 in the codec.
3. Payload blobs of `VaultSystem` as bytes: the theorems of `PayloadRun` carried into
   the calls of a transaction, in place of the two flags.
