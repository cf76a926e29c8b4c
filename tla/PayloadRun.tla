----------------------------- MODULE PayloadRun -----------------------------
(***************************************************************************)
(* One external payload on its way: the guest parses the bytes and counts  *)
(* what it finds (consumed branch: constrain.rs, step 10; inflow branch:   *)
(* check 4), then the protocol adapter and the forwarder decode the same   *)
(* bytes again and move tokens.  Each reads the bytes on its own.          *)
(***************************************************************************)
EXTENDS AbiCodec

CONSTANTS
  Blobs,               \* the byte strings a payload may hold
  MULTISIG_FORWARDER, WRAP_FORWARDER,  \* the two addresses
  Token,               \* token_addr of the vault's label
  Calls                \* arguments the host may encode: token, party, amount

ASSUME BlobsAssumption ==
  /\ \A blob \in Blobs : blob \in Seq(Cell) /\ Len(blob) < UsizeMod
  /\ MULTISIG_FORWARDER # WRAP_FORWARDER

\* The host encodes calls of the vault's token, of amounts a note can have.
ASSUME CallsAssumption ==
  /\ {MULTISIG_FORWARDER, WRAP_FORWARDER, Token} \subseteq Cell
  /\ Calls \subseteq [token : {Token}, party : Cell, amount : Cell]

VARIABLES
  blob,     \* the payload
  carrier,  \* the branch that proves its resource
  pc,       \* how far the payload has come
  counted,  \* the call the guest has counted
  moved     \* the call a forwarder has carried out

vars == <<blob, carrier, pc, counted, moved>>

NoCall == [token |-> -1, party |-> -1, amount |-> -1]

\* The forwarder a branch reads the calls of, and that admits its logic.
ForwarderOf == [Consumed |-> MULTISIG_FORWARDER, Inflow |-> WRAP_FORWARDER]

Init ==
  /\ blob \in Blobs
  /\ carrier \in {"Consumed", "Inflow"}
  /\ pc = "outer"
  /\ counted = NoCall
  /\ moved = NoCall

\* Where the guest goes from a parser's outcome: None is BadExternalPayload.
After(outcome, next) ==
  IF outcome = "Some" THEN next
  ELSE IF outcome = "None" THEN "refused"
  ELSE "panicked"

\* The consumed branch passes over calls of other forwarders, the inflow
\* branch refuses them.
ParseOuter ==
  /\ pc = "outer"
  /\ pc' = After(parse_external_call(blob),
             IF AddressAt(blob, 0) = ForwarderOf[carrier] THEN "inner"
             ELSE IF carrier = "Consumed" THEN "accepted"
             ELSE "refused")
  /\ UNCHANGED <<blob, carrier, counted, moved>>

\* The inner encoding, the token check and the amount.
ParseTransfer ==
  LET input == ParsedExternalCall(blob).input
      call == MultisigInput(input)
      outcome == parse_multisig_call_input(input)
  IN /\ pc = "inner"
     /\ carrier = "Consumed"
     /\ pc' = After(outcome,
                    IF call.token = Token THEN "accepted" ELSE "refused")
     /\ counted' = IF pc' = "accepted" THEN call ELSE counted
     /\ UNCHANGED <<blob, carrier, moved>>

\* The depositor and the quantity of the witness are those of the call, or
\* the branch refuses: the witness is chosen freely.
ParseWrap ==
  LET input == ParsedExternalCall(blob).input
      call == WrapInput(input)
      outcome == parse_wrap_call_input(input)
  IN /\ pc = "inner"
     /\ carrier = "Inflow"
     /\ pc' = After(outcome,
                    IF /\ WrapOp(input) = WRAP_FORWARDER_OP_WRAP
                       /\ call.token = Token
                    THEN "accepted" ELSE "refused")
     /\ counted' = IF pc' = "accepted" THEN call ELSE counted
     /\ UNCHANGED <<blob, carrier, moved>>

\* forwardCall returns the inner expected, which must equal the outer one.
DecodesCall ==
  LET input == DecodedBytesAt(blob, Word) IN
  /\ DecodesExternalCall(blob)
  /\ IF AddressAt(blob, 0) = MULTISIG_FORWARDER
     THEN /\ DecodesTransfer(input)
          /\ DecodedBytesAt(input, 3 * Word) = DecodedBytesAt(blob, 2 * Word)
     ELSE /\ DecodesWrap(input)
          /\ DecodedBytesAt(input, 4 * Word) = DecodedBytesAt(blob, 2 * Word)

DecodedCall ==
  LET input == DecodedBytesAt(blob, Word) IN
  IF AddressAt(blob, 0) = MULTISIG_FORWARDER THEN TransferCall(input)
  ELSE WrapCall(input)

\* The adapter makes the call: one of the two forwarders, for a carrier of
\* the logic it admits and with the tokens at hand, or a contract that is
\* none of theirs.
Execute ==
  /\ pc = "accepted"
  /\ DecodesExternalCall(blob)
  /\ \/ /\ AddressAt(blob, 0) = ForwarderOf[carrier]
        /\ DecodesCall
        /\ moved' = DecodedCall
     \/ /\ AddressAt(blob, 0) \notin {MULTISIG_FORWARDER, WRAP_FORWARDER}
        /\ moved' = NoCall
  /\ pc' = "executed"
  /\ UNCHANGED <<blob, carrier, counted>>

\* Anything else reverts the transaction.
Revert ==
  /\ pc = "accepted"
  /\ \/ ~DecodesExternalCall(blob)
     \/ AddressAt(blob, 0) = ForwarderOf[carrier] /\ ~DecodesCall
     \/ /\ AddressAt(blob, 0) \in {MULTISIG_FORWARDER, WRAP_FORWARDER}
        /\ AddressAt(blob, 0) # ForwarderOf[carrier]
  /\ pc' = "reverted"
  /\ UNCHANGED <<blob, carrier, counted, moved>>

Next == ParseOuter \/ ParseTransfer \/ ParseWrap \/ Execute \/ Revert

Spec == Init /\ [][Next]_vars

-----------------------------------------------------------------------------
(* Properties. *)

CallType == [token : Cell, party : Cell, amount : Nat] \cup {NoCall}

TypeOK ==
  /\ blob \in Seq(Cell)
  /\ carrier \in {"Consumed", "Inflow"}
  /\ pc \in {"outer", "inner", "accepted", "refused", "panicked", "executed",
             "reverted"}
  /\ counted \in [token : Cell, party : Cell, amount : Cell] \cup {NoCall}
  /\ moved \in CallType

\* Whatever the bytes, what a forwarder moves is what the guest counted: the
\* token, the account and the amount, by the parser that truncates offsets
\* and the decoder that does not (constrain.rs:438-550 against abi.decode in
\* MultisigForwarder.sol:33 and WrapForwarder.sol:39).
MovedAsCounted == pc = "executed" => moved = counted

\* The other direction: a call of the vault's token that the contracts would
\* carry out, of an amount a note can have, is never refused by the guest.
DecodableIsProvable ==
  pc \in {"refused", "panicked"} =>
    ~ /\ DecodesExternalCall(blob)
      /\ AddressAt(blob, 0) = ForwarderOf[carrier]
      /\ DecodesCall
      /\ DecodedCall.token = Token
      /\ DecodedCall.amount <= MaxU128

\* What the host encodes passes all three readers and arrives as it was meant
\* (encode_external_transfer, fixtures.rs:110-159).
EncodedCallsArrive ==
  \A call \in Calls :
    \/ /\ carrier = "Consumed"
       /\ blob = encode_external_transfer(MULTISIG_FORWARDER, call.token,
                                          call.party, call.amount)
    \/ /\ carrier = "Inflow"
       /\ blob = encode_wrap_call(WRAP_FORWARDER, call.token, call.party,
                                  call.amount)
    => /\ pc \notin {"refused", "panicked", "reverted"}
       /\ pc = "executed" => moved = call

\* "We parse this layout. Returns None on malformed input."
\* (constrain.rs:430, of parse_external_call)
MalformedIsNone == pc # "panicked"

=============================================================================
