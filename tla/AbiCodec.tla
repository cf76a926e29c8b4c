------------------------------ MODULE AbiCodec ------------------------------
(***************************************************************************)
(* The external calls of a payload as bytes: the encoder of the host, the  *)
(* parsers of the guests and the decoders of the two forwarders.           *)
(*                                                                         *)
(* A byte string is a sequence of cells of 16 bytes, big-endian numbers up *)
(* to MaxU128.  A 32-byte word is two cells, high and low; an address is   *)
(* the low cell of its word, the padding in front of it the high cell.     *)
(* Offsets and lengths count cells.                                        *)
(***************************************************************************)
EXTENDS Integers, Sequences

CONSTANTS
  MaxU128,   \* the largest value of a cell
  UsizeMod,  \* 2^32 in the guest, 2^64 on the host
  MaxU8      \* the largest value of a byte

ASSUME CodecAssumption ==
  /\ MaxU128 \in Nat
  /\ UsizeMod \in Nat /\ UsizeMod > 2  \* an offset leaves room for a word
  /\ UsizeMod <= MaxU128 + 1  \* a usize fits a u128
  /\ MaxU8 \in Nat

Cell == 0 .. MaxU128

Word == 2  \* cells of a 32-byte word

-----------------------------------------------------------------------------
(* The parsers of constrain.rs.  An operator named for a parser is its     *)
(* outcome, "Some", "None" or "panic"; what Some holds is defined after.   *)

AsUsize(v) == v % UsizeMod

\* Fault: the high half of the word is not looked at.
Uint256FitsAny(s, at) == Len(s) >= at

\* read_uint256 of the word at offset at: None unless the high half is zero.
Uint256Fits(s, at) == s[at + 1] = 0
Uint256(s, at) == s[at + 2]

\* Fault: the padding in front of an address is read as part of it.
AddressAtPadded(s, at) == s[at + 1] * (MaxU128 + 1) + s[at + 2]

AddressAt(s, at) == s[at + 2]

\* Fault: a field that ends where the string ends is refused.
read_bytesExclusive(s, offset) ==
  LET start == AsUsize(offset + Word) IN
  IF start > Len(s) THEN "None"
  ELSE IF start < offset THEN "panic"
  ELSE IF \/ ~Uint256Fits(s, offset)
          \/ start + AsUsize(Uint256(s, offset)) >= Len(s)
    THEN "None"
  ELSE "Some"

\* offset + 32 is an unchecked addition: it panics, or it wraps and the slice
\* that starts at offset ends before it.  The addition of len is checked.
read_bytes(s, offset) ==
  LET start == AsUsize(offset + Word) IN
  IF start > Len(s) THEN "None"
  ELSE IF start < offset THEN "panic"
  ELSE IF \/ ~Uint256Fits(s, offset)
          \/ start + AsUsize(Uint256(s, offset)) > Len(s)
    THEN "None"
  ELSE "Some"

BytesAt(s, offset) ==
  SubSeq(s, offset + Word + 1, offset + Word + AsUsize(Uint256(s, offset)))

OffsetAt(s, at) == AsUsize(Uint256(s, at))

parse_external_call(blob) ==
  IF \/ Len(blob) < 3 * Word
     \/ ~Uint256Fits(blob, Word)
     \/ ~Uint256Fits(blob, 2 * Word)
    THEN "None"
  ELSE IF read_bytes(blob, OffsetAt(blob, Word)) # "Some"
    THEN read_bytes(blob, OffsetAt(blob, Word))
  ELSE read_bytes(blob, OffsetAt(blob, 2 * Word))

ParsedExternalCall(blob) ==
  [forwarder |-> AddressAt(blob, 0),
   input     |-> BytesAt(blob, OffsetAt(blob, Word))]

parse_multisig_call_input(input) ==
  IF \/ Len(input) < 4 * Word
     \/ ~Uint256Fits(input, 2 * Word)
     \/ ~Uint256Fits(input, 3 * Word)
    THEN "None"
  ELSE read_bytes(input, OffsetAt(input, 3 * Word))

MultisigInput(input) ==
  [token  |-> AddressAt(input, 0),
   party  |-> AddressAt(input, Word),
   amount |-> Uint256(input, 2 * Word)]

\* The op is a byte: the 31 bytes before it are zero.
parse_wrap_call_input(input) ==
  IF \/ Len(input) < 5 * Word
     \/ ~Uint256Fits(input, 0)
     \/ Uint256(input, 0) > MaxU8
     \/ ~Uint256Fits(input, 3 * Word)
     \/ ~Uint256Fits(input, 4 * Word)
    THEN "None"
  ELSE read_bytes(input, OffsetAt(input, 4 * Word))

WrapOp(input) == Uint256(input, 0)

WrapInput(input) ==
  [token  |-> AddressAt(input, Word),
   party  |-> AddressAt(input, 2 * Word),
   amount |-> Uint256(input, 3 * Word)]

WRAP_FORWARDER_OP_WRAP == 0

-----------------------------------------------------------------------------
(* abi.decode of the contracts: it reverts on a dirty address, on an op    *)
(* outside its enum, on any offset or length that leaves the data, and has *)
(* the whole 256 bits of an amount.                                        *)

WordAt(s, at) == s[at + 1] * (MaxU128 + 1) + s[at + 2]

CleanAddressAt(s, at) == s[at + 1] = 0

\* The word at offset at is the offset of a bytes value inside s.
DecodesBytesAt(s, at) ==
  /\ WordAt(s, at) + Word <= Len(s)
  /\ WordAt(s, at) + Word + WordAt(s, WordAt(s, at)) <= Len(s)

DecodedBytesAt(s, at) ==
  LET start == WordAt(s, at) + Word
  IN  SubSeq(s, start + 1, start + WordAt(s, WordAt(s, at)))

\* (address forwarder, bytes input, bytes expected), by the adapter.
DecodesExternalCall(blob) ==
  /\ Len(blob) >= 3 * Word
  /\ CleanAddressAt(blob, 0)
  /\ DecodesBytesAt(blob, Word)
  /\ DecodesBytesAt(blob, 2 * Word)

\* (address token, address to, uint256 amount, bytes expected)
DecodesTransfer(input) ==
  /\ Len(input) >= 4 * Word
  /\ CleanAddressAt(input, 0)
  /\ CleanAddressAt(input, Word)
  /\ DecodesBytesAt(input, 3 * Word)

TransferCall(input) ==
  [token  |-> AddressAt(input, 0),
   party  |-> AddressAt(input, Word),
   amount |-> WordAt(input, 2 * Word)]

\* (Op op, address token, address from, uint256 amount, bytes expected)
DecodesWrap(input) ==
  /\ Len(input) >= 5 * Word
  /\ WordAt(input, 0) = WRAP_FORWARDER_OP_WRAP
  /\ CleanAddressAt(input, Word)
  /\ CleanAddressAt(input, 2 * Word)
  /\ DecodesBytesAt(input, 4 * Word)

WrapCall(input) ==
  [token  |-> AddressAt(input, Word),
   party  |-> AddressAt(input, 2 * Word),
   amount |-> WordAt(input, 3 * Word)]

-----------------------------------------------------------------------------
(* The encoder of fixtures.rs.  All parts are whole words, so that pad     *)
(* adds nothing.                                                           *)

u256_be(v) == <<0, v>>

\* abi.encode(true) with its length in front.
ExpectedField == u256_be(Word) \o u256_be(1)

\* Fault: the length word of input is forgotten in the offset of expected.
encode_external_callShort(forwarder, input) ==
  u256_be(forwarder)
    \o u256_be(3 * Word)
    \o u256_be(3 * Word + Len(input))
    \o u256_be(Len(input)) \o input
    \o ExpectedField

encode_external_call(forwarder, input) ==
  u256_be(forwarder)
    \o u256_be(3 * Word)
    \o u256_be(3 * Word + Word + Len(input))
    \o u256_be(Len(input)) \o input
    \o ExpectedField

encode_multisig_input(token, to, amount) ==
  u256_be(token) \o u256_be(to) \o u256_be(amount) \o u256_be(4 * Word)
    \o ExpectedField

encode_external_transfer(forwarder, token, to, amount) ==
  encode_external_call(forwarder, encode_multisig_input(token, to, amount))

\* The payload the inflow branch asks for, laid out by the same rules.
encode_wrap_input(token, from, amount) ==
  u256_be(WRAP_FORWARDER_OP_WRAP) \o u256_be(token) \o u256_be(from)
    \o u256_be(amount) \o u256_be(5 * Word) \o ExpectedField

encode_wrap_call(forwarder, token, from, amount) ==
  encode_external_call(forwarder, encode_wrap_input(token, from, amount))

=============================================================================
