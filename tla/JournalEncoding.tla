-------------------------- MODULE JournalEncoding --------------------------
(***************************************************************************)
(* The journal of a logic instance as bytes, twice: journal::encode of the *)
(* guest, payload by payload and blob by blob, and LogicJournal.encode of  *)
(* the contracts.  The signers sign a digest of these bytes, the adapter   *)
(* verifies a digest of its own.                                           *)
(*                                                                         *)
(* A byte is a number below Base, a uint32 has four of them; the two       *)
(* 32-byte words of an instance are one byte each.                         *)
(***************************************************************************)
EXTENDS Integers, Sequences

CONSTANTS
  Base,      \* 256: how many values a byte has
  Instances  \* the instances that are encoded

ASSUME BaseAssumption == Base \in Nat /\ Base >= 2

Byte == 0 .. Base - 1

\* What the byte of a uint32 with d bytes below it counts.
Weight(d) ==
  CASE d = 0 -> 1
    [] d = 1 -> Base
    [] d = 2 -> Base * Base
    [] d = 3 -> Base * Base * Base

MaxU32 == Base * Weight(3) - 1

PayloadNames == {"resource_payload", "discovery_payload", "external_payload",
                 "application_payload"}

Blob == [deletion_criterion : {"Immediately", "Never"}, blob : Seq(Byte)]

Instance ==
  [tag : Byte, is_consumed : BOOLEAN, action_tree_root : Byte,
   app_data : [PayloadNames -> Seq(Blob)]]

ASSUME InstancesAssumption == Instances \subseteq Instance

VARIABLES
  instance,  \* the instance
  pc,        \* header, length, blobs, done or panicked
  part,      \* which of the four payloads
  i,         \* which blob of that payload
  out        \* the bytes written so far

vars == <<instance, pc, part, i, out>>

-----------------------------------------------------------------------------
(* journal.rs *)

\* u32::to_le_bytes
to_le_bytes(v) == [d \in 1 .. 4 |-> (v \div Weight(d - 1)) % Base]

\* Fault: the largest length is taken for one too many.
FitsU32Exclusive(n) == n < MaxU32

\* u32::try_from succeeds.
FitsU32(n) == n <= MaxU32

deletion_criterion == [Immediately |-> 0, Never |-> 1]

\* Fault: the length is one byte.
EncodedBlobByteLength(blob) ==
  <<deletion_criterion[blob.deletion_criterion]>>
    \o <<Len(blob.blob)>> \o blob.blob

\* Fault: the blobs run into each other.
EncodedBlobUnframed(blob) ==
  <<deletion_criterion[blob.deletion_criterion]>> \o blob.blob

EncodedBlob(blob) ==
  <<deletion_criterion[blob.deletion_criterion]>>
    \o to_le_bytes(Len(blob.blob)) \o blob.blob

\* Fault: two payloads trade places.
PayloadSwapped(x, n) ==
  CASE n = 1 -> x.app_data.resource_payload
    [] n = 2 -> x.app_data.external_payload
    [] n = 3 -> x.app_data.discovery_payload
    [] n = 4 -> x.app_data.application_payload

\* The n-th payload encode writes.
Payload(x, n) ==
  CASE n = 1 -> x.app_data.resource_payload
    [] n = 2 -> x.app_data.discovery_payload
    [] n = 3 -> x.app_data.external_payload
    [] n = 4 -> x.app_data.application_payload

Init ==
  /\ instance \in Instances
  /\ pc = "header"
  /\ part = 1
  /\ i = 1
  /\ out = <<>>

EncodeHeader ==
  /\ pc = "header"
  /\ out' = <<instance.tag>>
              \o to_le_bytes(IF instance.is_consumed THEN 1 ELSE 0)
              \o <<instance.action_tree_root>>
  /\ pc' = "length"
  /\ UNCHANGED <<instance, part, i>>

\* encode_payload: the number of blobs, or the panic of expect.
EncodeLength ==
  LET n == Len(Payload(instance, part)) IN
  /\ pc = "length"
  /\ IF FitsU32(n)
     THEN pc' = "blobs" /\ out' = out \o to_le_bytes(n)
     ELSE pc' = "panicked" /\ UNCHANGED out
  /\ UNCHANGED <<instance, part, i>>

\* One turn of its loop.
EncodeBlob ==
  LET payload == Payload(instance, part) IN
  /\ pc = "blobs"
  /\ i <= Len(payload)
  /\ IF FitsU32(Len(payload[i].blob))
     THEN /\ out' = out \o EncodedBlob(payload[i])
          /\ i' = i + 1
          /\ UNCHANGED pc
     ELSE /\ out' = Append(out, deletion_criterion[payload[i].deletion_criterion])
          /\ pc' = "panicked"
          /\ UNCHANGED i
  /\ UNCHANGED <<instance, part>>

PayloadDone ==
  /\ pc = "blobs"
  /\ i > Len(Payload(instance, part))
  /\ IF part < 4
     THEN part' = part + 1 /\ i' = 1 /\ pc' = "length"
     ELSE pc' = "done" /\ UNCHANGED <<part, i>>
  /\ UNCHANGED <<instance, out>>

Next == EncodeHeader \/ EncodeLength \/ EncodeBlob \/ PayloadDone

Spec == Init /\ [][Next]_vars

-----------------------------------------------------------------------------
(* LogicJournal.sol *)

uint32(n) == n % (MaxU32 + 1)

\* The byte of v with d bytes below it.
ByteAt(v, d) == (v \div Weight(d)) % Base

\* The neighbours swapped under the masks 0xFF00FF00 and 0x00FF00FF, then the
\* halves rotated.
reverseByteOrderUint32(input) ==
  LET v == ByteAt(input, 3) * Weight(2) + ByteAt(input, 1)
             + ByteAt(input, 2) * Weight(3) + ByteAt(input, 0) * Weight(1)
  IN  (v \div Weight(2)) + uint32(v * Weight(2))

\* abi.encodePacked of a uint32.
packed_uint32(v) == [d \in 1 .. 4 |-> ByteAt(v, 4 - d)]

packed_length(n) == packed_uint32(reverseByteOrderUint32(uint32(n)))

encodePayload(payload) ==
  LET after[n \in 0 .. Len(payload)] ==
        IF n = 0 THEN <<>>
        ELSE after[n - 1]
               \o <<deletion_criterion[payload[n].deletion_criterion]>>
               \o packed_length(Len(payload[n].blob))
               \o payload[n].blob
  IN  after[Len(payload)]

packed_payload(payload) == packed_length(Len(payload)) \o encodePayload(payload)

\* The literals are 0x01000000 and zero.
SolidityEncode(x) ==
  <<x.tag>>
    \o packed_uint32(IF x.is_consumed THEN Weight(3) ELSE 0)
    \o <<x.action_tree_root>>
    \o packed_payload(x.app_data.resource_payload)
    \o packed_payload(x.app_data.discovery_payload)
    \o packed_payload(x.app_data.external_payload)
    \o packed_payload(x.app_data.application_payload)

-----------------------------------------------------------------------------
(* A reader of the bytes, as the reference for what they say.              *)

\* Bytes behind the end are read as zero.
Read(s, at) == IF at \in DOMAIN s THEN s[at] ELSE 0

ReadU32(s, at) ==
  Read(s, at) + Read(s, at + 1) * Weight(1) + Read(s, at + 2) * Weight(2)
    + Read(s, at + 3) * Weight(3)

\* The payload whose length starts at index at, and the index behind it.
ReadPayload(s, at) ==
  LET count == ReadU32(s, at)
      after[n \in 0 .. count] ==
        IF n = 0 THEN [next |-> at + 4, blobs |-> <<>>]
        ELSE LET here == after[n - 1].next
                 len == ReadU32(s, here + 1)
                 blob == [deletion_criterion |->
                            IF Read(s, here) = 0 THEN "Immediately" ELSE "Never",
                          blob |-> [b \in 1 .. len |-> Read(s, here + 4 + b)]]
             IN [next |-> here + 5 + len,
                 blobs |-> Append(after[n - 1].blobs, blob)]
  IN after[count]

Decoded(s) ==
  LET r == ReadPayload(s, 7)
      d == ReadPayload(s, r.next)
      e == ReadPayload(s, d.next)
      a == ReadPayload(s, e.next)
  IN [tag |-> Read(s, 1),
      is_consumed |-> ReadU32(s, 2) = 1,
      action_tree_root |-> Read(s, 6),
      app_data |-> [resource_payload    |-> r.blobs,
                    discovery_payload   |-> d.blobs,
                    external_payload    |-> e.blobs,
                    application_payload |-> a.blobs]]

-----------------------------------------------------------------------------
(* Properties. *)

TypeOK ==
  /\ pc \in {"header", "length", "blobs", "done", "panicked"}
  /\ part \in 1 .. 4
  /\ i \in 1 .. Len(Payload(instance, part)) + 1
  /\ out \in Seq(Byte)

\* The digest the K signers sign is the one the adapter computes: guest and
\* contract write the same bytes (journal.rs:55-85, LogicJournal.sol:42-73).
EncodersAgree == pc = "done" => out = SolidityEncode(instance)

\* A signature is good for one instance only: the bytes can be read back, so
\* no two instances have the same journal, however blobs are cut up.
Unambiguous == pc = "done" => Decoded(out) = instance

TooLong(x) ==
  \E name \in PayloadNames :
    \/ Len(x.app_data[name]) > MaxU32
    \/ \E n \in DOMAIN x.app_data[name] :
         Len(x.app_data[name][n].blob) > MaxU32

\* The guest ends in a panic exactly for the instances the contract encodes
\* with a length that was cut off (journal.rs:77-81).
PanicsExactly ==
  /\ pc = "panicked" => TooLong(instance)
  /\ pc = "done" => ~TooLong(instance)

=============================================================================
