------------------------- MODULE PayloadRun_proofs -------------------------
(***************************************************************************)
(* For every set of payloads shorter than the address space: what a        *)
(* forwarder moves is what the guest counted, the guest refuses no call    *)
(* of the vault's token that the contracts would carry out, and what the   *)
(* host encodes arrives as it was meant.                                   *)
(*                                                                         *)
(* The heart of it is BytesAgree: the parser computes with offsets and     *)
(* lengths cut to a usize, but where abi.decode succeeds nothing is cut.   *)
(***************************************************************************)
EXTENDS PayloadRun, SequenceTheorems, TLAPS

\* Below its modulus a number is its own remainder: the cast changes nothing.
LEMMA AsUsizeSmall ==
  ASSUME NEW v \in Nat, v < UsizeMod
  PROVE  AsUsize(v) = v
  BY CodecAssumption, SMT DEF AsUsize

\* Cells are natural numbers, at every index of a string.
LEMMA CellsAreNat ==
  ASSUME NEW s \in Seq(Cell), NEW j \in 1 .. Len(s)
  PROVE  s[j] \in Nat /\ s[j] <= MaxU128
  BY CodecAssumption DEF Cell

\* A word is at most its high cell away from a u128: it fits exactly when the
\* high cell is zero, and then its low cell is its value.
LEMMA WordFits ==
  ASSUME NEW s \in Seq(Cell), NEW at \in Nat, at + Word <= Len(s)
  PROVE  /\ WordAt(s, at) \in Nat
         /\ Uint256(s, at) \in Nat
         /\ Uint256Fits(s, at) => WordAt(s, at) = Uint256(s, at)
         /\ WordAt(s, at) <= MaxU128 => Uint256Fits(s, at)
  <1> DEFINE hi == s[at + 1]
             lo == s[at + 2]
  <1>1. hi \in Nat /\ lo \in Nat /\ lo <= MaxU128
    <2>1. at + 1 \in 1 .. Len(s) /\ at + 2 \in 1 .. Len(s)
      BY LenProperties DEF Word
    <2> QED BY <2>1, CellsAreNat
  <1>2. MaxU128 \in Nat
    BY CodecAssumption
  <1>3. hi * (MaxU128 + 1) \in Nat
    BY <1>1, <1>2, SMT
  <1>4. hi # 0 => hi * (MaxU128 + 1) >= MaxU128 + 1
    BY <1>1, <1>2, SMTT(30)
  <1>5. hi = 0 => hi * (MaxU128 + 1) = 0
    BY <1>2, SMT
  <1>6. WordAt(s, at) = hi * (MaxU128 + 1) + lo
    BY DEF WordAt
  <1> HIDE DEF hi, lo
  <1>7. WordAt(s, at) \in Nat
    BY <1>1, <1>3, <1>6
  <1>8. hi = 0 => WordAt(s, at) = lo
    BY <1>1, <1>5, <1>6
  <1>9. WordAt(s, at) <= MaxU128 => hi = 0
    BY <1>1, <1>2, <1>3, <1>4, <1>6
  <1> QED BY <1>1, <1>7, <1>8, <1>9 DEF Uint256, Uint256Fits, hi, lo

\* Where the contracts find a bytes value, read_bytes finds the same one.
LEMMA BytesAgree ==
  ASSUME NEW s \in Seq(Cell), Len(s) < UsizeMod,
         NEW at \in Nat, at + Word <= Len(s), DecodesBytesAt(s, at)
  PROVE  /\ Uint256Fits(s, at)
         /\ read_bytes(s, OffsetAt(s, at)) = "Some"
         /\ BytesAt(s, OffsetAt(s, at)) = DecodedBytesAt(s, at)
  <1> DEFINE o == WordAt(s, at)
             n == WordAt(s, o)
  <1>1. UsizeMod \in Nat /\ MaxU128 \in Nat /\ UsizeMod <= MaxU128 + 1
    BY CodecAssumption
  <1>2. Len(s) \in Nat
    BY LenProperties
  <1>3. o \in Nat /\ o + Word <= Len(s)
    BY WordFits DEF DecodesBytesAt
  <1>4. n \in Nat /\ o + Word + n <= Len(s)
    BY <1>3, WordFits DEF DecodesBytesAt
  <1>5. o <= MaxU128 /\ n <= MaxU128
    BY <1>1, <1>2, <1>3, <1>4 DEF Word
  <1>6. Uint256Fits(s, at) /\ Uint256(s, at) = o
    BY <1>5, WordFits
  <1>7. Uint256Fits(s, o) /\ Uint256(s, o) = n
    BY <1>3, <1>5, WordFits
  <1> HIDE DEF o, n
  <1>8. AsUsize(o) = o
    <2>1. o < UsizeMod
      BY <1>1, <1>2, <1>3 DEF Word
    <2> QED BY <2>1, <1>3, AsUsizeSmall
  <1>9. AsUsize(o + Word) = o + Word
    <2>1. o + Word \in Nat /\ o + Word < UsizeMod
      BY <1>1, <1>2, <1>3 DEF Word
    <2> QED BY <2>1, AsUsizeSmall
  <1>10. AsUsize(n) = n
    <2>1. n < UsizeMod
      BY <1>1, <1>2, <1>3, <1>4 DEF Word
    <2> QED BY <2>1, <1>4, AsUsizeSmall
  <1>11. OffsetAt(s, at) = o
    BY <1>6, <1>8 DEF OffsetAt
  <1>12. read_bytes(s, o) = "Some"
    BY <1>2, <1>3, <1>4, <1>7, <1>9, <1>10 DEF read_bytes, Word
  <1>13. BytesAt(s, o) = DecodedBytesAt(s, at)
    BY <1>7, <1>10 DEF BytesAt, DecodedBytesAt, o, n
  <1> QED BY <1>6, <1>11, <1>12, <1>13

\* The bytes the contracts find are a string again, no longer than the whole.
LEMMA DecodedBytesType ==
  ASSUME NEW s \in Seq(Cell), Len(s) < UsizeMod,
         NEW at \in Nat, at + Word <= Len(s), DecodesBytesAt(s, at)
  PROVE  /\ DecodedBytesAt(s, at) \in Seq(Cell)
         /\ Len(DecodedBytesAt(s, at)) < UsizeMod
  <1> DEFINE o == WordAt(s, at)
             n == WordAt(s, o)
  <1>1. Len(s) \in Nat /\ UsizeMod \in Nat
    BY LenProperties, CodecAssumption
  <1>2. o \in Nat /\ o + Word <= Len(s)
    BY WordFits DEF DecodesBytesAt
  <1>3. n \in Nat /\ o + Word + n <= Len(s)
    BY <1>2, WordFits DEF DecodesBytesAt
  <1> HIDE DEF o, n
  <1>4. /\ o + Word + 1 \in Int
        /\ o + Word + n \in Int
        /\ \A j \in o + Word + 1 .. o + Word + n : s[j] \in Cell
    BY <1>1, <1>2, <1>3 DEF Word
  <1>5. /\ SubSeq(s, o + Word + 1, o + Word + n) \in Seq(Cell)
        /\ Len(SubSeq(s, o + Word + 1, o + Word + n))
             = IF o + Word + 1 <= o + Word + n
               THEN (o + Word + n) - (o + Word + 1) + 1 ELSE 0
    BY <1>4, SubSeqProperties
  <1>6. Len(SubSeq(s, o + Word + 1, o + Word + n)) < UsizeMod
    BY <1>1, <1>2, <1>3, <1>5 DEF Word
  <1>7. DecodedBytesAt(s, at) = SubSeq(s, o + Word + 1, o + Word + n)
    BY DEF DecodedBytesAt, o, n
  <1> QED BY <1>5, <1>6, <1>7

\* The outer encoding: what the adapter decodes, the guest parses.
LEMMA OuterAgrees ==
  ASSUME NEW s \in Seq(Cell), Len(s) < UsizeMod, DecodesExternalCall(s)
  PROVE  /\ parse_external_call(s) = "Some"
         /\ ParsedExternalCall(s).input = DecodedBytesAt(s, Word)
         /\ DecodedBytesAt(s, Word) \in Seq(Cell)
         /\ Len(DecodedBytesAt(s, Word)) < UsizeMod
  <1>1. Len(s) \in Nat /\ Len(s) >= 6
    BY LenProperties DEF DecodesExternalCall, Word
  <1>2. Word \in Nat /\ 2 * Word \in Nat /\ Word + Word <= Len(s)
          /\ 2 * Word + Word <= Len(s) /\ ~(Len(s) < 3 * Word)
    BY <1>1 DEF Word
  <1>3. DecodesBytesAt(s, Word) /\ DecodesBytesAt(s, 2 * Word)
    BY DEF DecodesExternalCall
  <1>4. /\ Uint256Fits(s, Word)
        /\ read_bytes(s, OffsetAt(s, Word)) = "Some"
        /\ BytesAt(s, OffsetAt(s, Word)) = DecodedBytesAt(s, Word)
    BY <1>2, <1>3, BytesAgree
  <1>5. /\ Uint256Fits(s, 2 * Word)
        /\ read_bytes(s, OffsetAt(s, 2 * Word)) = "Some"
    BY <1>2, <1>3, BytesAgree
  <1>6. parse_external_call(s) = "Some"
    BY <1>2, <1>4, <1>5 DEF parse_external_call
  <1>7. ParsedExternalCall(s).input = DecodedBytesAt(s, Word)
    BY <1>4 DEF ParsedExternalCall
  <1> QED BY <1>2, <1>3, <1>6, <1>7, DecodedBytesType

\* The input of a transfer: the guest parses it unless its amount is too
\* large for a note, and then reads the same call.
LEMMA TransferAgrees ==
  ASSUME NEW s \in Seq(Cell), Len(s) < UsizeMod, DecodesTransfer(s)
  PROVE  /\ Uint256Fits(s, 2 * Word) => parse_multisig_call_input(s) = "Some"
         /\ ~Uint256Fits(s, 2 * Word) => parse_multisig_call_input(s) = "None"
         /\ Uint256Fits(s, 2 * Word) => MultisigInput(s) = TransferCall(s)
         /\ TransferCall(s).amount <= MaxU128 => Uint256Fits(s, 2 * Word)
  <1>1. Len(s) \in Nat /\ Len(s) >= 8
    BY LenProperties DEF DecodesTransfer, Word
  <1>2. 2 * Word \in Nat /\ 3 * Word \in Nat /\ 2 * Word + Word <= Len(s)
          /\ 3 * Word + Word <= Len(s) /\ ~(Len(s) < 4 * Word)
    BY <1>1 DEF Word
  <1>3. /\ Uint256Fits(s, 3 * Word)
        /\ read_bytes(s, OffsetAt(s, 3 * Word)) = "Some"
    BY <1>2, BytesAgree DEF DecodesTransfer
  <1>4. /\ Uint256Fits(s, 2 * Word) => WordAt(s, 2 * Word) = Uint256(s, 2 * Word)
        /\ WordAt(s, 2 * Word) <= MaxU128 => Uint256Fits(s, 2 * Word)
    BY <1>2, WordFits
  <1> QED BY <1>2, <1>3, <1>4
          DEF parse_multisig_call_input, MultisigInput, TransferCall

\* The same of the input of a deposit, whose op byte is that of WRAP.
LEMMA WrapAgrees ==
  ASSUME NEW s \in Seq(Cell), Len(s) < UsizeMod, DecodesWrap(s)
  PROVE  /\ Uint256Fits(s, 3 * Word) => parse_wrap_call_input(s) = "Some"
         /\ ~Uint256Fits(s, 3 * Word) => parse_wrap_call_input(s) = "None"
         /\ Uint256Fits(s, 3 * Word) => WrapInput(s) = WrapCall(s)
         /\ WrapOp(s) = WRAP_FORWARDER_OP_WRAP
         /\ WrapCall(s).amount <= MaxU128 => Uint256Fits(s, 3 * Word)
  <1>1. Len(s) \in Nat /\ Len(s) >= 10
    BY LenProperties DEF DecodesWrap, Word
  <1>2. 3 * Word \in Nat /\ 4 * Word \in Nat /\ 3 * Word + Word <= Len(s)
          /\ 4 * Word + Word <= Len(s) /\ ~(Len(s) < 5 * Word)
          /\ 0 + Word <= Len(s)
    BY <1>1 DEF Word
  <1>3. /\ Uint256Fits(s, 4 * Word)
        /\ read_bytes(s, OffsetAt(s, 4 * Word)) = "Some"
    BY <1>2, BytesAgree DEF DecodesWrap
  <1>4. /\ Uint256Fits(s, 3 * Word) => WordAt(s, 3 * Word) = Uint256(s, 3 * Word)
        /\ WordAt(s, 3 * Word) <= MaxU128 => Uint256Fits(s, 3 * Word)
    BY <1>2, WordFits
  <1>5. Uint256Fits(s, 0) /\ Uint256(s, 0) = 0
    <2>1. WordAt(s, 0) = 0 /\ 0 <= MaxU128
      BY CodecAssumption DEF DecodesWrap, WRAP_FORWARDER_OP_WRAP
    <2> QED BY <2>1, <1>2, WordFits
  <1>6. ~(Uint256(s, 0) > MaxU8)
    BY <1>5, CodecAssumption
  <1> QED BY <1>2, <1>3, <1>4, <1>5, <1>6
          DEF parse_wrap_call_input, WrapInput, WrapCall, WrapOp,
              WRAP_FORWARDER_OP_WRAP

-----------------------------------------------------------------------------
(* What the parsers read is made of cells.                                 *)

\* A cast returns a usize, and wraps around once at most on the next word.
LEMMA AsUsizeRange ==
  ASSUME NEW v \in Nat
  PROVE  AsUsize(v) \in Nat /\ AsUsize(v) < UsizeMod
  BY CodecAssumption, SMT DEF AsUsize

LEMMA AsUsizeWraps ==
  ASSUME NEW v \in Nat, UsizeMod <= v, v < 2 * UsizeMod
  PROVE  AsUsize(v) = v - UsizeMod
  BY CodecAssumption, SMT DEF AsUsize

\* The bytes read_bytes returns lie in the string: when it does not panic,
\* the start of the data has not wrapped around.
LEMMA BytesType ==
  ASSUME NEW s \in Seq(Cell), NEW o \in Nat, o < UsizeMod, read_bytes(s, o) = "Some"
  PROVE  BytesAt(s, o) \in Seq(Cell)
  <1> DEFINE n == AsUsize(Uint256(s, o))
  <1>1. UsizeMod \in Nat /\ UsizeMod > 2 /\ Len(s) \in Nat
    BY CodecAssumption, LenProperties
  <1>2. AsUsize(o + Word) <= Len(s) /\ ~(AsUsize(o + Word) < o)
    <2>1. o + Word \in Nat /\ AsUsize(o + Word) \in Nat
      BY AsUsizeRange DEF Word
    <2>2. ~(AsUsize(o + Word) > Len(s)) /\ ~(AsUsize(o + Word) < o)
      BY SMTT(30) DEF read_bytes
    <2> QED BY <1>1, <2>1, <2>2
  <1>3. AsUsize(o + Word) = o + Word
    <2>1. CASE o + Word < UsizeMod
      BY <2>1, AsUsizeSmall DEF Word
    <2>2. CASE UsizeMod <= o + Word
      <3>1. o + Word \in Nat /\ o + Word < 2 * UsizeMod
        BY <1>1 DEF Word
      <3>2. AsUsize(o + Word) = o + Word - UsizeMod
        BY <1>1, <2>2, <3>1, AsUsizeWraps DEF Word
      <3> QED BY <1>1, <1>2, <3>2 DEF Word
    <2> QED BY <1>1, <2>1, <2>2 DEF Word
  <1>4. n \in Nat /\ o + Word + n <= Len(s)
    <2>1. o + 2 \in 1 .. Len(s)
      BY <1>1, <1>2, <1>3 DEF Word
    <2>2. Uint256(s, o) \in Nat
      BY <2>1, CellsAreNat DEF Uint256
    <2>3. n \in Nat
      BY <2>2, AsUsizeRange
    <2>4. ~(o + Word + n > Len(s))
      BY <1>2, <1>3 DEF read_bytes
    <2> QED BY <1>1, <2>3, <2>4 DEF Word
  <1> HIDE DEF n
  <1>5. /\ o + Word + 1 \in Int /\ o + Word + n \in Int
        /\ \A j \in o + Word + 1 .. o + Word + n : s[j] \in Cell
    BY <1>1, <1>4 DEF Word
  <1>6. SubSeq(s, o + Word + 1, o + Word + n) \in Seq(Cell)
    BY <1>5, SubSeqProperties
  <1> QED BY <1>6 DEF BytesAt, n

\* The input that a parsed payload holds.
LEMMA InputType ==
  ASSUME NEW s \in Seq(Cell), parse_external_call(s) = "Some"
  PROVE  ParsedExternalCall(s).input \in Seq(Cell)
  <1>1. Len(s) \in Nat /\ ~(Len(s) < 6) /\ read_bytes(s, OffsetAt(s, Word)) = "Some"
    BY LenProperties DEF parse_external_call, Word
  <1>2. Uint256(s, Word) \in Nat
    <2>1. 4 \in 1 .. Len(s)
      BY <1>1
    <2> QED BY <2>1, CellsAreNat DEF Uint256, Word
  <1>3. OffsetAt(s, Word) \in Nat /\ OffsetAt(s, Word) < UsizeMod
    BY <1>2, AsUsizeRange DEF OffsetAt
  <1>4. BytesAt(s, OffsetAt(s, Word)) \in Seq(Cell)
    BY <1>1, <1>3, BytesType
  <1> QED BY <1>4 DEF ParsedExternalCall

\* The calls the inner parsers find.
LEMMA InputCallType ==
  ASSUME NEW s \in Seq(Cell)
  PROVE  /\ parse_multisig_call_input(s) = "Some" =>
              MultisigInput(s) \in [token : Cell, party : Cell, amount : Cell]
         /\ parse_wrap_call_input(s) = "Some" =>
              WrapInput(s) \in [token : Cell, party : Cell, amount : Cell]
  <1>1. Len(s) \in Nat
    BY LenProperties
  <1>2. \A j \in 1 .. Len(s) : s[j] \in Cell
    OBVIOUS
  <1>3. ASSUME parse_multisig_call_input(s) = "Some"
        PROVE  MultisigInput(s) \in [token : Cell, party : Cell, amount : Cell]
    <2>1. Len(s) >= 8
      BY <1>1, <1>3 DEF parse_multisig_call_input, Word
    <2>2. s[2] \in Cell /\ s[4] \in Cell /\ s[6] \in Cell
      BY <1>1, <1>2, <2>1
    <2> QED BY <2>2 DEF MultisigInput, AddressAt, Uint256, Word
  <1>4. ASSUME parse_wrap_call_input(s) = "Some"
        PROVE  WrapInput(s) \in [token : Cell, party : Cell, amount : Cell]
    <2>1. Len(s) >= 10
      BY <1>1, <1>4 DEF parse_wrap_call_input, Word
    <2>2. s[4] \in Cell /\ s[6] \in Cell /\ s[8] \in Cell
      BY <1>1, <1>2, <2>1
    <2> QED BY <2>2 DEF WrapInput, AddressAt, Uint256, Word
  <1> QED BY <1>3, <1>4

-----------------------------------------------------------------------------
(* What the host encodes, word by word. *)

\* The word of s at offset at is the number v.
Holds(s, at, v) == at + 2 <= Len(s) /\ s[at + 1] = 0 /\ s[at + 2] = v

LEMMA WordHeld ==
  ASSUME NEW s, NEW at \in Nat, NEW v \in Nat, Holds(s, at, v)
  PROVE  WordAt(s, at) = v /\ CleanAddressAt(s, at) /\ AddressAt(s, at) = v
  BY CodecAssumption DEF Holds, WordAt, CleanAddressAt, AddressAt

\* The string u is s, continued with t.
Continues(u, s, t) ==
  /\ u \in Seq(Nat)
  /\ Len(u) = Len(s) + Len(t)
  /\ \A at \in Nat : \A v : Holds(s, at, v) => Holds(u, at, v)
  /\ \A at \in Nat : \A v : Holds(t, at, v) => Holds(u, Len(s) + at, v)
  /\ \A j \in 1 .. Len(s) : u[j] = s[j]
  /\ \A j \in 1 .. Len(t) : u[Len(s) + j] = t[j]

LEMMA Joined ==
  ASSUME NEW s \in Seq(Nat), NEW t \in Seq(Nat)
  PROVE  Continues(s \o t, s, t)
  <1> DEFINE u == s \o t
             m == Len(s)
             n == Len(t)
  <1>1. /\ u \in Seq(Nat) /\ Len(u) = m + n
        /\ \A j \in 1 .. m + n : u[j] = IF j <= m THEN s[j] ELSE t[j - m]
        /\ m \in Nat /\ n \in Nat
    BY ConcatProperties, LenProperties
  <1> HIDE DEF u, m, n
  <1>2. ASSUME NEW j \in 1 .. m PROVE u[j] = s[j]
    <2>1. j \in 1 .. m + n /\ j <= m
      BY <1>1
    <2> QED BY <1>1, <2>1
  <1>3. ASSUME NEW j \in 1 .. n PROVE u[m + j] = t[j]
    <2> DEFINE l == m + j
    <2>1. l \in 1 .. m + n /\ ~(l <= m) /\ l - m = j
      BY <1>1
    <2> HIDE DEF l
    <2>2. u[l] = t[l - m]
      BY <1>1, <2>1
    <2> QED BY <2>1, <2>2 DEF l
  <1>4. ASSUME NEW at \in Nat, NEW v, Holds(s, at, v) PROVE Holds(u, at, v)
    <2>1. at + 2 <= m /\ s[at + 1] = 0 /\ s[at + 2] = v
      BY <1>4 DEF Holds, m
    <2>2. at + 1 \in 1 .. m /\ at + 2 \in 1 .. m /\ at + 2 <= Len(u)
      BY <1>1, <2>1
    <2>3. u[at + 1] = s[at + 1] /\ u[at + 2] = s[at + 2]
      BY <1>2, <2>2
    <2> QED BY <2>1, <2>2, <2>3 DEF Holds
  <1>5. ASSUME NEW at \in Nat, NEW v, Holds(t, at, v) PROVE Holds(u, m + at, v)
    <2>1. at + 2 <= n /\ t[at + 1] = 0 /\ t[at + 2] = v
      BY <1>5 DEF Holds, n
    <2>2. /\ at + 1 \in 1 .. n /\ at + 2 \in 1 .. n
          /\ m + (at + 1) = m + at + 1 /\ m + (at + 2) = m + at + 2
          /\ m + at + 2 <= Len(u)
      BY <1>1, <2>1
    <2>3. u[m + (at + 1)] = t[at + 1] /\ u[m + (at + 2)] = t[at + 2]
      BY <1>3, <2>2
    <2> QED BY <2>1, <2>2, <2>3 DEF Holds
  <1>6. Continues(u, s, t)
    BY <1>1, <1>2, <1>3, <1>4, <1>5 DEF Continues, m, n
  <1> QED BY <1>6 DEF u

\* One word.
LEMMA OneWord ==
  ASSUME NEW v \in Nat
  PROVE  u256_be(v) \in Seq(Nat) /\ Len(u256_be(v)) = 2 /\ Holds(u256_be(v), 0, v)
  BY DEF u256_be, Holds

\* The string u is s with one more word, v.
AddsWord(u, s, v) ==
  /\ u \in Seq(Nat)
  /\ Len(u) = Len(s) + 2
  /\ \A at \in Nat : \A x : Holds(s, at, x) => Holds(u, at, x)
  /\ Holds(u, Len(s), v)

LEMMA WordAdded ==
  ASSUME NEW s \in Seq(Nat), NEW v \in Nat
  PROVE  AddsWord(s \o u256_be(v), s, v)
  <1> DEFINE t == u256_be(v)
  <1>1. t \in Seq(Nat) /\ Len(t) = 2 /\ Holds(t, 0, v)
    BY OneWord
  <1>2. Len(s) + 0 = Len(s)
    BY LenProperties
  <1> HIDE DEF t
  <1>3. Continues(s \o t, s, t)
    BY <1>1, Joined
  <1>4. AddsWord(s \o t, s, v)
    BY <1>1, <1>2, <1>3 DEF Continues, AddsWord
  <1> QED BY <1>4 DEF t

\* The field that says the call is expected to return true.
LEMMA ExpectedWords ==
  /\ ExpectedField \in Seq(Nat) /\ Len(ExpectedField) = 4
  /\ Holds(ExpectedField, 0, 2) /\ Holds(ExpectedField, 2, 1)
  <1> DEFINE s == u256_be(2)
             t == u256_be(1)
             u == ExpectedField
  <1>1. s \in Seq(Nat) /\ Len(s) = 2 /\ Holds(s, 0, 2)
    BY OneWord
  <1>2. t \in Seq(Nat) /\ Len(t) = 2 /\ Holds(t, 0, 1)
    BY OneWord
  <1>3. u = s \o t
    BY DEF ExpectedField, Word
  <1> HIDE DEF s, t, u
  <1>4. Continues(u, s, t)
    BY <1>1, <1>2, <1>3, Joined
  <1>5. Holds(u, 0, 2) /\ Holds(u, 2 + 0, 1)
    BY <1>1, <1>2, <1>4 DEF Continues
  <1> QED BY <1>1, <1>2, <1>4, <1>5 DEF u, Continues

\* The input of a transfer.
LEMMA TransferInputWords ==
  ASSUME NEW token \in Nat, NEW to \in Nat, NEW amount \in Nat,
         NEW s, s = encode_multisig_input(token, to, amount)
  PROVE  /\ s \in Seq(Nat) /\ Len(s) = 12
         /\ Holds(s, 0, token) /\ Holds(s, 2, to) /\ Holds(s, 4, amount)
         /\ Holds(s, 6, 8) /\ Holds(s, 8, 2) /\ Holds(s, 10, 1)
  <1> DEFINE a == u256_be(token)
             b == a \o u256_be(to)
             c == b \o u256_be(amount)
             d == c \o u256_be(8)
             e == ExpectedField
  <1>1. s = d \o e
    BY DEF encode_multisig_input, Word
  <1>2. a \in Seq(Nat) /\ Len(a) = 2 /\ Holds(a, 0, token)
    BY OneWord
  <1> HIDE DEF a
  <1>3. AddsWord(b, a, to)
    BY <1>2, WordAdded
  <1> HIDE DEF b
  <1>4. /\ b \in Seq(Nat) /\ Len(b) = 4
        /\ Holds(b, 0, token) /\ Holds(b, 2, to)
    BY <1>2, <1>3 DEF AddsWord
  <1>5. AddsWord(c, b, amount)
    BY <1>4, WordAdded
  <1> HIDE DEF c
  <1>6. /\ c \in Seq(Nat) /\ Len(c) = 6
        /\ Holds(c, 0, token) /\ Holds(c, 2, to) /\ Holds(c, 4, amount)
    BY <1>4, <1>5 DEF AddsWord
  <1>7. AddsWord(d, c, 8)
    BY <1>6, WordAdded
  <1> HIDE DEF d
  <1>8. /\ d \in Seq(Nat) /\ Len(d) = 8
        /\ Holds(d, 0, token) /\ Holds(d, 2, to) /\ Holds(d, 4, amount)
        /\ Holds(d, 6, 8)
    BY <1>6, <1>7 DEF AddsWord
  <1>9. e \in Seq(Nat) /\ Len(e) = 4 /\ Holds(e, 0, 2) /\ Holds(e, 2, 1)
    BY ExpectedWords
  <1> HIDE DEF e
  <1>10. Continues(s, d, e)
    BY <1>1, <1>8, <1>9, Joined
  <1>11. /\ s \in Seq(Nat) /\ Len(s) = 12
        /\ Holds(s, 0, token) /\ Holds(s, 2, to) /\ Holds(s, 4, amount)
        /\ Holds(s, 6, 8)
        /\ Holds(s, 8 + 0, 2) /\ Holds(s, 8 + 2, 1)
    BY <1>8, <1>9, <1>10 DEF Continues
  <1> QED BY <1>11

\* The input of a deposit.
LEMMA WrapInputWords ==
  ASSUME NEW token \in Nat, NEW from \in Nat, NEW amount \in Nat,
         NEW s, s = encode_wrap_input(token, from, amount)
  PROVE  /\ s \in Seq(Nat) /\ Len(s) = 14
         /\ Holds(s, 0, WRAP_FORWARDER_OP_WRAP) /\ Holds(s, 2, token)
         /\ Holds(s, 4, from) /\ Holds(s, 6, amount)
         /\ Holds(s, 8, 10) /\ Holds(s, 10, 2) /\ Holds(s, 12, 1)
  <1> DEFINE op == WRAP_FORWARDER_OP_WRAP
             o == u256_be(op)
             a == o \o u256_be(token)
             b == a \o u256_be(from)
             c == b \o u256_be(amount)
             d == c \o u256_be(10)
             e == ExpectedField
  <1>1. s = d \o e
    BY DEF encode_wrap_input, Word
  <1>2. op \in Nat
    BY DEF WRAP_FORWARDER_OP_WRAP
  <1> HIDE DEF op
  <1>3. o \in Seq(Nat) /\ Len(o) = 2 /\ Holds(o, 0, op)
    BY <1>2, OneWord
  <1> HIDE DEF o
  <1>4. AddsWord(a, o, token)
    BY <1>3, WordAdded
  <1> HIDE DEF a
  <1>5. /\ a \in Seq(Nat) /\ Len(a) = 4
        /\ Holds(a, 0, op) /\ Holds(a, 2, token)
    BY <1>3, <1>4 DEF AddsWord
  <1>6. AddsWord(b, a, from)
    BY <1>5, WordAdded
  <1> HIDE DEF b
  <1>7. /\ b \in Seq(Nat) /\ Len(b) = 6
        /\ Holds(b, 0, op) /\ Holds(b, 2, token) /\ Holds(b, 4, from)
    BY <1>5, <1>6 DEF AddsWord
  <1>8. AddsWord(c, b, amount)
    BY <1>7, WordAdded
  <1> HIDE DEF c
  <1>9. /\ c \in Seq(Nat) /\ Len(c) = 8
        /\ Holds(c, 0, op) /\ Holds(c, 2, token) /\ Holds(c, 4, from)
        /\ Holds(c, 6, amount)
    BY <1>7, <1>8 DEF AddsWord
  <1>10. AddsWord(d, c, 10)
    BY <1>9, WordAdded
  <1> HIDE DEF d
  <1>11. /\ d \in Seq(Nat) /\ Len(d) = 10
        /\ Holds(d, 0, op) /\ Holds(d, 2, token) /\ Holds(d, 4, from)
        /\ Holds(d, 6, amount) /\ Holds(d, 8, 10)
    BY <1>9, <1>10 DEF AddsWord
  <1>12. e \in Seq(Nat) /\ Len(e) = 4 /\ Holds(e, 0, 2) /\ Holds(e, 2, 1)
    BY ExpectedWords
  <1> HIDE DEF e
  <1>13. Continues(s, d, e)
    BY <1>1, <1>11, <1>12, Joined
  <1>14. /\ s \in Seq(Nat) /\ Len(s) = 14
        /\ Holds(s, 0, op) /\ Holds(s, 2, token) /\ Holds(s, 4, from)
        /\ Holds(s, 6, amount) /\ Holds(s, 8, 10)
        /\ Holds(s, 10 + 0, 2) /\ Holds(s, 10 + 2, 1)
    BY <1>11, <1>12, <1>13 DEF Continues
  <1> QED BY <1>14 DEF op

\* A bytes value of one word.
LEMMA WordDecodes ==
  ASSUME NEW s \in Seq(Nat), NEW at \in Nat, NEW o \in Nat, NEW v \in Nat,
         Holds(s, at, o), Holds(s, o, 2), Holds(s, o + 2, v)
  PROVE  DecodesBytesAt(s, at) /\ DecodedBytesAt(s, at) = u256_be(v)
  <1>1. WordAt(s, at) = o /\ WordAt(s, o) = 2
    BY WordHeld
  <1>2. Len(s) \in Nat /\ o + 4 <= Len(s) /\ s[o + 3] = 0 /\ s[o + 4] = v
    <2>1. o + 2 + 2 <= Len(s) /\ s[o + 2 + 1] = 0 /\ s[o + 2 + 2] = v
      BY DEF Holds
    <2>2. o + 2 + 2 = o + 4 /\ o + 2 + 1 = o + 3
      OBVIOUS
    <2> QED BY <2>1, <2>2, LenProperties
  <1>3. DecodesBytesAt(s, at)
    BY <1>1, <1>2 DEF DecodesBytesAt, Word
  <1>4. DecodedBytesAt(s, at) = SubSeq(s, o + 3, o + 4)
    <2>1. o + 2 + 1 = o + 3 /\ o + 2 + 2 = o + 4
      OBVIOUS
    <2> QED BY <1>1, <2>1 DEF DecodedBytesAt, Word
  <1> DEFINE t == SubSeq(s, o + 3, o + 4)
  <1>5. /\ t \in Seq(Nat) /\ Len(t) = 2 /\ t[1] = s[o + 3] /\ t[2] = s[o + 4]
    <2>1. \A j \in o + 3 .. o + 4 : s[j] \in Nat
      BY <1>2, SMTT(30)
    <2>2. /\ t \in Seq(Nat) /\ Len(t) = (o + 4) - (o + 3) + 1
          /\ \A j \in 1 .. (o + 4) - (o + 3) + 1 : t[j] = s[o + 3 + j - 1]
      BY <2>1, SubSeqProperties
    <2>3. (o + 4) - (o + 3) + 1 = 2 /\ o + 3 + 1 - 1 = o + 3 /\ o + 3 + 2 - 1 = o + 4
      OBVIOUS
    <2> QED BY <2>2, <2>3
  <1> HIDE DEF t
  <1>6. t = <<0, v>>
    BY <1>2, <1>5
  <1> QED BY <1>3, <1>4, <1>6 DEF u256_be, t

\* The payload: its forwarder, its input, and what is expected.
LEMMA PayloadWords ==
  ASSUME NEW forwarder \in Nat, NEW input \in Seq(Nat),
         NEW s, s = encode_external_call(forwarder, input)
  PROVE  /\ s \in Seq(Nat) /\ Len(s) >= 12
         /\ Holds(s, 0, forwarder)
         /\ DecodesBytesAt(s, 2) /\ DecodedBytesAt(s, 2) = input
         /\ DecodesBytesAt(s, 4) /\ DecodedBytesAt(s, 4) = u256_be(1)
  <1> DEFINE n == Len(input)
             a == u256_be(forwarder)
             b == a \o u256_be(6)
             c == b \o u256_be(8 + n)
             d == c \o u256_be(n)
             i == d \o input
             e == ExpectedField
  <1>1. n \in Nat
    BY LenProperties
  <1>2. s = i \o e
    <2>1. 3 * Word = 6 /\ 6 + Word + n = 8 + n
      BY <1>1 DEF Word
    <2> QED BY <2>1 DEF encode_external_call
  <1> HIDE DEF n
  <1>3. a \in Seq(Nat) /\ Len(a) = 2 /\ Holds(a, 0, forwarder)
    BY OneWord
  <1> HIDE DEF a
  <1>4. AddsWord(b, a, 6)
    BY <1>3, WordAdded
  <1> HIDE DEF b
  <1>5. b \in Seq(Nat) /\ Len(b) = 4 /\ Holds(b, 0, forwarder) /\ Holds(b, 2, 6)
    BY <1>3, <1>4 DEF AddsWord
  <1>6. AddsWord(c, b, 8 + n)
    <2>1. 8 + n \in Nat
      BY <1>1
    <2> QED BY <1>5, <2>1, WordAdded
  <1> HIDE DEF c
  <1>7. /\ c \in Seq(Nat) /\ Len(c) = 6
        /\ Holds(c, 0, forwarder) /\ Holds(c, 2, 6) /\ Holds(c, 4, 8 + n)
    BY <1>5, <1>6 DEF AddsWord
  <1>8. AddsWord(d, c, n)
    BY <1>1, <1>7, WordAdded
  <1> HIDE DEF d
  <1>9. /\ d \in Seq(Nat) /\ Len(d) = 8 /\ Holds(d, 6, n)
        /\ Holds(d, 0, forwarder) /\ Holds(d, 2, 6) /\ Holds(d, 4, 8 + n)
    BY <1>7, <1>8 DEF AddsWord
  <1>10. Continues(i, d, input)
    BY <1>9, Joined
  <1> HIDE DEF i
  <1>11. /\ i \in Seq(Nat) /\ Len(i) = 8 + n /\ Holds(i, 6, n)
         /\ Holds(i, 0, forwarder) /\ Holds(i, 2, 6) /\ Holds(i, 4, 8 + n)
         /\ \A j \in 1 .. n : i[8 + j] = input[j]
    BY <1>9, <1>10 DEF Continues, n
  <1>12. e \in Seq(Nat) /\ Len(e) = 4 /\ Holds(e, 0, 2) /\ Holds(e, 2, 1)
    BY ExpectedWords
  <1> HIDE DEF e
  <1>13. Continues(s, i, e)
    BY <1>2, <1>11, <1>12, Joined
  <1>14. /\ s \in Seq(Nat) /\ Len(s) = 12 + n
         /\ Holds(s, 0, forwarder) /\ Holds(s, 2, 6) /\ Holds(s, 4, 8 + n)
         /\ Holds(s, 6, n)
         /\ Holds(s, 8 + n, 2) /\ Holds(s, 8 + n + 2, 1)
    <2>1. 8 + n + 0 = 8 + n /\ 8 + n + 4 = 12 + n
      BY <1>1
    <2>2. Holds(s, 8 + n + 0, 2) /\ Holds(s, 8 + n + 2, 1)
      BY <1>11, <1>12, <1>13 DEF Continues
    <2> QED BY <1>11, <1>12, <1>13, <2>1, <2>2 DEF Continues
  <1>15. DecodesBytesAt(s, 2) /\ DecodedBytesAt(s, 2) = SubSeq(s, 9, 8 + n)
    <2>1. WordAt(s, 2) = 6 /\ WordAt(s, 6) = n
      BY <1>1, <1>14, WordHeld
    <2>2. 6 + Word + 1 = 9 /\ 6 + Word + n = 8 + n /\ 6 + Word <= Len(s)
            /\ 6 + Word + n <= Len(s)
      BY <1>1, <1>14 DEF Word
    <2> QED BY <2>1, <2>2 DEF DecodesBytesAt, DecodedBytesAt
  <1>16. SubSeq(s, 9, 8 + n) = input
    <2> DEFINE t == SubSeq(s, 9, 8 + n)
    <2>1. \A j \in 9 .. 8 + n : s[j] \in Nat
      BY <1>1, <1>14, SMTT(30)
    <2>2. /\ t \in Seq(Nat)
          /\ Len(t) = IF 9 <= 8 + n THEN (8 + n) - 9 + 1 ELSE 0
          /\ \A j \in 1 .. (8 + n) - 9 + 1 : t[j] = s[9 + j - 1]
      BY <1>1, <2>1, SubSeqProperties
    <2> HIDE DEF t
    <2>3. Len(t) = n
      BY <1>1, <2>2
    <2>4. ASSUME NEW j \in 1 .. n PROVE t[j] = input[j]
      <3>1. /\ j \in 1 .. (8 + n) - 9 + 1 /\ 9 + j - 1 = 8 + j
            /\ 8 + j \in 1 .. Len(i)
        BY <1>1, <1>11
      <3>2. t[j] = s[8 + j]
        BY <2>2, <3>1
      <3>3. s[8 + j] = i[8 + j]
        BY <1>13, <3>1 DEF Continues
      <3> QED BY <1>11, <3>2, <3>3
    <2>5. t = input
      <3>1. Len(input) = n
        BY DEF n
      <3> QED BY <2>2, <2>3, <2>4, <3>1, SeqEqual
    <2> QED BY <2>5 DEF t
  <1>17. DecodesBytesAt(s, 4) /\ DecodedBytesAt(s, 4) = u256_be(1)
    <2>1. 8 + n \in Nat
      BY <1>1
    <2> QED BY <1>14, <2>1, WordDecodes
  <1>18. Len(s) >= 12
    BY <1>1, <1>14
  <1>19. DecodedBytesAt(s, 2) = input
    BY <1>15, <1>16
  <1>20. s \in Seq(Nat) /\ Holds(s, 0, forwarder)
    BY <1>14
  <1> QED BY <1>15, <1>17, <1>18, <1>19, <1>20

-----------------------------------------------------------------------------
(* The run. *)

\* The forwarder of the payload is the one its branch reads the calls of.
IsOwn == AddressAt(blob, 0) = ForwarderOf[carrier]

\* The bytes the inner parser is given.
Inner == ParsedExternalCall(blob).input

\* What the branch's inner parser returns, and reads.
InnerOutcome ==
  IF carrier = "Consumed" THEN parse_multisig_call_input(Inner)
  ELSE parse_wrap_call_input(Inner)

InnerCall == IF carrier = "Consumed" THEN MultisigInput(Inner) ELSE WrapInput(Inner)

\* A call of the vault's token, of an amount a note can have, that the
\* contracts would carry out.
Deliverable ==
  /\ DecodesExternalCall(blob)
  /\ IsOwn
  /\ DecodesCall
  /\ DecodedCall.token = Token
  /\ DecodedCall.amount <= MaxU128

\* How far the run is, and the types of the two calls.
Types ==
  /\ pc \in {"outer", "inner", "accepted", "refused", "panicked", "executed",
             "reverted"}
  /\ counted \in [token : Cell, party : Cell, amount : Cell] \cup {NoCall}
  /\ moved = counted \/ moved = NoCall

IInv ==
  /\ blob \in Blobs
  /\ carrier \in {"Consumed", "Inflow"}
  /\ Types
  /\ pc \in {"outer", "inner"} => counted = NoCall
  /\ pc # "executed" => moved = NoCall
  /\ pc = "inner" => IsOwn /\ parse_external_call(blob) = "Some"
  /\ pc = "accepted" =>
       IF IsOwn THEN InnerOutcome = "Some" /\ counted = InnerCall
       ELSE counted = NoCall
  /\ pc = "executed" => moved = counted /\ (Deliverable => moved = DecodedCall)
  /\ pc \in {"refused", "panicked", "reverted"} => ~Deliverable

\* A payload is a string of cells, shorter than a usize counts.
LEMMA BlobType == IInv => blob \in Seq(Cell) /\ Len(blob) < UsizeMod
  BY BlobsAssumption DEF IInv

\* Guest and forwarder read one call: whenever a forwarder would carry out a
\* payload of the carrier it admits, the inner parser has the same call, and
\* refuses only an amount no note can have.
LEMMA ReadersAgree ==
  ASSUME blob \in Blobs, carrier \in {"Consumed", "Inflow"},
         IsOwn, DecodesExternalCall(blob), DecodesCall
  PROVE  /\ parse_external_call(blob) = "Some"
         /\ InnerOutcome \in {"Some", "None"}
         /\ InnerOutcome = "Some" => InnerCall = DecodedCall
         /\ DecodedCall.amount <= MaxU128 => InnerOutcome = "Some"
         /\ carrier = "Inflow" => WrapOp(Inner) = WRAP_FORWARDER_OP_WRAP
  <1>1. blob \in Seq(Cell) /\ Len(blob) < UsizeMod
    BY BlobsAssumption
  <1>2. /\ parse_external_call(blob) = "Some"
        /\ Inner = DecodedBytesAt(blob, Word)
        /\ DecodedBytesAt(blob, Word) \in Seq(Cell)
        /\ Len(DecodedBytesAt(blob, Word)) < UsizeMod
    BY <1>1, OuterAgrees DEF Inner
  <1>3. CASE carrier = "Consumed"
    <2>1. AddressAt(blob, 0) = MULTISIG_FORWARDER
      BY <1>3 DEF IsOwn, ForwarderOf
    <2>2. DecodesTransfer(Inner) /\ DecodedCall = TransferCall(Inner)
      BY <1>2, <2>1 DEF DecodesCall, DecodedCall
    <2> QED BY <1>2, <1>3, <2>2, TransferAgrees DEF InnerOutcome, InnerCall
  <1>4. CASE carrier = "Inflow"
    <2>1. AddressAt(blob, 0) # MULTISIG_FORWARDER
      BY <1>4, BlobsAssumption DEF IsOwn, ForwarderOf
    <2>2. DecodesWrap(Inner) /\ DecodedCall = WrapCall(Inner)
      BY <1>2, <2>1 DEF DecodesCall, DecodedCall
    <2> QED BY <1>2, <1>4, <2>2, WrapAgrees DEF InnerOutcome, InnerCall
  <1> QED BY <1>3, <1>4

\* What the host encodes for a branch is deliverable, as the call it encodes.
LEMMA EncodedDeliverable ==
  ASSUME blob \in Blobs, NEW call \in Calls,
         \/ /\ carrier = "Consumed"
            /\ blob = encode_external_transfer(MULTISIG_FORWARDER, call.token,
                                               call.party, call.amount)
         \/ /\ carrier = "Inflow"
            /\ blob = encode_wrap_call(WRAP_FORWARDER, call.token, call.party,
                                       call.amount)
  PROVE  Deliverable /\ DecodedCall = call
  <1> DEFINE token == call.token
             party == call.party
             amount == call.amount
  <1>1. /\ token = Token /\ token \in Nat /\ party \in Nat /\ amount \in Nat
        /\ amount <= MaxU128
        /\ call = [token |-> token, party |-> party, amount |-> amount]
        /\ MULTISIG_FORWARDER \in Nat /\ WRAP_FORWARDER \in Nat
    BY CallsAssumption, CodecAssumption DEF Cell
  <1> HIDE DEF token, party, amount
  <1>2. CASE /\ carrier = "Consumed"
             /\ blob = encode_external_transfer(MULTISIG_FORWARDER, token, party, amount)
    <2> DEFINE input == encode_multisig_input(token, party, amount)
    <2>1. /\ input \in Seq(Nat) /\ Len(input) = 12
          /\ Holds(input, 0, token) /\ Holds(input, 2, party)
          /\ Holds(input, 4, amount)
          /\ Holds(input, 6, 8) /\ Holds(input, 8, 2) /\ Holds(input, 10, 1)
      BY <1>1, TransferInputWords
    <2>2. blob = encode_external_call(MULTISIG_FORWARDER, input)
      BY <1>2 DEF encode_external_transfer
    <2> HIDE DEF input
    <2>3. /\ blob \in Seq(Nat) /\ Len(blob) >= 12
          /\ Holds(blob, 0, MULTISIG_FORWARDER)
          /\ DecodesBytesAt(blob, 2) /\ DecodedBytesAt(blob, 2) = input
          /\ DecodesBytesAt(blob, 4) /\ DecodedBytesAt(blob, 4) = u256_be(1)
      BY <1>1, <2>1, <2>2, PayloadWords
    <2>4. DecodesBytesAt(input, 6) /\ DecodedBytesAt(input, 6) = u256_be(1)
      <3>1. Holds(input, 8 + 2, 1)
        BY <2>1
      <3> QED BY <2>1, <3>1, WordDecodes
    <2>5. /\ CleanAddressAt(blob, 0) /\ AddressAt(blob, 0) = MULTISIG_FORWARDER
          /\ CleanAddressAt(input, 0) /\ AddressAt(input, 0) = token
          /\ CleanAddressAt(input, 2) /\ AddressAt(input, 2) = party
          /\ WordAt(input, 4) = amount
      <3>1. CleanAddressAt(blob, 0) /\ AddressAt(blob, 0) = MULTISIG_FORWARDER
        BY <1>1, <2>3, WordHeld
      <3>2. CleanAddressAt(input, 0) /\ AddressAt(input, 0) = token
        BY <1>1, <2>1, WordHeld
      <3>3. CleanAddressAt(input, 2) /\ AddressAt(input, 2) = party
        BY <1>1, <2>1, WordHeld
      <3>4. WordAt(input, 4) = amount
        BY <1>1, <2>1, WordHeld
      <3> QED BY <3>1, <3>2, <3>3, <3>4
    <2>6. DecodesExternalCall(blob)
      BY <2>3, <2>5 DEF DecodesExternalCall, Word
    <2>7. DecodesTransfer(input)
      BY <2>1, <2>4, <2>5 DEF DecodesTransfer, Word
    <2>8. DecodesCall
      BY <2>3, <2>4, <2>5, <2>6, <2>7 DEF DecodesCall, Word
    <2>9. DecodedCall = call
      BY <1>1, <2>3, <2>5 DEF DecodedCall, TransferCall, Word
    <2>10. IsOwn
      BY <1>2, <2>5 DEF IsOwn, ForwarderOf
    <2> QED BY <1>1, <2>6, <2>8, <2>9, <2>10 DEF Deliverable
  <1>3. CASE /\ carrier = "Inflow"
             /\ blob = encode_wrap_call(WRAP_FORWARDER, token, party, amount)
    <2> DEFINE input == encode_wrap_input(token, party, amount)
    <2>1. /\ input \in Seq(Nat) /\ Len(input) = 14
          /\ Holds(input, 0, WRAP_FORWARDER_OP_WRAP) /\ Holds(input, 2, token)
          /\ Holds(input, 4, party) /\ Holds(input, 6, amount)
          /\ Holds(input, 8, 10) /\ Holds(input, 10, 2) /\ Holds(input, 12, 1)
      BY <1>1, WrapInputWords
    <2>2. blob = encode_external_call(WRAP_FORWARDER, input)
      BY <1>3 DEF encode_wrap_call
    <2> HIDE DEF input
    <2>3. /\ blob \in Seq(Nat) /\ Len(blob) >= 12
          /\ Holds(blob, 0, WRAP_FORWARDER)
          /\ DecodesBytesAt(blob, 2) /\ DecodedBytesAt(blob, 2) = input
          /\ DecodesBytesAt(blob, 4) /\ DecodedBytesAt(blob, 4) = u256_be(1)
      BY <1>1, <2>1, <2>2, PayloadWords
    <2>4. DecodesBytesAt(input, 8) /\ DecodedBytesAt(input, 8) = u256_be(1)
      <3>1. Holds(input, 10 + 2, 1)
        BY <2>1
      <3> QED BY <2>1, <3>1, WordDecodes
    <2>5. /\ CleanAddressAt(blob, 0) /\ AddressAt(blob, 0) = WRAP_FORWARDER
          /\ WordAt(input, 0) = WRAP_FORWARDER_OP_WRAP
          /\ CleanAddressAt(input, 2) /\ AddressAt(input, 2) = token
          /\ CleanAddressAt(input, 4) /\ AddressAt(input, 4) = party
          /\ WordAt(input, 6) = amount
      <3>1. WRAP_FORWARDER_OP_WRAP \in Nat
        BY DEF WRAP_FORWARDER_OP_WRAP
      <3>2. CleanAddressAt(blob, 0) /\ AddressAt(blob, 0) = WRAP_FORWARDER
        BY <1>1, <2>3, WordHeld
      <3>3. WordAt(input, 0) = WRAP_FORWARDER_OP_WRAP
        BY <2>1, <3>1, WordHeld
      <3>4. CleanAddressAt(input, 2) /\ AddressAt(input, 2) = token
        BY <1>1, <2>1, WordHeld
      <3>5. CleanAddressAt(input, 4) /\ AddressAt(input, 4) = party
        BY <1>1, <2>1, WordHeld
      <3>6. WordAt(input, 6) = amount
        BY <1>1, <2>1, WordHeld
      <3> QED BY <3>2, <3>3, <3>4, <3>5, <3>6
    <2>6. DecodesExternalCall(blob)
      BY <2>3, <2>5 DEF DecodesExternalCall, Word
    <2>7. DecodesWrap(input)
      BY <2>1, <2>4, <2>5 DEF DecodesWrap, Word
    <2>8. DecodesCall
      BY <2>3, <2>4, <2>5, <2>6, <2>7, BlobsAssumption DEF DecodesCall, Word
    <2>9. DecodedCall = call
      BY <1>1, <2>3, <2>5, BlobsAssumption DEF DecodedCall, WrapCall, Word
    <2>10. IsOwn
      BY <1>3, <2>5 DEF IsOwn, ForwarderOf
    <2> QED BY <1>1, <2>6, <2>8, <2>9, <2>10 DEF Deliverable
  <1> QED BY <1>2, <1>3 DEF token, party, amount

\* The call the inner parser finds, in the input of a payload that parses.
LEMMA InnerType ==
  ASSUME blob \in Blobs, parse_external_call(blob) = "Some", InnerOutcome = "Some"
  PROVE  InnerCall \in [token : Cell, party : Cell, amount : Cell]
  <1>1. Inner \in Seq(Cell)
    BY BlobsAssumption, InputType DEF Inner
  <1> QED BY <1>1, InputCallType DEF InnerOutcome, InnerCall

\* A payload begins unread.
LEMMA InitInv == Init => IInv
  BY DEF Init, IInv, Types

\* The readings of a payload depend on the payload alone.
LEMMA SameReadings ==
  ASSUME UNCHANGED <<blob, carrier>>
  PROVE  IsOwn' = IsOwn /\ InnerOutcome' = InnerOutcome
         /\ InnerCall' = InnerCall /\ Deliverable' = Deliverable
         /\ DecodedCall' = DecodedCall
  BY DEF IsOwn, InnerOutcome, InnerCall, Deliverable, Inner, DecodesCall,
         DecodedCall

\* Every step of the guest and of the chain preserves the invariant.
LEMMA NextInv == IInv /\ [Next]_vars => IInv'
  <1> SUFFICES ASSUME IInv, [Next]_vars PROVE IInv'
    OBVIOUS
  <1>1. CASE ParseOuter
    <2>1. UNCHANGED <<blob, carrier, counted, moved>> /\ pc = "outer"
      BY <1>1 DEF ParseOuter
    <2>2. pc' \in {"inner", "accepted", "refused", "panicked"}
      BY <1>1 DEF ParseOuter, After
    <2>3. pc' = "inner" => IsOwn /\ parse_external_call(blob) = "Some"
      BY <1>1 DEF ParseOuter, After, IsOwn
    <2>4. pc' = "accepted" => ~IsOwn
      BY <1>1 DEF ParseOuter, After, IsOwn
    <2>5. pc' \in {"refused", "panicked"} => ~Deliverable
      <3> SUFFICES ASSUME pc' \in {"refused", "panicked"}, Deliverable PROVE FALSE
        OBVIOUS
      <3>1. IsOwn /\ parse_external_call(blob) = "Some"
        BY ReadersAgree DEF Deliverable, IInv
      <3>2. pc' = "inner"
        BY <1>1, <3>1 DEF ParseOuter, After, IsOwn
      <3> QED BY <3>2
    <2> QED BY <2>1, <2>2, <2>3, <2>4, <2>5, SameReadings DEF IInv, Types
  <1>2. CASE ParseTransfer
    <2>1. /\ UNCHANGED <<blob, carrier, moved>>
          /\ pc = "inner" /\ carrier = "Consumed" /\ IsOwn /\ counted = NoCall
      BY <1>2 DEF ParseTransfer, IInv
    <2>2. InnerOutcome = parse_multisig_call_input(Inner)
            /\ InnerCall = MultisigInput(Inner)
      BY <2>1 DEF InnerOutcome, InnerCall
    <2>3. /\ pc' = After(InnerOutcome,
                         IF InnerCall.token = Token THEN "accepted" ELSE "refused")
          /\ counted' = IF pc' = "accepted" THEN InnerCall ELSE counted
      BY <1>2, <2>2 DEF ParseTransfer, Inner
    <2>4. pc' \in {"accepted", "refused", "panicked"}
      BY <2>3 DEF After
    <2>5. pc' = "accepted" => InnerOutcome = "Some" /\ counted' = InnerCall
      BY <2>3 DEF After
    <2>6. pc' \in {"refused", "panicked"} => ~Deliverable
      <3> SUFFICES ASSUME pc' \in {"refused", "panicked"}, Deliverable PROVE FALSE
        OBVIOUS
      <3>1. InnerOutcome = "Some" /\ InnerCall = DecodedCall
        BY ReadersAgree DEF Deliverable, IInv
      <3>2. pc' = "accepted"
        BY <2>3, <3>1 DEF After, Deliverable
      <3> QED BY <3>2
    <2>7. Types'
      <3>1. counted' \in [token : Cell, party : Cell, amount : Cell] \cup {NoCall}
        BY <2>1, <2>2, <2>3, <2>5, InnerType DEF IInv
      <3>2. moved' = NoCall
        BY <2>1 DEF IInv
      <3> QED BY <2>4, <3>1, <3>2 DEF Types
    <2>8. blob' \in Blobs /\ carrier' \in {"Consumed", "Inflow"} /\ moved' = NoCall
      BY <2>1 DEF IInv
    <2> QED BY <2>1, <2>4, <2>5, <2>6, <2>7, <2>8, SameReadings DEF IInv
  <1>3. CASE ParseWrap
    <2>1. /\ UNCHANGED <<blob, carrier, moved>>
          /\ pc = "inner" /\ carrier = "Inflow" /\ IsOwn /\ counted = NoCall
      BY <1>3 DEF ParseWrap, IInv
    <2>2. InnerOutcome = parse_wrap_call_input(Inner)
            /\ InnerCall = WrapInput(Inner)
      BY <2>1 DEF InnerOutcome, InnerCall
    <2>3. /\ pc' = After(InnerOutcome,
                         IF /\ WrapOp(Inner) = WRAP_FORWARDER_OP_WRAP
                            /\ InnerCall.token = Token
                         THEN "accepted" ELSE "refused")
          /\ counted' = IF pc' = "accepted" THEN InnerCall ELSE counted
      BY <1>3, <2>2 DEF ParseWrap, Inner
    <2>4. pc' \in {"accepted", "refused", "panicked"}
      BY <2>3 DEF After
    <2>5. pc' = "accepted" => InnerOutcome = "Some" /\ counted' = InnerCall
      BY <2>3 DEF After
    <2>6. pc' \in {"refused", "panicked"} => ~Deliverable
      <3> SUFFICES ASSUME pc' \in {"refused", "panicked"}, Deliverable PROVE FALSE
        OBVIOUS
      <3>1. /\ InnerOutcome = "Some" /\ InnerCall = DecodedCall
            /\ WrapOp(Inner) = WRAP_FORWARDER_OP_WRAP
        BY <2>1, ReadersAgree DEF Deliverable, IInv
      <3>2. pc' = "accepted"
        BY <2>3, <3>1 DEF After, Deliverable
      <3> QED BY <3>2
    <2>7. Types'
      <3>1. counted' \in [token : Cell, party : Cell, amount : Cell] \cup {NoCall}
        BY <2>1, <2>2, <2>3, <2>5, InnerType DEF IInv
      <3>2. moved' = NoCall
        BY <2>1 DEF IInv
      <3> QED BY <2>4, <3>1, <3>2 DEF Types
    <2>8. blob' \in Blobs /\ carrier' \in {"Consumed", "Inflow"} /\ moved' = NoCall
      BY <2>1 DEF IInv
    <2> QED BY <2>1, <2>4, <2>5, <2>6, <2>7, <2>8, SameReadings DEF IInv
  <1>4. CASE Execute
    <2>1. /\ UNCHANGED <<blob, carrier, counted>>
          /\ pc = "accepted" /\ pc' = "executed"
          /\ DecodesExternalCall(blob)
      BY <1>4 DEF Execute
    <2>2. moved' = counted
      <3>1. CASE IsOwn
        <4>1. DecodesCall /\ moved' = DecodedCall
          BY <1>4, <3>1 DEF Execute, IsOwn, ForwarderOf, IInv
        <4>2. InnerOutcome = "Some" /\ counted = InnerCall
          BY <2>1, <3>1 DEF IInv
        <4> QED BY <2>1, <3>1, <4>1, <4>2, ReadersAgree DEF IInv
      <3>2. CASE ~IsOwn
        <4>1. moved' = NoCall
          BY <1>4, <3>2 DEF Execute, IsOwn
        <4>2. counted = NoCall
          BY <2>1, <3>2 DEF IInv
        <4> QED BY <4>1, <4>2
      <3> QED BY <3>1, <3>2
    <2>3. Deliverable => moved' = DecodedCall
      BY <1>4, <2>1 DEF Execute, IInv, Deliverable, IsOwn, ForwarderOf
    <2>4. Types'
      BY <2>1, <2>2 DEF IInv, Types
    <2> QED BY <2>1, <2>2, <2>3, <2>4, SameReadings DEF IInv
  <1>5. CASE Revert
    <2>1. UNCHANGED <<blob, carrier, counted, moved>> /\ pc' = "reverted"
      BY <1>5 DEF Revert
    <2>2. pc = "accepted" /\ ~Deliverable
      BY <1>5 DEF Revert, Deliverable, IsOwn
    <2> QED BY <2>1, <2>2, SameReadings DEF IInv, Types
  <1>6. CASE UNCHANGED vars
    BY <1>6, SameReadings DEF vars, IInv, Types
  <1> QED BY <1>1, <1>2, <1>3, <1>4, <1>5, <1>6 DEF Next

\* The invariant holds in every state of every run.
LEMMA Agreed == Spec => []IInv
  BY InitInv, NextInv, PTL DEF Spec

\* Whatever bytes a payload holds, what a forwarder moves is what the guest
\* counted against the note (constrain.rs:202-221, 346-363).
THEOREM NothingElseMoves == Spec => []MovedAsCounted
  <1>1. IInv => MovedAsCounted
    BY DEF IInv, MovedAsCounted
  <1> QED BY <1>1, Agreed, PTL

\* No call of the vault's token that the contracts would carry out, of an
\* amount a note can have, is refused by the guest.
THEOREM NothingElseRefused == Spec => []DecodableIsProvable
  <1>1. IInv => DecodableIsProvable
    BY DEF IInv, Deliverable, IsOwn, DecodableIsProvable
  <1> QED BY <1>1, Agreed, PTL

\* What the host encodes arrives as it was meant: no reader of it refuses, and
\* the forwarder carries out the call that was encoded (fixtures.rs:110-159).
THEOREM EncodedArrive == Spec => []EncodedCallsArrive
  <1>1. IInv => EncodedCallsArrive
    <2> SUFFICES ASSUME IInv, NEW call \in Calls,
                        \/ /\ carrier = "Consumed"
                           /\ blob = encode_external_transfer(
                                MULTISIG_FORWARDER, call.token, call.party,
                                call.amount)
                        \/ /\ carrier = "Inflow"
                           /\ blob = encode_wrap_call(
                                WRAP_FORWARDER, call.token, call.party, call.amount)
                 PROVE  /\ pc \notin {"refused", "panicked", "reverted"}
                        /\ pc = "executed" => moved = call
      BY DEF EncodedCallsArrive
    <2>1. blob \in Blobs
      BY DEF IInv
    <2>2. Deliverable /\ DecodedCall = call
      BY <2>1, EncodedDeliverable
    <2> QED BY <2>2 DEF IInv
  <1> QED BY <1>1, Agreed, PTL

\* The type invariant: what a guest counts and a forwarder moves is made of
\* the cells of the payload, which no truncated offset leaves.
THEOREM TypeCorrect == Spec => []TypeOK
  <1>1. IInv => TypeOK
    <2> SUFFICES ASSUME IInv PROVE TypeOK
      OBVIOUS
    <2>1. Cell \subseteq Nat
      BY CodecAssumption DEF Cell
    <2>2. moved \in [token : Cell, party : Cell, amount : Cell] \cup {NoCall}
      BY DEF IInv, Types
    <2>3. moved \in CallType
      BY <2>1, <2>2 DEF CallType
    <2> QED BY <2>3, BlobsAssumption DEF IInv, Types, TypeOK
  <1> QED BY <1>1, Agreed, PTL

=============================================================================
