----------------------- MODULE JournalEncoding_proofs -----------------------
(***************************************************************************)
(* For every base, every instance and every length: the two encoders of    *)
(* a journal write the same bytes, the guest panics exactly where the      *)
(* contract would cut a length off, and the bytes can be read back.        *)
(*                                                                         *)
(* The contract's encoder is a recursion over blobs, the guest's a loop.   *)
(* The inductive invariant says that the loop has written the payloads     *)
(* before this one and the recursion's value for the blobs before this     *)
(* one.  Reading back goes by what the output Holds at each position.      *)
(***************************************************************************)
EXTENDS JournalEncoding, DataTheorems

-----------------------------------------------------------------------------
(* Digits. *)

\* Divided by m, n is q and leaves r.
Division(n, m, q, r) ==
  q \in Nat /\ m \in Nat /\ r \in 0 .. m - 1 /\ n = q * m + r

\* A quotient and a remainder are the only ones.
LEMMA DivMod ==
  ASSUME NEW n, NEW m, NEW q, NEW r, Division(n, m, q, r)
  PROVE  n \div m = q /\ n % m = r
<1> DEFINE d == n \div m
           e == n % m
<1>1. n \in Nat /\ m > 0 /\ m \in Nat /\ q \in Nat /\ r \in 0 .. m - 1 /\ n = q * m + r
  BY DEF Division
<1>2. d \in Nat /\ e \in 0 .. m - 1 /\ n = m * d + e
  BY <1>1
<1> QED BY <1>1, <1>2

\* The weights as powers of the base.
LEMMA Weights ==
  /\ Weight(0) = 1
  /\ Weight(1) = Base
  /\ Weight(2) = Base * Base
  /\ Weight(3) = Base * Base * Base
BY DEF Weight

\* The number with four bytes, the lowest first.
Number(a, b, c, d) ==
  a + b * Weight(1) + c * Weight(2) + d * Weight(3)

\* Two, three and four digits stay below the square, the cube and the fourth
\* power of the base.
LEMMA DigitsBelow ==
  ASSUME NEW B \in Nat, NEW a \in 0 .. B - 1, NEW b \in 0 .. B - 1,
         NEW c \in 0 .. B - 1, NEW d \in 0 .. B - 1
  PROVE  /\ b * B + a \in 0 .. B * B - 1
         /\ c * (B * B) + (b * B + a) \in 0 .. B * B * B - 1
         /\ d * (B * B * B) + (c * (B * B) + (b * B + a))
              \in 0 .. B * (B * B * B) - 1
<1>1. \A m \in Nat : \A x \in 0 .. B - 1, y \in 0 .. m - 1 :
        x * m + y \in 0 .. B * m - 1
  <2> SUFFICES ASSUME NEW m \in Nat, NEW x \in 0 .. B - 1, NEW y \in 0 .. m - 1
               PROVE  x * m + y \in 0 .. B * m - 1
    OBVIOUS
  <2>1. x * m <= (B - 1) * m
    OBVIOUS
  <2>2. (B - 1) * m = B * m - m
    OBVIOUS
  <2>3. x * m \in Nat /\ B * m \in Nat
    OBVIOUS
  <2> QED BY <2>1, <2>2, <2>3
<1>2. b * B + a \in 0 .. B * B - 1
  BY <1>1
<1>3. c * (B * B) + (b * B + a) \in 0 .. B * (B * B) - 1
  BY <1>1, <1>2
<1>4. B * (B * B) = B * B * B
  OBVIOUS
<1>5. c * (B * B) + (b * B + a) \in 0 .. B * B * B - 1
  BY <1>3, <1>4
<1>6. d * (B * B * B) + (c * (B * B) + (b * B + a))
        \in 0 .. B * (B * B * B) - 1
  BY <1>1, <1>5
<1> QED BY <1>2, <1>5, <1>6

\* The bytes of a number are its digits.
LEMMA BytesOfNumber ==
  ASSUME NEW a \in Byte, NEW b \in Byte, NEW c \in Byte, NEW d \in Byte
  PROVE  /\ Number(a, b, c, d) \in 0 .. MaxU32
         /\ ByteAt(Number(a, b, c, d), 0) = a
         /\ ByteAt(Number(a, b, c, d), 1) = b
         /\ ByteAt(Number(a, b, c, d), 2) = c
         /\ ByteAt(Number(a, b, c, d), 3) = d
<1> DEFINE B == Base
           n == Number(a, b, c, d)
           n1 == d * (B * B) + (c * B + b)
           n2 == d * B + c
<1>0. /\ B \in Nat
      /\ a \in 0 .. B - 1 /\ b \in 0 .. B - 1 /\ c \in 0 .. B - 1 /\ d \in 0 .. B - 1
  BY BaseAssumption DEF Byte
<1>1. /\ b * B + a \in 0 .. B * B - 1
      /\ c * (B * B) + (b * B + a) \in 0 .. B * B * B - 1
      /\ d * (B * B * B) + (c * (B * B) + (b * B + a))
           \in 0 .. B * (B * B * B) - 1
  BY <1>0, DigitsBelow
<1>2. n = d * (B * B * B) + (c * (B * B) + (b * B + a))
  BY <1>0, Weights DEF Number
<1>3. n \in 0 .. MaxU32
  BY <1>1, <1>2, Weights DEF MaxU32
<1>4. n = n1 * B + a /\ n1 \in Nat
  BY <1>0, <1>2
<1>5. n = n2 * (B * B) + (b * B + a) /\ n2 \in Nat
  BY <1>0, <1>2
<1>6. n1 = n2 * B + b
  BY <1>0
<1>7. n2 \in Nat /\ B * B \in Nat /\ n2 = d * B + c
  BY <1>0
<1> HIDE DEF n, n1, n2
<1>8. n \div 1 = n
  BY <1>3
<1>d. /\ Division(n, B, n1, a) /\ Division(n1, B, n2, b)
      /\ Division(n, B * B, n2, b * B + a) /\ Division(n2, B, d, c)
  BY <1>0, <1>1, <1>4, <1>5, <1>6, <1>7 DEF Division
<1>9. n % B = a /\ n \div B = n1
  BY <1>d, DivMod
<1>10. n1 % B = b
  BY <1>d, DivMod
<1>11. n \div (B * B) = n2
  BY <1>d, DivMod
<1>12. n2 % B = c
  BY <1>d, DivMod
<1>13. n \div (B * B * B) = d
  <2>1. B * B * B \in Nat /\ d \in Nat
    BY <1>0
  <2>2. Division(n, B * B * B, d, c * (B * B) + (b * B + a))
    BY <1>1, <1>2, <2>1 DEF Division
  <2> QED BY <2>2, DivMod
<1>14. d % B = d
  <2>1. Division(d, B, 0, d)
    BY <1>0 DEF Division
  <2> QED BY <2>1, DivMod
<1>15. ByteAt(n, 0) = a /\ ByteAt(n, 1) = b /\ ByteAt(n, 2) = c /\ ByteAt(n, 3) = d
  BY <1>8, <1>9, <1>10, <1>11, <1>12, <1>13, <1>14, Weights DEF ByteAt
<1> QED BY <1>3, <1>15 DEF n

\* Every uint32 is the number of its bytes.
LEMMA NumberOfBytes ==
  ASSUME NEW n \in 0 .. MaxU32
  PROVE  /\ \A d \in 0 .. 3 : ByteAt(n, d) \in Byte
         /\ n = Number(ByteAt(n, 0), ByteAt(n, 1), ByteAt(n, 2), ByteAt(n, 3))
<1> DEFINE B == Base
           q1 == n \div B
           q2 == q1 \div B
           q3 == q2 \div B
           r0 == n % B
           r1 == q1 % B
           r2 == q2 % B
<1>0. B \in Nat /\ B >= 2 /\ n \in Nat
  BY BaseAssumption
<1>1. \A k \in Nat : /\ k \div B \in Nat /\ k % B \in Byte
                     /\ k = (k \div B) * B + (k % B)
  <2> SUFFICES ASSUME NEW k \in Nat
               PROVE  /\ k \div B \in Nat /\ k % B \in Byte
                      /\ k = (k \div B) * B + (k % B)
    OBVIOUS
  <2>1. k \div B \in Nat /\ k % B \in 0 .. B - 1 /\ k = B * (k \div B) + (k % B)
    BY <1>0
  <2> QED BY <1>0, <2>1 DEF Byte
<1>2. q1 \in Nat /\ r0 \in Byte /\ n = q1 * B + r0
  BY <1>0, <1>1
<1>3. q2 \in Nat /\ r1 \in Byte /\ q1 = q2 * B + r1
  BY <1>1, <1>2
<1>4. q3 \in Nat /\ r2 \in Byte /\ q2 = q3 * B + r2
  BY <1>1, <1>3
<1> HIDE DEF q1, q2, q3, r0, r1, r2
<1>5. r0 \in Nat /\ r1 \in Nat /\ r2 \in Nat
  BY <1>2, <1>3, <1>4 DEF Byte
<1>6. n = q3 * (B * B * B) + (r2 * (B * B) + (r1 * B + r0))
  BY <1>0, <1>2, <1>3, <1>4, <1>5
<1>7. q3 \in Byte
  <2>1. n < B * (B * B * B)
    <3>1. B * (B * B * B) \in Nat
      BY <1>0
    <3> QED BY <1>0, <3>1, Weights DEF MaxU32
  <2>2. r2 * (B * B) + (r1 * B + r0) \in Nat /\ B * B * B \in Nat
    BY <1>0, <1>5
  <2>3. q3 * (B * B * B) < B * (B * B * B)
    BY <1>0, <1>4, <1>6, <2>1, <2>2
  <2>4. \A x, y, m \in Nat : x * m < y * m => x < y
    OBVIOUS
  <2>5. q3 < B
    BY <1>0, <1>4, <2>2, <2>3, <2>4
  <2> QED BY <1>0, <1>4, <2>5 DEF Byte
<1> DEFINE N == Number(r0, r1, r2, q3)
<1>8. n = N
  BY <1>0, <1>4, <1>5, <1>6, Weights DEF Number
<1>9. ByteAt(N, 0) = r0 /\ ByteAt(N, 1) = r1 /\ ByteAt(N, 2) = r2 /\ ByteAt(N, 3) = q3
  BY <1>2, <1>3, <1>4, <1>7, BytesOfNumber
<1>10. ByteAt(n, 0) = r0 /\ ByteAt(n, 1) = r1 /\ ByteAt(n, 2) = r2 /\ ByteAt(n, 3) = q3
  BY <1>8, <1>9
<1>11. \A d \in 0 .. 3 : ByteAt(n, d) \in Byte
  <2> SUFFICES ASSUME NEW d \in 0 .. 3 PROVE ByteAt(n, d) \in Byte
    OBVIOUS
  <2>1. d = 0 \/ d = 1 \/ d = 2 \/ d = 3
    OBVIOUS
  <2> QED BY <1>2, <1>3, <1>4, <1>7, <1>10, <2>1
<1> QED BY <1>8, <1>10, <1>11

\* The contract turns the bytes of a uint32 around.
LEMMA ByteOrderReversed ==
  ASSUME NEW a \in Byte, NEW b \in Byte, NEW c \in Byte, NEW d \in Byte
  PROVE  reverseByteOrderUint32(Number(a, b, c, d)) = Number(d, c, b, a)
<1> DEFINE B == Base
           n == Number(a, b, c, d)
           v == Number(b, a, d, c)
           high == c * B + d
           low == a * B + b
           w == v * (B * B)
           cut == a * (B * B * B) + (b * (B * B) + (0 * B + 0))
<1>0. /\ B \in Nat /\ B >= 2
      /\ a \in 0 .. B - 1 /\ b \in 0 .. B - 1 /\ c \in 0 .. B - 1 /\ d \in 0 .. B - 1
  BY BaseAssumption DEF Byte
<1>1. ByteAt(n, 0) = a /\ ByteAt(n, 1) = b /\ ByteAt(n, 2) = c /\ ByteAt(n, 3) = d
  BY BytesOfNumber
<1>2. ByteAt(n, 3) * Weight(2) + ByteAt(n, 1) + ByteAt(n, 2) * Weight(3)
        + ByteAt(n, 0) * Weight(1) = v
  <2>1. d * Weight(2) + b + c * Weight(3) + a * Weight(1) = v
    BY <1>0, Weights DEF Number
  <2> QED BY <1>1, <2>1
<1>3. high \in Nat /\ low \in Nat /\ v \in Nat /\ w \in Nat /\ cut \in Nat
  BY <1>0, Weights DEF Number
<1>4. low \in 0 .. B * B - 1 /\ cut \in 0 .. B * (B * B * B) - 1
  BY <1>0, DigitsBelow
<1>5. v = high * (B * B) + low
  BY <1>0, Weights DEF Number
<1>6. w = high * (B * (B * B * B)) + cut
  BY <1>0, Weights DEF Number
<1>7. v \div Weight(2) = high
  <2>1. Division(v, B * B, high, low)
    BY <1>0, <1>3, <1>4, <1>5 DEF Division
  <2> QED BY <2>1, DivMod, Weights
<1>8. uint32(v * Weight(2)) = cut
  <2>1. B * (B * B * B) \in Nat
    BY <1>0
  <2>2. Division(w, B * (B * B * B), high, cut)
    BY <1>3, <1>4, <1>6, <2>1 DEF Division
  <2>3. w % (B * (B * B * B)) = cut
    BY <2>2, DivMod
  <2>4. MaxU32 + 1 = B * (B * B * B)
    BY <2>1, Weights DEF MaxU32
  <2> QED BY <2>3, <2>4, Weights DEF uint32
<1>9. high + cut = Number(d, c, b, a)
  BY <1>0, Weights DEF Number
<1> HIDE DEF n, v, high, cut
<1>10. reverseByteOrderUint32(n) = v \div Weight(2) + uint32(v * Weight(2))
  BY <1>2 DEF reverseByteOrderUint32
<1>11. reverseByteOrderUint32(n) = Number(d, c, b, a)
  BY <1>7, <1>8, <1>9, <1>10
<1> QED BY <1>11 DEF n

\* The bytes of a length are written alike on both sides.
LEMMA LengthsAgree ==
  ASSUME NEW n \in 0 .. MaxU32
  PROVE  packed_length(n) = to_le_bytes(n)
<1> DEFINE a == ByteAt(n, 0)
           b == ByteAt(n, 1)
           c == ByteAt(n, 2)
           d == ByteAt(n, 3)
           r == Number(d, c, b, a)
<1>1. /\ a \in Byte /\ b \in Byte /\ c \in Byte /\ d \in Byte
      /\ n = Number(a, b, c, d)
  BY NumberOfBytes
<1>2. uint32(n) = n
  <2>1. MaxU32 + 1 \in Nat /\ n < MaxU32 + 1 /\ n \in Nat
    BY BaseAssumption, Weights DEF MaxU32
  <2> QED BY <2>1 DEF uint32
<1> HIDE DEF a, b, c, d
<1>3. reverseByteOrderUint32(n) = r
  <2>1. reverseByteOrderUint32(Number(a, b, c, d)) = r
    BY <1>1, ByteOrderReversed
  <2> QED BY <1>1, <2>1
<1>4. ByteAt(r, 0) = d /\ ByteAt(r, 1) = c /\ ByteAt(r, 2) = b /\ ByteAt(r, 3) = a
  BY <1>1, BytesOfNumber
<1> HIDE DEF r
<1>5. \A k \in 1 .. 4 : ByteAt(r, 4 - k) = (n \div Weight(k - 1)) % Base
  <2> SUFFICES ASSUME NEW k \in 1 .. 4
               PROVE  ByteAt(r, 4 - k) = ByteAt(n, k - 1)
    BY DEF ByteAt
  <2>1. k = 1 \/ k = 2 \/ k = 3 \/ k = 4
    OBVIOUS
  <2> QED BY <1>4, <2>1 DEF a, b, c, d
<1>6. packed_uint32(r) = to_le_bytes(n)
  BY <1>5 DEF packed_uint32, to_le_bytes
<1> QED BY <1>2, <1>3, <1>6 DEF packed_length

\* A word is four bytes.
LEMMA WordBytes ==
  ASSUME NEW n \in 0 .. MaxU32
  PROVE  /\ to_le_bytes(n) \in Seq(Byte)
         /\ Len(to_le_bytes(n)) = 4
         /\ \A d \in 1 .. 4 : to_le_bytes(n)[d] = ByteAt(n, d - 1)
<1>1. \A d \in 1 .. 4 : (n \div Weight(d - 1)) % Base = ByteAt(n, d - 1)
  BY DEF ByteAt
<1>2. \A d \in 1 .. 4 : ByteAt(n, d - 1) \in Byte
  BY NumberOfBytes
<1>3. to_le_bytes(n) \in [1 .. 4 -> Byte]
  BY <1>1, <1>2 DEF to_le_bytes
<1>4. 4 \in Nat
  OBVIOUS
<1>5. to_le_bytes(n) \in Seq(Byte) /\ DOMAIN to_le_bytes(n) = 1 .. 4
  BY <1>3, <1>4, SeqDef
<1>6. Len(to_le_bytes(n)) = 4
  BY <1>5, LenProperties
<1>7. \A d \in 1 .. 4 : to_le_bytes(n)[d] = (n \div Weight(d - 1)) % Base
  BY DEF to_le_bytes
<1> QED BY <1>1, <1>5, <1>6, <1>7

\* The flag of the header is 1 or 0 on both sides.
LEMMA FlagsAgree ==
  ASSUME NEW flag \in BOOLEAN
  PROVE  /\ (IF flag THEN 1 ELSE 0) \in 0 .. MaxU32
         /\ packed_uint32(IF flag THEN Weight(3) ELSE 0)
              = to_le_bytes(IF flag THEN 1 ELSE 0)
<1>0. 0 \in Byte /\ 1 \in Byte
  BY BaseAssumption DEF Byte
<1>1. /\ Number(0, 0, 0, 0) = 0 /\ Number(1, 0, 0, 0) = 1
      /\ Number(0, 0, 0, 1) = Weight(3)
  BY BaseAssumption, Weights DEF Number
<1>2. \A x, y \in {0, 1} :
        /\ Number(x, 0, 0, y) \in 0 .. MaxU32
        /\ ByteAt(Number(x, 0, 0, y), 0) = x /\ ByteAt(Number(x, 0, 0, y), 1) = 0
        /\ ByteAt(Number(x, 0, 0, y), 2) = 0 /\ ByteAt(Number(x, 0, 0, y), 3) = y
  BY <1>0, BytesOfNumber
<1> DEFINE s == IF flag THEN 1 ELSE 0
<1>3. /\ Number(s, 0, 0, 0) = s
      /\ Number(0, 0, 0, s) = IF flag THEN Weight(3) ELSE 0
  BY <1>1
<1>4. s \in {0, 1}
  OBVIOUS
<1> HIDE DEF s
<1> DEFINE low == Number(s, 0, 0, 0)
           high == Number(0, 0, 0, s)
<1>5. /\ ByteAt(low, 0) = s /\ ByteAt(low, 1) = 0 /\ ByteAt(low, 2) = 0 /\ ByteAt(low, 3) = 0
      /\ ByteAt(high, 0) = 0 /\ ByteAt(high, 1) = 0 /\ ByteAt(high, 2) = 0 /\ ByteAt(high, 3) = s
      /\ low \in 0 .. MaxU32
  BY <1>2, <1>4
<1> HIDE DEF low, high
<1>6. \A k \in 1 .. 4 : ByteAt(high, 4 - k) = (low \div Weight(k - 1)) % Base
  <2> SUFFICES ASSUME NEW k \in 1 .. 4
               PROVE  ByteAt(high, 4 - k) = ByteAt(low, k - 1)
    BY DEF ByteAt
  <2>1. k = 1 \/ k = 2 \/ k = 3 \/ k = 4
    OBVIOUS
  <2> QED BY <1>5, <2>1
<1>7. packed_uint32(high) = to_le_bytes(low)
  BY <1>6 DEF packed_uint32, to_le_bytes
<1> QED BY <1>3, <1>5, <1>7 DEF low, high, s

-----------------------------------------------------------------------------
(* What the encoders write. *)

\* A uint32 counts up from zero.
LEMMA MaxU32Type == MaxU32 \in Nat
<1>1. Base * (Base * Base * Base) \in Nat \ {0}
  BY BaseAssumption
<1> QED BY <1>1, Weights DEF MaxU32

\* Lengths above a uint32 are cut off and still give bytes.
LEMMA LengthBytes ==
  ASSUME NEW n \in Nat
  PROVE  packed_length(n) \in Seq(Byte) /\ Len(packed_length(n)) = 4
<1> DEFINE m == uint32(n)
<1>1. MaxU32 \in Nat
  BY MaxU32Type
<1>2. m \in 0 .. MaxU32
  BY <1>1 DEF uint32
<1>3. uint32(m) = m
  <2> HIDE DEF m
  <2>1. m \in Nat /\ m < MaxU32 + 1
    BY <1>1, <1>2
  <2> QED BY <1>1, <2>1 DEF uint32
<1>4. packed_length(m) = packed_length(n)
  BY <1>3 DEF packed_length
<1> HIDE DEF m
<1>5. packed_length(m) = to_le_bytes(m)
  BY <1>2, LengthsAgree
<1>6. to_le_bytes(m) \in Seq(Byte) /\ Len(to_le_bytes(m)) = 4
  BY <1>2, WordBytes
<1> QED BY <1>4, <1>5, <1>6

\* A blob as the contract writes it.
PackedBlob(b) ==
  <<deletion_criterion[b.deletion_criterion]>> \o packed_length(Len(b.blob)) \o b.blob

\* The parts a blob is written in are bytes.
LEMMA BlobParts ==
  ASSUME NEW b \in Blob
  PROVE  /\ <<deletion_criterion[b.deletion_criterion]>> \in Seq(Byte)
         /\ Len(b.blob) \in Nat
         /\ packed_length(Len(b.blob)) \in Seq(Byte)
         /\ b.blob \in Seq(Byte)
<1>1. b.blob \in Seq(Byte) /\ b.deletion_criterion \in {"Immediately", "Never"}
  BY DEF Blob
<1>2. Len(b.blob) \in Nat
  BY <1>1, LenProperties
<1>3. deletion_criterion[b.deletion_criterion] \in Byte
  <2>1. 0 \in Byte /\ 1 \in Byte
    BY BaseAssumption DEF Byte
  <2> QED BY <1>1, <2>1 DEF deletion_criterion
<1> QED BY <1>1, <1>2, <1>3, LengthBytes

\* Concatenation under a name of its own, as the proofs regroup it.
Joined(p, q) == p \o q

\* Strings of bytes may be joined in any order.
LEMMA Regroup ==
  ASSUME NEW p \in Seq(Byte), NEW q \in Seq(Byte), NEW r \in Seq(Byte)
  PROVE  /\ Joined(p, q) \in Seq(Byte)
         /\ Joined(Joined(p, q), r) = Joined(p, Joined(q, r))
<1>1. Joined(p, q) \in Seq(Byte)
  BY ConcatProperties DEF Joined
<1>2. (p \o q) \o r = p \o (q \o r)
  BY ConcatAssociative, SMTT(30)
<1> QED BY <1>1, <1>2 DEF Joined

\* The same for the three parts of a blob.
LEMMA RegroupParts ==
  ASSUME NEW p \in Seq(Byte), NEW q \in Seq(Byte), NEW r \in Seq(Byte),
         NEW t \in Seq(Byte)
  PROVE  Joined(Joined(Joined(p, q), r), t) = Joined(p, Joined(Joined(q, r), t))
<1>1. Joined(q, r) \in Seq(Byte)
  BY Regroup
<1>2. Joined(Joined(p, q), r) = Joined(p, Joined(q, r))
  BY Regroup
<1>3. Joined(Joined(p, Joined(q, r)), t) = Joined(p, Joined(Joined(q, r), t))
  BY <1>1, Regroup
<1> QED BY <1>2, <1>3

\* A blob is bytes, and is written behind others in parts or at once.
LEMMA PackedBlobIs ==
  ASSUME NEW b \in Blob
  PROVE  /\ PackedBlob(b) \in Seq(Byte)
         /\ Len(PackedBlob(b)) = 5 + Len(b.blob)
         /\ \A s \in Seq(Byte) :
              s \o <<deletion_criterion[b.deletion_criterion]>>
                \o packed_length(Len(b.blob)) \o b.blob = s \o PackedBlob(b)
<1> DEFINE c == <<deletion_criterion[b.deletion_criterion]>>
           l == packed_length(Len(b.blob))
           t == b.blob
<1>1. c \in Seq(Byte) /\ l \in Seq(Byte) /\ t \in Seq(Byte) /\ Len(b.blob) \in Nat
  BY BlobParts
<1>2. Len(c) = 1 /\ Len(l) = 4
  BY <1>1, LengthBytes
<1>3. PackedBlob(b) = (c \o l) \o t /\ Len(t) = Len(b.blob)
  BY DEF PackedBlob
<1> HIDE DEF c, l, t
<1>4. c \o l \in Seq(Byte) /\ Len(c \o l) = 5
  <2>1. c \o l \in Seq(Byte) /\ Len(c \o l) = Len(c) + Len(l)
    BY <1>1, ConcatProperties
  <2> QED BY <1>2, <2>1
<1>5. (c \o l) \o t \in Seq(Byte) /\ Len((c \o l) \o t) = 5 + Len(t)
  BY <1>1, <1>4, ConcatProperties
<1>6. ASSUME NEW s \in Seq(Byte) PROVE s \o c \o l \o t = s \o ((c \o l) \o t)
  <2>1. Joined(Joined(Joined(s, c), l), t) = Joined(s, Joined(Joined(c, l), t))
    BY <1>1, RegroupParts
  <2> QED BY <2>1 DEF Joined
<1>7. \A s \in Seq(Byte) : s \o c \o l \o t = s \o PackedBlob(b)
  BY <1>3, <1>6
<1> QED BY <1>3, <1>5, <1>7 DEF c, l, t

\* Guest and contract write a blob alike, when its length is a uint32.
LEMMA BlobsAgree ==
  ASSUME NEW b \in Blob, Len(b.blob) <= MaxU32
  PROVE  EncodedBlob(b) = PackedBlob(b)
<1>1. Len(b.blob) \in 0 .. MaxU32
  <2>1. Len(b.blob) \in Nat /\ MaxU32 \in Nat
    BY BlobParts, MaxU32Type
  <2> QED BY <2>1
<1>2. packed_length(Len(b.blob)) = to_le_bytes(Len(b.blob))
  BY <1>1, LengthsAgree
<1> QED BY <1>2 DEF EncodedBlob, PackedBlob

\* g[n] is what the first n blobs of the payload are written as.
Encodes(g, payload) ==
  /\ g \in [0 .. Len(payload) -> Seq(Byte)]
  /\ g[0] = <<>>
  /\ \A n \in 1 .. Len(payload) : g[n] = g[n - 1] \o PackedBlob(payload[n])

\* The recursion of encodePayload.
LEMMA EncodePayloadIs ==
  ASSUME NEW payload \in Seq(Blob)
  PROVE  \E g : Encodes(g, payload) /\ encodePayload(payload) = g[Len(payload)]
<1> DEFINE N == Len(payload)
           Parts(s, b) == s \o <<deletion_criterion[b.deletion_criterion]>>
                            \o packed_length(Len(b.blob)) \o b.blob
           after == CHOOSE h : h = [n \in 0 .. N |->
                      IF n = 0 THEN <<>> ELSE Parts(h[n - 1], payload[n])]
           f == [n \in 1 .. N |-> [s \in Seq(Byte) |-> s \o PackedBlob(payload[n])]]
<1>1. N \in Nat /\ \A n \in 1 .. N : payload[n] \in Blob
  BY LenProperties
<1>2. encodePayload(payload) = after[N]
  BY DEF encodePayload
<1>3. \A n \in 1 .. N, s \in Seq(Byte) :
        /\ s \o PackedBlob(payload[n]) \in Seq(Byte)
        /\ Parts(s, payload[n]) = s \o PackedBlob(payload[n])
  <2> SUFFICES ASSUME NEW n \in 1 .. N, NEW s \in Seq(Byte)
               PROVE  /\ s \o PackedBlob(payload[n]) \in Seq(Byte)
                      /\ Parts(s, payload[n]) = s \o PackedBlob(payload[n])
    OBVIOUS
  <2>1. payload[n] \in Blob
    BY <1>1
  <2>2. PackedBlob(payload[n]) \in Seq(Byte)
    BY <2>1, PackedBlobIs
  <2>3. Parts(s, payload[n]) = s \o PackedBlob(payload[n])
    BY <2>1, PackedBlobIs
  <2> QED BY <2>2, <2>3, ConcatProperties
<1>4. f \in [1 .. N -> [Seq(Byte) -> Seq(Byte)]]
  BY <1>3
<1>5. \A n \in 1 .. N, s \in Seq(Byte) : f[n][s] = s \o PackedBlob(payload[n])
  OBVIOUS
<1>6. <<>> \in Seq(Byte)
  OBVIOUS
<1> HIDE DEF f, N, Parts
<1>7. PICK g \in [0 .. N -> Seq(Byte)] : Steps(g, f, <<>>, N)
  BY <1>1, <1>4, <1>6, StepsExist
<1>8. \A n \in 1 .. N : g[n - 1] \in Seq(Byte) /\ g[n] = g[n - 1] \o PackedBlob(payload[n])
  <2> SUFFICES ASSUME NEW n \in 1 .. N
               PROVE  g[n - 1] \in Seq(Byte) /\ g[n] = g[n - 1] \o PackedBlob(payload[n])
    OBVIOUS
  <2>1. n - 1 \in 0 .. N
    BY <1>1
  <2>2. g[n - 1] \in Seq(Byte)
    BY <1>7, <2>1
  <2> QED BY <1>5, <1>7, <2>2 DEF Steps
<1>9. g = [n \in 0 .. N |-> IF n = 0 THEN <<>> ELSE Parts(g[n - 1], payload[n])]
  <2>1. \A n \in 0 .. N : g[n] = IF n = 0 THEN <<>> ELSE Parts(g[n - 1], payload[n])
    <3> SUFFICES ASSUME NEW n \in 0 .. N
                 PROVE  g[n] = IF n = 0 THEN <<>> ELSE Parts(g[n - 1], payload[n])
      OBVIOUS
    <3>1. CASE n = 0
      BY <1>7, <3>1 DEF Steps
    <3>2. CASE n # 0
      <4>1. n \in 1 .. N
        BY <1>1, <3>2
      <4> QED BY <1>3, <1>8, <3>2, <4>1
    <3> QED BY <3>1, <3>2
  <2> QED BY <1>7, <2>1
<1>10. after = [n \in 0 .. N |-> IF n = 0 THEN <<>> ELSE Parts(after[n - 1], payload[n])]
  BY <1>9
<1> HIDE DEF after
<1>11. after[0] = <<>>
  BY <1>1, <1>10
<1>12. \A n \in 1 .. N : after[n] = Parts(after[n - 1], payload[n])
  BY <1>1, <1>10
<1> DEFINE T == {n \in Nat : n <= N => after[n] = g[n]}
<1>13. 0 \in T
  BY <1>7, <1>11 DEF Steps
<1>14. ASSUME NEW n \in Nat, n \in T PROVE n + 1 \in T
  <2> SUFFICES ASSUME n + 1 <= N PROVE after[n + 1] = g[n + 1]
    OBVIOUS
  <2>1. n + 1 \in 1 .. N /\ (n + 1) - 1 = n /\ n <= N
    BY <1>1
  <2>2. after[n] = g[n]
    BY <1>14, <2>1
  <2>3. after[n + 1] = Parts(after[n], payload[n + 1])
    BY <1>12, <2>1
  <2>4. g[n] \in Seq(Byte) /\ g[n + 1] = g[n] \o PackedBlob(payload[n + 1])
    BY <1>8, <2>1
  <2> QED BY <1>3, <2>1, <2>2, <2>3, <2>4
<1>15. Nat \subseteq T
  <2> HIDE DEF T
  <2> QED BY <1>13, <1>14, NatSetInduction
<1>16. after[N] = g[N]
  BY <1>1, <1>15
<1>17. Encodes(g, payload)
  BY <1>7, <1>8 DEF Encodes, N, Steps
<1> QED BY <1>2, <1>16, <1>17 DEF N

\* Every payload of an instance is a list of blobs.
LEMMA PayloadType ==
  ASSUME NEW x \in Instances, NEW n \in 1 .. 4
  PROVE  /\ Payload(x, n) \in Seq(Blob)
         /\ Len(Payload(x, n)) \in Nat
         /\ DOMAIN Payload(x, n) = 1 .. Len(Payload(x, n))
         /\ \A k \in 1 .. Len(Payload(x, n)) : Payload(x, n)[k] \in Blob
<1>1. x.app_data \in [PayloadNames -> Seq(Blob)]
  BY InstancesAssumption DEF Instance
<1>2. Payload(x, n) \in Seq(Blob)
  <2>1. n = 1 \/ n = 2 \/ n = 3 \/ n = 4
    OBVIOUS
  <2> QED BY <1>1, <2>1 DEF Payload, PayloadNames
<1> DEFINE p == Payload(x, n)
<1>3. p \in Seq(Blob)
  BY <1>2
<1> HIDE DEF p
<1>4. Len(p) \in Nat /\ DOMAIN p = 1 .. Len(p) /\ \A k \in 1 .. Len(p) : p[k] \in Blob
  BY <1>3, LenProperties, ElementOfSeq
<1> QED BY <1>3, <1>4 DEF p

\* What encodePayload has written after each blob.
Written(payload) ==
  CHOOSE g : Encodes(g, payload) /\ encodePayload(payload) = g[Len(payload)]

\* It starts empty, grows by a blob, and ends as what encodePayload returns.
LEMMA WrittenIs ==
  ASSUME NEW payload \in Seq(Blob)
  PROVE  /\ \A n \in 0 .. Len(payload) : Written(payload)[n] \in Seq(Byte)
         /\ Written(payload)[0] = <<>>
         /\ \A n \in 1 .. Len(payload) :
              Written(payload)[n] = Written(payload)[n - 1] \o PackedBlob(payload[n])
         /\ Written(payload)[Len(payload)] = encodePayload(payload)
         /\ packed_payload(payload) \in Seq(Byte)
<1>1. Encodes(Written(payload), payload)
      /\ encodePayload(payload) = Written(payload)[Len(payload)]
  BY EncodePayloadIs DEF Written
<1>2. Len(payload) \in Nat
  BY LenProperties
<1>3. encodePayload(payload) \in Seq(Byte)
  BY <1>1, <1>2 DEF Encodes
<1>4. packed_length(Len(payload)) \in Seq(Byte)
  BY <1>2, LengthBytes
<1>5. packed_payload(payload) \in Seq(Byte)
  BY <1>3, <1>4, ConcatProperties DEF packed_payload
<1> QED BY <1>1, <1>2, <1>5 DEF Encodes

\* What the contract writes ahead of the n-th payload.
Header(x) ==
  <<x.tag>> \o packed_uint32(IF x.is_consumed THEN Weight(3) ELSE 0)
            \o <<x.action_tree_root>>

Before(x, n) ==
  CASE n = 1 -> Header(x)
    [] n = 2 -> Header(x) \o packed_payload(Payload(x, 1))
    [] n = 3 -> Header(x) \o packed_payload(Payload(x, 1))
                  \o packed_payload(Payload(x, 2))
    [] n = 4 -> Header(x) \o packed_payload(Payload(x, 1))
                  \o packed_payload(Payload(x, 2)) \o packed_payload(Payload(x, 3))
    [] n = 5 -> SolidityEncode(x)

\* The header is six bytes, the same six that the guest starts with.
LEMMA HeaderIs ==
  ASSUME NEW x \in Instances
  PROVE  /\ Header(x) \in Seq(Byte)
         /\ Header(x) = <<x.tag>> \o to_le_bytes(IF x.is_consumed THEN 1 ELSE 0)
                          \o <<x.action_tree_root>>
<1> DEFINE w == to_le_bytes(IF x.is_consumed THEN 1 ELSE 0)
           t == <<x.tag>>
           r == <<x.action_tree_root>>
<1>1. x.tag \in Byte /\ x.action_tree_root \in Byte /\ x.is_consumed \in BOOLEAN
  BY InstancesAssumption DEF Instance
<1>2. w = packed_uint32(IF x.is_consumed THEN Weight(3) ELSE 0)
  BY <1>1, FlagsAgree
<1>3. w \in Seq(Byte)
  BY <1>1, FlagsAgree, WordBytes
<1>4. t \in Seq(Byte) /\ r \in Seq(Byte)
  BY <1>1
<1>5. Header(x) = t \o w \o r
  BY <1>2 DEF Header
<1> HIDE DEF w, t, r
<1>6. t \o w \in Seq(Byte)
  BY <1>3, <1>4, ConcatProperties
<1>7. t \o w \o r \in Seq(Byte)
  BY <1>4, <1>6, ConcatProperties
<1> QED BY <1>5, <1>7 DEF t, w, r

\* One payload after the other.
LEMMA BeforeIs ==
  ASSUME NEW x \in Instances
  PROVE  /\ Before(x, 1) = Header(x)
         /\ Before(x, 5) = SolidityEncode(x)
         /\ \A n \in 1 .. 4 :
              /\ Before(x, n) \in Seq(Byte)
              /\ Before(x, n + 1) = Before(x, n) \o packed_payload(Payload(x, n))
<1>1. Before(x, 1) = Header(x) /\ Before(x, 5) = SolidityEncode(x)
  BY DEF Before
<1>2. \A n \in 1 .. 4 : Before(x, n + 1) = Before(x, n) \o packed_payload(Payload(x, n))
  <2> SUFFICES ASSUME NEW n \in 1 .. 4
               PROVE  Before(x, n + 1) = Before(x, n) \o packed_payload(Payload(x, n))
    OBVIOUS
  <2>1. CASE n = 1
    BY <2>1 DEF Before
  <2>2. CASE n = 2
    BY <2>2 DEF Before
  <2>3. CASE n = 3
    BY <2>3 DEF Before
  <2>4. CASE n = 4
    <3>1. Before(x, 5) = Header(x) \o packed_payload(Payload(x, 1))
            \o packed_payload(Payload(x, 2)) \o packed_payload(Payload(x, 3))
            \o packed_payload(Payload(x, 4))
      BY DEF Before, SolidityEncode, Header, Payload
    <3>2. Before(x, 4) = Header(x) \o packed_payload(Payload(x, 1))
            \o packed_payload(Payload(x, 2)) \o packed_payload(Payload(x, 3))
      BY DEF Before
    <3>3. Before(x, 5) = Before(x, 4) \o packed_payload(Payload(x, 4))
      BY <3>1, <3>2
    <3>4. n + 1 = 5
      BY <2>4
    <3> QED BY <2>4, <3>3, <3>4
  <2> QED BY <2>1, <2>2, <2>3, <2>4
<1>3. \A n \in 1 .. 4 : packed_payload(Payload(x, n)) \in Seq(Byte)
  BY PayloadType, WrittenIs
<1>4. ASSUME NEW n \in 1 .. 4, Before(x, n) \in Seq(Byte)
      PROVE  Before(x, n + 1) \in Seq(Byte)
  <2> DEFINE s == Before(x, n)
             p == packed_payload(Payload(x, n))
  <2>1. s \in Seq(Byte) /\ p \in Seq(Byte) /\ Before(x, n + 1) = s \o p
    BY <1>2, <1>3, <1>4
  <2> HIDE DEF s, p
  <2> QED BY <2>1, ConcatProperties
<1>5. Before(x, 1) \in Seq(Byte)
  BY <1>1, HeaderIs
<1>6. Before(x, 2) \in Seq(Byte)
  BY <1>4, <1>5
<1>7. Before(x, 3) \in Seq(Byte)
  BY <1>4, <1>6
<1>8. Before(x, 4) \in Seq(Byte)
  BY <1>4, <1>7
<1>9. \A n \in 1 .. 4 : Before(x, n) \in Seq(Byte)
  <2> SUFFICES ASSUME NEW n \in 1 .. 4 PROVE Before(x, n) \in Seq(Byte)
    OBVIOUS
  <2>1. n = 1 \/ n = 2 \/ n = 3 \/ n = 4
    OBVIOUS
  <2> QED BY <1>5, <1>6, <1>7, <1>8, <2>1
<1> QED BY <1>1, <1>2, <1>9

-----------------------------------------------------------------------------
(* The guest's loop. *)

\* Neither the payload nor a blob of it is too long.
Fits(payload) ==
  /\ Len(payload) <= MaxU32
  /\ \A n \in DOMAIN payload : Len(payload[n].blob) <= MaxU32

\* What the loop of encode_payload has done when it comes to blob i.
BlobsWritten ==
  LET payload == Payload(instance, part) IN
  /\ Len(payload) <= MaxU32
  /\ \A n \in 1 .. i - 1 : Len(payload[n].blob) <= MaxU32
  /\ out = Before(instance, part)
             \o (packed_length(Len(payload)) \o Written(payload)[i - 1])

\* The inductive invariant.
IInv ==
  /\ instance \in Instances
  /\ TypeOK
  /\ \A n \in 1 .. part - 1 : Fits(Payload(instance, n))
  /\ pc = "header" => part = 1 /\ i = 1
  /\ pc = "length" => i = 1 /\ out = Before(instance, part)
  /\ pc = "blobs" => BlobsWritten
  /\ pc = "done" => ~TooLong(instance) /\ out = SolidityEncode(instance)
  /\ pc = "panicked" => TooLong(instance)

\* An instance is too long exactly if one of the four payloads does not fit.
LEMMA TooLongIs ==
  ASSUME NEW x \in Instances
  PROVE  TooLong(x) <=> \E n \in 1 .. 4 : ~Fits(Payload(x, n))
<1> DEFINE Long(p) == \/ Len(p) > MaxU32
                      \/ \E k \in DOMAIN p : Len(p[k].blob) > MaxU32
<1>1. \A n \in 1 .. 4 : Long(Payload(x, n)) <=> ~Fits(Payload(x, n))
  <2> SUFFICES ASSUME NEW n \in 1 .. 4
               PROVE  Long(Payload(x, n)) <=> ~Fits(Payload(x, n))
    OBVIOUS
  <2> DEFINE p == Payload(x, n)
  <2>1. /\ Len(p) \in Nat /\ DOMAIN p = 1 .. Len(p)
        /\ \A k \in 1 .. Len(p) : p[k] \in Blob
    BY PayloadType
  <2>2. \A k \in 1 .. Len(p) : Len(p[k].blob) \in Nat
    BY <2>1, BlobParts
  <2> HIDE DEF p
  <2>3. Long(p) <=> ~Fits(p)
    BY <2>1, <2>2, MaxU32Type DEF Fits
  <2> QED BY <2>3 DEF p
<1>2. TooLong(x) <=> \E name \in PayloadNames : Long(x.app_data[name])
  BY DEF TooLong
<1>3. (\E name \in PayloadNames : Long(x.app_data[name]))
        <=> \/ Long(x.app_data["resource_payload"])
            \/ Long(x.app_data["discovery_payload"])
            \/ Long(x.app_data["external_payload"])
            \/ Long(x.app_data["application_payload"])
  <2> HIDE DEF Long
  <2> QED BY DEF PayloadNames
<1>4. /\ Payload(x, 1) = x.app_data["resource_payload"]
      /\ Payload(x, 2) = x.app_data["discovery_payload"]
      /\ Payload(x, 3) = x.app_data["external_payload"]
      /\ Payload(x, 4) = x.app_data["application_payload"]
  BY DEF Payload
<1>5. (\E n \in 1 .. 4 : ~Fits(Payload(x, n)))
        <=> ~Fits(Payload(x, 1)) \/ ~Fits(Payload(x, 2))
              \/ ~Fits(Payload(x, 3)) \/ ~Fits(Payload(x, 4))
  <2>1. 1 .. 4 = {1, 2, 3, 4}
    OBVIOUS
  <2> QED BY <2>1
<1>6. TooLong(x) <=> Long(Payload(x, 1)) \/ Long(Payload(x, 2))
                       \/ Long(Payload(x, 3)) \/ Long(Payload(x, 4))
  <2> HIDE DEF Long
  <2> QED BY <1>2, <1>3, <1>4
<1> HIDE DEF Long
<1> QED BY <1>1, <1>5, <1>6

\* The typing of the current payload, in the words of TypeOK.
LEMMA CurrentPayload ==
  ASSUME IInv
  PROVE  /\ instance \in Instances /\ part \in 1 .. 4 /\ i \in Nat \ {0}
         /\ Payload(instance, part) \in Seq(Blob)
         /\ Len(Payload(instance, part)) \in Nat
         /\ DOMAIN Payload(instance, part) = 1 .. Len(Payload(instance, part))
         /\ \A k \in 1 .. Len(Payload(instance, part)) :
              Payload(instance, part)[k] \in Blob
<1>1. instance \in Instances /\ part \in 1 .. 4
  BY DEF IInv, TypeOK
<1>2. i \in 1 .. Len(Payload(instance, part)) + 1
  BY DEF IInv, TypeOK
<1>3. /\ Payload(instance, part) \in Seq(Blob)
      /\ Len(Payload(instance, part)) \in Nat
      /\ DOMAIN Payload(instance, part) = 1 .. Len(Payload(instance, part))
      /\ \A k \in 1 .. Len(Payload(instance, part)) :
           Payload(instance, part)[k] \in Blob
  BY <1>1, PayloadType
<1> QED BY <1>1, <1>2, <1>3

\* The first byte is still to be written.
LEMMA InitInv == Init => IInv
<1> SUFFICES ASSUME Init PROVE IInv
  OBVIOUS
<1>1. instance \in Instances /\ part = 1 /\ i = 1 /\ pc = "header" /\ out = <<>>
  BY DEF Init
<1>2. Len(Payload(instance, part)) \in Nat
  BY <1>1, PayloadType
<1>3. TypeOK
  BY <1>1, <1>2 DEF TypeOK
<1> QED BY <1>1, <1>3 DEF IInv

\* The header.
LEMMA HeaderStep == IInv /\ EncodeHeader => IInv'
<1> SUFFICES ASSUME IInv, EncodeHeader PROVE IInv'
  OBVIOUS
<1>1. /\ instance' = instance /\ part' = part /\ i' = i
      /\ pc = "header" /\ pc' = "length"
      /\ out' = <<instance.tag>> \o to_le_bytes(IF instance.is_consumed THEN 1 ELSE 0)
                  \o <<instance.action_tree_root>>
  BY DEF EncodeHeader
<1>2. instance \in Instances /\ part = 1 /\ i = 1
  BY <1>1 DEF IInv
<1>3. out' = Before(instance, part) /\ out' \in Seq(Byte)
  BY <1>1, <1>2, HeaderIs, BeforeIs
<1>4. TypeOK'
  BY <1>1, <1>3 DEF IInv, TypeOK
<1>5. \A n \in 1 .. part' - 1 : Fits(Payload(instance', n))
  BY <1>1, <1>2
<1> QED BY <1>1, <1>2, <1>3, <1>4, <1>5 DEF IInv

\* The number of blobs.
LEMMA LengthStep == IInv /\ EncodeLength => IInv'
<1> SUFFICES ASSUME IInv, EncodeLength PROVE IInv'
  OBVIOUS
<1> DEFINE p == Payload(instance, part)
           n == Len(p)
<1>1. /\ instance' = instance /\ part' = part /\ i' = i /\ pc = "length"
      /\ IF FitsU32(n)
         THEN pc' = "blobs" /\ out' = out \o to_le_bytes(n)
         ELSE pc' = "panicked" /\ out' = out
  BY DEF EncodeLength
<1>2. instance \in Instances /\ part \in 1 .. 4 /\ p \in Seq(Blob) /\ n \in Nat
  BY CurrentPayload
<1>3. i = 1 /\ out = Before(instance, part)
  BY <1>1 DEF IInv
<1>4. out \in Seq(Byte) /\ \A k \in 1 .. part - 1 : Fits(Payload(instance, k))
  BY DEF IInv, TypeOK
<1>5. i \in 1 .. n + 1
  BY DEF IInv, TypeOK
<1>6. CASE FitsU32(n)
  <2>1. n \in 0 .. MaxU32
    BY <1>2, <1>6, MaxU32Type DEF FitsU32
  <2>2. to_le_bytes(n) = packed_length(n) /\ to_le_bytes(n) \in Seq(Byte)
    BY <2>1, LengthsAgree, WordBytes
  <2>3. Written(p)[0] = <<>>
    BY <1>2, WrittenIs
  <2>4. to_le_bytes(n) \o <<>> = to_le_bytes(n)
    <3> DEFINE w == to_le_bytes(n)
    <3>1. w \in Seq(Byte)
      BY <2>2
    <3> HIDE DEF w
    <3>2. w \o <<>> = w
      BY <3>1, ConcatEmptySeq
    <3> QED BY <3>2 DEF w
  <2>5. out' = Before(instance, part) \o (packed_length(n) \o Written(p)[i - 1])
    <3>1. i - 1 = 0
      BY <1>3
    <3>2. packed_length(n) \o Written(p)[i - 1] = to_le_bytes(n)
      BY <2>2, <2>3, <2>4, <3>1
    <3> QED BY <1>1, <1>3, <1>6, <3>2
  <2>6. out' \in Seq(Byte)
    <3> DEFINE w == to_le_bytes(n)
    <3>1. w \in Seq(Byte) /\ out' = out \o w
      BY <1>1, <1>6, <2>2
    <3> HIDE DEF w
    <3> QED BY <1>4, <3>1, ConcatProperties
  <2>7. pc' = "blobs"
    BY <1>1, <1>6
  <2>8. \A k \in 1 .. i - 1 : Len(p[k].blob) <= MaxU32
    BY <1>3
  <2>9. BlobsWritten'
    BY <1>1, <2>1, <2>5, <2>8 DEF BlobsWritten
  <2>10. TypeOK'
    BY <1>1, <1>2, <1>5, <2>6, <2>7 DEF TypeOK
  <2> QED BY <1>1, <1>2, <1>4, <2>7, <2>9, <2>10 DEF IInv
<1>7. CASE ~FitsU32(n)
  <2>1. ~Fits(p)
    BY <1>7 DEF FitsU32, Fits
  <2>2. TooLong(instance)
    BY <1>2, <2>1, TooLongIs
  <2>3. pc' = "panicked" /\ out' = out
    BY <1>1, <1>7
  <2>4. TypeOK'
    BY <1>1, <1>2, <1>4, <1>5, <2>3 DEF TypeOK
  <2> QED BY <1>1, <1>2, <1>4, <2>2, <2>3, <2>4 DEF IInv
<1> QED BY <1>6, <1>7

\* A blob.
LEMMA BlobStep == IInv /\ EncodeBlob => IInv'
<1> SUFFICES ASSUME IInv, EncodeBlob PROVE IInv'
  OBVIOUS
<1> DEFINE p == Payload(instance, part)
           b == p[i]
           c == deletion_criterion[b.deletion_criterion]
<1>1. /\ instance' = instance /\ part' = part
      /\ pc = "blobs" /\ i <= Len(p)
      /\ IF FitsU32(Len(b.blob))
         THEN out' = out \o EncodedBlob(b) /\ i' = i + 1 /\ pc' = pc
         ELSE out' = Append(out, c) /\ pc' = "panicked" /\ i' = i
  BY DEF EncodeBlob
<1>2. /\ instance \in Instances /\ part \in 1 .. 4 /\ p \in Seq(Blob)
      /\ Len(p) \in Nat /\ DOMAIN p = 1 .. Len(p) /\ i \in Nat \ {0}
      /\ \A k \in 1 .. Len(p) : p[k] \in Blob
  BY CurrentPayload
<1>3. i \in 1 .. Len(p) /\ b \in Blob /\ Len(b.blob) \in Nat
  BY <1>1, <1>2, BlobParts
<1>4. BlobsWritten
  BY <1>1 DEF IInv
<1>5. /\ Len(p) <= MaxU32
      /\ \A k \in 1 .. i - 1 : Len(p[k].blob) <= MaxU32
      /\ out = Before(instance, part) \o (packed_length(Len(p)) \o Written(p)[i - 1])
  BY <1>4 DEF BlobsWritten
<1>6. out \in Seq(Byte) /\ \A k \in 1 .. part - 1 : Fits(Payload(instance, k))
  BY DEF IInv, TypeOK
<1>7. CASE FitsU32(Len(b.blob))
  <2>1. EncodedBlob(b) = PackedBlob(b) /\ PackedBlob(b) \in Seq(Byte)
    BY <1>3, <1>7, BlobsAgree, PackedBlobIs DEF FitsU32
  <2> DEFINE h == Before(instance, part)
             l == packed_length(Len(p))
             w == Written(p)[i - 1]
             e == PackedBlob(b)
  <2>2. h \in Seq(Byte) /\ l \in Seq(Byte) /\ e \in Seq(Byte)
    BY <1>2, <2>1, BeforeIs, LengthBytes
  <2>3. w \in Seq(Byte) /\ Written(p)[i] = w \o e
    <3>1. i - 1 \in 0 .. Len(p)
      BY <1>2, <1>3
    <3>2. /\ \A n \in 0 .. Len(p) : Written(p)[n] \in Seq(Byte)
          /\ \A n \in 1 .. Len(p) :
               Written(p)[n] = Written(p)[n - 1] \o PackedBlob(p[n])
      BY <1>2, WrittenIs
    <3> HIDE DEF p
    <3> QED BY <1>3, <3>1, <3>2
  <2>4. out' = (h \o (l \o w)) \o e
    BY <1>1, <1>5, <1>7, <2>1
  <2>5. (h \o (l \o w)) \o e = h \o (l \o (w \o e)) /\ (h \o (l \o w)) \o e \in Seq(Byte)
    <3> HIDE DEF h, l, w, e
    <3>1. l \o w \in Seq(Byte)
      BY <2>2, <2>3, ConcatProperties
    <3>2. (l \o w) \o e = l \o (w \o e)
      BY <2>2, <2>3, ConcatAssociative
    <3> DEFINE lw == l \o w
    <3>3. lw \in Seq(Byte)
      BY <3>1
    <3>4. h \o lw \o e = h \o (lw \o e) /\ h \o lw \in Seq(Byte)
      <4> HIDE DEF lw
      <4> QED BY <2>2, <3>3, ConcatAssociative, ConcatProperties
    <3> DEFINE hlw == h \o lw
    <3>5. hlw \in Seq(Byte)
      BY <3>4
    <3>6. hlw \o e \in Seq(Byte)
      <4> HIDE DEF hlw
      <4> QED BY <2>2, <3>5, ConcatProperties
    <3> QED BY <3>2, <3>4, <3>6
  <2>6. out' = Before(instance, part) \o (packed_length(Len(p)) \o Written(p)[i])
    BY <2>3, <2>4, <2>5
  <2>7. i' = i + 1 /\ pc' = "blobs" /\ i' - 1 = i /\ i' \in 1 .. Len(p) + 1
    BY <1>1, <1>2, <1>7
  <2>8. \A k \in 1 .. i' - 1 : Len(p[k].blob) <= MaxU32
    <3> SUFFICES ASSUME NEW k \in 1 .. i PROVE Len(p[k].blob) <= MaxU32
      BY <2>7
    <3>1. CASE k = i
      BY <1>7, <3>1 DEF FitsU32
    <3>2. CASE k \in 1 .. i - 1
      BY <1>5, <3>2
    <3> QED BY <1>2, <3>1, <3>2
  <2>9. out' \in Seq(Byte)
    BY <2>4, <2>5
  <2> HIDE DEF h, l, w, e
  <2>10. BlobsWritten'
    <3>1. out' = Before(instance, part) \o (packed_length(Len(p)) \o Written(p)[i' - 1])
      BY <2>6, <2>7
    <3> QED BY <1>1, <1>5, <2>8, <3>1 DEF BlobsWritten
  <2>11. TypeOK'
    BY <1>1, <1>2, <2>7, <2>9 DEF TypeOK
  <2> QED BY <1>1, <1>2, <1>6, <2>7, <2>10, <2>11 DEF IInv
<1>8. CASE ~FitsU32(Len(b.blob))
  <2>1. ~Fits(p)
    BY <1>2, <1>3, <1>8 DEF FitsU32, Fits
  <2>2. TooLong(instance)
    BY <1>2, <2>1, TooLongIs
  <2>3. pc' = "panicked" /\ out' = Append(out, c) /\ i' = i
    BY <1>1, <1>8
  <2>4. c \in Byte
    <3>1. 0 \in Byte /\ 1 \in Byte
      BY BaseAssumption DEF Byte
    <3>2. b.deletion_criterion \in {"Immediately", "Never"}
      BY <1>3 DEF Blob
    <3> HIDE DEF b
    <3> QED BY <3>1, <3>2 DEF deletion_criterion
  <2>5. out' \in Seq(Byte)
    <3> HIDE DEF c
    <3> QED BY <1>6, <2>3, <2>4, AppendProperties
  <2>6. TypeOK'
    BY <1>1, <1>2, <1>3, <2>3, <2>5 DEF TypeOK
  <2> QED BY <1>1, <1>2, <1>6, <2>2, <2>3, <2>6 DEF IInv
<1> QED BY <1>7, <1>8

\* The next payload, or the end.
LEMMA PayloadStep == IInv /\ PayloadDone => IInv'
<1> SUFFICES ASSUME IInv, PayloadDone PROVE IInv'
  OBVIOUS
<1> DEFINE p == Payload(instance, part)
<1>1. /\ instance' = instance /\ out' = out
      /\ pc = "blobs" /\ i > Len(p)
      /\ IF part < 4
         THEN part' = part + 1 /\ i' = 1 /\ pc' = "length"
         ELSE pc' = "done" /\ part' = part /\ i' = i
  BY DEF PayloadDone
<1>2. /\ instance \in Instances /\ part \in 1 .. 4 /\ p \in Seq(Blob)
      /\ Len(p) \in Nat /\ DOMAIN p = 1 .. Len(p) /\ i \in Nat \ {0}
  BY CurrentPayload
<1>3. BlobsWritten
  BY <1>1 DEF IInv
<1>4. out \in Seq(Byte) /\ i \in 1 .. Len(p) + 1
      /\ \A k \in 1 .. part - 1 : Fits(Payload(instance, k))
  BY DEF IInv, TypeOK
<1>5. i - 1 = Len(p)
  BY <1>1, <1>2, <1>4
<1>6. Fits(p)
  BY <1>2, <1>3, <1>5 DEF BlobsWritten, Fits
<1>7. out = Before(instance, part) \o packed_payload(p)
  <2>1. Written(p)[i - 1] = encodePayload(p)
    BY <1>2, <1>5, WrittenIs
  <2> QED BY <1>3, <2>1 DEF BlobsWritten, packed_payload
<1>8. out = Before(instance, part + 1)
  BY <1>2, <1>7, BeforeIs
<1>9. \A k \in 1 .. part : Fits(Payload(instance, k))
  <2> SUFFICES ASSUME NEW k \in 1 .. part PROVE Fits(Payload(instance, k))
    OBVIOUS
  <2>1. CASE k = part
    BY <1>6, <2>1
  <2>2. CASE k \in 1 .. part - 1
    BY <1>4, <2>2
  <2> QED BY <1>2, <2>1, <2>2
<1>10. CASE part < 4
  <2>1. part' = part + 1 /\ i' = 1 /\ pc' = "length" /\ part' \in 1 .. 4
        /\ part' - 1 = part
    BY <1>1, <1>2, <1>10
  <2>2. Len(Payload(instance, part')) \in Nat
    BY <1>2, <2>1, PayloadType
  <2>3. TypeOK'
    BY <1>1, <1>4, <2>1, <2>2 DEF TypeOK
  <2>4. out' = Before(instance, part')
    BY <1>1, <1>8, <2>1
  <2> QED BY <1>1, <1>2, <1>9, <2>1, <2>3, <2>4 DEF IInv
<1>11. CASE ~(part < 4)
  <2>1. part = 4 /\ part' = part /\ i' = i /\ pc' = "done"
    BY <1>1, <1>2, <1>11
  <2>2. TypeOK'
    BY <1>1, <1>2, <1>4, <2>1 DEF TypeOK
  <2>3. ~TooLong(instance)
    BY <1>2, <1>9, <2>1, TooLongIs
  <2>4. part + 1 = 5
    BY <2>1
  <2>5. out' = SolidityEncode(instance)
    BY <1>1, <1>2, <1>8, <2>4, BeforeIs
  <2> QED BY <1>1, <1>2, <1>4, <2>1, <2>2, <2>3, <2>5 DEF IInv
<1> QED BY <1>10, <1>11

\* Every step keeps the invariant.
LEMMA NextInv == IInv /\ [Next]_vars => IInv'
<1> SUFFICES ASSUME IInv, [Next]_vars PROVE IInv'
  OBVIOUS
<1>1. CASE UNCHANGED vars
  BY <1>1 DEF vars, IInv, TypeOK, BlobsWritten
<1> QED
  BY <1>1, HeaderStep, LengthStep, BlobStep, PayloadStep DEF Next

\* The invariant holds throughout.
LEMMA Inv == Spec => []IInv
<1> QED BY InitInv, NextInv, PTL DEF Spec

\* The guest stays within its loops and writes nothing but bytes.
THEOREM TypeCorrect == Spec => []TypeOK
<1>1. IInv => TypeOK
  BY DEF IInv
<1> QED BY <1>1, Inv, PTL

\* Whatever the instance and the size of a byte: when the guest has written the
\* journal of an instance, it is the one the contract computes, so the digest
\* the K signers sign is the digest the adapter verifies.
THEOREM SameJournal == Spec => []EncodersAgree
<1>1. IInv => EncodersAgree
  BY DEF IInv, EncodersAgree
<1> QED BY <1>1, Inv, PTL

\* The guest never ends in the panic of encode_payload for an instance whose
\* lengths the contract encodes whole, and never finishes for another.
THEOREM PanicsWhenCutOff == Spec => []PanicsExactly
<1>1. IInv => PanicsExactly
  BY DEF IInv, PanicsExactly
<1> QED BY <1>1, Inv, PTL

-----------------------------------------------------------------------------
(* Reading back. *)

\* The bytes w stand in s from index k on.
Holds(s, k, w) ==
  \A j \in 1 .. Len(w) : k + j - 1 \in DOMAIN s /\ s[k + j - 1] = w[j]

\* What holds two pieces holds each at its place.
LEMMA HoldsPieces ==
  ASSUME NEW s, NEW k \in Nat, NEW u \in Seq(Byte), NEW v \in Seq(Byte),
         Holds(s, k, u \o v)
  PROVE  Holds(s, k, u) /\ Holds(s, k + Len(u), v)
<1>1. /\ Len(u) \in Nat /\ Len(v) \in Nat /\ Len(u \o v) = Len(u) + Len(v)
      /\ \A j \in 1 .. Len(u) + Len(v) :
           (u \o v)[j] = IF j <= Len(u) THEN u[j] ELSE v[j - Len(u)]
  BY ConcatProperties, LenProperties
<1>2. ASSUME NEW j \in 1 .. Len(u)
      PROVE  k + j - 1 \in DOMAIN s /\ s[k + j - 1] = u[j]
  <2>1. j \in 1 .. Len(u) + Len(v) /\ j <= Len(u)
    BY <1>1
  <2>2. (u \o v)[j] = u[j]
    BY <1>1, <2>1
  <2> QED BY <1>1, <2>1, <2>2 DEF Holds
<1>3. ASSUME NEW j \in 1 .. Len(v)
      PROVE  (k + Len(u)) + j - 1 \in DOMAIN s /\ s[(k + Len(u)) + j - 1] = v[j]
  <2> DEFINE m == Len(u) + j
  <2>1. m \in 1 .. Len(u) + Len(v) /\ ~(m <= Len(u)) /\ m - Len(u) = j
        /\ k + m - 1 = (k + Len(u)) + j - 1
    BY <1>1
  <2> HIDE DEF m
  <2>2. (u \o v)[m] = v[j]
    BY <1>1, <2>1
  <2>3. k + m - 1 \in DOMAIN s /\ s[k + m - 1] = (u \o v)[m]
    BY <1>1, <2>1 DEF Holds
  <2> QED BY <2>1, <2>2, <2>3
<1> QED BY <1>2, <1>3 DEF Holds

\* The four bytes of a number read as the number.
LEMMA WordRead ==
  ASSUME NEW s, NEW k \in Nat, NEW n \in 0 .. MaxU32, Holds(s, k, to_le_bytes(n))
  PROVE  ReadU32(s, k) = n
<1>1. /\ Len(to_le_bytes(n)) = 4
      /\ \A d \in 1 .. 4 : to_le_bytes(n)[d] = ByteAt(n, d - 1)
  BY WordBytes
<1>2. ASSUME NEW d \in 1 .. 4 PROVE Read(s, k + d - 1) = ByteAt(n, d - 1)
  BY <1>1 DEF Holds, Read
<1>3. /\ k + 1 - 1 = k /\ k + 2 - 1 = k + 1 /\ k + 3 - 1 = k + 2 /\ k + 4 - 1 = k + 3
  OBVIOUS
<1>4. /\ Read(s, k) = ByteAt(n, 0) /\ Read(s, k + 1) = ByteAt(n, 1)
      /\ Read(s, k + 2) = ByteAt(n, 2) /\ Read(s, k + 3) = ByteAt(n, 3)
  <2>1. 1 \in 1 .. 4 /\ 2 \in 1 .. 4 /\ 3 \in 1 .. 4 /\ 4 \in 1 .. 4
    OBVIOUS
  <2>2. /\ Read(s, k + 1 - 1) = ByteAt(n, 1 - 1) /\ Read(s, k + 2 - 1) = ByteAt(n, 2 - 1)
        /\ Read(s, k + 3 - 1) = ByteAt(n, 3 - 1) /\ Read(s, k + 4 - 1) = ByteAt(n, 4 - 1)
    BY <1>2, <2>1
  <2> QED BY <1>3, <2>2
<1>5. n = Number(ByteAt(n, 0), ByteAt(n, 1), ByteAt(n, 2), ByteAt(n, 3))
  BY NumberOfBytes
<1> QED BY <1>4, <1>5 DEF ReadU32, Number

\* The blob read at index here.
BlobRead(s, here) ==
  [deletion_criterion |-> IF Read(s, here) = 0 THEN "Immediately" ELSE "Never",
   blob |-> [b \in 1 .. ReadU32(s, here + 1) |-> Read(s, here + 4 + b)]]

\* A blob is read as it was written.
LEMMA BlobIsRead ==
  ASSUME NEW s, NEW k \in Nat, NEW b \in Blob, Len(b.blob) <= MaxU32,
         Holds(s, k, PackedBlob(b))
  PROVE  BlobRead(s, k) = b /\ ReadU32(s, k + 1) = Len(b.blob)
<1> DEFINE c == <<deletion_criterion[b.deletion_criterion]>>
           n == Len(b.blob)
           l == packed_length(n)
           t == b.blob
<1>1. c \in Seq(Byte) /\ l \in Seq(Byte) /\ t \in Seq(Byte) /\ n \in Nat
  BY BlobParts
<1>2. Len(c) = 1 /\ Len(l) = 4 /\ c[1] = deletion_criterion[b.deletion_criterion]
  BY <1>1, LengthBytes
<1>3. n \in 0 .. MaxU32
  BY <1>1, MaxU32Type
<1>4. l = to_le_bytes(n)
  BY <1>3, LengthsAgree
<1>5. Holds(s, k, (c \o l) \o t)
  BY DEF PackedBlob
<1> HIDE DEF c, l, t
<1>6. Holds(s, k, c \o l) /\ Holds(s, k + 5, t)
  <2> DEFINE cl == c \o l
  <2>1. cl \in Seq(Byte) /\ Len(cl) = Len(c) + Len(l) /\ Holds(s, k, cl \o t)
    BY <1>1, <1>5, ConcatProperties
  <2>2. Len(cl) = 5
    BY <1>2, <2>1
  <2> HIDE DEF cl
  <2>3. Holds(s, k, cl) /\ Holds(s, k + Len(cl), t)
    BY <1>1, <2>1, HoldsPieces
  <2> QED BY <2>2, <2>3 DEF cl
<1>7. Holds(s, k, c) /\ Holds(s, k + 1, l)
  <2>1. Holds(s, k, c) /\ Holds(s, k + Len(c), l)
    BY <1>1, <1>6, HoldsPieces
  <2> QED BY <1>2, <2>1
<1>8. ReadU32(s, k + 1) = n
  BY <1>3, <1>4, <1>7, WordRead
<1>9. Read(s, k) = deletion_criterion[b.deletion_criterion]
  <2>1. 1 \in 1 .. Len(c) /\ k + 1 - 1 = k
    BY <1>2
  <2> QED BY <1>2, <1>7, <2>1 DEF Holds, Read
<1>10. (IF Read(s, k) = 0 THEN "Immediately" ELSE "Never") = b.deletion_criterion
  <2>1. b.deletion_criterion \in {"Immediately", "Never"}
    BY DEF Blob
  <2> QED BY <1>9, <2>1 DEF deletion_criterion
<1>11. [j \in 1 .. n |-> Read(s, k + 4 + j)] = t
  <2>1. t \in [1 .. n -> Byte]
    BY <1>1, LenProperties DEF t
  <2>2. ASSUME NEW j \in 1 .. n PROVE Read(s, k + 4 + j) = t[j]
    <3>1. (k + 5) + j - 1 = k + 4 + j
      BY <1>1
    <3>2. j \in 1 .. Len(t)
      BY DEF t
    <3> QED BY <1>6, <3>1, <3>2 DEF Holds, Read
  <2> QED BY <2>1, <2>2
<1>12. b = [deletion_criterion |-> b.deletion_criterion, blob |-> b.blob]
  BY DEF Blob
<1>13. BlobRead(s, k)
         = [deletion_criterion |-> IF Read(s, k) = 0 THEN "Immediately" ELSE "Never",
            blob |-> [j \in 1 .. n |-> Read(s, k + 4 + j)]]
  BY <1>8 DEF BlobRead
<1>14. BlobRead(s, k) = [deletion_criterion |-> b.deletion_criterion, blob |-> t]
  BY <1>10, <1>11, <1>13
<1> QED BY <1>8, <1>12, <1>14 DEF t

\* What the reader knows after one more blob.
ReadOn(s, r) ==
  [next |-> r.next + 5 + ReadU32(s, r.next + 1),
   blobs |-> Append(r.blobs, BlobRead(s, r.next))]

\* The reader of a payload that starts at index at, after n blobs of it.
Reader(p, at, n) ==
  [next |-> at + 4 + Len(Written(p)[n]), blobs |-> SubSeq(p, 1, n)]

\* A payload that fits is read as it was written.
LEMMA PayloadIsRead ==
  ASSUME NEW s, NEW at \in Nat, NEW p \in Seq(Blob), Fits(p),
         Holds(s, at, packed_payload(p))
  PROVE  ReadPayload(s, at) = [next |-> at + Len(packed_payload(p)), blobs |-> p]
<1> DEFINE N == Len(p)
           W(n) == Written(p)[n]
           l == packed_length(N)
           e == encodePayload(p)
           after == CHOOSE h : h = [n \in 0 .. ReadU32(s, at) |->
                      IF n = 0 THEN [next |-> at + 4, blobs |-> <<>>]
                      ELSE ReadOn(s, h[n - 1])]
<1>1. /\ N \in Nat /\ DOMAIN p = 1 .. N /\ N <= MaxU32
      /\ \A n \in 1 .. N : p[n] \in Blob /\ Len(p[n].blob) <= MaxU32
  <2>1. N \in Nat /\ DOMAIN p = 1 .. N
    BY LenProperties
  <2>2. \A n \in 1 .. N : p[n] \in Blob
    BY ElementOfSeq
  <2> QED BY <2>1, <2>2 DEF Fits
<1>2. /\ \A n \in 0 .. N : W(n) \in Seq(Byte)
      /\ W(0) = <<>> /\ W(N) = e
      /\ \A n \in 1 .. N : W(n) = W(n - 1) \o PackedBlob(p[n])
  BY WrittenIs
<1>3. l \in Seq(Byte) /\ Len(l) = 4 /\ l = to_le_bytes(N) /\ N \in 0 .. MaxU32
  <2>1. N \in 0 .. MaxU32
    BY <1>1, MaxU32Type
  <2> QED BY <1>1, <2>1, LengthBytes, LengthsAgree
<1>4. e \in Seq(Byte) /\ packed_payload(p) = l \o e
  <2>1. e \in Seq(Byte)
    BY <1>1, <1>2
  <2> QED BY <2>1 DEF packed_payload
<1>5. ReadPayload(s, at) = after[ReadU32(s, at)]
  BY DEF ReadPayload, ReadOn, BlobRead
<1> HIDE DEF N, W, l, e
<1>6. Holds(s, at, l) /\ Holds(s, at + 4, e)
  <2>1. Holds(s, at, l \o e)
    BY <1>4
  <2>2. Holds(s, at, l) /\ Holds(s, at + Len(l), e)
    BY <1>3, <1>4, <2>1, HoldsPieces
  <2> QED BY <1>3, <2>2
<1>7. ReadU32(s, at) = N
  BY <1>3, <1>6, WordRead
<1> DEFINE B == {m \in Nat : m <= N => Holds(s, at + 4, W(N - m))}
<1>8. \A n \in 1 .. N : /\ W(n - 1) \in Seq(Byte) /\ PackedBlob(p[n]) \in Seq(Byte)
                        /\ Len(W(n)) = Len(W(n - 1)) + 5 + Len(p[n].blob)
                        /\ Len(W(n - 1)) \in Nat /\ Len(p[n].blob) \in Nat
  <2> SUFFICES ASSUME NEW n \in 1 .. N
               PROVE  /\ W(n - 1) \in Seq(Byte) /\ PackedBlob(p[n]) \in Seq(Byte)
                      /\ Len(W(n)) = Len(W(n - 1)) + 5 + Len(p[n].blob)
                      /\ Len(W(n - 1)) \in Nat /\ Len(p[n].blob) \in Nat
    OBVIOUS
  <2> DEFINE v == W(n - 1)
             x == PackedBlob(p[n])
  <2>1. n - 1 \in 0 .. N
    BY <1>1
  <2>2. v \in Seq(Byte) /\ W(n) = v \o x
    BY <1>2, <2>1
  <2>3. x \in Seq(Byte) /\ Len(x) = 5 + Len(p[n].blob) /\ Len(p[n].blob) \in Nat
    BY <1>1, PackedBlobIs, BlobParts
  <2>4. Len(v \o x) = Len(v) + Len(x) /\ Len(v) \in Nat
    <3> HIDE DEF v, x
    <3> QED BY <2>2, <2>3, ConcatProperties, LenProperties
  <2>5. Len(W(n)) = Len(v) + 5 + Len(p[n].blob)
    <3>1. Len(W(n)) = Len(v) + Len(x)
      BY <2>2, <2>4
    <3>2. Len(W(n)) = Len(v) + (5 + Len(p[n].blob))
      BY <2>3, <3>1
    <3>3. \A y, z \in Nat : y + (5 + z) = y + 5 + z
      OBVIOUS
    <3> HIDE DEF v
    <3> QED BY <2>3, <2>4, <3>2, <3>3
  <2> QED BY <2>2, <2>3, <2>4, <2>5
<1>9. 0 \in B
  BY <1>1, <1>2, <1>6
<1>10. ASSUME NEW m \in Nat, m \in B PROVE m + 1 \in B
  <2> SUFFICES ASSUME m + 1 <= N PROVE Holds(s, at + 4, W(N - (m + 1)))
    OBVIOUS
  <2> DEFINE n == N - m
             v == W(n - 1)
             x == PackedBlob(p[n])
  <2>1. n \in 1 .. N /\ n - 1 = N - (m + 1) /\ m <= N
    BY <1>1
  <2>2. Holds(s, at + 4, W(n))
    BY <1>10, <2>1
  <2> HIDE DEF n
  <2>3. W(n) = v \o x /\ v \in Seq(Byte) /\ x \in Seq(Byte)
    BY <1>2, <1>8, <2>1
  <2>4. at + 4 \in Nat /\ Holds(s, at + 4, v \o x)
    BY <2>2, <2>3
  <2> HIDE DEF v, x
  <2>5. Holds(s, at + 4, v)
    BY <2>3, <2>4, HoldsPieces
  <2> QED BY <2>1, <2>5 DEF v
<1>11. Nat \subseteq B
  <2> HIDE DEF B
  <2> QED BY <1>9, <1>10, NatSetInduction
<1>12. \A n \in 0 .. N : Holds(s, at + 4, W(n))
  <2> SUFFICES ASSUME NEW n \in 0 .. N PROVE Holds(s, at + 4, W(n))
    OBVIOUS
  <2>1. N - n \in Nat /\ N - (N - n) = n /\ N - n <= N
    BY <1>1
  <2>2. N - n \in B
    BY <1>11, <2>1
  <2>3. Holds(s, at + 4, W(N - (N - n)))
    BY <2>1, <2>2
  <2> QED BY <2>1, <2>3
<1>13. \A n \in 1 .. N : Reader(p, at, n) = ReadOn(s, Reader(p, at, n - 1))
  <2> SUFFICES ASSUME NEW n \in 1 .. N
               PROVE  Reader(p, at, n) = ReadOn(s, Reader(p, at, n - 1))
    OBVIOUS
  <2> DEFINE here == at + 4 + Len(W(n - 1))
             b == p[n]
             old == SubSeq(p, 1, n - 1)
  <2>1. Reader(p, at, n - 1) = [next |-> here, blobs |-> old]
    BY DEF Reader, W
  <2>2. Holds(s, (at + 4) + Len(W(n - 1)), PackedBlob(b))
    <3> DEFINE v == W(n - 1)
               x == PackedBlob(b)
    <3>1. Holds(s, at + 4, v \o x) /\ v \in Seq(Byte) /\ x \in Seq(Byte)
      <4>1. n \in 0 .. N
        BY <1>1
      <4>2. Holds(s, at + 4, W(n)) /\ W(n) = v \o x
        BY <1>2, <1>12, <4>1
      <4>3. Holds(s, at + 4, v \o x)
        BY <4>2
      <4>4. v \in Seq(Byte) /\ x \in Seq(Byte)
        BY <1>8
      <4> QED BY <4>3, <4>4
    <3>2. at + 4 \in Nat
      OBVIOUS
    <3> HIDE DEF v, x
    <3>3. Holds(s, (at + 4) + Len(v), x)
      BY <3>1, <3>2, HoldsPieces
    <3> QED BY <3>3 DEF v, x
  <2>3. here \in Nat /\ b \in Blob /\ Len(b.blob) <= MaxU32 /\ Holds(s, here, PackedBlob(b))
    BY <1>1, <1>8, <2>2
  <2>4. Len(W(n)) = Len(W(n - 1)) + 5 + Len(b.blob) /\ Len(W(n - 1)) \in Nat
        /\ Len(b.blob) \in Nat
    BY <1>8
  <2>5. SubSeq(p, 1, n) = Append(old, b)
    <3>1. SubSeq(p, 1, n) = old \o <<b>>
      <4>1. 1 \in 1 .. Len(p) /\ n \in 1 .. Len(p)
        BY <1>1 DEF N
      <4> QED BY <4>1, SubSeqRecursiveSecond
    <3>2. old \in Seq(Blob)
      <4>1. \A k \in 1 .. n - 1 : p[k] \in Blob
        BY <1>1
      <4>2. 1 \in Int /\ n - 1 \in Int
        BY <1>1
      <4> QED BY <4>1, <4>2, SubSeqProperties
    <3>3. Append(old, b) = old \o <<b>>
      <4> HIDE DEF old, b
      <4> QED BY <2>3, <3>2, AppendIsConcat
    <3> QED BY <3>1, <3>3
  <2> HIDE DEF here, b, old
  <2>6. BlobRead(s, here) = b /\ ReadU32(s, here + 1) = Len(b.blob)
    BY <2>3, BlobIsRead
  <2>7. ReadOn(s, [next |-> here, blobs |-> old])
          = [next |-> here + 5 + Len(b.blob), blobs |-> Append(old, b)]
    BY <2>6 DEF ReadOn
  <2>8. here + 5 + Len(b.blob) = at + 4 + Len(W(n))
    <3> DEFINE y == Len(W(n - 1))
               z == Len(b.blob)
               all == Len(W(n))
    <3>1. y \in Nat /\ z \in Nat /\ all = y + 5 + z
      BY <2>4
    <3> HIDE DEF y, z, all
    <3>2. (at + 4 + y) + 5 + z = at + 4 + all
      BY <3>1
    <3> QED BY <3>2 DEF here, y, z, all
  <2>9. Reader(p, at, n) = [next |-> at + 4 + Len(W(n)), blobs |-> SubSeq(p, 1, n)]
    BY DEF Reader, W
  <2> QED BY <2>1, <2>5, <2>7, <2>8, <2>9
<1>14. Reader(p, at, 0) = [next |-> at + 4, blobs |-> <<>>]
  <2>1. Len(W(0)) = 0 /\ SubSeq(p, 1, 0) = <<>>
    <3>1. Len(<<>>) = 0
      OBVIOUS
    <3>2. 1 \in Int /\ 0 \in Int /\ 0 < 1
      OBVIOUS
    <3> QED BY <1>2, <3>1, <3>2, SubSeqEmpty
  <2> QED BY <2>1 DEF Reader, W
<1> DEFINE g == [n \in 0 .. N |-> Reader(p, at, n)]
<1>15. g = [n \in 0 .. ReadU32(s, at) |->
              IF n = 0 THEN [next |-> at + 4, blobs |-> <<>>] ELSE ReadOn(s, g[n - 1])]
  <2>1. ASSUME NEW n \in 0 .. N
        PROVE  g[n] = IF n = 0 THEN [next |-> at + 4, blobs |-> <<>>]
                      ELSE ReadOn(s, g[n - 1])
    <3>1. CASE n = 0
      BY <1>1, <1>14, <3>1
    <3>2. CASE n # 0
      <4>1. n \in 1 .. N /\ n - 1 \in 0 .. N
        BY <1>1, <3>2
      <4>2. g[n - 1] = Reader(p, at, n - 1) /\ g[n] = Reader(p, at, n)
        BY <4>1
      <4> HIDE DEF g
      <4> QED BY <1>13, <3>2, <4>1, <4>2
    <3> QED BY <3>1, <3>2
  <2>2. g = [n \in 0 .. N |-> g[n]]
    OBVIOUS
  <2> HIDE DEF g
  <2> QED BY <1>7, <2>1, <2>2
<1>16. after = [n \in 0 .. ReadU32(s, at) |->
                 IF n = 0 THEN [next |-> at + 4, blobs |-> <<>>]
                 ELSE ReadOn(s, after[n - 1])]
  <2> HIDE DEF g
  <2> QED BY <1>15
<1> HIDE DEF after, g
<1>17. after[0] = [next |-> at + 4, blobs |-> <<>>]
       /\ \A n \in 1 .. N : after[n] = ReadOn(s, after[n - 1])
  BY <1>1, <1>7, <1>16
<1> DEFINE T == {n \in Nat : n <= N => after[n] = Reader(p, at, n)}
<1>18. 0 \in T
  BY <1>14, <1>17
<1>19. ASSUME NEW n \in Nat, n \in T PROVE n + 1 \in T
  <2> SUFFICES ASSUME n + 1 <= N PROVE after[n + 1] = Reader(p, at, n + 1)
    OBVIOUS
  <2>1. n + 1 \in 1 .. N /\ (n + 1) - 1 = n /\ n <= N
    BY <1>1
  <2>2. after[n + 1] = ReadOn(s, after[n])
    BY <1>17, <2>1
  <2>3. Reader(p, at, n + 1) = ReadOn(s, Reader(p, at, n))
    BY <1>13, <2>1
  <2>4. after[n] = Reader(p, at, n)
    BY <1>19, <2>1
  <2> QED BY <2>2, <2>3, <2>4
<1>20. Nat \subseteq T
  <2> HIDE DEF T
  <2> QED BY <1>18, <1>19, NatSetInduction
<1>21. after[N] = Reader(p, at, N)
  BY <1>1, <1>20
<1>22. SubSeq(p, 1, N) = p
  BY SubSeqFull DEF N
<1>23. Len(packed_payload(p)) = 4 + Len(e) /\ Len(e) \in Nat
  <2>1. Len(l \o e) = Len(l) + Len(e) /\ Len(e) \in Nat
    BY <1>3, <1>4, ConcatProperties, LenProperties
  <2> QED BY <1>3, <1>4, <2>1
<1>24. Reader(p, at, N) = [next |-> at + 4 + Len(e), blobs |-> p]
  BY <1>2, <1>22 DEF Reader, W
<1>25. at + Len(packed_payload(p)) = at + 4 + Len(e)
  BY <1>23
<1> QED BY <1>5, <1>7, <1>21, <1>24, <1>25

\* A whole journal is read as it was written.
LEMMA JournalIsRead ==
  ASSUME NEW x \in Instances, ~TooLong(x)
  PROVE  Decoded(SolidityEncode(x)) = x
<1> DEFINE s == SolidityEncode(x)
           p(n) == Payload(x, n)
           w(n) == packed_payload(Payload(x, n))
           B(n) == Before(x, n)
           at(n) == 1 + Len(B(n))
           bit == IF x.is_consumed THEN 1 ELSE 0
<1>1. x \in Instance
  BY InstancesAssumption
<1>2. \A n \in 1 .. 4 : p(n) \in Seq(Blob) /\ Fits(p(n)) /\ w(n) \in Seq(Byte)
  BY PayloadType, TooLongIs, WrittenIs
<1>3. /\ B(1) = Header(x) /\ B(5) = s
      /\ \A n \in 1 .. 4 : B(n) \in Seq(Byte) /\ B(n + 1) = B(n) \o w(n)
  BY BeforeIs
<1>4. s \in Seq(Byte)
  <2>1. B(4) \in Seq(Byte) /\ w(4) \in Seq(Byte) /\ B(4 + 1) = B(4) \o w(4)
    <3>1. 4 \in 1 .. 4
      OBVIOUS
    <3> HIDE DEF B, w, s
    <3> QED BY <1>2, <1>3, <3>1
  <2> DEFINE u == B(4)
             v == w(4)
  <2>2. u \in Seq(Byte) /\ v \in Seq(Byte) /\ s = u \o v
    <3>1. 4 + 1 = 5
      OBVIOUS
    <3> QED BY <1>3, <2>1, <3>1
  <2> HIDE DEF u, v, s
  <2> QED BY <2>2, ConcatProperties
<1> HIDE DEF s, p, w, B
<1>5. Holds(s, 1, s)
  <2>1. DOMAIN s = 1 .. Len(s) /\ Len(s) \in Nat
    BY <1>4, LenProperties
  <2>2. \A j \in 1 .. Len(s) : 1 + j - 1 = j
    BY <2>1
  <2> QED BY <2>1, <2>2 DEF Holds
<1>6. \A n \in 1 .. 4 :
        Holds(s, 1, B(n + 1)) => Holds(s, 1, B(n)) /\ Holds(s, at(n), w(n))
  <2> SUFFICES ASSUME NEW n \in 1 .. 4, Holds(s, 1, B(n + 1))
               PROVE  Holds(s, 1, B(n)) /\ Holds(s, at(n), w(n))
    OBVIOUS
  <2> DEFINE u == B(n)
             v == w(n)
  <2>1. u \in Seq(Byte) /\ v \in Seq(Byte) /\ Holds(s, 1, u \o v) /\ 1 \in Nat
    BY <1>2, <1>3
  <2> HIDE DEF u, v
  <2>2. Holds(s, 1, u) /\ Holds(s, 1 + Len(u), v)
    BY <2>1, HoldsPieces
  <2> QED BY <2>2 DEF u, v
<1>7. /\ Holds(s, 1, B(1)) /\ Holds(s, at(1), w(1)) /\ Holds(s, at(2), w(2))
      /\ Holds(s, at(3), w(3)) /\ Holds(s, at(4), w(4))
  <2>1. Holds(s, 1, B(4 + 1))
    <3>1. 4 + 1 = 5
      OBVIOUS
    <3> QED BY <1>3, <1>5, <3>1
  <2>2. Holds(s, 1, B(4)) /\ Holds(s, at(4), w(4))
    BY <1>6, <2>1
  <2>3. Holds(s, 1, B(3 + 1)) /\ Holds(s, 1, B(2 + 1)) /\ Holds(s, 1, B(1 + 1))
        /\ Holds(s, at(3), w(3)) /\ Holds(s, at(2), w(2))
    <3>1. 3 + 1 = 4 /\ 2 + 1 = 3 /\ 1 + 1 = 2
      OBVIOUS
    <3>2. Holds(s, 1, B(3 + 1))
      BY <2>2, <3>1
    <3>3. Holds(s, 1, B(3)) /\ Holds(s, at(3), w(3))
      BY <1>6, <3>2
    <3>4. Holds(s, 1, B(2 + 1))
      BY <3>1, <3>3
    <3>5. Holds(s, 1, B(2)) /\ Holds(s, at(2), w(2))
      BY <1>6, <3>4
    <3> QED BY <3>1, <3>2, <3>3, <3>4, <3>5
  <2>4. Holds(s, 1, B(1)) /\ Holds(s, at(1), w(1))
    BY <1>6, <2>3
  <2> QED BY <2>2, <2>3, <2>4
<1>8. \A n \in 1 .. 4 : at(n) \in Nat /\ Len(B(n)) \in Nat
  BY <1>3, LenProperties
<1>9. \A n \in 1 .. 3 : at(n + 1) = at(n) + Len(w(n))
  <2> SUFFICES ASSUME NEW n \in 1 .. 3 PROVE at(n + 1) = at(n) + Len(w(n))
    OBVIOUS
  <2> DEFINE u == B(n)
             v == w(n)
  <2>1. u \in Seq(Byte) /\ v \in Seq(Byte) /\ B(n + 1) = u \o v
    <3>1. n \in 1 .. 4
      OBVIOUS
    <3> QED BY <1>2, <1>3, <3>1
  <2>2. Len(B(n + 1)) = Len(u) + Len(v) /\ Len(u) \in Nat /\ Len(v) \in Nat
    <3> HIDE DEF u, v
    <3> QED BY <2>1, ConcatProperties, LenProperties
  <2> HIDE DEF u, v
  <2>3. 1 + (Len(u) + Len(v)) = (1 + Len(u)) + Len(v)
    BY <2>2
  <2> QED BY <2>2, <2>3 DEF u, v
<1>10. \A n \in 1 .. 4 : Holds(s, at(n), w(n)) =>
         ReadPayload(s, at(n)) = [next |-> at(n) + Len(w(n)), blobs |-> p(n)]
  BY <1>2, <1>8, PayloadIsRead DEF p, w
<1> DEFINE h == to_le_bytes(bit)
           t == <<x.tag>>
           r == <<x.action_tree_root>>
<1>11. /\ Header(x) = (t \o h) \o r /\ bit \in 0 .. MaxU32
       /\ x.tag \in Byte /\ x.action_tree_root \in Byte /\ x.is_consumed \in BOOLEAN
  BY <1>1, HeaderIs, FlagsAgree DEF Instance
<1>12. /\ t \in Seq(Byte) /\ h \in Seq(Byte) /\ r \in Seq(Byte)
       /\ Len(t) = 1 /\ Len(h) = 4 /\ Len(r) = 1
       /\ t[1] = x.tag /\ r[1] = x.action_tree_root
  BY <1>11, WordBytes
<1> HIDE DEF h, t, r
<1>13. t \o h \in Seq(Byte) /\ Len(t \o h) = 5
  <2>1. t \o h \in Seq(Byte) /\ Len(t \o h) = Len(t) + Len(h)
    BY <1>12, ConcatProperties
  <2> QED BY <1>12, <2>1
<1>14. Holds(s, 1, t) /\ Holds(s, 2, h) /\ Holds(s, 6, r) /\ Len(Header(x)) = 6
  <2> DEFINE th == t \o h
  <2>1. th \in Seq(Byte) /\ Len(th) = 5 /\ Holds(s, 1, th \o r) /\ 1 \in Nat
    BY <1>3, <1>7, <1>11, <1>13
  <2>2. Holds(s, 1, th) /\ Holds(s, 6, r) /\ Len(th \o r) = 6
    <3> HIDE DEF th
    <3>1. Holds(s, 1, th) /\ Holds(s, 1 + Len(th), r)
      BY <1>12, <2>1, HoldsPieces
    <3>2. Len(th \o r) = Len(th) + Len(r)
      BY <1>12, <2>1, ConcatProperties
    <3>3. 1 + Len(th) = 6 /\ Len(th) + Len(r) = 6
      BY <1>12, <2>1
    <3> QED BY <3>1, <3>2, <3>3
  <2>3. Holds(s, 1, t) /\ Holds(s, 1 + Len(t), h)
    BY <1>12, <2>1, <2>2, HoldsPieces
  <2>4. 1 + Len(t) = 2
    BY <1>12
  <2> QED BY <1>11, <2>2, <2>3, <2>4
<1>15. Read(s, 1) = x.tag /\ Read(s, 6) = x.action_tree_root
  <2>1. 1 \in 1 .. Len(t) /\ 1 \in 1 .. Len(r) /\ 1 + 1 - 1 = 1 /\ 6 + 1 - 1 = 6
    BY <1>12
  <2> QED BY <1>12, <1>14, <2>1 DEF Holds, Read
<1>16. ReadU32(s, 2) = bit
  <2>1. 2 \in Nat
    OBVIOUS
  <2> QED BY <1>11, <1>14, <2>1, WordRead DEF h
<1>17. (ReadU32(s, 2) = 1) = x.is_consumed
  BY <1>11, <1>16
<1>18. at(1) = 7
  <2>1. Len(B(1)) = 6
    BY <1>3, <1>14
  <2>2. \A y \in Nat : y = 6 => 1 + y = 7
    OBVIOUS
  <2>3. Len(B(1)) \in Nat
    BY <1>8
  <2> QED BY <2>1, <2>2, <2>3
<1> HIDE DEF at
<1>19. ReadPayload(s, 7) = [next |-> at(2), blobs |-> p(1)]
  <2>1. ReadPayload(s, at(1)) = [next |-> at(1) + Len(w(1)), blobs |-> p(1)]
    BY <1>7, <1>10
  <2>2. at(1 + 1) = at(1) + Len(w(1)) /\ 1 + 1 = 2
    BY <1>9
  <2> QED BY <1>18, <2>1, <2>2
<1>20. ReadPayload(s, at(2)) = [next |-> at(3), blobs |-> p(2)]
  <2>1. ReadPayload(s, at(2)) = [next |-> at(2) + Len(w(2)), blobs |-> p(2)]
    BY <1>7, <1>10
  <2>2. at(2 + 1) = at(2) + Len(w(2)) /\ 2 + 1 = 3
    BY <1>9
  <2> QED BY <2>1, <2>2
<1>21. ReadPayload(s, at(3)) = [next |-> at(4), blobs |-> p(3)]
  <2>1. ReadPayload(s, at(3)) = [next |-> at(3) + Len(w(3)), blobs |-> p(3)]
    BY <1>7, <1>10
  <2>2. at(3 + 1) = at(3) + Len(w(3)) /\ 3 + 1 = 4
    BY <1>9
  <2> QED BY <2>1, <2>2
<1>22. ReadPayload(s, at(4)).blobs = p(4)
  BY <1>7, <1>10
<1>23. Decoded(s) =
         [tag |-> x.tag, is_consumed |-> x.is_consumed,
          action_tree_root |-> x.action_tree_root,
          app_data |-> [resource_payload |-> p(1), discovery_payload |-> p(2),
                        external_payload |-> p(3), application_payload |-> p(4)]]
  BY <1>15, <1>17, <1>19, <1>20, <1>21, <1>22 DEF Decoded
<1>24. x.app_data = [resource_payload |-> p(1), discovery_payload |-> p(2),
                     external_payload |-> p(3), application_payload |-> p(4)]
  BY <1>1 DEF Instance, PayloadNames, p, Payload
<1>25. x = [tag |-> x.tag, is_consumed |-> x.is_consumed,
            action_tree_root |-> x.action_tree_root, app_data |-> x.app_data]
  BY <1>1 DEF Instance
<1> QED BY <1>23, <1>24, <1>25 DEF s

\* Whatever blobs an instance has, and however its bytes are cut into blobs and
\* payloads: the journal the guest has written can be read back, so a digest
\* that was signed for one instance is good for no other.
THEOREM OneInstancePerJournal == Spec => []Unambiguous
<1>1. IInv => Unambiguous
  BY JournalIsRead DEF IInv, Unambiguous
<1> QED BY <1>1, Inv, PTL

=============================================================================
